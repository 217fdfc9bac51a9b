------------------------ MODULE PolicySession_proofs ------------------------
(***************************************************************************)
(* One unit's session, for either runtime, any operations and any number   *)
(* of calls: it is one of PolicyCalls, a side is only charged for what its *)
(* policy did, and the server cuts nobody off.                             *)
(***************************************************************************)
EXTENDS PolicySession, TLAPS

(* The policy's code, or what answers for it, has a request in its hands. *)
Busy == server \in {"calling", "answering"}

(* Where the last call's request or reply is while the connection is open: at  *)
(* most one of the two is anywhere, and it is the last call's own.             *)
Quiet == requests = <<>> /\ replies = <<>> /\ ~Busy
Sent == requests = <<[call |-> call, op |-> op]>> /\ replies = <<>> /\ ~Busy
Served == requests = <<>> /\ replies = <<>> /\ Busy /\ serving.call = call /\ serving.op = op
Replied ==
    /\ requests = <<>> /\ ~Busy
    /\ \E kind \in {"ok", "error"} : replies = <<[call |-> call, kind |-> kind]>>

FlowInv ==
    /\ client # "idle" => conn = "open"
    /\ conn \in {"none", "dialing"} => requests = <<>> /\ replies = <<>>
    /\ conn = "open" => Quiet \/ Sent \/ Served \/ Replied
    /\ conn = "open" /\ ~Quiet => client = "waiting" \/ (client = "read" /\ got.kind = "none")
    /\ client = "waiting" /\ Quiet => shut \/ ~Up
    /\ client = "read" /\ got.kind # "none" => got.call = call

(* Before there is a connection nothing was asked, built, timed or shut, and   *)
(* no session is served without one.                                           *)
DialInv ==
    /\ unit = "off" => server = "none"
    /\ unit \in {"off", "starting"} => conn = "none"
    /\ unit = "ended" => conn = "abandoned"
    /\ conn \in {"none", "dialing"} => call = 0 /\ ~shut /\ ~built /\ timer = "off" /\ ~late
    /\ server \in {"none", "starting", "listening"} => conn # "open"
    /\ server \in {"polling", "calling", "answering"} => conn \in {"open", "abandoned"}
    /\ server = "answering" => serving.answer # "none"
    /\ server = "calling" => serving.op # "junk"
    /\ status # "none" => server = "exited"
    /\ watch = "eof" => shut
    /\ "ended" \in reasons => server = "exited"

(* Something that went wrong is the policy's, or its container was removed, or *)
(* nobody is there any more to judge the unit.                                 *)
Blamed == reasons # {} \/ status = "gone" \/ unit = "abandoned"

BlameInv ==
    /\ timer \in {"expiring", "fired"} \/ late => reasons # {}
    /\ serving.answer = "error" \/ got.kind = "error" => reasons # {}
    /\ \A i \in DOMAIN replies : replies[i].kind = "error" => reasons # {}
    /\ server = "answering" /\ serving.op = "junk" => serving.answer = "error"
    /\ status = "failed" => reasons # {}
    /\ conn = "open" /\ (shut \/ ~Up) => Blamed \/ (op = "close" /\ client # "idle")
    /\ conn = "dialing" /\ ~Up => Blamed
    /\ client = "read" /\ got.kind = "none" => Blamed \/ op = "close"
    /\ outcome = "none" /\ client = "idle" /\ Told => Blamed
    /\ outcome = "policy" => Blamed
    /\ ChargedFairly

SessionInv == SessionTypeOK /\ FlowInv /\ DialInv /\ BlameInv

-----------------------------------------------------------------------------
(* The shape of the state, part by part. *)
UnitTypeOK ==
    /\ unit \in {"off", "starting", "playing", "ended", "over", "abandoned"}
    /\ outcome \in {"none", "scored"} \cup Causes
    /\ verdict \in {"none", "scored", "failed", "void"}

ServerTypeOK ==
    /\ server \in {"none", "starting", "listening", "polling", "calling", "answering", "exited"}
    /\ status \in {"none", "clean", "failed", "gone"}
    /\ built \in BOOLEAN
    /\ serving \in [call : Calls, op : Ops \cup {"none"}, answer : Kinds]
    /\ watch \in {"asleep", "eof"} /\ stuck \in BOOLEAN

ClientTypeOK ==
    /\ conn \in {"none", "dialing", "open", "abandoned"}
    /\ client \in {"idle", "waiting", "read"}
    /\ call \in Calls
    /\ op \in Ops \cup {"none"}
    /\ got \in [call : Calls, kind : Kinds]
    /\ timer \in {"off", "armed", "expiring", "fired"}
    /\ late \in BOOLEAN
    /\ heard \in Calls

WireTypeOK ==
    /\ shut \in BOOLEAN
    /\ requests \in Seq([call : Calls, op : Ops])
    /\ replies \in Seq([call : Calls, kind : {"ok", "error"}])
    /\ reasons \in SUBSET {"raised", "ended", "overdue", "misused"}

LEMMA TypeParts == SessionTypeOK <=> UnitTypeOK /\ ServerTypeOK /\ ClientTypeOK /\ WireTypeOK
BY DEF SessionTypeOK, UnitTypeOK, ServerTypeOK, ClientTypeOK, WireTypeOK

(* Which steps are not a part's own. *)
OrchestratorSteps ==
    BenchmarkEnds \/ BenchmarkStopped \/ StartServer \/ RunBenchmark \/ NotServed \/ JudgeUnit \/ Abandon

ServerSteps ==
    \/ Listen \/ StartFails \/ Accept \/ SessionSteps \/ WatchSteps \/ PolicyReturns \/ PolicyEnds
    \/ PolicySticks \/ Removed \/ StartServer \/ NotServed \/ JudgeUnit

LEMMA OrchestratorFrame == Next => OrchestratorSteps \/ UNCHANGED orchestratorVars
<1>1. ClientSteps \/ CallSteps \/ TimerSteps => OrchestratorSteps \/ UNCHANGED orchestratorVars
  BY DEF ClientSteps, CallSteps, TimerSteps, OrchestratorSteps, Dial, DialFails, Call, Read,
         CallReturns, DeadlinePasses, DeadlineShuts, LateShuts
<1>2. SessionSteps \/ WatchSteps => UNCHANGED orchestratorVars
  BY DEF SessionSteps, WatchSteps, Receive, Answer, SeeHangup, IdleTimeout, WatchSees, WatchActs
<1>3. Listen \/ StartFails \/ Accept \/ PolicyReturns \/ PolicyEnds \/ PolicySticks \/ Removed
        => UNCHANGED orchestratorVars
  BY DEF Listen, StartFails, Accept, PolicyReturns, PolicyEnds, PolicySticks, Removed
<1> QED
  BY <1>1, <1>2, <1>3 DEF Next, OrchestratorSteps

LEMMA ServerFrame == Next => ServerSteps \/ UNCHANGED serverVars
<1>1. ClientSteps \/ CallSteps \/ TimerSteps => UNCHANGED serverVars
  BY DEF ClientSteps, CallSteps, TimerSteps, Dial, DialFails, Call, Read, CallReturns,
         DeadlinePasses, DeadlineShuts, LateShuts, BenchmarkEnds, BenchmarkStopped, BenchmarkOver
<1>2. RunBenchmark \/ Abandon => UNCHANGED serverVars
  BY DEF RunBenchmark, Abandon
<1> QED
  BY <1>1, <1>2 DEF Next, ServerSteps

LEMMA ClientFrame ==
    Next => ClientSteps \/ CallSteps \/ TimerSteps \/ Accept \/ UNCHANGED clientVars
<1>1. SessionSteps \/ WatchSteps => UNCHANGED clientVars
  BY DEF SessionSteps, WatchSteps, Receive, Answer, SeeHangup, IdleTimeout, WatchSees, WatchActs
<1>2. Listen \/ StartFails \/ PolicyReturns \/ PolicyEnds \/ PolicySticks \/ Removed
        => UNCHANGED clientVars
  BY DEF Listen, StartFails, PolicyReturns, PolicyEnds, PolicySticks, Removed
<1>3. StartServer \/ RunBenchmark \/ NotServed \/ JudgeUnit \/ Abandon => UNCHANGED clientVars
  BY DEF StartServer, RunBenchmark, NotServed, JudgeUnit, Judge, Abandon
<1> QED
  BY <1>1, <1>2, <1>3 DEF Next

-----------------------------------------------------------------------------
LEMMA HeadAndTail ==
    ASSUME NEW S, NEW q \in Seq(S), q # <<>>
    PROVE  Head(q) \in S /\ Tail(q) \in Seq(S)
OBVIOUS

LEMMA UnitTypes ==
    ASSUME SessionTypeOK, Next
    PROVE  UnitTypeOK'
<1>0. UnitTypeOK
  BY TypeParts
<1>1. CASE BenchmarkEnds \/ BenchmarkStopped
  <2>1. PICK result \in {"scored", "harness", "nobody", "policy"} : BenchmarkOver(result)
    BY <1>1 DEF BenchmarkEnds, BenchmarkStopped
  <2> QED
    BY <1>0, <2>1 DEF BenchmarkOver, UnitTypeOK, Causes
<1>2. CASE StartServer \/ RunBenchmark \/ Abandon
  BY <1>0, <1>2 DEF StartServer, RunBenchmark, Abandon, UnitTypeOK
<1>3. CASE NotServed \/ JudgeUnit
  <2>1. PICK what \in {"scored", "failed", "void"} : Judge(what)
    BY <1>3 DEF NotServed, JudgeUnit, Attributed
  <2> QED
    BY <1>0, <2>1 DEF Judge, UnitTypeOK
<1>4. CASE UNCHANGED orchestratorVars
  BY <1>0, <1>4 DEF orchestratorVars, UnitTypeOK
<1> QED
  BY <1>1, <1>2, <1>3, <1>4, OrchestratorFrame DEF OrchestratorSteps

LEMMA ServerTypes ==
    ASSUME SessionTypeOK, Next
    PROVE  ServerTypeOK'
<1>0. ServerTypeOK /\ requests \in Seq([call : Calls, op : Ops])
  BY TypeParts DEF WireTypeOK
<1>1. CASE StartFails \/ SeeHangup \/ IdleTimeout \/ PolicyEnds \/ Removed
  <2>1. PICK how \in {"clean", "failed", "gone"} : Exit(how)
    BY <1>1 DEF StartFails, SeeHangup, IdleTimeout, PolicyEnds, PolicySticks, Removed
  <2> QED
    BY <1>0, <2>1 DEF Exit, ServerTypeOK
<1>2. CASE Listen \/ Accept \/ PolicySticks \/ WatchSees \/ StartServer
  BY <1>0, <1>2 DEF Listen, Accept, PolicySticks, WatchSees, StartServer, ServerTypeOK
<1>3. CASE NotServed \/ JudgeUnit
  BY <1>0, <1>3 DEF NotServed, JudgeUnit, Judge, ServerTypeOK
<1>4. CASE Receive
  <2>1. Head(requests) \in [call : Calls, op : Ops]
    BY <1>0, <1>4, HeadAndTail DEF Receive
  <2>2. \E answer \in Kinds :
           serving' = [call |-> Head(requests).call, op |-> Head(requests).op, answer |-> answer]
    BY <1>4 DEF Receive, Unasked, Kinds
  <2>3. serving' \in [call : Calls, op : Ops \cup {"none"}, answer : Kinds]
    BY <2>1, <2>2
  <2> QED
    BY <1>0, <1>4, <2>3 DEF Receive, ServerTypeOK
<1>5. CASE PolicyReturns
  <2>1. PICK answer \in {"ok", "error"} : serving' = [serving EXCEPT !.answer = answer]
    BY <1>5 DEF PolicyReturns
  <2>2. serving' \in [call : Calls, op : Ops \cup {"none"}, answer : Kinds]
    BY <1>0, <2>1 DEF ServerTypeOK, Kinds
  <2>3. built' \in BOOLEAN
    BY <1>0, <1>5 DEF PolicyReturns, ServerTypeOK
  <2> QED
    BY <1>0, <1>5, <2>2, <2>3 DEF PolicyReturns, ServerTypeOK
<1>6. CASE Answer
  <2>1. \/ \E how \in {"clean", "failed"} : Exit(how)
        \/ server' = "polling" /\ serving' = NoRequest /\ UNCHANGED <<status, built, watch, stuck>>
    BY <1>6 DEF Answer
  <2>2. NoRequest \in [call : Calls, op : Ops \cup {"none"}, answer : Kinds]
    BY SessionAssumption DEF NoRequest, Calls, Kinds
  <2> QED
    BY <1>0, <2>1, <2>2 DEF Exit, ServerTypeOK
<1>7. CASE WatchActs
  BY <1>0, <1>7 DEF WatchActs, Exit, ServerTypeOK
<1>8. CASE UNCHANGED serverVars
  BY <1>0, <1>8 DEF serverVars, ServerTypeOK
<1> QED
  BY <1>1, <1>2, <1>3, <1>4, <1>5, <1>6, <1>7, <1>8, ServerFrame
  DEF ServerSteps, SessionSteps, WatchSteps

LEMMA ClientTypes ==
    ASSUME SessionTypeOK, Next
    PROVE  ClientTypeOK'
<1>0. ClientTypeOK /\ replies \in Seq([call : Calls, kind : {"ok", "error"}])
  BY TypeParts DEF WireTypeOK
<1>1. Nothing \in [call : Calls, kind : Kinds]
  BY SessionAssumption DEF Nothing, Calls, Kinds
<1>2. CASE Dial \/ DialFails \/ Accept
  BY <1>0, <1>2 DEF Dial, DialFails, Accept, ClientTypeOK
<1>3. ASSUME NEW o \in Ops, Call(o)
      PROVE  ClientTypeOK'
  <2>1. call' \in Calls
    BY <1>0, <1>3, SessionAssumption DEF Call, ClientTypeOK, Calls
  <2> QED
    BY <1>0, <1>3, <2>1 DEF Call, ClientTypeOK
<1>4. CASE BenchmarkEnds \/ BenchmarkStopped
  <2>1. PICK result : BenchmarkOver(result)
    BY <1>4 DEF BenchmarkEnds, BenchmarkStopped
  <2> QED
    BY <1>0, <2>1 DEF BenchmarkOver, ClientTypeOK
<1>5. CASE Read
  <2>1. replies # <<>> => Head(replies) \in [call : Calls, kind : {"ok", "error"}]
    BY <1>0, HeadAndTail
  <2>2. got' \in [call : Calls, kind : Kinds]
    BY <1>1, <1>5, <2>1 DEF Read, Kinds
  <2> QED
    BY <1>0, <1>5, <2>2 DEF Read, ClientTypeOK
<1>6. CASE CallReturns
  <2>1. got' \in [call : Calls, kind : Kinds] /\ heard' \in Calls /\ conn' \in {"abandoned", conn}
    BY <1>0, <1>1, <1>6 DEF CallReturns, ClientTypeOK
  <2>2. late' \in BOOLEAN
    BY <1>0, <1>6 DEF CallReturns, ClientTypeOK
  <2> QED
    BY <1>0, <1>6, <2>1, <2>2 DEF CallReturns, ClientTypeOK
<1>7. CASE DeadlinePasses \/ DeadlineShuts \/ LateShuts
  BY <1>0, <1>7 DEF DeadlinePasses, DeadlineShuts, LateShuts, ClientTypeOK
<1>8. CASE UNCHANGED clientVars
  BY <1>0, <1>8 DEF clientVars, ClientTypeOK
<1> QED
  BY <1>2, <1>3, <1>4, <1>5, <1>6, <1>7, <1>8, ClientFrame DEF ClientSteps, CallSteps, TimerSteps

LEMMA WireTypes ==
    ASSUME SessionInv, Next
    PROVE  WireTypeOK'
<1> DEFINE Asked == [call : Calls, op : Ops]
           Said == [call : Calls, kind : {"ok", "error"}]
           Wrong == {"raised", "ended", "overdue", "misused"}
<1>0. /\ shut \in BOOLEAN /\ requests \in Seq(Asked) /\ replies \in Seq(Said) /\ reasons \subseteq Wrong
      /\ ServerTypeOK /\ SessionTypeOK
      /\ server = "answering" => serving.answer # "none"
  BY TypeParts DEF WireTypeOK, SessionInv, DialInv
<1>1. shut' \in BOOLEAN
  <2>1. shut' = shut \/ shut' = TRUE \/ (CallReturns /\ shut' = (shut \/ Abandons(timer = "fired" \/ got.kind = "none")))
    BY DEF Next, ClientSteps, CallSteps, TimerSteps, SessionSteps, WatchSteps, Dial, DialFails,
           Call,
           Read, CallReturns, DeadlinePasses, DeadlineShuts, LateShuts, Listen, StartFails, Accept,
           Receive, Answer, SeeHangup, IdleTimeout, WatchSees, WatchActs, PolicyReturns,
           PolicyEnds, PolicySticks,
           Removed, StartServer, RunBenchmark, NotServed, JudgeUnit, Judge, Abandon, BenchmarkEnds,
           BenchmarkStopped, BenchmarkOver
  <2> QED
    BY <1>0, <2>1
<1>2. requests' \in Seq(Asked)
  <2>1. CASE Receive
    BY <1>0, <2>1, HeadAndTail DEF Receive
  <2>2. ASSUME NEW o \in Ops, Call(o)
        PROVE  requests' \in Seq(Asked)
    <3>1. [call |-> call', op |-> o] \in Asked
      BY <1>0, <2>2, ClientTypes DEF ClientTypeOK, Next, ClientSteps
    <3>2. requests' = requests \/ requests' = Append(requests, [call |-> call', op |-> o])
      BY <2>2 DEF Call
    <3> HIDE DEF Asked
    <3> QED
      BY <1>0, <3>1, <3>2
  <2>3. Receive \/ (\E o \in Ops : Call(o)) \/ requests' = requests
    BY DEF Next, ClientSteps, CallSteps, TimerSteps, SessionSteps, WatchSteps, Dial, DialFails,
           Read, CallReturns, DeadlinePasses, DeadlineShuts, LateShuts, Listen, StartFails, Accept,
           Answer, SeeHangup, IdleTimeout, WatchSees, WatchActs, PolicyReturns, PolicyEnds,
           PolicySticks,
           Removed, StartServer, RunBenchmark, NotServed, JudgeUnit, Judge, Abandon, BenchmarkEnds,
           BenchmarkStopped, BenchmarkOver
  <2> QED
    BY <1>0, <2>1, <2>2, <2>3
<1>3. replies' \in Seq(Said)
  <2>1. CASE Read
    BY <1>0, <2>1, HeadAndTail DEF Read
  <2>2. CASE Answer
    <3>1. [call |-> serving.call, kind |-> serving.answer] \in Said
      BY <1>0, <2>2 DEF ServerTypeOK, Answer, Kinds
    <3>2. \/ replies' = replies
          \/ replies' = Append(replies, [call |-> serving.call, kind |-> serving.answer])
      BY <2>2 DEF Answer
    <3> HIDE DEF Said
    <3> QED
      BY <1>0, <3>1, <3>2
  <2>3. Read \/ Answer \/ replies' = replies
    BY DEF Next, ClientSteps, CallSteps, TimerSteps, SessionSteps, WatchSteps, Dial, DialFails,
           Call,
           CallReturns, DeadlinePasses, DeadlineShuts, LateShuts, Listen, StartFails, Accept,
           Receive, SeeHangup, IdleTimeout, WatchSees, WatchActs, PolicyReturns, PolicyEnds,
           PolicySticks,
           Removed, StartServer, RunBenchmark, NotServed, JudgeUnit, Judge, Abandon, BenchmarkEnds,
           BenchmarkStopped, BenchmarkOver
  <2> QED
    BY <1>0, <2>1, <2>2, <2>3
<1>4. reasons' \subseteq Wrong
  <2>1. reasons' = reasons \/ \E why \in Wrong : reasons' = reasons \cup {why}
    BY DEF Next, ClientSteps, CallSteps, TimerSteps, SessionSteps, WatchSteps, Dial, DialFails,
           Call,
           Read, CallReturns, DeadlinePasses, DeadlineShuts, LateShuts, Listen, StartFails, Accept,
           Receive, Answer, SeeHangup, IdleTimeout, WatchSees, WatchActs, PolicyReturns,
           PolicyEnds, PolicySticks,
           Removed, StartServer, RunBenchmark, NotServed, JudgeUnit, Judge, Abandon, BenchmarkEnds,
           BenchmarkStopped, BenchmarkOver
  <2> QED
    BY <1>0, <2>1
<1> QED
  BY <1>1, <1>2, <1>3, <1>4 DEF WireTypeOK

-----------------------------------------------------------------------------
LEMMA DialStep ==
    ASSUME SessionInv, Next
    PROVE  DialInv'
<1> USE DEF DialInv
<1>0. DialInv /\ SessionTypeOK
  BY DEF SessionInv
<1>1. CASE Dial \/ DialFails
  BY <1>0, <1>1 DEF Dial, DialFails, Playing, serverVars, orchestratorVars
<1>2. CASE Read \/ DeadlinePasses \/ DeadlineShuts \/ LateShuts
  BY <1>0, <1>2 DEF Read, DeadlinePasses, DeadlineShuts, LateShuts, serverVars, orchestratorVars
<1>3. CASE CallReturns
  BY <1>0, <1>3 DEF CallReturns, serverVars, orchestratorVars, FlowInv, SessionInv
<1>4. CASE BenchmarkEnds \/ BenchmarkStopped
  <2>1. Playing /\ \E result : BenchmarkOver(result)
    BY <1>4 DEF BenchmarkEnds, BenchmarkStopped
  <2> QED
    BY <1>0, <2>1 DEF Playing, BenchmarkOver, serverVars
<1>5. CASE Listen \/ StartFails
  BY <1>0, <1>5 DEF Listen, StartFails, Exit, orchestratorVars, clientVars
<1>6. CASE Accept
  BY <1>0, <1>6 DEF Accept, orchestratorVars
<1>7. CASE Receive \/ PolicyReturns
  <2>1. CASE Receive
    BY <1>0, <2>1 DEF Receive, Unasked, AsksPolicy, orchestratorVars, clientVars
  <2>2. CASE PolicyReturns
    <3>1. PICK answer \in {"ok", "error"} : serving' = [serving EXCEPT !.answer = answer]
      BY <2>2 DEF PolicyReturns
    <3>2. serving'.answer # "none"
      BY <1>0, <3>1 DEF SessionTypeOK
    <3> QED
      BY <1>0, <2>2, <3>2 DEF PolicyReturns, orchestratorVars, clientVars
  <2> QED
    BY <1>7, <2>1, <2>2
<1>8. CASE Answer
  BY <1>0, <1>8 DEF Answer, Exit, orchestratorVars, clientVars
<1>9. CASE SeeHangup \/ IdleTimeout \/ Removed
  BY <1>0, <1>9 DEF SeeHangup, IdleTimeout, Removed, Exit, Idle, Up, SessionTypeOK,
                    orchestratorVars, clientVars
<1>10. CASE PolicyEnds \/ PolicySticks
  BY <1>0, <1>10 DEF PolicyEnds, PolicySticks, Exit, Up, SessionTypeOK, orchestratorVars, clientVars
<1>11. CASE WatchSees \/ WatchActs
  BY <1>0, <1>11 DEF WatchSees, WatchActs, Exit, Up, orchestratorVars, clientVars
<1>12. CASE StartServer \/ RunBenchmark \/ Abandon
  BY <1>0, <1>12 DEF StartServer, RunBenchmark, Abandon, orchestratorVars, clientVars, serverVars
<1>13. CASE NotServed \/ JudgeUnit
  BY <1>0, <1>13 DEF NotServed, JudgeUnit, Judge, orchestratorVars, clientVars
<1>14. ASSUME NEW o \in Ops, Call(o)
     PROVE  DialInv'
  BY <1>0, <1>14 DEF Call, serverVars, orchestratorVars
<1> QED
  BY <1>1, <1>2, <1>3, <1>4, <1>5, <1>6, <1>7, <1>8, <1>9, <1>10, <1>11, <1>12, <1>13, <1>14
  DEF Next, ClientSteps, CallSteps, TimerSteps, SessionSteps, WatchSteps

LEMMA FlowStep ==
    ASSUME SessionInv, Next
    PROVE  FlowInv'
<1> USE DEF FlowInv, Quiet, Sent, Served, Replied, Busy, Up
<1>0. FlowInv /\ DialInv /\ SessionTypeOK
  BY DEF SessionInv
<1>1. CASE Dial \/ DialFails
  BY <1>0, <1>1 DEF Dial, DialFails
<1>2. ASSUME NEW o \in Ops, Call(o)
      PROVE  FlowInv'
  <2>1. /\ Quiet /\ conn' = "open" /\ client' = "waiting" /\ call' = call + 1 /\ op' = o
        /\ UNCHANGED <<server, replies, shut>>
    BY <1>0, <1>2 DEF Call, serverVars
  <2>2. CASE shut \/ ~Up
    BY <1>2, <2>1, <2>2 DEF Call
  <2>3. CASE ~(shut \/ ~Up)
    <3>1. requests' = <<[call |-> call', op |-> op']>>
      BY <1>2, <2>1, <2>3 DEF Call
    <3> QED
      BY <2>1, <3>1
  <2> QED
    BY <2>2, <2>3
<1>3. CASE Read
  <2>0. conn = "open" /\ client' = "read" /\ UNCHANGED <<conn, call, op, requests, server, serving>>
    BY <1>0, <1>3 DEF Read, serverVars
  <2>1. CASE replies # <<>> /\ got' = Head(replies) /\ replies' = Tail(replies)
    <3>1. PICK kind \in {"ok", "error"} : replies = <<[call |-> call, kind |-> kind]>>
      BY <1>0, <2>0, <2>1
    <3>2. replies' = <<>> /\ got' = [call |-> call, kind |-> kind]
      BY <2>1, <3>1
    <3> QED
      BY <1>0, <2>0, <2>1, <3>1, <3>2
  <2>2. CASE replies = <<>> /\ got' = Nothing /\ UNCHANGED replies
    BY <1>0, <2>0, <2>2 DEF Nothing
  <2> QED
    BY <1>3, <2>1, <2>2 DEF Read
<1>4. CASE CallReturns
  <2> DEFINE failed == timer = "fired" \/ got.kind = "none"
  <2>1. /\ client = "read" /\ client' = "idle"
        /\ conn' \in {conn, "abandoned"} /\ (failed => conn' = "abandoned")
        /\ UNCHANGED <<call, op, requests, replies, server, serving>>
    BY <1>4 DEF CallReturns, Abandons, serverVars
  <2> QED
    BY <1>0, <2>1
<1>5. CASE BenchmarkEnds \/ BenchmarkStopped
  BY <1>5 DEF BenchmarkEnds, BenchmarkStopped, BenchmarkOver
<1>6. CASE TimerSteps
  BY <1>0, <1>6 DEF TimerSteps, DeadlinePasses, DeadlineShuts, LateShuts, serverVars
<1>7. CASE Accept
  BY <1>0, <1>7 DEF Accept, DialInv
<1>8. CASE Receive
  <2>1. CASE conn = "open"
    <3>1. requests = <<[call |-> call, op |-> op]>> /\ replies = <<>>
      BY <1>0, <1>8, <2>1 DEF Receive
    <3>2. Head(requests) = [call |-> call, op |-> op] /\ requests' = <<>>
      BY <1>8, <3>1 DEF Receive
    <3>3. /\ serving'.call = call /\ serving'.op = op /\ server' \in {"calling", "answering"}
          /\ UNCHANGED <<conn, client, call, op, got, replies>>
      BY <1>8, <3>2 DEF Receive, clientVars
    <3> QED
      BY <1>0, <2>1, <3>1, <3>2, <3>3
  <2>2. CASE conn # "open"
    BY <1>0, <1>8, <2>2 DEF Receive, clientVars, DialInv
  <2> QED
    BY <2>1, <2>2
<1>9. CASE PolicyReturns
  <2>1. PICK answer \in {"ok", "error"} : serving' = [serving EXCEPT !.answer = answer]
    BY <1>9 DEF PolicyReturns
  <2>2. serving'.call = serving.call /\ serving'.op = serving.op
    BY <1>0, <2>1 DEF SessionTypeOK
  <2> QED
    BY <1>0, <1>9, <2>2 DEF PolicyReturns, clientVars
<1>10. CASE Answer
  <2>0. UNCHANGED <<conn, client, call, op, got, shut, requests>> /\ server' \in {"exited", "polling"}
    BY <1>10 DEF Answer, Exit, clientVars
  <2>1. CASE conn = "open"
    <3>1. Served /\ serving.answer \in {"ok", "error"}
      BY <1>0, <1>10, <2>1 DEF Answer, DialInv, SessionTypeOK, Kinds
    <3>2. CASE Answered
      <4>1. replies' = <<[call |-> call, kind |-> serving.answer]>>
        BY <1>10, <3>1, <3>2 DEF Answer
      <4> QED
        BY <1>0, <2>0, <2>1, <3>1, <4>1
    <3>3. CASE ~Answered
      <4>1. replies' = <<>> /\ server' = "exited"
        BY <1>10, <3>1, <3>3 DEF Answer, Exit
      <4> QED
        BY <1>0, <2>0, <2>1, <3>1, <4>1
    <3> QED
      BY <3>2, <3>3
  <2>2. CASE conn # "open"
    BY <1>0, <1>10, <2>0, <2>2 DEF Answer, DialInv
  <2> QED
    BY <2>1, <2>2
<1>11. CASE \/ StartFails \/ SeeHangup \/ IdleTimeout \/ PolicyEnds \/ Removed \/ NotServed \/ JudgeUnit
            \/ (WatchActs /\ server = "calling")
  <2>1. server' = "exited" /\ UNCHANGED <<conn, client, call, op, got, requests, replies>>
    BY <1>11 DEF StartFails, SeeHangup, IdleTimeout, PolicyEnds, PolicySticks, Removed, WatchActs,
                 Exit, clientVars,
                 NotServed, JudgeUnit, Judge
  <2> QED
    BY <1>0, <2>1
<1>12. CASE \/ WatchSees \/ (WatchActs /\ server # "calling") \/ Listen \/ StartServer
            \/ PolicySticks \/ RunBenchmark \/ Abandon
  <2>1. /\ UNCHANGED <<conn, client, call, op, got, requests, replies, shut, serving>>
        /\ server' = server \/ (server \in {"none", "starting"} /\ server' \in {"starting", "listening"})
    BY <1>0, <1>12 DEF WatchSees, WatchActs, Listen, StartServer, PolicySticks, RunBenchmark,
                       Abandon,
                       clientVars, serverVars, DialInv
  <2> QED
    BY <1>0, <2>1 DEF DialInv
<1> QED
  BY <1>1, <1>2, <1>3, <1>4, <1>5, <1>6, <1>7, <1>8, <1>9, <1>10, <1>11, <1>12
  DEF Next, ClientSteps, CallSteps, SessionSteps, WatchSteps

(* Nothing is taken back: who is blamed stays so. *)
LEMMA BlameStays ==
    ASSUME SessionInv, Next
    PROVE  /\ reasons \subseteq reasons'
           /\ Blamed => Blamed'
<1>1. reasons \subseteq reasons'
  BY DEF Next, ClientSteps, CallSteps, TimerSteps, SessionSteps, WatchSteps, Dial, DialFails, Call,
         Read, CallReturns, DeadlinePasses, DeadlineShuts, LateShuts, Listen, StartFails, Accept,
         Receive, Answer, SeeHangup, IdleTimeout, WatchSees, WatchActs, PolicyReturns, PolicyEnds,
         PolicySticks,
         Removed, StartServer, RunBenchmark, NotServed, JudgeUnit, Judge, Abandon, BenchmarkEnds,
         BenchmarkStopped, BenchmarkOver
<1>2. unit = "abandoned" => unit' = "abandoned"
  <2>1. CASE OrchestratorSteps
    BY <2>1 DEF OrchestratorSteps, BenchmarkEnds, BenchmarkStopped, BenchmarkOver, StartServer,
                RunBenchmark, NotServed, JudgeUnit, Abandon
  <2>2. CASE UNCHANGED orchestratorVars
    BY <2>2 DEF orchestratorVars
  <2> QED
    BY <2>1, <2>2, OrchestratorFrame
<1>3. status = "gone" => status' = "gone" \/ reasons' # {}
  <2>0. status = "gone" => server = "exited"
    BY DEF SessionInv, DialInv
  <2>1. CASE ServerSteps
    BY <2>0, <2>1
    DEF ServerSteps, SessionSteps, WatchSteps, Listen, StartFails, Accept,
        Receive, Answer, SeeHangup, IdleTimeout, WatchSees, WatchActs, PolicyReturns, PolicyEnds,
        PolicySticks,
        Removed, StartServer, NotServed, JudgeUnit, Judge, Exit, Up, Idle
  <2>2. CASE UNCHANGED serverVars
    BY <2>2 DEF serverVars
  <2> QED
    BY <2>1, <2>2, ServerFrame
<1> QED
  BY <1>1, <1>2, <1>3 DEF Blamed

LEMMA BlameStep ==
    ASSUME SessionInv, Next
    PROVE  BlameInv'
<1>0. FlowInv /\ DialInv /\ BlameInv /\ SessionTypeOK
  BY DEF SessionInv
<1>1. (timer \in {"expiring", "fired"} \/ late => reasons # {})'
  <2>1. \/ timer' \in {"expiring", "fired"} /\ timer' # timer
        \/ late' /\ ~late
        => timer \in {"expiring", "fired"} \/ reasons' # {}
    BY ClientFrame, <1>0
    DEF ClientSteps, CallSteps, TimerSteps, Dial, DialFails, Call, Read, CallReturns,
        DeadlinePasses, DeadlineShuts, LateShuts, Accept, BenchmarkEnds, BenchmarkStopped,
        BenchmarkOver, clientVars
  <2> QED
    BY <1>0, <2>1, BlameStays DEF BlameInv
<1>2. (serving.answer = "error" \/ got.kind = "error" => reasons # {})'
  <2>1. serving'.answer = "error" => serving.answer = "error" \/ reasons' # {}
    <3>1. CASE ServerSteps
      <4>1. CASE Receive
        <5> DEFINE asked == Head(requests)
        <5>1. \/ serving' = [call |-> asked.call, op |-> asked.op, answer |-> "none"]
              \/ /\ serving' = [call |-> asked.call, op |-> asked.op, answer |-> Unasked(asked)]
                 /\ Unasked(asked) = "error" => reasons' = reasons \cup {"misused"}
          BY <4>1 DEF Receive
        <5> HIDE DEF asked
        <5> QED
          BY <5>1
      <4>2. CASE PolicyReturns
        <5>1. PICK answer \in {"ok", "error"} :
                 /\ serving' = [serving EXCEPT !.answer = answer]
                 /\ reasons' = IF answer = "error" THEN reasons \cup {"raised"} ELSE reasons
          BY <4>2 DEF PolicyReturns
        <5>2. serving'.answer = answer
          BY <1>0, <5>1 DEF SessionTypeOK
        <5> QED
          BY <5>1, <5>2
      <4>3. CASE UNCHANGED serving \/ serving' = NoRequest
        BY <4>3 DEF NoRequest
      <4> QED
        BY <3>1, <4>1, <4>2, <4>3
        DEF ServerSteps, SessionSteps, WatchSteps, Listen, StartFails, Accept, Answer, SeeHangup,
            IdleTimeout, WatchSees, WatchActs, PolicyEnds, PolicySticks, Removed, StartServer,
            NotServed,
            JudgeUnit, Judge, Exit
    <3>2. CASE UNCHANGED serverVars
      BY <3>2 DEF serverVars
    <3> QED
      BY <3>1, <3>2, ServerFrame
  <2>2. got'.kind = "error" => got.kind = "error" \/ reasons # {}
    <3>1. got' = got \/ got' = Nothing \/ (Read /\ replies # <<>> /\ got' = Head(replies))
      BY ClientFrame
      DEF ClientSteps, CallSteps, TimerSteps, Dial, DialFails, Call, Read, CallReturns,
          DeadlinePasses, DeadlineShuts, LateShuts, Accept, BenchmarkEnds, BenchmarkStopped,
          BenchmarkOver, clientVars
    <3>2. replies # <<>> => Head(replies) = replies[1] /\ 1 \in DOMAIN replies
      BY <1>0 DEF SessionTypeOK
    <3> QED
      BY <1>0, <3>1, <3>2 DEF BlameInv, Nothing
  <2> QED
    BY <1>0, <2>1, <2>2, BlameStays DEF BlameInv
<1>3. (\A i \in DOMAIN replies : replies[i].kind = "error" => reasons # {})'
  <2>1. CASE Read /\ replies # <<>>
    <3>1. \A i \in DOMAIN Tail(replies) : i + 1 \in DOMAIN replies /\ Tail(replies)[i] = replies[i + 1]
      BY <1>0, <2>1 DEF SessionTypeOK
    <3>2. replies' = Tail(replies)
      BY <2>1 DEF Read
    <3> QED
      BY <1>0, <3>1, <3>2, BlameStays DEF BlameInv
  <2>2. CASE Answer /\ Answered
    <3> DEFINE reply == [call |-> serving.call, kind |-> serving.answer]
    <3>1. replies' = Append(replies, reply)
      BY <2>2 DEF Answer
    <3>2. \A i \in DOMAIN Append(replies, reply) :
             (i \in DOMAIN replies /\ Append(replies, reply)[i] = replies[i])
             \/ Append(replies, reply)[i] = reply
      BY <1>0 DEF SessionTypeOK
    <3>3. reply.kind = "error" => reasons # {}
      BY <1>0 DEF BlameInv
    <3> HIDE DEF reply
    <3> QED
      BY <1>0, <3>1, <3>2, <3>3, BlameStays DEF BlameInv
  <2>3. CASE replies' = replies
    BY <1>0, <2>3, BlameStays DEF BlameInv
  <2> QED
    BY <2>1, <2>2, <2>3
    DEF Next, ClientSteps, CallSteps, TimerSteps, SessionSteps, WatchSteps, Dial, DialFails, Call,
        Read, CallReturns, DeadlinePasses, DeadlineShuts, LateShuts, Listen, StartFails, Accept,
        Receive, Answer, SeeHangup, IdleTimeout, WatchSees, WatchActs, PolicyReturns, PolicyEnds,
        PolicySticks,
        Removed, StartServer, RunBenchmark, NotServed, JudgeUnit, Judge, Abandon, BenchmarkEnds,
        BenchmarkStopped, BenchmarkOver
<1>4. (server = "answering" /\ serving.op = "junk" => serving.answer = "error")'
  <2>1. CASE Receive
    BY <2>1 DEF Receive, Unasked
  <2>2. CASE PolicyReturns
    <3>1. serving.op # "junk" /\ serving'.op = serving.op
      BY <1>0, <2>2 DEF PolicyReturns, SessionTypeOK, DialInv
    <3> QED
      BY <3>1
  <2>3. CASE UNCHANGED serving /\ (server' = "answering" => server = "answering")
    BY <1>0, <2>3 DEF BlameInv
  <2>4. CASE server' # "answering"
    BY <2>4
  <2> QED
    BY <2>1, <2>2, <2>3, <2>4, ServerFrame
    DEF ServerSteps, SessionSteps, WatchSteps, Listen, StartFails, Accept, Answer, SeeHangup,
        IdleTimeout, WatchSees, WatchActs, PolicyEnds, PolicySticks, Removed, StartServer,
        NotServed, JudgeUnit,
        Judge, Exit, serverVars
<1>5. (status = "failed" => reasons # {})'
  <2>1. status' = "failed" /\ status # "failed" => reasons' # {}
    BY <1>0, ServerFrame
    DEF ServerSteps, SessionSteps, WatchSteps, Listen, StartFails, Accept, Receive, Answer,
        SeeHangup,
        IdleTimeout, WatchSees, WatchActs, PolicyReturns, PolicyEnds, PolicySticks, Removed,
        StartServer, NotServed,
        JudgeUnit, Judge, Exit, serverVars, EndsSession, BlameInv
  <2> QED
    BY <1>0, <2>1, BlameStays DEF BlameInv
<1>6. (conn = "open" /\ (shut \/ ~Up) => Blamed \/ (op = "close" /\ client # "idle"))'
  <2> SUFFICES ASSUME conn' = "open", shut' \/ ~Up'
               PROVE  Blamed' \/ (op' = "close" /\ client' # "idle")
    OBVIOUS
  <2>0. conn = "open" /\ (shut \/ ~Up) => Blamed \/ (op = "close" /\ client # "idle")
    BY <1>0 DEF BlameInv
  <2>1. CASE ClientSteps \/ CallSteps
    <3>1. conn = "open" /\ (shut \/ ~Up) /\ ~(CallReturns /\ op = "close")
      BY <2>1, <1>0
      DEF ClientSteps, CallSteps, Dial, DialFails, Call, Read, CallReturns, Abandons, BenchmarkEnds,
          BenchmarkStopped, BenchmarkOver, serverVars, Up
    <3>2. op = "close" /\ client # "idle" => op' = "close" /\ client' # "idle"
      BY <2>1, <3>1
      DEF ClientSteps, CallSteps, Dial, DialFails, Call, Read, CallReturns, BenchmarkEnds,
          BenchmarkStopped, BenchmarkOver
    <3> QED
      BY <2>0, <3>1, <3>2, BlameStays
  <2>2. CASE DeadlineShuts \/ LateShuts
    BY <1>0, <2>2, BlameStays DEF BlameInv, Blamed, DeadlineShuts, LateShuts
  <2>3. CASE Accept
    BY <1>0, <2>3 DEF Accept, DialInv, Up
  <2>4. CASE Answer
    <3>1. Served /\ client # "idle"
      BY <1>0, <2>4 DEF Answer, FlowInv, Quiet, Sent, Replied, Busy, clientVars
    <3>2. CASE Answered /\ EndsSession
      <4>1. serving.op = "close" \/ reasons # {}
        BY <1>0, <2>4, <3>2 DEF Answer, EndsSession, BlameInv
      <4> QED
        BY <2>4, <3>1, <4>1, BlameStays DEF Served, Answer, Blamed, clientVars
    <3>3. CASE Answered /\ ~EndsSession
      BY <2>4, <3>3 DEF Answer, Answered, Up
    <3>4. CASE ~Answered
      BY <2>0, <2>4, <3>4, BlameStays DEF Answer, Answered, clientVars
    <3> QED
      BY <3>2, <3>3, <3>4
  <2>5. CASE StartFails \/ PolicyEnds \/ IdleTimeout \/ Removed
    BY <2>5, BlameStays DEF StartFails, PolicyEnds, PolicySticks, IdleTimeout, Removed, Exit, Blamed
  <2>6. CASE SeeHangup \/ WatchActs
    BY <2>0, <2>6, <1>0, BlameStays DEF SeeHangup, WatchActs, DialInv, clientVars
  <2>7. CASE NotServed \/ JudgeUnit
    BY <1>0, <2>7 DEF NotServed, JudgeUnit, Judge, DialInv, clientVars
  <2>8. CASE \/ DeadlinePasses \/ Listen \/ Receive \/ PolicyReturns \/ PolicySticks
             \/ WatchSees \/ StartServer \/ RunBenchmark \/ Abandon
    <3>1. UNCHANGED <<conn, op, client, shut>>
      BY <2>8 DEF DeadlinePasses, Listen, Receive, PolicyReturns, PolicySticks, WatchSees,
                  StartServer, RunBenchmark, Abandon, clientVars
    <3>2. Up => Up'
      BY <2>8 DEF DeadlinePasses, Listen, Receive, PolicyReturns, PolicySticks, WatchSees,
                  StartServer, RunBenchmark, Abandon, serverVars, Up
    <3> QED
      BY <2>0, <3>1, <3>2, BlameStays
  <2> QED
    BY <2>1, <2>2, <2>3, <2>4, <2>5, <2>6, <2>7, <2>8
    DEF Next, ClientSteps, TimerSteps, SessionSteps, WatchSteps
<1>7. (conn = "dialing" /\ ~Up => Blamed)'
  <2> SUFFICES ASSUME conn' = "dialing", ~Up'
               PROVE  Blamed'
    OBVIOUS
  <2>1. conn = "dialing" \/ (Dial /\ server = "listening")
    BY ClientFrame
    DEF ClientSteps, CallSteps, TimerSteps, Dial, DialFails, Call, Read, CallReturns,
        DeadlinePasses,
        DeadlineShuts, LateShuts, Accept, BenchmarkEnds, BenchmarkStopped, BenchmarkOver, clientVars
  <2>2. CASE Dial
    BY <2>2 DEF Dial, serverVars, Up
  <2>3. CASE conn = "dialing" /\ ~Up
    BY <1>0, <2>3, BlameStays DEF BlameInv
  <2>4. CASE conn = "dialing" /\ Up
    <3>1. server \in {"starting", "listening"} /\ ~built
      BY <1>0, <2>4 DEF DialInv, Up, SessionTypeOK
    <3>2. CASE StartFails \/ Removed
      BY <3>2 DEF StartFails, Removed, Exit, Blamed
    <3>3. CASE NotServed \/ JudgeUnit
      BY <1>0, <2>4, <3>3 DEF NotServed, JudgeUnit, DialInv
    <3> QED
      BY <2>4, <3>1, <3>2, <3>3, ServerFrame
      DEF ServerSteps, SessionSteps, WatchSteps, Listen, Accept, Receive, Answer, SeeHangup,
          IdleTimeout, Idle, WatchSees, WatchActs, PolicyReturns, PolicyEnds, PolicySticks,
          StartServer, Exit, serverVars,
          Up, DialInv
  <2> QED
    BY <2>1, <2>2, <2>3, <2>4
<1>8. (client = "read" /\ got.kind = "none" => Blamed \/ op = "close")'
  <2> SUFFICES ASSUME client' = "read", got'.kind = "none"
               PROVE  Blamed' \/ op' = "close"
    OBVIOUS
  <2>1. CASE Read
    <3>1. replies # <<>> => got'.kind # "none"
      <4>1. replies # <<>> => Head(replies) \in [call : Calls, kind : {"ok", "error"}]
        BY <1>0, HeadAndTail DEF SessionTypeOK
      <4> QED
        BY <2>1, <4>1 DEF Read
    <3> QED
      BY <1>0, <2>1, <3>1, BlameStays DEF Read, FlowInv, BlameInv
  <2>2. CASE ~Read
    <3>1. client = "read" /\ UNCHANGED <<got, op>>
      BY <2>2, ClientFrame
      DEF ClientSteps, CallSteps, TimerSteps, Dial, DialFails, Call, CallReturns, DeadlinePasses,
          DeadlineShuts, LateShuts, Accept, BenchmarkEnds, BenchmarkStopped, BenchmarkOver,
          clientVars
    <3> QED
      BY <1>0, <3>1, BlameStays DEF BlameInv
  <2> QED
    BY <2>1, <2>2
<1>9. (outcome = "none" /\ client = "idle" /\ Told => Blamed)'
  <2> SUFFICES ASSUME outcome' = "none", client' = "idle", Told'
               PROVE  Blamed'
    OBVIOUS
  <2>0. outcome = "none"
    BY OrchestratorFrame
    DEF OrchestratorSteps, BenchmarkEnds, BenchmarkStopped, BenchmarkOver, StartServer,
        RunBenchmark,
        NotServed, JudgeUnit, Judge, Abandon, orchestratorVars, Playing
  <2>1. CASE CallReturns
    <3>1. op # "close" /\ client = "read"
      BY <2>1 DEF CallReturns, Told
    <3>2. CASE timer = "fired" \/ got.kind = "error"
      BY <1>0, <3>2, BlameStays DEF BlameInv, Blamed
    <3>3. CASE got.kind = "none"
      BY <1>0, <3>1, <3>3, BlameStays DEF BlameInv
    <3>4. CASE ~(timer = "fired" \/ got.kind \in {"none", "error"})
      <4>1. got'.kind = "ok"
        BY <1>0, <2>1, <3>4 DEF CallReturns, SessionTypeOK, Kinds
      <4> QED
        BY <4>1 DEF Told
    <3> QED
      BY <3>2, <3>3, <3>4
  <2>2. CASE DialFails
    BY <1>0, <2>2, BlameStays DEF DialFails, BlameInv, Blamed
  <2>3. CASE BenchmarkEnds \/ BenchmarkStopped
    BY <2>3 DEF BenchmarkEnds, BenchmarkStopped, BenchmarkOver
  <2>4. CASE ~(CallReturns \/ DialFails \/ BenchmarkEnds \/ BenchmarkStopped)
    <3>1. client = "idle" /\ Told
      BY <2>4, ClientFrame
      DEF ClientSteps, CallSteps, TimerSteps, Dial, Call, Read, DeadlinePasses, DeadlineShuts,
          LateShuts, Accept, clientVars, Told
    <3> QED
      BY <1>0, <2>0, <3>1, BlameStays DEF BlameInv
  <2> QED
    BY <2>1, <2>2, <2>3, <2>4
<1>10. (outcome = "policy" => Blamed)'
  <2>1. CASE outcome' = "policy" /\ outcome # "policy"
    <3>1. BenchmarkEnds /\ Told
      BY <2>1, OrchestratorFrame
      DEF OrchestratorSteps, BenchmarkEnds, BenchmarkStopped, BenchmarkOver, StartServer,
          RunBenchmark, NotServed, JudgeUnit, Judge, Abandon, orchestratorVars
    <3> QED
      BY <1>0, <3>1, BlameStays DEF BenchmarkEnds, Playing, BlameInv
  <2> QED
    BY <1>0, <2>1, BlameStays DEF BlameInv
<1>11. ChargedFairly'
  <2>1. CASE verdict' = "failed" /\ verdict # "failed"
    <3>1. CASE NotServed
      BY <1>0, <2>1, <3>1 DEF NotServed, Judge, BlameInv, ChargedFairly
    <3>2. CASE JudgeUnit
      <4>1. PICK end \in Ends : Judge(Attributed(end))
        BY <3>2 DEF JudgeUnit
      <4>2. end # "harness" /\ (outcome = "policy" \/ end = "policy")
        BY <2>1, <4>1 DEF Judge, Attributed
      <4>3. status # "gone" /\ (end = "policy" => status = "failed")
        BY <4>1, <4>2 DEF Ends
      <4> QED
        BY <1>0, <3>2, <4>2, <4>3, BlameStays DEF JudgeUnit, BlameInv, Blamed, ChargedFairly
    <3> QED
      BY <2>1, <3>1, <3>2, OrchestratorFrame
      DEF OrchestratorSteps, BenchmarkEnds, BenchmarkStopped, BenchmarkOver, StartServer,
          RunBenchmark, Abandon, orchestratorVars
  <2> QED
    BY <1>0, <2>1, BlameStays DEF BlameInv, ChargedFairly
<1> QED
  BY <1>1, <1>2, <1>3, <1>4, <1>5, <1>6, <1>7, <1>8, <1>9, <1>10, <1>11 DEF BlameInv

-----------------------------------------------------------------------------
LEMMA InitSession == Init => SessionInv
<1> SUFFICES ASSUME Init
             PROVE  SessionInv
  OBVIOUS
<1>1. SessionTypeOK
  <2>1. 0 \in Calls
    BY SessionAssumption DEF Calls
  <2>2. UnitTypeOK
    BY DEF Init, UnitTypeOK
  <2>3. WireTypeOK
    <3> DEFINE Asked == [call : Calls, op : Ops]
               Said == [call : Calls, kind : {"ok", "error"}]
    <3> HIDE DEF Asked, Said
    <3>1. <<>> \in Seq(Asked) /\ <<>> \in Seq(Said)
      OBVIOUS
    <3>2. requests \in Seq(Asked) /\ replies \in Seq(Said)
      BY <3>1 DEF Init
    <3> QED
      BY <3>2 DEF Init, WireTypeOK, Asked, Said
  <2>4. NoRequest \in [call : Calls, op : Ops \cup {"none"}, answer : Kinds]
    BY <2>1 DEF NoRequest, Kinds
  <2>5. Nothing \in [call : Calls, kind : Kinds]
    BY <2>1 DEF Nothing, Kinds
  <2>6. ServerTypeOK /\ ClientTypeOK
    BY <2>1, <2>4, <2>5 DEF Init, ServerTypeOK, ClientTypeOK
  <2> QED
    BY <2>2, <2>3, <2>6, TypeParts
<1>2. FlowInv /\ DialInv
  BY DEF Init, FlowInv, DialInv
<1>3. BlameInv
  BY DEF Init, BlameInv, NoRequest, Nothing, ChargedFairly, Told, Up
<1> QED
  BY <1>1, <1>2, <1>3 DEF SessionInv

LEMMA SessionStep == SessionInv /\ [Next]_vars => SessionInv'
<1>1. ASSUME SessionInv, Next
      PROVE  SessionInv'
  <2>1. SessionTypeOK'
    BY <1>1, UnitTypes, ServerTypes, ClientTypes, WireTypes
    DEF SessionInv, SessionTypeOK, UnitTypeOK, ServerTypeOK, ClientTypeOK, WireTypeOK
  <2> QED
    BY <1>1, <2>1, FlowStep, DialStep, BlameStep DEF SessionInv
<1>2. ASSUME SessionInv, UNCHANGED vars
      PROVE  SessionInv'
  BY <1>2
  DEF vars, orchestratorVars, serverVars, clientVars, SessionInv, SessionTypeOK, FlowInv, DialInv,
      BlameInv, ChargedFairly, Blamed, Told, Up, Quiet, Sent, Served, Replied, Busy
<1> QED
  BY <1>1, <1>2

(* The inductive invariant holds always. *)
THEOREM SessionInvariance == Spec => []SessionInv
BY InitSession, SessionStep, PTL DEF Spec

(* Every variable keeps its type, whatever order calls, deadlines, hang-ups    *)
(* and removals come in.                                                       *)
THEOREM SessionTypeCorrect == Spec => []SessionTypeOK
<1>1. SessionInv => SessionTypeOK
  BY DEF SessionInv
<1> QED
  BY <1>1, SessionInvariance, PTL

(* side.py, attribute and died: no side fails a unit but for what its policy   *)
(* did, or for a request its benchmark should not have sent.                   *)
THEOREM NoneBlamedForOthers == Spec => []ChargedFairly
<1>1. SessionInv => ChargedFairly
  BY DEF SessionInv, BlameInv
<1> QED
  BY <1>1, SessionInvariance, PTL

-----------------------------------------------------------------------------
(* serve.py, _watch_hangup, the idle timeout and the end of a session: the     *)
(* server never exits of itself under a client that would have been answered.  *)
THEOREM NobodyCutOff == Spec => LeavesNobodyWaiting
<1> DEFINE Fair == (Up /\ server' = "exited" /\ status' \in {"clean", "failed"} /\ reasons' = reasons)
                     => client # "waiting" \/ shut \/ replies' # <<>>
<1>1. SessionInv /\ [Next]_vars => [Fair]_vars
  <2> SUFFICES ASSUME SessionInv, Next, Up, server' = "exited", status' \in {"clean", "failed"},
                      reasons' = reasons, client = "waiting", ~shut
               PROVE  replies' # <<>>
    OBVIOUS
  <2>0. FlowInv /\ DialInv /\ BlameInv /\ SessionTypeOK /\ conn = "open"
    BY DEF SessionInv, FlowInv
  <2>1. \/ StartFails \/ Answer \/ SeeHangup \/ IdleTimeout \/ WatchActs \/ PolicyEnds \/ Removed
        \/ NotServed \/ JudgeUnit
    BY ServerFrame
    DEF ServerSteps, SessionSteps, WatchSteps, Listen, Accept, Receive, WatchSees, PolicyReturns,
        PolicySticks, StartServer, serverVars, Up
  <2>2. CASE StartFails \/ NotServed \/ JudgeUnit
    BY <2>0, <2>2 DEF StartFails, NotServed, JudgeUnit, DialInv
  <2>3. CASE Answer
    BY <2>0, <2>3 DEF Answer, Answered, SessionTypeOK
  <2>4. CASE SeeHangup \/ WatchActs
    BY <2>0, <2>4 DEF SeeHangup, WatchActs, DialInv
  <2>5. CASE IdleTimeout
    BY <2>0, <2>5 DEF IdleTimeout, Idle, FlowInv, Quiet, Sent, Served, Replied, Busy, clientVars
  <2>6. CASE PolicyEnds
    <3>1. "ended" \notin reasons
      BY <2>0 DEF DialInv, Up
    <3> QED
      BY <2>6, <3>1 DEF PolicyEnds
  <2>7. CASE Removed
    BY <2>7 DEF Removed, Exit
  <2> QED
    BY <2>1, <2>2, <2>3, <2>4, <2>5, <2>6, <2>7
<1> QED
  BY <1>1, SessionInvariance, PTL DEF Spec, LeavesNobodyWaiting

-----------------------------------------------------------------------------
(* What each step is of the session a benchmark is promised. *)
LEMMA PromisedStep ==
    SessionInv /\ [Next]_vars => [Promised!Next]_<<call, client # "idle", heard, conn = "abandoned">>
<1> SUFFICES ASSUME SessionInv, Next
             PROVE  \/ Promised!Next
                    \/ UNCHANGED <<call, client # "idle", heard, conn = "abandoned">>
  BY DEF vars, clientVars
<1>0. FlowInv /\ DialInv /\ SessionTypeOK
  BY DEF SessionInv
<1>1. ASSUME NEW o \in Ops, Call(o)
      PROVE  Promised!Ask
  BY <1>1 DEF Call, Promised!Ask
<1>2. CASE CallReturns
  <2> DEFINE failed == timer = "fired" \/ got.kind = "none"
  <2>1. client = "read" /\ conn = "open" /\ client' = "idle" /\ call' = call
    BY <1>0, <1>2 DEF CallReturns, FlowInv
  <2>2. CASE failed
    <3>1. conn' = "abandoned" /\ heard' = heard
      BY <1>2, <2>2 DEF CallReturns, Abandons
    <3>2. Promised!Lose
      BY <2>1, <3>1 DEF Promised!Lose
    <3> QED
      BY <3>2 DEF Promised!Next
  <2>3. CASE ~failed
    <3>1. heard' = call /\ conn' \in {conn, "abandoned"}
      BY <1>0, <1>2, <2>1, <2>3 DEF CallReturns, FlowInv
    <3> QED
      <4>1. (conn = "abandoned")' \in {conn = "abandoned", TRUE}
        BY <2>1, <3>1
      <4>2. client # "idle" /\ ~(conn = "abandoned") /\ (client # "idle")' = FALSE
        BY <2>1
      <4>3. Promised!Answer
        BY <2>1, <3>1, <4>1, <4>2 DEF Promised!Answer
      <4> QED
        BY <4>3 DEF Promised!Next
  <2> QED
    BY <2>2, <2>3
<1>3. CASE DialFails \/ BenchmarkEnds \/ BenchmarkStopped
  <2>1. client' = "idle" /\ conn' = "abandoned" /\ call' = call /\ heard' = heard
    BY <1>0, <1>3 DEF DialFails, BenchmarkEnds, BenchmarkStopped, BenchmarkOver, FlowInv
  <2> QED
    BY <2>1 DEF Promised!Lose, Promised!Next
<1>4. CASE Dial \/ Accept \/ Read \/ TimerSteps \/ UNCHANGED clientVars
  BY <1>4 DEF Dial, Accept, Read, TimerSteps, DeadlinePasses, DeadlineShuts, LateShuts, clientVars
<1> QED
  BY <1>1, <1>2, <1>3, <1>4, ClientFrame DEF ClientSteps, CallSteps, Promised!Next

(* client.py: every answer is the last call's own, and after a lost call there *)
(* is none: the session, socket, timer and server together, is PolicyCalls.    *)
THEOREM SessionImplementsCalls == Spec => ImplementsCalls
<1>1. Init => Promised!Init
  BY DEF Init, Promised!Init
<1> QED
  BY <1>1, PromisedStep, SessionInvariance, PTL DEF Spec, ImplementsCalls, Promised!Spec
=============================================================================
