--------------------------- MODULE PolicySession ---------------------------
(***************************************************************************)
(* One unit against a served policy: the server (icil_policy/serve.py, its *)
(* session and its hang-up watch), the benchmark's client                  *)
(* (icil_policy/client.py, with its deadline timer), and the orchestrator  *)
(* that serves the one, runs the other and says whose the outcome is       *)
(* (duel/side.py, local_runtime.py, docker_runtime.py).                    *)
(*                                                                         *)
(* A message carries the number of the call it belongs to, which the wire  *)
(* does not: the client takes the next reply for its answer, whatever it   *)
(* answers.  The policy's code may return, raise, end its process or never *)
(* come back; it does not write to the server's socket.  Time is the order *)
(* in which deadlines pass; only "longer than a unit may take" is told     *)
(* apart from the rest.                                                    *)
(***************************************************************************)
EXTENDS Naturals, Sequences

CONSTANTS
    Runtime,   \* "local" or "docker": who can end a policy from outside, unseen or seen
    Ops,       \* what a client sends, of {"hello", "call", "close", "junk"}
    MaxCalls   \* bound: calls of one session

ASSUME SessionAssumption ==
    /\ Runtime \in {"local", "docker"}
    /\ Ops \subseteq {"hello", "call", "close", "junk"}
    /\ MaxCalls \in Nat

VARIABLES
    unit,      \* the orchestrator's unit: off, starting, playing, ended, over, abandoned (killed)
    outcome,   \* what the benchmark's result says: none, scored, or void with the cause it names
    verdict,   \* what the side is scored with: none, scored, failed or void
    server,    \* where the server's session thread is
    status,    \* how the server ended
    built,     \* whether the policy was built
    serving,   \* the request being served, and its answer once there is one
    watch,     \* the hang-up watch: asleep, or eof when it saw the client gone
    stuck,     \* whether the policy holds the interpreter, whose threads serve it, for good
    conn,      \* the client's connection: none, dialing, open, abandoned
    shut,      \* whether the client's end of the socket is shut
    client,    \* the client's thread: idle, waiting, or read when it has its reply
    call,      \* the calls made so far
    op,        \* what the last one was
    got,       \* what it read: the reply's call and kind
    timer,     \* its deadline: off, armed, expiring (past its last check) or fired
    late,      \* an earlier call's deadline is still expiring
    heard,     \* the last call answered
    requests,  \* sent and not read by the server
    replies,   \* sent and not read by the client
    reasons    \* what the policy did wrong so far, or the benchmark: a request no policy is asked for

orchestratorVars == <<unit, outcome, verdict>>
serverVars == <<server, status, built, serving, watch, stuck>>
clientVars == <<conn, client, call, op, got, timer, late, heard>>
vars == <<orchestratorVars, serverVars, clientVars, shut, requests, replies, reasons>>

Causes == {"policy", "harness", "nobody"}
Calls == 0 .. MaxCalls
Kinds == {"none", "ok", "error"}
NoRequest == [call |-> 0, op |-> "none", answer |-> "none"]
Nothing == [call |-> 0, kind |-> "none"]

(* Types; a server's end is its exit status, 0 or not, or that it was removed. *)
SessionTypeOK ==
    /\ unit \in {"off", "starting", "playing", "ended", "over", "abandoned"}
    /\ outcome \in {"none", "scored"} \cup Causes
    /\ verdict \in {"none", "scored", "failed", "void"}
    /\ server \in {"none", "starting", "listening", "polling", "calling", "answering", "exited"}
    /\ status \in {"none", "clean", "failed", "gone"}
    /\ built \in BOOLEAN
    /\ serving \in [call : Calls, op : Ops \cup {"none"}, answer : Kinds]
    /\ watch \in {"asleep", "eof"} /\ stuck \in BOOLEAN
    /\ conn \in {"none", "dialing", "open", "abandoned"}
    /\ shut \in BOOLEAN
    /\ client \in {"idle", "waiting", "read"}
    /\ call \in Calls
    /\ op \in Ops \cup {"none"}
    /\ got \in [call : Calls, kind : Kinds]
    /\ timer \in {"off", "armed", "expiring", "fired"}
    /\ late \in BOOLEAN
    /\ heard \in Calls
    /\ requests \in Seq([call : Calls, op : Ops])
    /\ replies \in Seq([call : Calls, kind : {"ok", "error"}])
    /\ reasons \in SUBSET {"raised", "ended", "overdue", "misused"}

Init ==
    /\ unit = "off"
    /\ outcome = "none"
    /\ verdict = "none"
    /\ server = "none"
    /\ status = "none"
    /\ built = FALSE
    /\ serving = NoRequest
    /\ watch = "asleep"
    /\ stuck = FALSE
    /\ conn = "none"
    /\ shut = FALSE
    /\ client = "idle"
    /\ call = 0
    /\ op = "none"
    /\ got = Nothing
    /\ timer = "off"
    /\ late = FALSE
    /\ heard = 0
    /\ requests = <<>>
    /\ replies = <<>>
    /\ reasons = {}

Up == server \notin {"none", "exited"}

(* The benchmark's process runs, its orchestrator alive or not. *)
Playing == unit \in {"playing", "abandoned"} /\ outcome = "none"

Exit(how) ==
    /\ server' = "exited"
    /\ status' = how
    /\ UNCHANGED <<built, serving, watch, stuck>>

-----------------------------------------------------------------------------
(* The client, driven by the benchmark. *)

(* RemotePolicy: retried while nothing listens.  A failure abandons it. *)
Dial ==
    /\ Playing /\ conn = "none" /\ server = "listening"
    /\ conn' = "dialing"
    /\ UNCHANGED <<orchestratorVars, serverVars, client, call, op, got, timer, late, heard,
                   shut, requests, replies, reasons>>

(* Authenticating ends by the deadline it shares with connecting. *)
DialFails ==
    /\ Playing /\ conn = "dialing"
    /\ conn' = "abandoned"
    /\ shut' = TRUE
    /\ reasons' = IF Up THEN reasons \cup {"overdue"} ELSE reasons
    /\ UNCHANGED <<orchestratorVars, serverVars, client, call, op, got, timer, late, heard,
                   requests, replies>>

(* _call, until the request is sent: to a server that has gone, or over a      *)
(* socket that is shut, nothing goes.  On an abandoned connection it raises at *)
(* once.                                                                       *)
Call(o) ==
    /\ Playing /\ conn = "open" /\ client = "idle" /\ call < MaxCalls
    /\ call' = call + 1
    /\ op' = o
    /\ client' = "waiting"
    /\ timer' = "armed"
    /\ requests' = IF shut \/ ~Up THEN requests ELSE Append(requests, [call |-> call', op |-> o])
    /\ UNCHANGED <<orchestratorVars, serverVars, conn, got, late, heard, shut, replies, reasons>>

(* The next reply, or the end of a connection with none left. *)
Read ==
    /\ client = "waiting"
    /\ \/ /\ replies # <<>>
          /\ got' = Head(replies)
          /\ replies' = Tail(replies)
       \/ /\ replies = <<>> /\ (shut \/ ~Up)
          /\ got' = Nothing
          /\ UNCHANGED replies
    /\ client' = "read"
    /\ UNCHANGED <<orchestratorVars, serverVars, conn, call, op, timer, late, heard,
                   shut, requests, reasons>>

(* The timer's thread: past its last check it shuts the socket whatever comes. *)
DeadlinePasses ==
    /\ timer = "armed"
    /\ timer' = "expiring"
    /\ reasons' = reasons \cup {"overdue"}
    /\ UNCHANGED <<orchestratorVars, serverVars, conn, client, call, op, got, late, heard,
                   shut, requests, replies>>

(* Slip: the event is set and the socket left as it is. *)
DeadlineOnlySaid ==
    /\ timer = "expiring"
    /\ timer' = "fired"
    /\ UNCHANGED <<orchestratorVars, serverVars, conn, client, call, op, got, late, heard,
                   shut, requests, replies, reasons>>

DeadlineShuts ==
    /\ timer = "expiring"
    /\ timer' = "fired"
    /\ shut' = TRUE
    /\ UNCHANGED <<orchestratorVars, serverVars, conn, client, call, op, got, late, heard,
                   requests, replies, reasons>>

(* cancel came after the timer's last check: the socket is shut under the next *)
(* call, or before it.                                                         *)
LateShuts ==
    /\ late
    /\ late' = FALSE
    /\ shut' = TRUE
    /\ UNCHANGED <<orchestratorVars, serverVars, conn, client, call, op, got, timer, heard,
                   requests, replies, reasons>>

(* Slip: a call past its deadline raises and keeps its connection. *)
AbandonsUnlessLate(failed) == (failed /\ timer # "fired") \/ op = "close"

(* What closes the connection for good: any failure, an error reply to hello   *)
(* (the server has ended the session), and close itself.                       *)
Abandons(failed) == failed \/ (op = "hello" /\ got.kind = "error") \/ op = "close"

(* _call, from its deadline's end: a result that came with the deadline is not *)
(* trusted.                                                                    *)
CallReturns ==
    LET failed == timer = "fired" \/ got.kind = "none" IN
    /\ client = "read"
    /\ client' = "idle"
    /\ timer' = "off"
    /\ late' = (late \/ timer = "expiring")
    /\ got' = IF failed THEN Nothing ELSE got
    /\ heard' = IF failed THEN heard ELSE got.call
    /\ conn' = IF Abandons(failed) THEN "abandoned" ELSE conn
    /\ shut' = (shut \/ Abandons(failed))
    /\ UNCHANGED <<orchestratorVars, serverVars, call, op, requests, replies, reasons>>

(* PolicyUnavailable was raised last, and `close` raises nothing. *)
Told == op # "close" /\ got.kind # "ok" /\ (call > 0 \/ conn = "abandoned")

(* The benchmark's process is over, and its socket with it. *)
BenchmarkOver(result) ==
    /\ outcome' = result
    /\ unit' = IF unit = "playing" THEN "ended" ELSE unit
    /\ client' = "idle"
    /\ conn' = "abandoned"
    /\ shut' = TRUE
    /\ timer' = "off"
    /\ late' = FALSE
    /\ UNCHANGED <<verdict, serverVars, call, op, got, heard, requests, replies, reasons>>

(* It names the policy as the cause of a void unit only if it was told so. *)
BenchmarkEnds ==
    /\ Playing /\ client = "idle"
    /\ \E result \in {"scored", "harness", "nobody"} \cup (IF Told THEN {"policy"} ELSE {}) :
          BenchmarkOver(result)

(* It crashed, or its orchestrator killed it at the unit's timeout. *)
BenchmarkStopped == Playing /\ BenchmarkOver("nobody")

-----------------------------------------------------------------------------
(* The server. *)

Listen ==
    /\ server = "starting"
    /\ server' = "listening"
    /\ UNCHANGED <<orchestratorVars, clientVars, status, built, serving, watch, stuck, shut, requests,
                   replies, reasons>>

(* It never serves: arguments, manifest, address, or the policy's own files. *)
StartFails ==
    /\ server = "starting"
    /\ Exit("failed")
    /\ reasons' = reasons \cup {"ended"}
    /\ UNCHANGED <<orchestratorVars, clientVars, shut, requests, replies>>

(* One client that authenticates, the only one there will be; for the client   *)
(* too, whose deadline may be past its last check.                             *)
Accept ==
    /\ server = "listening" /\ conn = "dialing"
    /\ server' = "polling"
    /\ conn' = "open"
    /\ late' \in BOOLEAN
    /\ reasons' = IF late' THEN reasons \cup {"overdue"} ELSE reasons
    /\ UNCHANGED <<orchestratorVars, status, built, serving, watch, stuck, client, call, op, got,
                   timer, heard, shut, requests, replies>>

(* Whether a request goes to the policy's code, and what answers it if not:    *)
(* hello builds the policy once, a call needs one, close asks it if it can.    *)
AsksPolicy(request) ==
    \/ request.op = "hello" /\ ~built
    \/ request.op \in {"call", "close"} /\ built

Unasked(request) == IF request.op \in {"hello", "close"} THEN "ok" ELSE "error"

Receive ==
    /\ server = "polling" /\ requests # <<>>
    /\ LET request == Head(requests) IN
          \/ /\ AsksPolicy(request)
             /\ server' = "calling"
             /\ serving' = [call |-> request.call, op |-> request.op, answer |-> "none"]
             /\ UNCHANGED reasons
          \/ /\ ~AsksPolicy(request) \/ request.op = "close"
             /\ server' = "answering"
             /\ serving' = [call |-> request.call, op |-> request.op, answer |-> Unasked(request)]
             /\ reasons' = IF Unasked(request) = "error" THEN reasons \cup {"misused"} ELSE reasons
    /\ requests' = Tail(requests)
    /\ UNCHANGED <<orchestratorVars, clientVars, status, built, watch, stuck, shut, replies>>

(* The policy returns or raises; either way the watch is told the call is over. *)
PolicyReturns ==
    /\ server = "calling" /\ ~stuck
    /\ \E answer \in {"ok", "error"} :
          /\ serving' = [serving EXCEPT !.answer = answer]
          /\ reasons' = IF answer = "error" THEN reasons \cup {"raised"} ELSE reasons
          /\ built' = (built \/ (serving.op = "hello" /\ answer = "ok"))
    /\ server' = "answering"
    /\ UNCHANGED <<orchestratorVars, clientVars, status, watch, stuck, shut, requests, replies>>

(* Or it ends the process, from the call or from a thread of its own. *)
PolicyEnds ==
    /\ Up /\ (built \/ server = "calling")
    /\ \E how \in {"clean", "failed"} : Exit(how)
    /\ reasons' = reasons \cup {"ended"}
    /\ UNCHANGED <<orchestratorVars, clientVars, shut, requests, replies>>

(* Or its native code holds the interpreter for good: no other thread of the   *)
(* server runs again, the watch's and the session's included (serve.py:24-25). *)
PolicySticks ==
    /\ Up /\ (built \/ server = "calling") /\ ~stuck
    /\ stuck' = TRUE
    /\ UNCHANGED <<orchestratorVars, clientVars, server, status, built, serving, watch, shut,
                   requests, replies, reasons>>

(* Slip: `close` ends the session before it is answered. *)
AnsweredUnlessClose == ~shut /\ serving.op # "close"

(* An answer to a client that has hung up cannot be sent. *)
Answered == ~shut

EndsSession == serving.op \in {"close", "junk"} \/ (serving.op = "hello" /\ serving.answer = "error")

Answer ==
    /\ server = "answering"
    /\ replies' = IF Answered THEN Append(replies, [call |-> serving.call, kind |-> serving.answer])
                  ELSE replies
    /\ \/ ~Answered /\ Exit("clean")
       \/ Answered /\ EndsSession /\ Exit(IF serving.op = "close" THEN "clean" ELSE "failed")
       \/ /\ Answered /\ ~EndsSession
          /\ server' = "polling"
          /\ serving' = NoRequest
          /\ UNCHANGED <<status, built, watch, stuck>>
    /\ UNCHANGED <<orchestratorVars, clientVars, shut, requests, reasons>>

(* The end of the connection, seen between calls. *)
SeeHangup ==
    /\ server = "polling" /\ requests = <<>> /\ shut
    /\ Exit("clean")
    /\ UNCHANGED <<orchestratorVars, clientVars, shut, requests, replies, reasons>>

(* Nothing said and nothing asked. *)
Idle == server = "polling" /\ requests = <<>>

(* idle_timeout_s is longer than any unit, so only a client that nobody stops  *)
(* is idle as long: one whose orchestrator was killed.                         *)
IdleTimeout ==
    /\ Idle /\ ~shut /\ unit = "abandoned"
    /\ Exit("clean")
    /\ UNCHANGED <<orchestratorVars, clientVars, shut, requests, replies, reasons>>

(* The hang-up watch, while the policy is called: an end-of-file... *)
WatchSees ==
    /\ server = "calling" /\ watch = "asleep"
    /\ requests = <<>> /\ shut
    /\ watch' = "eof"
    /\ UNCHANGED <<orchestratorVars, clientVars, server, status, built, serving, stuck, shut,
                   requests, replies, reasons>>

(* Slip: the watch only notes it. *)
WatchNotes ==
    /\ watch = "eof" /\ Up
    /\ watch' = "asleep"
    /\ UNCHANGED <<orchestratorVars, clientVars, server, status, built, serving, stuck, shut,
                   requests, replies, reasons>>

(* ...with the call still running ends the process. *)
WatchActs ==
    /\ watch = "eof" /\ Up
    /\ \/ server = "calling" /\ Exit("clean")
       \/ /\ server # "calling"
          /\ watch' = "asleep"
          /\ UNCHANGED <<server, status, built, serving, stuck>>
    /\ UNCHANGED <<orchestratorVars, clientVars, shut, requests, replies, reasons>>

(* A container removed from outside.  (A local server killed from outside is   *)
(* taken for one its policy ended, as _died says.)                             *)
Removed ==
    /\ Runtime = "docker" /\ Up
    /\ Exit("gone")
    /\ UNCHANGED <<orchestratorVars, clientVars, shut, requests, replies, reasons>>

-----------------------------------------------------------------------------
(* The orchestrator. *)

StartServer ==
    /\ unit = "off"
    /\ unit' = "starting"
    /\ server' = "starting"
    /\ UNCHANGED <<outcome, verdict, clientVars, status, built, serving, watch, stuck, shut, requests,
                   replies, reasons>>

(* _wait_listening: the socket is there, and the benchmark is run. *)
RunBenchmark ==
    /\ unit = "starting" /\ server = "listening"
    /\ unit' = "playing"
    /\ UNCHANGED <<outcome, verdict, serverVars, clientVars, shut, requests, replies, reasons>>

(* The unit is over, and its server killed or its container removed. *)
Judge(what) ==
    /\ verdict' = what
    /\ unit' = "over"
    /\ server' = "exited"
    /\ UNCHANGED <<outcome, status, built, serving, watch, stuck, clientVars, shut, requests, replies>>

(* It exited before it listened, or did not listen in time, or took all of its *)
(* budget to: the side's failure.  Removed, or not to be looked at: nobody's.  *)
NotServed ==
    /\ unit = "starting"
    /\ \/ status = "failed" /\ Judge("failed") /\ UNCHANGED reasons
       \/ Up /\ Judge("failed") /\ reasons' = reasons \cup {"overdue"}
       \/ (status = "gone" \/ Runtime = "docker") /\ Judge("void") /\ UNCHANGED reasons

(* died: how the server ended underneath its unit, if it did by its own doing  *)
(* or the harness's; Docker may not say.                                       *)
Ends ==
    (IF status = "failed" THEN {"policy"} ELSE IF status = "gone" THEN {"harness"} ELSE {"nobody"})
      \cup (IF Runtime = "docker" THEN {"harness"} ELSE {})

(* Slip: what the benchmark says comes first. *)
AttributedAsSaid(end) ==
    IF outcome = "scored" THEN "scored"
    ELSE IF outcome = "policy" \/ (outcome = "nobody" /\ end = "policy") THEN "failed"
    ELSE "void"

(* Slip: a cause passes for a verdict. *)
AttributedOutcome(end) == IF end = "nobody" THEN outcome ELSE AttributedAsSaid(end)

(* attribute: a score stands; a policy ended from outside is nobody's failure; *)
(* otherwise what the benchmark names, and then how the policy ended.          *)
Attributed(end) ==
    IF outcome = "scored" THEN "scored"
    ELSE IF end # "harness" /\ "policy" \in {outcome} \cup (IF outcome = "nobody" THEN {end} ELSE {})
    THEN "failed"
    ELSE "void"

JudgeUnit ==
    /\ unit = "ended"
    /\ \E end \in Ends : Judge(Attributed(end))
    /\ UNCHANGED reasons

(* The orchestrator is killed: what it started runs on. *)
Abandon ==
    /\ unit \in {"starting", "playing", "ended"}
    /\ unit' = "abandoned"
    /\ UNCHANGED <<outcome, verdict, serverVars, clientVars, shut, requests, replies, reasons>>

-----------------------------------------------------------------------------
ClientSteps == Dial \/ DialFails \/ (\E o \in Ops : Call(o)) \/ BenchmarkEnds \/ BenchmarkStopped

CallSteps == Read \/ CallReturns

TimerSteps == DeadlinePasses \/ DeadlineShuts \/ LateShuts

SessionSteps == ~stuck /\ (Receive \/ Answer \/ SeeHangup \/ IdleTimeout)

WatchSteps == ~stuck /\ (WatchSees \/ WatchActs)

Next ==
    \/ ClientSteps \/ CallSteps \/ TimerSteps
    \/ Listen \/ StartFails \/ Accept \/ SessionSteps \/ WatchSteps
    \/ PolicyReturns \/ PolicyEnds \/ PolicySticks \/ Removed
    \/ StartServer \/ RunBenchmark \/ NotServed \/ JudgeUnit \/ Abandon

Spec == Init /\ [][Next]_vars

(* Threads run, deadlines pass, and a living orchestrator stops a benchmark at *)
(* its timeout and ends the unit after it.  Nothing is assumed of the policy,  *)
(* nor of the benchmark; the server's threads run only while the policy lets   *)
(* go of the interpreter they share (the client's are the benchmark's own).    *)
Fairness ==
    /\ WF_vars(CallSteps)
    /\ WF_vars(TimerSteps)
    /\ WF_vars(SessionSteps)
    /\ WF_vars(WatchSteps)
    /\ WF_vars(unit = "playing" /\ BenchmarkStopped)
    /\ WF_vars(JudgeUnit)

FairSpec == Spec /\ Fairness

-----------------------------------------------------------------------------
(* client.py: every answer is the answer to the call just made, however late   *)
(* replies come and deadlines pass; after a lost call none is ever read again. *)
Promised ==
    INSTANCE PolicyCalls WITH
        asked <- call, waiting <- client # "idle", lost <- conn = "abandoned"

ImplementsCalls == Promised!Spec

(* side.py, "Whose a unit is": a side fails a unit only if its policy raised,  *)
(* ended or let a deadline pass (or its benchmark sent what a session refuses, *)
(* which the code does not tell apart) - never for a benchmark that died, a    *)
(* client that hung up or a container someone removed.                         *)
ChargedFairly == verdict = "failed" => reasons # {}

(* serve.py: a server ends by itself only when nobody waits for its answer:    *)
(* the hang-up watch, the idle timeout and the end of a session never cut off  *)
(* a client that would have been answered.                                     *)
LeavesNobodyWaiting ==
    [][(Up /\ server' = "exited" /\ status' \in {"clean", "failed"} /\ reasons' = reasons) =>
          client # "waiting" \/ shut \/ replies' # <<>>]_vars

(* "Timeouts are hard": a call ends, though the policy never comes back. *)
CallsEnd == client = "waiting" ~> client # "waiting"

(* "No server outlives its client": nor one whose call never returns, nor one  *)
(* whose client holds on to the connection after its orchestrator was killed.  *)
(* A policy that holds the interpreter is ended with its unit; only if the     *)
(* orchestrator was killed too does its server stay, for the next start's      *)
(* reaper ("the container around the server is the last resort").              *)
ServerEnds == server = "polling" ~> server = "exited" \/ (stuck /\ unit = "abandoned")
=============================================================================
