--------------------------- MODULE Lineage_proofs ---------------------------
(***************************************************************************)
(* The duel's life for any submissions, sizes, blocks and torn lines, with *)
(* a kill between any two writes: what a run directory decided stays       *)
(* decided; and, where no duel is run by hand and no write raises, the     *)
(* head is healed before anyone is served and the index is a lineage of    *)
(* kings, each duel published once and against the king before it.  Where  *)
(* no line is cut inside its signature, what is said to be published is.   *)
(***************************************************************************)
EXTENDS Orchestration_proofs

(* Where the store's owner asks for a duel, and where it runs one. *)
AskPlaces == {"ask", "take", "seat", "number", "start"}
DuelPlaces == {"run", "look", "play", "publish", "append", "line", "head", "outcome", "rebuild",
               "rehead", "redecide", "settle", "failed", "moved"}

(* Where the duel that is run has no outcome yet. *)
Undecided == {"play", "publish", "append", "line", "head", "outcome", "rebuild", "rehead", "redecide"}

OneRunPerEvent == \A r, s \in runs : r.event = s.event => r = s

(* What was decided, or is in progress, has a block the counter has handed out. *)
CountedInv ==
    /\ \A r \in runs : r.outcome # "none" => r.event.block <= block
    /\ inProgress # None => inProgress.event.block <= block

(* A duel asked for has the next block until its mark or its number is written. *)
NumberedInv ==
    /\ pc \in {"ask", "seat", "take", "number"} => req.event.block > block
    /\ pc \in DuelPlaces \cup {"start"} => req.event.block <= block

(* What is run was not decided, or is this very request's. *)
UndecidedInv ==
    /\ pc \in Undecided => \A r \in RunOf(req.event) : r.outcome = "none"
    /\ pc \in {"start", "run"} =>
          \A r \in RunOf(req.event) : r.outcome # "none" => r.size = req.size

RunsInv == OneRunPerEvent /\ CountedInv /\ NumberedInv /\ UndecidedInv

-----------------------------------------------------------------------------
(* One step of the loop, of a duel or of the command at a time. *)
LEMMA BlockGrows ==
    ASSUME OrchInv, RunsInv, Next
    PROVE  block' \in Nat /\ block <= block'
<1>0. block \in Nat
  BY DEF OrchInv, QueueInv, QueueTypeOK
<1>1. CASE block' = block
  BY <1>0, <1>1
<1>2. CASE TakeChallenger
  <2>1. req.event.block \in Nat /\ block' = Max2(block, req.event.block)
    BY <1>2, RequestTyped DEF TakeChallenger, Take
  <2> QED
    BY <1>0, <2>1 DEF Max2
<1>3. CASE NumberBaseline
  <2>1. req.event.block \in Nat /\ block' = req.event.block /\ pc = "number"
    BY <1>3, RequestTyped DEF NumberBaseline, SetBlock
  <2>2. req.event.block > block
    BY <2>1 DEF RunsInv, NumberedInv
  <2> QED
    BY <1>0, <2>1, <2>2
<1>4. ASSUME NEW c \in ByHand, NEW z \in Sizes, DuelByHand(c, z)
      PROVE  block' \in Nat /\ block <= block'
  <2>1. block' = block \/ block' = Max2(block, HeadBlock) + 1
    BY <1>4 DEF DuelByHand, queueVars, ClaimBlock, ClaimedBlock
  <2>2. HeadBlock \in Nat
    BY HeadTyped
  <2> QED
    BY <1>0, <2>1, <2>2 DEF Max2
<1>5. \/ TakeChallenger \/ NumberBaseline \/ block' = block
      \/ \E c \in ByHand, z \in Sizes : DuelByHand(c, z)
  BY DEF Next, DaemonLoop, DuelSteps, PlayEnds, QueueUsers, DaemonStart, SeeKing, DropKing,
         AskChallenger, AskRecorded, ChallengerGone, TakeGone, AskBaseline, StartBaseline, Resume,
         FinishLost, Settle, PutBackChallenger, AnotherMovedAside, RunDuel, AlreadyDecided,
         AlreadyPublished, CrownMoved, StartPlaying, PublishEvent, AppendRecord, AppendLine,
         AppendHead, RebuildTail, RebuildHead, DecidePublished, DecideUnpublished, Played,
         PlayFails, Unavailable, PublishFails, StepCrashes, HandDone, Kill,
         Add, Offer, Remove, Start, Finish, PutBack, queueVars
<1> QED
  BY <1>1, <1>2, <1>3, <1>4, <1>5

(* An undecided directory, where its outcome is what the code looked at. *)
LEMMA OutcomeRead ==
    ASSUME RunsInv, NEW event, Outcome(event) = "none"
    PROVE  \A r \in RunOf(event) : r.outcome = "none"
<1>1. \A r, s \in RunOf(event) : r = s
  BY DEF RunsInv, OneRunPerEvent, RunOf
<1>2. ASSUME NEW r \in RunOf(event)
      PROVE  r.outcome = "none"
  <2>1. (CHOOSE s \in RunOf(event) : TRUE) \in RunOf(event)
    BY <1>2
  <2>2. Outcome(event) = (CHOOSE s \in RunOf(event) : TRUE).outcome
    BY <1>2 DEF Outcome
  <2> QED
    BY <1>1, <1>2, <2>1, <2>2
<1> QED
  BY <1>2

(* What becomes of the run directories in a step. *)
LEMMA RunsChange ==
    ASSUME OrchInv, RunsInv, Next
    PROVE  \/ runs' = runs
           \/ /\ pc \in {"ask", "seat", "run"}
              /\ RecordRequest(req)
              /\ block' = block
           \/ /\ pc \in {"ask", "seat", "run", "look", "publish"}
              /\ MoveRunAside(req.event)
              /\ \A r \in RunOf(req.event) : r.outcome = "none"
           \/ /\ pc \in Undecided
              /\ \E what \in Outcomes : WriteOutcome(req.event, what)
              /\ block' = block
<1>1. CASE AskRecorded \/ RunDuel
  BY <1>1 DEF AskRecorded, RunDuel, queueVars
<1>2. CASE AnotherMovedAside
  <2>1. pc \in {"ask", "seat", "run"} /\ MoveRunAside(req.event) /\ HoldsAnother(req)
    BY <1>2 DEF AnotherMovedAside
  <2>2. CASE pc = "run"
    <3>1. \A r \in RunOf(req.event) : r.size # req.size
      BY <2>1 DEF HoldsAnother, HoldsRequest, RunOf
    <3> QED
      BY <2>1, <2>2, <3>1 DEF RunsInv, UndecidedInv
  <2>3. CASE pc \in {"ask", "seat"}
    <3>1. req.event.block > block /\ req.event.block \in Nat /\ block \in Nat
      BY <2>3, RequestTyped DEF RunsInv, NumberedInv, OrchInv, QueueInv, QueueTypeOK
    <3>2. \A r \in RunOf(req.event) : r.outcome = "none"
      BY <3>1 DEF RunsInv, CountedInv, RunOf
    <3> QED
      BY <2>1, <3>2
  <2> QED
    BY <2>1, <2>2, <2>3
<1>3. CASE CrownMoved
  <2>1. Looking /\ MoveRunAside(req.event)
    BY <1>3 DEF CrownMoved
  <2>2. CASE pc = "publish"
    BY <2>1, <2>2 DEF RunsInv, UndecidedInv, Undecided
  <2>3. CASE pc = "look" /\ Outcome(req.event) = "none"
    BY <2>1, <2>3, OutcomeRead
  <2> QED
    BY <2>1, <2>2, <2>3 DEF Looking
<1>4. CASE DecideUnpublished \/ DecidePublished
  BY <1>4 DEF DecideUnpublished, DecidePublished, Undecided, Outcomes, queueVars
<1>5. \/ AskRecorded \/ RunDuel \/ AnotherMovedAside \/ CrownMoved
      \/ DecideUnpublished \/ DecidePublished \/ runs' = runs
  BY DEF Next, DaemonLoop, DuelSteps, PlayEnds, QueueUsers, DaemonStart, SeeKing, DropKing,
         AskChallenger, TakeChallenger, ChallengerGone, AskBaseline, NumberBaseline, StartBaseline,
         Resume, FinishLost, Settle, PutBackChallenger, DuelByHand, AlreadyDecided,
         AlreadyPublished, StartPlaying, PublishEvent, AppendRecord, AppendLine, AppendHead,
         RebuildTail, RebuildHead, Played, PlayFails, Unavailable, PublishFails, StepCrashes,
         HandDone, Kill
<1> QED
  BY <1>1, <1>2, <1>3, <1>4, <1>5

(* A directory whose event has an outcome is not another's by size or event. *)
LEMMA RunsKept ==
    ASSUME OrchInv, RunsInv, Next
    PROVE  /\ OneRunPerEvent'
           /\ \A r \in runs' : r.outcome # "none" => r.event.block <= block'
           /\ \A r \in runs : r.outcome # "none" => r \in runs'
<1> DEFINE Kept == /\ OneRunPerEvent'
                   /\ \A r \in runs' : r.outcome # "none" => r.event.block <= block'
                   /\ \A r \in runs : r.outcome # "none" => r \in runs'
<1>0. /\ runs \in SUBSET Run
      /\ OneRunPerEvent
      /\ \A r \in runs : r.outcome # "none" => r.event.block <= block
      /\ block \in Nat /\ block' \in Nat /\ block <= block'
      /\ \A r \in runs : r.event.block \in Nat
  BY BlockGrows DEF OrchInv, ProcInv, ProcTypeOK, QueueInv, QueueTypeOK, RunsInv, CountedInv, Run,
                    EventIds
<1>1. CASE runs' = runs
  BY <1>0, <1>1 DEF OneRunPerEvent
<1>2. CASE RecordRequest(req)
  <2>1. CASE RunOf(req.event) # {}
    <3>1. runs' = runs
      BY <1>2, <2>1 DEF RecordRequest
    <3> QED
      BY <1>1, <3>1
  <2>2. CASE RunOf(req.event) = {}
    <3>1. PICK new : new = [event |-> req.event, size |-> req.size, outcome |-> "none"]
      OBVIOUS
    <3>2. runs' = runs \cup {new} /\ new.outcome = "none" /\ new.event = req.event
      BY <1>2, <2>2, <3>1 DEF RecordRequest
    <3>3. \A r \in runs : r.event # new.event
      BY <2>2, <3>2 DEF RunOf
    <3> QED
      BY <1>0, <3>2, <3>3 DEF OneRunPerEvent
  <2> QED
    BY <2>1, <2>2
<1>3. CASE /\ MoveRunAside(req.event)
           /\ \A r \in RunOf(req.event) : r.outcome = "none"
  <2>1. runs' = runs \ RunOf(req.event)
    BY <1>3 DEF MoveRunAside
  <2> QED
    BY <1>0, <1>3, <2>1 DEF OneRunPerEvent
<1>4. ASSUME pc \in Undecided, NEW what \in Outcomes, WriteOutcome(req.event, what)
      PROVE  Kept
  <2>1. req.event.block <= block /\ \A r \in RunOf(req.event) : r.outcome = "none"
    BY <1>4 DEF RunsInv, NumberedInv, UndecidedInv, Undecided, DuelPlaces
  <2>2. \A r \in runs' : \E s \in runs :
           \/ s.event # req.event /\ r = s
           \/ s.event = req.event /\ r = [s EXCEPT !.outcome = what]
    BY <1>4 DEF WriteOutcome
  <2>3. \A s \in runs : [s EXCEPT !.outcome = what].event = s.event
    BY <1>0 DEF Run
  <2>4. OneRunPerEvent'
    <3> SUFFICES ASSUME NEW r \in runs', NEW q \in runs', r.event = q.event
                 PROVE  r = q
      BY DEF OneRunPerEvent
    <3>1. PICK s \in runs : \/ s.event # req.event /\ r = s
                            \/ s.event = req.event /\ r = [s EXCEPT !.outcome = what]
      BY <2>2
    <3>2. PICK o \in runs : \/ o.event # req.event /\ q = o
                            \/ o.event = req.event /\ q = [o EXCEPT !.outcome = what]
      BY <2>2
    <3>3. s.event = r.event /\ o.event = q.event
      BY <2>3, <3>1, <3>2
    <3>4. s = o
      BY <1>0, <3>3 DEF OneRunPerEvent
    <3> QED
      BY <3>1, <3>2, <3>4
  <2>5. \A r \in runs' : r.outcome # "none" => r.event.block <= block'
    <3> SUFFICES ASSUME NEW r \in runs', r.outcome # "none"
                 PROVE  r.event.block <= block'
      OBVIOUS
    <3>1. PICK s \in runs : \/ s.event # req.event /\ r = s
                            \/ s.event = req.event /\ r = [s EXCEPT !.outcome = what]
      BY <2>2
    <3>2. r.event.block <= block
      BY <1>0, <2>1, <2>3, <3>1
    <3>3. r.event.block \in Nat
      BY <1>0, <2>3, <3>1
    <3> QED
      BY <1>0, <3>2, <3>3
  <2>6. \A r \in runs : r.outcome # "none" => r \in runs'
    BY <1>4, <2>1 DEF WriteOutcome, RunOf
  <2> QED
    BY <2>4, <2>5, <2>6
<1> QED
  BY <1>1, <1>2, <1>3, <1>4, RunsChange

(* The mark is made of a block the counter has reached by then. *)
LEMMA MarkCounted ==
    ASSUME OrchInv, RunsInv, Next
    PROVE  inProgress' # None => inProgress'.event.block <= block'
<1>0. /\ block \in Nat /\ block' \in Nat /\ block <= block'
      /\ inProgress # None => inProgress.event.block \in Nat /\ inProgress.event.block <= block
  BY BlockGrows
  DEF OrchInv, QueueInv, QueueTypeOK, RunsInv, CountedInv, InProgress, EventIds
<1>1. CASE inProgress' = inProgress \/ inProgress' = None
  BY <1>0, <1>1
<1>2. CASE TakeChallenger
  <2>1. /\ req.event.block \in Nat /\ block' = Max2(block, req.event.block)
        /\ inProgress'.event = req.event
    BY <1>2, RequestTyped DEF TakeChallenger, Take
  <2> QED
    BY <1>0, <2>1 DEF Max2
<1>3. CASE StartBaseline
  <2>1. block' = block /\ inProgress'.event = req.event /\ pc = "start"
    BY <1>3 DEF StartBaseline, Start
  <2> QED
    BY <2>1 DEF RunsInv, NumberedInv
<1>4. \/ TakeChallenger \/ StartBaseline \/ inProgress' = inProgress \/ inProgress' = None
  BY DEF Next, DaemonLoop, DuelSteps, PlayEnds, QueueUsers, DaemonStart, SeeKing, DropKing,
         AskChallenger, AskRecorded, ChallengerGone, TakeGone, AskBaseline, NumberBaseline, Resume,
         FinishLost, Settle, PutBackChallenger, AnotherMovedAside, RunDuel, AlreadyDecided,
         AlreadyPublished, CrownMoved, StartPlaying, PublishEvent, AppendRecord, AppendLine,
         AppendHead, RebuildTail, RebuildHead, DecidePublished, DecideUnpublished, Played,
         PlayFails, Unavailable, PublishFails, StepCrashes, HandDone, Kill, DuelByHand,
         Add, Offer, Remove, Finish, PutBack, SetBlock, ClaimBlock, queueVars
<1> QED
  BY <1>1, <1>2, <1>3, <1>4

(* Where a step takes the owner of the store, and with which request.  *)
(* A duel is asked for by the loop, resumed, or asked for by hand.     *)
Asks == AskChallenger \/ AskBaseline
ByHandAsks == \E c \in ByHand, z \in Sizes : DuelByHand(c, z)

(* The steps that leave the loop, or go back to it, with no duel to run. *)
Leaves ==
    /\ pc' \in {"off", "step", "drop"}
    /\ pc' = "drop" => SeeKing
    /\ runs' = runs

(* The steps of a duel that is asked for or run: its request stays. *)
Goes ==
    /\ req' = req
    /\ pc \notin {"off", "step", "drop"}
    /\ \/ pc' = pc /\ pc \in {"ask", "seat", "run"} /\ MoveRunAside(req.event) /\ block' = block
       \/ pc = "ask" /\ pc' = "take" /\ block' = block
       \/ pc = "take" /\ pc' = "run" /\ TakeChallenger
       \/ pc = "seat" /\ pc' = "number" /\ block' = block
       \/ pc = "number" /\ pc' = "start" /\ NumberBaseline
       \/ pc = "start" /\ pc' = "run" /\ StartBaseline
       \/ pc = "run" /\ pc' = "look"
       \/ pc = "look" /\ pc' = "settle"
       \/ Looking /\ Published(req.event) /\ pc' = "rebuild" /\ runs' = runs
       \/ Looking /\ ~Published(req.event) /\ pc' = "moved"
       \/ pc = "look" /\ pc' = "play" /\ Outcome(req.event) = "none" /\ runs' = runs
       \/ pc = "play" /\ pc' = "publish" /\ runs' = runs
       \/ pc \in Undecided /\ pc' \in {"settle", "failed"}
       \/ pc = "publish" /\ pc' = "append" /\ runs' = runs
       \/ pc = "append" /\ pc' = "line" /\ runs' = runs
       \/ pc = "line" /\ pc' = "head" /\ runs' = runs
       \/ pc = "head" /\ pc' = "outcome" /\ runs' = runs
       \/ pc = "rebuild" /\ pc' = "rehead" /\ runs' = runs
       \/ pc = "rehead" /\ pc' = "redecide" /\ runs' = runs

LEMMA WhereItGoes ==
    ASSUME OrchInv, Next
    PROVE  \/ Asks
           \/ Resume
           \/ ByHandAsks
           \/ Leaves
           \/ Goes
           \/ UNCHANGED <<pc, req, runs, inProgress, block>>
<1> USE DEF OrchInv, ProcInv
<1>1. CASE QueueUsers \/ FinishLost
  BY <1>1 DEF QueueUsers, FinishLost, Add, Offer, Remove, Finish, procVars, AtStep, Leaves
<1>2. CASE DaemonStart \/ SeeKing \/ DropKing \/ ChallengerGone \/ Settle \/ PutBackChallenger
  BY <1>2 DEF DaemonStart, SeeKing, DropKing, ChallengerGone, Settle, PutBackChallenger, Goto,
              BackToLoop, Leaves
<1>3. CASE Unavailable \/ StepCrashes \/ HandDone \/ Kill
  BY <1>3 DEF Unavailable, StepCrashes, HandDone, Kill, BackToLoop, Leaves
<1>4. CASE AskRecorded \/ TakeChallenger \/ NumberBaseline \/ StartBaseline
  BY <1>4 DEF AskRecorded, TakeChallenger, NumberBaseline, StartBaseline, Goto, Goes, queueVars
<1>5. CASE AnotherMovedAside \/ RunDuel \/ AlreadyDecided
  BY <1>5 DEF AnotherMovedAside, RunDuel, AlreadyDecided, Goto, Goes, queueVars
<1>6. CASE AlreadyPublished \/ CrownMoved \/ StartPlaying
  BY <1>6 DEF AlreadyPublished, CrownMoved, StartPlaying, Looking, Goto, Goes
<1>7. CASE PublishEvent \/ AppendRecord \/ AppendLine \/ AppendHead \/ RebuildTail \/ RebuildHead
  BY <1>7 DEF PublishEvent, AppendRecord, AppendLine, AppendHead, RebuildTail, RebuildHead, Goto,
              Goes
<1>8. CASE DecidePublished \/ PlayEnds \/ PublishFails
  BY <1>8 DEF DecidePublished, PlayEnds, DecideUnpublished, Played, PlayFails, PublishFails, Goto,
              Goes, Undecided
<1> QED
  BY <1>1, <1>2, <1>3, <1>4, <1>5, <1>6, <1>7, <1>8
  DEF Next, DaemonLoop, DuelSteps, Asks, ByHandAsks

(* The next block is one the counter has not handed out. *)
LEMMA NextBlockIsNew ==
    ASSUME OrchInv
    PROVE  NextBlock > block /\ ClaimedBlock(HeadBlock) > block
<1>1. block \in Nat /\ HeadBlock \in Nat
  BY HeadTyped DEF OrchInv, QueueInv, QueueTypeOK
<1> QED
  BY <1>1 DEF NextBlock, ClaimedBlock, Max2

(* A duel by hand runs at the counter's own block, whether claimed or used again; *)
(* what was decided at the last one is the very request.                          *)
LEMMA HandAsked ==
    ASSUME OrchInv, RunsInv, ByHandAsks
    PROVE  /\ pc' = "run" /\ runs' = runs
           /\ req'.event.block <= block'
           /\ \A r \in RunOf(req'.event) : r.outcome # "none" => r.size = req'.size
<1>0. block \in Nat /\ HeadBlock \in Nat
  BY HeadTyped DEF OrchInv, QueueInv, QueueTypeOK
<1>1. PICK c \in ByHand, z \in Sizes : DuelByHand(c, z)
  BY DEF ByHandAsks
<1>2. pc' = "run" /\ runs' = runs
  BY <1>1 DEF DuelByHand
<1>3. CASE /\ Reused(c, z)
           /\ req' = HandRequest(c, z, Max2(block, HeadBlock))
           /\ UNCHANGED queueVars
  <2>1. req'.event.block = Max2(block, HeadBlock) /\ Max2(block, HeadBlock) > HeadBlock
    BY <1>3 DEF Reused, HandRequest, Request
  <2>2. HoldsRequest(req')
    BY <1>3 DEF Reused
  <2>3. \A r \in RunOf(req'.event) : r.size = req'.size
    BY <2>2 DEF HoldsRequest, RunOf, RunsInv, OneRunPerEvent
  <2> QED
    BY <1>0, <1>2, <1>3, <2>1, <2>3 DEF Max2, queueVars
<1>4. CASE ClaimBlock(HeadBlock) /\ req' = HandRequest(c, z, block')
  <2>1. req'.event.block = block' /\ block' = ClaimedBlock(HeadBlock)
    BY <1>4 DEF HandRequest, Request, ClaimBlock
  <2>2. block' > block /\ block' \in Nat
    BY <2>1, NextBlockIsNew, HeadTyped
  <2>3. \A r \in RunOf(req'.event) : r.outcome = "none"
    BY <1>0, <2>1, <2>2 DEF RunsInv, CountedInv, RunOf
  <2> QED
    BY <1>2, <2>1, <2>2, <2>3
<1> QED
  BY <1>1, <1>3, <1>4 DEF DuelByHand

(* A duel that goes on keeps its number, and a directory in play stays undecided. *)
LEMMA GoesOn ==
    ASSUME OrchInv, RunsInv, Next, Goes
    PROVE  NumberedInv' /\ UndecidedInv'
<1>0. /\ block \in Nat /\ block' \in Nat /\ block <= block' /\ req' = req
      /\ req.event.block \in Nat
      /\ pc \in {"ask", "seat", "take", "number"} => req.event.block > block
      /\ pc \in DuelPlaces \cup {"start"} => req.event.block <= block
  BY BlockGrows, RequestTyped DEF Goes, OrchInv, QueueInv, QueueTypeOK, RunsInv, NumberedInv
<1>1. CASE pc' = pc /\ pc \in {"ask", "seat", "run"} /\ MoveRunAside(req.event) /\ block' = block
  <2>1. \A r \in runs' : r.event # req.event
    BY <1>1 DEF MoveRunAside, RunOf
  <2> QED
    BY <1>0, <1>1, <2>1 DEF NumberedInv, UndecidedInv, RunOf, Undecided, DuelPlaces
<1>2. CASE pc' \in {"take", "number"}
  <2>1. pc \in {"ask", "seat"} /\ block' = block
    BY <1>2, <1>1 DEF Goes
  <2> QED
    BY <1>0, <1>2, <2>1 DEF NumberedInv, UndecidedInv, Undecided, DuelPlaces
<1>3. CASE pc = "take" /\ pc' = "run" /\ TakeChallenger
  <2>1. block' = Max2(block, req.event.block) /\ runs' = runs
    BY <1>3 DEF TakeChallenger, Take
  <2>2. \A r \in RunOf(req.event) : r.outcome = "none"
    BY <1>0, <1>3 DEF RunsInv, CountedInv, RunOf
  <2> QED
    BY <1>0, <1>3, <2>1, <2>2 DEF Max2, NumberedInv, UndecidedInv, RunOf, Undecided, DuelPlaces
<1>4. CASE pc = "number" /\ pc' = "start" /\ NumberBaseline
  <2>1. block' = req.event.block /\ runs' = runs
    BY <1>4 DEF NumberBaseline, SetBlock
  <2>2. \A r \in RunOf(req.event) : r.outcome = "none"
    BY <1>0, <1>4 DEF RunsInv, CountedInv, RunOf
  <2> QED
    BY <1>0, <1>4, <2>1, <2>2 DEF NumberedInv, UndecidedInv, RunOf, Undecided, DuelPlaces
<1>5. CASE pc = "start" /\ pc' = "run" /\ StartBaseline
  <2>1. block' = block /\ runs' = runs
    BY <1>5 DEF StartBaseline, Start
  <2> QED
    BY <1>0, <1>5, <2>1 DEF RunsInv, NumberedInv, UndecidedInv, RunOf, Undecided, DuelPlaces
<1>6. CASE pc \in DuelPlaces /\ pc' \in DuelPlaces \ (Undecided \cup {"run"})
  BY <1>0, <1>6 DEF NumberedInv, UndecidedInv, Undecided, DuelPlaces
<1>7. CASE pc' \in Undecided
  <2>1. pc \in DuelPlaces /\ runs' = runs
    BY <1>7 DEF Goes, Undecided, DuelPlaces, Looking
  <2>2. pc = "look" => Outcome(req.event) = "none"
    BY <1>7 DEF Goes, Undecided, Looking
  <2>3. pc \in Undecided \/ pc = "look"
    BY <1>7 DEF Goes, Undecided, Looking
  <2>4. \A r \in RunOf(req.event) : r.outcome = "none"
    BY <2>2, <2>3, OutcomeRead DEF RunsInv, UndecidedInv
  <2> QED
    BY <1>0, <1>7, <2>1, <2>4 DEF NumberedInv, UndecidedInv, RunOf, Undecided, DuelPlaces
<1> QED
  BY <1>1, <1>2, <1>3, <1>4, <1>5, <1>6, <1>7 DEF Goes, Looking, Undecided, DuelPlaces

LEMMA PlacesKept ==
    ASSUME OrchInv, RunsInv, Next
    PROVE  NumberedInv' /\ UndecidedInv'
<1>0. block \in Nat /\ block' \in Nat /\ block <= block'
  BY BlockGrows DEF OrchInv, QueueInv, QueueTypeOK
<1>1. CASE Asks
  <2>1. pc' \in {"ask", "seat"} /\ req'.event.block = NextBlock /\ block' = block
    BY <1>1 DEF Asks, AskChallenger, AskBaseline, Request, queueVars
  <2> QED
    BY <2>1, NextBlockIsNew DEF NumberedInv, UndecidedInv, Undecided, DuelPlaces
<1>2. CASE Resume
  <2>1. PICK r \in RunOf(inProgress.event) : req' = [event |-> r.event, size |-> r.size]
    BY <1>2 DEF Resume
  <2>2. pc' = "run" /\ runs' = runs /\ block' = block /\ inProgress # None
    BY <1>2 DEF Resume, queueVars
  <2>3. req'.event = inProgress.event /\ req'.event.block <= block
    BY <2>1, <2>2 DEF RunOf, RunsInv, CountedInv
  <2>4. \A s \in RunOf(req'.event) : s.size = req'.size
    BY <2>1, <2>3 DEF RunOf, RunsInv, OneRunPerEvent
  <2> QED
    BY <2>2, <2>3, <2>4 DEF NumberedInv, UndecidedInv, RunOf, Undecided
<1>3. CASE ByHandAsks
  BY <1>3, HandAsked DEF NumberedInv, UndecidedInv, RunOf, Undecided
<1>4. CASE Leaves
  BY <1>4 DEF Leaves, NumberedInv, UndecidedInv, Undecided, DuelPlaces
<1>5. CASE Goes
  BY <1>5, GoesOn
<1>6. CASE UNCHANGED <<pc, req, runs, inProgress, block>>
  BY <1>6 DEF RunsInv, NumberedInv, UndecidedInv, RunOf
<1> QED
  BY <1>1, <1>2, <1>3, <1>4, <1>5, <1>6, WhereItGoes

LEMMA RunsStepInv ==
    ASSUME OrchInv, RunsInv, [Next]_vars
    PROVE  RunsInv' /\ \A r \in runs : r.outcome # "none" => r \in runs'
<1>1. CASE Next
  <2>1. CountedInv'
    BY <1>1, RunsKept, MarkCounted DEF CountedInv
  <2> QED
    BY <1>1, <2>1, RunsKept, PlacesKept DEF RunsInv
<1>2. CASE UNCHANGED vars
  BY <1>2 DEF vars, procVars, queueVars, RunsInv, OneRunPerEvent, CountedInv, NumberedInv,
              UndecidedInv, RunOf
<1> QED
  BY <1>1, <1>2

LEMMA RunsInvariance == Spec => []RunsInv
<1>1. Init => RunsInv
  BY DEF Init, QueueInit, RunsInv, OneRunPerEvent, CountedInv, NumberedInv, UndecidedInv, Undecided,
         DuelPlaces
<1>2. OrchInv /\ RunsInv /\ [Next]_vars => RunsInv'
  BY RunsStepInv
<1> QED
  BY <1>1, <1>2, OrchInvariance, PTL DEF Spec

(* orchestrate.py Orchestrator.run and record_request: "Once outcome.json        *)
(* exists, running the duel again returns it": whoever runs a duel of the same   *)
(* id, at whatever size and after whatever kill, an outcome is never written     *)
(* over and its directory never moved aside.                                     *)
THEOREM DecidedStaysDecided == Spec => OutcomesKept
<1>1. OrchInv /\ RunsInv /\ [Next]_vars
        => [\A r \in runs : r.outcome # "none" => r \in runs']_vars
  BY RunsStepInv
<1> QED
  BY <1>1, OrchInvariance, RunsInvariance, PTL DEF Spec, OutcomesKept

-----------------------------------------------------------------------------
(* daemon.py _resume and PutBack: a duel in progress whose request is on disk   *)
(* ends decided, failed, or with the entry it was taken from back in the queue: *)
(* nothing else clears the mark.                                                *)
THEOREM RecordedIsNotDropped == Spec => RecordedDuelNotDropped
<1> DEFINE Ended == inProgress # None /\ inProgress' = None /\ pc \in {"step", "moved"}
           NotDropped == \/ RunOf(inProgress.event) = {} /\ pc = "step"
                         \/ inProgress.entry = None
                         \/ \E i \in DOMAIN entries' : entries'[i] = inProgress.entry
<1>1. ASSUME OrchInv, Next, Ended
      PROVE  NotDropped
  <2>1. FinishLost \/ PutBackChallenger
    BY <1>1 DEF Next, DaemonLoop, DuelSteps, PlayEnds, QueueUsers, DaemonStart, SeeKing, DropKing,
         AskChallenger, AskRecorded, TakeChallenger, ChallengerGone, TakeGone, AskBaseline,
         NumberBaseline, StartBaseline, Resume, Settle, AnotherMovedAside, RunDuel, AlreadyDecided,
         AlreadyPublished, CrownMoved, StartPlaying, PublishEvent, AppendRecord, AppendLine,
         AppendHead, RebuildTail, RebuildHead, DecidePublished, DecideUnpublished, Played,
         PlayFails, Unavailable, PublishFails, StepCrashes, HandDone, Kill, DuelByHand,
         Add, Offer, Remove, Take, Start, SetBlock, ClaimBlock, queueVars
  <2>2. CASE FinishLost
    BY <2>2 DEF FinishLost, AtStep
  <2>3. CASE PutBackChallenger /\ inProgress.entry # None
    <3>1. PutBackEntry(EntryOfRequest) = inProgress.entry
      BY <1>1, <2>3 DEF PutBackEntry
    <3>2. entries' = <<inProgress.entry>> \o Without(inProgress.entry.key)
      BY <2>3, <3>1 DEF PutBackChallenger, PutBack
    <3>3. inProgress.entry \in Entries /\ inProgress.entry.key \in Submissions
      BY <1>1, <2>3 DEF OrchInv, QueueInv, QueueTypeOK, InProgress, Entries
    <3>4. Without(inProgress.entry.key) \in Seq(Entries)
      BY <1>1, <3>3, WithoutKeeps DEF OrchInv
    <3>5. 1 \in DOMAIN entries' /\ entries'[1] = inProgress.entry
      BY <3>2, <3>3, <3>4
    <3> QED
      BY <3>5
  <2> QED
    BY <2>1, <2>2, <2>3
<1>2. OrchInv /\ [Next]_vars => [Ended => NotDropped]_vars
  BY <1>1
<1> QED
  BY <1>2, OrchInvariance, PTL DEF Spec, RecordedDuelNotDropped

-----------------------------------------------------------------------------
(* A duel is asked for between two submissions, or of one for an empty throne. *)
Contest(event) == event.challenger # event.king /\ event.block \in 1 .. MaxBlock

(* Every duel asked for, being run or on its way to the index is a contest, and *)
(* no genesis dethrones anyone.                                                 *)
ContestsInv ==
    /\ \A r \in runs : Contest(r.event)
    /\ pc \notin {"off", "step", "drop"} => Contest(req.event)
    /\ appending.at = "repaired" => Contest(appending.record.event)
    /\ \A f \in events : f.event.king = None => ~f.dethroned

LEMMA ContestOfRuns ==
    ASSUME OrchInv, RunsInv, ContestsInv, Next
    PROVE  \A r \in runs' : Contest(r.event)
<1>0. \A r \in runs : Contest(r.event)
  BY DEF ContestsInv
<1>1. CASE pc \in {"ask", "seat", "run"} /\ RecordRequest(req)
  <2>1. Contest(req.event)
    BY <1>1 DEF ContestsInv
  <2>2. \A r \in runs' : r \in runs \/ r.event = req.event
    BY <1>1 DEF RecordRequest
  <2> QED
    BY <1>0, <2>1, <2>2
<1>2. CASE MoveRunAside(req.event)
  BY <1>0, <1>2 DEF MoveRunAside
<1>3. ASSUME NEW what \in Outcomes, WriteOutcome(req.event, what)
      PROVE  \A r \in runs' : Contest(r.event)
  <2>1. \A r \in runs : r \in Run
    BY DEF OrchInv, ProcInv, ProcTypeOK
  <2>2. \A r \in runs' : \E s \in runs : r.event = s.event
    BY <1>3, <2>1 DEF WriteOutcome, Run
  <2> QED
    BY <1>0, <2>2
<1> QED
  BY <1>0, <1>1, <1>2, <1>3, RunsChange

(* _check_crown's other half: nobody is asked to fight themselves. *)
LEMMA ContestOfRequest ==
    ASSUME OrchInv, ContestsInv, Next, pc' \notin {"off", "step", "drop"}
    PROVE  Contest(req'.event)
<1>0. block \in Nat /\ MaxBlock \in Nat /\ HeadBlock \in Nat
  BY HeadTyped, OrchestrationAssumption DEF OrchInv, QueueInv, QueueTypeOK
<1>1. CASE Asks
  <2>1. /\ req'.event.block = NextBlock /\ NextBlock <= MaxBlock
        /\ req'.event.king = head.king
    BY <1>1 DEF Asks, AskChallenger, AskBaseline, Throneless, Request
  <2>2. req'.event.challenger # head.king
    BY <1>1 DEF Asks, AskChallenger, AskBaseline, Throneless, Request
  <2>3. NextBlock \in 1 .. MaxBlock
    BY <1>0, <2>1 DEF NextBlock, Max2
  <2> QED
    BY <2>1, <2>2, <2>3 DEF Contest
<1>2. CASE Resume
  BY <1>2 DEF Resume, RunOf, ContestsInv
<1>3. CASE ByHandAsks
  <2>1. PICK c \in ByHand, z \in Sizes : DuelByHand(c, z)
    BY <1>3 DEF ByHandAsks
  <2>2. CASE Reused(c, z) /\ req' = HandRequest(c, z, Max2(block, HeadBlock))
    BY <2>2 DEF Reused, HoldsRequest, ContestsInv
  <2>3. CASE /\ ClaimedBlock(HeadBlock) <= MaxBlock
             /\ ClaimBlock(HeadBlock)
             /\ req' = HandRequest(c, z, block')
    <3>1. block' = ClaimedBlock(HeadBlock) /\ block' \in 1 .. MaxBlock
      BY <1>0, <2>3 DEF ClaimBlock, ClaimedBlock, Max2
    <3>2. head.king # c
      BY <2>1 DEF DuelByHand
    <3> QED
      BY <2>3, <3>1, <3>2 DEF HandRequest, Request, Contest
  <2> QED
    BY <2>1, <2>2, <2>3 DEF DuelByHand
<1>4. CASE Leaves
  BY <1>4 DEF Leaves
<1>5. CASE Goes
  BY <1>5 DEF Goes, ContestsInv
<1>6. CASE UNCHANGED <<pc, req, runs, inProgress, block>>
  BY <1>6 DEF ContestsInv
<1> QED
  BY <1>1, <1>2, <1>3, <1>4, <1>5, <1>6, WhereItGoes

(* Which steps touch what the store holds of records on their way. *)
LEMMA WhatIsAppended ==
    ASSUME OrchInv, Next
    PROVE  \/ PublishEvent
           \/ AppendRecord
           \/ AppendLine
           \/ AppendHead
           \/ RebuildTail
           \/ RebuildHead
           \/ /\ \/ PublishFails /\ IoErrors
                 \/ StepCrashes /\ IoErrors
                 \/ Kill
              /\ Abandon(owner)
           \/ UNCHANGED storeVars
  BY DEF Next, DaemonLoop, DuelSteps, PlayEnds, QueueUsers, DaemonStart, SeeKing, DropKing,
         AskChallenger, AskRecorded, TakeChallenger, ChallengerGone, AskBaseline, NumberBaseline,
         StartBaseline, Resume, FinishLost, Settle, PutBackChallenger, DuelByHand,
         AnotherMovedAside, RunDuel, AlreadyDecided, AlreadyPublished, CrownMoved, StartPlaying,
         DecidePublished, DecideUnpublished, Played, PlayFails,
         Unavailable, HandDone, PublishFails, StepCrashes, Kill

LEMMA ContestOfRecord ==
    ASSUME OrchInv, ContestsInv, Next
    PROVE  /\ appending'.at = "repaired" => Contest(appending'.record.event)
           /\ \A f \in events' : f.event.king = None => ~f.dethroned
<1>0. /\ appending.at = "repaired" => Contest(appending.record.event)
      /\ \A f \in events : f.event.king = None => ~f.dethroned
  BY DEF ContestsInv
<1>1. CASE PublishEvent
  <2>1. PICK d \in BOOLEAN : (Kind(req.event) = "genesis" => ~d) /\ WriteEvent(req.event, d)
    BY <1>1 DEF PublishEvent
  <2> DEFINE new == [event |-> req.event, dethroned |-> d]
  <2>2. \A f \in events' : f \in events \/ f = new
    BY <2>1 DEF WriteEvent
  <2>3. new.event.king = None => ~new.dethroned
    BY <2>1 DEF Kind
  <2>4. appending' = appending
    BY <2>1 DEF WriteEvent
  <2> HIDE DEF new
  <2> QED
    BY <1>0, <2>2, <2>3, <2>4
<1>2. CASE AppendRecord
  <2>1. events' = events /\ appending'.record.event = req.event /\ Contest(req.event)
    BY <1>2 DEF AppendRecord, BeginAppend, ContestsInv
  <2> QED
    BY <1>0, <2>1
<1>3. CASE AppendLine
  <2>1. appending.at = "repaired" /\ appending' = [appending EXCEPT !.at = "written"] /\ events' = events
    BY <1>3 DEF AppendLine, WriteLine
  <2>2. appending'.at = "written"
    BY <2>1 DEF OrchInv, StoreInv, StoreTypeOK, Unlocked
  <2> QED
    BY <1>0, <2>1, <2>2
<1>4. CASE AppendHead \/ RebuildTail \/ RebuildHead
  BY <1>0, <1>4 DEF AppendHead, RebuildTail, RebuildHead, WriteHead, BeginRebuild, RewriteHead,
                    Unlocked
<1>5. CASE Abandon(owner)
  BY <1>0, <1>5 DEF Abandon, AbandonAppend, storeVars, Unlocked
<1>6. CASE UNCHANGED storeVars
  BY <1>0, <1>6 DEF storeVars
<1> QED
  BY <1>1, <1>2, <1>3, <1>4, <1>5, <1>6, WhatIsAppended

LEMMA ContestsInvariance == Spec => []ContestsInv
<1>1. Init => ContestsInv
  BY DEF Init, StoreInit, ContestsInv, Unlocked
<1>2. OrchInv /\ RunsInv /\ ContestsInv /\ [Next]_vars => ContestsInv'
  <2> SUFFICES ASSUME OrchInv, RunsInv, ContestsInv, [Next]_vars
               PROVE  ContestsInv'
    OBVIOUS
  <2>1. CASE Next
    <3>1. \A r \in runs' : Contest(r.event)
      BY <2>1, ContestOfRuns
    <3>2. pc' \notin {"off", "step", "drop"} => Contest(req'.event)
      BY <2>1, ContestOfRequest
    <3>3. /\ appending'.at = "repaired" => Contest(appending'.record.event)
          /\ \A f \in events' : f.event.king = None => ~f.dethroned
      BY <2>1, ContestOfRecord
    <3> QED
      BY <3>1, <3>2, <3>3 DEF ContestsInv, Contest
  <2>2. CASE UNCHANGED vars
    BY <2>2 DEF vars, procVars, storeVars, ContestsInv, Contest
  <2> QED
    BY <2>1, <2>2
<1> QED
  BY <1>1, <1>2, OrchInvariance, RunsInvariance, PTL DEF Spec

-----------------------------------------------------------------------------
(* Where only the daemon runs duels and no write raises. *)
DaemonAlone == ByHand = {} /\ IoErrors = FALSE

(* What the daemon runs is in progress with its request on disk, and what it    *)
(* appends is the duel it runs.                                                 *)
DaemonInv ==
    /\ owner # "cli"
    /\ pc \in DuelPlaces => inProgress # None /\ inProgress.event = req.event
    /\ pc \in AskPlaces \cup {"drop"} => inProgress = None
    /\ pc \in {"take", "number", "start", "run"} => HoldsRequest(req)
    /\ pc = "line" => appending.record.event = req.event
    /\ pc = "head" => index # <<>> /\ index[Len(index)] = appending.record

LEMMA MarkChange ==
    ASSUME OrchInv, Next
    PROVE  \/ inProgress' = inProgress
           \/ TakeChallenger
           \/ StartBaseline
           \/ inProgress' = None /\ pc' = "step"
<1>1. CASE Settle \/ PutBackChallenger
  BY <1>1 DEF Settle, PutBackChallenger, Finish, PutBack, BackToLoop
<1>2. CASE FinishLost
  BY <1>2 DEF FinishLost, Finish, AtStep, procVars
<1> QED
  BY <1>1, <1>2
  DEF Next, DaemonLoop, DuelSteps, PlayEnds, QueueUsers, DaemonStart, SeeKing, DropKing,
      AskChallenger, AskRecorded, ChallengerGone, TakeGone, AskBaseline, NumberBaseline, Resume,
      AnotherMovedAside, RunDuel, AlreadyDecided, AlreadyPublished, CrownMoved, StartPlaying,
      PublishEvent, AppendRecord, AppendLine, AppendHead, RebuildTail, RebuildHead,
      DecidePublished, DecideUnpublished, Played, PlayFails, Unavailable, PublishFails,
      StepCrashes, HandDone, Kill, DuelByHand, Add, Offer, Remove, SetBlock, ClaimBlock, queueVars

LEMMA NoHand ==
    ASSUME DaemonAlone, OrchInv, DaemonInv, Next
    PROVE  owner' # "cli" /\ ~ByHandAsks
<1>0. "cli" # None /\ "cli" # "daemon"
  BY OrchestrationAssumption
<1>1. ~ByHandAsks
  BY DEF ByHandAsks, DaemonAlone
<1>2. owner' = owner \/ owner' = "daemon" \/ owner' = None
  BY <1>1
  DEF Next, DaemonLoop, DuelSteps, PlayEnds, QueueUsers, DaemonStart, SeeKing, DropKing,
      AskChallenger, AskRecorded, TakeChallenger, ChallengerGone, AskBaseline, NumberBaseline,
      StartBaseline, Resume, FinishLost, Settle, PutBackChallenger, AnotherMovedAside, RunDuel,
      AlreadyDecided, AlreadyPublished, CrownMoved, StartPlaying, PublishEvent, AppendRecord,
      AppendLine, AppendHead, RebuildTail, RebuildHead, DecidePublished, DecideUnpublished, Played,
      PlayFails, Unavailable, PublishFails, StepCrashes, HandDone, Kill, ByHandAsks, Goto,
      BackToLoop, procVars
<1> QED
  BY <1>0, <1>1, <1>2 DEF DaemonInv

(* The duel in progress is the one that is run, and nobody else's is asked for. *)
LEMMA MarkOfDuel ==
    ASSUME DaemonAlone, OrchInv, RunsInv, DaemonInv, Next
    PROVE  /\ pc' \in DuelPlaces => inProgress' # None /\ inProgress'.event = req'.event
           /\ pc' \in AskPlaces \cup {"drop"} => inProgress' = None
<1> DEFINE Marked == /\ pc' \in DuelPlaces => inProgress' # None /\ inProgress'.event = req'.event
                     /\ pc' \in AskPlaces \cup {"drop"} => inProgress' = None
<1>1. CASE Asks
  <2>1. inProgress = None /\ inProgress' = inProgress /\ pc' \in {"ask", "seat"}
    BY <1>1 DEF Asks, AskChallenger, AskBaseline, Serving, queueVars
  <2> QED
    BY <2>1 DEF DuelPlaces
<1>2. CASE Resume
  BY <1>2 DEF Resume, RunOf, DuelPlaces, AskPlaces, queueVars
<1>3. CASE Leaves
  <2>1. pc' = "drop" => inProgress = None /\ inProgress' = inProgress
    BY <1>3 DEF Leaves, SeeKing, Serving, queueVars
  <2> QED
    BY <1>3, <2>1 DEF Leaves, DuelPlaces, AskPlaces
<1>4. CASE TakeChallenger \/ StartBaseline
  <2>1. /\ pc' = "run" /\ req' = req
        /\ inProgress' \in InProgress /\ inProgress'.event = req.event
    <3>1. CASE TakeChallenger
      <4>1. /\ pc' = "run" /\ req' = req /\ req.event \in EventIds
            /\ Waiting(req.event.challenger)
            /\ inProgress' = [event |-> req.event, entry |-> EntryOf(req.event.challenger)]
        BY <3>1, RequestTyped DEF TakeChallenger, Take, Goto
      <4>2. EntryOf(req.event.challenger) \in Entries
        BY <4>1 DEF OrchInv, QueueInv, QueueTypeOK, EntryOf, PlaceOf, Waiting
      <4> QED
        BY <4>1, <4>2 DEF InProgress
    <3>2. CASE StartBaseline
      BY <3>2, RequestTyped DEF StartBaseline, Start, Goto, InProgress
    <3> QED
      BY <1>4, <3>1, <3>2
  <2>2. inProgress' # None
    BY <2>1, MarkAssumption
  <2> QED
    BY <2>1, <2>2 DEF AskPlaces
<1>5. CASE Goes /\ inProgress' = inProgress /\ ~TakeChallenger /\ ~StartBaseline
  <2>1. pc' \in DuelPlaces => pc \in DuelPlaces
    BY <1>5 DEF Goes, DuelPlaces, Undecided, Looking
  <2>2. pc' \in AskPlaces \cup {"drop"} => pc \in AskPlaces
    BY <1>5 DEF Goes, AskPlaces, Undecided, Looking
  <2>3. req' = req
    BY <1>5 DEF Goes
  <2> QED
    BY <1>5, <2>1, <2>2, <2>3 DEF DaemonInv
<1>6. CASE UNCHANGED <<pc, req, runs, inProgress, block>>
  BY <1>6 DEF DaemonInv
<1>7. CASE inProgress' = None /\ pc' = "step"
  BY <1>7 DEF DuelPlaces, AskPlaces
<1> QED
  BY <1>1, <1>2, <1>3, <1>4, <1>5, <1>6, <1>7, WhereItGoes, MarkChange, NoHand

(* Its request is on disk before the mark is made, and until it is looked at. *)
LEMMA RequestOnDisk ==
    ASSUME DaemonAlone, OrchInv, RunsInv, DaemonInv, Next
    PROVE  (pc \in {"take", "number", "start", "run"} => HoldsRequest(req))'
<1>1. CASE Asks
  BY <1>1 DEF Asks, AskChallenger, AskBaseline
<1>2. CASE Resume
  <2>1. PICK r \in RunOf(inProgress.event) : req' = [event |-> r.event, size |-> r.size]
    BY <1>2 DEF Resume
  <2>2. runs' = runs
    BY <1>2 DEF Resume
  <2> QED
    BY <2>1, <2>2 DEF HoldsRequest, RunOf
<1>3. CASE Leaves
  BY <1>3 DEF Leaves
<1>4. CASE AskRecorded
  <2>1. req' = req /\ RecordRequest(req) /\ pc \in {"ask", "seat"}
    BY <1>4 DEF AskRecorded, Goto
  <2>2. \E r \in runs' : r.event = req.event /\ r.size = req.size
    BY <2>1, RunsTyped
  <2> QED
    BY <2>1, <2>2 DEF HoldsRequest
<1>5. CASE TakeChallenger \/ NumberBaseline \/ StartBaseline
  BY <1>5 DEF TakeChallenger, NumberBaseline, StartBaseline, Goto, DaemonInv, HoldsRequest
<1>6. CASE AnotherMovedAside
  <2>1. pc # "run"
    BY <1>6 DEF AnotherMovedAside, HoldsAnother, DaemonInv
  <2> QED
    BY <1>6, <2>1 DEF AnotherMovedAside, Goto
<1>7. CASE UNCHANGED <<pc, req, runs, inProgress, block>>
  BY <1>7 DEF DaemonInv, HoldsRequest
<1>8. CASE Goes
  <2>1. CASE pc' \in {"take", "number", "start", "run"}
    <3>1. pc \in {"ask", "seat", "take", "number", "start", "run"}
      BY <1>8, <2>1 DEF Goes, Undecided, Looking
    <3>2. AskRecorded \/ TakeChallenger \/ NumberBaseline \/ StartBaseline \/ AnotherMovedAside
          \/ UNCHANGED <<pc, req, runs, inProgress, block>>
      BY <1>8, <2>1, <3>1, NoHand
      DEF Goes, Looking, Undecided,
          Next, DaemonLoop, DuelSteps, PlayEnds, QueueUsers, DaemonStart, SeeKing, DropKing,
          AskChallenger, ChallengerGone, AskBaseline, Resume, FinishLost, Settle,
          PutBackChallenger, RunDuel, AlreadyDecided, AlreadyPublished, CrownMoved, StartPlaying,
          PublishEvent, AppendRecord, AppendLine, AppendHead, RebuildTail, RebuildHead,
          DecidePublished, DecideUnpublished, Played, PlayFails, Unavailable, PublishFails,
          StepCrashes, HandDone, Kill, ByHandAsks, Goto, BackToLoop, procVars, Add, Offer, Remove,
          AtStep, Serving
    <3> QED
      BY <3>2, <1>4, <1>5, <1>6, <1>7
  <2> QED
    BY <2>1
<1> QED
  BY <1>1, <1>2, <1>3, <1>7, <1>8, WhereItGoes, NoHand

(* The record on its way is the duel's, and the line written is the record. *)
LEMMA OwnRecord ==
    ASSUME DaemonAlone, OrchInv, RunsInv, DaemonInv, Next
    PROVE  /\ (pc = "line" => appending.record.event = req.event)'
           /\ (pc = "head" => index # <<>> /\ index[Len(index)] = appending.record)'
<1>1. CASE AppendRecord
  BY <1>1 DEF AppendRecord, BeginAppend, Goto
<1>2. CASE AppendLine
  <2>1. /\ appending.at = "repaired" /\ appending # Unlocked
        /\ index' = IF tail = NoTail THEN Append(index, appending.record) ELSE index
        /\ appending' = [appending EXCEPT !.at = "written"]
        /\ pc' = "head"
    BY <1>2 DEF AppendLine, WriteLine, Goto, Unlocked
  <2>2. tail = NoTail /\ index \in Seq(Records) /\ appending.record \in Records
    BY <2>1 DEF OrchInv, StoreInv, AppendInv, StoreTypeOK
  <2>3. appending'.record = appending.record
    BY <2>1 DEF OrchInv, StoreInv, StoreTypeOK
  <2>4. index' # <<>> /\ index'[Len(index')] = appending.record
    BY <2>1, <2>2
  <2> QED
    BY <2>1, <2>3, <2>4
<1>3. CASE QueueUsers
  BY <1>3 DEF QueueUsers, procVars, storeVars, DaemonInv
<1>4. CASE ~(AppendRecord \/ AppendLine \/ QueueUsers)
  <2>1. pc' \notin {"line", "head"}
    BY <1>4
    DEF Next, DaemonLoop, DuelSteps, PlayEnds, DaemonStart, SeeKing, DropKing,
        AskChallenger, AskRecorded, TakeChallenger, ChallengerGone, AskBaseline, NumberBaseline,
        StartBaseline, Resume, FinishLost, Settle, PutBackChallenger, AnotherMovedAside, RunDuel,
        AlreadyDecided, AlreadyPublished, CrownMoved, StartPlaying, PublishEvent, AppendHead,
        RebuildTail, RebuildHead, DecidePublished, DecideUnpublished, Played, PlayFails,
        Unavailable, PublishFails, StepCrashes, HandDone, Kill, DuelByHand, Goto, BackToLoop,
        procVars, AtStep
  <2> QED
    BY <2>1
<1> QED
  BY <1>1, <1>2, <1>3, <1>4

LEMMA DaemonStepInv ==
    ASSUME DaemonAlone, OrchInv, RunsInv, DaemonInv, [Next]_vars
    PROVE  DaemonInv'
<1>1. CASE Next
  BY <1>1, NoHand, MarkOfDuel, RequestOnDisk, OwnRecord DEF DaemonInv
<1>2. CASE UNCHANGED vars
  BY <1>2 DEF vars, queueVars, storeVars, procVars, DaemonInv, HoldsRequest
<1> QED
  BY <1>1, <1>2

LEMMA DaemonInvariance ==
    ASSUME DaemonAlone
    PROVE  Spec => []DaemonInv
<1>1. Init => DaemonInv
  BY OrchestrationAssumption DEF Init, DaemonInv, DuelPlaces, AskPlaces
<1>2. OrchInv /\ RunsInv /\ DaemonInv /\ [Next]_vars => DaemonInv'
  BY DaemonStepInv
<1> QED
  BY <1>1, <1>2, OrchInvariance, RunsInvariance, PTL DEF Spec

-----------------------------------------------------------------------------
(* The duel in progress, whose directory says nothing was decided. *)
ToPublish(event) ==
    /\ inProgress # None /\ inProgress.event = event
    /\ \E r \in RunOf(event) : r.outcome = "none"

(* From a kill to the rebuild of the head: the duel is resumed and found published. *)
Healing == {"off", "step", "run", "look", "rebuild"}

(* A last line that is read without being whole is the duel's in progress, and  *)
(* the head is of the line before it.                                           *)
TailInv ==
    tail.cut \in {"newline", "signature"} =>
        ToPublish(tail.record.event) /\ HeadCurrent /\ pc \in Healing

(* The head is behind by the line of the duel in progress at most. *)
LagInv ==
    \/ HeadCurrent
    \/ /\ index # <<>> /\ ToPublish(index[Len(index)].event)
       /\ pc \in Healing \cup {"rehead", "head"}

LineageInv == RunsInv /\ ContestsInv /\ DaemonInv /\ TailInv /\ LagInv

(* A line of a duel in progress that has no outcome leaves nothing to do but    *)
(* resume it, find it published and rebuild the head.                           *)
LEMMA HealingSteps ==
    ASSUME DaemonAlone, OrchInv, RunsInv, DaemonInv, Next,
           NEW event, ToPublish(event), Published(event), pc \in Healing \cup {"rehead", "head"}
    PROVE  /\ runs' = runs /\ inProgress' = inProgress
           /\ \/ UNCHANGED storeVars /\ (pc' = pc \/ (pc \in Healing /\ pc' \in Healing))
              \/ RebuildTail
              \/ RebuildHead
              \/ AppendHead
              \/ Kill
<1> DEFINE Heals == /\ runs' = runs /\ inProgress' = inProgress
                    /\ \/ UNCHANGED storeVars /\ (pc' = pc \/ (pc \in Healing /\ pc' \in Healing))
                       \/ RebuildTail
                       \/ RebuildHead
                       \/ AppendHead
                       \/ Kill
<1>0. inProgress # None /\ inProgress.event = event /\ RunOf(event) # {}
  BY DEF ToPublish
<1>1. pc \in DuelPlaces => req.event = event
  BY <1>0 DEF DaemonInv
<1>2. Outcome(event) = "none"
  <2>1. PICK r \in RunOf(event) : r.outcome = "none"
    BY DEF ToPublish
  <2>2. \A s \in RunOf(event) : s = r
    BY <2>1 DEF RunOf, RunsInv, OneRunPerEvent
  <2>3. (CHOOSE s \in RunOf(event) : TRUE) = r
    BY <2>1, <2>2
  <2> QED
    BY <2>1, <2>3, <1>0 DEF Outcome
<1>3. CASE QueueUsers
  <2>1. UNCHANGED storeVars /\ runs' = runs /\ pc' = pc
    BY <1>3 DEF QueueUsers, procVars
  <2>2. inProgress' = inProgress
    BY <1>3 DEF QueueUsers, Add, Offer, Remove
  <2> QED
    BY <2>1, <2>2
<1>4. CASE DaemonStart
  BY <1>4 DEF DaemonStart, queueVars, OrchInv, ProcInv, OwnerInv, Healing
<1>5. CASE Resume
  BY <1>5 DEF Resume, AtStep, queueVars, Healing
<1>6. CASE RunDuel
  <2>1. pc = "run" /\ pc' = "look" /\ UNCHANGED <<queueVars, storeVars>> /\ RecordRequest(req)
    BY <1>6 DEF RunDuel, Goto
  <2>2. runs' = runs
    BY <2>1, <1>0, <1>1 DEF RecordRequest, DuelPlaces
  <2> QED
    BY <2>1, <2>2 DEF queueVars, Healing
<1>7. CASE AlreadyPublished
  <2>1. pc = "look"
    BY <1>7 DEF AlreadyPublished, Looking, Healing
  <2> QED
    BY <1>7, <2>1 DEF AlreadyPublished, Goto, queueVars, Healing
<1>8. CASE RebuildTail \/ RebuildHead \/ AppendHead
  BY <1>8 DEF RebuildTail, RebuildHead, AppendHead, queueVars
<1>9. CASE Kill
  BY <1>9 DEF Kill, queueVars
<1>10. CASE SeeKing \/ AskChallenger \/ AskBaseline \/ FinishLost
  BY <1>0, <1>10 DEF SeeKing, AskChallenger, AskBaseline, FinishLost, Serving
<1>11. CASE AnotherMovedAside
  <2>1. pc = "run"
    BY <1>11 DEF AnotherMovedAside, Healing
  <2>2. HoldsRequest(req)
    BY <2>1 DEF DaemonInv
  <2> QED
    BY <1>11, <2>2 DEF AnotherMovedAside, HoldsAnother
<1>12. CASE AlreadyDecided \/ CrownMoved \/ StartPlaying
  <2>1. pc = "look"
    BY <1>12 DEF AlreadyDecided, CrownMoved, StartPlaying, Looking, Healing
  <2>2. req.event = event
    BY <2>1, <1>1 DEF DuelPlaces
  <2> QED
    BY <1>12, <2>2, <1>2 DEF AlreadyDecided, CrownMoved, StartPlaying
<1>13. ~(PublishFails \/ StepCrashes \/ ByHandAsks)
  BY DEF PublishFails, StepCrashes, ByHandAsks, DaemonAlone
<1>14. ~(\/ DropKing \/ AskRecorded \/ TakeChallenger \/ ChallengerGone \/ NumberBaseline
         \/ StartBaseline \/ Settle \/ PutBackChallenger \/ PublishEvent \/ AppendRecord
         \/ AppendLine \/ DecidePublished \/ PlayEnds \/ Unavailable \/ HandDone)
  BY DEF DropKing, AskRecorded, TakeChallenger, ChallengerGone, NumberBaseline, StartBaseline,
         Settle, PutBackChallenger, PublishEvent, AppendRecord, AppendLine, DecidePublished,
         PlayEnds, DecideUnpublished, Played, PlayFails, Unavailable, HandDone, Healing
<1> HIDE DEF Heals
<1> QED
  BY <1>3, <1>4, <1>5, <1>6, <1>7, <1>8, <1>9, <1>10, <1>11, <1>12, <1>13, <1>14
  DEF Next, DaemonLoop, DuelSteps, ByHandAsks, Heals

(* What a killed append or rebuild leaves. *)
LEMMA KilledAppend ==
    ASSUME OrchInv, Kill
    PROVE  /\ pc' = "off" /\ head' = head
           /\ pc # "line" => UNCHANGED <<index, tail>>
           /\ pc = "line" =>
                 /\ appending.at = "repaired" /\ tail = NoTail
                 /\ \/ UNCHANGED <<index, tail>>
                    \/ index' = Append(index, appending.record) /\ tail' = tail
                    \/ /\ \E cut \in Cuts : tail' = [cut |-> cut, record |-> appending.record]
                       /\ index' = index
<1>1. Abandon(owner) /\ pc' = "off" /\ owner # None /\ pc # "off"
  BY DEF Kill, OrchInv, ProcInv, OwnerInv
<1>2. head' = head
  BY <1>1, AbandonIsAStep
<1>3. appending.by = owner \/ UNCHANGED storeVars
  BY <1>1 DEF Abandon
<1>4. appending.by = owner => AbandonAppend(owner)
  BY <1>1 DEF Abandon
<1>5. CASE pc = "line"
  <2>1. appending.at = "repaired" /\ appending # Unlocked
    BY <1>5 DEF OrchInv, ProcInv, LockInv, Unlocked
  <2>2. tail = NoTail
    BY <2>1 DEF OrchInv, StoreInv, AppendInv
  <2> QED
    BY <1>1, <1>2, <1>3, <1>4, <1>5, <2>1, <2>2 DEF AbandonAppend, storeVars
<1>6. CASE pc # "line"
  <2>1. appending.at # "repaired"
    BY <1>6 DEF OrchInv, ProcInv, LockInv, Unlocked
  <2> QED
    BY <1>1, <1>2, <1>3, <1>4, <1>6, <2>1 DEF AbandonAppend, storeVars
<1> QED
  BY <1>5, <1>6

(* The last of the lines with one more. *)
LEMMA LastLine ==
    ASSUME OrchInv, NEW record \in Records
    PROVE  /\ Append(index, record) # <<>>
           /\ Append(index, record)[Len(Append(index, record))] = record
<1>1. index \in Seq(Records)
  BY DEF OrchInv, StoreInv, StoreTypeOK
<1> QED
  BY <1>1

(* What the rebuilt or the appended head is of. *)
LEMMA HeadsWritten ==
    ASSUME OrchInv, DaemonInv, LagInv, RebuildHead \/ AppendHead
    PROVE  HeadCurrent' /\ UNCHANGED <<index, tail>>
<1>1. CASE AppendHead
  <2>1. /\ pc = "head" /\ head' = HeadOf(appending.record) /\ UNCHANGED <<index, tail>>
        /\ index # <<>> /\ index[Len(index)] = appending.record
    BY <1>1 DEF AppendHead, WriteHead, DaemonInv
  <2> QED
    BY <2>1 DEF HeadCurrent
<1>2. CASE RebuildHead
  <2>1. UNCHANGED <<index, tail>>
    BY <1>2 DEF RebuildHead, RewriteHead
  <2>2. CASE index = <<>>
    <3>1. head' = head
      BY <1>2, <2>2 DEF RebuildHead, RewriteHead
    <3> QED
      BY <2>1, <2>2, <3>1 DEF HeadCurrent, LagInv
  <2>3. CASE index # <<>>
    <3>1. head' = [HeadOf(index[Len(index)]) EXCEPT !.king = Holder(index)]
      BY <1>2, <2>3 DEF RebuildHead, RewriteHead
    <3>2. Holder(index) = KingAfter(index[Len(index)])
      BY <2>3 DEF Holder
    <3>3. head' = HeadOf(index[Len(index)])
      BY <3>1, <3>2 DEF HeadOf
    <3> QED
      BY <2>1, <2>3, <3>3 DEF HeadCurrent
  <2> QED
    BY <2>1, <2>2, <2>3
<1> QED
  BY <1>1, <1>2

(* The line being written is of the duel in progress. *)
LEMMA LineOfDuel ==
    ASSUME OrchInv, RunsInv, DaemonInv, LagInv, pc = "line"
    PROVE  /\ appending.record \in Records
           /\ ToPublish(appending.record.event)
           /\ HeadCurrent
<1>1. appending.at = "repaired" /\ appending.record \in Records
  BY DEF OrchInv, ProcInv, LockInv, StoreInv, StoreTypeOK, Unlocked
<1>2. /\ inProgress # None /\ inProgress.event = req.event
      /\ appending.record.event = req.event
  BY DEF DaemonInv, DuelPlaces
<1>3. \E r \in RunOf(req.event) : r.outcome = "none"
  <2>1. HoldsRequest(req)
    BY DEF OrchInv, ProcInv, RunHoldsRequest
  <2> QED
    BY <2>1 DEF HoldsRequest, RunOf, RunsInv, UndecidedInv, Undecided
<1>4. HeadCurrent
  BY DEF LagInv, Healing
<1> QED
  BY <1>1, <1>2, <1>3, <1>4 DEF ToPublish

(* The duel to publish is so still, of a line read and of the line last written. *)
LEMMA StillToPublish ==
    ASSUME NEW event, ToPublish(event), inProgress' = inProgress, runs' = runs
    PROVE  /\ tail'.record.event = event /\ HeadCurrent' /\ pc' \in Healing => TailInv'
           /\ /\ index' # <<>> /\ index'[Len(index')].event = event
              /\ pc' \in Healing \cup {"rehead", "head"}
              => LagInv'
BY DEF ToPublish, RunOf, TailInv, LagInv

LEMMA HealsTail ==
    ASSUME DaemonAlone, OrchInv, LineageInv, Next, tail.cut \in {"newline", "signature"}
    PROVE  TailInv' /\ LagInv'
<1>0. PICK event : event = tail.record.event
  OBVIOUS
<1>1. ToPublish(event) /\ HeadCurrent /\ pc \in Healing /\ tail.record \in Records
  BY <1>0 DEF LineageInv, TailInv, OrchInv, StoreInv, StoreTypeOK, NoTail
<1>2. Published(event)
  <2>1. ReadableIndex = Append(index, tail.record)
    BY DEF ReadableIndex
  <2>2. Len(ReadableIndex) \in DOMAIN ReadableIndex /\ ReadableIndex[Len(ReadableIndex)].event = event
    BY <1>0, <1>1, <2>1 DEF OrchInv, StoreInv, StoreTypeOK
  <2> QED
    BY <2>2 DEF Published
<1>3. /\ runs' = runs /\ inProgress' = inProgress
      /\ \/ UNCHANGED storeVars /\ (pc' = pc \/ (pc \in Healing /\ pc' \in Healing))
         \/ RebuildTail
         \/ RebuildHead
         \/ AppendHead
         \/ Kill
  BY <1>1, <1>2, HealingSteps DEF LineageInv
<1>4. CASE UNCHANGED storeVars /\ (pc' = pc \/ (pc \in Healing /\ pc' \in Healing))
  <2>1. HeadCurrent' /\ tail' = tail /\ pc' \in Healing
    BY <1>1, <1>4 DEF HeadCurrent, storeVars
  <2> QED
    BY <1>0, <1>1, <1>3, <2>1, StillToPublish DEF LagInv
<1>5. CASE RebuildTail
  <2>1. tail' = NoTail /\ head' = head /\ index' = RepairedIndex /\ pc' = "rehead"
    BY <1>5 DEF RebuildTail, BeginRebuild, Goto
  <2>2. TailInv'
    BY <2>1 DEF TailInv, NoTail
  <2>3. CASE tail.cut = "newline"
    <3>1. index' = Append(index, tail.record)
      BY <2>1, <2>3 DEF RepairedIndex
    <3>2. index' # <<>> /\ index'[Len(index')].event = event
      BY <1>0, <1>1, <3>1, LastLine
    <3> QED
      BY <1>1, <1>3, <2>1, <2>2, <3>2, StillToPublish
  <2>4. CASE tail.cut # "newline"
    <3>1. HeadCurrent'
      BY <1>1, <2>1, <2>4 DEF RepairedIndex, HeadCurrent
    <3> QED
      BY <2>2, <3>1 DEF LagInv
  <2> QED
    BY <2>3, <2>4
<1>6. CASE RebuildHead \/ AppendHead
  BY <1>1, <1>6 DEF RebuildHead, AppendHead, Healing
<1>7. CASE Kill
  <2>1. pc' \in Healing /\ UNCHANGED <<index, tail, head>>
    BY <1>1, <1>7, KilledAppend DEF Healing
  <2>2. HeadCurrent'
    BY <1>1, <2>1 DEF HeadCurrent
  <2> QED
    BY <1>0, <1>1, <1>3, <2>1, <2>2, StillToPublish DEF LagInv
<1> QED
  BY <1>3, <1>4, <1>5, <1>6, <1>7

LEMMA HealsHead ==
    ASSUME DaemonAlone, OrchInv, LineageInv, Next,
           tail.cut \notin {"newline", "signature"}, ~HeadCurrent
    PROVE  TailInv' /\ LagInv'
<1>0. PICK event : event = index[Len(index)].event
  OBVIOUS
<1>1. ToPublish(event) /\ index # <<>> /\ pc \in Healing \cup {"rehead", "head"}
  BY <1>0 DEF LineageInv, LagInv
<1>2. Published(event)
  <2>1. ReadableIndex = index
    BY DEF ReadableIndex
  <2>2. index \in Seq(Records)
    BY DEF OrchInv, StoreInv, StoreTypeOK
  <2>3. Len(index) \in DOMAIN index
    BY <1>1, <2>2
  <2> QED
    BY <1>0, <2>1, <2>3 DEF Published
<1>3. /\ runs' = runs /\ inProgress' = inProgress
      /\ \/ UNCHANGED storeVars /\ (pc' = pc \/ (pc \in Healing /\ pc' \in Healing))
         \/ RebuildTail
         \/ RebuildHead
         \/ AppendHead
         \/ Kill
  BY <1>1, <1>2, HealingSteps DEF LineageInv
<1>4. CASE UNCHANGED storeVars /\ (pc' = pc \/ (pc \in Healing /\ pc' \in Healing))
  <2>1. index' = index /\ tail' = tail /\ pc' \in Healing \cup {"rehead", "head"}
    BY <1>1, <1>4 DEF storeVars
  <2> QED
    BY <1>0, <1>1, <1>3, <2>1, StillToPublish DEF TailInv
<1>5. CASE RebuildTail
  <2>1. tail' = NoTail /\ index' = index /\ pc' = "rehead"
    BY <1>5 DEF RebuildTail, BeginRebuild, Goto, RepairedIndex
  <2>2. TailInv'
    BY <2>1 DEF TailInv, NoTail
  <2> QED
    BY <1>0, <1>1, <1>3, <2>1, <2>2, StillToPublish
<1>6. CASE RebuildHead \/ AppendHead
  BY <1>6, HeadsWritten DEF LineageInv, TailInv, LagInv
<1>7. CASE Kill
  <2>1. pc' \in Healing /\ UNCHANGED <<index, tail, head>>
    BY <1>1, <1>7, KilledAppend DEF Healing
  <2> QED
    BY <1>0, <1>1, <1>3, <2>1, StillToPublish DEF TailInv
<1> QED
  BY <1>3, <1>4, <1>5, <1>6, <1>7

LEMMA StaysCurrent ==
    ASSUME DaemonAlone, OrchInv, LineageInv, Next,
           tail.cut \notin {"newline", "signature"}, HeadCurrent
    PROVE  TailInv' /\ LagInv'
<1>0. RepairedIndex = index
  BY DEF RepairedIndex
<1>1. CASE UNCHANGED <<index, head>> /\ (tail' = tail \/ tail' = NoTail)
  <2>1. HeadCurrent'
    BY <1>1 DEF HeadCurrent
  <2>2. tail'.cut \notin {"newline", "signature"}
    BY <1>1 DEF NoTail
  <2> QED
    BY <2>1, <2>2 DEF TailInv, LagInv
<1>2. CASE PublishEvent \/ AppendRecord \/ RebuildTail
  BY <1>0, <1>1, <1>2 DEF PublishEvent, WriteEvent, AppendRecord, BeginAppend, RebuildTail,
                          BeginRebuild
<1>3. CASE AppendHead \/ RebuildHead
  BY <1>3, HeadsWritten DEF LineageInv, TailInv, LagInv
<1>4. CASE AppendLine
  <2>1. /\ pc = "line" /\ pc' = "head" /\ tail' = NoTail /\ runs' = runs /\ inProgress' = inProgress
        /\ index' = IF tail = NoTail THEN Append(index, appending.record) ELSE index
        /\ appending.at = "repaired"
    BY <1>4 DEF AppendLine, WriteLine, Goto, queueVars
  <2>2. tail = NoTail
    BY <2>1 DEF OrchInv, StoreInv, AppendInv, Unlocked
  <2>3. PICK event : event = appending.record.event
    OBVIOUS
  <2>4. ToPublish(event) /\ appending.record \in Records
    BY <2>1, <2>3, LineOfDuel DEF LineageInv
  <2>5. index' # <<>> /\ index'[Len(index')].event = event
    BY <2>1, <2>2, <2>3, <2>4, LastLine
  <2>6. TailInv'
    BY <2>1 DEF TailInv, NoTail
  <2> QED
    BY <2>1, <2>4, <2>5, <2>6, StillToPublish
<1>5. CASE Kill /\ pc # "line"
  <2>1. UNCHANGED <<index, tail, head>>
    BY <1>5, KilledAppend
  <2> QED
    BY <1>1, <2>1
<1>6. CASE Kill /\ pc = "line"
  <2>1. runs' = runs /\ inProgress' = inProgress /\ pc' = "off" /\ head' = head /\ tail = NoTail
    BY <1>6, KilledAppend DEF Kill, queueVars
  <2>2. PICK event : event = appending.record.event
    OBVIOUS
  <2>3. ToPublish(event) /\ appending.record \in Records
    BY <1>6, <2>2, LineOfDuel DEF LineageInv
  <2>4. CASE UNCHANGED <<index, tail>>
    BY <1>1, <2>1, <2>4
  <2>5. CASE index' = Append(index, appending.record) /\ tail' = tail
    <3>1. index' # <<>> /\ index'[Len(index')].event = event
      BY <2>2, <2>3, <2>5, LastLine
    <3>2. TailInv'
      BY <2>1, <2>5 DEF TailInv, NoTail
    <3> QED
      BY <2>1, <2>3, <3>1, <3>2, StillToPublish DEF Healing
  <2>6. CASE /\ \E cut \in Cuts : tail' = [cut |-> cut, record |-> appending.record]
             /\ index' = index
    <3>1. HeadCurrent' /\ tail'.record.event = event
      BY <2>1, <2>2, <2>6 DEF HeadCurrent
    <3> QED
      BY <2>1, <2>3, <3>1, StillToPublish DEF Healing, LagInv
  <2> QED
    BY <1>6, <2>4, <2>5, <2>6, KilledAppend
<1>7. CASE UNCHANGED storeVars
  BY <1>1, <1>7 DEF storeVars
<1> QED
  BY <1>2, <1>3, <1>4, <1>5, <1>6, <1>7, WhatIsAppended DEF DaemonAlone

LEMMA LineageStepInv ==
    ASSUME DaemonAlone, OrchInv, TailInv, LagInv, RunsInv, ContestsInv, DaemonInv, [Next]_vars
    PROVE  TailInv' /\ LagInv'
<1>1. CASE Next
  BY <1>1, HealsTail, HealsHead, StaysCurrent DEF LineageInv
<1>2. CASE UNCHANGED vars
  BY <1>2 DEF vars, queueVars, storeVars, procVars, TailInv, LagInv, ToPublish, RunOf, HeadCurrent
<1> QED
  BY <1>1, <1>2

LEMMA LineageInvariance ==
    ASSUME DaemonAlone
    PROVE  Spec => []LineageInv
<1>1. Init => TailInv /\ LagInv
  BY DEF Init, StoreInit, TailInv, LagInv, NoTail, HeadCurrent
<1>2. /\ OrchInv /\ RunsInv /\ ContestsInv /\ DaemonInv
      /\ TailInv /\ LagInv /\ [Next]_vars
      => TailInv' /\ LagInv'
  BY LineageStepInv
<1>3. Spec => []DaemonInv
  BY DaemonInvariance
<1>4. RunsInv /\ ContestsInv /\ DaemonInv /\ TailInv /\ LagInv => LineageInv
  BY DEF LineageInv
<1> QED
  BY <1>1, <1>2, <1>3, <1>4, OrchInvariance, RunsInvariance, ContestsInvariance, PTL DEF Spec

(* daemon.py Daemon.step and orchestrate.py _republished: where only the daemon  *)
(* runs duels and no write raises, the head the next king is read from is the    *)
(* index's own whenever nothing is in progress: the line a kill left without its *)
(* head, or without its newline, is healed before anyone is served.              *)
THEOREM HeadIsHealed ==
    ASSUME DaemonAlone
    PROVE  Spec => []HeadCurrentAtRest
<1>1. LineageInv => HeadCurrentAtRest
  BY DEF LineageInv, LagInv, ToPublish, HeadCurrentAtRest
<1>2. Spec => []LineageInv
  BY LineageInvariance
<1> QED
  BY <1>1, <1>2, PTL

-----------------------------------------------------------------------------
(* A line as the lineage's readers see it, and the lines so. *)
Entry(record) == [event |-> record.event, moved |-> record.dethroned]
Told(lines) == [i \in DOMAIN lines |-> Entry(lines[i])]

LEMMA ToldLines ==
    ASSUME NEW lines \in Seq(Records)
    PROVE  /\ Told(lines) \in Seq([event : EventIds, moved : BOOLEAN])
           /\ Len(Told(lines)) = Len(lines)
           /\ DOMAIN Told(lines) = DOMAIN lines
           /\ \A i \in DOMAIN lines : Told(lines)[i] = Entry(lines[i])
<1> DEFINE S == [event : EventIds, moved : BOOLEAN]
<1>1. \A i \in 1 .. Len(lines) : Entry(lines[i]) \in S
  <2> SUFFICES ASSUME NEW i \in 1 .. Len(lines)
               PROVE  Entry(lines[i]) \in S
    OBVIOUS
  <2>1. lines[i] \in Records
    OBVIOUS
  <2> QED
    BY <2>1 DEF Entry, Records
<1>2. Len(lines) \in Nat /\ DOMAIN lines = 1 .. Len(lines)
  OBVIOUS
<1> HIDE DEF S
<1>3. Told(lines) = [i \in 1 .. Len(lines) |-> Entry(lines[i])]
  BY <1>2 DEF Told
<1>4. Told(lines) \in Seq(S)
  BY <1>1, <1>2, <1>3
<1>5. Len(Told(lines)) = Len(lines)
  BY <1>1, <1>2, <1>3
<1> QED
  BY <1>2, <1>3, <1>4, <1>5 DEF S

LEMMA ToldAppend ==
    ASSUME NEW lines \in Seq(Records), NEW record \in Records
    PROVE  Told(Append(lines, record)) = Append(Told(lines), Entry(record))
<1> DEFINE S == [event : EventIds, moved : BOOLEAN]
           a == Told(Append(lines, record))
           b == Append(Told(lines), Entry(record))
<1>1. Append(lines, record) \in Seq(Records)
  OBVIOUS
<1>2. Entry(record) \in S
  BY DEF Entry, Records
<1>3. Told(lines) \in Seq(S) /\ Len(Told(lines)) = Len(lines)
  BY ToldLines
<1>4. a \in Seq(S) /\ Len(a) = Len(lines) + 1
  <2>1. Len(Append(lines, record)) = Len(lines) + 1
    OBVIOUS
  <2> QED
    BY <1>1, <2>1, ToldLines
<1>5. b \in Seq(S) /\ Len(b) = Len(lines) + 1
  BY <1>2, <1>3
<1>6. ASSUME NEW i \in 1 .. Len(lines) + 1
      PROVE  a[i] = b[i]
  <2>1. a[i] = Entry(Append(lines, record)[i])
    <3>1. i \in DOMAIN Append(lines, record)
      OBVIOUS
    <3> QED
      BY <1>1, <3>1, ToldLines
  <2>2. CASE i = Len(lines) + 1
    BY <1>2, <1>3, <2>1, <2>2
  <2>3. CASE i # Len(lines) + 1
    <3>1. i \in DOMAIN lines /\ Append(lines, record)[i] = lines[i]
      BY <2>3
    <3>2. b[i] = Told(lines)[i]
      BY <1>2, <1>3, <3>1
    <3> QED
      BY <2>1, <3>1, <3>2, ToldLines
  <2> QED
    BY <2>2, <2>3
<1> HIDE DEF a, b, S
<1>7. a = b
  BY <1>4, <1>5, <1>6
<1> QED
  BY <1>7 DEF a, b

(* The lineage grows where a record's line reaches the index, whole or but for  *)
(* its newline, and nowhere else.                                               *)
LEMMA LineageGrows ==
    ASSUME DaemonAlone, OrchInv, LineageInv, Next
    PROVE  \/ RepairedIndex' = RepairedIndex
           \/ /\ pc = "line" /\ appending.at = "repaired"
              /\ RepairedIndex = index
              /\ RepairedIndex' = Append(index, appending.record)
<1>0. tail = NoTail => RepairedIndex = index
  BY DEF RepairedIndex, NoTail
<1>1. CASE UNCHANGED <<index, tail>>
  BY <1>1 DEF RepairedIndex
<1>2. CASE AppendRecord \/ RebuildTail
  <2>1. index' = RepairedIndex /\ tail' = NoTail
    BY <1>2 DEF AppendRecord, BeginAppend, RebuildTail, BeginRebuild
  <2> QED
    BY <2>1 DEF RepairedIndex, NoTail
<1>3. CASE AppendLine
  <2>1. /\ pc = "line" /\ appending.at = "repaired" /\ tail' = NoTail
        /\ index' = IF tail = NoTail THEN Append(index, appending.record) ELSE index
    BY <1>3 DEF AppendLine, WriteLine
  <2>2. tail = NoTail
    BY <2>1 DEF OrchInv, StoreInv, AppendInv, Unlocked
  <2>3. RepairedIndex' = Append(index, appending.record)
    BY <2>1, <2>2 DEF RepairedIndex, NoTail
  <2> QED
    BY <1>0, <2>1, <2>2, <2>3
<1>4. CASE Kill /\ pc = "line"
  <2>1. appending.at = "repaired" /\ tail = NoTail
    BY <1>4, KilledAppend
  <2>2. CASE index' = Append(index, appending.record) /\ tail' = tail
    BY <1>0, <1>4, <2>1, <2>2 DEF RepairedIndex, NoTail
  <2>3. ASSUME NEW cut \in Cuts, tail' = [cut |-> cut, record |-> appending.record],
               index' = index
        PROVE  \/ RepairedIndex' = index
               \/ RepairedIndex' = Append(index, appending.record)
    BY <2>3 DEF RepairedIndex
  <2> QED
    BY <1>0, <1>1, <1>4, <2>1, <2>2, <2>3, KilledAppend
<1>5. CASE Kill /\ pc # "line"
  BY <1>1, <1>5, KilledAppend
<1>6. CASE PublishEvent \/ AppendHead \/ RebuildHead
  BY <1>1, <1>6 DEF PublishEvent, WriteEvent, AppendHead, WriteHead, RebuildHead, RewriteHead
<1>7. CASE UNCHANGED storeVars
  BY <1>1, <1>7 DEF storeVars
<1> QED
  BY <1>2, <1>3, <1>4, <1>5, <1>6, <1>7, WhatIsAppended DEF DaemonAlone

(* The record whose line is written is the next of the lineage: against the king *)
(* the lines before it crowned, and of a duel none of them is of.                *)
LEMMA NextOfLineage ==
    ASSUME DaemonAlone, OrchInv, LineageInv, pc = "line", appending.at = "repaired",
           NEW record, record = appending.record
    PROVE  /\ record \in Records
           /\ record.event \in [block : 1 .. MaxBlock, challenger : Submissions,
                                king : Submissions \cup {None}]
           /\ record.event.king = Holder(index)
           /\ record.event.challenger # record.event.king
           /\ \A i \in DOMAIN index : index[i].event # record.event
           /\ record.event.king = None => ~record.dethroned
<1>1. record \in Records /\ HeadCurrent
  BY LineOfDuel DEF LineageInv
<1>2. record.event \in EventIds /\ Contest(record.event)
  BY <1>1 DEF Records, LineageInv, ContestsInv
<1>3. record.event.king = head.king
  BY DEF OrchInv, ProcInv, PublishInv
<1>4. head.king = Holder(index)
  BY <1>1 DEF HeadCurrent, Holder, HeadOf, EmptyHead
<1>5. \A i \in DOMAIN index : index[i].event # record.event
  BY DEF OrchInv, EventInv, PendingInv
<1>6. record.event.king = None => ~record.dethroned
  <2>1. FileOf(record) \in events
    BY DEF OrchInv, EventInv, PendingInv
  <2>2. FileOf(record).event.king = None => ~FileOf(record).dethroned
    BY <2>1 DEF LineageInv, ContestsInv
  <2> QED
    BY <2>2 DEF FileOf
<1> QED
  BY <1>1, <1>2, <1>3, <1>4, <1>5, <1>6 DEF EventIds, Contest

(* The king the lineage names is the index's holder. *)
LEMMA KingOfLineage ==
    ASSUME OrchInv, RepairedIndex = index
    PROVE  Lineage!King = Holder(index)
<1>0. index \in Seq(Records)
  BY DEF OrchInv, StoreInv, StoreTypeOK
<1>1. /\ Told(index) \in Seq([event : EventIds, moved : BOOLEAN])
      /\ Len(Told(index)) = Len(index)
      /\ \A i \in DOMAIN index : Told(index)[i] = Entry(index[i])
  BY <1>0, ToldLines
<1>2. Lineage!King = IF Told(index) = <<>> THEN None
                     ELSE Lineage!Crowned(Told(index)[Len(Told(index))])
  BY DEF Lineage!King, Told, Entry
<1>3. CASE index = <<>>
  <2>1. Told(index) = <<>>
    BY <1>1, <1>3
  <2> QED
    BY <1>2, <1>3, <2>1 DEF Holder
<1>4. CASE index # <<>>
  <2>1. Told(index) # <<>> /\ Len(index) \in DOMAIN index
    BY <1>0, <1>1, <1>4
  <2>2. Lineage!King = Lineage!Crowned(Entry(index[Len(index)]))
    BY <1>1, <1>2, <2>1
  <2>3. Lineage!Crowned(Entry(index[Len(index)])) = KingAfter(index[Len(index)])
    BY DEF Lineage!Crowned, Entry, KingAfter, Kind
  <2> QED
    BY <1>4, <2>2, <2>3 DEF Holder
<1> QED
  BY <1>3, <1>4

(* A line more is a duel published, any other step a stutter. *)
LEMMA LineageStep ==
    ASSUME DaemonAlone, OrchInv, LineageInv, Next, RepairedIndex' # RepairedIndex
    PROVE  Lineage!Next
<1>1. PICK record : record = appending.record
  OBVIOUS
<1>2. /\ pc = "line" /\ appending.at = "repaired" /\ RepairedIndex = index
      /\ RepairedIndex' = Append(index, record)
  BY <1>1, LineageGrows
<1>3. /\ record \in Records
      /\ record.event \in [block : 1 .. MaxBlock, challenger : Submissions,
                           king : Submissions \cup {None}]
      /\ record.event.king = Holder(index)
      /\ record.event.challenger # record.event.king
      /\ \A i \in DOMAIN index : index[i].event # record.event
      /\ record.event.king = None => ~record.dethroned
  BY <1>1, <1>2, NextOfLineage
<1>4. index \in Seq(Records) /\ record.dethroned \in BOOLEAN
  BY <1>3 DEF OrchInv, StoreInv, StoreTypeOK, Records
<1>5. Lineage!King = Holder(index)
  BY <1>2, KingOfLineage
<1>6. \A i \in DOMAIN Told(index) : Told(index)[i].event # record.event
  <2>1. \A i \in DOMAIN index : Told(index)[i] = Entry(index[i])
    BY <1>4, ToldLines
  <2>2. DOMAIN Told(index) = DOMAIN index
    BY <1>4, ToldLines
  <2> QED
    BY <1>3, <2>1, <2>2 DEF Entry
<1>7. Told(RepairedIndex') = Append(Told(RepairedIndex), Entry(record))
  BY <1>2, <1>3, <1>4, ToldAppend
<1>8. Lineage!Publish(record.event, record.dethroned)
  BY <1>2, <1>3, <1>5, <1>6, <1>7 DEF Lineage!Publish, Told, Entry
<1> QED
  BY <1>3, <1>4, <1>8 DEF Lineage!Next

(* daemon.py and orchestrate.py, Resuming: where only the daemon runs duels and  *)
(* no write raises, the index, read with a last line that only lost its newline, *)
(* is a lineage that only grows: each duel published once, between two different *)
(* submissions and against the king the duels before it crowned, wherever the    *)
(* daemon is killed.                                                             *)
THEOREM PublishesALineage ==
    ASSUME DaemonAlone
    PROVE  Spec => ImplementsLineage
<1>1. Init => Lineage!Init
  <2>1. Init => RepairedIndex = <<>>
    BY DEF Init, StoreInit, RepairedIndex, NoTail
  <2> QED
    BY <2>1 DEF Lineage!Init
<1>2. OrchInv /\ LineageInv /\ [Next]_vars
        => [Lineage!Next]_[i \in DOMAIN RepairedIndex |->
               [event |-> RepairedIndex[i].event, moved |-> RepairedIndex[i].dethroned]]
  <2> SUFFICES ASSUME OrchInv, LineageInv, [Next]_vars, RepairedIndex' # RepairedIndex
               PROVE  Lineage!Next
    OBVIOUS
  <2>1. Next
    BY DEF vars, storeVars, RepairedIndex
  <2> QED
    BY <2>1, LineageStep
<1>3. Spec => []LineageInv
  BY LineageInvariance
<1> QED
  BY <1>1, <1>2, <1>3, OrchInvariance, PTL DEF Spec, ImplementsLineage, Lineage!Spec

-----------------------------------------------------------------------------
(* The lines before the n-th do not change when one is added. *)
LEMMA LinesBefore ==
    ASSUME NEW lines \in Seq(Records), NEW record \in Records, NEW n \in 0 .. Len(lines)
    PROVE  /\ SubSeq(Append(lines, record), 1, n) = SubSeq(lines, 1, n)
           /\ n = Len(lines) => SubSeq(lines, 1, n) = lines
<1> DEFINE more == Append(lines, record)
           a == SubSeq(more, 1, n)
           b == SubSeq(lines, 1, n)
<1>1. more \in Seq(Records) /\ Len(more) = Len(lines) + 1 /\ Len(lines) \in Nat
  OBVIOUS
<1>2. \A i \in 1 .. Len(lines) : more[i] = lines[i]
  OBVIOUS
<1> HIDE DEF more
<1>3. a \in Seq(Records) /\ Len(a) = n /\ \A i \in 1 .. n : a[i] = more[i]
  BY <1>1
<1>4. b \in Seq(Records) /\ Len(b) = n /\ \A i \in 1 .. n : b[i] = lines[i]
  BY <1>1
<1> HIDE DEF a, b
<1>5. a = b
  BY <1>1, <1>2, <1>3, <1>4
<1>6. n = Len(lines) => b = lines
  BY <1>4
<1> QED
  BY <1>5, <1>6 DEF a, b, more

(* For the daemon alone the head is current wherever a line is added. *)
LEMMA CurrentWhenAdded ==
    ASSUME DaemonAlone, OrchInv, LineageInv, Next, index' # index
    PROVE  HeadCurrent
<1>1. RepairedIndex # index => HeadCurrent
  BY DEF RepairedIndex, LineageInv, TailInv
<1>2. CASE AppendRecord \/ RebuildTail
  BY <1>1, <1>2 DEF AppendRecord, BeginAppend, RebuildTail, BeginRebuild
<1>3. pc = "line" => HeadCurrent
  BY LineOfDuel DEF LineageInv
<1>4. CASE AppendLine
  BY <1>3, <1>4 DEF AppendLine
<1>5. CASE Kill
  BY <1>3, <1>5, KilledAppend
<1>6. ~(PublishEvent \/ AppendHead \/ RebuildHead \/ UNCHANGED storeVars)
  BY DEF PublishEvent, WriteEvent, AppendHead, WriteHead, RebuildHead, RewriteHead, storeVars
<1> QED
  BY <1>2, <1>4, <1>5, <1>6, WhatIsAppended DEF DaemonAlone

(* README.md: "A duel is never published against a king who no longer holds the  *)
(* crown".  A duel by hand, killed after its line, can break it (the run          *)
(* former_king shows how); where only the daemon runs duels and no write raises, *)
(* no order of kills does.                                                       *)
THEOREM AgainstTheHolder ==
    ASSUME DaemonAlone
    PROVE  Spec => []NeverAgainstFormerKing
<1>1. Init => NeverAgainstFormerKing
  BY DEF Init, StoreInit, NeverAgainstFormerKing
<1>2. ASSUME OrchInv, LineageInv, NeverAgainstFormerKing, [Next]_vars
      PROVE  NeverAgainstFormerKing'
  <2>1. CASE index' = index
    BY <1>2, <2>1 DEF NeverAgainstFormerKing, Holder, KingAfter
  <2>2. CASE index' # index
    <3>1. Next /\ StoreNext(EventIds)
      BY <1>2, <2>2, StoreSteps DEF vars, storeVars
    <3>2. HeadCurrent
      BY <1>2, <2>2, <3>1, CurrentWhenAdded
    <3>3. PICK r \in Records : /\ index' = Append(index, r)
                               /\ \/ tail # NoTail /\ r = tail.record
                                  \/ appending.at = "repaired" /\ r = appending.record
      BY <1>2, <2>2, <3>1, NewLine
    <3>4. r.event.king = head.king
      BY <1>2, <3>3 DEF OrchInv, ProcInv, PublishInv
    <3>5. r.event.king = Holder(index)
      BY <3>2, <3>4 DEF HeadCurrent, Holder, HeadOf, EmptyHead
    <3>6. index \in Seq(Records) /\ Len(index) \in Nat
      BY <1>2 DEF OrchInv, StoreInv, StoreTypeOK
    <3>7. ASSUME NEW i \in DOMAIN index'
          PROVE  index'[i].event.king = Holder(SubSeq(index', 1, i - 1))
      <4>1. i - 1 \in 0 .. Len(index)
        BY <3>3, <3>6
      <4>2. SubSeq(index', 1, i - 1) = SubSeq(index, 1, i - 1)
        BY <3>3, <3>6, <4>1, LinesBefore
      <4>3. CASE i = Len(index) + 1
        <5>1. SubSeq(index, 1, i - 1) = index
          BY <3>3, <3>6, <4>1, <4>3, LinesBefore
        <5>2. index'[i] = r
          BY <3>3, <3>6, <4>3
        <5> QED
          BY <3>5, <4>2, <5>1, <5>2
      <4>4. CASE i # Len(index) + 1
        <5>1. i \in DOMAIN index /\ index'[i] = index[i]
          BY <3>3, <3>6, <4>4
        <5> QED
          BY <1>2, <4>2, <5>1 DEF NeverAgainstFormerKing
      <4> QED
        BY <4>3, <4>4
    <3> QED
      BY <3>7 DEF NeverAgainstFormerKing, Holder, KingAfter
  <2> QED
    BY <2>1, <2>2
<1>3. Spec => []LineageInv
  BY LineageInvariance
<1>4. OrchInv /\ LineageInv /\ NeverAgainstFormerKing /\ [Next]_vars => NeverAgainstFormerKing'
  BY <1>2
<1> QED
  BY <1>1, <1>3, <1>4, OrchInvariance, PTL DEF Spec

-----------------------------------------------------------------------------
InIndex(event) == \E i \in DOMAIN index : index[i].event = event

(* A duel is said to be published only where its line is in the index: the owner *)
(* has appended it, or found it and repaired what it found it in.                *)
RecordedInv ==
    /\ tail # NoTail => tail.cut \in Cuts
    /\ PublishedIsRecorded
    /\ pc = "line" => appending.record.event = req.event
    /\ pc \in {"head", "outcome", "rehead", "redecide"} => InIndex(req.event)
    /\ pc = "rebuild" => Published(req.event)

(* An event that is in the index stays there. *)
LEMMA StaysInIndex ==
    ASSUME OrchInv, [Next]_vars, NEW event, InIndex(event)
    PROVE  \E i \in DOMAIN index' : index'[i].event = event
<1>1. CASE index' = index
  BY <1>1 DEF InIndex
<1>2. CASE index' # index
  <2>1. StoreNext(EventIds)
    BY <1>2, StoreSteps DEF storeVars
  <2>2. PICK r \in Records : index' = Append(index, r)
    BY <1>2, <2>1, NewLine
  <2>3. index \in Seq(Records)
    BY DEF OrchInv, StoreInv, StoreTypeOK
  <2>4. \A i \in DOMAIN index : i \in DOMAIN index' /\ index'[i] = index[i]
    BY <2>2, <2>3
  <2> QED
    BY <2>4 DEF InIndex
<1> QED
  BY <1>1, <1>2

(* Where no line is torn inside its signature, what is read is what is repaired. *)
LEMMA ReadIsRepaired ==
    ASSUME "signature" \notin Cuts, RecordedInv
    PROVE  ReadableIndex = RepairedIndex
BY DEF RecordedInv, ReadableIndex, RepairedIndex, NoTail

(* Outcomes are written over what was decided at the duel's own places only. *)
LEMMA SaidPublished ==
    ASSUME OrchInv, Next
    PROVE  \A r \in runs' : r.outcome = "published" =>
              \/ r \in runs
              \/ pc \in {"outcome", "redecide"} /\ r.event = req.event
<1>0. runs \in SUBSET Run
  BY DEF OrchInv, ProcInv, ProcTypeOK
<1>1. CASE AskRecorded \/ RunDuel
  <2>1. RecordRequest(req)
    BY <1>1 DEF AskRecorded, RunDuel
  <2> QED
    BY <2>1 DEF RecordRequest
<1>2. CASE AnotherMovedAside \/ CrownMoved
  BY <1>2 DEF AnotherMovedAside, CrownMoved, MoveRunAside
<1>3. ASSUME NEW what \in {"refused", "void"}, WriteOutcome(req.event, what)
      PROVE  \A r \in runs' : r.outcome = "published" => r \in runs
  BY <1>0, <1>3 DEF WriteOutcome, Run
<1>4. CASE DecideUnpublished
  BY <1>3, <1>4 DEF DecideUnpublished
<1>5. CASE DecidePublished
  <2>1. pc \in {"outcome", "redecide"} /\ WriteOutcome(req.event, "published")
    BY <1>5 DEF DecidePublished
  <2>2. \A r \in runs' : r \in runs \/ \E s \in runs : r.event = s.event /\ s.event = req.event
    BY <1>0, <2>1 DEF WriteOutcome, Run
  <2> QED
    BY <2>1, <2>2
<1>6. CASE runs' = runs
  BY <1>6
<1>7. \/ AskRecorded \/ RunDuel \/ AnotherMovedAside \/ CrownMoved
      \/ DecideUnpublished \/ DecidePublished \/ runs' = runs
  BY DEF Next, DaemonLoop, DuelSteps, PlayEnds, QueueUsers, DaemonStart, SeeKing, DropKing,
         AskChallenger, TakeChallenger, ChallengerGone, AskBaseline, NumberBaseline, StartBaseline,
         Resume, FinishLost, Settle, PutBackChallenger, DuelByHand, AlreadyDecided,
         AlreadyPublished, StartPlaying, PublishEvent, AppendRecord, AppendLine, AppendHead,
         RebuildTail, RebuildHead, Played, PlayFails, Unavailable, PublishFails, StepCrashes,
         HandDone, Kill
<1> QED
  BY <1>1, <1>2, <1>4, <1>5, <1>6, <1>7

LEMMA CutsKept ==
    ASSUME OrchInv, RecordedInv, Next
    PROVE  tail' # NoTail => tail'.cut \in Cuts
<1>0. tail # NoTail => tail.cut \in Cuts
  BY DEF RecordedInv
<1>1. CASE tail' = tail \/ tail' = NoTail
  BY <1>0, <1>1
<1>2. CASE Abandon(owner)
  BY <1>0, <1>2 DEF Abandon, AbandonAppend, storeVars
<1> QED
  BY <1>1, <1>2, WhatIsAppended
  DEF PublishEvent, WriteEvent, AppendRecord, BeginAppend, AppendLine, WriteLine, AppendHead,
      WriteHead, RebuildTail, BeginRebuild, RebuildHead, RewriteHead, storeVars

LEMMA RecordedStepInv ==
    ASSUME "signature" \notin Cuts, OrchInv, RecordedInv, Next
    PROVE  RecordedInv'
<1> DEFINE There(event) == \E i \in DOMAIN index' : index'[i].event = event
           Places == /\ pc' = "line" => appending'.record.event = req'.event
                     /\ pc' \in {"head", "outcome", "rehead", "redecide"} => There(req'.event)
                     /\ pc' = "rebuild" => Published(req.event)'
<1>0. /\ pc = "line" => appending.record.event = req.event
      /\ pc \in {"head", "outcome", "rehead", "redecide"} => InIndex(req.event)
      /\ pc = "rebuild" => Published(req.event)
      /\ PublishedIsRecorded
  BY DEF RecordedInv
<1>1. \A r \in runs' : r.outcome = "published" => There(r.event)
  <2> SUFFICES ASSUME NEW r \in runs', r.outcome = "published"
               PROVE  There(r.event)
    OBVIOUS
  <2>1. InIndex(r.event)
    BY <1>0, SaidPublished DEF PublishedIsRecorded, InIndex
  <2> QED
    BY <2>1, StaysInIndex
<1>2. ASSUME QueueUsers
      PROVE  Places
  <2>1. /\ pc' = pc /\ req' = req /\ index' = index /\ appending' = appending
        /\ tail' = tail
    BY <1>2 DEF QueueUsers, procVars, storeVars
  <2> QED
    BY <1>0, <2>1 DEF InIndex, Published, ReadableIndex
<1>3. ASSUME AppendRecord
      PROVE  Places
  <2>1. pc' = "line" /\ req' = req /\ appending'.record.event = req.event
    BY <1>3 DEF AppendRecord, BeginAppend, Goto
  <2> QED
    BY <2>1
<1>4. ASSUME AppendLine
      PROVE  Places
  <2>1. /\ pc = "line" /\ pc' = "head" /\ req' = req
        /\ appending.at = "repaired"
        /\ index' = IF tail = NoTail THEN Append(index, appending.record) ELSE index
    BY <1>4 DEF AppendLine, WriteLine, Goto
  <2>2. tail = NoTail /\ appending.record \in Records /\ index \in Seq(Records)
    BY <2>1 DEF OrchInv, StoreInv, StoreTypeOK, AppendInv, Unlocked
  <2>3. Len(index) + 1 \in DOMAIN index' /\ index'[Len(index) + 1].event = req.event
    BY <1>0, <2>1, <2>2
  <2> QED
    BY <2>1, <2>3
<1>5. ASSUME AppendHead \/ RebuildHead
      PROVE  Places
  <2>1. pc \in {"head", "rehead"} /\ pc' \in {"outcome", "redecide"} /\ req' = req
    BY <1>5 DEF AppendHead, RebuildHead, Goto
  <2>2. There(req.event)
    BY <1>0, <2>1, StaysInIndex
  <2> QED
    BY <2>1, <2>2
<1>6. ASSUME AlreadyPublished
      PROVE  Places
  <2>1. /\ pc' = "rebuild" /\ req' = req /\ index' = index /\ tail' = tail
        /\ Published(req.event)
    BY <1>6 DEF AlreadyPublished, Goto, storeVars
  <2> QED
    BY <2>1 DEF Published, ReadableIndex
<1>7. ASSUME RebuildTail
      PROVE  Places
  <2>1. pc = "rebuild" /\ pc' = "rehead" /\ req' = req /\ index' = RepairedIndex
    BY <1>7 DEF RebuildTail, BeginRebuild, Goto
  <2>2. There(req.event)
    BY <1>0, <2>1, ReadIsRepaired DEF Published
  <2> QED
    BY <2>1, <2>2
<1>8. ASSUME ~(\/ QueueUsers \/ AppendRecord \/ AppendLine \/ AppendHead \/ RebuildHead
               \/ AlreadyPublished \/ RebuildTail)
      PROVE  Places
  <2>1. pc' \notin {"line", "head", "outcome", "rebuild", "rehead", "redecide"}
    BY <1>8
    DEF Next, DaemonLoop, DuelSteps, PlayEnds, DaemonStart, SeeKing, DropKing, AskChallenger,
        AskRecorded, TakeChallenger, ChallengerGone, AskBaseline, NumberBaseline, StartBaseline,
        Resume, FinishLost, Settle, PutBackChallenger, AnotherMovedAside, RunDuel, AlreadyDecided,
        CrownMoved, StartPlaying, PublishEvent, DecidePublished, DecideUnpublished, Played,
        PlayFails, Unavailable, PublishFails, StepCrashes, HandDone, Kill, DuelByHand, Goto,
        BackToLoop, procVars, AtStep
  <2> QED
    BY <2>1
<1>9. Places
  BY <1>2, <1>3, <1>4, <1>5, <1>6, <1>7, <1>8
<1> QED
  BY <1>1, <1>9, CutsKept DEF RecordedInv, PublishedIsRecorded, InIndex

(* orchestrate.py: "outcome.json  what was decided: published (with the record)".*)
(* The run torn_signature shows a line cut inside its signature breaking it;     *)
(* where lines are cut elsewhere, no kill, failed write or duel by hand does.    *)
THEOREM SaidPublishedIs ==
    ASSUME "signature" \notin Cuts
    PROVE  Spec => []PublishedIsRecorded
<1>1. Init => RecordedInv
  BY DEF Init, StoreInit, RecordedInv, PublishedIsRecorded
<1>2. OrchInv /\ RecordedInv /\ [Next]_vars => RecordedInv'
  <2> SUFFICES ASSUME OrchInv, RecordedInv, [Next]_vars
               PROVE  RecordedInv'
    OBVIOUS
  <2>1. CASE Next
    BY <2>1, RecordedStepInv
  <2>2. CASE UNCHANGED vars
    BY <2>2 DEF vars, procVars, storeVars, RecordedInv, PublishedIsRecorded, InIndex, Published,
                ReadableIndex
  <2> QED
    BY <2>1, <2>2
<1>3. RecordedInv => PublishedIsRecorded
  BY DEF RecordedInv
<1> QED
  BY <1>1, <1>2, <1>3, OrchInvariance, PTL DEF Spec

=============================================================================
