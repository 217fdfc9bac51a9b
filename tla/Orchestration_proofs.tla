------------------------ MODULE Orchestration_proofs ------------------------
(***************************************************************************)
(* The daemon and the command line, for any submissions, sizes, blocks,    *)
(* torn lines, kills and failed writes: they use the queue and the store   *)
(* only as QueueSpec and StoreSpec say they are used, so what is proved of *)
(* either alone holds of the whole; and each record is written against the *)
(* king its writer saw.                                                    *)
(***************************************************************************)
EXTENDS Orchestration, ChallengerQueue_proofs, ResultStore_proofs

ProcTypeOK ==
    /\ runs \in SUBSET Run
    /\ owner \in Writers \cup {None}
    /\ pc \in Steps
    /\ req \in Requests \cup {None}
    /\ throne \in {"open", "trying", "stalled"}
    /\ faults \in Nat

(* Whoever runs a duel has its request, whoever runs at all holds the store. *)
OwnerInv ==
    /\ owner = None <=> pc = "off"
    /\ pc \notin {"off", "step", "drop"} => req \in Requests
    /\ pc = "drop" => head.king \in Submissions

(* The index lock is held by the store's owner, and only between the writes of  *)
(* an append or a rebuild.                                                      *)
LockInv ==
    /\ pc = "line" => appending.at = "repaired" /\ appending.by = owner
    /\ pc = "head" => appending.at = "written" /\ appending.by = owner
    /\ pc = "rehead" => appending.at = "rebuilding" /\ appending.by = owner
    /\ pc \notin {"line", "head", "rehead"} => appending = Unlocked

(* What _check_crown and _published found still holds when the record is made,  *)
(* and a record on its way to the index names the king the head names.          *)
PublishInv ==
    /\ pc = "append" => ~Published(req.event) /\ CrownHeld
    /\ appending.at = "repaired" => appending.record.event.king = head.king
    /\ tail # NoTail => tail.record.event.king = head.king

ProcInv == ProcTypeOK /\ OwnerInv /\ LockInv /\ PublishInv /\ RunHoldsRequest

OrchInv == QueueInv /\ StoreInv /\ EventInv /\ ProcInv

-----------------------------------------------------------------------------
(* A request put together from a submission, the head's king and a size. *)
LEMMA RequestsAreTyped ==
    ASSUME NEW c \in Submissions, NEW k \in Submissions \cup {None}, NEW z \in Sizes, NEW b \in Nat
    PROVE  Request(c, k, z, b) \in Requests
BY DEF Request, Requests, EventIds

LEMMA HeadTyped ==
    ASSUME OrchInv
    PROVE  /\ head.king \in Submissions \cup {None}
           /\ HeadBlock \in Nat
           /\ NextBlock \in Nat
           /\ Max2(block, HeadBlock) \in Nat
           /\ ClaimedBlock(HeadBlock) \in Nat
<1>1. head.king \in Submissions \cup {None} /\ head.event \in EventIds \cup {None}
  BY DEF OrchInv, StoreInv, StoreTypeOK
<1>2. HeadBlock \in Nat
  BY <1>1 DEF HeadBlock, EventIds
<1>3. block \in Nat
  BY DEF OrchInv, QueueInv, QueueTypeOK
<1> QED
  BY <1>1, <1>2, <1>3 DEF NextBlock, Max2, ClaimedBlock

(* Whoever is served has a key and a size. *)
LEMMA FirstEntryTyped ==
    ASSUME OrchInv, Serving
    PROVE  entries[1].key \in Submissions /\ entries[1].size \in Sizes
<1>1. entries \in Seq(Entries) /\ entries # <<>>
  BY DEF OrchInv, QueueInv, QueueTypeOK, Serving
<1>2. entries[1] \in Entries
  BY <1>1
<1> QED
  BY <1>2 DEF Entries

(* Where a step runs a duel, the duel's event, challenger and block are typed. *)
LEMMA RequestTyped ==
    ASSUME OrchInv, pc \notin {"off", "step", "drop"}
    PROVE  /\ req \in Requests
           /\ req.event \in EventIds
           /\ req.event.challenger \in Submissions
           /\ req.event.block \in Nat
           /\ EntryOfRequest \in Entries \cup {None}
<1>1. req \in Requests
  BY DEF OrchInv, ProcInv, OwnerInv
<1> QED
  BY <1>1 DEF Requests, EventIds, EntryOfRequest, Entries

LEMMA OwnerIsAWriter ==
    ASSUME OrchInv, pc # "off"
    PROVE  owner \in Writers
BY DEF OrchInv, ProcInv, ProcTypeOK, OwnerInv

-----------------------------------------------------------------------------
(* Every step leaves the queue file alone or is one of its operations. *)
LEMMA QueueSteps ==
    ASSUME OrchInv, [Next]_vars
    PROVE  [QueueNext(EventIds, Nat)]_queueVars
<1>1. CASE QueueUsers
  BY <1>1 DEF QueueUsers, QueueNext
<1>2. CASE DropKing
  <2>1. head.king \in Submissions /\ Remove(head.king)
    BY <1>2 DEF DropKing, OrchInv, ProcInv, OwnerInv
  <2> QED
    BY <2>1 DEF QueueNext
<1>3. CASE TakeChallenger
  <2>1. req.event \in EventIds /\ Take(req.event.challenger, req.event)
    BY <1>3, RequestTyped DEF TakeChallenger
  <2> QED
    BY <2>1 DEF QueueNext
<1>4. CASE NumberBaseline
  <2>1. req.event.block \in Nat /\ SetBlock(req.event.block)
    BY <1>4, RequestTyped DEF NumberBaseline
  <2> QED
    BY <2>1 DEF QueueNext
<1>5. CASE StartBaseline
  <2>1. req.event \in EventIds /\ Start(req.event)
    BY <1>5, RequestTyped DEF StartBaseline
  <2> QED
    BY <2>1 DEF QueueNext
<1>6. CASE FinishLost \/ Settle
  BY <1>6 DEF FinishLost, Settle, QueueNext
<1>7. CASE PutBackChallenger
  <2>1. EntryOfRequest \in Entries \cup {None} /\ PutBack(EntryOfRequest)
    BY <1>7, RequestTyped DEF PutBackChallenger
  <2> QED
    BY <2>1 DEF QueueNext
<1>8. ASSUME NEW c \in ByHand, NEW z \in Sizes, DuelByHand(c, z)
      PROVE  [QueueNext(EventIds, Nat)]_queueVars
  <2>1. UNCHANGED queueVars \/ ClaimBlock(HeadBlock)
    BY <1>8 DEF DuelByHand
  <2> QED
    BY <2>1, HeadTyped DEF QueueNext
<1>9. CASE \/ DaemonStart \/ SeeKing \/ AskChallenger \/ AskRecorded \/ ChallengerGone
           \/ AskBaseline \/ Resume
  BY <1>9 DEF DaemonStart, SeeKing, AskChallenger, AskRecorded, ChallengerGone, TakeGone,
              AskBaseline, Resume
<1>10. CASE DuelSteps \/ PlayEnds
  BY <1>10 DEF DuelSteps, PlayEnds, AnotherMovedAside, RunDuel, AlreadyDecided, AlreadyPublished,
               CrownMoved, StartPlaying, PublishEvent, AppendRecord, AppendLine, AppendHead,
               RebuildTail, RebuildHead, DecidePublished, DecideUnpublished, Played, PlayFails
<1>11. CASE Unavailable \/ PublishFails \/ StepCrashes \/ HandDone \/ Kill
  BY <1>11 DEF Unavailable, PublishFails, StepCrashes, HandDone, Kill
<1>12. CASE UNCHANGED vars
  BY <1>12 DEF vars
<1> QED
  BY <1>1, <1>2, <1>3, <1>4, <1>5, <1>6, <1>7, <1>8, <1>9, <1>10, <1>11, <1>12
  DEF Next, DaemonLoop

(* What is left of an append or a rebuild by a process that stops. *)
LEMMA AbandonIsAStep ==
    ASSUME OrchInv, pc # "off", Abandon(owner)
    PROVE  /\ [StoreNext(EventIds)]_storeVars
           /\ appending' = Unlocked
           /\ head' = head
           /\ tail' # NoTail => tail'.record.event.king = head.king
<1>1. owner \in Writers
  BY OwnerIsAWriter
<1>2. CASE appending.by = owner
  <2>1. AbandonAppend(owner)
    BY <1>2 DEF Abandon
  <2>2. tail' # NoTail => tail'.record.event.king = head.king
    BY <2>1 DEF AbandonAppend, OrchInv, ProcInv, PublishInv
  <2> QED
    BY <1>1, <2>1, <2>2 DEF StoreNext, AbandonAppend
<1>3. CASE appending.by # owner
  <2>1. UNCHANGED storeVars
    BY <1>3 DEF Abandon
  <2>2. appending = Unlocked
    BY <1>3 DEF OrchInv, ProcInv, LockInv
  <2> QED
    BY <2>1, <2>2 DEF storeVars, OrchInv, ProcInv, PublishInv
<1> QED
  BY <1>2, <1>3

(* Every step leaves the store alone or is one of its own, and no event that is *)
(* published already is written or appended.                                    *)
LEMMA StoreSteps ==
    ASSUME OrchInv, [Next]_vars
    PROVE  [StoreNext(EventIds)]_storeVars
<1> USE DEF OrchInv, ProcInv
<1>1. CASE PublishEvent
  <2>1. PICK d \in BOOLEAN : WriteEvent(req.event, d)
    BY <1>1 DEF PublishEvent
  <2>2. req.event \in EventIds /\ Unpublished(req.event)
    BY <1>1, RequestTyped DEF PublishEvent, Unpublished, LockInv, Unlocked
  <2> QED
    BY <2>1, <2>2 DEF StoreNext
<1>2. CASE AppendRecord
  <2>1. owner \in Writers /\ BeginAppend(owner, req.event)
    BY <1>2, OwnerIsAWriter DEF AppendRecord
  <2>2. req.event \in EventIds /\ Unpublished(req.event)
    BY <1>2, RequestTyped DEF AppendRecord, Unpublished, LockInv, PublishInv, Unlocked
  <2> QED
    BY <2>1, <2>2 DEF StoreNext
<1>3. CASE AppendLine \/ AppendHead \/ RebuildTail \/ RebuildHead
  BY <1>3, OwnerIsAWriter DEF AppendLine, AppendHead, RebuildTail, RebuildHead, StoreNext
<1>4. CASE PublishFails \/ StepCrashes \/ Kill
  <2>1. pc # "off" /\ Abandon(owner)
    BY <1>4 DEF PublishFails, StepCrashes, Kill, OwnerInv
  <2> QED
    BY <2>1, AbandonIsAStep
<1>5. CASE QueueUsers \/ DaemonStart \/ DaemonLoop
  BY <1>5 DEF QueueUsers, DaemonStart, DaemonLoop, SeeKing, DropKing, AskChallenger, AskRecorded,
              TakeChallenger, ChallengerGone, AskBaseline, NumberBaseline, StartBaseline, Resume,
              FinishLost, Settle, PutBackChallenger
<1>6. CASE \E c \in ByHand, z \in Sizes : DuelByHand(c, z)
  BY <1>6 DEF DuelByHand
<1>7. CASE \/ AnotherMovedAside \/ RunDuel \/ AlreadyDecided \/ AlreadyPublished \/ CrownMoved
           \/ StartPlaying \/ DecidePublished \/ PlayEnds
  BY <1>7 DEF AnotherMovedAside, RunDuel, AlreadyDecided, AlreadyPublished, CrownMoved,
              StartPlaying, DecidePublished, PlayEnds, DecideUnpublished, Played, PlayFails
<1>8. CASE Unavailable \/ HandDone
  BY <1>8 DEF Unavailable, HandDone
<1>9. CASE UNCHANGED vars
  BY <1>9 DEF vars
<1> QED
  BY <1>1, <1>2, <1>3, <1>4, <1>5, <1>6, <1>7, <1>8, <1>9 DEF Next, DuelSteps

-----------------------------------------------------------------------------
(* A step that leaves the store alone, with the index lock free, and does not   *)
(* come to where an append begins.                                              *)
LEMMA StoreIdle ==
    ASSUME OrchInv, UNCHANGED storeVars, pc \notin {"line", "head", "rehead"},
           pc' \notin {"line", "head", "rehead", "append"}
    PROVE  LockInv' /\ PublishInv'
BY DEF OrchInv, ProcInv, LockInv, PublishInv, storeVars

(* A step back to the loop, or out of it: no duel is run any more. *)
LEMMA BackOutside ==
    ASSUME OrchInv, req' = None, faults' \in Nat, throne' \in {"open", "trying", "stalled"},
           runs' \in SUBSET Run,
           \/ pc' = "step" /\ owner' = owner /\ owner # None
           \/ pc' = "off" /\ owner' = None
    PROVE  ProcTypeOK' /\ OwnerInv' /\ RunHoldsRequest'
BY DEF OrchInv, ProcInv, ProcTypeOK, OwnerInv, RunHoldsRequest, Steps

(* The run directories stay typed, and the request written is held. *)
LEMMA RunsTyped ==
    ASSUME OrchInv, pc \notin {"off", "step", "drop"}
    PROVE  /\ RecordRequest(req) =>
                 /\ runs' \in SUBSET Run
                 /\ \E r \in runs' : r.event = req.event /\ r.size = req.size
           /\ MoveRunAside(req.event) => runs' \in SUBSET Run
           /\ \A what \in Outcomes : WriteOutcome(req.event, what) => runs' \in SUBSET Run
<1>1. runs \in SUBSET Run /\ req \in Requests
  BY RequestTyped DEF OrchInv, ProcInv, ProcTypeOK
<1>2. ASSUME RecordRequest(req)
      PROVE  runs' \in SUBSET Run /\ \E r \in runs' : r.event = req.event /\ r.size = req.size
  <2>1. CASE RunOf(req.event) # {}
    BY <1>1, <1>2, <2>1 DEF RecordRequest, HoldsAnother, HoldsRequest
  <2>2. CASE RunOf(req.event) = {}
    <3> DEFINE new == [event |-> req.event, size |-> req.size, outcome |-> "none"]
    <3>1. new \in Run /\ new.event = req.event /\ new.size = req.size
      BY <1>1 DEF Run, Outcomes, Requests
    <3>2. runs' = runs \cup {new}
      BY <1>2, <2>2 DEF RecordRequest
    <3> HIDE DEF new
    <3> QED
      BY <1>1, <3>1, <3>2
  <2> QED
    BY <2>1, <2>2
<1>3. MoveRunAside(req.event) => runs' \in SUBSET Run
  BY <1>1 DEF MoveRunAside
<1>4. ASSUME NEW what \in Outcomes, WriteOutcome(req.event, what)
      PROVE  runs' \in SUBSET Run
  BY <1>1, <1>4 DEF WriteOutcome, Run
<1> QED
  BY <1>2, <1>3, <1>4

(* One step per action: what each process knows where it is. *)
LEMMA ProcSteps ==
    ASSUME OrchInv, Next
    PROVE  ProcInv'
<1> USE DEF ProcInv
<1>0. ProcTypeOK /\ OwnerInv /\ LockInv /\ PublishInv /\ RunHoldsRequest
  BY DEF OrchInv
<1>1. CASE QueueUsers
  BY <1>0, <1>1 DEF QueueUsers, procVars, storeVars, ProcTypeOK, OwnerInv, LockInv, PublishInv,
                    RunHoldsRequest, HoldsRequest, Published, ReadableIndex, CrownHeld
<1>2. CASE DaemonStart
  <2>1. ProcTypeOK' /\ OwnerInv' /\ RunHoldsRequest'
    BY <1>0, <1>2, OrchestrationAssumption
    DEF DaemonStart, ProcTypeOK, OwnerInv, RunHoldsRequest, Steps
  <2>2. LockInv' /\ PublishInv'
    BY <1>0, <1>2, StoreIdle DEF DaemonStart, OwnerInv
  <2> QED
    BY <2>1, <2>2
<1>3. CASE SeeKing \/ DropKing
  <2>1. SeeKing => head.king \in Submissions
    BY FirstEntryTyped DEF SeeKing
  <2>2. ProcTypeOK' /\ OwnerInv' /\ RunHoldsRequest'
    BY <1>0, <1>3, <2>1
    DEF SeeKing, Serving, AtStep, DropKing, Goto, storeVars, ProcTypeOK, OwnerInv, RunHoldsRequest,
        Steps
  <2>3. LockInv' /\ PublishInv'
    BY <1>0, <1>3, StoreIdle DEF SeeKing, Serving, AtStep, DropKing, Goto
  <2> QED
    BY <2>2, <2>3
<1>4. CASE AskChallenger \/ AskBaseline
  <2>1. req' \in Requests
    <3>1. CASE AskChallenger
      <4>1. entries[1].key \in Submissions /\ entries[1].size \in Sizes
        BY <3>1, FirstEntryTyped DEF AskChallenger
      <4> QED
        BY <3>1, <4>1, HeadTyped, RequestsAreTyped DEF AskChallenger
    <3>2. CASE AskBaseline
      <4>1. Baseline \in Submissions
        BY <3>2, OrchestrationAssumption DEF AskBaseline, Throneless
      <4>2. DefaultSize \in Sizes
        BY OrchestrationAssumption DEF DefaultSize
      <4> QED
        BY <3>2, <4>1, <4>2, HeadTyped, RequestsAreTyped DEF AskBaseline
    <3> QED
      BY <1>4, <3>1, <3>2
  <2>2. ProcTypeOK' /\ OwnerInv' /\ RunHoldsRequest'
    BY <1>0, <1>4, <2>1
    DEF AskChallenger, AskBaseline, Serving, AtStep, ProcTypeOK, OwnerInv, RunHoldsRequest, Steps
  <2>3. LockInv' /\ PublishInv'
    BY <1>0, <1>4, StoreIdle DEF AskChallenger, AskBaseline, Serving, AtStep
  <2> QED
    BY <2>2, <2>3
<1>5. CASE AskRecorded \/ AnotherMovedAside
  <2>1. runs' \in SUBSET Run
    BY <1>5, RunsTyped DEF AskRecorded, AnotherMovedAside
  <2>2. ProcTypeOK' /\ OwnerInv' /\ RunHoldsRequest'
    BY <1>0, <1>5, <2>1
    DEF AskRecorded, AnotherMovedAside, Goto, ProcTypeOK, OwnerInv, RunHoldsRequest, Steps
  <2>3. LockInv' /\ PublishInv'
    BY <1>0, <1>5, StoreIdle DEF AskRecorded, AnotherMovedAside, Goto
  <2> QED
    BY <2>2, <2>3
<1>6. CASE TakeChallenger \/ NumberBaseline \/ StartBaseline
  <2>1. ProcTypeOK' /\ OwnerInv' /\ RunHoldsRequest'
    BY <1>0, <1>6
    DEF TakeChallenger, NumberBaseline, StartBaseline, Goto, ProcTypeOK, OwnerInv, RunHoldsRequest,
        Steps
  <2>2. LockInv' /\ PublishInv'
    BY <1>0, <1>6, StoreIdle DEF TakeChallenger, NumberBaseline, StartBaseline, Goto
  <2> QED
    BY <2>1, <2>2
<1>7. CASE ChallengerGone \/ Settle \/ PutBackChallenger \/ Unavailable
  <2>1. ProcTypeOK' /\ OwnerInv' /\ RunHoldsRequest'
    BY <1>0, <1>7, BackOutside, OrchestrationAssumption
    DEF ChallengerGone, Settle, PutBackChallenger, Unavailable, BackToLoop, NextThrone, ProcTypeOK
  <2>2. LockInv' /\ PublishInv'
    BY <1>0, <1>7, StoreIdle
    DEF ChallengerGone, Settle, PutBackChallenger, Unavailable, BackToLoop
  <2> QED
    BY <2>1, <2>2
<1>8. CASE Resume
  <2>1. req' \in Requests
    BY <1>0, <1>8 DEF Resume, RunOf, ProcTypeOK, Run, Requests
  <2>2. ProcTypeOK' /\ OwnerInv' /\ RunHoldsRequest'
    BY <1>0, <1>8, <2>1 DEF Resume, AtStep, ProcTypeOK, OwnerInv, RunHoldsRequest, Steps
  <2>3. LockInv' /\ PublishInv'
    BY <1>0, <1>8, StoreIdle DEF Resume, AtStep
  <2> QED
    BY <2>2, <2>3
<1>9. CASE FinishLost
  <2>1. ProcTypeOK' /\ OwnerInv' /\ RunHoldsRequest'
    BY <1>0, <1>9 DEF FinishLost, AtStep, procVars, ProcTypeOK, OwnerInv, RunHoldsRequest
  <2>2. LockInv' /\ PublishInv'
    BY <1>0, <1>9, StoreIdle DEF FinishLost, AtStep, procVars
  <2> QED
    BY <2>1, <2>2
<1>10. ASSUME NEW c \in ByHand, NEW z \in Sizes, DuelByHand(c, z)
       PROVE  ProcInv'
  <2>1. req' \in Requests
    <3>1. c \in Submissions
      BY OrchestrationAssumption
    <3>2. req' = HandRequest(c, z, Max2(block, HeadBlock))
             \/ req' = HandRequest(c, z, ClaimedBlock(HeadBlock))
      BY <1>10 DEF DuelByHand, ClaimBlock
    <3> QED
      BY <3>1, <3>2, HeadTyped, RequestsAreTyped DEF HandRequest
  <2>2. ProcTypeOK' /\ OwnerInv' /\ RunHoldsRequest'
    BY <1>0, <1>10, <2>1, OrchestrationAssumption
    DEF DuelByHand, ProcTypeOK, OwnerInv, RunHoldsRequest, Steps
  <2>3. LockInv' /\ PublishInv'
    BY <1>0, <1>10, StoreIdle DEF DuelByHand, OwnerInv
  <2> QED
    BY <2>2, <2>3
<1>11. CASE RunDuel
  <2>1. runs' \in SUBSET Run /\ \E r \in runs' : r.event = req.event /\ r.size = req.size
    BY <1>11, RunsTyped DEF RunDuel
  <2>2. ProcTypeOK' /\ OwnerInv' /\ RunHoldsRequest'
    BY <1>0, <1>11, <2>1
    DEF RunDuel, Goto, ProcTypeOK, OwnerInv, RunHoldsRequest, HoldsRequest, Steps
  <2>3. LockInv' /\ PublishInv'
    BY <1>0, <1>11, StoreIdle DEF RunDuel, Goto
  <2> QED
    BY <2>2, <2>3
<1>12. CASE AlreadyDecided \/ AlreadyPublished \/ StartPlaying \/ Played \/ PlayFails
  <2>1. ProcTypeOK' /\ OwnerInv' /\ RunHoldsRequest'
    BY <1>0, <1>12
    DEF AlreadyDecided, AlreadyPublished, StartPlaying, Played, PlayFails, Looking, Goto,
        ProcTypeOK, OwnerInv, RunHoldsRequest, HoldsRequest, Steps
  <2>2. LockInv' /\ PublishInv'
    BY <1>0, <1>12, StoreIdle
    DEF AlreadyDecided, AlreadyPublished, StartPlaying, Played, PlayFails, Looking, Goto
  <2> QED
    BY <2>1, <2>2
<1>13. CASE CrownMoved \/ DecideUnpublished \/ DecidePublished
  <2>1. pc' \in {"moved", "settle"} /\ UNCHANGED <<owner, req, throne, faults>>
    BY <1>13 DEF CrownMoved, DecideUnpublished, DecidePublished, Goto
  <2>2. pc \notin {"off", "step", "drop", "line", "head", "rehead"}
    BY <1>13 DEF CrownMoved, Looking, DecideUnpublished, DecidePublished
  <2>3. runs' \in SUBSET Run
    BY <1>13, <2>2, RunsTyped DEF CrownMoved, DecideUnpublished, DecidePublished, Outcomes
  <2>4. ProcTypeOK' /\ OwnerInv' /\ RunHoldsRequest'
    BY <1>0, <2>1, <2>2, <2>3 DEF ProcTypeOK, OwnerInv, RunHoldsRequest, Steps
  <2>5. LockInv' /\ PublishInv'
    BY <1>13, <2>1, <2>2, StoreIdle DEF CrownMoved, DecideUnpublished, DecidePublished
  <2> QED
    BY <2>4, <2>5
<1>14. CASE PublishEvent
  <2>1. UNCHANGED <<index, tail, head, appending, runs, owner, req, throne, faults>>
    BY <1>14 DEF PublishEvent, WriteEvent, Goto
  <2>2. pc = "publish" /\ pc' = "append" /\ ~Published(req.event) /\ CrownHeld
    BY <1>14 DEF PublishEvent, Goto
  <2>3. ProcTypeOK' /\ OwnerInv' /\ RunHoldsRequest'
    BY <1>0, <2>1, <2>2 DEF ProcTypeOK, OwnerInv, RunHoldsRequest, HoldsRequest, Steps
  <2>4. LockInv' /\ PublishInv'
    BY <1>0, <2>1, <2>2 DEF LockInv, PublishInv, Published, ReadableIndex, CrownHeld
  <2> QED
    BY <2>3, <2>4
<1>15. CASE AppendRecord
  <2>1. pc = "append" /\ pc' = "line" /\ UNCHANGED <<head, runs, owner, req, throne, faults>>
    BY <1>15 DEF AppendRecord, BeginAppend, Goto
  <2>2. /\ tail' = NoTail /\ appending'.by = owner /\ appending'.at = "repaired"
        /\ appending'.record.event = req.event
    BY <1>15 DEF AppendRecord, BeginAppend
  <2>3. ProcTypeOK' /\ OwnerInv' /\ RunHoldsRequest'
    BY <1>0, <2>1 DEF ProcTypeOK, OwnerInv, RunHoldsRequest, HoldsRequest, Steps
  <2>4. LockInv' /\ PublishInv'
    BY <1>0, <2>1, <2>2 DEF LockInv, PublishInv, CrownHeld
  <2> QED
    BY <2>3, <2>4
<1>16. CASE AppendLine
  <2>1. pc = "line" /\ pc' = "head" /\ UNCHANGED <<head, runs, owner, req, throne, faults>>
    BY <1>16 DEF AppendLine, WriteLine, Goto
  <2>2. tail' = NoTail /\ appending'.by = owner /\ appending'.at = "written"
    <3>1. appending' = [appending EXCEPT !.at = "written"] /\ appending.by = owner /\ tail' = NoTail
      BY <1>16 DEF AppendLine, WriteLine
    <3>2. appending \in [by : Writers, at : {"repaired", "written"}, record : Records]
      BY <1>0, <2>1 DEF OrchInv, StoreInv, StoreTypeOK, LockInv, Unlocked
    <3> QED
      BY <3>1, <3>2
  <2>3. ProcTypeOK' /\ OwnerInv' /\ RunHoldsRequest'
    BY <1>0, <2>1 DEF ProcTypeOK, OwnerInv, RunHoldsRequest, HoldsRequest, Steps
  <2>4. LockInv' /\ PublishInv'
    BY <1>0, <2>1, <2>2 DEF LockInv, PublishInv
  <2> QED
    BY <2>3, <2>4
<1>17. CASE AppendHead \/ RebuildHead
  <2>1. /\ pc \in {"head", "rehead"} /\ pc' \in {"outcome", "redecide"}
        /\ UNCHANGED <<tail, runs, owner, req, throne, faults>> /\ appending' = Unlocked
    BY <1>17 DEF AppendHead, RebuildHead, WriteHead, RewriteHead, Goto
  <2>2. tail = NoTail
    BY <1>0, <2>1 DEF OrchInv, StoreInv, AppendInv, LockInv, Unlocked
  <2>3. ProcTypeOK' /\ OwnerInv' /\ RunHoldsRequest'
    BY <1>0, <2>1 DEF ProcTypeOK, OwnerInv, RunHoldsRequest, HoldsRequest, Steps
  <2>4. LockInv' /\ PublishInv'
    BY <2>1, <2>2 DEF LockInv, PublishInv, Unlocked
  <2> QED
    BY <2>3, <2>4
<1>18. CASE RebuildTail
  <2>1. pc = "rebuild" /\ pc' = "rehead" /\ UNCHANGED <<head, runs, owner, req, throne, faults>>
    BY <1>18 DEF RebuildTail, BeginRebuild, Goto
  <2>2. tail' = NoTail /\ appending'.by = owner /\ appending'.at = "rebuilding"
    BY <1>18 DEF RebuildTail, BeginRebuild
  <2>3. ProcTypeOK' /\ OwnerInv' /\ RunHoldsRequest'
    BY <1>0, <2>1 DEF ProcTypeOK, OwnerInv, RunHoldsRequest, HoldsRequest, Steps
  <2>4. LockInv' /\ PublishInv'
    BY <1>0, <2>1, <2>2 DEF LockInv, PublishInv
  <2> QED
    BY <2>3, <2>4
<1>19. CASE PublishFails \/ StepCrashes \/ Kill
  <2>1. pc # "off" /\ Abandon(owner) /\ runs' = runs /\ faults' = faults + 1
    BY <1>0, <1>19 DEF PublishFails, StepCrashes, Kill, OwnerInv
  <2>2. appending' = Unlocked /\ (tail' # NoTail => tail'.record.event.king = head'.king)
    BY <2>1, AbandonIsAStep
  <2>3. pc' \in {"failed", "step", "off"}
    BY <1>19 DEF PublishFails, StepCrashes, Kill
  <2>4. ProcTypeOK' /\ OwnerInv' /\ RunHoldsRequest'
    <3>1. CASE PublishFails
      BY <1>0, <3>1 DEF PublishFails, ProcTypeOK, OwnerInv, RunHoldsRequest, Steps
    <3>2. CASE StepCrashes \/ Kill
      BY <1>0, <2>1, <3>2, BackOutside DEF StepCrashes, Kill, ProcTypeOK, OwnerInv
    <3> QED
      BY <1>19, <3>1, <3>2
  <2>5. LockInv' /\ PublishInv'
    BY <2>2, <2>3 DEF LockInv, PublishInv, Unlocked
  <2> QED
    BY <2>4, <2>5
<1>20. CASE HandDone
  <2>1. ProcTypeOK' /\ OwnerInv' /\ RunHoldsRequest'
    BY <1>0, <1>20, BackOutside DEF HandDone, ProcTypeOK
  <2>2. LockInv' /\ PublishInv'
    BY <1>20, StoreIdle DEF HandDone
  <2> QED
    BY <2>1, <2>2
<1> QED
  BY <1>1, <1>2, <1>3, <1>4, <1>5, <1>6, <1>7, <1>8, <1>9, <1>10, <1>11, <1>12, <1>13, <1>14,
     <1>15, <1>16, <1>17, <1>18, <1>19, <1>20
  DEF Next, DaemonLoop, DuelSteps, PlayEnds

LEMMA OrchStepInv ==
    ASSUME OrchInv, [Next]_vars
    PROVE  OrchInv'
<1>1. QueueInv'
  BY QueueSteps, QueueStepInv DEF OrchInv
<1>2. StoreInv' /\ EventInv'
  BY StoreSteps, StoreStepInv, EventStepInv DEF OrchInv
<1>3. ProcInv'
  <2>1. CASE Next
    BY <2>1, ProcSteps
  <2>2. CASE UNCHANGED vars
    BY <2>2 DEF OrchInv, ProcInv, vars, procVars, storeVars, ProcTypeOK, OwnerInv, LockInv,
                PublishInv, RunHoldsRequest, HoldsRequest, Published, ReadableIndex, CrownHeld
  <2> QED
    BY <2>1, <2>2
<1> QED
  BY <1>1, <1>2, <1>3 DEF OrchInv

LEMMA OrchInitInv == Init => OrchInv
<1> SUFFICES ASSUME Init
             PROVE  OrchInv
  OBVIOUS
<1>1. QueueInv
  BY QueueInitInv DEF Init
<1>2. StoreInv
  BY StoreInitInv DEF Init
<1>3. EventInv
  BY DEF Init, StoreInit, EventInv, OneRecordPerEvent, EventsMatch, PendingInv, NoTail, Unlocked
<1>4. ProcInv
  BY OrchestrationAssumption
  DEF Init, StoreInit, ProcInv, ProcTypeOK, OwnerInv, LockInv, PublishInv, RunHoldsRequest, Steps,
      NoTail, Unlocked
<1> QED
  BY <1>1, <1>2, <1>3, <1>4 DEF OrchInv

THEOREM OrchInvariance == Spec => []OrchInv
<1>1. Init => OrchInv
  BY OrchInitInv
<1>2. OrchInv /\ [Next]_vars => OrchInv'
  BY OrchStepInv
<1> QED
  BY <1>1, <1>2, PTL DEF Spec

-----------------------------------------------------------------------------
(* daemon.py, cli.py and queue.py: whatever the daemon, the command line and    *)
(* the queue's users do, the queue file only ever goes through its operations.  *)
THEOREM UsesQueue == Spec => QueueSpec
<1>1. Init => QueueInit
  BY DEF Init
<1>2. OrchInv /\ [Next]_vars => [QueueNext(EventIds, Nat)]_queueVars
  BY QueueSteps
<1> QED
  BY <1>1, <1>2, OrchInvariance, PTL DEF Spec, QueueSpec

(* orchestrate.py and writer.py: the lifecycle uses the store under its lock,   *)
(* and writes or appends no event that is published: what StoreSpec asks.       *)
THEOREM UsesStore == Spec => StoreSpec
<1>1. Init => StoreInit
  BY DEF Init
<1>2. OrchInv /\ [Next]_vars => [StoreNext(EventIds)]_storeVars
  BY StoreSteps
<1> QED
  BY <1>1, <1>2, OrchInvariance, PTL DEF Spec, StoreSpec

(* queue.py under the daemon, the command line and the queue's users: whatever   *)
(* they do, in whatever order, and whoever is killed, a submission waits once    *)
(* and nobody is put in front of it but a stale duel's entry.                    *)
THEOREM WaitsFairly == Spec => []UniqueKeys /\ NoOvertaking
BY UsesQueue, OneEntryPerKey, NobodyIsOvertaken, PTL

(* writer.py and verify.py under the duel's lifecycle: its kills, failed writes  *)
(* and resumes leave numbered lines that stay, a head of one of them, and a      *)
(* store whose check finds an error exactly while it is not healed.              *)
THEOREM StoreStaysSound ==
    Spec => []SeqContiguous /\ []HeadBacked /\ SignedLinesKept /\ []VerifiesAtRest
BY UsesStore, NumberedInOrder, HeadIsOfALine, LinesAreKept, HealedStoreVerifies, PTL

(* The whole state keeps its shape, process by process and file by file. *)
THEOREM OrchTypeCorrect == Spec => []TypeOK
<1>1. OrchInv => TypeOK
  BY DEF OrchInv, QueueInv, StoreInv, ProcInv, ProcTypeOK, TypeOK
<1> QED
  BY <1>1, OrchInvariance, PTL

(* orchestrate.py, Resuming: "at most one record", however often a duel is       *)
(* killed, failed, resumed by the daemon or run again by hand.                   *)
THEOREM RecordedOnce == Spec => []OneRecordPerEvent
<1>1. OrchInv => OneRecordPerEvent
  BY DEF OrchInv, EventInv
<1> QED
  BY <1>1, OrchInvariance, PTL

(* orchestrate.py _publish: a duel run again never rewrites the event file a    *)
(* record of the index signs.                                                   *)
THEOREM RecordsMatchFiles == Spec => []EventsMatch
<1>1. OrchInv => EventsMatch
  BY DEF OrchInv, EventInv
<1> QED
  BY <1>1, OrchInvariance, PTL

(* orchestrate.py record_request: the duel being run is the one its directory   *)
(* holds the request of, so that a kill anywhere is followed by its own resume. *)
THEOREM RunsItsOwnRequest == Spec => []RunHoldsRequest
<1>1. OrchInv => RunHoldsRequest
  BY DEF OrchInv, ProcInv
<1> QED
  BY <1>1, OrchInvariance, PTL

-----------------------------------------------------------------------------
(* A line more is a record on its way, or a torn one the repair completed. *)
LEMMA NewLine ==
    ASSUME OrchInv, StoreNext(EventIds), index' # index
    PROVE  \E r \in Records :
              /\ index' = Append(index, r)
              /\ \/ tail # NoTail /\ r = tail.record
                 \/ appending.at = "repaired" /\ r = appending.record
<1>1. CASE index' = RepairedIndex
  <2>1. tail.cut = "newline" /\ index' = Append(index, tail.record)
    BY <1>1 DEF RepairedIndex
  <2>2. tail # NoTail /\ tail.record \in Records
    BY <2>1 DEF NoTail, OrchInv, StoreInv, StoreTypeOK
  <2> QED
    BY <2>1, <2>2
<1>2. CASE appending.at = "repaired" /\ index' = Append(index, appending.record)
  BY <1>2 DEF OrchInv, StoreInv, StoreTypeOK, Unlocked
<1> QED
  BY <1>1, <1>2
  DEF StoreNext, WriteEvent, BeginAppend, WriteLine, WriteHead, BeginRebuild, RewriteHead,
      AbandonAppend

(* orchestrate.py _check_crown: nothing moves the crown between the check and   *)
(* the record, so that a record is written against the holder whenever the head *)
(* was current.                                                                 *)
THEOREM RecordedAgainstHolder == Spec => AgainstHolderIfCurrent
<1>1. OrchInv /\ [Next]_vars
        => [(index' # index /\ HeadCurrent) =>
               index'[Len(index')].event.king = Holder(index)]_vars
  <2> SUFFICES ASSUME OrchInv, [Next]_vars, index' # index, HeadCurrent
               PROVE  index'[Len(index')].event.king = Holder(index)
    OBVIOUS
  <2>1. StoreNext(EventIds)
    BY StoreSteps DEF storeVars
  <2>2. PICK r \in Records : /\ index' = Append(index, r)
                             /\ \/ tail # NoTail /\ r = tail.record
                                \/ appending.at = "repaired" /\ r = appending.record
    BY <2>1, NewLine
  <2>3. r.event.king = head.king
    BY <2>2 DEF OrchInv, ProcInv, PublishInv
  <2>4. head.king = Holder(index)
    BY DEF HeadCurrent, Holder, HeadOf, EmptyHead
  <2>5. index'[Len(index')] = r
    BY <2>2 DEF OrchInv, StoreInv, StoreTypeOK
  <2> QED
    BY <2>3, <2>4, <2>5
<1> QED
  BY <1>1, OrchInvariance, PTL DEF Spec, AgainstHolderIfCurrent

-----------------------------------------------------------------------------
(* A genesis on a track with a declared baseline is the baseline's. *)
Crowning(event) == (Baseline # None /\ event.king = None) => event.challenger = Baseline

(* Every genesis asked for, being run, on its way to the index or first in it. *)
GenesisInv ==
    /\ \A r \in runs : Crowning(r.event)
    /\ pc \notin {"off", "step", "drop"} => Crowning(req.event)
    /\ tail # NoTail => Crowning(tail.record.event)
    /\ appending.at = "repaired" => Crowning(appending.record.event)
    /\ BaselineFirst

(* No run directory holds a request that was not asked for. *)
LEMMA GenesisOfRuns ==
    ASSUME OrchInv, GenesisInv, Next
    PROVE  \A r \in runs' : Crowning(r.event)
<1>0. \A r \in runs : Crowning(r.event)
  BY DEF GenesisInv
<1>1. CASE AskRecorded \/ RunDuel
  <2>1. RecordRequest(req) /\ Crowning(req.event)
    BY <1>1 DEF AskRecorded, RunDuel, GenesisInv
  <2>2. \A r \in runs' : r \in runs \/ r.event = req.event
    BY <2>1 DEF RecordRequest
  <2> QED
    BY <1>0, <2>1, <2>2
<1>2. CASE AnotherMovedAside \/ CrownMoved
  BY <1>0, <1>2 DEF AnotherMovedAside, CrownMoved, MoveRunAside
<1>3. CASE DecideUnpublished \/ DecidePublished
  <2>1. PICK what : WriteOutcome(req.event, what)
    BY <1>3 DEF DecideUnpublished, DecidePublished
  <2>2. \A r \in runs : r \in Run
    BY DEF OrchInv, ProcInv, ProcTypeOK
  <2>3. \A r \in runs' : \E s \in runs : r.event = s.event
    BY <2>1, <2>2 DEF WriteOutcome, Run
  <2> QED
    BY <1>0, <2>3
<1>4. CASE runs' = runs
  BY <1>0, <1>4
<1>5. \/ AskRecorded \/ RunDuel \/ AnotherMovedAside \/ CrownMoved
      \/ DecideUnpublished \/ DecidePublished \/ runs' = runs
  BY DEF Next, DaemonLoop, DuelSteps, PlayEnds, QueueUsers, DaemonStart, SeeKing, DropKing,
         AskChallenger, TakeChallenger, ChallengerGone, AskBaseline, NumberBaseline, StartBaseline,
         Resume, FinishLost, Settle, PutBackChallenger, DuelByHand, AlreadyDecided,
         AlreadyPublished, StartPlaying, PublishEvent, AppendRecord, AppendLine, AppendHead,
         RebuildTail, RebuildHead, Played, PlayFails, Unavailable, PublishFails, StepCrashes,
         HandDone, Kill
<1> QED
  BY <1>1, <1>2, <1>3, <1>4, <1>5

(* Nobody but the baseline is asked to take an empty throne it is declared for. *)
LEMMA GenesisOfRequest ==
    ASSUME OrchInv, GenesisInv, Next, pc' \notin {"off", "step", "drop"}
    PROVE  Crowning(req'.event)
<1>1. CASE AskChallenger
  BY <1>1 DEF AskChallenger, Serving, Throneless, Request, Crowning
<1>2. CASE AskBaseline
  BY <1>2 DEF AskBaseline, Request, Crowning
<1>3. CASE Resume
  BY <1>3 DEF Resume, RunOf, GenesisInv
<1>4. ASSUME NEW c \in ByHand, NEW z \in Sizes, DuelByHand(c, z)
      PROVE  Crowning(req'.event)
  <2>1. PICK b : req' = Request(c, head.king, z, b)
    BY <1>4 DEF DuelByHand, HandRequest
  <2>2. head.king = None => Baseline = None
    BY <1>4 DEF DuelByHand, Throneless
  <2> QED
    BY <2>1, <2>2 DEF Request, Crowning
<1>5. CASE req' = req /\ pc \notin {"off", "step", "drop"}
  BY <1>5 DEF GenesisInv
<1>6. CASE QueueUsers \/ FinishLost
  BY <1>6, <1>5 DEF QueueUsers, FinishLost, procVars
<1>7. CASE PublishFails
  BY <1>7, <1>5 DEF PublishFails
<1>8. CASE DuelSteps \/ PlayEnds
  BY <1>8, <1>5
  DEF DuelSteps, PlayEnds, AnotherMovedAside, RunDuel, AlreadyDecided, AlreadyPublished, CrownMoved,
      StartPlaying, PublishEvent, AppendRecord, AppendLine, AppendHead, RebuildTail, RebuildHead,
      DecidePublished, DecideUnpublished, Played, PlayFails, Looking, Goto
<1>9. CASE AskRecorded \/ TakeChallenger \/ NumberBaseline \/ StartBaseline
  BY <1>9, <1>5 DEF AskRecorded, TakeChallenger, NumberBaseline, StartBaseline, Goto
<1>10. ~(\/ DaemonStart \/ SeeKing \/ DropKing \/ ChallengerGone \/ Settle \/ PutBackChallenger
         \/ Unavailable \/ StepCrashes \/ HandDone \/ Kill)
  BY DEF DaemonStart, SeeKing, DropKing, ChallengerGone, Settle, PutBackChallenger, Unavailable,
         StepCrashes, HandDone, Kill, Goto, BackToLoop
<1> QED
  BY <1>1, <1>2, <1>3, <1>4, <1>6, <1>7, <1>8, <1>9, <1>10 DEF Next, DaemonLoop

(* A record on its way is of the duel that is run. *)
LEMMA GenesisOfRecord ==
    ASSUME OrchInv, GenesisInv, Next
    PROVE  /\ tail' # NoTail => Crowning(tail'.record.event)
           /\ appending'.at = "repaired" => Crowning(appending'.record.event)
<1>0. /\ tail # NoTail => Crowning(tail.record.event)
      /\ appending.at = "repaired" => Crowning(appending.record.event)
  BY DEF GenesisInv
<1>1. CASE AppendRecord
  <2>1. tail' = NoTail /\ appending'.record.event = req.event /\ Crowning(req.event)
    BY <1>1 DEF AppendRecord, BeginAppend, GenesisInv
  <2> QED
    BY <2>1
<1>2. CASE AppendLine
  <2>1. tail' = NoTail /\ appending' = [appending EXCEPT !.at = "written"] /\ appending.at = "repaired"
    BY <1>2 DEF AppendLine, WriteLine
  <2>2. appending'.at = "written"
    BY <2>1 DEF OrchInv, StoreInv, StoreTypeOK, Unlocked
  <2> QED
    BY <2>1, <2>2
<1>3. CASE AppendHead \/ RebuildHead
  BY <1>0, <1>3 DEF AppendHead, RebuildHead, WriteHead, RewriteHead, Unlocked
<1>4. CASE RebuildTail
  BY <1>4 DEF RebuildTail, BeginRebuild
<1>5. CASE PublishFails \/ StepCrashes \/ Kill
  <2>1. Abandon(owner)
    BY <1>5 DEF PublishFails, StepCrashes, Kill
  <2> QED
    BY <1>0, <2>1 DEF Abandon, AbandonAppend, storeVars, Unlocked
<1>6. CASE UNCHANGED <<tail, appending>>
  BY <1>0, <1>6
<1>7. \/ AppendRecord \/ AppendLine \/ AppendHead \/ RebuildHead \/ RebuildTail
      \/ PublishFails \/ StepCrashes \/ Kill \/ UNCHANGED <<tail, appending>>
  BY DEF Next, DaemonLoop, DuelSteps, PlayEnds, QueueUsers, DaemonStart, SeeKing, DropKing,
         AskChallenger, AskRecorded, TakeChallenger, ChallengerGone, AskBaseline, NumberBaseline,
         StartBaseline, Resume, FinishLost, Settle, PutBackChallenger, DuelByHand,
         AnotherMovedAside, RunDuel, AlreadyDecided, AlreadyPublished, CrownMoved, StartPlaying,
         PublishEvent, WriteEvent, DecidePublished, DecideUnpublished, Played, PlayFails,
         Unavailable, HandDone, storeVars
<1> QED
  BY <1>1, <1>2, <1>3, <1>4, <1>5, <1>6, <1>7

(* The first line is written under an empty head, so it is a genesis. *)
LEMMA GenesisOfIndex ==
    ASSUME OrchInv, GenesisInv, [Next]_vars
    PROVE  BaselineFirst'
<1>0. index \in Seq(Records)
  BY DEF OrchInv, StoreInv, StoreTypeOK
<1>1. CASE index' = index
  BY <1>1 DEF GenesisInv, BaselineFirst
<1>2. CASE index' # index
  <2>1. StoreNext(EventIds)
    BY <1>2, StoreSteps DEF storeVars
  <2>2. PICK r \in Records : /\ index' = Append(index, r)
                             /\ \/ tail # NoTail /\ r = tail.record
                                \/ appending.at = "repaired" /\ r = appending.record
    BY <1>2, <2>1, NewLine
  <2>3. CASE index = <<>>
    <3>1. head = EmptyHead
      BY <2>3 DEF OrchInv, StoreInv, HeadBacked
    <3>2. r.event.king = None /\ Crowning(r.event)
      BY <2>2, <3>1 DEF OrchInv, ProcInv, PublishInv, GenesisInv, EmptyHead
    <3>3. index'[1] = r
      BY <2>2, <2>3
    <3> QED
      BY <3>2, <3>3 DEF Crowning, BaselineFirst
  <2>4. CASE index # <<>>
    <3>1. index'[1] = index[1]
      BY <1>0, <2>2, <2>4
    <3> QED
      BY <2>4, <3>1 DEF GenesisInv, BaselineFirst
  <2> QED
    BY <2>3, <2>4
<1> QED
  BY <1>1, <1>2

(* daemon.py _baseline_genesis and cli.py _duel: an empty throne with a declared *)
(* baseline is taken by it before any entry, wherever its genesis is interrupted *)
(* and whoever else asks.                                                        *)
THEOREM BaselineIsFirst == Spec => []BaselineFirst
<1>1. Init => GenesisInv
  BY DEF Init, StoreInit, GenesisInv, BaselineFirst, NoTail, Unlocked
<1>2. OrchInv /\ GenesisInv /\ [Next]_vars => GenesisInv'
  <2> SUFFICES ASSUME OrchInv, GenesisInv, [Next]_vars
               PROVE  GenesisInv'
    OBVIOUS
  <2>1. BaselineFirst'
    BY GenesisOfIndex
  <2>2. CASE Next
    <3>1. \A r \in runs' : Crowning(r.event)
      BY <2>2, GenesisOfRuns
    <3>2. (pc \notin {"off", "step", "drop"} => Crowning(req.event))'
      BY <2>2, GenesisOfRequest DEF Crowning
    <3>3. /\ tail' # NoTail => Crowning(tail'.record.event)
          /\ appending'.at = "repaired" => Crowning(appending'.record.event)
      BY <2>2, GenesisOfRecord
    <3> QED
      BY <2>1, <3>1, <3>2, <3>3 DEF GenesisInv, Crowning
  <2>3. CASE UNCHANGED vars
    BY <2>1, <2>3 DEF vars, procVars, storeVars, GenesisInv, Crowning
  <2> QED
    BY <2>2, <2>3
<1>3. GenesisInv => BaselineFirst
  BY DEF GenesisInv
<1> QED
  BY <1>1, <1>2, <1>3, OrchInvariance, PTL DEF Spec
=============================================================================
