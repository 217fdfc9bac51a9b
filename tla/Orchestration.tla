--------------------------- MODULE Orchestration ---------------------------
(***************************************************************************)
(* One track of the orchestrator: the daemon's loop (daemon.py), the duel  *)
(* by hand (cli.py _duel) and the duel's life from request to published    *)
(* record (duel/orchestrate.py), over the queue file (ChallengerQueue) and *)
(* the result store (ResultStore).                                         *)
(*                                                                         *)
(* One step is at most one durable write, so that a kill (Kill) can come   *)
(* between any two.  The store lock lets one process at a time run duels:  *)
(* `owner` holds it, `pc` is where it is and `req` the duel it runs.  The  *)
(* queue's other users (queue add and remove, the intake) take no store    *)
(* lock and interleave freely.                                             *)
(***************************************************************************)
EXTENDS ChallengerQueue, ResultStore

CONSTANTS
    Baseline,        \* the track's declared baseline, or None
    ByHand,          \* the submissions an operator runs `duel --challenger` with
    IoErrors,        \* whether a store write may raise
    MaxBlock,        \* bound: duels are asked for up to this block
    MaxFaults        \* bound: kills and I/O errors of a behaviour

VARIABLES
    runs,    \* the run directories: whose request they hold, what was decided
    owner,   \* the process that holds the store lock, or None
    pc,      \* where that process is
    req,     \* the request it runs, or None
    throne,  \* the daemon's try at the baseline's genesis: open, trying or stalled
    faults   \* kills and I/O errors so far

procVars == <<owner, pc, req, throne, faults>>
vars == <<queueVars, storeVars, runs, procVars>>

Outcomes == {"none", "published", "refused", "void"}
Run == [event : EventIds, size : Sizes, outcome : Outcomes]

Steps ==
    {"off", "step", "drop", "ask", "take", "seat", "number", "start", "run", "look", "play", "publish",
     "append", "line", "head", "outcome", "rebuild", "rehead", "redecide",
     "settle", "failed", "moved"}

TypeOK ==
    /\ QueueTypeOK
    /\ StoreTypeOK
    /\ runs \in SUBSET Run
    /\ owner \in Writers \cup {None}
    /\ pc \in Steps
    /\ req \in Requests \cup {None}
    /\ throne \in {"open", "trying", "stalled"}
    /\ faults \in Nat

ASSUME OrchestrationAssumption ==
    /\ Writers = {"daemon", "cli"}
    /\ None \notin Writers
    /\ Sizes # {}
    /\ Baseline \in Submissions \cup {None}
    /\ ByHand \subseteq Submissions
    /\ IoErrors \in BOOLEAN
    /\ MaxBlock \in Nat
    /\ MaxFaults \in Nat

Init ==
    /\ QueueInit
    /\ StoreInit
    /\ runs = {}
    /\ owner = None
    /\ pc = "off"
    /\ req = None
    /\ throne = "open"
    /\ faults = 0

-----------------------------------------------------------------------------
(* The run directories: one per event id, holding the request it was made for. *)

RunOf(event) == {r \in runs : r.event = event}

HoldsRequest(q) == \E r \in runs : r.event = q.event /\ r.size = q.size

Outcome(event) ==
    IF RunOf(event) = {} THEN "none" ELSE (CHOOSE r \in RunOf(event) : TRUE).outcome

(* Slip: a directory of the same id is taken for this duel's. *)
HoldsAnotherNever(q) == FALSE

(* The same pair in the same block, asked for at another size. *)
HoldsAnother(q) == RunOf(q.event) # {} /\ ~HoldsRequest(q)

(* record_request: a directory that holds another duel's request is moved aside *)
(* first; request.json is then written unless it is there.                      *)
MoveRunAside(event) == runs' = runs \ RunOf(event)

RecordRequest(q) ==
    /\ ~HoldsAnother(q)
    /\ runs' = IF RunOf(q.event) # {} THEN runs
               ELSE runs \cup {[event |-> q.event, size |-> q.size, outcome |-> "none"]}

(* outcome.json, written once the duel is decided. *)
WriteOutcome(event, what) ==
    runs' = {IF r.event = event THEN [r EXCEPT !.outcome = what] ELSE r : r \in runs}

(* The size of a request that names none. *)
DefaultSize == CHOOSE z \in Sizes : TRUE

Request(c, k, z, b) == [event |-> [block |-> b, challenger |-> c, king |-> k], size |-> z]

(* Slip: the crown is not looked at. *)
CrownHeldAlways == TRUE

(* _check_crown: the head still names the king the duel was asked against. *)
CrownHeld == head.king = req.event.king

(* The block of the record the head is of; 0 for an empty track. *)
HeadBlock == IF head.event = None THEN 0 ELSE head.event.block

(* Daemon.next_block: one past both the queue's counter and the head's. *)
NextBlock == Max2(block, HeadBlock) + 1

Goto(step) ==
    /\ pc' = step
    /\ UNCHANGED <<owner, req, throne, faults>>

-----------------------------------------------------------------------------
(* The queue's other users. *)

QueueUsers ==
    /\ \/ \E k \in Submissions, z \in Sizes : Add(k, z) \/ Offer(k, z)
       \/ \E k \in Submissions : Remove(k)
    /\ UNCHANGED <<storeVars, runs, procVars>>

-----------------------------------------------------------------------------
(* The daemon.  It holds the store for its life; its loop is Daemon.step. *)

DaemonStart ==
    /\ owner = None
    /\ owner' = "daemon"
    /\ pc' = "step"
    /\ throne' = "open"
    /\ UNCHANGED <<queueVars, storeVars, runs, req, faults>>

AtStep == owner = "daemon" /\ pc = "step"

(* Slip: the declared baseline is forgotten. *)
ThronelessNever == FALSE

Throneless == head.king = None /\ Baseline # None

(* Nothing in progress and a challenger to serve, its king known. *)
Serving == AtStep /\ inProgress = None /\ throne # "stalled" /\ ~Throneless /\ entries # <<>>

(* The king queued again is dropped, wherever it is by then. *)
SeeKing ==
    /\ Serving
    /\ head.king = entries[1].key
    /\ Goto("drop")
    /\ UNCHANGED <<queueVars, storeVars, runs>>

DropKing ==
    /\ pc = "drop"
    /\ Remove(head.king)
    /\ Goto("step")
    /\ UNCHANGED <<storeVars, runs>>

(* step: the head entry asks the king for a duel, in the next block; its       *)
(* request is on disk (AskRecorded) before the entry leaves the queue.         *)
AskChallenger ==
    /\ Serving
    /\ head.king # entries[1].key
    /\ NextBlock <= MaxBlock
    /\ req' = Request(entries[1].key, head.king, entries[1].size, NextBlock)
    /\ pc' = "ask"
    /\ UNCHANGED <<queueVars, storeVars, runs, owner, throne, faults>>

AskRecorded ==
    /\ pc \in {"ask", "seat"}
    /\ RecordRequest(req)
    /\ Goto(IF pc = "ask" THEN "take" ELSE "number")
    /\ UNCHANGED <<queueVars, storeVars>>

TakeChallenger ==
    /\ owner = "daemon" /\ pc = "take"
    /\ Take(req.event.challenger, req.event)
    /\ Goto("run")
    /\ UNCHANGED <<storeVars, runs>>

(* The entry was removed meanwhile: the request stays, no block was used. *)
ChallengerGone ==
    /\ owner = "daemon" /\ pc = "take"
    /\ TakeGone(req.event.challenger)
    /\ pc' = "step"
    /\ req' = None
    /\ UNCHANGED <<storeVars, runs, owner, throne, faults>>

(* _baseline_genesis: the declared baseline takes the empty throne; it is      *)
(* recorded, numbered and marked in progress in three writes.                  *)
AskBaseline ==
    /\ AtStep /\ inProgress = None /\ throne # "stalled" /\ Throneless
    /\ NextBlock <= MaxBlock
    /\ req' = Request(Baseline, None, DefaultSize, NextBlock)
    /\ pc' = "seat"
    /\ throne' = "trying"
    /\ UNCHANGED <<queueVars, storeVars, runs, owner, faults>>

NumberBaseline ==
    /\ owner = "daemon" /\ pc = "number"
    /\ SetBlock(req.event.block)
    /\ Goto("start")
    /\ UNCHANGED <<storeVars, runs>>

StartBaseline ==
    /\ owner = "daemon" /\ pc = "start"
    /\ Start(req.event)
    /\ Goto("run")
    /\ UNCHANGED <<storeVars, runs>>

(* _resume: the duel in progress first, from the request its directory holds. *)
Resume ==
    /\ AtStep /\ inProgress # None
    /\ \E r \in RunOf(inProgress.event) : req' = [event |-> r.event, size |-> r.size]
    /\ pc' = "run"
    /\ UNCHANGED <<queueVars, storeVars, runs, owner, throne, faults>>

(* _resume: no directory holds its request, and the duel is finished. *)
FinishLost ==
    /\ AtStep /\ inProgress # None
    /\ RunOf(inProgress.event) = {}
    /\ Finish
    /\ UNCHANGED <<storeVars, runs, procVars>>

-----------------------------------------------------------------------------
(* duel --challenger: under the store lock, against the head's king, numbered  *)
(* from the queue's counter.  The last block handed out is used again when its *)
(* directory holds this very request; any other duel claims a new one.         *)

HandRequest(c, z, b) == Request(c, head.king, z, b)

Reused(c, z) ==
    LET b == Max2(block, HeadBlock) IN b > HeadBlock /\ HoldsRequest(HandRequest(c, z, b))

DuelByHand(c, z) ==
    /\ owner = None
    /\ head.king # c
    /\ ~Throneless
    /\ \/ /\ Reused(c, z)
          /\ req' = HandRequest(c, z, Max2(block, HeadBlock))
          /\ UNCHANGED queueVars
       \/ /\ ~Reused(c, z)
          /\ ClaimedBlock(HeadBlock) <= MaxBlock
          /\ ClaimBlock(HeadBlock)
          /\ req' = HandRequest(c, z, block')
    /\ owner' = "cli"
    /\ pc' = "run"
    /\ UNCHANGED <<storeVars, runs, throne, faults>>

-----------------------------------------------------------------------------
(* Orchestrator.run. *)

AnotherMovedAside ==
    /\ pc \in {"ask", "seat", "run"}
    /\ HoldsAnother(req)
    /\ MoveRunAside(req.event)
    /\ Goto(pc)
    /\ UNCHANGED <<queueVars, storeVars>>

RunDuel ==
    /\ pc = "run"
    /\ RecordRequest(req)
    /\ Goto("look")
    /\ UNCHANGED <<queueVars, storeVars>>

(* Decided by an earlier run: returned as it was. *)
AlreadyDecided ==
    /\ pc = "look"
    /\ Outcome(req.event) # "none"
    /\ Goto("settle")
    /\ UNCHANGED <<queueVars, storeVars, runs>>

Looking == pc = "publish" \/ (pc = "look" /\ Outcome(req.event) = "none")

(* Published by an earlier run, before the duel or before its record: the head *)
(* is to be rebuilt.                                                           *)
AlreadyPublished ==
    /\ Looking
    /\ Published(req.event)
    /\ Goto("rebuild")
    /\ UNCHANGED <<queueVars, storeVars, runs>>

(* _check_crown: the run is moved aside and CrownMoved raised. *)
CrownMoved ==
    /\ Looking
    /\ ~Published(req.event)
    /\ ~CrownHeld
    /\ MoveRunAside(req.event)
    /\ Goto("moved")
    /\ UNCHANGED <<queueVars, storeVars>>

StartPlaying ==
    /\ pc = "look"
    /\ Outcome(req.event) = "none"
    /\ ~Published(req.event)
    /\ CrownHeld
    /\ Goto("play")
    /\ UNCHANGED <<queueVars, storeVars, runs>>

(* Fetching, checking, materializing and both sides' units, whose own state is *)
(* in the run directory: the duel is refused or void...                        *)
DecideUnpublished ==
    /\ pc = "play"
    /\ \E what \in {"refused", "void"} : WriteOutcome(req.event, what)
    /\ Goto("settle")
    /\ UNCHANGED <<queueVars, storeVars>>

(* ...or played to the end... *)
Played ==
    /\ pc = "play"
    /\ Goto("publish")
    /\ UNCHANGED <<queueVars, storeVars, runs>>

(* ...or the harness could not run it. *)
PlayFails ==
    /\ pc = "play"
    /\ Goto("failed")
    /\ UNCHANGED <<queueVars, storeVars, runs>>

-----------------------------------------------------------------------------
(* Orchestrator._publish: the event, the record, the head, the outcome. *)

PublishEvent ==
    /\ pc = "publish"
    /\ ~Published(req.event)
    /\ CrownHeld
    /\ \E d \in BOOLEAN :
          /\ Kind(req.event) = "genesis" => ~d
          /\ WriteEvent(req.event, d)
    /\ Goto("append")
    /\ UNCHANGED <<queueVars, runs>>

AppendRecord ==
    /\ pc = "append"
    /\ BeginAppend(owner, req.event)
    /\ Goto("line")
    /\ UNCHANGED <<queueVars, runs>>

AppendLine ==
    /\ pc = "line"
    /\ WriteLine(owner)
    /\ Goto("head")
    /\ UNCHANGED <<queueVars, runs>>

AppendHead ==
    /\ pc = "head"
    /\ WriteHead(owner)
    /\ Goto("outcome")
    /\ UNCHANGED <<queueVars, runs>>

(* A write of the store raises: run turns it into DuelFailed. *)
Abandon(w) == IF appending.by = w THEN AbandonAppend(w) ELSE UNCHANGED storeVars

PublishFails ==
    /\ IoErrors /\ faults < MaxFaults
    /\ pc \in {"publish", "append", "line", "head", "outcome"}
    /\ Abandon(owner)
    /\ pc' = "failed"
    /\ faults' = faults + 1
    /\ UNCHANGED <<queueVars, runs, owner, req, throne>>

(* _republished: the head from the index, then the outcome. *)
RebuildTail ==
    /\ pc = "rebuild"
    /\ BeginRebuild(owner)
    /\ Goto("rehead")
    /\ UNCHANGED <<queueVars, runs>>

RebuildHead ==
    /\ pc = "rehead"
    /\ RewriteHead(owner)
    /\ Goto("redecide")
    /\ UNCHANGED <<queueVars, runs>>

DecidePublished ==
    /\ pc \in {"outcome", "redecide"}
    /\ WriteOutcome(req.event, "published")
    /\ Goto("settle")
    /\ UNCHANGED <<queueVars, storeVars>>

-----------------------------------------------------------------------------
(* What the caller of Orchestrator.run does with its result. *)

(* The track waits when the baseline's genesis, tried by this process, did not *)
(* publish; a resumed one is not such a try.                                   *)
NextThrone == IF throne = "trying"
              THEN IF head.king = None THEN "stalled" ELSE "open"
              ELSE throne

BackToLoop ==
    /\ pc' = "step"
    /\ req' = None
    /\ UNCHANGED <<owner, faults>>

(* Slip: a failed duel does not finish its entry. *)
SettleDecided ==
    /\ owner = "daemon" /\ pc = "settle"
    /\ Finish
    /\ BackToLoop
    /\ throne' = NextThrone
    /\ UNCHANGED <<storeVars, runs>>

(* Decided or failed: the daemon finishes the entry. *)
Settle ==
    /\ owner = "daemon" /\ pc \in {"settle", "failed"}
    /\ Finish
    /\ BackToLoop
    /\ throne' = NextThrone
    /\ UNCHANGED <<storeVars, runs>>

(* The duel stays in progress, to be resumed by a later step. *)
Unavailable ==
    /\ owner = "daemon" /\ pc = "play"
    /\ BackToLoop
    /\ throne' = IF throne = "trying" THEN "open" ELSE throne
    /\ UNCHANGED <<queueVars, storeVars, runs>>

(* _entry_of: what a duel whose mark kept no entry goes back as. *)
EntryOfRequest ==
    IF req.event.king = None /\ Baseline # None /\ Baseline = req.event.challenger
    THEN None
    ELSE [key |-> req.event.challenger, size |-> req.size]

(* CrownMoved: the challenger goes back to the head of the queue. *)
PutBackChallenger ==
    /\ owner = "daemon" /\ pc = "moved"
    /\ PutBack(EntryOfRequest)
    /\ BackToLoop
    /\ throne' = NextThrone
    /\ UNCHANGED <<storeVars, runs>>

(* The command ends: decided, failed, unavailable or stale. *)
HandDone ==
    /\ owner = "cli" /\ pc \in {"settle", "failed", "moved", "play"}
    /\ owner' = None
    /\ pc' = "off"
    /\ req' = None
    /\ UNCHANGED <<queueVars, storeVars, runs, throne, faults>>

(* A write outside _run's try raises: the step crashes, and the loop goes on    *)
(* with the duel as the step left it.                                           *)
StepCrashes ==
    /\ IoErrors /\ faults < MaxFaults
    /\ owner = "daemon"
    /\ pc \in {"drop", "ask", "take", "seat", "number", "start", "run", "rebuild", "rehead", "redecide",
               "settle", "failed", "moved"}
    /\ Abandon(owner)
    /\ pc' = "step"
    /\ req' = None
    /\ throne' = IF throne = "trying" THEN "open" ELSE throne
    /\ faults' = faults + 1
    /\ UNCHANGED <<queueVars, runs, owner>>

(* The process that holds the store is killed, or stopped by a signal; so ends  *)
(* the command whose write raises outside _run's try.                           *)
Kill ==
    /\ owner # None
    /\ faults < MaxFaults
    /\ Abandon(owner)
    /\ owner' = None
    /\ pc' = "off"
    /\ req' = None
    /\ throne' = "open"
    /\ faults' = faults + 1
    /\ UNCHANGED <<queueVars, runs>>

-----------------------------------------------------------------------------
DaemonLoop ==
    \/ SeeKing \/ DropKing \/ AskChallenger \/ AskRecorded \/ TakeChallenger \/ ChallengerGone
    \/ AskBaseline \/ NumberBaseline \/ StartBaseline
    \/ Resume \/ FinishLost \/ Settle \/ PutBackChallenger

DuelSteps ==
    \/ AnotherMovedAside \/ RunDuel \/ AlreadyDecided \/ AlreadyPublished \/ CrownMoved \/ StartPlaying
    \/ PublishEvent \/ AppendRecord \/ AppendLine \/ AppendHead
    \/ RebuildTail \/ RebuildHead \/ DecidePublished

PlayEnds == DecideUnpublished \/ Played \/ PlayFails

Next ==
    \/ QueueUsers
    \/ DaemonStart
    \/ DaemonLoop
    \/ \E c \in ByHand, z \in Sizes : DuelByHand(c, z)
    \/ DuelSteps
    \/ PlayEnds
    \/ Unavailable
    \/ PublishFails
    \/ StepCrashes
    \/ HandDone
    \/ Kill

Spec == Init /\ [][Next]_vars

(* Both processes run while they are up: the daemon is restarted until it gets *)
(* the store, and the harness does not refuse one duel for ever.               *)
Fairness ==
    /\ SF_vars(DaemonStart)
    /\ WF_vars(DaemonLoop)
    /\ WF_vars(DuelSteps)
    /\ SF_vars(owner = "daemon" /\ PlayEnds)
    /\ WF_vars(HandDone)

FairSpec == Spec /\ Fairness

-----------------------------------------------------------------------------
(* "Once outcome.json exists, running the duel again returns it": what a run    *)
(* directory decided is never decided again, overwritten or moved aside for     *)
(* another duel of the same id.                                                 *)
OutcomesKept == [][\A r \in runs : r.outcome # "none" => r \in runs']_vars

(* The head says what the index says. *)
HeadCurrent == head = IF index = <<>> THEN EmptyHead ELSE HeadOf(index[Len(index)])

(* Between _check_crown and the record's line nothing moves the crown: a record *)
(* is written against the holder whenever the head was current.                 *)
AgainstHolderIfCurrent ==
    [][(index' # index /\ HeadCurrent) =>
          index'[Len(index')].event.king = Holder(index)]_vars

(* A duel in progress whose request is on disk ends decided, failed, or with    *)
(* the entry it was taken from back in the queue.                               *)
RecordedDuelNotDropped ==
    [][(inProgress # None /\ inProgress' = None /\ pc \in {"step", "moved"}) =>
          \/ RunOf(inProgress.event) = {} /\ pc = "step"
          \/ inProgress.entry = None
          \/ \E i \in DOMAIN entries' : entries'[i] = inProgress.entry]_vars

(* The directory of the duel being run holds its request, so that a kill at any *)
(* point is followed by a resume of this duel and no other.                     *)
RunHoldsRequest ==
    pc \in {"look", "play", "publish", "append", "line", "head", "outcome",
           "rebuild", "rehead", "redecide"} => HoldsRequest(req)

(* An empty throne with a declared baseline is taken by it before any entry. *)
BaselineFirst ==
    (Baseline # None /\ index # <<>>) => index[1].event.challenger = Baseline

(* The track's published lineage: what CrownLineage promises, of the lines and  *)
(* a last line that only lost its newline, which the next repair completes.     *)
Lineage ==
    INSTANCE CrownLineage WITH
        Duels <- [block : 1 .. MaxBlock, challenger : Submissions,
                  king : Submissions \cup {None}],
        lineage <- [i \in DOMAIN RepairedIndex |->
                      [event |-> RepairedIndex[i].event, moved |-> RepairedIndex[i].dethroned]]

(* daemon.py and orchestrate.py, Resuming: a daemon killed at any point still   *)
(* publishes each duel once, against the king the duels before it crowned.      *)
ImplementsLineage == Lineage!Spec

(* With nothing in progress and no step of a duel under way, the head the       *)
(* daemon reads the next king from is the index's own: a kill between the line  *)
(* and the head is healed before anyone is served.                              *)
HeadCurrentAtRest == (AtStep /\ inProgress = None) => HeadCurrent

(* A duel in progress ends, whatever stopped it, and is not resumed for ever.   *)
DuelSettles == inProgress # None ~> inProgress = None

-----------------------------------------------------------------------------
(* What the docs say, that some order of faults breaks. *)

(* README.md:125: "A duel is never published against a king who no longer holds *)
(* the crown".                                                                  *)
NeverAgainstFormerKing ==
    \A i \in DOMAIN index : index[i].event.king = Holder(SubSeq(index, 1, i - 1))

(* orchestrate.py:19: "outcome.json  what was decided: published (with the      *)
(* record)": a duel said to be published has its record in the index.           *)
PublishedIsRecorded ==
    \A r \in runs : r.outcome = "published" => \E i \in DOMAIN index : index[i].event = r.event

(* daemon.py:21-24: a stale duel's "challenger's entry goes back to the head of *)
(* the queue"; nothing but a decision or a failure ends a duel in progress.     *)
EntryNotLost ==
    [][(inProgress # None /\ inProgress' = None) =>
          \/ pc \in {"settle", "failed"}
          \/ inProgress.entry = None
          \/ \E i \in DOMAIN entries' : entries'[i] = inProgress.entry]_vars
=============================================================================
