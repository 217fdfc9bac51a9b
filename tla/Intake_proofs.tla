---------------------------- MODULE Intake_proofs ----------------------------
(***************************************************************************)
(* One track's queue file, the snapshot that shows it and the mirror, for  *)
(* any number of connections, slots, requests and faults: the slots are    *)
(* neither lost nor given back twice, queue.json never goes back to an     *)
(* older state, the daemon shows what its threads changed, and a running   *)
(* daemon forgets no file that the mirror lacks.                           *)
(***************************************************************************)
EXTENDS Intake, ChallengerQueue_proofs, FiniteSetTheorems

ConnStates == {"away", "reading", "resolved", "publishing", "replying"}

PubStates == [at : {"none", "asked", "computed", "written"}, state : Nat]

LoopStates ==
    [at : {"down", "starting", "idle", "peeked", "running", "publishing",
           "draining", "pushing", "finishing"},
     key : Submissions \cup {None}, carried : SUBSET Files,
     next : {"serving", "idle", "running", "finishing"}]

(* IntakeTypeOK but for the queue, and for what is bounded by other variables. *)
TypeInv ==
    /\ change \in Nat /\ own \in Nat /\ stored \in Nat /\ free \in Nat
    /\ served \in {"daemon", "apart"}
    /\ behind \subseteq Files /\ touched \subseteq Files
    /\ storeLock \in {"daemon", "apart", "cli", None}
    /\ publishing \in Publishers \cup {None}
    /\ intakeLock \in Conns \cup {None}
    /\ conn \in [Conns -> ConnStates]
    /\ pub \in [Publishers -> PubStates]
    /\ loop \in LoopStates
    /\ duel \in {"open", "recorded", "decided"}
    /\ unpushed \in BOOLEAN

BoundsInv == requests \in 0 .. MaxRequests /\ faults \in 0 .. MaxFaults

(* A publisher that holds the lock it publishes under. *)
Holds(p) == pub[p].at \in {"computed", "written"}

(* What the daemon holds: the store's lock while it runs, and _publishing for *)
(* the one thread of it that publishes.                                        *)
DaemonLocks ==
    /\ (storeLock = "daemon") <=> (loop.at # "down")
    /\ \A p \in Publishers : ByDaemon(p) => (Holds(p) <=> publishing = p)
    /\ publishing # None => ByDaemon(publishing)

(* What another process holds: the store's lock, while it publishes. *)
OtherLocks ==
    /\ \A p \in Publishers : (~ByDaemon(p) /\ Holds(p)) => storeLock = ProcessOf(p)
    /\ storeLock = "apart" => (intakeLock # None /\ Holds(intakeLock))
    /\ storeLock = "cli" => Holds("cli")

(* What a thread of the intake holds: _lock, from the entry it queued to its   *)
(* answer, so that it is the only one of the intake's that publishes.          *)
ThreadLocks ==
    /\ \A c \in Conns : (conn[c] = "publishing") <=> (intakeLock = c)
    /\ \A c \in Conns : (pub[c].at # "none") <=> (intakeLock = c)

(* The loop publishes where it says so, and the daemon's threads end with it. *)
LoopPublishes ==
    /\ (pub["loop"].at # "none") <=> (loop.at \in {"starting", "publishing"})
    /\ (loop.at = "down" /\ served = "daemon") => \A c \in Conns : conn[c] = "away"

LocksInv == DaemonLocks /\ OtherLocks /\ ThreadLocks /\ LoopPublishes

(* A publisher that has yet to write what the daemon's process changed. *)
YetToShow(p) ==
    /\ ByDaemon(p)
    /\ \/ pub[p].at = "asked"
       \/ pub[p].at = "computed" /\ own <= pub[p].state

(* A snapshot that is about to be written is no older than the one it replaces. *)
SnapshotsInv ==
    /\ stored <= change /\ own <= change
    /\ \A p \in Publishers :
          pub[p].at = "computed" => (stored <= pub[p].state /\ pub[p].state <= change)
    /\ own <= stored \/ \E p \in Publishers : YetToShow(p)

(* Where the loop is, and the duel that is marked in progress. *)
DuelInv ==
    /\ loop.at = "peeked" => (inProgress = None /\ loop.key \in Submissions)
    /\ (loop.at \in {"running", "finishing"} \/ loop.next \in {"running", "finishing"})
          => inProgress # None
    /\ duel = "recorded" => inProgress # None

(* The record's files, when the mirror lacks them, are remembered without the *)
(* duel's resumption.                                                          *)
DuelRemembered == "duel" \in behind => ("duel" \in touched \cup loop.carried \/ unpushed)

(* So they are whenever the duel is not one to be resumed and touched again,   *)
(* and from the moment it was, up to its outcome.                              *)
MirrorInv ==
    /\ loop.carried # {} => loop.at = "pushing"
    /\ duel # "recorded" => DuelRemembered
    /\ (loop.at = "finishing" \/ loop.next = "finishing") => DuelRemembered
    /\ (loop.at \notin {"down", "starting"} /\ "queue" \in behind) => Remembered("queue")

IntakeInv ==
    /\ QueueInv /\ TypeInv /\ BoundsInv
    /\ LocksInv /\ SnapshotsInv /\ DuelInv /\ MirrorInv
    /\ SlotsHeld

-----------------------------------------------------------------------------
(* The steps by what they leave alone. *)

(* A step of a connection's thread that neither queues nor publishes. *)
ThreadStep ==
    \/ \E c \in Conns :
          \/ Accept(c) \/ EndsUnqueued(c) \/ Resolves(c) \/ SubmitFails(c)
          \/ \E k \in Submissions, z \in Sizes : SubmitWaiting(c, k, z)
          \/ Reply(c)
    \/ ThreadFails

(* A step of the loop that neither changes the queue nor publishes. *)
LoopMoves ==
    \/ Drain \/ Push \/ PushFails
    \/ Peek \/ EntryGone \/ Resume \/ RecordDuel \/ RecordFails \/ Republish
    \/ NothingToRecord \/ HarnessAway \/ WriteOutcome

(* A change of the queue by the loop. *)
LoopChanges == DropHolder \/ TakeEntry \/ FinishDuel \/ CrownMoved

Queues == \E c \in Conns, k \in Submissions, z \in Sizes : SubmitNew(c, k, z)

Operates ==
    \/ \E k \in Submissions, z \in Sizes : QueueAdd(k, z)
    \/ \E k \in Submissions : QueueRemove(k)

Writes == \E p \in Publishers : PublisherStep(p) \/ SnapshotFails(p)

LEMMA StepKinds ==
    ASSUME Next
    PROVE  \/ ThreadStep \/ Queues \/ Writes \/ StartDaemon
           \/ LoopMoves \/ LoopChanges \/ KillDaemon \/ Operates
  BY DEF Next, ThreadStep, Queues, Writes, LoopMoves, LoopChanges, Operates, LoopStep, Submit

(* A thread goes from one place that does not publish to another. *)
LEMMA ThreadSteps ==
    ASSUME IntakeInv, ThreadStep
    PROVE  /\ UNCHANGED <<queueVars, change, own, served, intakeLock, showVars, mirrorVars, loop, duel>>
           /\ free' \in Nat
           /\ conn' \in [Conns -> ConnStates]
           /\ \A c \in Conns : (conn'[c] = "publishing") <=> (conn[c] = "publishing")
           /\ (loop.at = "down" /\ served = "daemon") => conn' = conn
           /\ BoundsInv'
<1>0. TypeInv /\ BoundsInv /\ LoopPublishes
  BY DEF IntakeInv, LocksInv
<1> USE <1>0, IntakeAssumption DEF TypeInv, ConnStates, BoundsInv
<1>1. ASSUME NEW c \in Conns,
             Accept(c) \/ EndsUnqueued(c) \/ Resolves(c) \/ SubmitFails(c) \/ Reply(c)
      PROVE  /\ UNCHANGED <<queueVars, change, own, served, intakeLock, showVars, mirrorVars, loop, duel>>
             /\ free' \in Nat
             /\ BoundsInv'
             /\ conn[c] \notin {"publishing"}
             /\ (loop.at = "down" /\ served = "daemon") => FALSE
             /\ \E s \in ConnStates \ {"publishing"} : conn' = [conn EXCEPT ![c] = s]
  BY <1>1 DEF Accept, EndsUnqueued, Resolves, SubmitFails, Reply, ReplyAndRead, ReplyAndClose, Ends,
              Fault, LoopPublishes, IntakeUp, boundVars
<1>2. ASSUME NEW c \in Conns, NEW k \in Submissions, NEW z \in Sizes, SubmitWaiting(c, k, z)
      PROVE  /\ UNCHANGED <<queueVars, change, own, served, intakeLock, showVars, mirrorVars, loop, duel>>
             /\ free' \in Nat
             /\ BoundsInv'
             /\ conn[c] \notin {"publishing"}
             /\ (loop.at = "down" /\ served = "daemon") => FALSE
             /\ \E s \in ConnStates \ {"publishing"} : conn' = [conn EXCEPT ![c] = s]
  <2>1. UNCHANGED queueVars
    BY <1>2 DEF SubmitWaiting, Offer, queueVars
  <2> QED
    BY <1>2, <2>1 DEF SubmitWaiting, Ends, LoopPublishes, boundVars
<1>3. ASSUME ThreadFails
      PROVE  /\ UNCHANGED <<queueVars, change, own, served, intakeLock, showVars, mirrorVars, loop, duel>>
             /\ free' \in Nat
             /\ BoundsInv'
             /\ conn' = conn
  BY <1>3 DEF ThreadFails, Fault, FreeAfterFailure
<1>4. CASE ThreadFails
  BY <1>3, <1>4
<1>5. CASE \E c \in Conns : \/ Accept(c) \/ EndsUnqueued(c) \/ Resolves(c) \/ SubmitFails(c)
                            \/ \E k \in Submissions, z \in Sizes : SubmitWaiting(c, k, z)
                            \/ Reply(c)
  <2>1. PICK c \in Conns : \/ Accept(c) \/ EndsUnqueued(c) \/ Resolves(c) \/ SubmitFails(c)
                           \/ \E k \in Submissions, z \in Sizes : SubmitWaiting(c, k, z)
                           \/ Reply(c)
    BY <1>5
  <2>2. /\ UNCHANGED <<queueVars, change, own, served, intakeLock, showVars, mirrorVars, loop, duel>>
        /\ free' \in Nat
        /\ BoundsInv'
        /\ conn[c] \notin {"publishing"}
        /\ (loop.at = "down" /\ served = "daemon") => FALSE
        /\ \E s \in ConnStates \ {"publishing"} : conn' = [conn EXCEPT ![c] = s]
    BY <2>1, <1>1, <1>2
  <2>3. PICK s \in ConnStates \ {"publishing"} : conn' = [conn EXCEPT ![c] = s]
    BY <2>2
  <2>4. /\ conn' \in [Conns -> ConnStates]
        /\ \A d \in Conns : conn'[d] = IF d = c THEN s ELSE conn[d]
    BY <2>3
  <2> QED
    BY <2>2, <2>3, <2>4
<1> QED
  BY <1>4, <1>5 DEF ThreadStep

(* The loop moves on, up or down no less than before, and as a publisher nowhere. *)
LEMMA LoopMoveSteps ==
    ASSUME IntakeInv, LoopMoves
    PROVE  /\ UNCHANGED <<queueVars, change, own, served, intakeVars, showVars>>
           /\ unpushed' \in BOOLEAN /\ (unpushed => unpushed')
           /\ loop' \in LoopStates
           /\ loop.at \notin {"down", "starting", "publishing"}
           /\ loop'.at \notin {"down", "starting", "publishing"}
           /\ duel' \in {"open", "recorded", "decided"}
           /\ behind' \subseteq Files /\ touched' \subseteq Files
           /\ BoundsInv'
<1>0. TypeInv /\ BoundsInv /\ QueueInv
  BY DEF IntakeInv
<1> USE <1>0 DEF TypeInv, BoundsInv, LoopStates, Files, boundVars, mirrorVars
<1>1. CASE Drain
  BY <1>1 DEF Drain
<1>2. ASSUME PushIsOver, loop.at = "pushing"
      PROVE  /\ loop' \in LoopStates
             /\ loop'.at \notin {"down", "starting", "publishing"}
  BY <1>2 DEF PushIsOver, Served
<1>3. CASE Push
  BY <1>2, <1>3 DEF Push
<1>4. CASE PushFails
  <2>1. touched' \subseteq Files
    BY <1>4 DEF PushFails, TouchedAgain
  <2> QED
    BY <1>2, <1>4, <2>1, IntakeAssumption DEF PushFails, Fault
<1>5. CASE Peek
  <2>1. entries \in Seq(Entries) /\ entries # <<>>
    BY <1>5 DEF Peek, QueueInv, QueueTypeOK
  <2>2. entries[1] \in Entries
    BY <2>1
  <2>3. entries[1].key \in Submissions
    BY <2>2 DEF Entries
  <2> QED
    BY <1>5, <2>3 DEF Peek
<1>6. CASE EntryGone
  BY <1>6 DEF EntryGone, TakeGone
<1>7. CASE Resume \/ NothingToRecord \/ HarnessAway
  BY <1>7 DEF Resume, NothingToRecord, HarnessAway, LoopAt
<1>8. CASE RecordDuel \/ Republish
  BY <1>8 DEF RecordDuel, Republish
<1>9. CASE WriteOutcome
  BY <1>9 DEF WriteOutcome
<1>10. CASE RecordFails
  BY <1>10, IntakeAssumption DEF RecordFails, LoopAt, Fault
<1> QED
  BY <1>1, <1>3, <1>4, <1>5, <1>6, <1>7, <1>8, <1>9, <1>10 DEF LoopMoves

(* What of the queue a change by the loop is, and that the loop publishes it. *)
LEMMA LoopChangeSteps ==
    ASSUME IntakeInv, LoopChanges
    PROVE  /\ \/ /\ loop.at = "peeked" /\ Remove(loop.key)
                 /\ duel' = duel /\ loop'.next = "idle"
              \/ /\ loop.at = "peeked" /\ Take(loop.key, EventOf(loop.key))
                 /\ duel' = "open" /\ loop'.next = "running"
              \/ /\ loop.at = "running" /\ duel = "open" /\ PutBack(None)
                 /\ duel' = duel /\ loop'.next = "idle"
              \/ /\ loop.at = "finishing" /\ duel # "recorded" /\ Finish
                 /\ duel' = "open" /\ loop'.next = "idle"
           /\ change' = change + 1 /\ own' = change + 1
           /\ loop' \in LoopStates /\ loop'.at = "publishing" /\ loop'.carried = loop.carried
           /\ pub' = [pub EXCEPT !["loop"].at = "asked"]
           /\ UNCHANGED <<served, intakeVars, stored, storeLock, publishing, mirrorVars>>
           /\ BoundsInv'
<1>0. TypeInv /\ BoundsInv
  BY DEF IntakeInv
<1>1. ASSUME NEW next \in {"idle", "running"}, Publishes(next)
      PROVE  /\ loop' \in LoopStates /\ loop'.at = "publishing" /\ loop'.carried = loop.carried
             /\ loop'.next = next
             /\ pub' = [pub EXCEPT !["loop"].at = "asked"]
  BY <1>0, <1>1 DEF TypeInv, LoopStates, Publishes, Asks
<1> USE <1>0 DEF boundVars, BoundsInv, Changes
<1>2. CASE DropHolder
  BY <1>1, <1>2 DEF DropHolder
<1>3. CASE TakeEntry
  BY <1>1, <1>3 DEF TakeEntry
<1>4. CASE FinishDuel
  BY <1>1, <1>4 DEF FinishDuel
<1>5. CASE CrownMoved
  BY <1>1, <1>5, IntakeAssumption DEF CrownMoved, Fault
<1> QED
  BY <1>2, <1>3, <1>4, <1>5 DEF LoopChanges

-----------------------------------------------------------------------------
(* Every step goes through the queue's operations, so its file keeps its shape. *)
LEMMA QueueSteps ==
    ASSUME IntakeInv, [Next]_vars
    PROVE  [QueueNext(EventIds, Nat)]_queueVars
<1>0. QueueInv /\ TypeInv /\ DuelInv
  BY DEF IntakeInv
<1>1. CASE ThreadStep
  BY <1>1, ThreadSteps
<1>2. CASE Queues
  BY <1>2 DEF Queues, SubmitNew, QueueNext
<1>3. CASE Writes
  BY <1>3 DEF Writes, PublisherStep, TakeSnapshot, WriteSnapshot, TouchSnapshot, LeaveSnapshot,
              SnapshotFails
<1>4. CASE StartDaemon
  BY <1>4 DEF StartDaemon
<1>5. CASE LoopMoves
  BY <1>5, LoopMoveSteps
<1>6. CASE DropHolder
  <2>1. loop.key \in Submissions /\ Remove(loop.key)
    BY <1>0, <1>6 DEF DropHolder, DuelInv
  <2> QED
    BY <2>1 DEF QueueNext
<1>7. CASE TakeEntry
  <2>1. loop.key \in Submissions /\ Take(loop.key, EventOf(loop.key))
    BY <1>0, <1>7 DEF TakeEntry, DuelInv
  <2>2. EventOf(loop.key) \in EventIds /\ EventOf(loop.key).challenger = loop.key
    BY <1>0, <2>1 DEF EventOf, EventIds, QueueInv, QueueTypeOK
  <2> QED
    BY <2>1, <2>2 DEF QueueNext
<1>8. CASE FinishDuel
  BY <1>8 DEF FinishDuel, QueueNext
<1>9. CASE CrownMoved
  BY <1>9 DEF CrownMoved, QueueNext
<1>10. CASE KillDaemon
  BY <1>10 DEF KillDaemon
<1>11. CASE Operates
  BY <1>11 DEF Operates, QueueAdd, QueueRemove, QueueNext
<1>12. CASE UNCHANGED vars
  BY <1>12 DEF vars
<1> QED
  BY <1>1, <1>2, <1>3, <1>4, <1>5, <1>6, <1>7, <1>8, <1>9, <1>10, <1>11, <1>12, StepKinds
  DEF LoopChanges

-----------------------------------------------------------------------------
(* What the other steps set, record by record. *)

(* A publisher's step: its own entry of pub alone. *)
PubBecomes(p, s) == pub' = [pub EXCEPT ![p] = s]

LEMMA AtBecomes ==
    ASSUME NEW r \in PubStates, NEW a
    PROVE  [r EXCEPT !.at = a] = [at |-> a, state |-> r.state]
  BY DEF PubStates

LEMMA SnapshotTaken ==
    ASSUME IntakeInv, NEW p \in Publishers, TakeSnapshot(p)
    PROVE  /\ pub[p].at = "asked" /\ PubBecomes(p, [at |-> "computed", state |-> change])
           /\ IF ByDaemon(p) THEN publishing = None /\ publishing' = p /\ storeLock' = storeLock
              ELSE storeLock = None /\ storeLock' = ProcessOf(p) /\ publishing' = publishing
           /\ UNCHANGED <<queueVars, change, own, served, intakeVars, stored, mirrorVars, loop, duel, boundVars>>
  BY DEF TakeSnapshot, MayPublish, PubBecomes

LEMMA SnapshotWritten ==
    ASSUME IntakeInv, NEW p \in Publishers, WriteSnapshot(p)
    PROVE  /\ pub[p].at = "computed" /\ PubBecomes(p, [at |-> "written", state |-> pub[p].state])
           /\ stored' = pub[p].state /\ behind' = behind \cup {"queue"}
           /\ UNCHANGED <<queueVars, change, own, served, intakeVars, storeLock, publishing, touched,
                          unpushed, loop, duel, boundVars>>
<1>1. pub[p] \in PubStates
  BY DEF IntakeInv, TypeInv
<1> QED
  BY <1>1, AtBecomes DEF WriteSnapshot, PubBecomes, intakeVars

(* A publisher that is done, or whose write failed: a thread goes to its       *)
(* answer and gives _lock back; the loop goes on.                              *)
LEMMA PublisherEnds ==
    ASSUME IntakeInv, NEW p \in Publishers,
           TouchSnapshot(p) \/ LeaveSnapshot(p) \/ SnapshotFails(p)
    PROVE  /\ pub[p].at # "none" /\ PubBecomes(p, NotPublishing)
           /\ IF Holds(p)
              THEN IF ByDaemon(p) THEN publishing' = None /\ storeLock' = storeLock
                   ELSE storeLock' = None /\ publishing' = publishing
              ELSE ~ByDaemon(p) /\ publishing' = publishing /\ storeLock' = storeLock
           /\ IF p \in Conns THEN conn' = [conn EXCEPT ![p] = "replying"] /\ intakeLock' = None
              ELSE UNCHANGED <<conn, intakeLock>>
           /\ IF p = "loop"
              THEN /\ loop' \in LoopStates /\ loop'.at \in {"idle", "draining"}
                   /\ loop'.at = "draining" => touched' = touched \cup {"queue"}
                   /\ loop'.at = "idle" => loop.at # "starting"
                   /\ loop'.next \in {loop.next, "idle"} /\ loop'.carried = loop.carried
              ELSE UNCHANGED loop
           /\ (pub[p].at = "written" /\ ByDaemon(p)) => touched' = touched \cup {"queue"}
           /\ (pub[p].at # "written" \/ ~ByDaemon(p)) => touched' = touched
           /\ own' = own \/ (own' = 0)
           /\ (ByDaemon(p) /\ pub[p].at # "written") => own' = 0
           /\ UNCHANGED <<queueVars, change, served, free, stored, behind, unpushed, duel>>
           /\ BoundsInv'
<1>0. TypeInv /\ BoundsInv
  BY DEF IntakeInv
<1>1. CASE TouchSnapshot(p)
  <2>1. p = "loop" => ByDaemon(p)
    BY DEF ByDaemon
  <2>2. p = "loop" => /\ loop' \in LoopStates /\ loop'.at = "draining" /\ loop'.next = loop.next
                      /\ loop'.carried = loop.carried
    BY <1>0, <1>1 DEF TypeInv, TouchSnapshot, LoopStates
  <2> QED
    BY <1>0, <1>1, <2>1, <2>2
    DEF TouchSnapshot, TouchedBy, Published, GoesOn, PubBecomes, Holds, boundVars, BoundsInv
<1>2. CASE LeaveSnapshot(p)
  <2>1. p # "loop"
    BY <1>2 DEF LeaveSnapshot, ByDaemon
  <2> QED
    BY <1>0, <1>2, <2>1
    DEF LeaveSnapshot, GoesOn, PubBecomes, Holds, boundVars, BoundsInv, mirrorVars
<1>3. CASE SnapshotFails(p)
  <2>1. p = "loop" => /\ loop' \in LoopStates /\ loop'.at = "idle" /\ loop'.next = "idle"
                      /\ loop.at # "starting"
                      /\ loop'.carried = loop.carried
    BY <1>0, <1>3 DEF TypeInv, SnapshotFails, LoopStates
  <2> QED
    BY <1>0, <1>3, <2>1, IntakeAssumption
    DEF SnapshotFails, Fault, Published, GoesOn, PubBecomes, Holds, BoundsInv, mirrorVars
<1> QED
  BY <1>1, <1>2, <1>3

LEMMA StartSets ==
    ASSUME IntakeInv, StartDaemon
    PROVE  /\ loop.at = "down" /\ loop' \in LoopStates
           /\ loop'.at = "starting" /\ loop'.next = "serving" /\ loop'.carried = {}
           /\ storeLock = None /\ storeLock' = "daemon"
           /\ pub["loop"] \in PubStates
           /\ PubBecomes("loop", [at |-> "asked", state |-> pub["loop"].state])
           /\ UNCHANGED <<queueVars, change, own, served, intakeVars, stored, publishing, mirrorVars,
                          duel, boundVars>>
<1>1. TypeInv
  BY DEF IntakeInv
<1>2. pub["loop"] \in PubStates
  BY <1>1 DEF TypeInv, Publishers
<1>3. loop' \in LoopStates /\ loop'.at = "starting" /\ loop'.next = "serving" /\ loop'.carried = {}
  BY DEF StartDaemon, LoopDown, LoopStates
<1> QED
  BY <1>2, <1>3, AtBecomes DEF StartDaemon, Asks, PubBecomes

LEMMA KillSets ==
    ASSUME IntakeInv, KillDaemon
    PROVE  /\ loop' \in LoopStates
           /\ loop'.at = "down" /\ loop'.next = "idle" /\ loop'.carried = {}
           /\ loop.at # "down"
           /\ storeLock' = None /\ publishing' = None /\ touched' = {} /\ own' = 0
           /\ pub' = [p \in Publishers |-> IF ByDaemon(p) THEN NotPublishing ELSE pub[p]]
           /\ IF served = "daemon"
              THEN conn' = [c \in Conns |-> "away"] /\ free' = MaxSlots /\ intakeLock' = None
              ELSE UNCHANGED <<conn, free, intakeLock>>
           /\ unpushed' \in BOOLEAN
           /\ (unpushed \/ ("duel" \in behind /\ duel # "recorded")) => unpushed'
           /\ UNCHANGED <<queueVars, change, served, stored, behind, duel>>
           /\ BoundsInv'
<1>0. TypeInv /\ BoundsInv
  BY DEF IntakeInv
<1>1. /\ loop' \in LoopStates
      /\ loop'.at = "down" /\ loop'.next = "idle" /\ loop'.carried = {}
  BY <1>0 DEF KillDaemon, LoopDown, LoopStates
<1>2. /\ unpushed' \in BOOLEAN
      /\ (unpushed \/ ("duel" \in behind /\ duel # "recorded")) => unpushed'
  <2>1. unpushed' = (unpushed \/ ("duel" \in behind /\ duel # "recorded"))
    BY DEF KillDaemon
  <2>2. unpushed \in BOOLEAN
    BY <1>0 DEF TypeInv
  <2> QED
    BY <2>1, <2>2
<1> QED
  BY <1>0, <1>1, <1>2, IntakeAssumption DEF KillDaemon, Fault, BoundsInv

LEMMA QueuedBy ==
    ASSUME IntakeInv, NEW c \in Conns, NEW k \in Submissions, NEW z \in Sizes, SubmitNew(c, k, z)
    PROVE  /\ conn[c] = "resolved" /\ conn' = [conn EXCEPT ![c] = "publishing"]
           /\ intakeLock = None /\ intakeLock' = c
           /\ change' = change + 1
           /\ own' = IF served = "daemon" THEN change + 1 ELSE own
           /\ pub[c] \in PubStates
           /\ PubBecomes(c, [at |-> "asked", state |-> pub[c].state])
           /\ inProgress' = inProgress
           /\ UNCHANGED <<served, free, stored, storeLock, publishing, mirrorVars, loop, duel,
                          boundVars>>
<1>1. pub[c] \in PubStates
  BY DEF IntakeInv, TypeInv, Publishers
<1> QED
  BY <1>1, AtBecomes DEF SubmitNew, Offer, Asks, PubBecomes

LEMMA OperatorSets ==
    ASSUME IntakeInv, Operates
    PROVE  /\ pub["cli"].at = "none" /\ pub["cli"] \in PubStates
           /\ PubBecomes("cli", [at |-> "asked", state |-> pub["cli"].state]) \/ UNCHANGED pub
           /\ change' = change + 1
           /\ inProgress' = inProgress
           /\ UNCHANGED <<own, served, intakeVars, stored, storeLock, publishing, mirrorVars, loop, duel>>
           /\ BoundsInv'
<1>1. pub["cli"] \in PubStates
  BY DEF IntakeInv, TypeInv, Publishers
<1>2. OperatorChanges /\ inProgress' = inProgress
  BY DEF Operates, QueueAdd, QueueRemove, Add, Remove
<1>3. BoundsInv
  BY DEF IntakeInv
<1>4. PubBecomes("cli", [at |-> "asked", state |-> pub["cli"].state]) \/ UNCHANGED pub
  BY <1>1, <1>2, AtBecomes DEF OperatorChanges, Asks, PubBecomes
<1>5. BoundsInv'
  BY <1>2, <1>3, IntakeAssumption DEF OperatorChanges, BoundsInv
<1> QED
  BY <1>1, <1>2, <1>4, <1>5 DEF OperatorChanges

-----------------------------------------------------------------------------
(* One entry of pub, and the others. *)
LEMMA OnePublisher ==
    ASSUME TypeInv, NEW p \in Publishers, NEW s \in PubStates, PubBecomes(p, s)
    PROVE  /\ pub' \in [Publishers -> PubStates]
           /\ pub'[p] = s
           /\ \A q \in Publishers : q # p => pub'[q] = pub[q]
  BY DEF TypeInv, PubBecomes

LEMMA PubStatesAre ==
    /\ NotPublishing \in PubStates /\ NotPublishing.at = "none"
    /\ \A a \in {"none", "asked", "computed", "written"}, n \in Nat :
          /\ [at |-> a, state |-> n] \in PubStates
          /\ [at |-> a, state |-> n].at = a /\ [at |-> a, state |-> n].state = n
    /\ \A r \in PubStates : r.state \in Nat
  BY DEF PubStates, NotPublishing

LEMMA PublisherAt ==
    ASSUME TypeInv, NEW p \in Publishers, NEW a \in {"none", "asked", "computed", "written"},
           NEW n \in Nat, PubBecomes(p, [at |-> a, state |-> n])
    PROVE  /\ pub'[p].at = a /\ pub'[p].state = n
           /\ \A q \in Publishers : q # p => pub'[q] = pub[q]
<1>1. PICK s \in PubStates : s = [at |-> a, state |-> n]
  BY PubStatesAre
<1> QED
  BY <1>1, OnePublisher

(* Who publishes: neither the loop nor the command line is a connection. *)
LEMMA PublishersAre ==
    /\ "loop" \in Publishers /\ "cli" \in Publishers /\ "loop" # "cli"
    /\ "loop" \notin Conns /\ "cli" \notin Conns
    /\ \A c \in Conns : c \in Publishers /\ c # None
    /\ "loop" # None /\ "cli" # None /\ "daemon" # None /\ "apart" # None
    /\ ByDaemon("loop") /\ ~ByDaemon("cli") /\ ProcessOf("cli") = "cli"
    /\ TypeInv => \A c \in Conns : /\ ByDaemon(c) <=> served = "daemon"
                                   /\ ~ByDaemon(c) => ProcessOf(c) = "apart"
  BY IntakeAssumption DEF Publishers, ByDaemon, ProcessOf

LEMMA TypeStep ==
    ASSUME IntakeInv, [Next]_vars
    PROVE  TypeInv' /\ BoundsInv'
<1>0. TypeInv /\ BoundsInv /\ SnapshotsInv
  BY DEF IntakeInv
<1> USE <1>0, PublishersAre DEF TypeInv, intakeVars, showVars, mirrorVars, boundVars, BoundsInv
<1>1. CASE ThreadStep
  BY <1>1, ThreadSteps
<1>2. CASE Queues
  <2>1. PICK c \in Conns, k \in Submissions, z \in Sizes : SubmitNew(c, k, z)
    BY <1>2 DEF Queues
  <2>2. pub' \in [Publishers -> PubStates]
    BY <2>1, QueuedBy, OnePublisher, PubStatesAre
  <2>3. conn' \in [Conns -> ConnStates]
    BY <2>1, QueuedBy DEF ConnStates
  <2>4. change' \in Nat /\ own' \in Nat
    <3>1. change' = change + 1 /\ (own' = change + 1 \/ own' = own)
      BY <2>1, QueuedBy
    <3> QED
      BY <3>1
  <2>5. /\ intakeLock' = c
        /\ UNCHANGED <<served, free, stored, storeLock, publishing, mirrorVars, loop, duel, boundVars>>
    BY <2>1, QueuedBy
  <2> QED
    BY <2>2, <2>3, <2>4, <2>5
<1>3. CASE Writes
  <2>1. PICK p \in Publishers : PublisherStep(p) \/ SnapshotFails(p)
    BY <1>3 DEF Writes
  <2>2. CASE TakeSnapshot(p)
    <3>1. pub' \in [Publishers -> PubStates]
      BY <2>2, SnapshotTaken, OnePublisher, PubStatesAre
    <3>2. ~ByDaemon(p) => ProcessOf(p) \in {"apart", "cli"}
      BY DEF ProcessOf
    <3> QED
      BY <2>2, <3>1, <3>2, SnapshotTaken
  <2>3. CASE WriteSnapshot(p)
    <3>1. pub' \in [Publishers -> PubStates] /\ pub[p].state \in Nat
      BY <2>3, SnapshotWritten, OnePublisher, PubStatesAre
    <3> QED
      BY <2>3, <3>1, SnapshotWritten DEF Files
  <2>4. CASE TouchSnapshot(p) \/ LeaveSnapshot(p) \/ SnapshotFails(p)
    <3>1. pub' \in [Publishers -> PubStates]
      BY <2>4, PublisherEnds, OnePublisher, PubStatesAre
    <3>2. touched' \subseteq Files
      <4>1. touched' = touched \/ touched' = touched \cup {"queue"}
        BY <2>4, PublisherEnds
      <4> QED
        BY <4>1 DEF Files
    <3>3. conn' \in [Conns -> ConnStates]
      BY <2>4, PublisherEnds DEF ConnStates
    <3>4. loop' \in LoopStates
      BY <2>4, PublisherEnds
    <3> QED
      BY <2>4, <3>1, <3>2, <3>3, <3>4, PublisherEnds
  <2> QED
    BY <2>1, <2>2, <2>3, <2>4 DEF PublisherStep
<1>4. CASE StartDaemon
  <2>1. pub' \in [Publishers -> PubStates]
    BY <1>4, StartSets, OnePublisher, PubStatesAre
  <2> QED
    BY <1>4, <2>1, StartSets
<1>5. CASE LoopMoves
  BY <1>5, LoopMoveSteps
<1>6. CASE LoopChanges
  <2>1. pub' \in [Publishers -> PubStates]
    BY <1>6, LoopChangeSteps DEF PubStates
  <2>2. duel' \in {"open", "recorded", "decided"}
    BY <1>6, LoopChangeSteps
  <2> QED
    BY <1>6, <2>1, <2>2, LoopChangeSteps
<1>7. CASE KillDaemon
  <2>1. pub' \in [Publishers -> PubStates]
    BY <1>7, KillSets, PubStatesAre
  <2>2. conn' \in [Conns -> ConnStates]
    BY <1>7, KillSets DEF ConnStates
  <2> QED
    BY <1>7, <2>1, <2>2, KillSets, IntakeAssumption
<1>8. CASE Operates
  <2>1. pub' \in [Publishers -> PubStates]
    BY <1>8, OperatorSets, OnePublisher, PubStatesAre
  <2> QED
    BY <1>8, <2>1, OperatorSets
<1>9. CASE UNCHANGED vars
  BY <1>9 DEF vars
<1> QED
  BY <1>1, <1>2, <1>3, <1>4, <1>5, <1>6, <1>7, <1>8, <1>9, StepKinds

(* The daemon's threads publish only while it runs. *)
LEMMA DaemonPublishes ==
    ASSUME TypeInv, LocksInv, NEW p \in Publishers, ByDaemon(p), pub[p].at # "none"
    PROVE  loop.at # "down"
  BY PublishersAre DEF LocksInv, LoopPublishes, ThreadLocks, Publishers

(* daemon.py and locks.py: of all the threads and processes that publish the    *)
(* track's queue, one at a time is between its snapshot and the file's write.   *)
LEMMA OneHolds ==
    ASSUME TypeInv, LocksInv, NEW p \in Publishers, NEW q \in Publishers, Holds(p), Holds(q)
    PROVE  p = q
<1> USE PublishersAre DEF LocksInv
<1>1. CASE ByDaemon(p) /\ ByDaemon(q)
  BY <1>1 DEF DaemonLocks
<1>2. CASE ~ByDaemon(p) /\ ~ByDaemon(q)
  <2>1. storeLock = ProcessOf(p) /\ storeLock = ProcessOf(q)
    BY <1>2 DEF OtherLocks
  <2>2. CASE storeLock = "cli"
    BY <1>2, <2>1, <2>2 DEF Publishers
  <2>3. CASE storeLock # "cli"
    <3>1. p \in Conns /\ q \in Conns
      BY <1>2, <2>1, <2>3 DEF Publishers
    <3> QED
      BY <3>1 DEF ThreadLocks, Holds
  <2> QED
    BY <2>2, <2>3
<1>3. ASSUME NEW d \in Publishers, NEW o \in Publishers, Holds(d), Holds(o), ByDaemon(d), ~ByDaemon(o)
      PROVE  FALSE
  <2>1. storeLock = "daemon"
    BY <1>3, DaemonPublishes DEF Holds, DaemonLocks
  <2>2. ProcessOf(o) # "daemon"
    BY <1>3 DEF ProcessOf
  <2> QED
    BY <1>3, <2>1, <2>2 DEF OtherLocks
<1> QED
  BY <1>1, <1>2, <1>3

(* Who holds which lock, after a step of a publisher. *)
LEMMA PublisherKeepsLocks ==
    ASSUME IntakeInv, NEW p \in Publishers, PublisherStep(p) \/ SnapshotFails(p)
    PROVE  LocksInv'
<1>0. TypeInv /\ LocksInv
  BY DEF IntakeInv
<1> USE <1>0, PublishersAre DEF LocksInv
<1>1. \A q : ByDaemon(q)' <=> ByDaemon(q)
  BY DEF ByDaemon, PublisherStep, TakeSnapshot, WriteSnapshot, TouchSnapshot, LeaveSnapshot,
         SnapshotFails
<1>2. \A q : ProcessOf(q)' = ProcessOf(q)
  BY <1>1 DEF ProcessOf
<1>3. CASE TakeSnapshot(p)
  <2>1. /\ pub[p].at = "asked"
        /\ IF ByDaemon(p) THEN publishing = None /\ publishing' = p /\ storeLock' = storeLock
           ELSE storeLock = None /\ storeLock' = ProcessOf(p) /\ publishing' = publishing
        /\ UNCHANGED <<served, intakeVars, loop>>
    BY <1>3, SnapshotTaken
  <2>2. /\ pub'[p].at = "computed"
        /\ \A q \in Publishers : q # p => pub'[q] = pub[q]
    BY <1>3, SnapshotTaken, OnePublisher, PubStatesAre DEF TypeInv
  <2>3. DaemonLocks'
    <3>1. (storeLock' = "daemon") <=> (loop'.at # "down")
      BY <2>1 DEF DaemonLocks, ProcessOf
    <3>2. \A q \in Publishers : ByDaemon(q) => (Holds(q)' <=> publishing' = q)
      BY <2>1, <2>2, PublishersAre DEF DaemonLocks, Holds, Publishers
    <3>3. publishing' # None => ByDaemon(publishing')
      BY <2>1 DEF DaemonLocks
    <3> QED
      BY <1>1, <3>1, <3>2, <3>3, <2>1 DEF DaemonLocks, ByDaemon
  <2>4. OtherLocks'
    <3>1. \A q \in Publishers : (~ByDaemon(q) /\ Holds(q)') => storeLock' = ProcessOf(q)
      BY <2>1, <2>2 DEF OtherLocks, Holds, ProcessOf, Publishers, ThreadLocks
    <3>2. storeLock' = "apart" => (intakeLock' # None /\ Holds(intakeLock)')
      <4>1. SUFFICES ASSUME storeLock' = "apart"
                     PROVE  intakeLock # None /\ Holds(intakeLock)'
        BY <2>1 DEF intakeVars
      <4>2. CASE ByDaemon(p)
        <5>1. intakeLock # None /\ Holds(intakeLock)
          BY <2>1, <4>1, <4>2 DEF OtherLocks
        <5>2. intakeLock # p /\ intakeLock \in Publishers
          BY <2>1, <5>1 DEF Holds, TypeInv
        <5> QED
          BY <2>1, <2>2, <5>1, <5>2 DEF Holds, intakeVars
      <4>3. CASE ~ByDaemon(p)
        <5>1. p \in Conns
          BY <2>1, <4>1, <4>3 DEF Publishers
        <5>2. intakeLock = p
          BY <2>1, <5>1 DEF ThreadLocks
        <5> QED
          BY <2>1, <2>2, <5>1, <5>2 DEF Holds, intakeVars
      <4> QED
        BY <4>2, <4>3
    <3>3. storeLock' = "cli" => Holds("cli")'
      BY <2>1, <2>2 DEF OtherLocks, Holds, ProcessOf, Publishers
    <3> QED
      BY <1>1, <1>2, <3>1, <3>2, <3>3 DEF OtherLocks
  <2>5. ThreadLocks' /\ LoopPublishes'
    BY <2>1, <2>2 DEF ThreadLocks, LoopPublishes, intakeVars
  <2> QED
    BY <2>3, <2>4, <2>5
<1>4. CASE WriteSnapshot(p)
  <2>1. /\ pub[p].at = "computed"
        /\ UNCHANGED <<served, intakeVars, loop, storeLock, publishing>>
    BY <1>4, SnapshotWritten
  <2>2. /\ pub'[p].at = "written"
        /\ \A q \in Publishers : q # p => pub'[q] = pub[q]
    <3>1. pub[p].state \in Nat
      BY PubStatesAre DEF TypeInv
    <3> QED
      BY <1>4, <3>1, SnapshotWritten, PublisherAt
  <2>3. \A q \in Publishers : Holds(q)' <=> Holds(q)
    BY <2>1, <2>2 DEF Holds
  <2>4. \A q \in Publishers : (pub'[q].at # "none") <=> (pub[q].at # "none")
    BY <2>1, <2>2
  <2>5. DaemonLocks'
    BY <1>1, <2>1, <2>3 DEF DaemonLocks, ByDaemon
  <2>6. OtherLocks'
    <3>1. intakeLock # None => (Holds(intakeLock)' <=> Holds(intakeLock))
      BY <2>1, <2>3 DEF TypeInv, Holds, intakeVars
    <3> QED
      BY <1>1, <1>2, <2>1, <2>3, <3>1 DEF OtherLocks, intakeVars
  <2>7. ThreadLocks' /\ LoopPublishes'
    BY <2>1, <2>4 DEF ThreadLocks, LoopPublishes, intakeVars
  <2> QED
    BY <2>5, <2>6, <2>7
<1>5. CASE TouchSnapshot(p) \/ LeaveSnapshot(p) \/ SnapshotFails(p)
  <2>1. /\ pub[p].at # "none"
        /\ IF Holds(p)
           THEN IF ByDaemon(p) THEN publishing' = None /\ storeLock' = storeLock
                ELSE storeLock' = None /\ publishing' = publishing
           ELSE ~ByDaemon(p) /\ publishing' = publishing /\ storeLock' = storeLock
        /\ IF p \in Conns THEN conn' = [conn EXCEPT ![p] = "replying"] /\ intakeLock' = None
           ELSE UNCHANGED <<conn, intakeLock>>
        /\ IF p = "loop" THEN loop'.at \in {"idle", "draining"} ELSE UNCHANGED loop
        /\ UNCHANGED served
    BY <1>5, PublisherEnds
  <2>2. /\ pub'[p].at = "none"
        /\ \A q \in Publishers : q # p => pub'[q] = pub[q]
    BY <1>5, PublisherEnds, OnePublisher, PubStatesAre DEF TypeInv
  <2>3. (loop'.at # "down") <=> (loop.at # "down")
    BY <2>1 DEF LoopPublishes
  <2>4. DaemonLocks'
    <3>1. (storeLock' = "daemon") <=> (loop'.at # "down")
      BY <2>1, <2>3 DEF DaemonLocks, OtherLocks, ProcessOf
    <3>2. \A q \in Publishers : ByDaemon(q) => (Holds(q)' <=> publishing' = q)
      BY <2>1, <2>2, PublishersAre DEF DaemonLocks, Holds, Publishers
    <3>3. publishing' # None => ByDaemon(publishing')
      BY <2>1 DEF DaemonLocks
    <3> QED
      BY <1>1, <3>1, <3>2, <3>3, <2>1 DEF DaemonLocks, ByDaemon
  <2>5. p \in Conns => intakeLock = p
    BY <2>1 DEF ThreadLocks
  <2>6. OtherLocks'
    <3>1. \A q \in Publishers : (~ByDaemon(q) /\ Holds(q)') => storeLock' = ProcessOf(q)
      <4>1. SUFFICES ASSUME NEW q \in Publishers, ~ByDaemon(q), Holds(q)'
                     PROVE  storeLock' = ProcessOf(q)
        OBVIOUS
      <4>2. q # p /\ Holds(q) /\ storeLock = ProcessOf(q)
        BY <2>2, <4>1 DEF Holds, OtherLocks
      <4>3. ~(Holds(p) /\ ~ByDaemon(p))
        BY <4>2, OneHolds
      <4> QED
        BY <2>1, <4>2, <4>3
    <3>2. storeLock' = "apart" => (intakeLock' # None /\ Holds(intakeLock)')
      <4>1. SUFFICES ASSUME storeLock' = "apart"
                     PROVE  intakeLock' # None /\ Holds(intakeLock)'
        OBVIOUS
      <4>2. storeLock = "apart" /\ intakeLock # None /\ Holds(intakeLock)
        BY <2>1, <4>1 DEF OtherLocks
      <4>3. served = "apart"
        BY <4>2, PublishersAre DEF TypeInv, DaemonLocks, LoopPublishes, ThreadLocks
      <4>4. p \notin Conns
        BY <2>1, <2>5, <4>1, <4>2, <4>3
      <4> QED
        BY <2>1, <2>2, <4>2, <4>4 DEF TypeInv, Holds
    <3>3. storeLock' = "cli" => Holds("cli")'
      <4>1. SUFFICES ASSUME storeLock' = "cli"
                     PROVE  Holds("cli")'
        OBVIOUS
      <4>2. storeLock = "cli" /\ Holds("cli")
        BY <2>1, <4>1 DEF OtherLocks
      <4>3. p # "cli"
        BY <2>1, <4>1, <4>2
      <4> QED
        BY <2>2, <4>2, <4>3 DEF Holds
    <3> QED
      BY <1>1, <1>2, <3>1, <3>2, <3>3 DEF OtherLocks
  <2>7. ThreadLocks'
    <3>1. \A c \in Conns : conn'[c] = IF c = p THEN "replying" ELSE conn[c]
      BY <2>1 DEF TypeInv
    <3> QED
      BY <2>1, <2>2, <2>5, <3>1 DEF ThreadLocks
  <2>8. LoopPublishes'
    <3>1. (pub'["loop"].at # "none") <=> (loop'.at \in {"starting", "publishing"})
      BY <2>1, <2>2 DEF LoopPublishes
    <3>2. ~(p \in Conns /\ loop.at = "down" /\ served = "daemon")
      BY <2>5 DEF LoopPublishes, ThreadLocks
    <3>3. p \notin Conns => conn' = conn
      BY <2>1
    <3> QED
      BY <2>1, <2>3, <3>1, <3>2, <3>3 DEF LoopPublishes
  <2> QED
    BY <2>4, <2>6, <2>7, <2>8
<1> QED
  BY <1>3, <1>4, <1>5 DEF PublisherStep

LEMMA LocksStep ==
    ASSUME IntakeInv, [Next]_vars
    PROVE  LocksInv'
<1>0. TypeInv /\ LocksInv
  BY DEF IntakeInv
<1> USE <1>0, PublishersAre DEF LocksInv
<1>1. ASSUME UNCHANGED <<served, showVars>>,
             UNCHANGED <<intakeLock, loop>>,
             conn' \in [Conns -> ConnStates],
             \A c \in Conns : (conn'[c] = "publishing") <=> (conn[c] = "publishing"),
             (loop.at = "down" /\ served = "daemon") => conn' = conn
      PROVE  LocksInv'
  BY <1>1 DEF DaemonLocks, OtherLocks, ThreadLocks, LoopPublishes, Holds, ByDaemon, ProcessOf,
              showVars
<1>2. CASE ThreadStep
  BY <1>1, <1>2, ThreadSteps
<1>3. CASE Queues
  <2>1. PICK c \in Conns, k \in Submissions, z \in Sizes : SubmitNew(c, k, z)
    BY <1>3 DEF Queues
  <2>2. /\ conn[c] = "resolved" /\ conn' = [conn EXCEPT ![c] = "publishing"]
        /\ intakeLock = None /\ intakeLock' = c
        /\ UNCHANGED <<served, storeLock, publishing, loop>>
    BY <2>1, QueuedBy
  <2>3. /\ pub'[c].at = "asked"
        /\ \A q \in Publishers : q # c => pub'[q] = pub[q]
    <3>1. pub[c].state \in Nat /\ PubBecomes(c, [at |-> "asked", state |-> pub[c].state])
      BY <2>1, QueuedBy, PubStatesAre
    <3> QED
      BY <3>1, PublisherAt
  <2>4. pub[c].at = "none"
    BY <2>2 DEF ThreadLocks
  <2>5. \A q \in Publishers : Holds(q)' <=> Holds(q)
    BY <2>3, <2>4 DEF Holds
  <2>6. DaemonLocks'
    BY <2>2, <2>5 DEF DaemonLocks, ByDaemon
  <2>7. OtherLocks'
    <3>1. storeLock # "apart"
      BY <2>2 DEF OtherLocks
    <3> QED
      BY <2>2, <2>5, <3>1 DEF OtherLocks, ByDaemon, ProcessOf
  <2>8. ThreadLocks'
    BY <2>2, <2>3 DEF ThreadLocks, TypeInv
  <2>9. LoopPublishes'
    BY <2>2, <2>3 DEF LoopPublishes
  <2> QED
    BY <2>6, <2>7, <2>8, <2>9
<1>4. CASE Writes
  BY <1>4, PublisherKeepsLocks DEF Writes
<1>5. CASE StartDaemon
  <2>1. /\ loop.at = "down" /\ loop'.at = "starting"
        /\ storeLock = None /\ storeLock' = "daemon"
        /\ UNCHANGED <<served, intakeVars, publishing>>
    BY <1>5, StartSets
  <2>2. /\ pub'["loop"].at = "asked"
        /\ \A q \in Publishers : q # "loop" => pub'[q] = pub[q]
    BY <1>5, StartSets, OnePublisher, PubStatesAre
  <2>3. \A q \in Publishers : Holds(q)' <=> Holds(q)
    BY <2>1, <2>2 DEF Holds, LoopPublishes
  <2>4. \A q \in Publishers : ~ByDaemon(q) => ~Holds(q)
    BY <2>1 DEF OtherLocks, ProcessOf, Publishers
  <2>5. DaemonLocks'
    BY <2>1, <2>3 DEF DaemonLocks, ByDaemon
  <2>6. OtherLocks'
    BY <2>1, <2>3, <2>4 DEF OtherLocks, ByDaemon
  <2>7. ThreadLocks'
    BY <2>1, <2>2 DEF ThreadLocks, intakeVars
  <2>8. LoopPublishes'
    BY <2>1, <2>2 DEF LoopPublishes
  <2> QED
    BY <2>5, <2>6, <2>7, <2>8
<1>6. CASE LoopMoves
  <2>1. /\ loop.at \notin {"down", "starting", "publishing"}
        /\ loop'.at \notin {"down", "starting", "publishing"}
        /\ UNCHANGED <<served, intakeVars, showVars>>
    BY <1>6, LoopMoveSteps
  <2> QED
    BY <2>1
    DEF DaemonLocks, OtherLocks, ThreadLocks, LoopPublishes, Holds, ByDaemon, ProcessOf, showVars,
        intakeVars
<1>7. CASE LoopChanges
  <2>1. /\ loop.at \in {"peeked", "running", "finishing"} /\ loop'.at = "publishing"
        /\ pub' = [pub EXCEPT !["loop"].at = "asked"]
        /\ UNCHANGED <<served, intakeVars, storeLock, publishing>>
    BY <1>7, LoopChangeSteps
  <2>2. /\ pub'["loop"].at = "asked"
        /\ \A q \in Publishers : q # "loop" => pub'[q] = pub[q]
    BY <2>1 DEF TypeInv, PubStates
  <2>3. \A q \in Publishers : Holds(q)' <=> Holds(q)
    BY <2>1, <2>2 DEF Holds, LoopPublishes
  <2>4. DaemonLocks'
    BY <2>1, <2>3 DEF DaemonLocks, ByDaemon
  <2>5. OtherLocks'
    <3>1. storeLock = "daemon"
      BY <2>1 DEF DaemonLocks
    <3> QED
      BY <2>1, <2>3, <3>1 DEF OtherLocks, ByDaemon, ProcessOf
  <2>6. ThreadLocks'
    BY <2>1, <2>2 DEF ThreadLocks, intakeVars
  <2>7. LoopPublishes'
    BY <2>1, <2>2 DEF LoopPublishes
  <2> QED
    BY <2>4, <2>5, <2>6, <2>7
<1>8. CASE KillDaemon
  <2>1. /\ loop.at # "down" /\ loop'.at = "down"
        /\ storeLock' = None /\ publishing' = None
        /\ pub' = [p \in Publishers |-> IF ByDaemon(p) THEN NotPublishing ELSE pub[p]]
        /\ IF served = "daemon"
           THEN conn' = [c \in Conns |-> "away"] /\ intakeLock' = None
           ELSE UNCHANGED <<conn, intakeLock>>
        /\ served' = served
    BY <1>8, KillSets
  <2>2. \A q \in Publishers : pub'[q].at = IF ByDaemon(q) THEN "none" ELSE pub[q].at
    BY <2>1, PubStatesAre
  <2>3. \A q \in Publishers : ~Holds(q)'
    <3>1. storeLock = "daemon"
      BY <2>1 DEF DaemonLocks
    <3> QED
      BY <2>2, <3>1 DEF OtherLocks, ProcessOf, Holds
  <2>4. DaemonLocks'
    BY <2>1, <2>3, PublishersAre DEF DaemonLocks, Publishers
  <2>5. OtherLocks'
    BY <2>1, <2>3 DEF OtherLocks
  <2>6. ThreadLocks'
    <3>1. CASE served = "daemon"
      BY <2>1, <2>2, <3>1 DEF ThreadLocks
    <3>2. CASE served # "daemon"
      BY <2>1, <2>2, <3>2 DEF ThreadLocks
    <3> QED
      BY <3>1, <3>2
  <2>7. LoopPublishes'
    BY <2>1, <2>2 DEF LoopPublishes
  <2> QED
    BY <2>4, <2>5, <2>6, <2>7
<1>9. CASE Operates
  <2>1. /\ pub["cli"].at = "none"
        /\ UNCHANGED <<served, intakeVars, storeLock, publishing, loop>>
    BY <1>9, OperatorSets
  <2>2. /\ pub'["cli"].at \in {"none", "asked"}
        /\ \A q \in Publishers : q # "cli" => pub'[q] = pub[q]
    BY <1>9, <2>1, OperatorSets, OnePublisher, PubStatesAre
  <2>3. \A q \in Publishers : Holds(q)' <=> Holds(q)
    BY <2>1, <2>2 DEF Holds
  <2>4. DaemonLocks'
    BY <2>1, <2>3 DEF DaemonLocks, ByDaemon
  <2>5. OtherLocks'
    <3>1. storeLock = "apart" => intakeLock # "cli" /\ intakeLock \in Publishers
      BY DEF OtherLocks, TypeInv
    <3> QED
      BY <2>1, <2>3, <3>1 DEF OtherLocks, ByDaemon, ProcessOf, intakeVars
  <2>6. ThreadLocks'
    BY <2>1, <2>2 DEF ThreadLocks, intakeVars
  <2>7. LoopPublishes'
    BY <2>1, <2>2 DEF LoopPublishes, intakeVars
  <2> QED
    BY <2>4, <2>5, <2>6, <2>7
<1>10. CASE UNCHANGED vars
  BY <1>10 DEF vars, DaemonLocks, OtherLocks, ThreadLocks, LoopPublishes, Holds, ByDaemon,
               ProcessOf,
               showVars, intakeVars
<1> QED
  BY <1>2, <1>3, <1>4, <1>5, <1>6, <1>7, <1>8, <1>9, <1>10, StepKinds

-----------------------------------------------------------------------------
(* No snapshot about to be written is older than what it replaces, and what the *)
(* daemon's process changed is shown, or about to be.                           *)
LEMMA SnapshotsStep ==
    ASSUME IntakeInv, [Next]_vars
    PROVE  SnapshotsInv' /\ stored <= stored'
<1>0. TypeInv /\ LocksInv /\ SnapshotsInv /\ TypeInv'
  BY TypeStep DEF IntakeInv
<1>s. /\ change \in Nat /\ own \in Nat /\ stored \in Nat
      /\ change' \in Nat /\ own' \in Nat /\ stored' \in Nat
      /\ \A p \in Publishers : pub[p] \in PubStates /\ pub[p].state \in Nat
  BY <1>0, PubStatesAre DEF TypeInv
<1> USE <1>0, <1>s, PublishersAre
<1>1. ASSUME UNCHANGED <<change, own, served, stored, pub>>
      PROVE  SnapshotsInv' /\ stored <= stored'
  BY <1>1 DEF SnapshotsInv, YetToShow, ByDaemon
<1>2. CASE ThreadStep
  BY <1>1, <1>2, ThreadSteps DEF showVars
<1>3. CASE Queues
  <2>1. PICK c \in Conns, k \in Submissions, z \in Sizes : SubmitNew(c, k, z)
    BY <1>3 DEF Queues
  <2>2. /\ conn[c] = "resolved"
        /\ change' = change + 1
        /\ own' = IF served = "daemon" THEN change + 1 ELSE own
        /\ UNCHANGED <<served, stored>>
    BY <2>1, QueuedBy
  <2>3. /\ pub'[c].at = "asked"
        /\ \A q \in Publishers : q # c => pub'[q] = pub[q]
    BY <2>1, QueuedBy, PublisherAt
  <2>4. pub[c].at = "none"
    BY <2>2 DEF LocksInv, ThreadLocks
  <2>5. \A p \in Publishers :
           pub'[p].at = "computed" => (stored' <= pub'[p].state /\ pub'[p].state <= change')
    BY <2>2, <2>3 DEF SnapshotsInv
  <2>6. own' <= stored' \/ \E p \in Publishers : YetToShow(p)'
    <3>1. CASE served = "daemon"
      BY <2>2, <2>3, <3>1 DEF YetToShow, ByDaemon
    <3>2. CASE served # "daemon"
      <4>1. CASE own <= stored
        BY <2>2, <3>2, <4>1
      <4>2. ASSUME NEW q \in Publishers, YetToShow(q)
            PROVE  YetToShow(q)'
        BY <2>2, <2>3, <2>4, <3>2, <4>2 DEF YetToShow, ByDaemon
      <4> QED
        BY <4>1, <4>2 DEF SnapshotsInv
    <3> QED
      BY <3>1, <3>2
  <2>7. stored' <= change' /\ own' <= change' /\ stored' = stored
    BY <2>2 DEF SnapshotsInv
  <2> QED
    BY <2>5, <2>6, <2>7 DEF SnapshotsInv
<1>4. CASE Writes
  <2>1. PICK p \in Publishers : PublisherStep(p) \/ SnapshotFails(p)
    BY <1>4 DEF Writes
  <2>2. CASE TakeSnapshot(p)
    <3>1. pub[p].at = "asked" /\ UNCHANGED <<change, own, served, stored>>
      BY <2>2, SnapshotTaken
    <3>2. /\ pub'[p].at = "computed" /\ pub'[p].state = change
          /\ \A q \in Publishers : q # p => pub'[q] = pub[q]
      BY <2>2, SnapshotTaken, PublisherAt
    <3>3. \A q \in Publishers :
             pub'[q].at = "computed" => (stored' <= pub'[q].state /\ pub'[q].state <= change')
      BY <3>1, <3>2 DEF SnapshotsInv
    <3>4. ASSUME NEW q \in Publishers, YetToShow(q)
          PROVE  YetToShow(q)'
      BY <3>1, <3>2, <3>4 DEF YetToShow, ByDaemon, SnapshotsInv
    <3> QED
      BY <3>1, <3>3, <3>4 DEF SnapshotsInv
  <2>3. CASE WriteSnapshot(p)
    <3>1. /\ pub[p].at = "computed" /\ stored' = pub[p].state
          /\ UNCHANGED <<change, own, served>>
      BY <2>3, SnapshotWritten
    <3>2. /\ pub'[p].at = "written"
          /\ \A q \in Publishers : q # p => pub'[q] = pub[q]
      BY <2>3, SnapshotWritten, PublisherAt
    <3>3. stored <= stored' /\ stored' <= change
      BY <3>1 DEF SnapshotsInv
    <3>4. \A q \in Publishers : pub'[q].at # "computed"
      <4>1. SUFFICES ASSUME NEW q \in Publishers, pub'[q].at = "computed"
                     PROVE  FALSE
        OBVIOUS
      <4>2. q # p /\ Holds(q) /\ Holds(p)
        BY <3>1, <3>2, <4>1 DEF Holds
      <4> QED
        BY <4>2, OneHolds
    <3>5. own' <= stored' \/ \E q \in Publishers : YetToShow(q)'
      <4>1. CASE own <= stored
        BY <3>1, <3>3, <4>1
      <4>2. ASSUME NEW q \in Publishers, YetToShow(q)
            PROVE  own' <= stored' \/ YetToShow(q)'
        BY <3>1, <3>2, <4>2 DEF YetToShow, ByDaemon
      <4> QED
        BY <4>1, <4>2 DEF SnapshotsInv
    <3> QED
      BY <3>1, <3>3, <3>4, <3>5 DEF SnapshotsInv
  <2>4. CASE TouchSnapshot(p) \/ LeaveSnapshot(p) \/ SnapshotFails(p)
    <3>1. /\ own' = own \/ own' = 0
          /\ (ByDaemon(p) /\ pub[p].at # "written") => own' = 0
          /\ UNCHANGED <<change, served, stored>>
      BY <2>4, PublisherEnds
    <3>2. /\ pub'[p].at = "none"
          /\ \A q \in Publishers : q # p => pub'[q] = pub[q]
      BY <2>4, PublisherEnds, OnePublisher, PubStatesAre
    <3>3. \A q \in Publishers :
             pub'[q].at = "computed" => (stored' <= pub'[q].state /\ pub'[q].state <= change')
      BY <3>1, <3>2 DEF SnapshotsInv
    <3>4. own' <= stored' \/ \E q \in Publishers : YetToShow(q)'
      <4>1. CASE own <= stored \/ own' = 0
        BY <3>1, <4>1
      <4>2. ASSUME NEW q \in Publishers, YetToShow(q), own' = own, own' # 0
            PROVE  YetToShow(q)'
        BY <3>1, <3>2, <4>2 DEF YetToShow, ByDaemon
      <4> QED
        BY <3>1, <4>1, <4>2 DEF SnapshotsInv
    <3> QED
      BY <3>1, <3>3, <3>4 DEF SnapshotsInv
  <2> QED
    BY <2>1, <2>2, <2>3, <2>4 DEF PublisherStep
<1>5. CASE StartDaemon
  <2>1. UNCHANGED <<change, own, served, stored>>
    BY <1>5, StartSets
  <2>2. /\ pub'["loop"].at = "asked"
        /\ \A q \in Publishers : q # "loop" => pub'[q] = pub[q]
    BY <1>5, StartSets, PublisherAt
  <2>3. YetToShow("loop")'
    BY <2>2 DEF YetToShow, ByDaemon
  <2> QED
    BY <2>1, <2>2, <2>3 DEF SnapshotsInv
<1>6. CASE LoopMoves
  BY <1>1, <1>6, LoopMoveSteps DEF showVars
<1>7. CASE LoopChanges
  <2>1. /\ change' = change + 1 /\ own' = change + 1
        /\ pub' = [pub EXCEPT !["loop"].at = "asked"]
        /\ UNCHANGED <<served, stored>>
    BY <1>7, LoopChangeSteps
  <2>2. /\ pub'["loop"].at = "asked"
        /\ \A q \in Publishers : q # "loop" => pub'[q] = pub[q]
    BY <2>1 DEF TypeInv, PubStates
  <2>3. YetToShow("loop")'
    BY <2>2 DEF YetToShow, ByDaemon
  <2> QED
    BY <2>1, <2>2, <2>3 DEF SnapshotsInv
<1>8. CASE KillDaemon
  <2>1. /\ own' = 0
        /\ pub' = [p \in Publishers |-> IF ByDaemon(p) THEN NotPublishing ELSE pub[p]]
        /\ UNCHANGED <<change, served, stored>>
    BY <1>8, KillSets
  <2>2. \A q \in Publishers :
           pub'[q].at = "computed" => (stored' <= pub'[q].state /\ pub'[q].state <= change')
    BY <2>1, PubStatesAre DEF SnapshotsInv
  <2> QED
    BY <2>1, <2>2 DEF SnapshotsInv
<1>9. CASE Operates
  <2>1. pub["cli"].at = "none" /\ change' = change + 1 /\ UNCHANGED <<own, served, stored>>
    BY <1>9, OperatorSets
  <2>2. /\ pub'["cli"].at \in {"none", "asked"}
        /\ \A q \in Publishers : q # "cli" => pub'[q] = pub[q]
    BY <1>9, <2>1, OperatorSets, PublisherAt
  <2>3. \A q \in Publishers :
           pub'[q].at = "computed" => (stored' <= pub'[q].state /\ pub'[q].state <= change')
    BY <2>1, <2>2 DEF SnapshotsInv
  <2>4. ASSUME NEW q \in Publishers, YetToShow(q)
        PROVE  YetToShow(q)'
    BY <2>1, <2>2, <2>4 DEF YetToShow, ByDaemon
  <2> QED
    BY <2>1, <2>3, <2>4 DEF SnapshotsInv
<1>10. CASE UNCHANGED vars
  BY <1>1, <1>10 DEF vars, showVars
<1> QED
  BY <1>2, <1>3, <1>4, <1>5, <1>6, <1>7, <1>8, <1>9, <1>10, StepKinds

-----------------------------------------------------------------------------
(* A duel under way is marked in progress. *)
LEMMA DuelStep ==
    ASSUME IntakeInv, [Next]_vars
    PROVE  DuelInv'
<1>0. TypeInv /\ QueueInv /\ DuelInv /\ QueueTypeOK
  BY DEF IntakeInv, QueueInv
<1> USE <1>0
<1>1. ASSUME UNCHANGED <<inProgress, loop, duel>>
      PROVE  DuelInv'
  BY <1>1 DEF DuelInv
<1>2. CASE ThreadStep
  BY <1>1, <1>2, ThreadSteps DEF queueVars
<1>3. CASE Queues
  BY <1>1, <1>3, QueuedBy DEF Queues
<1>4. CASE Writes
  <2>1. PICK p \in Publishers : PublisherStep(p) \/ SnapshotFails(p)
    BY <1>4 DEF Writes
  <2>2. CASE TakeSnapshot(p)
    BY <1>1, <2>2, SnapshotTaken DEF queueVars
  <2>3. CASE WriteSnapshot(p)
    BY <1>1, <2>3, SnapshotWritten DEF queueVars
  <2>4. CASE TouchSnapshot(p) \/ LeaveSnapshot(p) \/ SnapshotFails(p)
    <3>1. /\ UNCHANGED <<inProgress, duel>>
          /\ \/ UNCHANGED loop
             \/ loop'.at \in {"idle", "draining"} /\ loop'.next \in {loop.next, "idle"}
      BY <2>4, PublisherEnds DEF queueVars
    <3> QED
      BY <3>1 DEF DuelInv
  <2> QED
    BY <2>1, <2>2, <2>3, <2>4 DEF PublisherStep
<1>5. CASE StartDaemon
  <2>1. UNCHANGED <<inProgress, duel>> /\ loop'.at = "starting" /\ loop'.next = "serving"
    BY <1>5, StartSets DEF queueVars
  <2> QED
    BY <2>1 DEF DuelInv
<1>6. CASE LoopMoves
  <2>0. inProgress' = inProgress
    BY <1>6, LoopMoveSteps DEF queueVars
  <2> USE <2>0 DEF DuelInv, TypeInv, LoopStates
  <2>1. CASE Drain
    BY <2>1 DEF Drain
  <2>2. CASE Push \/ PushFails
    BY <2>2 DEF Push, PushFails, PushIsOver, Served
  <2>3. CASE Peek
    <3>1. entries \in Seq(Entries) /\ entries # <<>> /\ inProgress = None
      BY <2>3 DEF Peek, QueueTypeOK
    <3>2. entries[1].key \in Submissions
      <4>1. entries[1] \in Entries
        BY <3>1
      <4> QED
        BY <4>1 DEF Entries
    <3>3. loop'.at = "peeked" /\ loop'.key = entries[1].key /\ loop'.next = loop.next /\ duel' = duel
      BY <2>3 DEF Peek
    <3> QED
      BY <3>1, <3>2, <3>3
  <2>4. CASE EntryGone
    BY <2>4 DEF EntryGone
  <2>5. CASE Resume \/ NothingToRecord \/ HarnessAway
    BY <2>5 DEF Resume, NothingToRecord, HarnessAway, LoopAt
  <2>6. CASE RecordDuel \/ Republish
    BY <2>6 DEF RecordDuel, Republish
  <2>7. CASE WriteOutcome
    BY <2>7 DEF WriteOutcome
  <2>8. CASE RecordFails
    BY <2>8 DEF RecordFails, LoopAt
  <2> QED
    BY <1>6, <2>1, <2>2, <2>3, <2>4, <2>5, <2>6, <2>7, <2>8 DEF LoopMoves
<1>7. CASE LoopChanges
  <2>1. loop'.at = "publishing"
    BY <1>7, LoopChangeSteps
  <2>2. CASE /\ loop.at = "peeked" /\ Remove(loop.key)
             /\ duel' = duel /\ loop'.next = "idle"
    BY <2>1, <2>2 DEF DuelInv, Remove
  <2>3. CASE /\ loop.at = "peeked" /\ Take(loop.key, EventOf(loop.key))
             /\ duel' = "open" /\ loop'.next = "running"
    <3>1. loop.key \in Submissions
      BY <2>3 DEF DuelInv
    <3>2. EventOf(loop.key) \in EventIds
      BY <3>1 DEF EventOf, EventIds, QueueTypeOK
    <3>3. EntryOf(loop.key) \in Entries
      BY <2>3, <3>1, Waits DEF Take
    <3>4. inProgress' \in InProgress
      BY <2>3, <3>2, <3>3 DEF Take, InProgress
    <3> QED
      BY <2>1, <2>3, <3>4, MarkAssumption DEF DuelInv
  <2>4. CASE /\ loop.at = "running" /\ duel = "open" /\ PutBack(None)
             /\ duel' = duel /\ loop'.next = "idle"
    BY <2>1, <2>4 DEF DuelInv
  <2>5. CASE /\ loop.at = "finishing" /\ duel # "recorded" /\ Finish
             /\ duel' = "open" /\ loop'.next = "idle"
    BY <2>1, <2>5 DEF DuelInv
  <2> QED
    BY <1>7, <2>2, <2>3, <2>4, <2>5, LoopChangeSteps
<1>8. CASE KillDaemon
  <2>1. UNCHANGED <<inProgress, duel>> /\ loop'.at = "down" /\ loop'.next = "idle"
    BY <1>8, KillSets DEF queueVars
  <2> QED
    BY <2>1 DEF DuelInv
<1>9. CASE Operates
  <2>1. UNCHANGED <<inProgress, loop, duel>>
    BY <1>9, OperatorSets
  <2> QED
    BY <1>1, <2>1
<1>10. CASE UNCHANGED vars
  BY <1>1, <1>10 DEF vars, queueVars
<1> QED
  BY <1>2, <1>3, <1>4, <1>5, <1>6, <1>7, <1>8, <1>9, <1>10, StepKinds

-----------------------------------------------------------------------------
(* No file that the mirror lacks is forgotten. *)

(* The queue's snapshot is touched, carried, or about to be touched. *)
LEMMA QueueRemembered ==
    Remembered("queue") <=> \/ "queue" \in touched \cup loop.carried
                            \/ \E p \in Publishers : pub[p].at = "written"
  BY DEF Remembered

(* A publisher that was not at "written" and is not now: nothing is forgotten. *)
LEMMA MirrorKept ==
    ASSUME MirrorInv, UNCHANGED <<mirrorVars, loop, duel>>,
           \A p \in Publishers : pub[p].at = "written" => pub'[p].at = "written"
    PROVE  MirrorInv'
<1>1. Remembered("queue") => Remembered("queue")'
  BY QueueRemembered DEF Remembered, mirrorVars
<1> QED
  BY <1>1 DEF MirrorInv, DuelRemembered, mirrorVars

LEMMA LoopMovesRemember ==
    ASSUME IntakeInv, LoopMoves
    PROVE  MirrorInv'
<1>0. TypeInv /\ MirrorInv
  BY DEF IntakeInv
<1>s. /\ UNCHANGED pub /\ (unpushed => unpushed')
      /\ loop.at \notin {"down", "starting", "publishing"}
      /\ loop'.at \notin {"down", "starting", "publishing"}
  BY LoopMoveSteps DEF showVars
<1>w. ASSUME \A f \in Files : (f \in behind' /\ f \in touched \cup loop.carried)
                                 => f \in touched' \cup loop'.carried,
             behind' \subseteq behind \cup {"duel"}
      PROVE  (loop'.at \notin {"down", "starting"} /\ "queue" \in behind') => Remembered("queue")'
  <2>1. SUFFICES ASSUME "queue" \in behind'
                 PROVE  Remembered("queue")'
    OBVIOUS
  <2>2. Remembered("queue")
    BY <1>0, <1>s, <1>w, <2>1 DEF MirrorInv
  <2> QED
    BY <1>s, <1>w, <2>1, <2>2 DEF Remembered, Files
<1> USE <1>0, <1>s DEF MirrorInv, DuelRemembered, TypeInv, LoopStates, Files
<1>1. CASE Drain
  <2>1. /\ loop.carried = {} /\ loop'.carried = touched /\ touched' = {} /\ behind' = behind
        /\ loop'.at = "pushing" /\ loop'.next = loop.next /\ duel' = duel
    BY <1>1 DEF Drain
  <2> QED
    BY <1>w, <2>1
<1>2. CASE Push
  <2>1. /\ loop'.carried = {} /\ touched' = touched /\ behind' = behind \ loop.carried
        /\ loop'.at = "finishing" => loop.next = "finishing"
        /\ loop'.next = "idle" /\ duel' = duel
    BY <1>2 DEF Push, PushIsOver, Served, showVars
  <2> QED
    BY <1>w, <2>1
<1>3. CASE PushFails
  <2>1. /\ loop'.carried = {} /\ touched' = touched \cup loop.carried /\ behind' = behind
        /\ loop'.at = "finishing" => loop.next = "finishing"
        /\ loop'.next = "idle" /\ duel' = duel
    BY <1>3 DEF PushFails, PushIsOver, Served, TouchedAgain
  <2> QED
    BY <1>w, <2>1
<1>4. CASE Peek \/ EntryGone \/ Resume \/ HarnessAway
  <2>1. /\ UNCHANGED <<touched, behind, duel>>
        /\ loop.carried = {} /\ loop'.carried = {}
        /\ loop'.at # "finishing" /\ loop'.next = loop.next
    BY <1>4 DEF Peek, EntryGone, Resume, HarnessAway, LoopAt, mirrorVars
  <2> QED
    BY <1>w, <2>1
<1>5. CASE NothingToRecord
  <2>1. /\ UNCHANGED <<touched, behind, duel>>
        /\ loop.carried = {} /\ loop'.carried = {}
        /\ duel # "recorded" /\ loop'.next = loop.next
    BY <1>5 DEF NothingToRecord, LoopAt, mirrorVars
  <2> QED
    BY <1>w, <2>1
<1>6. CASE RecordDuel \/ Republish
  <2>1. /\ touched' = touched \cup {"duel"} /\ behind' \subseteq behind \cup {"duel"}
        /\ loop.carried = {} /\ loop'.carried = {}
    BY <1>6 DEF RecordDuel, Republish
  <2> QED
    BY <1>w, <2>1
<1>7. CASE WriteOutcome
  <2>1. UNCHANGED <<touched, behind, loop>> /\ loop.at = "finishing"
    BY <1>7 DEF WriteOutcome, mirrorVars
  <2> QED
    BY <1>w, <2>1
<1>8. CASE RecordFails
  <2>1. /\ UNCHANGED <<touched, duel>> /\ behind' = behind \cup {"duel"} /\ unpushed'
        /\ loop.carried = {} /\ loop'.carried = {}
    BY <1>8 DEF RecordFails, LoopAt
  <2> QED
    BY <1>w, <2>1
<1> QED
  BY <1>1, <1>2, <1>3, <1>4, <1>5, <1>6, <1>7, <1>8 DEF LoopMoves

LEMMA MirrorStep ==
    ASSUME IntakeInv, [Next]_vars
    PROVE  MirrorInv'
<1>0. TypeInv /\ MirrorInv /\ LocksInv /\ DuelInv
  BY DEF IntakeInv
<1> USE <1>0, PublishersAre
<1>1. CASE ThreadStep
  BY <1>1, ThreadSteps, MirrorKept DEF showVars
<1>2. CASE Queues
  <2>1. PICK c \in Conns, k \in Submissions, z \in Sizes : SubmitNew(c, k, z)
    BY <1>2 DEF Queues
  <2>2. conn[c] = "resolved" /\ UNCHANGED <<mirrorVars, loop, duel>>
    BY <2>1, QueuedBy
  <2>3. pub[c].state \in Nat /\ PubBecomes(c, [at |-> "asked", state |-> pub[c].state])
    BY <2>1, QueuedBy, PubStatesAre
  <2>4. pub[c].at = "none"
    BY <2>2 DEF LocksInv, ThreadLocks
  <2>5. \A p \in Publishers : pub[p].at = "written" => pub'[p].at = "written"
    BY <2>3, <2>4, PublisherAt
  <2> QED
    BY <2>2, <2>5, MirrorKept
<1>3. CASE Writes
  <2>1. PICK p \in Publishers : PublisherStep(p) \/ SnapshotFails(p)
    BY <1>3 DEF Writes
  <2>2. CASE TakeSnapshot(p)
    <3>1. pub[p].at = "asked" /\ UNCHANGED <<mirrorVars, loop, duel>>
      BY <2>2, SnapshotTaken
    <3>2. \A q \in Publishers : pub[q].at = "written" => pub'[q].at = "written"
      <4>1. change \in Nat
        BY DEF TypeInv
      <4> QED
        BY <2>2, <3>1, <4>1, SnapshotTaken, PublisherAt
    <3> QED
      BY <3>1, <3>2, MirrorKept
  <2>3. CASE WriteSnapshot(p)
    <3>1. /\ behind' = behind \cup {"queue"}
          /\ UNCHANGED <<touched, unpushed, loop, duel>>
      BY <2>3, SnapshotWritten
    <3>2. pub'[p].at = "written"
      <4>1. pub[p].state \in Nat
        BY PubStatesAre DEF TypeInv
      <4> QED
        BY <2>3, <4>1, SnapshotWritten, PublisherAt
    <3>3. Remembered("queue")'
      BY <3>2 DEF Remembered
    <3> QED
      BY <3>1, <3>3 DEF MirrorInv, DuelRemembered
  <2>4. CASE TouchSnapshot(p) \/ LeaveSnapshot(p) \/ SnapshotFails(p)
    <3>1. /\ pub[p].at # "none"
          /\ IF p = "loop"
             THEN /\ loop'.at \in {"idle", "draining"}
                  /\ loop'.at = "draining" => touched' = touched \cup {"queue"}
                  /\ loop'.at = "idle" => loop.at # "starting"
                  /\ loop'.next \in {loop.next, "idle"} /\ loop'.carried = loop.carried
             ELSE UNCHANGED loop
          /\ (pub[p].at = "written" /\ ByDaemon(p)) => touched' = touched \cup {"queue"}
          /\ (pub[p].at # "written" \/ ~ByDaemon(p)) => touched' = touched
          /\ UNCHANGED <<behind, unpushed, duel>>
      BY <2>4, PublisherEnds
    <3>2. \A q \in Publishers : q # p => pub'[q] = pub[q]
      BY <2>4, PublisherEnds, OnePublisher, PubStatesAre
    <3>3. touched' = touched \/ touched' = touched \cup {"queue"}
      BY <3>1
    <3>4. /\ loop'.carried = loop.carried
          /\ loop'.at # "finishing" \/ loop' = loop
          /\ loop'.next = loop.next \/ loop'.next = "idle"
      BY <3>1
    <3>5. p = "loop" => loop.carried = {}
      <4>1. p = "loop" => loop.at \in {"starting", "publishing"}
        BY <3>1 DEF LocksInv, LoopPublishes
      <4> QED
        BY <4>1 DEF MirrorInv
    <3>6. loop'.carried # {} => loop'.at = "pushing"
      BY <3>1, <3>4, <3>5 DEF MirrorInv
    <3>7. DuelRemembered => DuelRemembered'
      BY <3>1, <3>3, <3>4 DEF DuelRemembered
    <3>8. (loop'.at \notin {"down", "starting"} /\ "queue" \in behind') => Remembered("queue")'
      <4>1. SUFFICES ASSUME loop'.at \notin {"down", "starting"}, "queue" \in behind',
                            "queue" \notin touched'
                     PROVE  Remembered("queue")'
        BY DEF Remembered
      <4>2. loop.at \notin {"down", "starting"}
        <5>1. CASE p = "loop"
          BY <3>1, <4>1, <5>1 DEF LocksInv, LoopPublishes
        <5>2. CASE p # "loop"
          BY <3>1, <4>1, <5>2
        <5> QED
          BY <5>1, <5>2
      <4>3. Remembered("queue")
        BY <3>1, <4>1, <4>2 DEF MirrorInv
      <4>4. pub[p].at # "written"
        <5>1. SUFFICES ASSUME pub[p].at = "written", ~ByDaemon(p)
                       PROVE  FALSE
          BY <3>1, <4>1
        <5>2. storeLock = ProcessOf(p) /\ storeLock = "daemon"
          BY <4>2, <5>1 DEF LocksInv, OtherLocks, DaemonLocks, Holds
        <5> QED
          BY <5>1, <5>2 DEF ProcessOf
      <4> QED
        BY <3>2, <3>3, <3>4, <4>1, <4>3, <4>4 DEF Remembered
    <3> QED
      BY <3>1, <3>4, <3>6, <3>7, <3>8 DEF MirrorInv
  <2> QED
    BY <2>1, <2>2, <2>3, <2>4 DEF PublisherStep
<1>4. CASE StartDaemon
  <2>1. /\ loop.at = "down" /\ loop'.at = "starting" /\ loop'.next = "serving" /\ loop'.carried = {}
        /\ UNCHANGED <<behind, touched, unpushed, duel>>
    BY <1>4, StartSets DEF mirrorVars
  <2>2. loop.carried = {}
    BY <2>1 DEF MirrorInv
  <2> QED
    BY <2>1, <2>2 DEF MirrorInv, DuelRemembered
<1>5. CASE LoopMoves
  BY <1>5, LoopMovesRemember
<1>6. CASE LoopChanges
  <2>1. /\ loop'.at = "publishing" /\ loop'.carried = loop.carried
        /\ loop'.next # "finishing" /\ loop.at \in {"peeked", "running", "finishing"}
        /\ pub' = [pub EXCEPT !["loop"].at = "asked"]
        /\ UNCHANGED <<behind, touched, unpushed>>
    BY <1>6, LoopChangeSteps DEF mirrorVars
  <2>2. loop.carried = {}
    BY <2>1 DEF MirrorInv
  <2>3. duel' # "recorded" => duel # "recorded"
    <3>1. loop.at = "peeked" => duel # "recorded"
      BY DEF DuelInv
    <3> QED
      BY <1>6, <3>1, LoopChangeSteps
  <2>4. \A q \in Publishers : pub[q].at = "written" => pub'[q].at = "written"
    <3>1. pub["loop"].at = "none"
      BY <2>1 DEF LocksInv, LoopPublishes
    <3> QED
      BY <2>1, <3>1 DEF TypeInv, PubStates
  <2>5. Remembered("queue") => Remembered("queue")'
    BY <2>1, <2>4 DEF Remembered
  <2> QED
    BY <2>1, <2>2, <2>3, <2>5 DEF MirrorInv, DuelRemembered
<1>7. CASE KillDaemon
  <2>1. /\ loop'.at = "down" /\ loop'.next = "idle" /\ loop'.carried = {}
        /\ ("duel" \in behind /\ duel # "recorded") => unpushed'
        /\ UNCHANGED <<behind, duel>>
    BY <1>7, KillSets
  <2> QED
    BY <2>1 DEF MirrorInv, DuelRemembered
<1>8. CASE Operates
  <2>1. pub["cli"].at = "none" /\ UNCHANGED <<mirrorVars, loop, duel>>
    BY <1>8, OperatorSets
  <2>2. UNCHANGED pub \/ PubBecomes("cli", [at |-> "asked", state |-> pub["cli"].state])
    BY <1>8, OperatorSets
  <2>3. \A q \in Publishers : pub[q].at = "written" => pub'[q].at = "written"
    <3>1. pub["cli"].state \in Nat
      BY PubStatesAre DEF TypeInv
    <3> QED
      BY <2>1, <2>2, <3>1, PublisherAt
  <2> QED
    BY <2>1, <2>3, MirrorKept
<1>9. CASE UNCHANGED vars
  <2>1. UNCHANGED <<mirrorVars, loop, duel, pub>>
    BY <1>9 DEF vars, showVars
  <2> QED
    BY <2>1, MirrorKept
<1> QED
  BY <1>1, <1>2, <1>3, <1>4, <1>5, <1>6, <1>7, <1>8, <1>9, StepKinds

-----------------------------------------------------------------------------
(* Slots: one for each connection that is not away. *)

Held == {c \in Conns : conn[c] # "away"}

LEMMA HeldIsFinite == IsFiniteSet(Held) /\ Cardinality(Held) \in Nat
<1>1. Held \in SUBSET Conns
  BY DEF Held
<1>2. IsFiniteSet(Held)
  BY <1>1, IntakeAssumption, FS_Subset
<1> QED
  BY <1>2, FS_CardinalityType

LEMMA SlotTaken ==
    ASSUME TypeInv, SlotsHeld, NEW c \in Conns, conn[c] = "away",
           NEW s \in ConnStates \ {"away"}, conn' = [conn EXCEPT ![c] = s],
           free > 0, free' = free - 1
    PROVE  SlotsHeld'
<1>1. Held' = Held \cup {c} /\ c \notin Held
  BY DEF TypeInv, Held
<1>2. Cardinality(Held') = Cardinality(Held) + 1
  BY <1>1, HeldIsFinite, FS_AddElement
<1>3. free + Cardinality(Held) = MaxSlots
  BY DEF SlotsHeld, Held
<1> QED
  BY <1>2, <1>3, HeldIsFinite DEF SlotsHeld, Held, TypeInv

LEMMA SlotGivenBack ==
    ASSUME TypeInv, SlotsHeld, NEW c \in Conns, conn[c] # "away", Ends(c)
    PROVE  SlotsHeld'
<1>1. Held' = Held \ {c} /\ c \in Held
  BY DEF TypeInv, Held, Ends
<1>2. Cardinality(Held') = Cardinality(Held) - 1
  BY <1>1, HeldIsFinite, FS_RemoveElement
<1>3. free + Cardinality(Held) = MaxSlots
  BY DEF SlotsHeld, Held
<1> QED
  BY <1>2, <1>3, HeldIsFinite DEF SlotsHeld, Held, TypeInv, Ends

LEMMA SlotKept ==
    ASSUME SlotsHeld, free' = free,
           \A c \in Conns : (conn'[c] # "away") <=> (conn[c] # "away")
    PROVE  SlotsHeld'
<1>1. Held' = Held
  BY DEF Held
<1> QED
  BY <1>1 DEF SlotsHeld, Held

LEMMA SlotsStep ==
    ASSUME IntakeInv, [Next]_vars
    PROVE  SlotsHeld'
<1>0. TypeInv /\ SlotsHeld /\ LocksInv
  BY DEF IntakeInv
<1> USE <1>0, PublishersAre
<1>1. ASSUME NEW c \in Conns, conn[c] # "away", UNCHANGED free,
             NEW s \in ConnStates \ {"away"}, conn' = [conn EXCEPT ![c] = s]
      PROVE  SlotsHeld'
  BY <1>1, SlotKept DEF TypeInv
<1>2. ASSUME NEW c \in Conns, Accept(c)
      PROVE  SlotsHeld'
  BY <1>2, SlotTaken DEF Accept, ConnStates
<1>3. ASSUME NEW c \in Conns, EndsUnqueued(c) \/ SubmitFails(c) \/ ReplyAndClose(c)
      PROVE  SlotsHeld'
  BY <1>3, SlotGivenBack DEF EndsUnqueued, SubmitFails, ReplyAndClose
<1>4. ASSUME NEW c \in Conns, Resolves(c) \/ ReplyAndRead(c)
      PROVE  SlotsHeld'
  BY <1>4, <1>1 DEF Resolves, ReplyAndRead, ConnStates
<1>5. ASSUME NEW c \in Conns, NEW k \in Submissions, NEW z \in Sizes, SubmitWaiting(c, k, z)
      PROVE  SlotsHeld'
  <2>1. conn[c] # "away"
    BY <1>5 DEF SubmitWaiting
  <2>2. \/ conn' = [conn EXCEPT ![c] = "replying"] /\ UNCHANGED free
        \/ Ends(c)
    BY <1>5 DEF SubmitWaiting
  <2> QED
    BY <2>1, <2>2, <1>1, SlotGivenBack DEF ConnStates
<1>6. CASE ThreadFails
  BY <1>6, SlotKept DEF ThreadFails, FreeAfterFailure
<1>7. CASE Queues
  <2>1. PICK c \in Conns, k \in Submissions, z \in Sizes : SubmitNew(c, k, z)
    BY <1>7 DEF Queues
  <2>2. conn[c] = "resolved" /\ conn' = [conn EXCEPT ![c] = "publishing"] /\ UNCHANGED free
    BY <2>1, QueuedBy
  <2> QED
    BY <2>2, <1>1 DEF ConnStates
<1>8. CASE Writes
  <2>1. PICK p \in Publishers : PublisherStep(p) \/ SnapshotFails(p)
    BY <1>8 DEF Writes
  <2>2. CASE TakeSnapshot(p)
    BY <2>2, SnapshotTaken, SlotKept DEF intakeVars
  <2>3. CASE WriteSnapshot(p)
    BY <2>3, SnapshotWritten, SlotKept DEF intakeVars
  <2>4. CASE TouchSnapshot(p) \/ LeaveSnapshot(p) \/ SnapshotFails(p)
    <3>1. /\ pub[p].at # "none" /\ UNCHANGED free
          /\ IF p \in Conns THEN conn' = [conn EXCEPT ![p] = "replying"] ELSE conn' = conn
      BY <2>4, PublisherEnds
    <3>2. p \in Conns => conn[p] = "publishing"
      BY <3>1 DEF LocksInv, ThreadLocks
    <3> QED
      BY <3>1, <3>2, <1>1, SlotKept DEF ConnStates
  <2> QED
    BY <2>1, <2>2, <2>3, <2>4 DEF PublisherStep
<1>9. CASE StartDaemon
  BY <1>9, StartSets, SlotKept DEF intakeVars
<1>10. CASE LoopMoves
  BY <1>10, LoopMoveSteps, SlotKept DEF intakeVars
<1>11. CASE LoopChanges
  BY <1>11, LoopChangeSteps, SlotKept DEF intakeVars
<1>12. CASE KillDaemon
  <2>1. CASE served = "daemon"
    <3>1. Held' = {} /\ free' = MaxSlots
      BY <1>12, <2>1, KillSets DEF Held
    <3> QED
      BY <3>1, FS_EmptySet, IntakeAssumption DEF SlotsHeld, Held
  <2>2. CASE served # "daemon"
    BY <1>12, <2>2, KillSets, SlotKept
  <2> QED
    BY <2>1, <2>2
<1>13. CASE Operates
  BY <1>13, OperatorSets, SlotKept DEF intakeVars
<1>14. CASE UNCHANGED vars
  BY <1>14, SlotKept DEF vars, intakeVars
<1> QED
  BY <1>2, <1>3, <1>4, <1>5, <1>6, <1>7, <1>8, <1>9, <1>10, <1>11, <1>12, <1>13, <1>14, StepKinds
  DEF ThreadStep, Reply

-----------------------------------------------------------------------------
LEMMA IntakeStepInv ==
    ASSUME IntakeInv, [Next]_vars
    PROVE  IntakeInv'
<1>1. QueueInv'
  BY QueueSteps, QueueStepInv DEF IntakeInv
<1> QED
  BY <1>1, TypeStep, LocksStep, SnapshotsStep, DuelStep, MirrorStep, SlotsStep DEF IntakeInv

LEMMA IntakeInitInv == Init => IntakeInv
<1> SUFFICES ASSUME Init
             PROVE  IntakeInv
  OBVIOUS
<1> USE IntakeAssumption, PublishersAre, PubStatesAre DEF Init, LoopDown
<1>1. QueueInv
  BY QueueInitInv
<1>2. TypeInv /\ BoundsInv
  <2>1. loop \in LoopStates
    BY DEF LoopStates
  <2>2. conn \in [Conns -> ConnStates] /\ pub \in [Publishers -> PubStates]
    BY DEF ConnStates
  <2>3. unpushed \in BOOLEAN
    OBVIOUS
  <2>4. behind \subseteq Files /\ touched \subseteq Files
    OBVIOUS
  <2> QED
    BY <2>1, <2>2, <2>3, <2>4 DEF TypeInv, BoundsInv
<1>3. LocksInv
  BY DEF LocksInv, DaemonLocks, OtherLocks, ThreadLocks, LoopPublishes, Holds, Publishers
<1>4. SnapshotsInv /\ DuelInv
  BY DEF SnapshotsInv, DuelInv
<1>5. MirrorInv
  BY DEF MirrorInv, DuelRemembered
<1>6. SlotsHeld
  <2>1. Held = {}
    BY DEF Held
  <2>2. Cardinality(Held) = 0 /\ free = MaxSlots
    BY <2>1, FS_EmptySet
  <2>3. free + Cardinality(Held) = MaxSlots
    BY <2>2
  <2> QED
    BY ONLY <2>3 DEF SlotsHeld, Held
<1> QED
  BY <1>1, <1>2, <1>3, <1>4, <1>5, <1>6 DEF IntakeInv

(* The inductive invariant of the intake, the daemon's loop and the command     *)
(* line over one track: of all that publish the queue one at a time is between  *)
(* its snapshot and its write, and each lock is held by who says so.            *)
THEOREM IntakeInvariance == Spec => []IntakeInv
<1>1. IntakeInv /\ [Next]_vars => IntakeInv'
  BY IntakeStepInv
<1> QED
  BY <1>1, IntakeInitInv, PTL DEF Spec

(* admin.py, daemon.py, cli.py: every variable keeps its shape, the slots their *)
(* number, and no snapshot, nor what the daemon made, is of a state to come.    *)
THEOREM IntakeTypeCorrect == Spec => []IntakeTypeOK
<1>1. IntakeInv => IntakeTypeOK
  <2> SUFFICES ASSUME IntakeInv
               PROVE  IntakeTypeOK
    OBVIOUS
  <2>1. free \in 0 .. MaxSlots
    BY HeldIsFinite, IntakeAssumption DEF IntakeInv, TypeInv, SlotsHeld, Held
  <2>2. own \in 0 .. change /\ stored \in 0 .. change
    BY DEF IntakeInv, TypeInv, SnapshotsInv
  <2> QED
    BY <2>1, <2>2
    DEF IntakeInv, QueueInv, TypeInv, BoundsInv, IntakeTypeOK, ConnStates, PubStates, LoopStates
<1> QED
  BY <1>1, IntakeInvariance, PTL

(* admin.py, process_request and its threads: a slot is given back once, by     *)
(* whatever its connection ends and whether or not its thread ever ran.         *)
THEOREM SlotsAreHeld == Spec => []SlotsHeld
<1>1. IntakeInv => SlotsHeld
  BY DEF IntakeInv
<1> QED
  BY <1>1, IntakeInvariance, PTL

(* daemon.py publish_queue, admin.py publish, cli.py: queue.json never goes     *)
(* back to an older state of the queue, whoever writes it.                      *)
THEOREM NeverGoesBack == Spec => NeverOlder
<1>1. IntakeInv /\ [Next]_vars => [stored <= stored']_vars
  BY SnapshotsStep
<1> QED
  BY <1>1, IntakeInvariance, PTL DEF Spec, NeverOlder

(* daemon.py publish_queue: what the daemon's process changed in the queue is   *)
(* shown once none of its threads is publishing, unless the write of it failed. *)
THEOREM OwnChangesShown == Spec => []ShowsOwnChanges
<1>1. IntakeInv => ShowsOwnChanges
  BY DEF IntakeInv, SnapshotsInv, ShowsOwnChanges, YetToShow
<1> QED
  BY <1>1, IntakeInvariance, PTL

(* writer.py touched and daemon.py push_touched: a running daemon forgets no    *)
(* file that the mirror lacks, though a push fails or another thread touches    *)
(* files meanwhile.                                                             *)
THEOREM NothingIsForgotten == Spec => []NothingForgotten
<1>1. IntakeInv => NothingForgotten
  BY DEF IntakeInv, TypeInv, MirrorInv, DuelRemembered, NothingForgotten, Remembered, Files
<1> QED
  BY <1>1, IntakeInvariance, PTL

(* admin.py, daemon.py and cli.py change the queue's file by its operations     *)
(* only, so that all that holds of the queue by itself holds of it here.        *)
THEOREM IntakeUsesQueue == Spec => QueueSpec
<1>1. Init => QueueInit
  BY DEF Init
<1>2. IntakeInv /\ [Next]_vars => [QueueNext(EventIds, Nat)]_queueVars
  BY QueueSteps
<1> QED
  BY <1>1, <1>2, IntakeInvariance, PTL DEF Spec, QueueSpec

(* queue.py under the intake, the daemon's thread and the command line: whatever *)
(* they do at once, a submission waits once, and nobody is put in front of it    *)
(* but a stale duel's entry.                                                     *)
THEOREM IntakeWaitsFairly == Spec => []UniqueKeys /\ NoOvertaking
BY IntakeUsesQueue, OneEntryPerKey, NobodyIsOvertaken, PTL

=============================================================================
