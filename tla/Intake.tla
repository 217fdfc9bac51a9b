------------------------------- MODULE Intake -------------------------------
(***************************************************************************)
(* Who changes a track's queue and who shows it: the intake's request      *)
(* threads (admin.py), the daemon's loop (daemon.py) and an operator's     *)
(* queue add and queue remove (cli.py), over one queue file, one           *)
(* tracks/{track}/queue.json in the store and one mirror of the store.     *)
(*                                                                         *)
(* The queue file's states are numbered (`change`), and a snapshot, in the *)
(* store, is the number of the state it shows.  A record's files are one   *)
(* file, "duel"; of the mirror it is only kept which files it lacks as the *)
(* store has them.  A duel's own progress is in Orchestration: here it is  *)
(* open, recorded or decided.                                              *)
(***************************************************************************)
EXTENDS ChallengerQueue, FiniteSets

CONSTANTS
    Conns,        \* connections to the intake
    MaxSlots,     \* max_connections
    MaxRequests,  \* bound: submissions sent to the intake, queue adds and queue removes
    MaxFaults     \* bound: kills, pushes, writes and thread starts that fail

ASSUME IntakeAssumption ==
    /\ IsFiniteSet(Conns) /\ Conns \cap {"loop", "cli"} = {}
    /\ None \notin Conns \cup {"loop", "cli", "daemon", "apart"}
    /\ MaxSlots \in Nat \ {0}
    /\ MaxRequests \in Nat /\ MaxFaults \in Nat

Files == {"queue", "duel"}

(* What may publish a queue snapshot. *)
Publishers == Conns \cup {"loop", "cli"}

VARIABLES
    change,      \* the number of the queue file's state
    own,         \* the last state made by the daemon's process that it did not fail to show
    served,      \* where the intake runs: in the daemon, or apart (admin serve)
    stored,      \* the state queue.json shows
    behind,      \* the files that the mirror has not as the store has them
    storeLock,   \* the process that holds the store, or None
    publishing,  \* the thread that holds Daemon._publishing, or None
    intakeLock,  \* the thread that holds AdminServer._lock, or None
    free,        \* slots nobody holds
    conn,        \* each connection's thread
    pub,         \* how far each publisher is, and the state its snapshot shows
    loop,        \* the daemon's loop
    duel,        \* how far the duel in progress is, on disk
    touched,     \* Store.touched, of the daemon's process
    unpushed,    \* whether a kill, or a record whose write failed, forgot a duel's files
    requests, faults

intakeVars == <<intakeLock, free, conn>>
showVars == <<stored, storeLock, publishing, pub>>
mirrorVars == <<behind, touched, unpushed>>
boundVars == <<requests, faults>>
vars == <<queueVars, change, own, served, intakeVars, showVars, mirrorVars, loop, duel, boundVars>>

NotPublishing == [at |-> "none", state |-> 0]
LoopDown == [at |-> "down", key |-> None, carried |-> {}, next |-> "idle"]

IntakeTypeOK ==
    /\ QueueTypeOK
    /\ change \in Nat /\ own \in 0 .. change
    /\ served \in {"daemon", "apart"}
    /\ stored \in 0 .. change
    /\ behind \subseteq Files /\ touched \subseteq Files
    /\ storeLock \in {"daemon", "apart", "cli", None}
    /\ publishing \in Publishers \cup {None}
    /\ intakeLock \in Conns \cup {None}
    /\ free \in 0 .. MaxSlots
    /\ conn \in [Conns -> {"away", "reading", "resolved", "publishing", "replying"}]
    /\ pub \in [Publishers -> [at : {"none", "asked", "computed", "written"}, state : Nat]]
    /\ loop \in [at : {"down", "starting", "idle", "peeked", "running", "publishing",
                       "draining", "pushing", "finishing"},
                 key : Submissions \cup {None}, carried : SUBSET Files,
                 next : {"serving", "idle", "running", "finishing"}]
    /\ duel \in {"open", "recorded", "decided"}
    /\ unpushed \in BOOLEAN
    /\ requests \in 0 .. MaxRequests /\ faults \in 0 .. MaxFaults

Init ==
    /\ QueueInit
    /\ change = 0 /\ own = 0
    /\ served \in {"daemon", "apart"}
    /\ stored = 0
    /\ storeLock = None /\ publishing = None /\ intakeLock = None
    /\ free = MaxSlots
    /\ conn = [c \in Conns |-> "away"]
    /\ pub = [p \in Publishers |-> NotPublishing]
    /\ loop = LoopDown
    /\ duel = "open"
    /\ behind = {} /\ touched = {} /\ unpushed = FALSE
    /\ requests = 0 /\ faults = 0

Fault == faults < MaxFaults /\ faults' = faults + 1 /\ UNCHANGED requests

-----------------------------------------------------------------------------
(* Publishing a snapshot: Daemon.publish_queue by the loop and, with          *)
(* mirror=False, by the daemon's own intake; AdminServer.publish by an intake *)
(* apart; queue add and remove with --store.                                  *)

ByDaemon(p) == p = "loop" \/ (p \in Conns /\ served = "daemon")

ProcessOf(p) == IF ByDaemon(p) THEN "daemon" ELSE IF p = "cli" THEN "cli" ELSE "apart"

Asks(p) == pub' = [pub EXCEPT ![p].at = "asked"]

(* Slip: the daemon's threads publish side by side. *)
MayPublishTogether(p) == ByDaemon(p) \/ storeLock = None

(* Slip: the loop pushes before it lets the next thread publish. *)
MayPublishOncePushed(p) ==
    IF p \in Conns /\ ByDaemon(p)
    THEN publishing = None /\ loop.at \notin {"draining", "pushing"}
    ELSE IF ByDaemon(p) THEN publishing = None ELSE storeLock = None

(* The daemon's threads wait for each other; any other process must find the  *)
(* store's lock free.                                                         *)
MayPublish(p) == IF ByDaemon(p) THEN publishing = None ELSE storeLock = None

TakeSnapshot(p) ==
    /\ pub[p].at = "asked"
    /\ MayPublish(p)
    /\ publishing' = IF ByDaemon(p) THEN p ELSE publishing
    /\ storeLock' = IF ByDaemon(p) THEN storeLock ELSE ProcessOf(p)
    /\ pub' = [pub EXCEPT ![p] = [at |-> "computed", state |-> change]]
    /\ UNCHANGED <<queueVars, change, own, served, intakeVars, stored, mirrorVars, loop, duel, boundVars>>

WriteSnapshot(p) ==
    /\ pub[p].at = "computed"
    /\ stored' = pub[p].state
    /\ behind' = behind \cup {"queue"}
    /\ pub' = [pub EXCEPT ![p].at = "written"]
    /\ UNCHANGED <<queueVars, change, own, served, intakeVars, storeLock, publishing, touched,
                   unpushed, loop, duel, boundVars>>

(* The publisher gives its locks back. *)
Published(p) ==
    /\ pub' = [pub EXCEPT ![p] = NotPublishing]
    /\ publishing' = IF ByDaemon(p) THEN None ELSE publishing
    /\ storeLock' = IF ByDaemon(p) THEN storeLock ELSE None

(* Where a publisher goes on: a thread to its answer, giving _lock back; the   *)
(* loop to the mirror; the command line is done.                               *)
GoesOn(p) ==
    /\ conn' = IF p \in Conns THEN [conn EXCEPT ![p] = "replying"] ELSE conn
    /\ intakeLock' = IF p \in Conns THEN None ELSE intakeLock
    /\ UNCHANGED free

(* write_queue's _touch, in the store object of the publisher's own process:   *)
(* only the daemon's has a mirror.                                             *)
TouchedBy(p) == IF ByDaemon(p) THEN touched \cup {"queue"} ELSE touched

TouchSnapshot(p) ==
    /\ pub[p].at = "written"
    /\ touched' = TouchedBy(p)
    /\ Published(p)
    /\ GoesOn(p)
    /\ loop' = IF p = "loop" THEN [loop EXCEPT !.at = "draining"] ELSE loop
    /\ UNCHANGED <<queueVars, change, own, served, stored, behind, unpushed, duel, boundVars>>

(* Another process holds the store: left to it. *)
LeaveSnapshot(p) ==
    /\ pub[p].at = "asked"
    /\ ~ByDaemon(p) /\ storeLock # None
    /\ pub' = [pub EXCEPT ![p] = NotPublishing]
    /\ GoesOn(p)
    /\ UNCHANGED <<queueVars, change, own, served, stored, storeLock, publishing, mirrorVars, loop, duel,
                   boundVars>>

(* The write raises.  The intake logs it and answers; the loop's step crashes  *)
(* and is tried again (run's except), except at the start, where the daemon    *)
(* ends: that one is KillDaemon's.                                             *)
SnapshotFails(p) ==
    /\ Fault
    /\ pub[p].at = "computed"
    /\ p = "loop" => loop.at # "starting"
    /\ Published(p)
    /\ GoesOn(p)
    /\ loop' = IF p = "loop" THEN [loop EXCEPT !.at = "idle", !.next = "idle"] ELSE loop
    /\ own' = IF ByDaemon(p) THEN 0 ELSE own
    /\ UNCHANGED <<queueVars, change, served, stored, mirrorVars, duel>>

-----------------------------------------------------------------------------
(* The intake's connections: a thread each, over as many requests as the      *)
(* client sends on it.                                                        *)

(* Beside the loop, it serves once the first snapshots are published.         *)
IntakeUp == served = "apart" \/ (loop.at \notin {"down", "starting"} /\ loop.next # "serving")

(* A connection past the last slot is closed as it arrives: no step.          *)
Accept(c) ==
    /\ conn[c] = "away"
    /\ IntakeUp
    /\ free > 0
    /\ free' = free - 1
    /\ conn' = [conn EXCEPT ![c] = "reading"]
    /\ UNCHANGED <<queueVars, change, own, served, intakeLock, showVars, mirrorVars, loop, duel,
                   boundVars>>

(* Slip: the slot of a thread that did not start is kept. *)
FreeAfterFailureLess == free - 1

FreeAfterFailure == free

(* process_request raises after the slot was taken: it is given back.         *)
ThreadFails ==
    /\ Fault
    /\ IntakeUp
    /\ free > 0
    /\ free' = FreeAfterFailure
    /\ UNCHANGED <<queueVars, change, own, served, intakeLock, conn, showVars, mirrorVars, loop,
                   duel>>

(* Slip: a slot given back by the reply and again by the thread. *)
EndsTwice(c) ==
    /\ conn' = [conn EXCEPT ![c] = "away"]
    /\ free' = free + 2

(* The thread ends, and gives its slot back whatever it ended by.             *)
Ends(c) ==
    /\ conn' = [conn EXCEPT ![c] = "away"]
    /\ free' = free + 1

(* The client closed, or sent no whole request before its deadline; or its     *)
(* request was refused before the queue was looked at (no token, no route, no  *)
(* body, not a submission, unknown to the Hub, resolved past the budget): any  *)
(* refusal is answered and ends the connection.                                *)
EndsUnqueued(c) ==
    /\ conn[c] = "reading"
    /\ Ends(c)
    /\ UNCHANGED <<queueVars, change, own, served, intakeLock, showVars, mirrorVars, loop, duel,
                   boundVars>>

(* A submission that is valid, and that the Hub resolved within the budget.   *)
Resolves(c) ==
    /\ conn[c] = "reading"
    /\ requests < MaxRequests
    /\ requests' = requests + 1
    /\ conn' = [conn EXCEPT ![c] = "resolved"]
    /\ UNCHANGED <<queueVars, change, own, served, intakeLock, free, showVars, mirrorVars, loop,
                   duel, faults>>

(* submit, under _lock: an entry that waits is offered in vain.  At the same   *)
(* size it is reported (200); at another the submission is refused (409).      *)
SubmitWaiting(c, k, z) ==
    /\ conn[c] = "resolved"
    /\ intakeLock = None
    /\ Waiting(k)
    /\ Offer(k, z)
    /\ IF EntryOf(k).size = z
       THEN conn' = [conn EXCEPT ![c] = "replying"] /\ UNCHANGED free
       ELSE Ends(c)
    /\ UNCHANGED <<change, own, served, intakeLock, showVars, mirrorVars, loop, duel, boundVars>>

(* What was queued is published before _lock is given back.                    *)
SubmitNew(c, k, z) ==
    /\ conn[c] = "resolved"
    /\ intakeLock = None
    /\ ~Waiting(k)
    /\ Offer(k, z)
    /\ change' = change + 1
    /\ own' = IF served = "daemon" THEN change + 1 ELSE own
    /\ conn' = [conn EXCEPT ![c] = "publishing"]
    /\ intakeLock' = c
    /\ Asks(c)
    /\ UNCHANGED <<served, free, stored, storeLock, publishing, mirrorVars, loop, duel,
                   boundVars>>

(* The queue file cannot be read or written: 500, with nothing queued.        *)
SubmitFails(c) ==
    /\ Fault
    /\ conn[c] = "resolved"
    /\ intakeLock = None
    /\ Ends(c)
    /\ UNCHANGED <<queueVars, change, own, served, intakeLock, showVars, mirrorVars, loop, duel>>

(* A 200 leaves the connection open for a next request, unless it could not be *)
(* sent.                                                                       *)
ReplyAndRead(c) ==
    /\ conn[c] = "replying"
    /\ conn' = [conn EXCEPT ![c] = "reading"]
    /\ UNCHANGED <<queueVars, change, own, served, intakeLock, free, showVars, mirrorVars, loop,
                   duel, boundVars>>

ReplyAndClose(c) ==
    /\ conn[c] = "replying"
    /\ Ends(c)
    /\ UNCHANGED <<queueVars, change, own, served, intakeLock, showVars, mirrorVars, loop, duel,
                   boundVars>>

-----------------------------------------------------------------------------
(* The daemon's loop, for one track.                                          *)

LoopAt(at) == loop' = [loop EXCEPT !.at = at]

Publishes(next) ==
    /\ loop' = [loop EXCEPT !.at = "publishing", !.key = None, !.next = next]
    /\ Asks("loop")

(* A change of the queue by the loop, to be shown. *)
Changes ==
    /\ change' = change + 1
    /\ own' = change + 1

(* run takes the store's lock and publishes the snapshot before it serves.     *)
StartDaemon ==
    /\ loop.at = "down"
    /\ storeLock = None
    /\ storeLock' = "daemon"
    /\ loop' = [LoopDown EXCEPT !.at = "starting", !.next = "serving"]
    /\ Asks("loop")
    /\ UNCHANGED <<queueVars, change, own, served, intakeVars, stored, publishing, mirrorVars, duel,
                   boundVars>>

Served(next) == IF next = "serving" THEN "idle" ELSE next

(* The push is over, and the loop goes on. *)
PushIsOver == loop' = [loop EXCEPT !.at = Served(loop.next), !.next = "idle", !.carried = {}]

(* push_touched: drain_touched, then one commit of the files as they are.  The *)
(* loop has just touched a file, so there is something to push.                *)
Drain ==
    /\ loop.at = "draining"
    /\ touched' = {}
    /\ loop' = [loop EXCEPT !.at = "pushing", !.carried = touched]
    /\ UNCHANGED <<queueVars, change, own, served, intakeVars, showVars, behind, unpushed, duel,
                   boundVars>>

Push ==
    /\ loop.at = "pushing"
    /\ behind' = behind \ loop.carried
    /\ PushIsOver
    /\ UNCHANGED <<queueVars, change, own, served, intakeVars, showVars, touched, unpushed, duel,
                   boundVars>>

(* Slip: what a failed push carried replaces what was touched meanwhile. *)
TouchedAgainOnly == loop.carried

TouchedAgain == touched \cup loop.carried

PushFails ==
    /\ Fault
    /\ loop.at = "pushing"
    /\ touched' = TouchedAgain
    /\ PushIsOver
    /\ UNCHANGED <<queueVars, change, own, served, intakeVars, showVars, behind, unpushed, duel>>

Peek ==
    /\ loop.at = "idle"
    /\ inProgress = None
    /\ entries # <<>>
    /\ loop' = [loop EXCEPT !.at = "peeked", !.key = entries[1].key]
    /\ UNCHANGED <<queueVars, change, own, served, intakeVars, showVars, mirrorVars, duel, boundVars>>

(* The entry's submission holds the crown: dropped, by its key.                *)
DropHolder ==
    /\ loop.at = "peeked"
    /\ Remove(loop.key)
    /\ Changes
    /\ Publishes("idle")
    /\ UNCHANGED <<served, intakeVars, stored, storeLock, publishing, mirrorVars, duel, boundVars>>

EventOf(k) == [block |-> block + 1, challenger |-> k, king |-> None]

TakeEntry ==
    /\ loop.at = "peeked"
    /\ Take(loop.key, EventOf(loop.key))
    /\ Changes
    /\ Publishes("running")
    /\ duel' = "open"
    /\ UNCHANGED <<served, intakeVars, stored, storeLock, publishing, mirrorVars, boundVars>>

EntryGone ==
    /\ loop.at = "peeked"
    /\ TakeGone(loop.key)
    /\ loop' = [loop EXCEPT !.at = "idle", !.key = None]
    /\ UNCHANGED <<change, own, served, intakeVars, showVars, mirrorVars, duel, boundVars>>

Resume ==
    /\ loop.at = "idle"
    /\ inProgress # None
    /\ LoopAt("running")
    /\ UNCHANGED <<queueVars, change, own, served, intakeVars, showVars, mirrorVars, duel, boundVars>>

(* The record is appended and its files touched, and they are pushed.          *)
RecordDuel ==
    /\ loop.at = "running"
    /\ duel = "open"
    /\ duel' = "recorded"
    /\ behind' = behind \cup {"duel"}
    /\ touched' = touched \cup {"duel"}
    /\ loop' = [loop EXCEPT !.at = "draining", !.next = "finishing"]
    /\ UNCHANGED <<queueVars, change, own, served, intakeVars, showVars, unpushed, boundVars>>

(* The fsync raises once the line is there: its file is not touched, and the   *)
(* duel has failed.                                                            *)
RecordFails ==
    /\ Fault
    /\ loop.at = "running"
    /\ duel = "open"
    /\ behind' = behind \cup {"duel"}
    /\ unpushed' = TRUE
    /\ LoopAt("finishing")
    /\ UNCHANGED <<queueVars, change, own, served, intakeVars, showVars, touched, duel>>

(* _republished: a duel found in the index touches its files once more.        *)
Republish ==
    /\ loop.at = "running"
    /\ duel = "recorded"
    /\ touched' = touched \cup {"duel"}
    /\ loop' = [loop EXCEPT !.at = "draining", !.next = "finishing"]
    /\ UNCHANGED <<queueVars, change, own, served, intakeVars, showVars, behind, unpushed, duel,
                   boundVars>>

(* Void, refused or failed; or outcome.json was there already.                 *)
NothingToRecord ==
    /\ loop.at = "running"
    /\ duel \in {"open", "decided"}
    /\ LoopAt("finishing")
    /\ UNCHANGED <<queueVars, change, own, served, intakeVars, showVars, mirrorVars, duel, boundVars>>

(* HarnessUnavailable: the duel stays in progress.                             *)
HarnessAway ==
    /\ loop.at = "running"
    /\ duel = "open"
    /\ LoopAt("idle")
    /\ UNCHANGED <<queueVars, change, own, served, intakeVars, showVars, mirrorVars, duel, boundVars>>

(* CrownMoved: the entry goes back to the head.                                *)
CrownMoved ==
    /\ Fault
    /\ loop.at = "running"
    /\ duel = "open"
    /\ PutBack(None)
    /\ Changes
    /\ Publishes("idle")
    /\ UNCHANGED <<served, intakeVars, stored, storeLock, publishing, mirrorVars, duel>>

WriteOutcome ==
    /\ loop.at = "finishing"
    /\ duel = "recorded"
    /\ duel' = "decided"
    /\ UNCHANGED <<queueVars, change, own, served, intakeVars, showVars, mirrorVars, loop, boundVars>>

(* Slip: a duel that ends is not shown as over. *)
FinishUnshown ==
    /\ loop.at = "finishing"
    /\ duel # "recorded"
    /\ Finish
    /\ Changes
    /\ duel' = "open"
    /\ LoopAt("idle")
    /\ UNCHANGED <<served, intakeVars, showVars, mirrorVars, boundVars>>

FinishDuel ==
    /\ loop.at = "finishing"
    /\ duel # "recorded"
    /\ Finish
    /\ Changes
    /\ duel' = "open"
    /\ Publishes("idle")
    /\ UNCHANGED <<served, intakeVars, stored, storeLock, publishing, mirrorVars, boundVars>>

(* The daemon's process is killed, or ends: its threads, its locks and what it *)
(* had touched are gone.                                                       *)
KillDaemon ==
    /\ Fault
    /\ loop.at # "down"
    /\ loop' = LoopDown
    /\ storeLock' = None /\ publishing' = None
    /\ pub' = [p \in Publishers |-> IF ByDaemon(p) THEN NotPublishing ELSE pub[p]]
    /\ IF served = "daemon"
       THEN conn' = [c \in Conns |-> "away"] /\ free' = MaxSlots /\ intakeLock' = None
       ELSE UNCHANGED <<conn, free, intakeLock>>
    /\ touched' = {}
    /\ unpushed' = (unpushed \/ ("duel" \in behind /\ duel # "recorded"))
    /\ own' = 0
    /\ UNCHANGED <<queueVars, change, served, stored, behind, duel>>

-----------------------------------------------------------------------------
(* queue add and queue remove, with --store or without.                       *)

OperatorChanges ==
    /\ pub["cli"].at = "none"
    /\ requests < MaxRequests
    /\ requests' = requests + 1
    /\ change' = change + 1
    /\ Asks("cli") \/ UNCHANGED pub
    /\ UNCHANGED <<own, served, intakeVars, stored, storeLock, publishing, mirrorVars, loop, duel,
                   faults>>

QueueAdd(k, z) == Add(k, z) /\ OperatorChanges

QueueRemove(k) == Waiting(k) /\ Remove(k) /\ OperatorChanges

-----------------------------------------------------------------------------
PublisherStep(p) ==
    \/ TakeSnapshot(p)
    \/ WriteSnapshot(p)
    \/ TouchSnapshot(p)
    \/ LeaveSnapshot(p)

Submit(c) == \E k \in Submissions, z \in Sizes : SubmitWaiting(c, k, z) \/ SubmitNew(c, k, z)

Reply(c) == ReplyAndRead(c) \/ ReplyAndClose(c)

(* The loop's own steps, up to the push itself, which waits for the Hub. *)
LoopStep ==
    \/ Drain
    \/ Peek \/ DropHolder \/ TakeEntry \/ EntryGone
    \/ Resume \/ RecordDuel \/ Republish \/ NothingToRecord \/ HarnessAway
    \/ WriteOutcome \/ FinishDuel

Next ==
    \/ \E p \in Publishers : PublisherStep(p) \/ SnapshotFails(p)
    \/ \E c \in Conns :
          \/ Accept(c) \/ EndsUnqueued(c) \/ Resolves(c)
          \/ Submit(c) \/ SubmitFails(c)
          \/ Reply(c)
    \/ ThreadFails
    \/ StartDaemon \/ LoopStep \/ Push \/ PushFails \/ RecordFails \/ CrownMoved \/ KillDaemon
    \/ \E k \in Submissions, z \in Sizes : QueueAdd(k, z)
    \/ \E k \in Submissions : QueueRemove(k)

Spec == Init /\ [][Next]_vars

(* Threads run, and a request has a deadline.  A push is given none: the Hub  *)
(* may never answer.                                                          *)
Fairness ==
    /\ \A p \in Publishers : WF_vars(PublisherStep(p))
    /\ \A c \in Conns : WF_vars(EndsUnqueued(c)) /\ WF_vars(Submit(c)) /\ WF_vars(Reply(c))
    /\ WF_vars(LoopStep)

FairSpec == Spec /\ Fairness

-----------------------------------------------------------------------------
(* admin.py, "A thread per connection, at most max_connections of them":       *)
(* whatever a connection ends by, and whether or not its thread ever ran, its  *)
(* slot is given back once.                                                    *)
SlotsHeld == free + Cardinality({c \in Conns : conn[c] # "away"}) = MaxSlots

(* A snapshot computed before another thread's or process's change and written *)
(* after that one's own would hide the change: queue.json never goes back to an    *)
(* older state of the queue.                                                   *)
NeverOlder == [][stored <= stored']_vars

(* daemon.py, publish_queue: whatever the daemon's process changed in the      *)
(* queue, its intake's threads included, is in queue.json once none of its     *)
(* threads is publishing, unless the write of it failed.                       *)
ShowsOwnChanges ==
    \/ loop.at \in {"down", "starting"}
    \/ \E p \in Publishers : ByDaemon(p) /\ pub[p].at # "none"
    \/ own <= stored

(* The files the mirror lacks are never forgotten by a running daemon: each is *)
(* touched, or carried by the push under way, or about to be touched; a record *)
(* whose outcome is not written is touched again when its duel is resumed.     *)
(* What is forgotten: a duel's files, decided and killed before the push, or   *)
(* recorded by a line whose fsync raised (writer.py:302-306).                  *)
Remembered(f) ==
    \/ f \in touched \cup loop.carried
    \/ f = "queue" /\ \E p \in Publishers : pub[p].at = "written"
    \/ f = "duel" /\ (duel = "recorded" \/ unpushed)

NothingForgotten ==
    loop.at \notin {"down", "starting"} =>
       \A f \in behind : Remembered(f)

(* A connection's thread ends, though a push may hang for ever: no request     *)
(* waits on the mirror, and no two locks are waited for in a circle.           *)
RequestsEnd == \A c \in Conns : (conn[c] # "away") ~> (conn[c] = "away")
=============================================================================
