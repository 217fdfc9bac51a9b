-------------------------- MODULE ChallengerQueue --------------------------
(***************************************************************************)
(* queue.py: one track's queue file.  Every mutation runs inside _locked   *)
(* (a thread lock and a flock over load, change and one atomic save), so   *)
(* each is one step; the processes that share the file interleave between  *)
(* the steps, never inside one.  commit_block, accepted_at and source are  *)
(* carried by an entry and read by nothing here.                           *)
(***************************************************************************)
EXTENDS DuelIds, Sequences

VARIABLES
    entries,     \* the waiting entries, head first
    inProgress,  \* the duel in progress and the entry it was taken from, or None
    block        \* the counter event ids are derived from

queueVars == <<entries, inProgress, block>>

InProgress == [event : EventIds, entry : Entries \cup {None}]

(* No duel in progress is null, and not an object. *)
ASSUME MarkAssumption == None \notin InProgress

QueueTypeOK ==
    /\ entries \in Seq(Entries)
    /\ inProgress \in InProgress \cup {None}
    /\ block \in Nat

QueueInit ==
    /\ entries = <<>>
    /\ inProgress = None
    /\ block = 0

Waiting(k) == \E i \in DOMAIN entries : entries[i].key = k

(* A key waits at most once (UniqueKeys), so the first entry of the key is the *)
(* only one, and dropping it is dropping every entry of the key.               *)
PlaceOf(k) == CHOOSE i \in DOMAIN entries : entries[i].key = k

EntryOf(k) == entries[PlaceOf(k)]

Without(k) ==
    IF Waiting(k)
    THEN SubSeq(entries, 1, PlaceOf(k) - 1) \o SubSeq(entries, PlaceOf(k) + 1, Len(entries))
    ELSE entries

(* queue add: the same key again moves to the back. *)
Add(k, z) ==
    /\ entries' = Append(Without(k), [key |-> k, size |-> z])
    /\ UNCHANGED <<inProgress, block>>

(* Slip: the intake's entry put in front. *)
OfferInFront(k, z) ==
    /\ entries' = IF Waiting(k) THEN entries ELSE <<[key |-> k, size |-> z]>> \o entries
    /\ UNCHANGED <<inProgress, block>>

(* The intake's add: a submission that waits keeps its entry and its place. *)
Offer(k, z) ==
    /\ entries' = IF Waiting(k) THEN entries ELSE Append(entries, [key |-> k, size |-> z])
    /\ UNCHANGED <<inProgress, block>>

Remove(k) ==
    /\ entries' = Without(k)
    /\ UNCHANGED <<inProgress, block>>

Pop ==
    /\ entries' = IF entries = <<>> THEN <<>> ELSE Tail(entries)
    /\ UNCHANGED <<inProgress, block>>

(* The entry leaves the queue and its duel is marked in progress, in one write. *)
Take(k, event) ==
    /\ Waiting(k)
    /\ entries' = Without(k)
    /\ block' = Max2(block, event.block)
    /\ inProgress' = [event |-> event, entry |-> EntryOf(k)]

(* take answering None: the entry has gone meanwhile. *)
TakeGone(k) ==
    /\ ~Waiting(k)
    /\ UNCHANGED queueVars

(* What put_back would queue: the entry the duel was taken from, or the fallback. *)
PutBackEntry(fallback) ==
    IF inProgress = None THEN None
    ELSE IF inProgress.entry # None THEN inProgress.entry ELSE fallback

(* Slip: an entry of the same key queued meanwhile is not looked for. *)
PutBackTwice(fallback) ==
    LET entry == PutBackEntry(fallback) IN
    /\ entries' = IF entry = None THEN entries ELSE <<entry>> \o entries
    /\ inProgress' = None
    /\ UNCHANGED block

(* Slip: a stale duel finished like any other. *)
PutBackNothing(fallback) ==
    /\ inProgress' = None
    /\ UNCHANGED <<entries, block>>

PutBack(fallback) ==
    LET entry == PutBackEntry(fallback) IN
    /\ entries' = IF entry = None THEN entries ELSE <<entry>> \o Without(entry.key)
    /\ inProgress' = None
    /\ UNCHANGED block

(* start: the mark of a baseline's genesis, which no entry asked for. *)
Start(event) ==
    /\ inProgress' = [event |-> event, entry |-> None]
    /\ UNCHANGED <<entries, block>>

Finish ==
    /\ inProgress' = None
    /\ UNCHANGED <<entries, block>>

(* Slip: the block last handed out, not the one after it. *)
ClaimedBlockAgain(floor) == Max2(block, floor)

ClaimedBlock(floor) == Max2(block, floor) + 1

ClaimBlock(floor) ==
    /\ block' = ClaimedBlock(floor)
    /\ UNCHANGED <<entries, inProgress>>

AdvanceBlock == ClaimBlock(0)

SetBlock(b) ==
    /\ block' = b
    /\ UNCHANGED <<entries, inProgress>>

-----------------------------------------------------------------------------
(* Any caller, any order: the queue file by itself. *)
QueueNext(events, blocks) ==
    \/ \E k \in Submissions, z \in Sizes : Add(k, z) \/ Offer(k, z)
    \/ \E k \in Submissions : Remove(k) \/ TakeGone(k)
    \/ Pop
    \/ \E event \in events : Take(event.challenger, event) \/ Start(event)
    \/ \E fallback \in Entries \cup {None} : PutBack(fallback)
    \/ Finish
    \/ AdvanceBlock
    \/ \E b \in blocks : ClaimBlock(b) \/ SetBlock(b)

QueueSpec == QueueInit /\ [][QueueNext(EventIds, Nat)]_queueVars

(* "One entry per submission key": however adds, takes and put-backs of the   *)
(* same submission interleave, it never waits twice.                          *)
UniqueKeys ==
    \A i, j \in DOMAIN entries : entries[i].key = entries[j].key => i = j

(* The keys in front of k. *)
Ahead(q, k) ==
    {q[i].key : i \in {i \in DOMAIN q : \E j \in DOMAIN q : i < j /\ q[j].key = k}}

(* No step puts anyone in front of a submission that waits, except the stale  *)
(* duel's entry put back at the head; only its own re-add (queue add) costs a *)
(* submission its place, and then it is last.                                 *)
NoOvertaking ==
    [][\A i \in DOMAIN entries, j \in DOMAIN entries' :
         entries[i].key = entries'[j].key =>
            \/ Ahead(entries', entries[i].key) \subseteq Ahead(entries, entries[i].key)
            \/ j = Len(entries') /\ Len(entries') = Len(entries)
            \/ /\ inProgress # None /\ inProgress' = None
               /\ Ahead(entries', entries[i].key) \ Ahead(entries, entries[i].key)
                     \subseteq {entries'[1].key}]_queueVars
=============================================================================
