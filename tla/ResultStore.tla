---------------------------- MODULE ResultStore ----------------------------
(***************************************************************************)
(* store/writer.py, for one track: the signed, append-only index, the head *)
(* cached beside it and the event files its records name.                  *)
(*                                                                         *)
(* `index` is the whole lines.  A kill or an I/O error inside os.write     *)
(* leaves a last line with no newline, kept apart as `tail`: its body cut  *)
(* ("body"), its body whole and its signature missing or cut               *)
(* ("signature"), or only its newline missing ("newline").  Parts are one  *)
(* sequence here: part_of only says which file a line is in, and a new     *)
(* part is opened empty after a whole line.                                *)
(***************************************************************************)
EXTENDS DuelIds, Sequences

CONSTANTS
    Writers,  \* processes that may append
    Cuts      \* where a line may be cut, a subset of {"body", "signature", "newline"}

VARIABLES
    index,     \* the index's whole lines, oldest first
    tail,      \* a last line with no newline, or NoTail
    head,      \* head.json
    events,    \* the event files on disk: which event, and the verdict it holds
    appending  \* who holds the index lock, how far it is, and the record it appends

storeVars == <<index, tail, head, events, appending>>

(* A record: its number, its event, and whether the challenger took the crown. *)
Records == [seq : Nat \ {0}, event : EventIds, dethroned : BOOLEAN]

AllCuts == {"body", "signature", "newline"}

ASSUME CutsAssumption == Cuts \subseteq AllCuts

(* A record of no event, for a tail or an append that is not there. *)
NoTail == [cut |-> "none", record |-> None]
Unlocked == [by |-> None, at |-> "free", record |-> None]
EmptyHead == [seq |-> 0, event |-> None, king |-> None]

StoreTypeOK ==
    /\ index \in Seq(Records)
    /\ tail \in [cut : AllCuts, record : Records] \cup {NoTail}
    /\ head \in [seq : Nat, event : EventIds \cup {None}, king : Submissions \cup {None}]
    /\ events \in SUBSET [event : EventIds, dethroned : BOOLEAN]
    /\ appending \in
          [by : Writers, at : {"repaired", "written"}, record : Records]
             \cup [by : Writers, at : {"rebuilding"}, record : {None}]
             \cup {Unlocked}

StoreInit ==
    /\ index = <<>>
    /\ tail = NoTail
    /\ head = EmptyHead
    /\ events = {}
    /\ appending = Unlocked

-----------------------------------------------------------------------------
(* Slip: only `dethroned` is looked at, so a genesis crowns nobody. *)
KingAfterDuelsOnly(record) ==
    IF record.dethroned THEN record.event.challenger ELSE record.event.king

(* king_after, for the kinds the orchestrator publishes: a genesis crowns the *)
(* challenger it names as king, a duel its challenger or nobody new.          *)
KingAfter(record) ==
    IF Kind(record.event) = "genesis" \/ record.dethroned
    THEN record.event.challenger
    ELSE record.event.king

(* Who holds the crown by the lines: the fold of king_after, whose last step  *)
(* decides it, since every kind published names the holder itself.            *)
Holder(lines) == IF lines = <<>> THEN None ELSE KingAfter(lines[Len(lines)])

(* Slip: one byte too many truncated, the last whole line's newline. *)
RepairedIndexShort ==
    CASE tail.cut = "newline" -> Append(index, tail.record)
      [] tail.cut \in {"body", "signature"} /\ index # <<>> -> SubSeq(index, 1, Len(index) - 1)
      [] OTHER -> index

(* repair_tail: a signed line that lost its newline is completed, any other   *)
(* final line is dropped.                                                     *)
RepairedIndex ==
    IF tail.cut = "newline" THEN Append(index, tail.record) ELSE index

(* Slip: a last line without a newline is not read. *)
ReadableIndexWhole == index

(* iter_index and last_record: what parses before the tab, whether or not the *)
(* signature after it is whole.                                               *)
ReadableIndex ==
    IF tail.cut \in {"newline", "signature"} THEN Append(index, tail.record) ELSE index

(* Slip: the number taken from the cached head. *)
NextSeqOfHead(lines) == head.seq + 1

NextSeq(lines) == IF lines = <<>> THEN 1 ELSE lines[Len(lines)].seq + 1

HeadOf(record) == [seq |-> record.seq, event |-> record.event, king |-> KingAfter(record)]

(* Slip: only the head is asked. *)
PublishedByHead(event) == head.event = event

(* Orchestrator._published: the event is looked for in every line that parses. *)
Published(event) == \E i \in DOMAIN ReadableIndex : ReadableIndex[i].event = event

-----------------------------------------------------------------------------
(* write_event: one file per event, written atomically, over an earlier one. *)
WriteEvent(event, dethroned) ==
    /\ events' = {f \in events : f.event # event}
                    \cup {[event |-> event, dethroned |-> dethroned]}
    /\ UNCHANGED <<index, tail, head, appending>>

(* Slip: no repair before the append. *)
BeginAppendUnrepaired(w, event) ==
    \E f \in events :
        /\ f.event = event
        /\ appending = Unlocked
        /\ appending' = [by |-> w, at |-> "repaired",
                         record |-> [seq |-> NextSeq(ReadableIndex), event |-> event,
                                     dethroned |-> f.dethroned]]
        /\ UNCHANGED <<index, tail, head, events>>

(* append, up to its write: it needs the event's file, takes the index lock,   *)
(* repairs the tail and numbers the record from the index.                     *)
BeginAppend(w, event) ==
    \E f \in events :
        /\ f.event = event
        /\ appending = Unlocked
        /\ index' = RepairedIndex
        /\ tail' = NoTail
        /\ appending' = [by |-> w, at |-> "repaired",
                         record |-> [seq |-> NextSeq(RepairedIndex), event |-> event,
                                     dethroned |-> f.dethroned]]
        /\ UNCHANGED <<head, events>>

(* The line is written and fsynced.  After a tail that was not repaired it is  *)
(* spliced onto it, and neither can be read again.                             *)
WriteLine(w) ==
    /\ appending.by = w
    /\ appending.at = "repaired"
    /\ index' = IF tail = NoTail THEN Append(index, appending.record) ELSE index
    /\ tail' = NoTail
    /\ appending' = [appending EXCEPT !.at = "written"]
    /\ UNCHANGED <<head, events>>

WriteHead(w) ==
    /\ appending.by = w
    /\ appending.at = "written"
    /\ head' = HeadOf(appending.record)
    /\ appending' = Unlocked
    /\ UNCHANGED <<index, tail, events>>

(* The writer is killed, or its write raises, while it holds the index lock:   *)
(* the lock is released, and a line being written may be there in part or      *)
(* whole.                                                                      *)
AbandonAppend(w) ==
    /\ appending.by = w
    /\ appending' = Unlocked
    /\ \/ UNCHANGED <<index, tail>>
       \/ /\ appending.at = "repaired"
          /\ index' = Append(index, appending.record)
          /\ UNCHANGED tail
       \/ /\ appending.at = "repaired"
          /\ \E cut \in Cuts : tail' = [cut |-> cut, record |-> appending.record]
          /\ UNCHANGED index
    /\ UNCHANGED <<head, events>>

(* rebuild_head: the tail is repaired, then the head is written from the index *)
(* (left as it is when the index is empty).                                    *)
BeginRebuild(w) ==
    /\ appending = Unlocked
    /\ index' = RepairedIndex
    /\ tail' = NoTail
    /\ appending' = [by |-> w, at |-> "rebuilding", record |-> None]
    /\ UNCHANGED <<head, events>>

(* Slip: the head is left as the kill left it. *)
RewriteHeadNot(w) ==
    /\ appending.by = w
    /\ appending.at = "rebuilding"
    /\ appending' = Unlocked
    /\ UNCHANGED <<index, tail, head, events>>

RewriteHead(w) ==
    /\ appending.by = w
    /\ appending.at = "rebuilding"
    /\ head' = IF index = <<>> THEN head
               ELSE [HeadOf(index[Len(index)]) EXCEPT !.king = Holder(index)]
    /\ appending' = Unlocked
    /\ UNCHANGED <<index, tail, events>>

-----------------------------------------------------------------------------
(* The event is not in the index and nobody is appending it: what a caller     *)
(* makes sure of before it writes an event file and its record.                *)
Unpublished(event) ==
    /\ ~Published(event)
    /\ appending.at = "repaired" => appending.record.event # event

(* Writers that append and rebuild in any order, stopped at any point. *)
StoreNext(evs) ==
    \/ \E event \in evs, d \in BOOLEAN : Unpublished(event) /\ WriteEvent(event, d)
    \/ \E w \in Writers :
          \/ \E event \in evs : Unpublished(event) /\ BeginAppend(w, event)
          \/ WriteLine(w)
          \/ WriteHead(w)
          \/ BeginRebuild(w)
          \/ RewriteHead(w)
          \/ AbandonAppend(w)

StoreSpec == StoreInit /\ [][StoreNext(EventIds)]_storeVars

-----------------------------------------------------------------------------
(* The lines are numbered 1, 2, 3...: no kill, torn line or stale head makes   *)
(* append reuse a number or skip one.                                          *)
SeqContiguous == \A i \in DOMAIN index : index[i].seq = i

(* head.json is a cache of the index: it may lag behind it, but what it says   *)
(* is always what the line of its number says, king included.                  *)
HeadBacked ==
    head # EmptyHead => \E i \in DOMAIN index : head = HeadOf(index[i])

(* A signed record's event_sha256 stays the hash of the event file on disk: a  *)
(* duel run again after a kill never rewrites an event a record covers.        *)
EventsMatch ==
    \A i \in DOMAIN index :
        [event |-> index[i].event, dethroned |-> index[i].dethroned] \in events

(* orchestrate.py, Resuming: "at most one record".  However often a duel is    *)
(* killed, failed, resumed or run by hand again, its event is in the index     *)
(* once.                                                                       *)
OneRecordPerEvent ==
    \A i, j \in DOMAIN index : index[i].event = index[j].event => i = j

(* A published line is never dropped, moved or changed, by a repair either.    *)
SignedLinesKept ==
    [][/\ Len(index) <= Len(index')
       /\ \A i \in DOMAIN index : index'[i] = index[i]]_storeVars
=============================================================================
