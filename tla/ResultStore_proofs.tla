------------------------- MODULE ResultStore_proofs -------------------------
(***************************************************************************)
(* The result store's numbering, head and lines, for any writers, any      *)
(* events and any number of interrupted appends; and what a reader's check *)
(* finds of them.                                                          *)
(***************************************************************************)
EXTENDS StoreVerify, TLAPS

(* What an append in progress and a torn tail keep true between the steps. *)
AppendInv ==
    /\ tail # NoTail => tail.record.seq = Len(index) + 1
    /\ appending # Unlocked => tail = NoTail
    /\ appending.at = "repaired" => appending.record.seq = Len(index) + 1
    /\ appending.at = "written" => \E i \in DOMAIN index : index[i] = appending.record

StoreInv == StoreTypeOK /\ SeqContiguous /\ HeadBacked /\ AppendInv

(* repair_tail leaves whole, numbered lines, of which the old ones come first. *)
LEMMA RepairedLines ==
    ASSUME StoreInv
    PROVE  /\ RepairedIndex \in Seq(Records)
           /\ Len(index) <= Len(RepairedIndex)
           /\ \A i \in DOMAIN index : i \in DOMAIN RepairedIndex /\ RepairedIndex[i] = index[i]
           /\ \A i \in DOMAIN RepairedIndex : RepairedIndex[i].seq = i
           /\ NextSeq(RepairedIndex) = Len(RepairedIndex) + 1
<1>1. index \in Seq(Records)
  BY DEF StoreInv, StoreTypeOK
<1>2. CASE tail.cut = "newline"
  <2>1. tail.record \in Records /\ tail.record.seq = Len(index) + 1
    BY <1>2 DEF StoreInv, StoreTypeOK, AppendInv, NoTail
  <2>2. RepairedIndex = Append(index, tail.record)
    BY <1>2 DEF RepairedIndex
  <2> QED
    BY <1>1, <2>1, <2>2 DEF StoreInv, SeqContiguous, NextSeq, Records
<1>3. CASE tail.cut # "newline"
  <2>1. RepairedIndex = index
    BY <1>3 DEF RepairedIndex
  <2> QED
    BY <1>1, <2>1 DEF StoreInv, SeqContiguous, NextSeq, Records
<1> QED
  BY <1>2, <1>3

LEMMA StoreInitInv == StoreInit => StoreInv
  BY DEF StoreInit, StoreInv, StoreTypeOK, SeqContiguous, HeadBacked, AppendInv,
         NoTail, Unlocked, EmptyHead

(* One step per action of the store. *)
LEMMA StoreStepInv ==
    ASSUME StoreInv, [StoreNext(EventIds)]_storeVars
    PROVE  StoreInv'
<1> USE DEF StoreInv, StoreTypeOK
<1>1. ASSUME NEW event \in EventIds, NEW d \in BOOLEAN, WriteEvent(event, d)
      PROVE  StoreInv'
  <2>1. events' \in SUBSET [event : EventIds, dethroned : BOOLEAN]
    BY <1>1 DEF WriteEvent
  <2> QED
    BY <1>1, <2>1 DEF WriteEvent, SeqContiguous, HeadBacked, AppendInv
<1>2. ASSUME NEW w \in Writers, NEW event \in EventIds, BeginAppend(w, event)
      PROVE  StoreInv'
  <2>1. PICK f \in events : /\ f.event = event
                            /\ appending' = [by |-> w, at |-> "repaired",
                                   record |-> [seq |-> NextSeq(RepairedIndex), event |-> event,
                                               dethroned |-> f.dethroned]]
    BY <1>2 DEF BeginAppend
  <2>2. index' = RepairedIndex /\ tail' = NoTail /\ UNCHANGED <<head, events>>
    BY <1>2 DEF BeginAppend
  <2>3. appending'.record \in Records
    BY <2>1, RepairedLines DEF Records
  <2>4. StoreTypeOK'
    BY <2>1, <2>2, <2>3, RepairedLines
  <2>5. SeqContiguous'
    BY <2>2, RepairedLines DEF SeqContiguous
  <2>6. HeadBacked'
    BY <2>2, RepairedLines DEF HeadBacked
  <2>7. AppendInv'
    BY <2>1, <2>2, RepairedLines DEF AppendInv
  <2> QED
    BY <2>4, <2>5, <2>6, <2>7
<1>3. ASSUME NEW w \in Writers, WriteLine(w)
      PROVE  StoreInv'
  <2>1. tail = NoTail
    BY <1>3 DEF WriteLine, AppendInv, Unlocked
  <2>2. appending.record \in Records /\ appending.record.seq = Len(index) + 1
    BY <1>3 DEF WriteLine, AppendInv, Unlocked
  <2>3. index' = Append(index, appending.record)
    BY <1>3, <2>1 DEF WriteLine
  <2>4. /\ index' \in Seq(Records)
        /\ Len(index') = Len(index) + 1
        /\ \A i \in DOMAIN index : i \in DOMAIN index' /\ index'[i] = index[i]
        /\ index'[Len(index) + 1] = appending.record
    BY <2>2, <2>3
  <2>5. appending'.at = "written" /\ appending'.record = appending.record
    BY <1>3 DEF WriteLine, Unlocked
  <2>6. StoreTypeOK'
    BY <1>3, <2>4 DEF WriteLine, Unlocked
  <2>7. SeqContiguous'
    BY <2>2, <2>4 DEF SeqContiguous
  <2>8. HeadBacked'
    BY <1>3, <2>4 DEF HeadBacked, WriteLine
  <2>9. AppendInv'
    BY <1>3, <2>4, <2>5 DEF AppendInv, WriteLine
  <2> QED
    BY <2>6, <2>7, <2>8, <2>9
<1>4. ASSUME NEW w \in Writers, WriteHead(w)
      PROVE  StoreInv'
  <2>1. appending.record \in Records
    BY <1>4 DEF WriteHead, Unlocked
  <2>2. PICK i \in DOMAIN index : index[i] = appending.record
    BY <1>4 DEF WriteHead, AppendInv
  <2>3. head' = HeadOf(index[i])
    BY <1>4, <2>2 DEF WriteHead
  <2>4. StoreTypeOK'
    BY <1>4, <2>1, <2>2, <2>3 DEF WriteHead, HeadOf, KingAfter, Kind, Records, EventIds
  <2>5. HeadBacked'
    BY <1>4, <2>3 DEF HeadBacked, WriteHead, HeadOf, KingAfter
  <2> QED
    BY <1>4, <2>4, <2>5 DEF WriteHead, SeqContiguous, AppendInv, Unlocked
<1>5. ASSUME NEW w \in Writers, BeginRebuild(w)
      PROVE  StoreInv'
  <2>1. /\ index' = RepairedIndex /\ tail' = NoTail /\ UNCHANGED <<head, events>>
        /\ appending' = [by |-> w, at |-> "rebuilding", record |-> None]
    BY <1>5 DEF BeginRebuild
  <2>2. StoreTypeOK'
    BY <2>1, RepairedLines
  <2>3. SeqContiguous' /\ HeadBacked'
    BY <2>1, RepairedLines DEF SeqContiguous, HeadBacked
  <2> QED
    BY <2>1, <2>2, <2>3 DEF AppendInv
<1>6. ASSUME NEW w \in Writers, RewriteHead(w)
      PROVE  StoreInv'
  <2>1. CASE index = <<>>
    BY <1>6, <2>1 DEF RewriteHead, SeqContiguous, HeadBacked, AppendInv, Unlocked
  <2>2. CASE index # <<>>
    <3>1. Len(index) \in DOMAIN index /\ index[Len(index)] \in Records
      BY <2>2
    <3>2. head' = HeadOf(index[Len(index)])
      BY <1>6, <2>2 DEF RewriteHead, Holder, HeadOf
    <3>3. StoreTypeOK'
      BY <1>6, <3>1, <3>2 DEF RewriteHead, HeadOf, KingAfter, Kind, Records, EventIds
    <3>4. HeadBacked'
      BY <1>6, <3>1, <3>2 DEF HeadBacked, RewriteHead, HeadOf, KingAfter
    <3> QED
      BY <1>6, <3>3, <3>4 DEF RewriteHead, SeqContiguous, AppendInv, Unlocked
  <2> QED
    BY <2>1, <2>2
<1>7. ASSUME NEW w \in Writers, AbandonAppend(w)
      PROVE  StoreInv'
  <2>1. /\ appending' = Unlocked
        /\ UNCHANGED <<head, events>>
    BY <1>7 DEF AbandonAppend
  <2>2. CASE UNCHANGED <<index, tail>>
    BY <2>1, <2>2 DEF SeqContiguous, HeadBacked, AppendInv, Unlocked
  <2>3. CASE appending.at = "repaired" /\ index' = Append(index, appending.record) /\ UNCHANGED tail
    <3>1. /\ appending.record \in Records
          /\ appending.record.seq = Len(index) + 1
          /\ tail = NoTail
      BY <2>3 DEF AppendInv, Unlocked
    <3>2. /\ index' \in Seq(Records)
          /\ \A i \in DOMAIN index : i \in DOMAIN index' /\ index'[i] = index[i]
          /\ \A i \in DOMAIN index' : i \in DOMAIN index \/ i = Len(index) + 1
          /\ index'[Len(index) + 1] = appending.record
      BY <2>3, <3>1
    <3>3. SeqContiguous' /\ HeadBacked'
      BY <2>1, <3>1, <3>2 DEF SeqContiguous, HeadBacked
    <3> QED
      BY <2>1, <2>3, <3>1, <3>2, <3>3 DEF AppendInv, Unlocked
  <2>4. CASE /\ appending.at = "repaired"
             /\ \E cut \in Cuts : tail' = [cut |-> cut, record |-> appending.record]
             /\ UNCHANGED index
    <3>1. appending.record \in Records /\ appending.record.seq = Len(index) + 1
      BY <2>4 DEF AppendInv, Unlocked
    <3>2. tail' \in [cut : AllCuts, record : Records] /\ tail'.record = appending.record
      BY <2>4, <3>1, CutsAssumption
    <3> QED
      BY <2>1, <2>4, <3>1, <3>2 DEF SeqContiguous, HeadBacked, AppendInv, Unlocked
  <2> QED
    BY <1>7, <2>2, <2>3, <2>4 DEF AbandonAppend
<1>8. CASE UNCHANGED storeVars
  BY <1>8 DEF storeVars, SeqContiguous, HeadBacked, AppendInv
<1> QED
  BY <1>1, <1>2, <1>3, <1>4, <1>5, <1>6, <1>7, <1>8 DEF StoreNext

THEOREM StoreInvariance == StoreSpec => []StoreInv
<1>1. StoreInit => StoreInv
  BY StoreInitInv
<1>2. StoreInv /\ [StoreNext(EventIds)]_storeVars => StoreInv'
  BY StoreStepInv
<1> QED
  BY <1>1, <1>2, PTL DEF StoreSpec

(* writer.py: every file of the store keeps the shape its readers expect. *)
THEOREM StoreTypeCorrect == StoreSpec => []StoreTypeOK
<1>1. StoreInv => StoreTypeOK
  BY DEF StoreInv
<1> QED
  BY <1>1, StoreInvariance, PTL

(* writer.py append and repair_tail: the lines are numbered 1, 2, 3..., whoever *)
(* appends, wherever an append is interrupted.                                  *)
THEOREM NumberedInOrder == StoreSpec => []SeqContiguous
<1>1. StoreInv => SeqContiguous
  BY DEF StoreInv
<1> QED
  BY <1>1, StoreInvariance, PTL

(* writer.py write_head and rebuild_head: head.json never says what no signed   *)
(* line says.                                                                   *)
THEOREM HeadIsOfALine == StoreSpec => []HeadBacked
<1>1. StoreInv => HeadBacked
  BY DEF StoreInv
<1> QED
  BY <1>1, StoreInvariance, PTL

(* writer.py repair_tail and append: no step drops or changes a whole line. *)
THEOREM LinesAreKept == StoreSpec => SignedLinesKept
<1>1. StoreInv /\ [StoreNext(EventIds)]_storeVars
        => [/\ Len(index) <= Len(index')
            /\ \A i \in DOMAIN index : index'[i] = index[i]]_storeVars
  <2> SUFFICES ASSUME StoreInv, StoreNext(EventIds)
               PROVE  Len(index) <= Len(index') /\ \A i \in DOMAIN index : index'[i] = index[i]
    OBVIOUS
  <2>1. index \in Seq(Records)
    BY DEF StoreInv, StoreTypeOK
  <2>2. CASE index' = index
    BY <2>1, <2>2
  <2>3. CASE index' = RepairedIndex
    BY <2>3, RepairedLines
  <2>4. CASE appending.at = "repaired" /\ index' = Append(index, appending.record)
    BY <2>1, <2>4 DEF StoreInv, StoreTypeOK, Unlocked
  <2>5. index' = index \/ index' = RepairedIndex
           \/ (appending.at = "repaired" /\ index' = Append(index, appending.record))
    BY DEF StoreNext, WriteEvent, BeginAppend, WriteLine, WriteHead, BeginRebuild, RewriteHead,
           AbandonAppend
  <2> QED
    BY <2>2, <2>3, <2>4, <2>5
<1> QED
  BY <1>1, StoreInvariance, PTL DEF StoreSpec, SignedLinesKept

-----------------------------------------------------------------------------
(* The event file a record was made from. *)
FileOf(record) == [event |-> record.event, dethroned |-> record.dethroned]

(* A record on its way to the index is of an event that is not there, and the *)
(* event's file is the one it was made from.  A line whose body is cut is not *)
(* read as published, and its event may be written again.                     *)
PendingInv ==
    /\ tail # NoTail => \A i \in DOMAIN index : index[i].event # tail.record.event
    /\ tail.cut \in {"newline", "signature"} => FileOf(tail.record) \in events
    /\ appending.at = "repaired" =>
          /\ \A i \in DOMAIN index : index[i].event # appending.record.event
          /\ FileOf(appending.record) \in events

EventInv == OneRecordPerEvent /\ EventsMatch /\ PendingInv

(* The repair completes a line of an event no line is of, and only lines that  *)
(* could be read before it can be read after it.                               *)
LEMMA RepairedEvents ==
    ASSUME StoreInv, EventInv
    PROVE  /\ \A i, j \in DOMAIN RepairedIndex :
                 RepairedIndex[i].event = RepairedIndex[j].event => i = j
           /\ \A i \in DOMAIN RepairedIndex : FileOf(RepairedIndex[i]) \in events
           /\ \A i \in DOMAIN RepairedIndex : Published(RepairedIndex[i].event)
           /\ \A i \in DOMAIN index : Published(index[i].event)
<1>1. index \in Seq(Records)
  BY DEF StoreInv, StoreTypeOK
<1>2. \A i, j \in DOMAIN index : index[i].event = index[j].event => i = j
  BY DEF EventInv, OneRecordPerEvent
<1>3. \A i \in DOMAIN index : FileOf(index[i]) \in events
  BY DEF EventInv, EventsMatch, FileOf
<1>4. CASE tail.cut \in {"newline", "signature"}
  <2>1. /\ tail.record \in Records
        /\ FileOf(tail.record) \in events
        /\ \A i \in DOMAIN index : index[i].event # tail.record.event
    BY <1>4 DEF StoreInv, StoreTypeOK, EventInv, PendingInv, NoTail
  <2>2. ReadableIndex = Append(index, tail.record)
    BY <1>4 DEF ReadableIndex
  <2>3. RepairedIndex \in {index, Append(index, tail.record)}
    BY DEF RepairedIndex
  <2> DEFINE q == Append(index, tail.record)
  <2>4. \A i \in DOMAIN q : \/ i \in DOMAIN index /\ q[i] = index[i]
                            \/ i = Len(index) + 1 /\ q[i] = tail.record
    BY <1>1, <2>1
  <2>5. \A i \in DOMAIN index : i \in DOMAIN q /\ q[i] = index[i]
    BY <1>1, <2>1
  <2>6. \A i \in DOMAIN q : Published(q[i].event)
    BY <2>2 DEF Published
  <2>7. /\ \A i, j \in DOMAIN q : q[i].event = q[j].event => i = j
        /\ \A i \in DOMAIN q : FileOf(q[i]) \in events
    BY <1>2, <1>3, <2>1, <2>4
  <2> HIDE DEF q
  <2> QED
    BY <1>2, <1>3, <2>3, <2>5, <2>6, <2>7 DEF q
<1>5. CASE tail.cut \notin {"newline", "signature"}
  <2>1. RepairedIndex = index /\ ReadableIndex = index
    BY <1>5 DEF RepairedIndex, ReadableIndex
  <2> QED
    BY <1>2, <1>3, <2>1 DEF Published
<1> QED
  BY <1>4, <1>5

(* A line more, of an event no line is of and of a file on disk. *)
LEMMA AppendedEvent ==
    ASSUME StoreInv, EventInv, NEW r \in Records, FileOf(r) \in events,
           \A i \in DOMAIN index : index[i].event # r.event,
           index' = Append(index, r), events' = events
    PROVE  OneRecordPerEvent' /\ EventsMatch'
<1>1. index \in Seq(Records)
  BY DEF StoreInv, StoreTypeOK
<1>2. \A i \in DOMAIN index' : \/ i \in DOMAIN index /\ index'[i] = index[i]
                               \/ i = Len(index) + 1 /\ index'[i] = r
  BY <1>1
<1> QED
  BY <1>1, <1>2 DEF EventInv, OneRecordPerEvent, EventsMatch, FileOf

(* One step per action that changes the lines, the files or the lock. *)
LEMMA EventStepInv ==
    ASSUME StoreInv, EventInv, [StoreNext(EventIds)]_storeVars
    PROVE  EventInv'
<1> USE DEF EventInv
<1>0. index \in Seq(Records)
  BY DEF StoreInv, StoreTypeOK
<1>1. ASSUME NEW event \in EventIds, NEW d \in BOOLEAN,
             Unpublished(event), WriteEvent(event, d)
      PROVE  EventInv'
  <2>1. /\ UNCHANGED <<index, tail, head, appending>>
        /\ \A f \in events : f.event # event => f \in events'
    BY <1>1 DEF WriteEvent
  <2>2. \A i \in DOMAIN index : index[i].event # event
    BY <1>1, RepairedEvents DEF Unpublished
  <2>3. EventsMatch'
    BY <2>1, <2>2 DEF EventsMatch
  <2>4. tail.cut \in {"newline", "signature"} => FileOf(tail.record) \in events'
    <3> SUFFICES ASSUME tail.cut \in {"newline", "signature"}
                 PROVE  FileOf(tail.record) \in events'
      OBVIOUS
    <3>1. FileOf(tail.record) \in events /\ tail.record \in Records
      BY DEF PendingInv, StoreInv, StoreTypeOK, NoTail
    <3>2. Published(tail.record.event)
      <4>1. ReadableIndex = Append(index, tail.record)
        BY DEF ReadableIndex
      <4>2. Len(index) + 1 \in DOMAIN ReadableIndex /\ ReadableIndex[Len(index) + 1] = tail.record
        BY <1>0, <3>1, <4>1
      <4> QED
        BY <4>2 DEF Published
    <3> QED
      BY <1>1, <2>1, <3>1, <3>2 DEF Unpublished, FileOf
  <2>5. appending.at = "repaired" => FileOf(appending.record) \in events'
    <3> SUFFICES ASSUME appending.at = "repaired"
                 PROVE  FileOf(appending.record) \in events'
      OBVIOUS
    <3>1. FileOf(appending.record) \in events
      BY DEF PendingInv
    <3> QED
      BY <1>1, <2>1, <3>1 DEF Unpublished, FileOf
  <2> QED
    BY <2>1, <2>3, <2>4, <2>5 DEF OneRecordPerEvent, PendingInv
<1>2. ASSUME NEW w \in Writers, NEW event \in EventIds, Unpublished(event), BeginAppend(w, event)
      PROVE  EventInv'
  <2>1. PICK f \in events : /\ f.event = event
                            /\ appending' = [by |-> w, at |-> "repaired",
                                   record |-> [seq |-> NextSeq(RepairedIndex), event |-> event,
                                               dethroned |-> f.dethroned]]
    BY <1>2 DEF BeginAppend
  <2>2. index' = RepairedIndex /\ tail' = NoTail /\ UNCHANGED <<head, events>>
    BY <1>2 DEF BeginAppend
  <2>3. OneRecordPerEvent' /\ EventsMatch'
    BY <2>2, RepairedEvents DEF OneRecordPerEvent, EventsMatch, FileOf
  <2>4. \A i \in DOMAIN index' : index'[i].event # event
    BY <1>2, <2>2, RepairedEvents DEF Unpublished
  <2>5. f = FileOf(appending'.record)
    BY <2>1 DEF FileOf, StoreInv, StoreTypeOK
  <2> QED
    BY <2>1, <2>2, <2>3, <2>4, <2>5 DEF PendingInv, NoTail
<1>3. ASSUME NEW w \in Writers, WriteLine(w)
      PROVE  EventInv'
  <2>1. tail = NoTail
    BY <1>3 DEF WriteLine, StoreInv, AppendInv, Unlocked
  <2>2. appending.record \in Records
    BY <1>3 DEF WriteLine, StoreInv, StoreTypeOK, Unlocked
  <2>3. index' = Append(index, appending.record)
    BY <1>3, <2>1 DEF WriteLine
  <2>4. OneRecordPerEvent' /\ EventsMatch'
    BY <1>3, <2>2, <2>3, AppendedEvent DEF WriteLine, PendingInv
  <2>5. appending'.at = "written" /\ tail' = NoTail
    BY <1>3 DEF WriteLine, StoreInv, StoreTypeOK, Unlocked
  <2> QED
    BY <2>4, <2>5 DEF PendingInv, NoTail
<1>4. ASSUME NEW w \in Writers, WriteHead(w) \/ RewriteHead(w)
      PROVE  EventInv'
  BY <1>4 DEF WriteHead, RewriteHead, OneRecordPerEvent, EventsMatch, PendingInv, Unlocked
<1>5. ASSUME NEW w \in Writers, BeginRebuild(w)
      PROVE  EventInv'
  <2>1. /\ index' = RepairedIndex /\ tail' = NoTail /\ UNCHANGED <<head, events>>
        /\ appending'.at = "rebuilding"
    BY <1>5 DEF BeginRebuild
  <2> QED
    BY <2>1, RepairedEvents DEF OneRecordPerEvent, EventsMatch, PendingInv, NoTail, FileOf
<1>6. ASSUME NEW w \in Writers, AbandonAppend(w)
      PROVE  EventInv'
  <2>1. appending' = Unlocked /\ UNCHANGED <<head, events>>
    BY <1>6 DEF AbandonAppend
  <2>2. CASE UNCHANGED <<index, tail>>
    BY <2>1, <2>2 DEF OneRecordPerEvent, EventsMatch, PendingInv, Unlocked
  <2>3. CASE appending.at = "repaired" /\ index' = Append(index, appending.record) /\ UNCHANGED tail
    <3>1. appending.record \in Records /\ tail = NoTail
      BY <2>3 DEF StoreInv, StoreTypeOK, AppendInv, Unlocked
    <3>2. OneRecordPerEvent' /\ EventsMatch'
      BY <2>1, <2>3, <3>1, AppendedEvent DEF PendingInv
    <3> QED
      BY <2>1, <2>3, <3>1, <3>2 DEF PendingInv, NoTail, Unlocked
  <2>4. CASE /\ appending.at = "repaired"
             /\ \E cut \in Cuts : tail' = [cut |-> cut, record |-> appending.record]
             /\ UNCHANGED index
    BY <2>1, <2>4 DEF OneRecordPerEvent, EventsMatch, PendingInv, Unlocked
  <2> QED
    BY <1>6, <2>2, <2>3, <2>4 DEF AbandonAppend
<1>7. CASE UNCHANGED storeVars
  BY <1>7 DEF storeVars, OneRecordPerEvent, EventsMatch, PendingInv
<1> QED
  BY <1>1, <1>2, <1>3, <1>4, <1>5, <1>6, <1>7 DEF StoreNext

(* The lines, their files and the records on their way, together. *)
THEOREM EventInvariance == StoreSpec => [](StoreInv /\ EventInv)
<1>1. StoreInit => StoreInv /\ EventInv
  BY StoreInitInv DEF StoreInit, EventInv, OneRecordPerEvent, EventsMatch, PendingInv, NoTail,
                      Unlocked
<1>2. StoreInv /\ EventInv /\ [StoreNext(EventIds)]_storeVars => (StoreInv /\ EventInv)'
  BY StoreStepInv, EventStepInv
<1> QED
  BY <1>1, <1>2, PTL DEF StoreSpec

(* writer.py write_event and append: the event file a record was signed with is *)
(* never written again while its line can be read.                              *)
THEOREM EventFilesAreKept == StoreSpec => []EventsMatch
<1>1. EventInv => EventsMatch
  BY DEF EventInv
<1> QED
  BY <1>1, EventInvariance, PTL

-----------------------------------------------------------------------------
(* A store with no torn line has no error in its lines. *)
LEMMA WholeLines ==
    ASSUME StoreInv, EventInv, tail = NoTail
    PROVE  LineErrors(index) = {}
<1>1. tail.cut = "none"
  BY DEF NoTail
<1>2. index \in Seq(Records) /\ \A i \in DOMAIN index : index[i].seq = i
  BY DEF StoreInv, StoreTypeOK, SeqContiguous
<1>3. \A i \in DOMAIN index : index[i].seq = (IF i = 1 THEN 1 ELSE index[i - 1].seq + 1)
  <2> SUFFICES ASSUME NEW i \in DOMAIN index
               PROVE  index[i].seq = (IF i = 1 THEN 1 ELSE index[i - 1].seq + 1)
    OBVIOUS
  <2>1. CASE i = 1
    BY <1>2, <2>1
  <2>2. CASE i # 1
    <3>1. i - 1 \in DOMAIN index
      BY <1>2, <2>2
    <3>2. index[i].seq = i /\ index[i - 1].seq = i - 1
      BY <1>2, <3>1
    <3>3. i = (i - 1) + 1
      BY <1>2
    <3> QED
      BY <2>2, <3>2, <3>3
  <2> QED
    BY <2>1, <2>2
<1>4. \A i \in DOMAIN index :
         [event |-> index[i].event, dethroned |-> index[i].dethroned] \in events
  BY DEF EventInv, EventsMatch
<1> QED
  BY <1>1, <1>3, <1>4 DEF LineErrors

(* The head is found wrong exactly where it is not of the last line. *)
LEMMA HeadChecked ==
    ASSUME StoreInv
    PROVE  HeadErrors(index) = {} <=>
              head = IF index = <<>> THEN EmptyHead ELSE HeadOf(index[Len(index)])
<1>1. /\ index \in Seq(Records)
      /\ head \in [seq : Nat, event : EventIds \cup {None}, king : Submissions \cup {None}]
  BY DEF StoreInv, StoreTypeOK
<1>2. HeadErrors(index) = {} <=>
         /\ IF index = <<>> THEN head.seq = 0
            ELSE head.seq = index[Len(index)].seq /\ head.event = index[Len(index)].event
         /\ head.king = Holder(index)
  <2>1. "head" \in HeadErrors(index) <=>
           IF index = <<>> THEN head.seq # 0
           ELSE head.seq # index[Len(index)].seq \/ head.event # index[Len(index)].event
    BY DEF HeadErrors
  <2>2. "king" \in HeadErrors(index) <=> head.king # Holder(index)
    BY DEF HeadErrors
  <2>3. HeadErrors(index) \subseteq {"head", "king"}
    BY DEF HeadErrors
  <2> QED
    BY <2>1, <2>2, <2>3
<1>3. CASE index = <<>>
  <2>1. head = EmptyHead
    BY <1>3 DEF StoreInv, HeadBacked
  <2> QED
    BY <1>2, <1>3, <2>1 DEF EmptyHead, Holder
<1>4. CASE index # <<>>
  <2>1. Holder(index) = KingAfter(index[Len(index)])
    BY <1>4 DEF Holder
  <2>2. HeadOf(index[Len(index)]) = [seq |-> index[Len(index)].seq,
                                     event |-> index[Len(index)].event,
                                     king |-> Holder(index)]
    BY <2>1 DEF HeadOf
  <2>3. head = [seq |-> head.seq, event |-> head.event, king |-> head.king]
    BY <1>1
  <2> QED
    BY <1>2, <1>4, <2>2, <2>3
<1> QED
  BY <1>3, <1>4

(* verify.py: while nobody appends, a reader's check finds no error exactly when *)
(* no line is torn and the head is of the last line: whatever kills, torn lines  *)
(* and repairs came before, it never cries wolf over a healed store, and never   *)
(* passes over one that is not.                                                  *)
THEOREM HealedStoreVerifies == StoreSpec => []VerifiesAtRest
<1>1. StoreInv /\ EventInv => VerifiesAtRest
  <2> SUFFICES ASSUME StoreInv, EventInv, appending = Unlocked, NEW signed \in BOOLEAN
               PROVE  VerifyErrors(signed) = {} <=> AtRest
    BY DEF VerifiesAtRest
  <2>1. CASE tail # NoTail
    <3>1. "no newline" \in LineErrors(CheckedLines(signed))
      BY <2>1 DEF LineErrors
    <3> QED
      BY <2>1, <3>1 DEF VerifyErrors, AtRest
  <2>2. CASE tail = NoTail
    <3>1. CheckedLines(signed) = index
      BY <2>2 DEF CheckedLines, NoTail
    <3>2. VerifyErrors(signed) = HeadErrors(index)
      BY <2>2, <3>1, WholeLines DEF VerifyErrors
    <3> QED
      BY <2>2, <3>2, HeadChecked DEF AtRest
  <2> QED
    BY <2>1, <2>2
<1> QED
  BY <1>1, EventInvariance, PTL

=============================================================================
