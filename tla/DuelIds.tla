------------------------------ MODULE DuelIds ------------------------------
(***************************************************************************)
(* What names a duel on one track: ids.py's event_id, a hash of the kind,  *)
(* the block and the pair, taken here as the tuple it is a hash of (two    *)
(* different tuples never share an id), and orchestrate.py's DuelRequest.  *)
(***************************************************************************)
EXTENDS Integers

CONSTANTS
    Submissions,  \* submissions, by key (repo@revision)
    Sizes,        \* the duel sizes of the track's spec
    None          \* JSON's null: no king, no entry, no duel in progress

(* An event id: who asks whom, in which of the queue's blocks. *)
EventIds == [block : Nat, challenger : Submissions, king : Submissions \cup {None}]

(* request.json: the event and the one thing its id does not say, the size. *)
Requests == [event : EventIds, size : Sizes]

Entries == [key : Submissions, size : Sizes]

(* null is not a submission, and not an object either. *)
ASSUME NoneAssumption == None \notin Submissions \cup Sizes \cup EventIds \cup Requests \cup Entries

Kind(event) == IF event.king = None THEN "genesis" ELSE "duel"

Max2(a, b) == IF a >= b THEN a ELSE b
=============================================================================
