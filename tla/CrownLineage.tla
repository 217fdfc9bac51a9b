---------------------------- MODULE CrownLineage ----------------------------
(***************************************************************************)
(* What a track promises its readers, with no queue, no files and no       *)
(* faults: a lineage of duels that only grows, each published once, each   *)
(* fought against the king the ones before it crowned.                     *)
(***************************************************************************)
EXTENDS Sequences, Naturals

CONSTANTS
    Duels,  \* event ids: a block, a challenger and a king
    None    \* nobody

VARIABLE lineage  \* the published duels, oldest first, and whether each moved the crown

Crowned(entry) ==
    IF entry.event.king = None \/ entry.moved THEN entry.event.challenger ELSE entry.event.king

King == IF lineage = <<>> THEN None ELSE Crowned(lineage[Len(lineage)])

Init == lineage = <<>>

Publish(duel, moved) ==
    /\ duel.king = King
    /\ duel.challenger # King
    /\ \A i \in DOMAIN lineage : lineage[i].event # duel
    /\ duel.king = None => ~moved
    /\ lineage' = Append(lineage, [event |-> duel, moved |-> moved])

Next == \E duel \in Duels, moved \in BOOLEAN : Publish(duel, moved)

Spec == Init /\ [][Next]_lineage
=============================================================================
