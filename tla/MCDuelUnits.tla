---------------------------- MODULE MCDuelUnits ----------------------------
(* One duel of a challenger and a king, over a few units. *)
EXTENDS DuelVerdict

MCSides == <<"challenger", "king">>

(* All units of one skill, and a skill each. *)
MCSkillMaps == {[u \in Units |-> 1], [u \in Units |-> u]}
=============================================================================
