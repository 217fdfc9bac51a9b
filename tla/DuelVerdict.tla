---------------------------- MODULE DuelVerdict ----------------------------
(***************************************************************************)
(* The crown as a duel's published rows decide it: duel/score.py over the  *)
(* rows that DuelUnits leaves (orchestrate.py _publish).  What a side      *)
(* scored on a unit it played is not in DuelUnits: every outcome is tried. *)
(***************************************************************************)
EXTENDS DuelUnits

CONSTANTS
    Skills,     \* the track's skills
    SkillMaps,  \* the units' skills, in the ways looked at
    Margins     \* the score margins looked at, in percentage points

ASSUME VerdictAssumption ==
    /\ SkillMaps \subseteq [Units -> Skills]
    /\ Margins \subseteq 0 .. 100

Crown == INSTANCE Score

(* A unit the side has a score of; one it failed to play is a failure. *)
MayWin(u, s) == ~rows[u].void /\ rows[u].result[s].kind = "scored"

(* A row's {side}_success: nothing on a void unit, and otherwise what the      *)
(* side's result says.                                                         *)
Success(u, s, won) ==
    CASE rows[u].void \/ rows[u].result[s].kind \in {"none", "void"} -> "none"
      [] <<u, s>> \in won -> "yes"
      [] OTHER -> "no"

(* The rows as published, if the units are of these skills and the sides won   *)
(* these.                                                                      *)
PublishedRows(skill, won) ==
    [u \in Units |-> [skill |-> skill[u], void |-> rows[u].void,
                      king |-> Success(u, "king", won),
                      challenger |-> Success(u, "challenger", won)]]

(* The rule in terms of the paired outcomes: over the skills a unit counted    *)
(* for, the mean of (wins - losses) / units is at least the margin.            *)
MarginMet(published, margin) ==
    LET counted == {s \in Skills : \E u \in Units : published[u].skill = s /\ ~published[u].void}
        lead(s) == LET t == Crown!Tally(published, s)
                   IN <<t.wins - t.losses, t.wins + t.losses + t.ties>>
        total == Crown!Total([s \in counted |-> lead(s)])
    IN /\ counted # {}
       /\ 100 * total[1] >= margin * Cardinality(counted) * total[2]

(* score.py, "a side that could not be scored on a unit must not let the other  *)
(* side be scored on it alone": however the duel was stopped, resumed and       *)
(* merged, both sides are scored on the same units, so the crown, which is      *)
(* decided by each side's own rates and their means, is the paired outcomes'.   *)
CrownByPairs ==
    (Published /\ "king" \in Players) =>
       \A skill \in SkillMaps, won \in SUBSET {p \in Units \X Players : MayWin(p[1], p[2])},
          margin \in Margins :
          LET published == PublishedRows(skill, won)
          IN Crown!Dethroned(published, margin, Skills) <=> MarginMet(published, margin)
=============================================================================
