------------------------------- MODULE Score -------------------------------
(***************************************************************************)
(* duel/score.py: the scores of a duel's published rows and the crown      *)
(* rule.  A row is its skill, whether it is void, and each side's success  *)
(* on it, "yes", "no" or "none".  Rates and averages are fractions kept    *)
(* exactly, <<numerator, denominator>>; the code's floats meet them within *)
(* SCORE_EPSILON, which is for a margin met exactly.                       *)
(***************************************************************************)
EXTENDS Integers, FiniteSets, Folds

(* None, for a rate or an average there is not. *)
NoRate == <<0, 0>>

Plus(p, q) == <<p[1] * q[2] + q[1] * p[2], p[2] * q[2]>>

AtLeast(p, q) == p[1] * q[2] >= q[1] * p[2]

Scored(rows, side, skill) ==
    {u \in DOMAIN rows : /\ rows[u].skill = skill
                         /\ ~rows[u].void
                         /\ rows[u][side] # "none"}

Successes(rows, side, skill) == {u \in Scored(rows, side, skill) : rows[u][side] = "yes"}

SkillRate(rows, side, skill) ==
    IF Scored(rows, side, skill) = {} THEN NoRate
    ELSE <<Cardinality(Successes(rows, side, skill)), Cardinality(Scored(rows, side, skill))>>

Any(S) == CHOOSE s \in S : TRUE

(* sum, over the skills that each have a fraction. *)
Total(fractions) ==
    MapThenFoldSet(Plus, <<0, 1>>, LAMBDA s : fractions[s], Any, DOMAIN fractions)

SumOfRates(rows, side, skills) == Total([s \in skills |-> SkillRate(rows, side, s)])

Rated(rows, side, skills) == {s \in skills : SkillRate(rows, side, s) # NoRate}

MeanOver(sum, n) == <<sum[1], sum[2] * n>>

(* Slip: a skill with no rate counts as one never succeeded in. *)
AverageOfAll(rows, side, skills) ==
    LET rated == Rated(rows, side, skills) IN
    IF rated = {} THEN NoRate
    ELSE MeanOver(SumOfRates(rows, side, rated), Cardinality(skills))

(* The mean of the rates there are. *)
Average(rows, side, skills) ==
    LET rated == Rated(rows, side, skills) IN
    IF rated = {} THEN NoRate
    ELSE MeanOver(SumOfRates(rows, side, rated), Cardinality(rated))

CrownMoves(king, challenger, margin) ==
    /\ king # NoRate /\ challenger # NoRate
    /\ AtLeast(challenger, Plus(king, <<margin, 100>>))

Dethroned(rows, margin, skills) ==
    CrownMoves(Average(rows, "king", skills), Average(rows, "challenger", skills), margin)

PairedOutcome(king, challenger) ==
    IF "none" \in {king, challenger} \/ king = challenger THEN "tie"
    ELSE IF challenger = "yes" THEN "challenger" ELSE "king"

(* tally, from the challenger's side: a void unit counts as void only.         *)
Tally(rows, skill) ==
    LET of(outcome) ==
          {u \in DOMAIN rows : /\ rows[u].skill = skill /\ ~rows[u].void
                               /\ PairedOutcome(rows[u].king, rows[u].challenger) = outcome}
    IN [wins |-> Cardinality(of("challenger")), losses |-> Cardinality(of("king")),
        ties |-> Cardinality(of("tie"))]
=============================================================================
