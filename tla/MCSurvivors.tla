---------------------------- MODULE MCSurvivors ----------------------------
(* What outlives an orchestrator, on small instances: pids and namespaces    *)
(* are interchangeable.                                                      *)
EXTENDS Survivors, TLC

Symmetry == {f @@ g @@ h : f \in Permutations(Spaces), g \in Permutations(Pids),
                           h \in Permutations(PidsOf)}
=============================================================================
