-------------------------- MODULE MCOrchestration --------------------------
(* The orchestrator on small instances: the submissions are interchangeable  *)
(* wherever no baseline is declared and none is kept from the command line.  *)
EXTENDS Orchestration, StoreVerify, TLC

Symmetry == Permutations(Submissions)
=============================================================================
