----------------------------- MODULE Survivors -----------------------------
(***************************************************************************)
(* What outlives an orchestrator that was killed, with either runtime: a   *)
(* unit's process groups, in the ledger of its directory (both runtimes'   *)
(* benchmark, and the local runtime's policy server), or policy            *)
(* containers, under their owner's labels (the docker runtime's policy).   *)
(* Neither reaper reads what the other one ends, so each runtime's part is *)
(* taken by itself, the groups with the runtime that has both kinds.       *)
(***************************************************************************)
EXTENDS Orphans, PolicyContainers

VARIABLE runtime

survivorVars == <<groupVars, containerVars, runtime>>

(* Types. *)
SurvivorsTypeOK == GroupsTypeOK /\ ContainersTypeOK /\ runtime \in {"local", "docker"}

SurvivorsInit == GroupsInit /\ ContainersInit /\ runtime \in {"local", "docker"}

SurvivorsNext ==
    \/ runtime = "local" /\ GroupsNext /\ UNCHANGED <<containerVars, runtime>>
    \/ runtime = "docker" /\ ContainersNext /\ UNCHANGED <<groupVars, runtime>>

Spec == SurvivorsInit /\ [][SurvivorsNext]_survivorVars

=============================================================================
