-------------------------- MODULE MCPolicySession --------------------------
(* One unit's session for TLC: everything of it is bounded by its calls. *)
EXTENDS PolicySession
=============================================================================
