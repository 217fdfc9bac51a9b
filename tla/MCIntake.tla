------------------------------ MODULE MCIntake ------------------------------
(* The intake, the daemon's loop and the command line over one track's queue. *)
EXTENDS Intake
=============================================================================
