---------------------------- MODULE PolicyCalls ----------------------------
(***************************************************************************)
(* What a benchmark is promised of a policy's session, with no socket,     *)
(* process or clock in it: calls are made one at a time; each is answered, *)
(* by the reply to that very call, or lost; after a lost call there is     *)
(* never an answer again.                                                  *)
(***************************************************************************)
EXTENDS Naturals

VARIABLES
    asked,    \* the calls made so far
    waiting,  \* whether the last of them is not over
    heard,    \* the last call answered, 0 for none
    lost      \* whether the session is over

Init ==
    /\ asked = 0
    /\ waiting = FALSE
    /\ heard = 0
    /\ lost = FALSE

Ask ==
    /\ ~waiting
    /\ asked' = asked + 1
    /\ waiting' = TRUE
    /\ UNCHANGED <<heard, lost>>

Answer ==
    /\ waiting /\ ~lost
    /\ heard' = asked
    /\ waiting' = FALSE
    /\ lost' \in {lost, TRUE}
    /\ UNCHANGED asked

Lose ==
    /\ waiting' = FALSE
    /\ lost' = TRUE
    /\ UNCHANGED <<asked, heard>>

Next == Ask \/ Answer \/ Lose

Spec == Init /\ [][Next]_<<asked, waiting, heard, lost>>
=============================================================================
