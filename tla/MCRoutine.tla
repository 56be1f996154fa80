----------------------------- MODULE MCRoutine -----------------------------
(* Three routines and a call stack with room for exactly all of them. *)
EXTENDS Routine
CONSTANTS r1, r2, r3
MCRoutines == {r1, r2, r3}
MCCapacity == 4
=============================================================================
