----------------------------- MODULE Coroutine -----------------------------
(***************************************************************************)
(* What the coroutine layer promises: asymmetric coroutines.  A routine    *)
(* runs from the moment it is resumed until it yields or returns, and it   *)
(* then gives control back to the routine that resumed it.  Nothing is     *)
(* said here of stacks or saved contexts.                                  *)
(***************************************************************************)
CONSTANTS Routine,   (* the coroutines a program may create                *)
          Main,      (* the main routine of the thread                     *)
          NoRoutine  (* stands for "nobody"                                *)

VARIABLES phase,     (* [Routine -> Phase]                                 *)
          running,   (* the routine that has the processor                 *)
          resumer    (* who resumed each active routine                    *)

vars == <<phase, running, resumer>>

Phase == {"absent", "suspended", "active", "finished"}

Init == /\ phase = [r \in Routine |-> "absent"]
        /\ running = Main
        /\ resumer = [r \in Routine |-> NoRoutine]

Create(r) == /\ phase[r] = "absent"
             /\ phase' = [phase EXCEPT ![r] = "suspended"]
             /\ UNCHANGED <<running, resumer>>

Resume(r) == /\ phase[r] = "suspended"
             /\ phase' = [phase EXCEPT ![r] = "active"]
             /\ resumer' = [resumer EXCEPT ![r] = running]
             /\ running' = r

(* The running routine r gives control back and is left in phase p. *)
GiveBack(r, p) == /\ running = r
                  /\ phase' = [phase EXCEPT ![r] = p]
                  /\ running' = resumer[r]
                  /\ resumer' = [resumer EXCEPT ![r] = NoRoutine]

Next == \E r \in Routine : \/ Create(r)
                           \/ Resume(r)
                           \/ GiveBack(r, "suspended")
                           \/ GiveBack(r, "finished")

Spec == Init /\ [][Next]_vars
=============================================================================
