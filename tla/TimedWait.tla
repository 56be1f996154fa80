----------------------------- MODULE TimedWait -----------------------------
(***************************************************************************)
(* What Channel::addEpoll promises to a coroutine: it waits until an event *)
(* is reported for it or until the clock has been seen past its deadline,  *)
(* never less and, if the clock stays past the deadline, not for ever.     *)
(* Nothing is said here of timers, of their order or of the descriptor     *)
(* that drives them.                                                       *)
(***************************************************************************)
EXTENDS Naturals

CONSTANTS Routine,   (* the coroutines that wait                           *)
          Delays     (* the lengths of a wait, in ticks                    *)

VARIABLES now,       (* the wall clock                                     *)
          waiting,   (* the routines that wait                             *)
          deadline,  (* the deadline of each, 0 for one that does not wait *)
          due,       (* those of them whose deadline was seen to be over   *)
          reported   (* the routines with an event yet to be dispatched    *)

vars == <<now, waiting, deadline, due, reported>>

Init == /\ now = 0
        /\ waiting = {}
        /\ deadline = [r \in Routine |-> 0]
        /\ due = {}
        /\ reported = {}

(* The clock goes on, and it may be set. *)
MoveClock == /\ now' \in Nat
             /\ UNCHANGED <<waiting, deadline, due, reported>>

Report(S) == /\ reported = {}
             /\ reported' = S
             /\ UNCHANGED <<now, waiting, deadline, due>>

Wait(r, d) == /\ r \notin waiting
              /\ waiting' = waiting \cup {r}
              /\ deadline' = [deadline EXCEPT ![r] = now + d]
              /\ UNCHANGED <<now, due, reported>>

EndWait(r) == /\ r \in waiting
              /\ waiting' = waiting \ {r}
              /\ deadline' = [deadline EXCEPT ![r] = 0]
              /\ due' = due \ {r}
              /\ UNCHANGED now

Dispatch(r) == /\ r \in reported
               /\ reported' = reported \ {r}
               /\ \/ EndWait(r)
                  \/ r \notin waiting /\ UNCHANGED <<now, waiting, deadline, due>>

(* The deadlines of the routines in S are over. *)
Expire(S) == /\ S \subseteq waiting \ due
             /\ \A r \in S : now > deadline[r]
             /\ due' = due \cup S
             /\ UNCHANGED <<now, waiting, deadline, reported>>

TimeOut(r) == /\ r \in due
              /\ EndWait(r)
              /\ UNCHANGED reported

Next == \/ MoveClock
        \/ \E S \in SUBSET Routine : Report(S) \/ Expire(S)
        \/ \E r \in Routine : \/ \E d \in Delays : Wait(r, d)
                              \/ Dispatch(r)
                              \/ TimeOut(r)

Spec == /\ Init
        /\ [][Next]_vars
        /\ \A r \in Routine :
             /\ WF_vars(\E S \in SUBSET Routine : r \in S /\ Expire(S))
             /\ WF_vars(TimeOut(r))
=============================================================================
