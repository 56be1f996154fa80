------------------------------ MODULE Routine ------------------------------
(***************************************************************************)
(* The coroutine environment of one thread (routine.h, routine.cpp,        *)
(* coctx.cpp): the call stack of RoutineEnv_t, and the start and end flags *)
(* and the saved context of every Routine_t.                               *)
(*                                                                         *)
(* A saved context is abstracted to the place where the routine continues  *)
(* when the context is loaded: "none" (never written), "entry" (made by    *)
(* Coctx_make: RoutineFunc), "resume" (inside its call of Resume), "yield" *)
(* (inside its call of Yield), "return" (the end of RoutineFunc, which has *)
(* no caller to return to).                                                *)
(***************************************************************************)
EXTENDS Naturals, FiniteSets, Sequences, SequencesExt

CONSTANTS Routine,   (* the Routine_t objects a program may create         *)
          Main,      (* the main routine made by init_curr_thread_env      *)
          NoRoutine, (* no routine                                         *)
          Capacity   (* the length of CallStack_: 128 in the code          *)

ASSUME RoutineAssumption == /\ Main \notin Routine
                            /\ NoRoutine \notin Routine \cup {Main}
                            /\ Capacity \in Nat
                            /\ IsFiniteSet(Routine)
                            /\ Cardinality(Routine) < Capacity

VARIABLES callStack, (* CallStack_[0 .. CallStackSize_ - 1]                *)
          created,   (* the routines that have been constructed            *)
          start,     (* start_ of each routine                             *)
          end,       (* end_ of each routine                               *)
          ctx        (* ctx_ of each routine, Main included                *)

vars == <<callStack, created, start, end, ctx>>

AnyRoutine == Routine \cup {Main}
Site == {"none", "entry", "resume", "yield", "return"}

Running == Last(callStack)

Init == /\ callStack = <<Main>>
        /\ created = {}
        /\ start = [r \in Routine |-> FALSE]
        /\ end = [r \in Routine |-> FALSE]
        /\ ctx = [r \in AnyRoutine |-> "none"]

-----------------------------------------------------------------------------
(* Mutant: the context is saved in the main routine. *)
Swap_Main(made, site) == ctx' = [made EXCEPT ![Main] = site]

(* Swap_two_routine: the current routine's context is saved at the site of *)
(* the call; what runs next is the top of the new call stack.              *)
Swap(made, site) == ctx' = [made EXCEPT ![Running] = site]

(* Mutant: the context is made anew on every Resume. *)
Made_EveryTime(r) == [ctx EXCEPT ![r] = "entry"]

(* The contexts after Coctx_make, which only a first Resume calls. *)
Made(r) == IF start[r] THEN ctx ELSE [ctx EXCEPT ![r] = "entry"]

Create(r) == /\ r \notin created
             /\ created' = created \cup {r}
             /\ UNCHANGED <<callStack, start, end, ctx>>

Resume(r) == /\ Swap(Made(r), "resume")
             /\ start' = [start EXCEPT ![r] = TRUE]
             /\ callStack' = Append(callStack, r)
             /\ UNCHANGED <<created, end>>

(* Mutants: yield_env goes back to the main routine, or does not pop. *)
Popped_ToMain == <<Main>>
Popped_Not == Append(callStack, callStack[Len(callStack) - 1])

(* The stack that yield_env leaves: the routine below the top runs next. *)
Popped == Front(callStack)

Yield == /\ Running # Main
         /\ Swap(ctx, "yield")
         /\ callStack' = Popped
         /\ UNCHANGED <<created, start, end>>

(* The tail of RoutineFunc, once the routine's function has returned. *)
Finish == /\ Running # Main
          /\ end' = [end EXCEPT ![Running] = TRUE]
          /\ Swap(ctx, "return")
          /\ callStack' = Popped
          /\ UNCHANGED <<created, start>>

(* Resume checks nothing; its callers resume a routine that is neither     *)
(* finished nor on the call stack.                                         *)
MayResume(r) == /\ r \in created
                /\ ~end[r]
                /\ r \notin ToSet(callStack)

Next == \/ \E r \in Routine : Create(r) \/ (MayResume(r) /\ Resume(r))
        \/ Yield
        \/ Finish

Spec == Init /\ [][Next]_vars

-----------------------------------------------------------------------------
TypeOK == /\ callStack \in Seq(AnyRoutine)
          /\ created \subseteq Routine
          /\ start \in [Routine -> BOOLEAN]
          /\ end \in [Routine -> BOOLEAN]
          /\ ctx \in [AnyRoutine -> Site]

(* The main routine is at the bottom of the call stack and nowhere else,   *)
(* and no routine is on it twice: every Yield finds a caller below it.     *)
StackWellFormed == /\ callStack # <<>>
                   /\ callStack[1] = Main
                   /\ \A i, j \in 1 .. Len(callStack) :
                         callStack[i] = callStack[j] => i = j

(* A context that a swap can load is one to continue from: a routine below *)
(* the top continues inside its Resume, and one that may be resumed and    *)
(* has run before inside its Yield; never at the "return" of a finished    *)
(* routine.                                                                *)
ContextsValid ==
  /\ \A i \in 1 .. Len(callStack) - 1 : ctx[callStack[i]] = "resume"
  /\ \A r \in created : MayResume(r) =>
        ctx[r] = IF start[r] THEN "yield" ELSE "none"

(* A routine that gets the processor continues where it left it: inside    *)
(* its Resume if the routine above it gave control back, and if it was     *)
(* resumed itself inside its Yield, or at the entry the first time.        *)
ContinuesWhereItStopped ==
  [][\A r \in AnyRoutine : Running' = r /\ Running # r =>
       ctx'[r] = CASE Len(callStack') < Len(callStack) -> "resume"
                   [] Len(callStack') > Len(callStack) /\ start[r] -> "yield"
                   [] OTHER -> "entry"]_vars

(* CallStack_ is never written past its end. *)
StackFits == Len(callStack) <= Capacity

-----------------------------------------------------------------------------
(* The call stack implements asymmetric coroutines. *)
OnStack(r) == r \in ToSet(callStack)

PhaseOf(r) == CASE r \notin created -> "absent"
                [] r \in created /\ OnStack(r) -> "active"
                [] r \in created /\ ~OnStack(r) /\ end[r] -> "finished"
                [] OTHER -> "suspended"

ResumerOf(r) ==
  IF OnStack(r)
  THEN callStack[(CHOOSE i \in 1 .. Len(callStack) : callStack[i] = r) - 1]
  ELSE NoRoutine

Abs == INSTANCE Coroutine WITH
         phase <- [r \in Routine |-> PhaseOf(r)],
         running <- Running,
         resumer <- [r \in Routine |-> ResumerOf(r)]

(* Every step of the environment is a step of the abstract coroutines:     *)
(* a routine that yields or returns gives control to the one that resumed  *)
(* it, however deeply the calls are nested.                                *)
ImplementsCoroutine == Abs!Spec
=============================================================================
