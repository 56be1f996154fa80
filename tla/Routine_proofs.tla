--------------------------- MODULE Routine_proofs ---------------------------
(***************************************************************************)
(* What holds of the coroutine environment for every set of routines.      *)
(*                                                                         *)
(* The invariant IInv adds to the invariants of module Routine what makes  *)
(* them inductive: what is known of a routine that has not been            *)
(* constructed, and that a routine on the call stack has been started and  *)
(* has not ended.                                                          *)
(***************************************************************************)
EXTENDS Routine, TLAPS, SequenceTheorems, FiniteSetTheorems

StackStarted == \A i \in 2 .. Len(callStack) :
                   /\ callStack[i] \in created
                   /\ start[callStack[i]]
                   /\ ~end[callStack[i]]

FreshRoutines ==
  \A r \in Routine \ created : ~start[r] /\ ~end[r] /\ ctx[r] = "none"

IInv == /\ TypeOK
        /\ StackWellFormed
        /\ StackStarted
        /\ FreshRoutines
        /\ ContextsValid

-----------------------------------------------------------------------------
(* Front drops the last element of a sequence and keeps the others. *)
LEMMA FrontProperties ==
  ASSUME NEW S, NEW s \in Seq(S), s # <<>>
  PROVE  /\ Front(s) \in Seq(S)
         /\ Len(Front(s)) = Len(s) - 1
         /\ \A i \in 1 .. Len(s) - 1 : Front(s)[i] = s[i]
<1>1. Len(s) \in Nat /\ Len(s) # 0
  BY EmptySeq, LenProperties
<1>2. PICK n \in Nat : Len(s) = n + 1
  BY <1>1
<1>3. /\ SubSeq(s, 1, n) \in Seq(S)
      /\ Len(SubSeq(s, 1, n)) = n
      /\ \A i \in 1 .. n : SubSeq(s, 1, n)[i] = s[i]
  BY <1>2
<1>4. Front(s) = SubSeq(s, 1, n)
  BY <1>2 DEF Front
<1>5. QED
  BY <1>2, <1>3, <1>4

(* The elements of a sequence are those at its positions. *)
LEMMA InToSet ==
  ASSUME NEW S, NEW s \in Seq(S), NEW x
  PROVE  x \in ToSet(s) <=> \E i \in 1 .. Len(s) : s[i] = x
BY LenProperties DEF ToSet

(* The routine that runs, and that the stack has a caller for it if it is  *)
(* not the main routine: CallStack_[CallStackSize_ - 2] in yield_env is    *)
(* inside the array.                                                       *)
LEMMA RunningProperties ==
  ASSUME TypeOK, StackWellFormed
  PROVE  /\ Len(callStack) \in Nat \ {0}
         /\ Running = callStack[Len(callStack)]
         /\ Running \in AnyRoutine
         /\ Running # Main => Len(callStack) >= 2 /\ Running \in Routine
<1>1. Len(callStack) \in Nat \ {0}
  BY EmptySeq, LenProperties DEF TypeOK, StackWellFormed
<1>2. Running = callStack[Len(callStack)]
  BY DEF Running, Last
<1>3. Running \in AnyRoutine
  BY <1>1, <1>2, ElementOfSeq DEF TypeOK
<1>4. QED
  BY <1>1, <1>2, <1>3 DEF StackWellFormed, AnyRoutine

(* The stack that yield_env leaves. *)
LEMMA PoppedProperties ==
  ASSUME TypeOK, StackWellFormed, Running # Main
  PROVE  /\ Popped \in Seq(AnyRoutine)
         /\ Len(Popped) = Len(callStack) - 1
         /\ Len(Popped) \in Nat \ {0}
         /\ \A i \in 1 .. Len(Popped) : Popped[i] = callStack[i]
         /\ Popped # <<>>
         /\ \A r \in AnyRoutine :
               r \in ToSet(callStack) <=> r = Running \/ r \in ToSet(Popped)
<1>1. callStack \in Seq(AnyRoutine) /\ callStack # <<>>
  BY DEF TypeOK, StackWellFormed
<1>2. /\ Popped \in Seq(AnyRoutine)
      /\ Len(Popped) = Len(callStack) - 1
      /\ \A i \in 1 .. Len(callStack) - 1 : Popped[i] = callStack[i]
  BY <1>1, FrontProperties DEF Popped
<1>3. Len(Popped) \in Nat \ {0}
  BY <1>2, RunningProperties
<1>4. Popped # <<>>
  BY <1>3, EmptySeq
<1>5. \A r \in AnyRoutine :
         r \in ToSet(callStack) <=> r = Running \/ r \in ToSet(Popped)
  <2> SUFFICES ASSUME NEW r \in AnyRoutine
               PROVE  r \in ToSet(callStack) <=> r = Running \/ r \in ToSet(Popped)
    OBVIOUS
  <2>1. r \in ToSet(callStack) <=> \E i \in 1 .. Len(callStack) : callStack[i] = r
    BY <1>1, InToSet
  <2>2. r \in ToSet(Popped) <=> \E i \in 1 .. Len(Popped) : Popped[i] = r
    BY <1>2, InToSet
  <2>3. QED
    BY <1>2, <2>1, <2>2, RunningProperties
<1>6. QED
  BY <1>2, <1>3, <1>4, <1>5

(* The stack that Resume leaves. *)
LEMMA PushedProperties ==
  ASSUME TypeOK, StackWellFormed, NEW r \in Routine
  PROVE  /\ Append(callStack, r) \in Seq(AnyRoutine)
         /\ Len(Append(callStack, r)) = Len(callStack) + 1
         /\ \A i \in 1 .. Len(callStack) : Append(callStack, r)[i] = callStack[i]
         /\ Append(callStack, r)[Len(callStack) + 1] = r
         /\ Append(callStack, r) # <<>>
         /\ \A q \in AnyRoutine :
               q \in ToSet(Append(callStack, r)) <=> q = r \/ q \in ToSet(callStack)
<1> DEFINE pushed == Append(callStack, r)
<1>1. callStack \in Seq(AnyRoutine) /\ r \in AnyRoutine /\ Len(callStack) \in Nat
  BY RunningProperties DEF TypeOK, AnyRoutine
<1>2. /\ pushed \in Seq(AnyRoutine)
      /\ Len(pushed) = Len(callStack) + 1
      /\ \A i \in 1 .. Len(callStack) : pushed[i] = callStack[i]
      /\ pushed[Len(callStack) + 1] = r
  BY <1>1
<1>3. pushed # <<>>
  BY <1>1, <1>2, EmptySeq
<1>4. \A q \in AnyRoutine : q \in ToSet(pushed) <=> q = r \/ q \in ToSet(callStack)
  <2> SUFFICES ASSUME NEW q \in AnyRoutine
               PROVE  q \in ToSet(pushed) <=> q = r \/ q \in ToSet(callStack)
    OBVIOUS
  <2>1. q \in ToSet(callStack) <=> \E i \in 1 .. Len(callStack) : callStack[i] = q
    BY <1>1, InToSet
  <2>2. q \in ToSet(pushed) <=> \E i \in 1 .. Len(pushed) : pushed[i] = q
    BY <1>2, InToSet
  <2>3. QED
    BY <1>1, <1>2, <2>1, <2>2
<1>5. QED
  BY <1>2, <1>3, <1>4

-----------------------------------------------------------------------------
(* At first only the main routine is on the call stack, and runs. *)
LEMMA InitIInv == Init => IInv
<1> SUFFICES ASSUME Init PROVE IInv
  OBVIOUS
<1> USE DEF Init
<1>1. Main \in AnyRoutine /\ callStack \in Seq(AnyRoutine) /\ Len(callStack) = 1
  BY DEF AnyRoutine
<1>2. TypeOK
  BY <1>1 DEF TypeOK, Site
<1>3. StackWellFormed
  BY <1>1 DEF StackWellFormed
<1>4. StackStarted
  BY <1>1 DEF StackStarted
<1>5. FreshRoutines
  BY DEF FreshRoutines, AnyRoutine
<1>6. ContextsValid
  BY <1>1 DEF ContextsValid
<1>7. QED
  BY <1>2, <1>3, <1>4, <1>5, <1>6 DEF IInv

(* The constructor of Routine_t leaves the call stack alone. *)
LEMMA CreateIInv ==
  ASSUME IInv, NEW r \in Routine, Create(r)
  PROVE  IInv'
<1> USE DEF Create
<1>1. TypeOK'
  BY DEF IInv, TypeOK
<1>2. StackWellFormed'
  BY DEF IInv, StackWellFormed
<1>3. StackStarted'
  BY DEF IInv, StackStarted
<1>4. FreshRoutines'
  BY DEF IInv, FreshRoutines
<1>5. ContextsValid'
  BY DEF IInv, ContextsValid, MayResume, FreshRoutines
<1>6. QED
  BY <1>1, <1>2, <1>3, <1>4, <1>5 DEF IInv

(* Resume puts a routine on the stack that is not there yet. *)
LEMMA ResumeIInv ==
  ASSUME IInv, NEW r \in Routine, MayResume(r), Resume(r)
  PROVE  IInv'
<1> USE DEF IInv
<1>1. /\ r \in created /\ ~end[r] /\ r \notin ToSet(callStack)
      /\ r \in AnyRoutine /\ r # Main
  BY RoutineAssumption DEF MayResume, AnyRoutine
<1>2. /\ callStack' = Append(callStack, r)
      /\ start' = [start EXCEPT ![r] = TRUE]
      /\ created' = created /\ end' = end
  BY DEF Resume
<1>3. Running \in ToSet(callStack) /\ Running # r
  BY <1>1, RunningProperties, InToSet DEF TypeOK
<1>4. \A q \in AnyRoutine : q # r => ctx'[q] = IF q = Running THEN "resume" ELSE ctx[q]
  BY <1>3, RunningProperties DEF Resume, Swap, Made, TypeOK
<1>5. TypeOK'
  <2>1. callStack' \in Seq(AnyRoutine)
    BY <1>2, PushedProperties
  <2>2. ctx' \in [AnyRoutine -> Site]
    BY RunningProperties DEF Resume, Swap, Made, TypeOK, Site
  <2>3. QED
    BY <1>2, <2>1, <2>2 DEF TypeOK
<1>6. StackWellFormed'
  <2>1. \A i \in 1 .. Len(callStack) : callStack[i] # r
    BY <1>1, InToSet DEF TypeOK
  <2>2. QED
    BY <1>2, <2>1, PushedProperties, RunningProperties DEF StackWellFormed
<1>7. StackStarted'
  BY <1>1, <1>2, PushedProperties, RunningProperties, ElementOfSeq
     DEF StackStarted, TypeOK
<1>8. FreshRoutines'
  <2>1. \A q \in Routine \ created : q # Running
    BY <1>1, RunningProperties, RoutineAssumption DEF StackStarted, StackWellFormed
  <2>2. QED
    BY <1>1, <1>2, <1>4, <2>1 DEF FreshRoutines, AnyRoutine, TypeOK
<1>9. ContextsValid'
  <2>1. \A i \in 1 .. Len(callStack') - 1 : ctx'[callStack'[i]] = "resume"
    <3> SUFFICES ASSUME NEW i \in 1 .. Len(callStack)
                 PROVE  ctx'[callStack[i]] = "resume"
      BY <1>2, PushedProperties, RunningProperties
    <3>1. callStack[i] \in AnyRoutine /\ callStack[i] # r
      BY <1>1, InToSet, ElementOfSeq DEF TypeOK
    <3>2. CASE i = Len(callStack)
      BY <1>4, <3>1, <3>2, RunningProperties
    <3>3. CASE i # Len(callStack)
      <4>1. i \in 1 .. Len(callStack) - 1
        BY <3>3, RunningProperties
      <4>2. ctx[callStack[i]] = "resume"
        BY <4>1 DEF ContextsValid
      <4>3. QED
        BY <1>4, <3>1, <4>2
    <3>4. QED
      BY <3>2, <3>3
  <2>2. \A q \in created' : MayResume(q)' =>
           ctx'[q] = IF start'[q] THEN "yield" ELSE "none"
    <3> SUFFICES ASSUME NEW q \in created, MayResume(q)'
                 PROVE  ctx'[q] = IF start'[q] THEN "yield" ELSE "none"
      BY <1>2
    <3>1. q \in Routine /\ q \in AnyRoutine
      BY DEF TypeOK, AnyRoutine
    <3>2. q # r /\ q \notin ToSet(callStack) /\ ~end[q]
      BY <1>2, <3>1, PushedProperties DEF MayResume
    <3>3. ctx'[q] = ctx[q] /\ start'[q] = start[q]
      BY <1>2, <1>3, <1>4, <3>1, <3>2 DEF TypeOK
    <3>4. MayResume(q)
      BY <3>2 DEF MayResume
    <3>5. QED
      BY <3>3, <3>4 DEF ContextsValid
  <2>3. QED
    BY <2>1, <2>2 DEF ContextsValid
<1>10. QED
  BY <1>5, <1>6, <1>7, <1>8, <1>9

(* A routine gives control back: it has yielded, or it has returned and is *)
(* marked as ended.                                                        *)
LEMMA GiveBackIInv ==
  ASSUME IInv, Running # Main, NEW site \in {"yield", "return"},
         Swap(ctx, site), callStack' = Popped, UNCHANGED <<created, start>>,
         end' \in [Routine -> BOOLEAN],
         \A r \in Routine : r # Running => end'[r] = end[r],
         site = "return" => end'[Running]
  PROVE  IInv'
<1> USE DEF IInv
<1>1. Running \in Routine /\ Running \in AnyRoutine
  BY RunningProperties
<1>2. /\ ctx' \in [AnyRoutine -> Site]
      /\ ctx'[Running] = site
      /\ \A q \in AnyRoutine : q # Running => ctx'[q] = ctx[q]
  BY <1>1 DEF Swap, TypeOK, Site
<1>3. \A i \in 1 .. Len(Popped) : Popped[i] # Running
  BY PoppedProperties, RunningProperties DEF StackWellFormed
<1>4. Running \in created /\ start[Running]
  BY RunningProperties DEF StackStarted
<1>5. TypeOK'
  BY <1>2, PoppedProperties DEF TypeOK
<1>6. StackWellFormed'
  BY PoppedProperties, RunningProperties DEF StackWellFormed
<1>7. StackStarted'
  <2> SUFFICES ASSUME NEW i \in 2 .. Len(Popped)
               PROVE  /\ Popped[i] \in created
                      /\ start[Popped[i]]
                      /\ ~end'[Popped[i]]
    BY DEF StackStarted
  <2>1. /\ Popped[i] = callStack[i]
        /\ Popped[i] # Running
        /\ i \in 2 .. Len(callStack)
    BY <1>3, PoppedProperties, RunningProperties
  <2>2. Popped[i] \in created /\ start[Popped[i]] /\ ~end[Popped[i]]
    BY <2>1 DEF StackStarted
  <2>3. QED
    BY <2>1, <2>2 DEF TypeOK
<1>8. FreshRoutines'
  BY <1>2, <1>4 DEF FreshRoutines, AnyRoutine
<1>9. ContextsValid'
  <2>1. \A i \in 1 .. Len(callStack') - 1 : ctx'[callStack'[i]] = "resume"
    <3> SUFFICES ASSUME NEW i \in 1 .. Len(Popped) - 1
                 PROVE  ctx'[Popped[i]] = "resume"
      OBVIOUS
    <3>1. /\ Popped[i] = callStack[i] /\ Popped[i] # Running
          /\ i \in 1 .. Len(callStack) - 1 /\ Popped[i] \in AnyRoutine
      BY <1>3, PoppedProperties, RunningProperties, ElementOfSeq
    <3>2. ctx[callStack[i]] = "resume"
      BY <3>1 DEF ContextsValid
    <3>3. QED
      BY <1>2, <3>1, <3>2
  <2>2. \A q \in created' : MayResume(q)' =>
           ctx'[q] = IF start'[q] THEN "yield" ELSE "none"
    <3> SUFFICES ASSUME NEW q \in created, MayResume(q)'
                 PROVE  ctx'[q] = IF start[q] THEN "yield" ELSE "none"
      OBVIOUS
    <3>1. q \in Routine /\ q \in AnyRoutine
      BY DEF TypeOK, AnyRoutine
    <3>2. ~end'[q] /\ q \notin ToSet(Popped)
      BY DEF MayResume
    <3>3. CASE q = Running
      BY <1>2, <1>4, <3>2, <3>3
    <3>4. CASE q # Running
      <4>1. MayResume(q)
        BY <3>1, <3>2, <3>4, PoppedProperties DEF MayResume
      <4>2. QED
        BY <1>2, <3>1, <3>4, <4>1 DEF ContextsValid
    <3>5. QED
      BY <3>3, <3>4
  <2>3. QED
    BY <2>1, <2>2 DEF ContextsValid
<1>10. QED
  BY <1>5, <1>6, <1>7, <1>8, <1>9

(* Yield gives control back. *)
LEMMA YieldIInv == IInv /\ Yield => IInv'
<1> SUFFICES ASSUME IInv, Yield PROVE IInv'
  OBVIOUS
<1>1. end' \in [Routine -> BOOLEAN] /\ end' = end
  BY DEF Yield, IInv, TypeOK
<1>2. QED
  BY <1>1, GiveBackIInv DEF Yield

(* The tail of RoutineFunc gives control back and marks the end. *)
LEMMA FinishIInv == IInv /\ Finish => IInv'
<1> SUFFICES ASSUME IInv, Finish PROVE IInv'
  OBVIOUS
<1>1. Running \in Routine
  BY RunningProperties DEF IInv, Finish
<1>2. /\ end' \in [Routine -> BOOLEAN] /\ end'[Running]
      /\ \A r \in Routine : r # Running => end'[r] = end[r]
  BY <1>1 DEF Finish, IInv, TypeOK
<1>3. QED
  BY <1>2, GiveBackIInv DEF Finish

(* The invariant does not depend on anything else. *)
LEMMA StutterIInv == IInv /\ UNCHANGED vars => IInv'
BY DEF IInv, vars, TypeOK, StackWellFormed, StackStarted, FreshRoutines,
       ContextsValid, MayResume

(* The invariant holds in every reachable state, whatever the routines. *)
THEOREM Invariance == Spec => []IInv
<1>1. IInv /\ [Next]_vars => IInv'
  <2> SUFFICES ASSUME IInv, [Next]_vars PROVE IInv'
    OBVIOUS
  <2>1. ASSUME NEW r \in Routine, Create(r) PROVE IInv'
    BY <2>1, CreateIInv
  <2>2. ASSUME NEW r \in Routine, MayResume(r), Resume(r) PROVE IInv'
    BY <2>2, ResumeIInv
  <2>3. QED
    BY <2>1, <2>2, YieldIInv, FinishIInv, StutterIInv DEF Next
<1>2. QED
  BY <1>1, InitIInv, PTL DEF Spec

(* The variables keep their types: CallStack_ holds routines only. *)
THEOREM TypeCorrect == Spec => []TypeOK
<1>1. IInv => TypeOK
  BY DEF IInv
<1>2. QED
  BY <1>1, Invariance, PTL

(* The main routine is the bottom of the call stack and no routine is on   *)
(* it twice, so yield_env always finds a caller for a routine that yields. *)
THEOREM StackCorrect == Spec => []StackWellFormed
<1>1. IInv => StackWellFormed
  BY DEF IInv
<1>2. QED
  BY <1>1, Invariance, PTL

(* No swap loads a context that was never saved, or that of a routine that *)
(* has ended.                                                              *)
THEOREM ContextsCorrect == Spec => []ContextsValid
<1>1. IInv => ContextsValid
  BY DEF IInv
<1>2. QED
  BY <1>1, Invariance, PTL

-----------------------------------------------------------------------------
(* The stack has at most one entry for each routine and one for Main. *)
LEMMA StackBound == IInv => StackFits
<1> SUFFICES ASSUME IInv PROVE StackFits
  OBVIOUS
<1> DEFINE n == Len(callStack)
           position == [i \in 1 .. n |-> callStack[i]]
<1>1. n \in Nat /\ callStack \in Seq(AnyRoutine)
  BY RunningProperties DEF IInv, TypeOK
<1>2. /\ IsFiniteSet(AnyRoutine)
      /\ Cardinality(AnyRoutine) = Cardinality(Routine) + 1
  BY RoutineAssumption, FS_AddElement DEF AnyRoutine
<1>3. position \in Injection(1 .. n, AnyRoutine)
  BY <1>1, ElementOfSeq DEF Injection, IsInjective, IInv, StackWellFormed
<1>4. IsFiniteSet(1 .. n) /\ Cardinality(1 .. n) = n
  BY <1>1, FS_Interval
<1>5. n <= Cardinality(AnyRoutine)
  BY <1>2, <1>3, <1>4, FS_Injection
<1>6. Cardinality(Routine) \in Nat
  BY RoutineAssumption, FS_CardinalityType
<1>7. QED
  BY <1>1, <1>2, <1>5, <1>6, RoutineAssumption DEF StackFits

(* With fewer routines than CallStack_ has entries, Resume never writes    *)
(* past its end, however the routines resume each other.                   *)
THEOREM StackNeverOverflows == Spec => []StackFits
BY StackBound, Invariance, PTL

-----------------------------------------------------------------------------
(* The routine that runs changes only with the height of the stack. *)
LEMMA StepContinues ==
  ASSUME IInv, [Next]_vars, NEW r \in AnyRoutine, Running' = r, Running # r
  PROVE  ctx'[r] = CASE Len(callStack') < Len(callStack) -> "resume"
                     [] Len(callStack') > Len(callStack) /\ start[r] -> "yield"
                     [] OTHER -> "entry"
<1> USE DEF IInv
<1>1. Len(callStack) \in Nat
  BY RunningProperties
<1>2. ASSUME NEW q \in Routine, MayResume(q), Resume(q)
      PROVE  ctx'[r] = IF start[r] THEN "yield" ELSE "entry"
  <2>1. callStack' = Append(callStack, q) /\ Running' = q
    BY <1>1, <1>2, PushedProperties DEF Resume, Running, Last
  <2>2. /\ r = q /\ q \in created
        /\ ctx[q] = IF start[q] THEN "yield" ELSE "none"
    BY <1>2, <2>1 DEF ContextsValid, MayResume
  <2>3. QED
    BY <1>2, <2>2, RunningProperties DEF Resume, Swap, Made, TypeOK
<1>3. ASSUME NEW q \in Routine, MayResume(q), Resume(q)
      PROVE  Len(callStack') > Len(callStack)
  BY <1>1, <1>3, PushedProperties DEF Resume
<1>4. ASSUME Running # Main, callStack' = Popped, NEW site \in Site, Swap(ctx, site)
      PROVE  ctx'[r] = "resume" /\ Len(callStack') < Len(callStack)
  <2>1. /\ Len(Popped) = Len(callStack) - 1 /\ Len(Popped) \in Nat \ {0}
        /\ Running' = callStack[Len(Popped)]
    BY <1>4, PoppedProperties DEF Running, Last
  <2>2. ctx[r] = "resume"
    BY <1>1, <2>1 DEF ContextsValid
  <2>3. QED
    BY <1>1, <1>4, <2>1, <2>2, RunningProperties DEF Swap, TypeOK
<1>5. Yield \/ Finish => ctx'[r] = "resume" /\ Len(callStack') < Len(callStack)
  BY <1>4 DEF Yield, Finish, Site
<1>6. Running' # Running
  OBVIOUS
<1>7. ~UNCHANGED vars /\ ~(\E q \in Routine : Create(q))
  BY <1>6 DEF vars, Running, Create
<1>8. QED
  BY <1>1, <1>2, <1>3, <1>5, <1>7 DEF Next

(* A routine that gets the processor continues where it left it. *)
THEOREM RoutinesContinue == Spec => ContinuesWhereItStopped
<1> DEFINE A == \A r \in AnyRoutine : Running' = r /\ Running # r =>
                  ctx'[r] = CASE Len(callStack') < Len(callStack) -> "resume"
                              [] Len(callStack') > Len(callStack) /\ start[r] -> "yield"
                              [] OTHER -> "entry"
<1>1. IInv /\ [Next]_vars => [A]_vars
  BY StepContinues
<1>2. QED
  BY <1>1, Invariance, PTL DEF Spec, ContinuesWhereItStopped

-----------------------------------------------------------------------------
(* In a stack without repetitions each element has one position. *)
LEMMA UniquePosition ==
  ASSUME NEW s \in Seq(AnyRoutine),
         \A i, j \in 1 .. Len(s) : s[i] = s[j] => i = j,
         NEW k \in 1 .. Len(s)
  PROVE  (CHOOSE i \in 1 .. Len(s) : s[i] = s[k]) = k
OBVIOUS

(* The abstract value of each variable for the states before and after. *)
LEMMA ResumerProperties ==
  ASSUME IInv
  PROVE  /\ \A i \in 2 .. Len(callStack) : ResumerOf(callStack[i]) = callStack[i - 1]
         /\ \A r \in Routine : ~OnStack(r) => ResumerOf(r) = NoRoutine
<1>1. ASSUME NEW i \in 2 .. Len(callStack)
      PROVE  ResumerOf(callStack[i]) = callStack[i - 1]
  <2>1. callStack \in Seq(AnyRoutine) /\ i \in 1 .. Len(callStack)
    BY RunningProperties DEF IInv, TypeOK
  <2>2. OnStack(callStack[i])
    BY <2>1, InToSet DEF OnStack
  <2>3. (CHOOSE j \in 1 .. Len(callStack) : callStack[j] = callStack[i]) = i
    BY <2>1, UniquePosition DEF IInv, StackWellFormed
  <2>4. QED
    BY <2>2, <2>3 DEF ResumerOf
<1>2. QED
  BY <1>1 DEF ResumerOf

(* At first no coroutine exists, and the main routine runs. *)
LEMMA InitImplements == Init => Abs!Init
<1> SUFFICES ASSUME Init PROVE Abs!Init
  OBVIOUS
<1>1. callStack = <<Main>> /\ Len(callStack) = 1 /\ callStack \in Seq(AnyRoutine)
  BY DEF Init, AnyRoutine
<1>2. Running = Main
  BY <1>1 DEF Running, Last
<1>3. \A r \in Routine : ~OnStack(r)
  <2>1. \A r : OnStack(r) <=> \E i \in 1 .. 1 : callStack[i] = r
    BY <1>1, InToSet DEF OnStack
  <2>2. callStack[1] = Main
    BY <1>1
  <2>3. QED
    BY <2>1, <2>2, RoutineAssumption
<1>4. \A r \in Routine : PhaseOf(r) = "absent" /\ ResumerOf(r) = NoRoutine
  BY <1>3 DEF PhaseOf, ResumerOf, Init
<1>5. QED
  BY <1>2, <1>4 DEF Abs!Init

(* The constructor creates a coroutine that is suspended. *)
LEMMA CreateImplements ==
  ASSUME IInv, NEW r \in Routine, Create(r)
  PROVE  Abs!Create(r)
<1>1. ~OnStack(r) /\ ~end[r]
  BY RunningProperties, InToSet, RoutineAssumption
     DEF OnStack, Create, IInv, StackStarted, StackWellFormed, TypeOK, FreshRoutines
<1>2. PhaseOf(r) = "absent" /\ PhaseOf(r)' = "suspended"
  BY <1>1 DEF PhaseOf, OnStack, Create
<1>3. \A q \in Routine : q # r => PhaseOf(q)' = PhaseOf(q)
  BY DEF PhaseOf, OnStack, Create
<1>4. UNCHANGED Running /\ \A q \in Routine : ResumerOf(q)' = ResumerOf(q)
  BY DEF Running, ResumerOf, OnStack, Create
<1>5. QED
  BY <1>2, <1>3, <1>4 DEF Abs!Create

(* Resume makes a coroutine active, and its resumer is who ran before. *)
LEMMA ResumeImplements ==
  ASSUME IInv, NEW r \in Routine, MayResume(r), Resume(r)
  PROVE  Abs!Resume(r)
<1> USE DEF IInv
<1>1. IInv'
  BY ResumeIInv
<1>2. /\ r \in created /\ ~end[r] /\ ~OnStack(r)
      /\ created' = created /\ end' = end
      /\ callStack' = Append(callStack, r)
  BY DEF MayResume, Resume, OnStack
<1>3. \A q \in Routine : OnStack(q)' <=> q = r \/ OnStack(q)
  BY <1>2, PushedProperties DEF OnStack, AnyRoutine
<1>4. /\ PhaseOf(r) = "suspended" /\ PhaseOf(r)' = "active"
      /\ \A q \in Routine : q # r => PhaseOf(q)' = PhaseOf(q)
  BY <1>2, <1>3 DEF PhaseOf
<1>5. Running' = r
  BY <1>2, PushedProperties, RunningProperties DEF Running, Last
<1>6. ASSUME NEW q \in Routine PROVE ResumerOf(q)' = IF q = r THEN Running ELSE ResumerOf(q)
  <2>1. CASE ~OnStack(q) /\ q # r
    BY <1>3, <2>1 DEF ResumerOf
  <2>2. CASE OnStack(q) \/ q = r
    <3>1. PICK i \in 2 .. Len(callStack') : callStack'[i] = q
      <4>1. PICK i \in 1 .. Len(callStack') : callStack'[i] = q
        BY <1>1, <1>3, <2>2, InToSet DEF OnStack, TypeOK
      <4>2. i # 1
        BY <1>1, <4>1, RoutineAssumption DEF StackWellFormed
      <4>3. QED
        BY <4>1, <4>2
    <3>2. ResumerOf(q)' = callStack'[i - 1]
      <4>1. callStack' \in Seq(AnyRoutine) /\ i \in 1 .. Len(callStack')
        BY <1>1, <3>1 DEF TypeOK
      <4>2. (CHOOSE j \in 1 .. Len(callStack') : callStack'[j] = callStack'[i]) = i
        BY <1>1, <4>1, UniquePosition DEF StackWellFormed
      <4>3. OnStack(q)'
        BY <1>3, <2>2
      <4>4. QED
        BY <3>1, <4>2, <4>3 DEF ResumerOf
    <3>3. /\ Len(callStack) \in Nat \ {0} /\ Len(callStack') = Len(callStack) + 1
          /\ callStack'[Len(callStack) + 1] = r
          /\ \A j \in 1 .. Len(callStack) : callStack'[j] = callStack[j]
      BY <1>2, PushedProperties, RunningProperties
    <3>4. CASE q = r
      <4>1. i = Len(callStack) + 1
        BY <1>1, <3>1, <3>3, <3>4 DEF StackWellFormed
      <4>2. callStack'[i - 1] = callStack[Len(callStack)]
        BY <3>3, <4>1
      <4>3. QED
        BY <3>2, <3>4, <4>2, RunningProperties
    <3>5. CASE q # r
      <4>1. i \in 2 .. Len(callStack)
        BY <3>1, <3>3, <3>5
      <4>2. callStack[i] = q /\ callStack'[i - 1] = callStack[i - 1]
        BY <3>1, <3>3, <4>1
      <4>3. ResumerOf(q) = callStack[i - 1]
        BY <4>1, <4>2, ResumerProperties
      <4>4. QED
        BY <3>2, <3>5, <4>2, <4>3
    <3>6. QED
      BY <3>4, <3>5
  <2>3. QED
    BY <2>1, <2>2
<1>7. [q \in Routine |-> PhaseOf(q)]' =
        [[q \in Routine |-> PhaseOf(q)] EXCEPT ![r] = "active"]
  BY <1>4
<1>8. [q \in Routine |-> ResumerOf(q)]' =
        [[q \in Routine |-> ResumerOf(q)] EXCEPT ![r] = Running]
  BY <1>6
<1>9. QED
  BY <1>4, <1>5, <1>7, <1>8 DEF Abs!Resume

(* Popping the stack gives control back to the resumer. *)
LEMMA GiveBackImplements ==
  ASSUME IInv, NEW r \in Routine, r = Running, NEW site \in {"yield", "return"},
         Swap(ctx, site), callStack' = Popped, UNCHANGED <<created, start>>,
         end' \in [Routine -> BOOLEAN],
         \A q \in Routine : q # r => end'[q] = end[q],
         end'[r] = (site = "return")
  PROVE  Abs!GiveBack(r, IF site = "return" THEN "finished" ELSE "suspended")
<1> DEFINE n == Len(callStack)
           p == IF site = "return" THEN "finished" ELSE "suspended"
<1> USE DEF IInv
<1>1. Running # Main /\ IInv'
  BY GiveBackIInv, RoutineAssumption
<1>2. /\ n \in Nat /\ n >= 2 /\ r = callStack[n] /\ r \in created
  BY <1>1, RunningProperties DEF StackStarted
<1>3. /\ \A q \in Routine : OnStack(q) <=> q = r \/ OnStack(q)'
      /\ ~OnStack(r)'
  <2>1. \A q \in Routine : OnStack(q) <=> q = r \/ OnStack(q)'
    BY <1>1, PoppedProperties DEF OnStack, AnyRoutine
  <2>2. \A i \in 1 .. Len(Popped) : Popped[i] # r
    BY <1>1, <1>2, PoppedProperties DEF StackWellFormed
  <2>3. ~OnStack(r)'
    <3>1. r \in ToSet(Popped) <=> \E i \in 1 .. Len(Popped) : Popped[i] = r
      BY <1>1, PoppedProperties, InToSet
    <3>2. QED
      BY <2>2, <3>1 DEF OnStack
  <2>4. QED
    BY <2>1, <2>3
<1>4. /\ PhaseOf(r) = "active" /\ PhaseOf(r)' = p
      /\ \A q \in Routine : q # r => PhaseOf(q)' = PhaseOf(q)
  <2>1. /\ OnStack(r) /\ created' = created
        /\ end'[r] = (site = "return")
    BY <1>2, <1>3
  <2>2. PhaseOf(r)' = p
    <3>1. CASE site = "return"
      BY <1>2, <1>3, <2>1, <3>1 DEF PhaseOf
    <3>2. CASE site # "return"
      BY <1>2, <1>3, <2>1, <3>2 DEF PhaseOf
    <3>3. QED
      BY <3>1, <3>2
  <2>3. QED
    BY <1>2, <1>3, <2>1, <2>2 DEF PhaseOf
<1>5. Running' = callStack[n - 1] /\ ResumerOf(r) = callStack[n - 1]
  <2>1. Running' = callStack[n - 1]
    BY <1>1, <1>2, PoppedProperties DEF Running, Last
  <2>2. n \in 2 .. Len(callStack)
    BY <1>2
  <2>3. QED
    BY <1>2, <2>1, <2>2, ResumerProperties
<1>6. ASSUME NEW q \in Routine
      PROVE  ResumerOf(q)' = IF q = r THEN NoRoutine ELSE ResumerOf(q)
  <2>1. CASE q = r
    BY <1>3, <2>1 DEF ResumerOf
  <2>2. CASE ~OnStack(q) /\ q # r
    BY <1>3, <2>2 DEF ResumerOf
  <2>3. CASE OnStack(q) /\ q # r
    <3>1. OnStack(q)'
      BY <1>3, <2>3
    <3>2. PICK i \in 1 .. Len(callStack') : callStack'[i] = q
      BY <1>1, <3>1, InToSet DEF OnStack, TypeOK
    <3>3. i # 1
      BY <1>1, <3>2, RoutineAssumption DEF StackWellFormed
    <3>4. ResumerOf(q)' = callStack'[i - 1]
      <4>1. callStack' \in Seq(AnyRoutine) /\ i \in 1 .. Len(callStack')
        BY <1>1, <3>2 DEF TypeOK
      <4>2. (CHOOSE j \in 1 .. Len(callStack') : callStack'[j] = callStack'[i]) = i
        BY <1>1, <4>1, UniquePosition DEF StackWellFormed
      <4>3. QED
        BY <3>1, <3>2, <4>2 DEF ResumerOf
    <3>5. /\ i \in 2 .. Len(callStack) /\ callStack[i] = q
          /\ callStack'[i - 1] = callStack[i - 1]
      BY <1>1, <1>2, <3>2, <3>3, PoppedProperties
    <3>6. QED
      BY <2>3, <3>4, <3>5, ResumerProperties
  <2>4. QED
    BY <2>1, <2>2, <2>3
<1>7. [q \in Routine |-> PhaseOf(q)]' = [[q \in Routine |-> PhaseOf(q)] EXCEPT ![r] = p]
  BY <1>2, <1>4
<1>8. [q \in Routine |-> ResumerOf(q)]' =
        [[q \in Routine |-> ResumerOf(q)] EXCEPT ![r] = NoRoutine]
  BY <1>6
<1>9. QED
  BY <1>2, <1>5, <1>7, <1>8 DEF Abs!GiveBack

(* Every step is a step of the abstract coroutines or changes nothing. *)
LEMMA StepImplements ==
  ASSUME IInv, [Next]_vars
  PROVE  [Abs!Next]_(Abs!vars)
<1> USE DEF IInv
<1>1. ASSUME NEW r \in Routine, Create(r) PROVE Abs!Next
  BY <1>1, CreateImplements DEF Abs!Next
<1>2. ASSUME NEW r \in Routine, MayResume(r), Resume(r) PROVE Abs!Next
  BY <1>2, ResumeImplements DEF Abs!Next
<1>3. ASSUME Yield PROVE Abs!Next
  <2>1. /\ Running \in Routine /\ Running # Main /\ ~end[Running]
        /\ end' \in [Routine -> BOOLEAN] /\ end' = end
    BY <1>3, RunningProperties DEF Yield, StackStarted, TypeOK
  <2>2. Abs!GiveBack(Running, "suspended")
    <3>1. PICK r \in Routine : r = Running
      BY <2>1
    <3>2. end'[r] = FALSE /\ \A q \in Routine : q # r => end'[q] = end[q]
      BY <2>1, <3>1 DEF TypeOK
    <3>3. Abs!GiveBack(r, IF "yield" = "return" THEN "finished" ELSE "suspended")
      BY <1>3, <2>1, <3>1, <3>2, GiveBackImplements DEF Yield
    <3>4. QED
      BY <3>1, <3>3
  <2>3. QED
    BY <2>1, <2>2 DEF Abs!Next
<1>4. ASSUME Finish PROVE Abs!Next
  <2>1. Running \in Routine /\ Running # Main
    BY <1>4, RunningProperties DEF Finish
  <2>2. /\ end' \in [Routine -> BOOLEAN] /\ end'[Running]
        /\ \A r \in Routine : r # Running => end'[r] = end[r]
    BY <1>4, <2>1 DEF Finish, TypeOK
  <2>3. Abs!GiveBack(Running, "finished")
    <3>1. PICK r \in Routine : r = Running
      BY <2>1
    <3>2. end'[r] = TRUE
      BY <2>2, <3>1
    <3>3. Abs!GiveBack(r, IF "return" = "return" THEN "finished" ELSE "suspended")
      BY <1>4, <2>1, <2>2, <3>1, <3>2, GiveBackImplements DEF Finish
    <3>4. QED
      BY <3>1, <3>3
  <2>4. QED
    BY <2>1, <2>3 DEF Abs!Next
<1>5. ASSUME UNCHANGED vars PROVE UNCHANGED Abs!vars
  BY <1>5 DEF vars, Abs!vars, PhaseOf, ResumerOf, OnStack, Running
<1>6. QED
  BY <1>1, <1>2, <1>3, <1>4, <1>5 DEF Next

(* The call stack implements asymmetric coroutines: a routine that yields  *)
(* or returns gives the processor to the one that resumed it.              *)
THEOREM Refinement == Spec => ImplementsCoroutine
<1>1. IInv /\ [Next]_vars => [Abs!Next]_(Abs!vars)
  BY StepImplements
<1>2. QED
  BY <1>1, InitImplements, Invariance, PTL DEF Spec, ImplementsCoroutine, Abs!Spec
=============================================================================
