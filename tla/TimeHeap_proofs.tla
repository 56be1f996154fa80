-------------------------- MODULE TimeHeap_proofs --------------------------
(***************************************************************************)
(* Proofs about module TimeHeap, for every set of routines and of Timer    *)
(* addresses, every set of delays and however often the wall clock is set. *)
(*                                                                         *)
(* TimersAlive is not inductive: it needs WaiterTimers, that the Timer a   *)
(* waiting routine holds is its own and is not one that handleRead has run *)
(* and is about to delete.  OwnTimer holds only if no two expiries are     *)
(* equal (Ties), since delTimer looks a timer up by its expiry.            *)
(***************************************************************************)
EXTENDS TimeHeap, TLAPS

(* The Timer that a waiting routine holds is allocated and its own, and    *)
(* handleRead has not run it.                                              *)
WaiterTimers == \A r \in waiting : /\ tmp[r] \in live
                                   /\ rou[tmp[r]] = r
                                   /\ tmp[r] \notin expired \ todo

IInv == /\ TypeOK
        /\ TimersArmed
        /\ TimersAlive
        /\ WaiterTimers

-----------------------------------------------------------------------------
(* A timer leaves the heap by delTimer, never enters it. *)
LEMMA DelTimerShrinks ==
  ASSUME NEW t, NEW S \in AfterDelTimer(t)
  PROVE  S \subseteq timers
BY DEF AfterDelTimer

(* The timerfd is always armed for some time to come: for the time itself  *)
(* if that is far enough, and else for MinWait.                            *)
LEMMA TimeFromNow ==
  ASSUME TypeOK, NEW when \in Nat
  PROVE  /\ HowMuchTimeFromNow(when) \in Nat
         /\ HowMuchTimeFromNow(when) > 0
         /\ HowMuchTimeFromNow(when) = MinWait \/ now + HowMuchTimeFromNow(when) = when
BY TimeHeapAssumption DEF TypeOK, HowMuchTimeFromNow

(* Nothing waits when the program starts. *)
LEMMA InitIInv == Init => IInv
<1> SUFFICES ASSUME Init PROVE IInv
  OBVIOUS
<1>1. TypeOK
  <2>1. now \in 0 .. MaxNow /\ steps \in 0 .. MaxSteps
    BY TimeHeapAssumption DEF Init
  <2>2. expire \in [Timer -> Nat] /\ rou \in [Timer -> Routine \cup {Nobody}]
    BY DEF Init
  <2> QED  BY <2>1, <2>2 DEF Init, TypeOK
<1>2. TimersArmed /\ TimersAlive /\ WaiterTimers
  BY DEF Init, TimersArmed, TimersAlive, WaiterTimers
<1> QED  BY <1>1, <1>2 DEF IInv

(* The timerfd becomes readable when its time is over, and stays so. *)
LEMMA TickFires ==
  ASSUME TypeOK, Tick
  PROVE  fdReady' \in BOOLEAN /\ (fdReady => fdReady') /\ (fdLeft = 1 => fdReady')
BY Zenon DEF TypeOK, Tick

(* The clocks touch no timer. *)
LEMMA ClockIInv ==
  ASSUME IInv, Tick \/ SetClock
  PROVE  IInv'
<1> USE DEF IInv
<1>1. CASE Tick
  <2>1. TypeOK'
    <3>1. now' \in 0 .. MaxNow /\ fdLeft' \in Nat
      BY <1>1, TimeHeapAssumption DEF TypeOK, Tick
    <3> QED  BY <1>1, <3>1, TickFires DEF TypeOK, Tick, heap, loop
  <2>2. TimersArmed'
    <3>1. fdLeft \in Nat /\ fdLeft' = IF fdLeft > 0 THEN fdLeft - 1 ELSE 0
      BY <1>1 DEF TypeOK, Tick
    <3>2. UNCHANGED <<timers, handling, aborted>>
      BY <1>1 DEF Tick, heap, loop
    <3> QED  BY <1>1, <3>1, <3>2, TickFires DEF TimersArmed
  <2>3. TimersAlive' /\ WaiterTimers'
    BY <1>1 DEF TimersAlive, WaiterTimers, Tick, heap, loop
  <2> QED  BY <2>1, <2>2, <2>3
<1>2. CASE SetClock
  BY <1>2, TimeHeapAssumption
  DEF TypeOK, TimersArmed, TimersAlive, WaiterTimers, SetClock, heap, loop
<1> QED  BY <1>1, <1>2

(* A new wait has a new Timer. *)
LEMMA AddEpollIInv ==
  ASSUME IInv, NEW r \in Routine, NEW d \in Delays, NEW t \in Timer, AddEpoll(r, d, t)
  PROVE  IInv'
<1> USE DEF IInv
<1>1. d \in Nat /\ now \in Nat /\ now + d \in Nat
  BY TimeHeapAssumption DEF TypeOK
<1>2. IF IsEarliest(now + d) THEN ResetTimerfd(now + d) ELSE UNCHANGED <<fdLeft, fdReady>>
  BY DEF AddEpoll, AddTimer
<1>3. /\ fdLeft' \in Nat /\ fdReady' \in BOOLEAN
      /\ IsEarliest(now + d) => fdLeft' > 0
      /\ ~IsEarliest(now + d) => UNCHANGED <<fdLeft, fdReady>>
  BY <1>1, <1>2, TimeFromNow DEF ResetTimerfd, TypeOK
<1>4. TypeOK'
  BY <1>1, <1>3 DEF TypeOK, AddEpoll, AddTimer, loop
<1>5. TimersArmed'
  BY <1>3 DEF TimersArmed, AddEpoll, loop, IsEarliest
<1>6. TimersAlive' /\ WaiterTimers'
  BY DEF TypeOK, TimersAlive, WaiterTimers, AddEpoll, AddTimer, loop
<1> QED  BY <1>4, <1>5, <1>6

(* Resuming a routine ends its wait, whatever delTimer finds. *)
LEMMA ResumeKeeps ==
  ASSUME IInv, NEW r \in Routine \cup {Nobody}, Resume(r)
  PROVE  /\ timers' \subseteq timers
         /\ live' = live
         /\ waiting' = waiting \ {r}
         /\ \A q \in waiting' : tmp'[q] = tmp[q]
         /\ tmp' \in [Routine -> Timer \cup {NoTimer}]
         /\ UNCHANGED <<expire, rou, aborted>>
         /\ running' = r
BY DelTimerShrinks DEF IInv, TypeOK, Resume, LiveAfterDelTimer

(* The loop dispatches an event. *)
LEMMA HandleEventIInv ==
  ASSUME IInv, NEW r \in Routine, HandleEvent(r)
  PROVE  IInv'
<1> USE DEF IInv
<1>1. CASE r \in waiting
  <2>1. Resume(r) /\ UNCHANGED <<clock, expired, todo, handling>> /\ batch' = batch \ {r}
    BY <1>1 DEF HandleEvent
  <2>2. TypeOK'
    BY <2>1, ResumeKeeps DEF TypeOK, clock
  <2>3. TimersArmed'
    BY <2>1, ResumeKeeps DEF TimersArmed, clock
  <2>4. TimersAlive' /\ WaiterTimers'
    BY <2>1, ResumeKeeps DEF TimersAlive, WaiterTimers
  <2> QED  BY <2>2, <2>3, <2>4
<1>2. CASE r \notin waiting
  BY <1>2 DEF HandleEvent, TypeOK, TimersArmed, TimersAlive, WaiterTimers, clock, heap
<1> QED  BY <1>1, <1>2

(* The expired timers are taken out of the heap, none has run yet. *)
LEMMA HandleReadIInv ==
  ASSUME IInv, HandleRead
  PROVE  IInv'
<1> USE DEF IInv
<1>1. GetExpired \subseteq timers
  BY DEF GetExpired
<1>2. TypeOK'
  BY <1>1 DEF TypeOK, HandleRead
<1>3. TimersArmed'
  BY DEF TimersArmed, HandleRead
<1>4. TimersAlive' /\ WaiterTimers'
  BY <1>1 DEF TimersAlive, WaiterTimers, HandleRead, TypeOK
<1> QED  BY <1>2, <1>3, <1>4

(* A timer that has run is held by no waiting routine any more. *)
LEMMA RunTimerIInv ==
  ASSUME IInv, NEW t \in Timer, RunTimer(t)
  PROVE  IInv'
<1> USE DEF IInv
<1>1. /\ rou[t] \in Routine \cup {Nobody} /\ Resume(rou[t])
      /\ todo' = todo \ {t}
      /\ UNCHANGED <<clock, expired, handling, batch>>
  BY DEF RunTimer, TypeOK
<1>2. TypeOK'
  BY <1>1, ResumeKeeps DEF TypeOK, clock
<1>3. TimersArmed'
  BY <1>1, ResumeKeeps DEF TimersArmed, clock
<1>4. TimersAlive'
  BY <1>1, ResumeKeeps DEF TimersAlive
<1>5. WaiterTimers'
  <2> SUFFICES ASSUME NEW q \in waiting'
               PROVE  tmp'[q] \in live' /\ rou'[tmp'[q]] = q /\ tmp'[q] \notin expired' \ todo'
    BY DEF WaiterTimers
  <2>1. q \in waiting /\ q # rou[t] /\ tmp'[q] = tmp[q] /\ live' = live /\ rou' = rou
    BY <1>1, ResumeKeeps
  <2>2. tmp[q] # t
    BY <2>1 DEF WaiterTimers
  <2> QED  BY <1>1, <2>1, <2>2 DEF WaiterTimers
<1> QED  BY <1>2, <1>3, <1>4, <1>5

(* The timers that are deleted are held by nobody, and the timerfd is      *)
(* armed for those that are left.                                          *)
LEMMA ResetIInv ==
  ASSUME IInv, Reset
  PROVE  IInv'
<1> USE DEF IInv
<1>1. /\ timers # {} => \E t \in timers : ResetTimerfd(expire[t])
      /\ timers = {} => UNCHANGED <<fdLeft, fdReady>>
  BY DEF Reset, Rearm
<1>2. \A t \in timers : expire[t] \in Nat
  BY DEF TypeOK
<1>3. fdLeft' \in Nat /\ fdReady' \in BOOLEAN /\ (timers # {} => fdLeft' > 0)
  BY <1>1, <1>2, TimeFromNow DEF ResetTimerfd, TypeOK
<1>4. TypeOK'
  BY <1>3 DEF TypeOK, Reset
<1>5. TimersArmed'
  BY <1>3 DEF TimersArmed, Reset
<1>6. TimersAlive' /\ WaiterTimers'
  BY DEF TypeOK, TimersAlive, WaiterTimers, Reset
<1> QED  BY <1>4, <1>5, <1>6

(* poll() and a routine that yields touch no timer. *)
LEMMA OtherIInv ==
  ASSUME IInv, Poll \/ Yield \/ UNCHANGED vars
  PROVE  IInv'
<1>1. /\ UNCHANGED <<clock, heap, expired, todo, handling, waiting, tmp, aborted>>
      /\ batch' \subseteq Routine \cup {Timerfd}
      /\ running' \in Routine \cup {Nobody, Loop}
  BY DEF IInv, Poll, Yield, vars, loop, TypeOK
<1> QED  BY <1>1 DEF IInv, TypeOK, TimersArmed, TimersAlive, WaiterTimers, clock, heap

(* The invariant is inductive. *)
LEMMA NextIInv == IInv /\ [Next]_vars => IInv'
BY ClockIInv, AddEpollIInv, HandleEventIInv, HandleReadIInv, RunTimerIInv, ResetIInv, OtherIInv
DEF Next, LoopStep, RoutineStep

THEOREM Invariance == Spec => []IInv
BY InitIInv, NextIInv, PTL DEF Spec

(* The variables of the heap and the loop keep their types. *)
THEOREM TypeCorrect == Spec => []TypeOK
BY Invariance, PTL DEF IInv

(* No wait is forgotten: while a timer is in the heap the timerfd is armed *)
(* or readable, even if the wall clock is set.                             *)
THEOREM TimerfdArmed == Spec => []TimersArmed
BY Invariance, PTL DEF IInv

(* No Timer is used after it was deleted, although delTimer may erase the  *)
(* entry of another one.                                                   *)
THEOREM NoUseAfterDelete == Spec => []TimersAlive
BY Invariance, PTL DEF IInv

-----------------------------------------------------------------------------
(* The timerfd is armed for the first timer.  What a step does to it when  *)
(* neither the clocks nor the heap but the loop moves is all alike.        *)

(* FiresInTime is preserved when the timerfd is left alone and no timer is *)
(* added.                                                                  *)
LEMMA FewerTimersFire ==
  ASSUME FiresInTime, UNCHANGED <<now, steps, fdLeft, fdReady, handling, aborted, expire>>,
         timers' \subseteq timers
  PROVE  FiresInTime'
BY DEF FiresInTime

(* Arming the timerfd for a time is in time for every timer from then on,  *)
(* but for MinWait.                                                        *)
LEMMA ArmedInTime ==
  ASSUME TypeOK, NEW when \in Nat, ResetTimerfd(when)
  PROVE  fdLeft' = MinWait \/ now + fdLeft' = when
BY TimeFromNow DEF ResetTimerfd

(* Every step keeps it. *)
LEMMA StepFiresInTime ==
  ASSUME IInv, FiresInTime, [Next]_vars
  PROVE  FiresInTime'
<1> USE DEF IInv
<1>1. CASE Tick
  <2>1. /\ fdLeft \in Nat /\ fdLeft' = (IF fdLeft > 0 THEN fdLeft - 1 ELSE 0)
        /\ now \in Nat /\ (now' = now + 1 \/ now' = now)
        /\ UNCHANGED <<steps, timers, expire, handling, aborted>>
    BY <1>1, TimeHeapAssumption DEF TypeOK, Tick, heap, loop
  <2>2. (fdReady => fdReady') /\ (fdLeft = 1 => fdReady')
    BY <1>1, TickFires
  <2>3. \A t \in timers : expire[t] \in Nat
    BY DEF TypeOK
  <2> QED  BY <2>1, <2>2, <2>3, TimeHeapAssumption DEF FiresInTime, TimersArmed
<1>2. CASE SetClock
  BY <1>2 DEF SetClock, FiresInTime, TypeOK
<1>3. CASE \E r \in Routine, d \in Delays, t \in Timer : AddEpoll(r, d, t)
  <2> SUFFICES ASSUME NEW r \in Routine, NEW d \in Delays, NEW t \in Timer, AddEpoll(r, d, t)
               PROVE  FiresInTime'
    BY <1>3
  <2>1. d \in Nat /\ now \in Nat /\ now + d \in Nat
    BY TimeHeapAssumption DEF TypeOK
  <2>2. /\ \A u \in timers : expire'[u] = expire[u] /\ expire[u] \in Nat
        /\ expire'[t] = now + d
        /\ timers' = timers \cup {t}
        /\ UNCHANGED <<now, steps, handling, aborted>>
    BY <2>1 DEF AddEpoll, AddTimer, TypeOK, TimersAlive, loop
  <2>3. CASE IsEarliest(now + d)
    <3>1. fdLeft' = MinWait \/ now + fdLeft' = now + d
      BY <2>1, <2>3, ArmedInTime DEF AddEpoll, AddTimer
    <3> QED  BY <2>1, <2>2, <2>3, <3>1, TimeHeapAssumption DEF FiresInTime, IsEarliest
  <2>4. CASE ~IsEarliest(now + d)
    <3>1. UNCHANGED <<fdLeft, fdReady>> /\ \E u \in timers : expire[u] <= now + d
      BY <2>1, <2>2, <2>4 DEF AddEpoll, AddTimer, IsEarliest
    <3> QED  BY <2>1, <2>2, <3>1 DEF FiresInTime, TypeOK
  <2> QED  BY <2>3, <2>4
<1>4. CASE \E r \in Routine : HandleEvent(r)
  <2> SUFFICES ASSUME NEW r \in Routine, HandleEvent(r)
               PROVE  FiresInTime'
    BY <1>4
  <2>1. UNCHANGED <<clock, handling, aborted, expire>> /\ timers' \subseteq timers
    BY ResumeKeeps DEF HandleEvent, heap
  <2> QED  BY <2>1, FewerTimersFire DEF clock
<1>5. CASE HandleRead
  BY <1>5 DEF HandleRead, FiresInTime
<1>6. CASE \E t \in Timer : RunTimer(t)
  <2> SUFFICES ASSUME NEW t \in Timer, RunTimer(t)
               PROVE  FiresInTime'
    BY <1>6
  <2>1. rou[t] \in Routine \cup {Nobody} /\ Resume(rou[t]) /\ UNCHANGED <<clock, handling>>
    BY DEF RunTimer, TypeOK
  <2>2. UNCHANGED <<aborted, expire>> /\ timers' \subseteq timers
    BY <2>1, ResumeKeeps
  <2> QED  BY <2>1, <2>2, FewerTimersFire DEF clock
<1>7. CASE Reset
  <2>1. CASE timers = {}
    BY <1>7, <2>1 DEF Reset, FiresInTime
  <2>2. CASE timers # {}
    <3>1. PICK t \in timers : /\ \A u \in timers : expire[t] <= expire[u]
                              /\ ResetTimerfd(expire[t])
      BY <1>7, <2>2 DEF Reset, Rearm
    <3>2. fdLeft' = MinWait \/ now + fdLeft' = expire[t]
      BY <3>1, ArmedInTime DEF TypeOK
    <3>3. \A u \in timers : expire'[u] = expire[u]
      BY <1>7 DEF Reset, TimersAlive, TypeOK
    <3> QED  BY <1>7, <3>1, <3>2, <3>3, TimeHeapAssumption DEF Reset, FiresInTime
  <2> QED  BY <2>1, <2>2
<1>8. CASE Poll \/ Yield \/ UNCHANGED vars
  <2>1. UNCHANGED <<clock, heap, handling, aborted>>
    BY <1>8 DEF Poll, Yield, vars, loop
  <2> QED  BY <2>1 DEF FiresInTime, clock, heap
<1> QED  BY <1>1, <1>2, <1>3, <1>4, <1>5, <1>6, <1>7, <1>8 DEF Next, LoopStep, RoutineStep

(* The timerfd never fires later than the first timer is due or, if that   *)
(* is later, MinWait from now, however the waits overlap and however they  *)
(* end, if the wall clock is not set.                                      *)
THEOREM TimerfdInTime == Spec => []FiresInTime
<1>1. Init => FiresInTime
  BY DEF Init, FiresInTime
<1> QED  BY <1>1, InitIInv, NextIInv, StepFiresInTime, PTL DEF Spec

-----------------------------------------------------------------------------
(* Without equal expiries delTimer erases the entry it was called for.     *)

Distinct == \A t, u \in timers \cup expired : expire[t] = expire[u] => t = u

NothingExpired == ~handling => expired = {}

OwnInv == IInv /\ Distinct /\ NothingExpired /\ OwnTimer

(* delTimer then removes exactly the timer, if it is in the heap.          *)
LEMMA DelTimerExact ==
  ASSUME OwnInv, NEW t \in timers \cup expired, NEW S \in AfterDelTimer(t)
  PROVE  S = timers \ {t}
BY DEF OwnInv, Distinct, AfterDelTimer, Found

(* A new timer differs from all that are there. *)
LEMMA AddEpollOwn ==
  ASSUME ~Ties, OwnInv, NEW r \in Routine, NEW d \in Delays, NEW t \in Timer, AddEpoll(r, d, t)
  PROVE  Distinct' /\ NothingExpired' /\ OwnTimer'
<1> USE DEF OwnInv, IInv
<1>1. /\ timers' = timers \cup {t} /\ waiting' = waiting \cup {r}
      /\ UNCHANGED <<expired, todo, handling>>
      /\ r \notin waiting /\ t \notin timers \cup expired
  BY DEF AddEpoll, AddTimer, loop, TimersAlive
<1>2. /\ expire'[t] = now + d /\ rou'[t] = r /\ tmp'[r] = t
      /\ \A u \in timers \cup expired : expire'[u] = expire[u] /\ rou'[u] = rou[u]
                                       /\ expire[u] # now + d
      /\ \A q \in waiting : tmp'[q] = tmp[q]
  BY <1>1 DEF AddEpoll, AddTimer, TypeOK
<1>3. Distinct' /\ NothingExpired'
  BY <1>1, <1>2 DEF Distinct, NothingExpired
<1>4. OwnTimer'
  BY <1>1, <1>2 DEF OwnTimer, TypeOK
<1> QED  BY <1>3, <1>4

(* An event ends a wait and removes its timer from the heap. *)
LEMMA HandleEventOwn ==
  ASSUME OwnInv, NEW r \in Routine, HandleEvent(r)
  PROVE  /\ Distinct' /\ NothingExpired' /\ OwnTimer'
         /\ r \in waiting => timers' = timers \ {tmp[r]}
         /\ r \notin waiting => timers' = timers
<1> USE DEF OwnInv, IInv
<1>1. CASE r \in waiting
  <2>1. Resume(r) /\ UNCHANGED <<expired, todo, handling>> /\ expired = {} /\ todo = {}
    BY <1>1 DEF HandleEvent, InLoop, NothingExpired, TypeOK
  <2>2. timers' = timers \ {tmp[r]}
    BY <1>1, <2>1, DelTimerExact DEF Resume, OwnTimer
  <2>3. Distinct' /\ NothingExpired'
    BY <2>1, <2>2, ResumeKeeps DEF Distinct, NothingExpired
  <2>4. OwnTimer'
    <3>1. \A q \in waiting' : /\ q \in waiting /\ tmp'[q] = tmp[q]
                              /\ rou[tmp[q]] = q /\ q # r
      BY <2>1, ResumeKeeps DEF WaiterTimers
    <3>2. \A q \in waiting' : tmp'[q] \in timers' \cup todo'
      BY <1>1, <2>1, <2>2, <3>1 DEF OwnTimer, WaiterTimers
    <3>3. \A u \in timers' \cup todo' : rou'[u] = rou[u] /\ rou[u] \in waiting
                                       /\ tmp[rou[u]] = u /\ u # tmp[r]
      BY <1>1, <2>1, <2>2, ResumeKeeps DEF OwnTimer
    <3>4. \A u \in timers' \cup todo' : rou'[u] \in waiting' /\ tmp'[rou'[u]] = u
      BY <2>1, <3>3, ResumeKeeps
    <3> QED  BY <3>2, <3>4 DEF OwnTimer
  <2> QED  BY <1>1, <2>2, <2>3, <2>4
<1>2. CASE r \notin waiting
  BY <1>2 DEF HandleEvent, heap, Distinct, NothingExpired, OwnTimer
<1> QED  BY <1>1, <1>2

(* A timer that runs ends the wait it was made for, and no other timer     *)
(* leaves the heap.                                                        *)
LEMMA RunTimerOwn ==
  ASSUME OwnInv, NEW t \in Timer, RunTimer(t)
  PROVE  /\ Distinct' /\ NothingExpired' /\ OwnTimer'
         /\ rou[t] \in waiting /\ tmp[rou[t]] = t
         /\ timers' = timers
<1> USE DEF OwnInv, IInv
<1>1. rou[t] \in waiting /\ tmp[rou[t]] = t /\ t \in todo /\ t \in expired /\ t \notin timers
  BY DEF RunTimer, OwnTimer, TypeOK, TimersAlive
<1>2. /\ rou[t] \in Routine \cup {Nobody} /\ Resume(rou[t])
      /\ todo' = todo \ {t} /\ UNCHANGED <<expired, handling>>
  BY DEF RunTimer, TypeOK
<1>3. timers' = timers
  BY <1>1, <1>2, DelTimerExact DEF Resume
<1>4. Distinct' /\ NothingExpired'
  BY <1>2, <1>3, ResumeKeeps DEF Distinct, NothingExpired
<1>5. OwnTimer'
  <2>1. \A q \in waiting' : /\ q \in waiting /\ tmp'[q] = tmp[q]
                            /\ rou[tmp[q]] = q /\ q # rou[t]
    BY <1>2, ResumeKeeps DEF WaiterTimers
  <2>2. \A q \in waiting' : tmp'[q] \in timers' \cup todo'
    BY <1>2, <1>3, <2>1 DEF OwnTimer
  <2>3. \A u \in timers' \cup todo' : rou'[u] = rou[u] /\ rou[u] \in waiting
                                     /\ tmp[rou[u]] = u /\ u # t
    BY <1>1, <1>2, <1>3, ResumeKeeps DEF OwnTimer
  <2>4. \A u \in timers' \cup todo' : rou'[u] \in waiting' /\ tmp'[rou'[u]] = u
    BY <1>1, <1>2, <2>3, ResumeKeeps
  <2> QED  BY <2>2, <2>4 DEF OwnTimer
<1> QED  BY <1>1, <1>3, <1>4, <1>5

(* Every step keeps the correspondence of waits and timers. *)
LEMMA NextOwn ==
  ASSUME ~Ties, OwnInv, [Next]_vars
  PROVE  OwnInv'
<1> USE DEF OwnInv, IInv
<1>1. IInv'
  BY NextIInv
<1>2. CASE \E r \in Routine, d \in Delays, t \in Timer : AddEpoll(r, d, t)
  BY <1>1, <1>2, AddEpollOwn
<1>3. CASE \E r \in Routine : HandleEvent(r)
  BY <1>1, <1>3, HandleEventOwn
<1>4. CASE \E t \in Timer : RunTimer(t)
  BY <1>1, <1>4, RunTimerOwn
<1>5. CASE HandleRead
  <2>1. todo = {}
    BY <1>5 DEF HandleRead, InLoop, NothingExpired, TypeOK
  <2>2. /\ UNCHANGED <<expire, rou, waiting, tmp>>
        /\ timers' \cup expired' = timers \cup (IF Found(now) # {} THEN expired ELSE {})
        /\ timers' \cup todo' = timers
        /\ NothingExpired'
    BY <1>5, <2>1 DEF HandleRead, GetExpired, NothingExpired
  <2>3. Distinct' /\ OwnTimer'
    BY <2>1, <2>2 DEF Distinct, OwnTimer
  <2> QED  BY <1>1, <2>2, <2>3
<1>6. CASE Reset
  <2>1. /\ todo = {} /\ todo' = {} /\ expired' = {} /\ ~handling'
        /\ UNCHANGED <<timers, waiting, tmp>>
        /\ \A t \in timers : expire'[t] = expire[t] /\ rou'[t] = rou[t]
    BY <1>6 DEF Reset, TypeOK, TimersAlive
  <2> QED  BY <1>1, <2>1 DEF Distinct, NothingExpired, OwnTimer
<1>7. CASE Tick \/ SetClock \/ Poll \/ Yield \/ UNCHANGED vars
  <2>1. UNCHANGED <<heap, expired, todo, handling, waiting, tmp>>
    BY <1>7 DEF Tick, SetClock, Poll, Yield, vars, loop
  <2> QED  BY <1>1, <2>1 DEF Distinct, NothingExpired, OwnTimer, heap
<1> QED  BY <1>2, <1>3, <1>4, <1>5, <1>6, <1>7 DEF Next, LoopStep, RoutineStep

(* The correspondence holds from the beginning. *)
LEMMA InitOwn == Init => OwnInv
BY InitIInv DEF Init, OwnInv, Distinct, NothingExpired, OwnTimer

(* If no two expiries are equal then every wait has its own timer, and     *)
(* every timer its wait, even if the wall clock is set.                    *)
THEOREM OwnTimers ==
  ASSUME ~Ties
  PROVE  Spec => []OwnTimer
<1>1. OwnInv /\ [Next]_vars => OwnInv'
  BY NextOwn
<1>2. OwnInv => OwnTimer
  BY DEF OwnInv
<1> QED  BY InitOwn, <1>1, <1>2, PTL DEF Spec

(* Equal expiries are the only reason for which a wait that ends removes   *)
(* the timer of another one: without them it removes its own at most.      *)
THEOREM CancelsOnlyOwn ==
  ASSUME ~Ties
  PROVE  Spec => CancelsOwn
<1>1. OwnInv /\ [Next]_vars => OwnInv'
  BY NextOwn
<1>2. OwnInv /\ [Next]_vars =>
        [\A r \in waiting : r \notin waiting' => timers \ timers' \subseteq {tmp[r]}]_vars
  <2> SUFFICES ASSUME OwnInv, Next, NEW r \in waiting, r \notin waiting'
               PROVE  timers \ timers' \subseteq {tmp[r]}
    BY DEF vars
  <2> USE DEF OwnInv, IInv
  <2>1. CASE \E q \in Routine : HandleEvent(q)
    <3> SUFFICES ASSUME NEW q \in Routine, HandleEvent(q)
                 PROVE  timers \ timers' \subseteq {tmp[r]}
      BY <2>1
    <3>1. q \in waiting /\ r = q
      BY ResumeKeeps DEF HandleEvent
    <3> QED  BY <3>1, HandleEventOwn
  <2>2. CASE \E t \in Timer : RunTimer(t)
    BY <2>2, RunTimerOwn
  <2>3. CASE Tick \/ SetClock \/ Poll \/ Yield \/ HandleRead \/ Reset
    BY <2>3 DEF Tick, SetClock, Poll, Yield, HandleRead, Reset
  <2>4. CASE \E q \in Routine, d \in Delays, t \in Timer : AddEpoll(q, d, t)
    BY <2>4 DEF AddEpoll
  <2> QED  BY <2>1, <2>2, <2>3, <2>4 DEF Next, LoopStep, RoutineStep
<1> QED  BY InitOwn, <1>1, <1>2, PTL DEF Spec, CancelsOwn

-----------------------------------------------------------------------------
(* The safety part of ImplementsTimedWait, as long as no two expiries are  *)
(* equal, and however often the wall clock is set.                         *)

Deadline == [r \in Routine |-> IF r \in waiting THEN expire[tmp[r]] ELSE 0]

Due == {rou[t] : t \in todo}

(* A resumed routine that waited stops waiting; the others keep their      *)
(* deadlines.                                                              *)
LEMMA ResumeEndsWait ==
  ASSUME IInv, NEW r \in waiting, Resume(r)
  PROVE  /\ waiting' = waiting \ {r}
         /\ Deadline' = [Deadline EXCEPT ![r] = 0]
<1>1. waiting' = waiting \ {r} /\ waiting \subseteq Routine
  BY DEF Resume, IInv, TypeOK
<1>2. \A q \in waiting' : expire'[tmp'[q]] = expire[tmp[q]]
  BY ResumeKeeps DEF IInv, TypeOK
<1> QED  BY <1>1, <1>2 DEF Deadline

(* handleRead takes timers of routines that wait, past their deadlines.    *)
LEMMA HandleReadExpires ==
  ASSUME OwnInv, HandleRead, Found(now) = {},
         NEW S, S = {rou[t] : t \in GetExpired}
  PROVE  Abs!Expire(S)
<1> USE DEF OwnInv, IInv
<1>1. /\ todo = {} /\ todo' = GetExpired /\ GetExpired \subseteq timers
      /\ UNCHANGED <<now, rou, waiting, expire, tmp>> /\ batch' = batch \ {Timerfd}
  BY DEF HandleRead, InLoop, NothingExpired, TypeOK, GetExpired
<1>2. \A t \in GetExpired : rou[t] \in waiting /\ tmp[rou[t]] = t /\ now > expire[t]
  <2> SUFFICES ASSUME NEW t \in GetExpired
               PROVE  rou[t] \in waiting /\ tmp[rou[t]] = t /\ now > expire[t]
    OBVIOUS
  <2>1. rou[t] \in waiting /\ tmp[rou[t]] = t
    BY <1>1 DEF OwnTimer
  <2>2. expire[t] < now /\ expire[t] \in Nat /\ now \in Nat
    BY <1>1, TimeHeapAssumption DEF GetExpired, TypeOK
  <2> QED  BY <2>1, <2>2
<1>3. waiting \subseteq Routine
  BY DEF TypeOK
<1>4. \A r \in S : r \in waiting /\ now > Deadline[r]
  BY <1>2, <1>3 DEF Deadline
<1>5. UNCHANGED <<now, waiting, Deadline, batch \cap Routine>>
  BY <1>1, TimeHeapAssumption DEF Deadline
<1>6. Due = {} /\ Due' = S
  BY <1>1 DEF Due
<1> QED  BY <1>4, <1>5, <1>6 DEF Abs!Expire, Deadline, Due

(* A timer that runs ends the wait of a routine that was due.              *)
LEMMA RunTimerTimesOut ==
  ASSUME OwnInv, NEW t \in Timer, RunTimer(t), NEW r \in Routine, r = rou[t]
  PROVE  Abs!TimeOut(r)
<1> USE DEF OwnInv, IInv
<1>1. r \in waiting /\ tmp[r] = t
  BY RunTimerOwn
<1>2. waiting' = waiting \ {r} /\ Deadline' = [Deadline EXCEPT ![r] = 0]
  BY <1>1, ResumeEndsWait DEF RunTimer
<1>3. t \in todo /\ todo' = todo \ {t} /\ UNCHANGED <<now, batch, rou>>
  BY DEF RunTimer, clock, Resume
<1>4. \A u \in todo : u # t => rou[u] # r
  BY <1>1 DEF OwnTimer
<1>5. r \in Due /\ Due' = Due \ {r}
  BY <1>3, <1>4 DEF Due
<1> QED  BY <1>1, <1>2, <1>3, <1>5 DEF Abs!TimeOut, Abs!EndWait, Deadline, Due

(* Every step of the timers is a step of the abstract waits or changes     *)
(* nothing there.                                                          *)
LEMMA StepWaits ==
  ASSUME ~Ties, OwnInv, [Next]_vars
  PROVE  [Abs!Next]_(Abs!vars)
<1> USE DEF OwnInv, IInv
<1> SUFFICES ASSUME ~ UNCHANGED <<now, waiting, Deadline, Due, batch \cap Routine>>
             PROVE  Abs!Next
  BY DEF Abs!vars, Deadline, Due
<1>1. CASE Tick \/ SetClock
  <2>1. now' \in Nat /\ UNCHANGED <<waiting, Deadline, Due, batch \cap Routine>>
    BY <1>1, TimeHeapAssumption DEF TypeOK, Tick, SetClock, heap, loop, Deadline, Due
  <2> QED  BY <2>1 DEF Abs!Next, Abs!MoveClock, Deadline, Due
<1>2. CASE Poll
  <2>1. UNCHANGED <<now, waiting, Deadline, Due>> /\ batch \cap Routine = {}
    BY <1>2 DEF Poll, clock, heap, Deadline, Due
  <2>2. Abs!Report(batch' \cap Routine)
    BY <2>1 DEF Abs!Report, Deadline, Due
  <2> QED  BY <2>2 DEF Abs!Next
<1>3. CASE \E r \in Routine : HandleEvent(r)
  <2> SUFFICES ASSUME NEW r \in Routine, HandleEvent(r)
               PROVE  Abs!Dispatch(r)
    BY <1>3 DEF Abs!Next
  <2>1. /\ r \in batch \cap Routine
        /\ batch' \cap Routine = (batch \cap Routine) \ {r}
        /\ UNCHANGED now
    BY DEF HandleEvent, clock
  <2>2. Due = {} /\ Due' = {}
    BY DEF HandleEvent, InLoop, NothingExpired, TypeOK, Due
  <2>3. CASE r \in waiting
    <3>1. waiting' = waiting \ {r} /\ Deadline' = [Deadline EXCEPT ![r] = 0]
      BY <2>3, ResumeEndsWait DEF HandleEvent
    <3> QED  BY <2>1, <2>2, <2>3, <3>1 DEF Abs!Dispatch, Abs!EndWait, Deadline, Due
  <2>4. CASE r \notin waiting
    <3>1. UNCHANGED <<waiting, Deadline>>
      BY <2>4 DEF HandleEvent, heap, Deadline
    <3> QED  BY <2>1, <2>2, <2>4, <3>1 DEF Abs!Dispatch, Deadline, Due
  <2> QED  BY <2>3, <2>4
<1>4. CASE \E t \in Timer : RunTimer(t)
  <2> SUFFICES ASSUME NEW t \in Timer, RunTimer(t)
               PROVE  \E r \in Routine : Abs!TimeOut(r)
    BY <1>4 DEF Abs!Next
  <2>1. rou[t] \in Routine
    BY RunTimerOwn DEF TypeOK
  <2>2. PICK r \in Routine : r = rou[t]
    BY <2>1
  <2>3. Abs!TimeOut(r)
    BY <2>2, RunTimerTimesOut
  <2> QED  BY <2>3
<1>5. CASE \E r \in Routine, d \in Delays, t \in Timer : AddEpoll(r, d, t)
  <2> SUFFICES ASSUME NEW r \in Routine, NEW d \in Delays, NEW t \in Timer, AddEpoll(r, d, t)
               PROVE  Abs!Wait(r, d)
    BY <1>5 DEF Abs!Next
  <2>1. /\ r \notin waiting /\ waiting' = waiting \cup {r}
        /\ UNCHANGED <<now, batch, todo>>
        /\ tmp'[r] = t /\ expire'[t] = now + d
        /\ \A q \in waiting : tmp'[q] = tmp[q] /\ tmp[q] # t /\ tmp[q] \in Timer
        /\ \A u \in Timer : u # t => expire'[u] = expire[u] /\ rou'[u] = rou[u]
    BY DEF AddEpoll, AddTimer, loop, TypeOK, WaiterTimers
  <2>2. Deadline' = [Deadline EXCEPT ![r] = now + d]
    BY <2>1 DEF Deadline
  <2>3. \A u \in todo : u \in Timer /\ u # t
    BY DEF AddEpoll, TypeOK, TimersAlive
  <2>4. Due' = Due
    BY <2>1, <2>3 DEF Due
  <2> QED  BY <2>1, <2>2, <2>4 DEF Abs!Wait, Deadline, Due
<1>6. CASE HandleRead
  <2>1. CASE Found(now) = {}
    <3>1. {rou[t] : t \in GetExpired} \in SUBSET Routine
      BY <1>6 DEF GetExpired, OwnTimer, TypeOK
    <3>2. PICK S \in SUBSET Routine : S = {rou[t] : t \in GetExpired}
      BY <3>1
    <3>3. Abs!Expire(S)
      BY <1>6, <2>1, <3>2, HandleReadExpires
    <3> QED  BY <3>3 DEF Abs!Next
  <2>2. CASE Found(now) # {}
    <3>1. UNCHANGED <<now, waiting, Deadline, Due>> /\ batch' = batch \ {Timerfd}
      BY <1>6, <2>2 DEF HandleRead, Deadline, Due
    <3> QED  BY <3>1, TimeHeapAssumption
  <2> QED  BY <2>1, <2>2
<1>7. CASE Reset
  <2>1. UNCHANGED <<now, waiting, tmp, batch>> /\ todo = {} /\ todo' = {}
    BY <1>7 DEF Reset
  <2>2. \A q \in waiting : expire'[tmp[q]] = expire[tmp[q]]
    BY <1>7, <2>1 DEF Reset, WaiterTimers, TypeOK
  <2> QED  BY <2>1, <2>2 DEF Deadline, Due
<1>8. CASE Yield \/ UNCHANGED vars
  BY <1>8 DEF Yield, vars, clock, heap, loop, Deadline, Due
<1> QED  BY <1>1, <1>2, <1>3, <1>4, <1>5, <1>6, <1>7, <1>8 DEF Next, LoopStep, RoutineStep

(* A wait ends by an event that was reported for it or, once its deadline  *)
(* was seen to be over, by its timer, and in no other way.                 *)
THEOREM WaitsImplemented ==
  ASSUME ~Ties
  PROVE  Spec => Abs!Init /\ [][Abs!Next]_(Abs!vars)
<1>1. Init => Abs!Init
  BY DEF Init, Abs!Init
<1>2. OwnInv /\ [Next]_vars => OwnInv'
  BY NextOwn
<1>3. OwnInv /\ [Next]_vars => [Abs!Next]_(Abs!vars)
  BY StepWaits
<1> QED  BY InitOwn, <1>1, <1>2, <1>3, PTL DEF Spec
=============================================================================
