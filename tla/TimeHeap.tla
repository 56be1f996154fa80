------------------------------ MODULE TimeHeap ------------------------------
(***************************************************************************)
(* The timers of an event loop (MiniHeap.cpp, EventLoop.cpp) and the wait  *)
(* with a timeout built on them (Channel::addEpoll).  A routine that waits *)
(* allocates a Timer and yields; it continues when the loop dispatches an  *)
(* event for it, or when handleRead runs its timer.                        *)
(*                                                                         *)
(* Time is counted in ticks of a microsecond.  `now' is what               *)
(* Timestamp::now() reads (the wall clock, which may be set), while the    *)
(* timerfd counts down on the monotonic clock.  Which routine runs is      *)
(* known here only as far as the timers need it: module Routine has the    *)
(* call stack.                                                             *)
(***************************************************************************)
EXTENDS Naturals, FiniteSets

CONSTANTS Routine,   (* the coroutines that wait                           *)
          Timer,     (* the addresses a Timer may get: a bound             *)
          Nobody,    (* no routine: main() before it enters the loop       *)
          Loop,      (* the thread is in EventLoop::loop                   *)
          NoTimer,   (* no timer                                           *)
          Timerfd,   (* the timerfd, as a member of a batch of events      *)
          Delays,    (* arguments of runAfter, in ticks                    *)
          MinWait,   (* what the timerfd is armed for at least: 100 us     *)
          MaxNow,    (* bound on the clock                                 *)
          MaxSteps,  (* bound on how often the wall clock is set           *)
          Ties       (* whether a time the code takes may equal an expiry  *)

ASSUME TimeHeapAssumption ==
  /\ {Nobody, Loop, Timerfd} \cap Routine = {}
  /\ Nobody # Loop
  /\ NoTimer \notin Timer
  /\ Delays \subseteq Nat \ {0}
  /\ MinWait \in Nat \ {0}
  /\ MaxNow \in Nat
  /\ MaxSteps \in Nat
  /\ Ties \in BOOLEAN

VARIABLES now,       (* Timestamp::now()                                   *)
          steps,     (* how often the wall clock has been set              *)
          fdLeft,    (* ticks until the timerfd fires, 0 if it is disarmed *)
          fdReady,   (* the timerfd is readable                            *)
          live,      (* the Timer objects that are allocated               *)
          expire,    (* expire_ of each Timer                              *)
          rou,       (* timer_rou_ of each Timer                           *)
          timers,    (* timers_                                            *)
          expired,   (* the vector `expired' of handleRead                 *)
          todo,      (* those of them it has not run yet                   *)
          handling,  (* the loop is in handleRead                          *)
          batch,     (* activeChannels_ that are still to be handled       *)
          running,   (* the routine that runs, or Nobody, or Loop          *)
          waiting,   (* the routines that wait in addEpoll                 *)
          tmp,       (* the local variable tmp of addEpoll                 *)
          aborted    (* an assertion failed                                *)

clock == <<now, steps, fdLeft, fdReady>>
heap == <<live, expire, rou, timers>>
loop == <<expired, todo, handling, batch>>
vars == <<clock, heap, loop, running, waiting, tmp, aborted>>

Init == /\ now = 0
        /\ steps = 0
        /\ fdLeft = 0
        /\ fdReady = FALSE
        /\ live = {}
        /\ expire = [t \in Timer |-> 0]
        /\ rou = [t \in Timer |-> Nobody]
        /\ timers = {}
        /\ expired = {}
        /\ todo = {}
        /\ handling = FALSE
        /\ batch = {}
        /\ running = Nobody
        /\ waiting = {}
        /\ tmp = [r \in Routine |-> NoTimer]
        /\ aborted = FALSE

-----------------------------------------------------------------------------
(* The clocks.                                                             *)

(* At the bound, which is later than every expiry, now stays as it is.     *)
Tick == /\ now' = IF now < MaxNow THEN now + 1 ELSE now
        /\ fdLeft' = IF fdLeft > 0 THEN fdLeft - 1 ELSE 0
        /\ fdReady' = (fdReady \/ fdLeft = 1)
        /\ UNCHANGED <<steps, heap, loop, running, waiting, tmp, aborted>>

SetClock == /\ steps < MaxSteps
            /\ steps' = steps + 1
            /\ now' \in 0 .. MaxNow
            /\ UNCHANGED <<fdLeft, fdReady, heap, loop, running, waiting, tmp, aborted>>

(* Mutant: a time that has passed is given as zero. *)
HowMuchTimeFromNow_Zero(when) == IF when > now THEN when - now ELSE 0

(* A time that has passed or comes too soon is moved to the near future:   *)
(* timerfd_settime would disarm the timerfd if it were given zero.         *)
HowMuchTimeFromNow(when) == IF when >= now + MinWait THEN when - now ELSE MinWait

ResetTimerfd(when) == /\ fdLeft' = HowMuchTimeFromNow(when)
                      /\ fdReady' = FALSE

-----------------------------------------------------------------------------
(* The heap.                                                               *)

(* Mutant: the timerfd is armed only if there was no timer. *)
IsEarliest_Empty(when) == timers = {}

(* insert: the new timer is the earliest. *)
IsEarliest(when) == \A t \in timers : when < expire[t]

(* The entries that multimap::find may return for a key. *)
Found(when) == {t \in timers : expire[t] = when}

(* addTimer, insert: timer t of routine r for the time `when'. *)
AddTimer(t, r, when) ==
  /\ live' = live \cup {t}
  /\ expire' = [expire EXCEPT ![t] = when]
  /\ rou' = [rou EXCEPT ![t] = r]
  /\ timers' = timers \cup {t}
  /\ IF IsEarliest(when) THEN ResetTimerfd(when) ELSE UNCHANGED <<fdLeft, fdReady>>

(* Mutant: every timer that is due by then goes. *)
AfterDelTimer_Range(t) == {{f \in timers : expire[f] > expire[t]}}

(* delTimer: what it may leave of timers_. *)
AfterDelTimer(t) == IF Found(expire[t]) = {} THEN {timers}
                    ELSE {timers \ {f} : f \in Found(expire[t])}

(* Mutant: the Timer is deleted. *)
LiveAfterDelTimer_Deleted(t) == live \ {t}

(* delTimer: the Timer objects that are allocated after it.  It erases an  *)
(* entry and deletes nothing.                                              *)
LiveAfterDelTimer(t) == live

-----------------------------------------------------------------------------
(* Channel::addEpoll.  Its second half follows the Yield.                  *)

(* The routine that runs waits, or resumes one that is not waiting, which  *)
(* then waits (accept_routine does so, and start() before the loop).       *)
AddEpoll(r, d, t) ==
  /\ running # Loop
  /\ r \notin waiting
  /\ now + d < MaxNow
  /\ t \notin live
  /\ Ties \/ \A u \in timers \cup expired : expire[u] # now + d
  /\ AddTimer(t, r, now + d)
  /\ tmp' = [tmp EXCEPT ![r] = t]
  /\ waiting' = waiting \cup {r}
  /\ running' = IF running = r THEN Loop ELSE running
  /\ UNCHANGED <<now, steps, loop, aborted>>

(* Routine r is resumed.  One that waits cancels its timer and goes on;    *)
(* one that does not is simply running.                                    *)
Resume(r) ==
  /\ running' = r
  /\ waiting' = waiting \ {r}
  /\ IF r \in waiting THEN /\ timers' \in AfterDelTimer(tmp[r])
                           /\ live' = LiveAfterDelTimer(tmp[r])
                      ELSE UNCHANGED <<timers, live>>
  /\ tmp' = [tmp EXCEPT ![r] = NoTimer]
  /\ UNCHANGED <<expire, rou, aborted>>

(* The routine that runs yields without a wait (readwrite_routine, when it *)
(* has no descriptor), or main() enters the loop.                          *)
Yield == /\ running # Loop
         /\ running' = Loop
         /\ UNCHANGED <<clock, heap, loop, waiting, tmp, aborted>>

-----------------------------------------------------------------------------
(* EventLoop::loop.                                                        *)

InLoop == running = Loop /\ ~handling /\ ~aborted

(* epoll_wait: the timerfd if it is readable, and the routines whose       *)
(* descriptor is.                                                          *)
Poll == /\ InLoop
        /\ batch = {}
        /\ \E S \in SUBSET waiting :
              batch' = S \cup (IF fdReady THEN {Timerfd} ELSE {})
        /\ batch' # {}
        /\ UNCHANGED <<clock, heap, expired, todo, handling, running, waiting, tmp, aborted>>

(* handleEvent for the channel of a routine that waits.  A channel whose   *)
(* routine has gone on meanwhile is the subject of module TcpServer.       *)
HandleEvent(r) ==
  /\ InLoop
  /\ r \in batch
  /\ batch' = batch \ {r}
  /\ IF r \in waiting THEN Resume(r) ELSE UNCHANGED <<heap, running, waiting, tmp, aborted>>
  /\ UNCHANGED <<clock, expired, todo, handling>>

(* Mutant: an iterator that has gone past lower_bound(now). *)
GetExpired_All == timers

(* getExpired: the entries before lower_bound(now). *)
GetExpired == {t \in timers : expire[t] < now}

(* handleRead, as far as the loop that runs the expired timers. *)
HandleRead ==
  /\ InLoop
  /\ Timerfd \in batch
  /\ Ties \/ Found(now) = {}
  /\ batch' = batch \ {Timerfd}
  /\ fdReady' = FALSE
  /\ IF Found(now) # {}
     THEN /\ aborted' = TRUE
          /\ UNCHANGED <<timers, expired, todo, handling>>
     ELSE /\ expired' = GetExpired
          /\ todo' = GetExpired
          /\ timers' = timers \ GetExpired
          /\ handling' = TRUE
          /\ UNCHANGED aborted
  /\ UNCHANGED <<now, steps, fdLeft, live, expire, rou, running, waiting, tmp>>

RunTimer(t) ==
  /\ running = Loop
  /\ t \in todo
  /\ \A u \in todo : expire[t] <= expire[u]
  /\ todo' = todo \ {t}
  /\ Resume(rou[t])
  /\ UNCHANGED <<clock, expired, handling, batch>>

(* Mutant: the timerfd is not armed again. *)
Rearm_Not == UNCHANGED <<fdLeft, fdReady>>

(* reset: the timers that have run are deleted, and the timerfd is armed   *)
(* for the first of those that are left.                                   *)
Rearm == IF timers = {} THEN UNCHANGED <<fdLeft, fdReady>>
         ELSE \E t \in timers : /\ \A u \in timers : expire[t] <= expire[u]
                                /\ ResetTimerfd(expire[t])

Reset ==
  /\ running = Loop
  /\ handling
  /\ todo = {}
  /\ handling' = FALSE
  /\ live' = live \ expired
  /\ expire' = [t \in Timer |-> IF t \in expired THEN 0 ELSE expire[t]]
  /\ rou' = [t \in Timer |-> IF t \in expired THEN Nobody ELSE rou[t]]
  /\ expired' = {}
  /\ Rearm
  /\ UNCHANGED <<now, steps, timers, todo, batch, running, waiting, tmp, aborted>>

-----------------------------------------------------------------------------
LoopStep == \/ Poll
            \/ \E r \in Routine : HandleEvent(r)
            \/ HandleRead
            \/ \E t \in Timer : RunTimer(t)
            \/ Reset

RoutineStep == \/ \E r \in Routine, d \in Delays, t \in Timer : AddEpoll(r, d, t)
               \/ Yield

Next == Tick \/ SetClock \/ LoopStep \/ RoutineStep

Spec == Init /\ [][Next]_vars

(* The loop has something to do other than sleep in epoll_wait until a     *)
(* descriptor becomes ready, which may never happen.                       *)
Awake == fdReady \/ batch # {} \/ handling

(* Time passes, the loop goes on unless it sleeps, and a routine that runs *)
(* yields some time (readwrite_routine has no unbounded loop without one). *)
FairSpec == Spec /\ WF_vars(Tick) /\ WF_vars(Awake /\ LoopStep) /\ WF_vars(Yield)

-----------------------------------------------------------------------------
TypeOK == /\ now \in 0 .. MaxNow
          /\ steps \in 0 .. MaxSteps
          /\ fdLeft \in Nat
          /\ fdReady \in BOOLEAN
          /\ live \subseteq Timer
          /\ expire \in [Timer -> Nat]
          /\ rou \in [Timer -> Routine \cup {Nobody}]
          /\ timers \subseteq Timer
          /\ expired \subseteq Timer
          /\ todo \subseteq expired
          /\ handling \in BOOLEAN
          /\ batch \subseteq Routine \cup {Timerfd}
          /\ running \in Routine \cup {Nobody, Loop}
          /\ waiting \subseteq Routine
          /\ tmp \in [Routine -> Timer \cup {NoTimer}]
          /\ aborted \in BOOLEAN

(* As long as a timer is in the heap the timerfd is readable or armed,     *)
(* whatever happens to the wall clock: no wait is forgotten.               *)
TimersArmed ==
  timers # {} /\ ~handling /\ ~aborted => fdReady \/ fdLeft > 0

(* As long as nobody sets the wall clock, the timerfd fires no later than  *)
(* the first timer is due, or than MinWait from now if that is later: it   *)
(* is never armed for a wait that is not the first.                        *)
FiresInTime ==
  steps = 0 /\ ~handling /\ ~aborted /\ ~fdReady =>
     fdLeft <= MinWait \/ \A t \in timers : now + fdLeft <= expire[t]

(* delTimer reads the expiry of a Timer, and handleRead runs it, only      *)
(* while it is allocated.                                                  *)
TimersAlive == /\ timers \subseteq live
               /\ expired \subseteq live
               /\ timers \cap expired = {}
               /\ \A r \in waiting : tmp[r] \in live

(* A routine that waits has its own timer in the heap or among the expired *)
(* ones, and a timer there belongs to a routine that waits for it: no wait *)
(* loses its timeout and no routine is resumed by the timer of a wait that *)
(* is over.                                                                *)
OwnTimer == /\ \A r \in waiting : tmp[r] \in timers \cup todo
            /\ \A t \in timers \cup todo : rou[t] \in waiting /\ tmp[rou[t]] = t

(* A wait that ends removes no timer but its own: Channel.cpp:67 says that *)
(* addEpoll then deletes the channel and "the corresponding timer".        *)
CancelsOwn ==
  [][\A r \in waiting : r \notin waiting' => timers \ timers' \subseteq {tmp[r]}]_vars

(* The assertion of getExpired (MiniHeap.cpp:158) holds: after             *)
(* lower_bound(now) no entry is due at `now' itself.                       *)
NoAbort == ~aborted

(* Every wait ends. *)
WaitEnds == \A r \in Routine : r \in waiting ~> r \notin waiting

(* The heap, the timerfd and the loop implement waits with a deadline. *)
Abs == INSTANCE TimedWait WITH
         deadline <- [r \in Routine |-> IF r \in waiting THEN expire[tmp[r]] ELSE 0],
         due <- {rou[t] : t \in todo},
         reported <- batch \cap Routine
ImplementsTimedWait == Abs!Spec
=============================================================================
