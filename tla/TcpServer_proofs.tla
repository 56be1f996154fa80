-------------------------- MODULE TcpServer_proofs --------------------------
(***************************************************************************)
(* Proofs about the echo server: however many routines it has, whatever    *)
(* descriptors accept returns and whatever the clients do, it keeps the    *)
(* contracts of the coroutines and of the poller, owns each descriptor     *)
(* once, forgets no connection and implements the pool of workers.         *)
(*                                                                         *)
(* What is known of the poller comes from the lemmas of Epoll_proofs, for  *)
(* the channels and descriptors of the server; they are cited where a step *)
(* of the server keeps the contract.  The rest of the invariant says where *)
(* a routine can be: its place in its function tells whether it is on the  *)
(* call stack, which of its variables hold a descriptor and the state of   *)
(* its channel.                                                            *)
(***************************************************************************)
EXTENDS TcpServer, TLAPS, SequenceFacts, FiniteSetTheorems

EP == INSTANCE Epoll_proofs WITH Channel <- Coroutine \cup {TimerChan},
                                 Fd <- ConnFd \cup {ListenFd, TimerFd}

RP == INSTANCE Routine_proofs WITH Routine <- Coroutine

InPool(r) == r \in ToSet(pool)

(* The call stacks that the server can have. *)
StackShape == \/ callStack = <<Main>>
              \/ \E r \in Coroutine : callStack = <<Main, r>>
              \/ \E r \in RW : callStack = <<Main, Acceptor, r>>

(* No routine ever returns, and the accept routine is made after all the   *)
(* others have been started.                                               *)
StartRight == /\ \A r \in Coroutine : /\ ~end[r]
                                      /\ start[r] => r \in created
                                      /\ OnStack(r) => start[r]
              /\ Acceptor \in created => \A r \in RW : start[r]

(* Where a routine is in its function tells the state of its channel. *)
ChannelRight(r) == /\ index[r] = IF pc[r] = "wait" THEN "added" ELSE "new"
                   /\ pc[r] = "wait" => events[r] = {"in", "out"}

AcceptorRight ==
  /\ pc[Acceptor] \in {"accept", "hand", "make", "add", "wait", "left"}
  /\ ~start[Acceptor] => pc[Acceptor] = "accept"
  /\ start[Acceptor] /\ pc[Acceptor] # "wait" => OnStack(Acceptor)
  /\ cur[Acceptor] # NoFd <=> pc[Acceptor] = "hand"
  /\ fdOf[Acceptor] = IF pc[Acceptor] \in {"add", "wait", "left"} THEN ListenFd ELSE NoFd
  /\ ChannelRight(Acceptor)

WorkerRight(r) ==
  /\ pc[r] \in {"top", "make", "add", "wait", "read", "write", "close", "break"}
  /\ ~start[r] => pc[r] = "top" /\ tskfd[r] = NoFd
  /\ InPool(r) => pc[r] = "top" /\ tskfd[r] = NoFd /\ start[r]
  /\ pc[r] = "top" /\ start[r] => (OnStack(r) <=> ~InPool(r))
  /\ pc[r] \notin {"top", "wait"} => OnStack(r)
  /\ tskfd[r] # NoFd => pc[r] = "top"
  /\ cur[r] # NoFd <=> pc[r] \notin {"top", "break"}
  /\ pc[r] \in {"top", "make"} => fdOf[r] = NoFd
  /\ pc[r] \in {"add", "wait", "read", "write", "close"} => fdOf[r] = cur[r]
  /\ pc[r] = "break" => fdOf[r] \in ConnFd
  /\ ChannelRight(r)

(* The routines that wait are those that have a timer, once. *)
TimersRight == /\ Distinct(expired \o timers)
               /\ \A r \in ToSet(expired) : Waits(r)
               /\ \A r \in ToSet(timers) : pc[r] = "wait"
               /\ \A r \in Coroutine : Waits(r) => r \in ToSet(expired \o timers)
               /\ expired # <<>> => handling

FdsRight == /\ \A r, s \in Coroutine : r # s => Held(r) \cap Held(s) = {}
            /\ \A fd \in ConnFd : fd \in open <=> \E r \in Coroutine : fd \in Held(r)
            /\ ListenFd \in open /\ TimerFd \in open
            /\ fdOf[TimerChan] = TimerFd /\ index[TimerChan] = "added"

(* A connection is in one place. *)
ConnRight == /\ \A fd \in ConnFd : sock[fd] # NoConn <=> fd \in open
             /\ \A fd, gd \in ConnFd : sock[fd] = sock[gd] /\ sock[fd] # NoConn => fd = gd
             /\ \A fd \in ConnFd : sock[fd] \notin gone \cup ToSet(backlog)
             /\ Distinct(backlog)
             /\ \A c \in ToSet(backlog) : c \notin gone

(* What read() has told a routine that closes its connection stays true. *)
ClosingRight == \A r \in RW : pc[r] = "close" =>
                   \/ sock[cur[r]] \in reset
                   \/ sock[cur[r]] \in eof /\ unread[sock[cur[r]]] = 0

(* No routine leaves its channel while the loop still has an event for it, *)
(* if the timers are handled last.                                         *)
EventsRight == TimerLast => /\ \A c \in active \ {TimerChan} : Waits(c)
                            /\ handling => active = {}

(* The types of what is neither the coroutines' nor the poller's. *)
Typed == /\ pc \in [Coroutine -> Label]
         /\ tskfd \in [RW -> ConnFd \cup {NoFd}]
         /\ cur \in [Coroutine -> ConnFd \cup {NoFd}]
         /\ pool \in Seq(RW)
         /\ looping \in BOOLEAN
         /\ active \subseteq Coroutine \cup {TimerChan}
         /\ timers \in Seq(Coroutine)
         /\ handling \in BOOLEAN
         /\ expired \in Seq(Coroutine)
         /\ crashed \in BOOLEAN
         /\ backlog \in Seq(Conn)
         /\ sock \in [ConnFd -> Conn \cup {NoConn}]
         /\ gone \subseteq Conn
         /\ unread \in [Conn -> 0 .. MaxData]
         /\ eof \subseteq Conn
         /\ reset \subseteq Conn
         /\ full \subseteq Conn

IInv == /\ R!TypeOK
        /\ EP!IInv
        /\ Typed
        /\ StackShape
        /\ StartRight
        /\ AcceptorRight
        /\ \A r \in RW : WorkerRight(r)
        /\ Distinct(pool)
        /\ TimersRight
        /\ FdsRight
        /\ ConnRight
        /\ ClosingRight
        /\ EventsRight

-----------------------------------------------------------------------------
(* The call stack.                                                         *)

(* The names of the routines are different. *)
LEMMA Names ==
  /\ Acceptor \in Coroutine /\ RW \subseteq Coroutine /\ Acceptor \notin RW
  /\ Main \notin Coroutine /\ TimerChan \notin Coroutine
  /\ \A r \in Coroutine : r = Acceptor \/ r \in RW
BY TcpServerAssumption DEF Coroutine

(* What the call stacks have on them. *)
LEMMA Stacks ==
  /\ ToSet(<<Main>>) = {Main} /\ Last(<<Main>>) = Main
  /\ \A r \in Coroutine : /\ ToSet(<<Main, r>>) = {Main, r}
                          /\ Last(<<Main, r>>) = r
                          /\ Front(<<Main, r>>) = <<Main>>
                          /\ Append(<<Main>>, r) = <<Main, r>>
  /\ \A r \in RW : /\ ToSet(<<Main, Acceptor, r>>) = {Main, Acceptor, r}
                   /\ Last(<<Main, Acceptor, r>>) = r
                   /\ Front(<<Main, Acceptor, r>>) = <<Main, Acceptor>>
                   /\ Append(<<Main, Acceptor>>, r) = <<Main, Acceptor, r>>
<1> DEFINE S == Coroutine \cup {Main}
<1>1. Main \in S /\ Acceptor \in S /\ RW \subseteq S /\ Coroutine \subseteq S
  BY Names
<1> HIDE DEF S
<1>2. ToSet(<<Main>>) = {Main} /\ Last(<<Main>>) = Main
  BY <1>1, Short
<1>3. ASSUME NEW r \in S
      PROVE  /\ ToSet(<<Main, r>>) = {Main, r} /\ Last(<<Main, r>>) = r
             /\ Front(<<Main, r>>) = <<Main>> /\ Append(<<Main>>, r) = <<Main, r>>
  BY <1>1, Short
<1>4. ASSUME NEW r \in S
      PROVE  /\ ToSet(<<Main, Acceptor, r>>) = {Main, Acceptor, r}
             /\ Last(<<Main, Acceptor, r>>) = r
             /\ Front(<<Main, Acceptor, r>>) = <<Main, Acceptor>>
             /\ Append(<<Main, Acceptor>>, r) = <<Main, Acceptor, r>>
  BY <1>1, ShortThree
<1> QED  BY <1>1, <1>2, <1>3, <1>4

(* The top of the call stack runs. *)
LEMMA RunningIsLast == Running = Last(callStack)
BY DEF Running, R!Running, R!Last, Last

(* What is known when the main routine runs, and when another does. *)
LEMMA MainRuns ==
  ASSUME StackShape, Running = Main
  PROVE  callStack = <<Main>> /\ \A r \in Coroutine : ~OnStack(r)
BY Names, Stacks, RunningIsLast DEF StackShape, OnStack

LEMMA CoroutineRuns ==
  ASSUME StackShape, NEW r \in Coroutine, Running = r
  PROVE  /\ OnStack(r)
         /\ Running # Main
         /\ \/ callStack = <<Main, r>>
            \/ r \in RW /\ callStack = <<Main, Acceptor, r>>
         /\ r = Acceptor => callStack = <<Main, Acceptor>>
         /\ \A q \in Coroutine : OnStack(q) => q = r \/ (q = Acceptor /\ r \in RW)
BY Names, Stacks, RunningIsLast DEF StackShape, OnStack

(* Resume puts a routine on the stack, *)
LEMMA Resumed ==
  ASSUME StackShape, R!TypeOK, NEW r \in Coroutine, ~OnStack(r), R!Resume(r),
         Running = Main \/ (Running = Acceptor /\ r \in RW)
  PROVE  /\ StackShape' /\ R!TypeOK'
         /\ \A q \in Coroutine : OnStack(q)' <=> OnStack(q) \/ q = r
         /\ start' = [start EXCEPT ![r] = TRUE] /\ UNCHANGED <<created, end>>
<1>1. /\ callStack' = Append(callStack, r)
      /\ start' = [start EXCEPT ![r] = TRUE] /\ UNCHANGED <<created, end>>
  BY DEF R!Resume
<1>2. /\ \/ callStack' = <<Main, r>>
         \/ r \in RW /\ callStack' = <<Main, Acceptor, r>>
      /\ \A q \in Coroutine : OnStack(q)' <=> OnStack(q) \/ q = r
  <2>1. CASE Running = Main
    <3>1. callStack' = <<Main, r>> /\ callStack = <<Main>>
      BY <1>1, <2>1, MainRuns, Stacks
    <3> QED  BY <3>1, Stacks, Names DEF OnStack
  <2>2. CASE Running = Acceptor /\ r \in RW
    <3>1. callStack' = <<Main, Acceptor, r>> /\ callStack = <<Main, Acceptor>>
      BY <1>1, <2>2, CoroutineRuns, Stacks, Names
    <3> QED  BY <2>2, <3>1, Stacks, Names DEF OnStack
  <2> QED  BY <2>1, <2>2
<1>3. R!TypeOK'
  <2>1. callStack' \in Seq(R!AnyRoutine)
    BY <1>1 DEF R!TypeOK, R!AnyRoutine
  <2>2. start' \in [Coroutine -> BOOLEAN]
    BY <1>1 DEF R!TypeOK
  <2>3. ctx' \in [R!AnyRoutine -> R!Site]
    BY DEF R!Resume, R!Swap, R!Made, R!TypeOK, R!Site
  <2> QED  BY <1>1, <2>1, <2>2, <2>3 DEF R!TypeOK
<1> QED  BY <1>1, <1>2, <1>3 DEF StackShape

(* and Yield takes it away. *)
LEMMA Yielded ==
  ASSUME StackShape, R!TypeOK, NEW r \in Coroutine, Running = r, R!Yield
  PROVE  /\ StackShape' /\ R!TypeOK'
         /\ \A q \in Coroutine : OnStack(q)' <=> OnStack(q) /\ q # r
         /\ UNCHANGED <<start, created, end>>
<1>1. callStack' = Front(callStack) /\ UNCHANGED <<start, created, end>>
  BY DEF R!Yield, R!Popped, R!Front, Front
<1>2. /\ \/ callStack' = <<Main>>
         \/ r \in RW /\ callStack' = <<Main, Acceptor>>
      /\ \A q \in Coroutine : OnStack(q)' <=> OnStack(q) /\ q # r
  <2>1. CASE callStack = <<Main, r>>
    BY <1>1, <2>1, Stacks, Names DEF OnStack
  <2>2. CASE r \in RW /\ callStack = <<Main, Acceptor, r>>
    BY <1>1, <2>2, Stacks, Names DEF OnStack
  <2> QED  BY <2>1, <2>2, CoroutineRuns
<1>3. R!TypeOK'
  <2>1. callStack' \in Seq(R!AnyRoutine)
    <3>1. Main \in R!AnyRoutine /\ Acceptor \in R!AnyRoutine
      BY Names DEF R!AnyRoutine
    <3>2. <<Main>> \in Seq(R!AnyRoutine) /\ <<Main, Acceptor>> \in Seq(R!AnyRoutine)
      BY <3>1, Short
    <3> QED  BY <1>2, <3>2
  <2>2. ctx' \in [R!AnyRoutine -> R!Site]
    BY DEF R!Yield, R!Swap, R!TypeOK, R!Site
  <2> QED  BY <1>1, <2>1, <2>2 DEF R!TypeOK
<1> QED  BY <1>1, <1>2, <1>3, Names DEF StackShape

-----------------------------------------------------------------------------
(* The poller: what each call of the server does to it, and that the call  *)
(* is one that its contract allows.                                        *)

Channels == Coroutine \cup {TimerChan}
Fds == ConnFd \cup {ListenFd, TimerFd}

(* The assumption of module Epoll, for the server. *)
LEMMA PollerAssumption == NoChannel \notin Channels /\ NoFd \notin Fds
BY TcpServerAssumption DEF Channels, Fds

LEMMA PollerTyped ==
  /\ EP!TypeOK <=> E!TypeOK
  /\ EP!IInv => /\ open \subseteq Fds /\ ~failed
                /\ fdOf \in [Channels -> Fds \cup {NoFd}]
                /\ events \in [Channels -> SUBSET {"in", "out"}]
                /\ index \in [Channels -> {"new", "added", "deleted"}]
                /\ channels \in [Fds -> Channels \cup {NoChannel}]
BY DEF EP!IInv, EP!TypeOK, E!TypeOK, EP!Event, E!Event, EP!Index, E!Index, EP!Entry, E!Entry,
       EP!NoEntry, E!NoEntry, EP!NoAssertFails, Channels, Fds

LEMMA PollerSame ==
  ASSUME EP!IInv, UNCHANGED epollVars
  PROVE  EP!IInv'
<1> USE DEF EP!IInv, epollVars
<1>1. EP!TypeOK'
  BY DEF EP!TypeOK
<1>2. EP!ChannelsExact' /\ EP!RegisteredOpen' /\ EP!NoAssertFails'
  BY DEF EP!ChannelsExact, EP!RegisteredOpen, EP!NoAssertFails, EP!Registered, EP!Alive
<1>3. EP!KernelAgrees'
  BY DEF EP!KernelAgrees, EP!NoEntry
<1> QED  BY <1>1, <1>2, <1>3

LEMMA PollerConstruct ==
  ASSUME EP!IInv, NEW c \in Coroutine, NEW fd \in open, fdOf[c] = NoFd, E!Construct(c, fd)
  PROVE  /\ EP!IInv' /\ E!Next
         /\ open' = open
         /\ fdOf' = [fdOf EXCEPT ![c] = fd]
         /\ index' = [index EXCEPT ![c] = "new"]
         /\ events' = [events EXCEPT ![c] = {}]
<1>1. c \in Channels
  BY DEF Channels
<1>2. EP!IInv'
  <2>1. EP!Construct(c, fd)
    BY DEF EP!Construct, E!Construct
  <2>2. ~EP!Alive(c)
    BY DEF EP!Alive
  <2> QED  BY <1>1, <2>1, <2>2, EP!ConstructIInv, PollerAssumption
           DEF EP!ConstructIInv, Channels, Fds
<1>3. E!Next
  <2>1. E!Use(c)
    BY DEF E!Use, E!Alive
  <2> QED  BY <1>1, <2>1, PollerTyped DEF E!Next, Channels
<1> QED  BY <1>2, <1>3 DEF E!Construct

LEMMA PollerDestroy ==
  ASSUME EP!IInv, NEW c \in Coroutine, fdOf[c] # NoFd, index[c] = "new", E!Destroy(c)
  PROVE  /\ EP!IInv' /\ E!Next
         /\ fdOf' = [fdOf EXCEPT ![c] = NoFd]
         /\ UNCHANGED <<open, index, events>>
<1>1. c \in Channels
  BY DEF Channels
<1>2. EP!IInv'
  <2>1. EP!Destroy(c)
    BY DEF EP!Destroy, E!Destroy
  <2>2. ~EP!Registered(c)
    BY DEF EP!Registered
  <2> QED  BY <1>1, <2>1, <2>2, EP!DestroyIInv, PollerAssumption
           DEF EP!DestroyIInv, Channels, Fds
<1>3. E!Next
  <2>1. E!Use(c)
    BY DEF E!Use, E!Alive, E!Registered
  <2> QED  BY <1>1, <2>1, PollerTyped DEF E!Next, Channels
<1> QED  BY <1>2, <1>3 DEF E!Destroy

LEMMA PollerUpdate ==
  ASSUME EP!IInv, NEW c \in Coroutine, fdOf[c] \in open, index[c] = "new",
         \A d \in Channels : fdOf[d] = fdOf[c] => index[d] = "new",
         E!UpdateChannel(c, Watched)
  PROVE  /\ EP!IInv' /\ E!Next
         /\ index' = [index EXCEPT ![c] = "added"]
         /\ events' = [events EXCEPT ![c] = {"in", "out"}]
         /\ UNCHANGED <<open, fdOf>>
<1>1. c \in Channels
  BY DEF Channels
<1>2. Watched = {"in", "out"} /\ Watched \in SUBSET {"in", "out"}
  BY DEF Watched
<1>3. fdOf[c] # NoFd
  BY PollerTyped, PollerAssumption
<1>4. EP!MayUpdate(c)
  BY <1>1, <1>3 DEF EP!MayUpdate, EP!Alive, EP!Registered, Channels
<1>5. EP!UpdateChannel(c, Watched)
  BY DEF EP!UpdateChannel, E!UpdateChannel, EP!UpdateAsserts, E!UpdateAsserts, EP!Fail, E!Fail,
         EP!Operation, E!Operation, EP!IndexAfter, E!IndexAfter, EP!Update, E!Update,
         EP!NoEntry, E!NoEntry, EP!EntryFor, E!EntryFor, EP!chan, E!chan
<1>6. EP!IInv'
  BY <1>1, <1>2, <1>4, <1>5, EP!UpdateChannelIInv, PollerAssumption
  DEF EP!UpdateChannelIInv, EP!Event, Channels, Fds
<1>7. E!UpdateAsserts(c)
  <2>1. EP!UpdateAsserts(c)
    BY <1>1, <1>2, <1>4, EP!UpdateSucceeds, PollerAssumption
    DEF EP!UpdateSucceeds, EP!Event, Channels, Fds
  <2> QED  BY <2>1 DEF EP!UpdateAsserts, E!UpdateAsserts
<1>8. E!Next
  <2>1. E!Use(c)
    BY <1>1, <1>2, <1>3 DEF E!Use, E!Alive, E!Registered, E!Event, Channels
  <2> QED  BY <1>1, <2>1, PollerTyped DEF E!Next, Channels
<1>9. E!IndexAfter(c, Watched) = "added"
  BY DEF E!IndexAfter, E!Operation
<1> QED  BY <1>2, <1>6, <1>7, <1>8, <1>9 DEF E!UpdateChannel

LEMMA PollerRemove ==
  ASSUME EP!IInv, NEW c \in Coroutine, fdOf[c] # NoFd, index[c] = "added", E!RemoveChannel(c)
  PROVE  /\ EP!IInv' /\ E!Next
         /\ index' = [index EXCEPT ![c] = "new"]
         /\ UNCHANGED <<open, fdOf, events>>
<1>1. c \in Channels
  BY DEF Channels
<1>2. EP!RemoveChannel(c)
  BY DEF EP!RemoveChannel, E!RemoveChannel, EP!RemoveAsserts, E!RemoveAsserts, EP!Fail, E!Fail,
         EP!NeedsDel, E!NeedsDel, EP!Erased, E!Erased, EP!Update, E!Update,
         EP!NoEntry, E!NoEntry, EP!EntryFor, E!EntryFor, EP!chan, E!chan
<1>3. EP!Registered(c) /\ E!Registered(c)
  BY DEF EP!Registered, EP!Alive, E!Registered, E!Alive
<1>4. EP!IInv'
  BY <1>1, <1>2, <1>3, EP!RemoveChannelIInv, PollerAssumption
  DEF EP!RemoveChannelIInv, Channels, Fds
<1>5. E!RemoveAsserts(c)
  BY <1>1, <1>3, PollerTyped DEF EP!IInv, EP!ChannelsExact, E!RemoveAsserts, Channels, Fds
<1>6. E!Next
  <2>1. E!Use(c)
    BY <1>3 DEF E!Use
  <2> QED  BY <1>1, <2>1, PollerTyped DEF E!Next, Channels
<1> QED  BY <1>4, <1>5, <1>6 DEF E!RemoveChannel

LEMMA PollerOpen ==
  ASSUME EP!IInv, NEW fd \in ConnFd, E!Open(fd)
  PROVE  /\ EP!IInv' /\ E!Next
         /\ fd \notin open /\ open' = open \cup {fd} /\ UNCHANGED <<fdOf, index, events>>
<1>1. EP!Open(fd)
  BY DEF EP!Open, E!Open, EP!chan, E!chan
<1>2. EP!IInv'
  BY <1>1, EP!OpenIInv, PollerAssumption DEF EP!OpenIInv, Channels, Fds
<1>3. E!Next
  BY PollerTyped DEF E!Next
<1> QED  BY <1>2, <1>3 DEF E!Open, E!chan

LEMMA PollerClose ==
  ASSUME EP!IInv, NEW fd \in ConnFd, \A d \in Channels : fdOf[d] = fd => index[d] = "new",
         E!Close(fd)
  PROVE  /\ EP!IInv' /\ E!Next
         /\ fd \in open /\ open' = open \ {fd} /\ UNCHANGED <<fdOf, index, events>>
<1>1. EP!Close(fd)
  BY DEF EP!Close, E!Close, EP!chan, E!chan, EP!NoEntry, E!NoEntry
<1>2. EP!MayClose(fd) /\ E!MayClose(fd)
  BY DEF EP!MayClose, E!MayClose, EP!Registered, E!Registered, Channels
<1>3. EP!IInv'
  BY <1>1, <1>2, EP!CloseIInv, PollerAssumption DEF EP!CloseIInv, Channels, Fds
<1>4. E!Next
  BY <1>2, PollerTyped DEF E!Next
<1> QED  BY <1>3, <1>4 DEF E!Close, E!chan

-----------------------------------------------------------------------------
(* What a step leaves alone.                                               *)

RoutineSame(r) ==
  /\ pc'[r] = pc[r] /\ cur'[r] = cur[r]
  /\ fdOf'[r] = fdOf[r] /\ index'[r] = index[r] /\ events'[r] = events[r]
  /\ start'[r] = start[r] /\ (OnStack(r)' <=> OnStack(r))
  /\ r \in RW => tskfd'[r] = tskfd[r] /\ (InPool(r)' <=> InPool(r))

LEMMA RoutineFrame ==
  ASSUME IInv, NEW r \in Coroutine, RoutineSame(r)
  PROVE  /\ r = Acceptor => AcceptorRight'
         /\ r \in RW => WorkerRight(r)'
         /\ Held(r)' = Held(r)
         /\ Waits(r)' <=> Waits(r)
<1>1. r = Acceptor => AcceptorRight'
  BY DEF IInv, RoutineSame, AcceptorRight, ChannelRight
<1>2. r \in RW => WorkerRight(r)'
  BY DEF IInv, RoutineSame, WorkerRight, ChannelRight
<1>3. Held(r)' = Held(r)
  BY DEF RoutineSame, Held
<1>4. Waits(r)' <=> Waits(r)
  BY DEF RoutineSame, Waits, OnStack
<1> QED  BY <1>1, <1>2, <1>3, <1>4

LEMMA StackFrame ==
  ASSUME IInv, UNCHANGED routineVars
  PROVE  R!TypeOK' /\ StackShape' /\ StartRight' /\ \A r \in Coroutine : OnStack(r)' <=> OnStack(r)
BY DEF IInv, routineVars, R!TypeOK, StackShape, StartRight, OnStack

LEMMA TimersFrame ==
  ASSUME IInv, UNCHANGED <<expired, timers, handling>>,
         \A r \in Coroutine : Waits(r)' => Waits(r),
         \A r \in ToSet(expired) : Waits(r)',
         \A r \in ToSet(timers) : pc'[r] = pc[r]
  PROVE  TimersRight'
BY DEF IInv, TimersRight

LEMMA FdsFrame ==
  ASSUME IInv, open' = open, fdOf'[TimerChan] = fdOf[TimerChan], index'[TimerChan] = index[TimerChan],
         \A r \in Coroutine : Held(r)' = Held(r)
  PROVE  FdsRight'
BY DEF IInv, FdsRight

LEMMA ConnFrame ==
  ASSUME IInv, UNCHANGED <<open, sock, gone, backlog>>
  PROVE  ConnRight'
BY DEF IInv, ConnRight, Distinct

LEMMA ClosingFrame ==
  ASSUME IInv, UNCHANGED <<sock, unread, eof, reset>>,
         \A r \in RW : pc'[r] = "close" => pc[r] = "close" /\ cur'[r] = cur[r]
  PROVE  ClosingRight'
BY DEF IInv, ClosingRight

LEMMA EventsFrame ==
  ASSUME IInv, active' \subseteq active, handling' = handling,
         \A c \in active' \ {TimerChan} : Waits(c) => Waits(c)'
  PROVE  EventsRight'
BY DEF IInv, EventsRight

(* The elements of the lists of the loop are routines. *)
LEMMA Listed ==
  ASSUME IInv
  PROVE  /\ ToSet(timers) \subseteq Coroutine /\ ToSet(expired) \subseteq Coroutine
         /\ ToSet(pool) \subseteq RW
         /\ \A r : r \in ToSet(expired \o timers) <=> r \in ToSet(expired) \/ r \in ToSet(timers)
         /\ Distinct(expired) /\ Distinct(timers)
         /\ \A r \in ToSet(expired) : r \notin ToSet(timers)
<1>1. timers \in Seq(Coroutine) /\ expired \in Seq(Coroutine) /\ pool \in Seq(RW)
  BY DEF IInv, Typed
<1>2. ToSet(timers) \subseteq Coroutine /\ ToSet(expired) \subseteq Coroutine /\ ToSet(pool) \subseteq RW
  BY <1>1, InToSet, ElementOfSeq
<1>3. Distinct(expired \o timers)
  BY DEF IInv, TimersRight
<1> QED  BY <1>1, <1>2, <1>3, Concatenated

(* A step of the clients, or of the loop, that resumes nobody. *)
LEMMA ServerSame ==
  ASSUME IInv, UNCHANGED <<routineVars, epollVars, serverVars>>
  PROVE  /\ R!TypeOK' /\ EP!IInv' /\ StackShape' /\ StartRight'
         /\ AcceptorRight' /\ (\A r \in RW : WorkerRight(r)') /\ Distinct(pool)' /\ FdsRight'
         /\ \A r \in Coroutine : pc'[r] = pc[r] /\ cur'[r] = cur[r] /\ (Waits(r)' <=> Waits(r))
<1>1. R!TypeOK' /\ StackShape' /\ StartRight' /\ \A r \in Coroutine : OnStack(r)' <=> OnStack(r)
  BY StackFrame
<1>2. EP!IInv'
  BY PollerSame DEF IInv
<1>3. \A r \in Coroutine : RoutineSame(r)
  BY <1>1 DEF RoutineSame, routineVars, epollVars, serverVars, InPool
<1>4. AcceptorRight' /\ \A r \in RW : WorkerRight(r)'
  BY <1>3, RoutineFrame, Names
<1>5. Distinct(pool)'
  BY DEF IInv, serverVars, Distinct
<1>6. FdsRight'
  BY <1>3, RoutineFrame, FdsFrame DEF epollVars
<1> QED  BY <1>1, <1>2, <1>3, <1>4, <1>5, <1>6, RoutineFrame DEF RoutineSame

-----------------------------------------------------------------------------
(* Nothing has happened when the server starts. *)
LEMMA InitIInv == Init => IInv
<1> SUFFICES ASSUME Init PROVE IInv
  OBVIOUS
<1>1. R!TypeOK
  <2>1. Main \in R!AnyRoutine
    BY DEF R!AnyRoutine
  <2>2. callStack \in Seq(R!AnyRoutine)
    BY <2>1, Short DEF Init, R!Init
  <2> QED  BY <2>2 DEF Init, R!Init, R!TypeOK, R!Site
<1>2. EP!IInv
  <2>1. EP!TypeOK
    BY DEF Init, EP!TypeOK, EP!Index, EP!Entry, EP!Event, E!NoEntry, EP!NoEntry
  <2>2. EP!ChannelsExact /\ EP!RegisteredOpen /\ EP!NoAssertFails
    BY PollerAssumption, Names
    DEF Init, EP!ChannelsExact, EP!RegisteredOpen, EP!NoAssertFails, EP!Registered, EP!Alive,
        Channels, Fds
  <2>3. EP!KernelAgrees
    BY PollerAssumption
    DEF Init, EP!KernelAgrees, EP!NoEntry, E!NoEntry, Channels, Fds
  <2> QED  BY <2>1, <2>2, <2>3 DEF EP!IInv
<1>3. Typed
  <2>1. /\ pool \in Seq(RW) /\ backlog \in Seq(Conn)
        /\ timers \in Seq(Coroutine) /\ expired \in Seq(Coroutine)
    BY DEF Init
  <2>2. pc \in [Coroutine -> Label]
    BY DEF Init, Label
  <2>3. unread \in [Conn -> 0 .. MaxData]
    BY TcpServerAssumption DEF Init
  <2> QED  BY <2>1, <2>2, <2>3 DEF Init, Typed
<1>4. callStack = <<Main>> /\ \A r \in Coroutine : ~OnStack(r) /\ ~start[r] /\ ~Waits(r)
  BY Stacks, Names DEF Init, R!Init, OnStack, Waits
<1>5. StackShape /\ StartRight
  BY <1>4, Names DEF StackShape, StartRight, Init, R!Init
<1>6. AcceptorRight /\ \A r \in RW : WorkerRight(r)
  <2>1. ToSet(pool) = {}
    BY EmptyList DEF Init
  <2>2. \A r \in Coroutine : /\ pc[r] = IF r = Acceptor THEN "accept" ELSE "top"
                             /\ cur[r] = NoFd /\ fdOf[r] = NoFd /\ index[r] = "new"
    BY Names DEF Init
  <2>3. \A r \in RW : tskfd[r] = NoFd
    BY DEF Init
  <2> QED  BY <1>4, <2>1, <2>2, <2>3, Names DEF AcceptorRight, WorkerRight, ChannelRight, InPool
<1>7. Distinct(pool) /\ TimersRight
  <2>1. <<>> \in Seq(Coroutine)
    BY EmptySeq
  <2>2. expired = <<>> /\ timers = <<>> /\ pool = <<>> /\ expired \o timers = <<>>
    BY <2>1, ConcatEmptySeq DEF Init
  <2>3. Distinct(<<>>) /\ ToSet(<<>>) = {}
    BY EmptyList
  <2> QED  BY <1>4, <2>2, <2>3 DEF TimersRight
<1>8. FdsRight
  <2>1. \A r \in Coroutine : Held(r) = {}
    BY DEF Init, Held
  <2> QED  BY <2>1, TcpServerAssumption DEF Init, FdsRight
<1>9. ConnRight
  <2>1. ToSet(backlog) = {} /\ Distinct(backlog)
    BY EmptyList DEF Init
  <2> QED  BY <2>1, TcpServerAssumption DEF Init, ConnRight
<1>10. ClosingRight /\ EventsRight
  BY Names DEF Init, ClosingRight, EventsRight
<1> QED  BY <1>1, <1>2, <1>3, <1>5, <1>6, <1>7, <1>8, <1>9, <1>10 DEF IInv

-----------------------------------------------------------------------------
(* What a step does to the coroutines and to the poller is a step of       *)
(* theirs, or nothing.                                                     *)
Contract == [R!Next]_(R!vars) /\ [E!Next]_(E!vars)

LEMMA ContractSame ==
  ASSUME UNCHANGED routineVars, UNCHANGED epollVars
  PROVE  Contract
BY DEF Contract, routineVars, epollVars, R!vars, E!vars, E!chan

(* A routine may be resumed that has been constructed and is not on the    *)
(* call stack.                                                             *)
LEMMA ContractResume ==
  ASSUME IInv, NEW r \in created, ~OnStack(r), R!Resume(r), UNCHANGED epollVars
  PROVE  Contract
<1>1. r \in Coroutine /\ ~end[r]
  BY DEF IInv, R!TypeOK, StartRight
<1>2. R!MayResume(r)
  BY <1>1 DEF R!MayResume, OnStack, ToSet, R!ToSet
<1>3. R!Next
  BY <1>1, <1>2 DEF R!Next
<1> QED  BY <1>3 DEF Contract, epollVars, E!vars, E!chan

(* The clients and the kernel. *)
LEMMA ConnectIInv ==
  ASSUME IInv, NEW c \in Conn, Connect(c)
  PROVE  IInv' /\ Contract
<1>1. UNCHANGED <<routineVars, epollVars, serverVars, loopVars, sock, gone, peerVars>>
  BY DEF Connect
<1>2. backlog \in Seq(Conn) /\ backlog' = Append(backlog, c) /\ Distinct(backlog)
  BY DEF Connect, IInv, Typed, ConnRight
<1>3. c \notin ToSet(backlog) /\ c \notin gone /\ \A fd \in ConnFd : sock[fd] # c
  BY DEF Connect, Known, Range, IInv, Typed
<1>4. /\ backlog' \in Seq(Conn) /\ Distinct(backlog')
      /\ \A d : d \in ToSet(backlog') <=> d \in ToSet(backlog) \/ d = c
  BY <1>2, <1>3, Appended
<1>5. Typed'
  BY <1>1, <1>4 DEF IInv, Typed, serverVars, loopVars, peerVars
<1>6. ConnRight'
  <2>1. \A fd \in ConnFd : sock'[fd] \notin gone' \cup ToSet(backlog')
    BY <1>1, <1>3, <1>4 DEF IInv, ConnRight
  <2>2. \A d \in ToSet(backlog') : d \notin gone'
    BY <1>1, <1>3, <1>4 DEF IInv, ConnRight
  <2>3. Distinct(backlog)'
    BY <1>4 DEF Distinct
  <2> QED  BY <1>1, <2>1, <2>2, <2>3 DEF IInv, ConnRight, epollVars
<1>7. TimersRight'
  BY <1>1, ServerSame, Listed, TimersFrame DEF loopVars, IInv, TimersRight
<1>8. ClosingRight'
  BY <1>1, ServerSame, ClosingFrame, Names DEF peerVars
<1>9. EventsRight'
  BY <1>1, ServerSame, EventsFrame DEF loopVars, IInv, Typed
<1> QED  BY <1>1, <1>5, <1>6, <1>7, <1>8, <1>9, ServerSame, ContractSame DEF IInv

LEMMA PeerIInv ==
  ASSUME IInv, UNCHANGED <<routineVars, epollVars, serverVars, loopVars, backlog, sock, gone>>,
         unread' \in [Conn -> 0 .. MaxData],
         eof' \subseteq Conn, reset' \subseteq Conn, full' \subseteq Conn,
         eof \subseteq eof', reset \subseteq reset', \A c \in eof : unread'[c] = unread[c]
  PROVE  IInv' /\ Contract
<1>1. Typed'
  BY DEF IInv, Typed, serverVars, loopVars
<1>2. ConnRight'
  BY ConnFrame DEF epollVars
<1>3. TimersRight'
  BY ServerSame, Listed, TimersFrame DEF loopVars, IInv, TimersRight
<1>4. ClosingRight'
  <2>1. \A r \in RW : pc'[r] = pc[r] /\ cur'[r] = cur[r]
    BY ServerSame, Names
  <2> QED  BY <2>1 DEF IInv, ClosingRight
<1>5. EventsRight'
  BY ServerSame, EventsFrame DEF loopVars, IInv, Typed
<1> QED  BY <1>1, <1>2, <1>3, <1>4, <1>5, ServerSame, ContractSame DEF IInv

LEMMA ClientIInv ==
  ASSUME IInv, Client
  PROVE  IInv' /\ Contract
<1> PICK c \in Conn : Connect(c) \/ Send(c) \/ Shutdown(c) \/ Reset(c) \/ Drain(c)
  BY DEF Client
<1>1. CASE Connect(c)
  BY <1>1, ConnectIInv
<1>2. /\ unread \in [Conn -> 0 .. MaxData] /\ eof \subseteq Conn /\ reset \subseteq Conn
      /\ full \subseteq Conn
  BY DEF IInv, Typed
<1>3. CASE Send(c)
  <2>1. unread' \in [Conn -> 0 .. MaxData] /\ \A d \in Conn \ {c} : unread'[d] = unread[d]
    <3>1. unread[c] + 1 \in 0 .. MaxData
      BY <1>2, <1>3, TcpServerAssumption DEF Send
    <3> QED  BY <1>2, <1>3, <3>1 DEF Send
  <2>2. c \notin eof
    BY <1>3 DEF Send
  <2>3. \A d \in eof : unread'[d] = unread[d]
    BY <1>2, <2>1, <2>2
  <2>4. UNCHANGED <<routineVars, epollVars, serverVars, loopVars, backlog, sock, gone, eof, reset, full>>
    BY <1>3 DEF Send
  <2> QED  BY <1>2, <2>1, <2>3, <2>4, PeerIInv
<1>4. CASE Shutdown(c)
  BY <1>2, <1>4, PeerIInv DEF Shutdown
<1>5. CASE Reset(c)
  BY <1>2, <1>5, PeerIInv DEF Reset
<1>6. CASE Drain(c)
  BY <1>2, <1>6, PeerIInv DEF Drain
<1> QED  BY <1>1, <1>3, <1>4, <1>5, <1>6

-----------------------------------------------------------------------------
(* The main routine.                                                       *)

LEMMA CreateIInv ==
  ASSUME IInv, NEW r \in Coroutine, MayStart(r), R!Create(r),
         UNCHANGED <<epollVars, serverVars, loopVars, sockVars>>
  PROVE  IInv' /\ Contract
<1>1. created' = created \cup {r} /\ UNCHANGED <<callStack, start, end, ctx>>
  BY DEF R!Create
<1>2. R!TypeOK' /\ StackShape' /\ \A q \in Coroutine : OnStack(q)' <=> OnStack(q)
  BY <1>1 DEF IInv, R!TypeOK, StackShape, OnStack
<1>3. StartRight'
  <2>1. Acceptor \in created' => \A q \in RW : start'[q]
    <3>1. CASE r = Acceptor
      BY <1>1, <3>1 DEF MayStart
    <3>2. CASE r # Acceptor
      BY <1>1, <3>2 DEF IInv, StartRight
    <3> QED  BY <3>1, <3>2
  <2> QED  BY <1>1, <1>2, <2>1 DEF IInv, StartRight
<1>4. \A q \in Coroutine : RoutineSame(q)
  BY <1>1, <1>2 DEF RoutineSame, epollVars, serverVars, InPool
<1>5. AcceptorRight' /\ (\A q \in RW : WorkerRight(q)') /\ EP!IInv'
  BY <1>4, RoutineFrame, Names, PollerSame DEF IInv
<1>6. Typed' /\ Distinct(pool)'
  BY DEF IInv, Typed, Distinct, serverVars, loopVars, sockVars, peerVars
<1>7. FdsRight'
  BY <1>4, RoutineFrame, FdsFrame DEF epollVars
<1>8. ConnRight'
  BY ConnFrame DEF epollVars, sockVars
<1>9. TimersRight'
  BY <1>4, RoutineFrame, Listed, TimersFrame DEF loopVars, RoutineSame, IInv, TimersRight
<1>10. ClosingRight'
  BY <1>4, Names, ClosingFrame DEF sockVars, peerVars, RoutineSame
<1>11. EventsRight'
  BY <1>4, RoutineFrame, EventsFrame DEF loopVars, IInv, Typed
<1>12. Contract
  BY DEF Contract, R!Next, epollVars, E!vars, E!chan
<1> QED  BY <1>2, <1>3, <1>5, <1>6, <1>7, <1>8, <1>9, <1>10, <1>11, <1>12 DEF IInv

(* The main routine resumes a routine that waits or starts. *)
LEMMA MainResumes ==
  ASSUME IInv, NEW r \in created, Running = Main, Waits(r) \/ ~start[r], R!Resume(r),
         UNCHANGED <<epollVars, serverVars>>
  PROVE  /\ R!TypeOK' /\ EP!IInv' /\ StackShape' /\ StartRight'
         /\ AcceptorRight' /\ (\A q \in RW : WorkerRight(q)') /\ Distinct(pool)' /\ FdsRight'
         /\ pc' = pc /\ cur' = cur
         /\ \A q \in Coroutine : Waits(q)' <=> Waits(q) /\ q # r
         /\ Contract
<1>1. r \in Coroutine /\ ~OnStack(r)
  BY MainRuns DEF IInv, R!TypeOK
<1>2. /\ R!TypeOK' /\ StackShape'
      /\ \A q \in Coroutine : OnStack(q)' <=> OnStack(q) \/ q = r
      /\ start' = [start EXCEPT ![r] = TRUE] /\ UNCHANGED <<created, end>>
  BY <1>1, Resumed DEF IInv
<1>3. \A q \in Coroutine : start'[q] <=> start[q] \/ q = r
  BY <1>2 DEF IInv, R!TypeOK
<1>4. StartRight'
  BY <1>2, <1>3, Names DEF IInv, StartRight
<1>5. \A q \in Coroutine : q # r => RoutineSame(q)
  <2>1. \A q \in Coroutine : q # r => start'[q] = start[q]
    BY <1>2 DEF IInv, R!TypeOK
  <2> QED  BY <1>2, <2>1 DEF RoutineSame, epollVars, serverVars, InPool
<1>6. AcceptorRight'
  <2>1. CASE r # Acceptor
    BY <1>5, <2>1, RoutineFrame, Names
  <2>2. CASE r = Acceptor
    BY <1>1, <1>2, <1>3, <2>2
    DEF IInv, AcceptorRight, ChannelRight, Waits, OnStack, epollVars, serverVars
  <2> QED  BY <2>1, <2>2
<1>7. ASSUME NEW q \in RW PROVE WorkerRight(q)'
  <2>1. CASE q # r
    BY <1>5, <2>1, RoutineFrame, Names
  <2>2. CASE q = r
    <3>1. start'[q] /\ OnStack(q)' /\ ~OnStack(q)
      BY <1>1, <1>2, <1>3, <2>2
    <3>2. WorkerRight(q) /\ ~InPool(q) /\ (InPool(q)' <=> InPool(q))
      BY <2>2 DEF IInv, WorkerRight, Waits, InPool, serverVars
    <3> QED  BY <3>1, <3>2 DEF WorkerRight, ChannelRight, epollVars, serverVars
  <2> QED  BY <2>1, <2>2
<1>8. EP!IInv' /\ Distinct(pool)'
  BY PollerSame DEF IInv, Distinct, serverVars
<1>9. FdsRight'
  <2>1. \A q \in Coroutine : Held(q)' = Held(q)
    BY DEF Held, serverVars
  <2> QED  BY <2>1, FdsFrame DEF epollVars
<1>10. \A q \in Coroutine : Waits(q)' <=> Waits(q) /\ q # r
  BY <1>2 DEF Waits, OnStack, serverVars
<1>11. Contract
  BY <1>1, ContractResume
<1> QED  BY <1>2, <1>4, <1>6, <1>7, <1>8, <1>9, <1>10, <1>11 DEF serverVars

LEMMA StartIInv ==
  ASSUME IInv, StartRoutine
  PROVE  IInv' /\ Contract
<1>1. CASE /\ \E r \in Coroutine : MayStart(r) /\ R!Create(r)
           /\ UNCHANGED <<epollVars, serverVars, loopVars, sockVars>>
  BY <1>1, CreateIInv
<1>2. CASE /\ Running = Main /\ ~looping
           /\ \E r \in created : ~start[r] /\ R!Resume(r)
           /\ UNCHANGED <<epollVars, serverVars, loopVars, sockVars>>
  <2>1. PICK r \in created : ~start[r] /\ R!Resume(r)
    BY <1>2
  <2>2. r \in Coroutine /\ ~Waits(r)
    BY <2>1, Names DEF IInv, R!TypeOK, AcceptorRight, WorkerRight, Waits
  <2>3. \A q \in Coroutine : Waits(q)' <=> Waits(q)
    BY <1>2, <2>1, <2>2, MainResumes
  <2>4. Typed'
    BY <1>2 DEF IInv, Typed, serverVars, loopVars, sockVars, peerVars
  <2>5. ConnRight'
    BY <1>2, ConnFrame DEF epollVars, sockVars
  <2>6. TimersRight'
    BY <1>2, <2>3, Listed, TimersFrame DEF loopVars, serverVars, IInv, TimersRight
  <2>7. ClosingRight'
    BY <1>2, ClosingFrame DEF sockVars, peerVars, serverVars
  <2>8. EventsRight'
    BY <1>2, <2>3, EventsFrame DEF loopVars, IInv, Typed
  <2> QED  BY <1>2, <2>1, <2>4, <2>5, <2>6, <2>7, <2>8, MainResumes DEF IInv
<1> QED  BY <1>1, <1>2 DEF StartRoutine

LEMMA EnterLoopIInv ==
  ASSUME IInv, EnterLoop
  PROVE  IInv' /\ Contract
<1>1. UNCHANGED <<routineVars, epollVars, serverVars, active, timers, handling, expired, crashed,
                  sockVars>> /\ looping' = TRUE
  BY DEF EnterLoop
<1>2. Typed'
  BY <1>1 DEF IInv, Typed, serverVars, sockVars, peerVars
<1>3. ConnRight'
  BY <1>1, ConnFrame DEF epollVars, sockVars
<1>4. TimersRight'
  BY <1>1, ServerSame, Listed, TimersFrame DEF IInv, TimersRight
<1>5. ClosingRight'
  BY <1>1, ServerSame, Names, ClosingFrame DEF sockVars, peerVars
<1>6. EventsRight'
  BY <1>1, ServerSame, EventsFrame DEF IInv, Typed
<1> QED  BY <1>1, <1>2, <1>3, <1>4, <1>5, <1>6, ServerSame, ContractSame DEF IInv

-----------------------------------------------------------------------------
(* The loop.                                                               *)

(* What the kernel watches for a routine that has a channel. *)
LEMMA Watches ==
  ASSUME IInv, NEW fd \in Fds, NEW c \in Channels
  PROVE  /\ interest[fd] # EP!NoEntry => /\ interest[fd].ptr \in Channels
                                        /\ fdOf[interest[fd].ptr] = fd
                                        /\ index[interest[fd].ptr] = "added"
         /\ fdOf[c] = fd /\ index[c] = "added" =>
               interest[fd] = [ptr |-> c, events |-> events[c]]
<1>1. /\ EP!ChannelsExact /\ EP!KernelAgrees
      /\ channels \in [Fds -> Channels \cup {NoChannel}]
  BY PollerTyped DEF IInv, EP!IInv
<1>2. interest[fd] = IF channels[fd] # NoChannel /\ index[channels[fd]] = "added"
                     THEN [ptr |-> channels[fd], events |-> events[channels[fd]]]
                     ELSE EP!NoEntry
  BY <1>1 DEF EP!KernelAgrees, Fds
<1>3. \A d \in Channels : channels[fd] = d <=> EP!Registered(d) /\ fdOf[d] = fd
  BY <1>1 DEF EP!ChannelsExact, Fds, Channels
<1>4. ASSUME interest[fd] # EP!NoEntry
      PROVE  /\ interest[fd].ptr \in Channels
             /\ fdOf[interest[fd].ptr] = fd
             /\ index[interest[fd].ptr] = "added"
  <2>1. /\ channels[fd] \in Channels /\ index[channels[fd]] = "added"
        /\ interest[fd].ptr = channels[fd]
    BY <1>1, <1>2, <1>4
  <2> QED  BY <1>3, <2>1
<1>5. ASSUME fdOf[c] = fd, index[c] = "added"
      PROVE  interest[fd] = [ptr |-> c, events |-> events[c]]
  <2>1. channels[fd] = c
    BY <1>3, <1>5, PollerAssumption DEF EP!Registered, EP!Alive
  <2> QED  BY <1>2, <1>5, <2>1, PollerAssumption
<1> QED  BY <1>4, <1>5

(* A channel that is registered is that of the timerfd or of a routine     *)
(* that waits.                                                             *)
LEMMA WatchedWait ==
  ASSUME IInv, NEW c \in Coroutine, index[c] = "added"
  PROVE  pc[c] = "wait"
BY Names DEF IInv, AcceptorRight, WorkerRight, ChannelRight

(* poll() returns the channels of routines that wait, and timerfdChannel_. *)
LEMMA PollIInv ==
  ASSUME IInv, Poll
  PROVE  IInv' /\ Contract
<1>1. /\ UNCHANGED <<routineVars, epollVars, serverVars, looping, timers, handling, expired, crashed,
                     sockVars>>
      /\ ~handling /\ Running = Main
  BY DEF Poll
<1>2. PICK T \in {{}, {interest[TimerFd].ptr}} : active' = {interest[fd].ptr : fd \in Ready} \cup T
  BY DEF Poll
<1>3. ASSUME NEW fd \in Ready
      PROVE  interest[fd].ptr \in Coroutine /\ Waits(interest[fd].ptr)
  <2>1. fd \in Fds /\ fd # TimerFd /\ interest[fd].events # {}
    BY TcpServerAssumption DEF Ready, Fds
  <2>2. interest[fd] # EP!NoEntry
    BY <2>1 DEF EP!NoEntry
  <2>3. /\ interest[fd].ptr \in Channels /\ fdOf[interest[fd].ptr] = fd
        /\ index[interest[fd].ptr] = "added"
    BY <2>1, <2>2, Watches, Names DEF Channels
  <2>4. interest[fd].ptr \in Coroutine
    BY <2>1, <2>3 DEF IInv, FdsRight, Channels
  <2> QED  BY <1>1, <2>3, <2>4, WatchedWait, MainRuns DEF IInv, Waits, OnStack
<1>4. interest[TimerFd].ptr = TimerChan
  <2>1. TimerFd \in Fds /\ TimerChan \in Channels
    BY DEF Fds, Channels
  <2>2. fdOf[TimerChan] = TimerFd /\ index[TimerChan] = "added"
    BY DEF IInv, FdsRight
  <2>3. interest[TimerFd] = [ptr |-> TimerChan, events |-> events[TimerChan]]
    BY <2>1, <2>2, Watches
  <2> QED  BY <2>3
<1>5. active' \subseteq Coroutine \cup {TimerChan}
  BY <1>2, <1>3, <1>4
<1>6. EventsRight'
  <2>1. \A c \in active' \ {TimerChan} : Waits(c)
    BY <1>2, <1>3, <1>4
  <2>2. \A c \in active' \ {TimerChan} : Waits(c)'
    BY <1>1, <1>5, <2>1, ServerSame
  <2> QED  BY <1>1, <2>2 DEF EventsRight
<1>7. Typed'
  BY <1>1, <1>5 DEF IInv, Typed, serverVars, sockVars, peerVars
<1>8. ConnRight'
  BY <1>1, ConnFrame DEF epollVars, sockVars
<1>9. TimersRight'
  BY <1>1, ServerSame, Listed, TimersFrame DEF IInv, TimersRight
<1>10. ClosingRight'
  BY <1>1, ServerSame, Names, ClosingFrame DEF sockVars, peerVars
<1> QED  BY <1>1, <1>6, <1>7, <1>8, <1>9, <1>10, ServerSame, ContractSame DEF IInv

LEMMA DispatchIInv ==
  ASSUME IInv, NEW c \in Coroutine, Dispatch(c)
  PROVE  IInv' /\ Contract
<1>1. /\ UNCHANGED <<epollVars, serverVars, looping, timers, handling, expired, sockVars>>
      /\ active' = active \ {c} /\ c \in active /\ c # TimerChan
      /\ ~handling /\ Running = Main
  BY DEF Dispatch, Handled
<1>2. ConnRight'
  BY <1>1, ConnFrame DEF epollVars, sockVars
<1>3. ASSUME crashed' \in BOOLEAN PROVE Typed'
  BY <1>1, <1>3 DEF IInv, Typed, serverVars, sockVars, peerVars
<1>4. ASSUME NEW q \in Coroutine, Waits(q), R!Resume(q), UNCHANGED crashed, TimerLast => q = c
      PROVE  IInv' /\ Contract
  <2>1. q \in created
    BY <1>4, Names DEF IInv, StartRight, AcceptorRight, WorkerRight, Waits
  <2>2. /\ R!TypeOK' /\ EP!IInv' /\ StackShape' /\ StartRight'
        /\ AcceptorRight' /\ (\A r \in RW : WorkerRight(r)') /\ Distinct(pool)' /\ FdsRight'
        /\ pc' = pc /\ cur' = cur
        /\ \A r \in Coroutine : Waits(r)' <=> Waits(r) /\ r # q
        /\ Contract
    BY <1>1, <1>4, <2>1, MainResumes
  <2>3. TimersRight'
    <3>1. expired = <<>>
      BY <1>1 DEF IInv, TimersRight
    <3>2. ToSet(expired) = {}
      BY <3>1, EmptyList
    <3> QED  BY <1>1, <2>2, <3>2, TimersFrame
  <2>4. ClosingRight'
    BY <1>1, <2>2, ClosingFrame DEF sockVars, peerVars
  <2>5. EventsRight'
    <3>1. TimerLast => \A d \in active' \ {TimerChan} : Waits(d)'
      BY <1>1, <1>4, <2>2 DEF IInv, Typed, EventsRight
    <3> QED  BY <1>1, <3>1 DEF EventsRight
  <2>6. Typed'
    BY <1>3, <1>4 DEF IInv, Typed
  <2> QED  BY <1>2, <2>2, <2>3, <2>4, <2>5, <2>6 DEF IInv
<1>5. CASE Waits(c)
  BY <1>4, <1>5 DEF Dispatch
<1>6. CASE ~Waits(c)
  <2>1. ~TimerLast
    BY <1>1, <1>6 DEF IInv, EventsRight
  <2>2. CASE crashed' = TRUE /\ UNCHANGED routineVars
    <3>1. Typed'
      BY <1>3, <2>2
    <3>2. TimersRight'
      BY <1>1, <2>2, ServerSame, Listed, TimersFrame DEF IInv, TimersRight
    <3>3. ClosingRight'
      BY <1>1, <2>2, ServerSame, Names, ClosingFrame DEF sockVars, peerVars
    <3>4. EventsRight'
      BY <2>1 DEF EventsRight
    <3> QED  BY <1>1, <1>2, <2>2, <3>1, <3>2, <3>3, <3>4, ServerSame, ContractSame DEF IInv
  <2>3. CASE (\E q \in Coroutine : Waits(q) /\ R!Resume(q)) /\ UNCHANGED crashed
    BY <1>4, <2>1, <2>3
  <2> QED  BY <1>6, <2>2, <2>3 DEF Dispatch
<1> QED  BY <1>5, <1>6

LEMMA HandleReadIInv ==
  ASSUME IInv, HandleRead
  PROVE  IInv' /\ Contract
<1>1. /\ UNCHANGED <<routineVars, epollVars, serverVars, looping, crashed, sockVars>>
      /\ active' = active \ {TimerChan} /\ (TimerLast => active = {TimerChan})
      /\ handling' = TRUE /\ ~handling /\ Running = Main
  BY DEF HandleRead
<1>2. PICK n \in 0 .. Len(timers) : /\ expired' = SubSeq(timers, 1, n)
                                    /\ timers' = SubSeq(timers, n + 1, Len(timers))
  BY DEF HandleRead
<1>3. timers \in Seq(Coroutine)
  BY DEF IInv, Typed
<1>4. /\ expired' \in Seq(Coroutine) /\ timers' \in Seq(Coroutine)
      /\ expired' \o timers' = timers
  BY <1>2, <1>3, Divided
<1>5. \A r : r \in ToSet(timers) <=> r \in ToSet(expired') \/ r \in ToSet(timers')
  BY <1>4, Concatenated
<1>6. expired \o timers = timers
  BY <1>1, <1>3, ConcatEmptySeq DEF IInv, TimersRight
<1>7. Typed'
  BY <1>1, <1>4 DEF IInv, Typed, serverVars, sockVars, peerVars
<1>8. ConnRight'
  BY <1>1, ConnFrame DEF epollVars, sockVars
<1>9. TimersRight'
  <2>1. \A r \in Coroutine : pc'[r] = pc[r] /\ (Waits(r)' <=> Waits(r))
    BY <1>1, ServerSame
  <2>2. \A r \in ToSet(timers) : r \in Coroutine /\ Waits(r)
    BY <1>1, Listed, MainRuns DEF IInv, TimersRight, Waits, OnStack
  <2>3. \A r \in Coroutine : Waits(r) => r \in ToSet(timers)
    BY <1>6 DEF IInv, TimersRight
  <2>4. Distinct(expired' \o timers')
    BY <1>4, Listed
  <2>5. (\A r \in ToSet(expired') : Waits(r)') /\ (\A r \in ToSet(timers') : pc'[r] = "wait")
    BY <1>5, <2>1, <2>2 DEF Waits
  <2>6. \A r \in Coroutine : Waits(r)' => r \in ToSet(expired' \o timers')
    BY <1>4, <2>1, <2>3
  <2> QED  BY <1>1, <2>4, <2>5, <2>6 DEF TimersRight, Distinct
<1>10. ClosingRight'
  BY <1>1, ServerSame, Names, ClosingFrame DEF sockVars, peerVars
<1>11. EventsRight'
  BY <1>1 DEF EventsRight
<1> QED  BY <1>1, <1>7, <1>8, <1>9, <1>10, <1>11, ServerSame, ContractSame DEF IInv

LEMMA RunTimerIInv ==
  ASSUME IInv, RunTimer
  PROVE  IInv' /\ Contract
<1>1. /\ UNCHANGED <<epollVars, serverVars, looping, active, timers, crashed, sockVars>>
      /\ Running = Main /\ handling
  BY DEF RunTimer
<1>2. expired \in Seq(Coroutine) /\ timers \in Seq(Coroutine)
  BY DEF IInv, Typed
<1>3. ConnRight'
  BY <1>1, ConnFrame DEF epollVars, sockVars
<1>4. CASE expired = <<>>
  <2>1. handling' = FALSE /\ UNCHANGED <<expired, routineVars>>
    BY <1>4 DEF RunTimer
  <2>2. Typed'
    BY <1>1, <2>1 DEF IInv, Typed, serverVars, sockVars, peerVars
  <2>3. TimersRight'
    <3>1. ToSet(expired) = {}
      BY <1>4, EmptyList
    <3>2. \A r \in Coroutine : pc'[r] = pc[r] /\ (Waits(r)' <=> Waits(r))
      BY <1>1, <2>1, ServerSame
    <3> QED  BY <1>1, <1>4, <2>1, <3>1, <3>2, Listed DEF IInv, TimersRight, Distinct
  <2>4. ClosingRight'
    BY <1>1, <2>1, ServerSame, Names, ClosingFrame DEF sockVars, peerVars
  <2>5. EventsRight'
    <3>1. \A c \in active \ {TimerChan} : Waits(c)' <=> Waits(c)
      BY <1>1, <2>1, ServerSame DEF IInv, Typed
    <3> QED  BY <1>1, <2>1, <3>1 DEF IInv, EventsRight
  <2> QED  BY <1>1, <1>3, <2>1, <2>2, <2>3, <2>4, <2>5, ServerSame, ContractSame DEF IInv
<1>5. CASE expired # <<>>
  <2> DEFINE q == Head(expired)
  <2>1. R!Resume(q) /\ expired' = Tail(expired) /\ UNCHANGED handling
    BY <1>5 DEF RunTimer
  <2>2. /\ q \in Coroutine /\ q \in ToSet(expired)
        /\ expired' \in Seq(Coroutine) /\ Distinct(expired')
        /\ \A r : r \in ToSet(expired') <=> r \in ToSet(expired) /\ r # q
    BY <1>2, <1>5, <2>1, TailTaken, Listed
  <2>3. Waits(q)
    BY <2>2 DEF IInv, TimersRight
  <2>4. q \in created
    BY <2>2, <2>3, Names DEF IInv, StartRight, AcceptorRight, WorkerRight, Waits
  <2> HIDE DEF q
  <2>5. /\ R!TypeOK' /\ EP!IInv' /\ StackShape' /\ StartRight'
        /\ AcceptorRight' /\ (\A r \in RW : WorkerRight(r)') /\ Distinct(pool)' /\ FdsRight'
        /\ pc' = pc /\ cur' = cur
        /\ \A r \in Coroutine : Waits(r)' <=> Waits(r) /\ r # q
        /\ Contract
    BY <1>1, <2>1, <2>3, <2>4, MainResumes
  <2>6. Typed'
    BY <1>1, <2>1, <2>2 DEF IInv, Typed, serverVars, sockVars, peerVars
  <2>7. TimersRight'
    <3>1. /\ \A r : r \in ToSet(expired' \o timers') <=> r \in ToSet(expired') \/ r \in ToSet(timers')
          /\ Distinct(expired' \o timers')
      BY <1>1, <1>2, <2>2, Concatenated, Listed
    <3>2. \A r \in ToSet(expired') : Waits(r)'
      BY <2>2, <2>5, Listed DEF IInv, TimersRight
    <3>3. \A r \in ToSet(timers') : pc'[r] = "wait"
      BY <1>1, <2>5 DEF IInv, TimersRight
    <3>4. \A r \in Coroutine : Waits(r)' => r \in ToSet(expired' \o timers')
      BY <1>1, <2>2, <2>5, <3>1, Listed DEF IInv, TimersRight
    <3> QED  BY <1>1, <2>1, <3>1, <3>2, <3>3, <3>4 DEF TimersRight, Distinct
  <2>8. ClosingRight'
    BY <1>1, <2>5, ClosingFrame DEF sockVars, peerVars
  <2>9. EventsRight'
    BY <1>1, <2>1 DEF IInv, EventsRight
  <2> QED  BY <1>3, <2>5, <2>6, <2>7, <2>8, <2>9 DEF IInv
<1> QED  BY <1>4, <1>5

-----------------------------------------------------------------------------
(* The routine that runs.                                                  *)

(* A step in which it neither yields nor resumes, outside addEpoll. *)
LEMMA RunnerFrame ==
  ASSUME IInv, NEW r \in Coroutine, Running = r, pc[r] # "wait", pc'[r] # "wait",
         UNCHANGED <<routineVars, pool, active, timers, handling, expired>>,
         \A q \in Coroutine : q # r =>
            /\ pc'[q] = pc[q] /\ cur'[q] = cur[q]
            /\ fdOf'[q] = fdOf[q] /\ index'[q] = index[q] /\ events'[q] = events[q]
            /\ q \in RW => tskfd'[q] = tskfd[q]
  PROVE  /\ R!TypeOK' /\ StackShape' /\ StartRight' /\ Distinct(pool)'
         /\ r # Acceptor => AcceptorRight'
         /\ \A q \in RW : q # r => WorkerRight(q)'
         /\ \A q \in Coroutine : (q # r => Held(q)' = Held(q)) /\ (Waits(q)' <=> Waits(q))
         /\ start' = start /\ OnStack(r) /\ OnStack(r)' /\ start[r] /\ (InPool(r)' <=> InPool(r))
         /\ TimersRight' /\ EventsRight'
<1>1. R!TypeOK' /\ StackShape' /\ StartRight' /\ \A q \in Coroutine : OnStack(q)' <=> OnStack(q)
  BY StackFrame
<1>2. Distinct(pool)' /\ start' = start /\ (InPool(r)' <=> InPool(r))
  BY DEF IInv, Distinct, InPool, routineVars
<1>3. \A q \in Coroutine : q # r => RoutineSame(q)
  BY <1>1, <1>2 DEF RoutineSame, InPool
<1>4. OnStack(r) /\ start[r]
  BY CoroutineRuns DEF IInv, StartRight
<1>5. r # Acceptor => AcceptorRight'
  BY <1>3, RoutineFrame, Names
<1>6. \A q \in RW : q # r => WorkerRight(q)'
  BY <1>3, RoutineFrame, Names
<1>7. \A q \in Coroutine : (q # r => Held(q)' = Held(q)) /\ (Waits(q)' <=> Waits(q))
  <2>1. ~Waits(r) /\ ~Waits(r)'
    BY DEF Waits
  <2> QED  BY <1>3, <2>1, RoutineFrame
<1>8. TimersRight'
  <2>1. \A q \in ToSet(timers) : q \in Coroutine /\ q # r
    BY Listed DEF IInv, TimersRight
  <2>2. \A q \in ToSet(timers) : pc'[q] = pc[q]
    BY <2>1
  <2>3. \A q \in ToSet(expired) : Waits(q)'
    BY <1>7, Listed DEF IInv, TimersRight
  <2> QED  BY <1>7, <2>2, <2>3, TimersFrame
<1>9. EventsRight'
  BY <1>7, EventsFrame DEF IInv, Typed
<1> QED  BY <1>1, <1>2, <1>4, <1>5, <1>6, <1>7, <1>8, <1>9

(* No other routine has a channel for the descriptor that a routine holds. *)
LEMMA OwnDescriptor ==
  ASSUME IInv, NEW r \in Coroutine, NEW fd \in Held(r)
  PROVE  /\ fd \in ConnFd /\ fd \in open
         /\ \A d \in Channels : fdOf[d] = fd => index[d] = "new" \/ (d = r /\ pc[r] = "wait")
<1>1. fd \in ConnFd /\ fd \in open
  BY Names DEF IInv, Typed, FdsRight, Held
<1>2. ASSUME NEW d \in Channels, fdOf[d] = fd, index[d] # "new"
      PROVE  d = r /\ pc[r] = "wait"
  <2>1. d \in Coroutine
    BY <1>1, <1>2, TcpServerAssumption DEF IInv, FdsRight, Channels
  <2>2. pc[d] = "wait"
    BY <1>2, <2>1, Names DEF IInv, AcceptorRight, WorkerRight, ChannelRight
  <2>3. d \in RW /\ fdOf[d] = cur[d]
    BY <1>1, <1>2, <2>1, <2>2, Names, TcpServerAssumption DEF IInv, AcceptorRight, WorkerRight
  <2>4. fd \in Held(d)
    BY <1>1, <1>2, <2>3, TcpServerAssumption DEF Held
  <2> QED  BY <2>1, <2>2, <2>4 DEF IInv, FdsRight
<1> QED  BY <1>1, <1>2

LEMMA MakeChannelIInv ==
  ASSUME IInv, NEW r \in Coroutine, MakeChannel(r)
  PROVE  IInv' /\ Contract
<1> DEFINE fd == IF r = Acceptor THEN ListenFd ELSE cur[r]
<1>1. /\ Running = r /\ pc[r] = "make"
      /\ E!Construct(r, fd)
      /\ pc' = [pc EXCEPT ![r] = "add"]
      /\ UNCHANGED <<routineVars, tskfd, cur, pool, loopVars, sockVars>>
  BY DEF MakeChannel, GoTo
<1>2. /\ pc \in [Coroutine -> Label]
      /\ pc'[r] = "add" /\ \A q \in Coroutine : q # r => pc'[q] = pc[q]
  BY <1>1 DEF IInv, Typed
<1>3. fd \in open /\ fdOf[r] = NoFd
  <2>1. CASE r = Acceptor
    BY <1>1, <2>1 DEF IInv, AcceptorRight, FdsRight
  <2>2. CASE r \in RW
    <3>1. cur[r] # NoFd /\ fdOf[r] = NoFd
      BY <1>1, <2>2 DEF IInv, WorkerRight
    <3>2. cur[r] \in Held(r)
      BY <3>1 DEF Held
    <3> QED  BY <2>2, <3>1, <3>2, OwnDescriptor, Names
  <2> QED  BY <2>1, <2>2, Names
<1>4. /\ EP!IInv' /\ E!Next /\ open' = open
      /\ fdOf' = [fdOf EXCEPT ![r] = fd]
      /\ index' = [index EXCEPT ![r] = "new"]
      /\ events' = [events EXCEPT ![r] = {}]
  BY <1>1, <1>3, PollerConstruct DEF IInv
<1> HIDE DEF fd
<1>5. /\ \A q \in Channels : q # r => fdOf'[q] = fdOf[q] /\ index'[q] = index[q] /\ events'[q] = events[q]
      /\ fdOf'[r] = fd /\ index'[r] = "new"
  BY <1>4, PollerTyped DEF IInv, Channels
<1>6. /\ R!TypeOK' /\ StackShape' /\ StartRight' /\ Distinct(pool)'
      /\ r # Acceptor => AcceptorRight'
      /\ \A q \in RW : q # r => WorkerRight(q)'
      /\ start' = start /\ OnStack(r)' /\ start[r]
      /\ TimersRight' /\ EventsRight'
  BY <1>1, <1>2, <1>5, RunnerFrame DEF loopVars, Channels
<1>7. AcceptorRight'
  BY <1>1, <1>2, <1>5, <1>6 DEF IInv, AcceptorRight, ChannelRight, fd
<1>8. \A q \in RW : WorkerRight(q)'
  <2>1. r \in RW => WorkerRight(r)'
    BY <1>1, <1>2, <1>5, <1>6, Names DEF IInv, WorkerRight, ChannelRight, InPool, fd
  <2> QED  BY <1>6, <2>1
<1>9. Typed'
  BY <1>1, <1>2 DEF IInv, Typed, Label, loopVars, sockVars, peerVars
<1>10. FdsRight'
  <2>1. \A q \in Coroutine : Held(q)' = Held(q)
    BY <1>1 DEF Held
  <2> QED  BY <1>4, <1>5, <2>1, FdsFrame, Names DEF Channels
<1>11. ConnRight'
  BY <1>1, <1>4, ConnFrame DEF sockVars
<1>12. ClosingRight'
  BY <1>1, <1>2, Names, ClosingFrame DEF sockVars, peerVars
<1>13. Contract
  BY <1>1, <1>4 DEF Contract, routineVars, R!vars
<1> QED  BY <1>4, <1>6, <1>7, <1>8, <1>9, <1>10, <1>11, <1>12, <1>13 DEF IInv

LEMMA AddEpollIInv ==
  ASSUME IInv, NEW r \in Coroutine, AddEpoll(r)
  PROVE  IInv' /\ Contract
<1>1. /\ Running = r /\ pc[r] = "add"
      /\ E!UpdateChannel(r, Watched)
      /\ timers' = Append(timers, r)
      /\ R!Yield
      /\ pc' = [pc EXCEPT ![r] = "wait"]
      /\ UNCHANGED <<tskfd, cur, pool, looping, active, handling, expired, crashed, sockVars>>
  BY DEF AddEpoll, GoTo
<1>2. /\ pc \in [Coroutine -> Label]
      /\ pc'[r] = "wait" /\ \A q \in Coroutine : q # r => pc'[q] = pc[q]
  BY <1>1 DEF IInv, Typed
<1>3. fdOf[r] \in open /\ index[r] = "new" /\ \A d \in Channels : fdOf[d] = fdOf[r] => index[d] = "new"
  <2>1. CASE r = Acceptor
    <3>1. fdOf[r] = ListenFd /\ index[r] = "new" /\ ListenFd \in open
      BY <1>1, <2>1 DEF IInv, AcceptorRight, ChannelRight, FdsRight
    <3>2. ASSUME NEW d \in Channels, fdOf[d] = ListenFd, index[d] # "new" PROVE FALSE
      <4>1. d \in RW
        BY <2>1, <3>1, <3>2, TcpServerAssumption, Names DEF IInv, FdsRight, Channels
      <4>2. fdOf[d] = cur[d] /\ cur[d] \in ConnFd
        BY <3>2, <4>1, Names DEF IInv, WorkerRight, ChannelRight, Typed
      <4> QED  BY <3>2, <4>2, TcpServerAssumption
    <3> QED  BY <3>1, <3>2
  <2>2. CASE r \in RW
    <3>1. fdOf[r] = cur[r] /\ index[r] = "new" /\ cur[r] # NoFd
      BY <1>1, <2>2 DEF IInv, WorkerRight, ChannelRight
    <3>2. cur[r] \in Held(r)
      BY <3>1 DEF Held
    <3> QED  BY <1>1, <3>1, <3>2, OwnDescriptor
  <2> QED  BY <2>1, <2>2, Names
<1>4. /\ EP!IInv' /\ E!Next
      /\ index' = [index EXCEPT ![r] = "added"]
      /\ events' = [events EXCEPT ![r] = {"in", "out"}]
      /\ UNCHANGED <<open, fdOf>>
  BY <1>1, <1>3, PollerUpdate DEF IInv
<1>5. /\ \A q \in Channels : q # r => index'[q] = index[q] /\ events'[q] = events[q]
      /\ index'[r] = "added" /\ events'[r] = {"in", "out"}
  BY <1>4, PollerTyped DEF IInv, Channels
<1>6. /\ StackShape' /\ R!TypeOK'
      /\ \A q \in Coroutine : OnStack(q)' <=> OnStack(q) /\ q # r
      /\ UNCHANGED <<start, created, end>>
      /\ OnStack(r)
  BY <1>1, Yielded, CoroutineRuns DEF IInv
<1>7. StartRight' /\ start[r]
  BY <1>6 DEF IInv, StartRight
<1>8. \A q \in Coroutine : q # r => RoutineSame(q)
  BY <1>1, <1>2, <1>4, <1>5, <1>6 DEF RoutineSame, InPool, Channels
<1>9. AcceptorRight'
  <2>1. CASE r = Acceptor
    BY <1>1, <1>2, <1>4, <1>5, <1>6, <1>7, <2>1 DEF IInv, AcceptorRight, ChannelRight
  <2> QED  BY <1>8, <2>1, RoutineFrame, Names
<1>10. ASSUME NEW q \in RW PROVE WorkerRight(q)'
  <2>1. CASE q = r
    BY <1>1, <1>2, <1>4, <1>5, <1>6, <1>7, <2>1 DEF IInv, WorkerRight, ChannelRight, InPool
  <2> QED  BY <1>8, <2>1, RoutineFrame, Names
<1>11. timers' \in Seq(Coroutine) /\ Typed'
  <2>1. timers' \in Seq(Coroutine)
    BY <1>1, Appended DEF IInv, Typed
  <2> QED  BY <1>1, <1>2, <2>1 DEF IInv, Typed, Label, sockVars, peerVars
<1>12. /\ Waits(r)' /\ ~Waits(r)
       /\ \A q \in Coroutine : q # r => (Waits(q)' <=> Waits(q))
  BY <1>2, <1>6, <1>8, RoutineFrame DEF Waits, OnStack
<1>13. TimersRight'
  <2>1. r \notin ToSet(timers) /\ r \notin ToSet(expired)
    BY <1>1, <1>12 DEF IInv, TimersRight
  <2>2. /\ timers \in Seq(Coroutine) /\ expired \in Seq(Coroutine)
    BY DEF IInv, Typed
  <2>3. /\ \A q : q \in ToSet(timers') <=> q \in ToSet(timers) \/ q = r
        /\ Distinct(timers')
    BY <1>1, <2>1, <2>2, Appended, Listed
  <2>4. /\ \A q : q \in ToSet(expired' \o timers') <=> q \in ToSet(expired') \/ q \in ToSet(timers')
        /\ Distinct(expired' \o timers')
    <3>1. expired' = expired /\ Distinct(expired) /\ \A q \in ToSet(expired) : q \notin ToSet(timers')
      BY <1>1, <2>1, <2>3, Listed
    <3> QED  BY <1>11, <2>2, <2>3, <3>1, Concatenated
  <2>5. \A q \in ToSet(expired') : Waits(q)'
    BY <1>1, <1>12, <2>1, Listed DEF IInv, TimersRight
  <2>6. \A q \in ToSet(timers') : pc'[q] = "wait"
    BY <1>2, <2>3, Listed DEF IInv, TimersRight
  <2>7. \A q \in Coroutine : Waits(q)' => q \in ToSet(expired' \o timers')
    BY <1>1, <1>12, <2>3, <2>4, Listed DEF IInv, TimersRight
  <2> QED  BY <1>1, <2>4, <2>5, <2>6, <2>7 DEF IInv, TimersRight, Distinct
<1>14. FdsRight'
  <2>1. \A q \in Coroutine : Held(q)' = Held(q)
    BY <1>1 DEF Held
  <2> QED  BY <1>4, <1>5, <2>1, FdsFrame, Names DEF Channels
<1>15. ConnRight' /\ Distinct(pool)'
  BY <1>1, <1>4, ConnFrame DEF sockVars, IInv, Distinct
<1>16. ClosingRight'
  BY <1>1, <1>2, Names, ClosingFrame DEF sockVars, peerVars
<1>17. EventsRight'
  BY <1>1, <1>12, EventsFrame DEF IInv, Typed
<1>18. Contract
  BY <1>1, <1>4 DEF Contract, R!Next
<1> QED  BY <1>4, <1>6, <1>7, <1>9, <1>10, <1>11, <1>13, <1>14, <1>15, <1>16, <1>17, <1>18 DEF IInv

LEMMA LeaveEpollIInv ==
  ASSUME IInv, NEW r \in Coroutine, LeaveEpoll(r)
  PROVE  IInv' /\ Contract
<1> DEFINE next == IF r = Acceptor THEN "left" ELSE "read"
<1>1. /\ Running = r /\ pc[r] = "wait"
      /\ E!RemoveChannel(r)
      /\ timers' = RemoveFirst(timers, r)
      /\ pc' = [pc EXCEPT ![r] = next]
      /\ UNCHANGED <<routineVars, tskfd, cur, pool, looping, active, handling, expired, crashed,
                     sockVars>>
  BY DEF LeaveEpoll, GoTo, Withdraw, Cancelled
<1>2. /\ pc \in [Coroutine -> Label]
      /\ pc'[r] = next /\ \A q \in Coroutine : q # r => pc'[q] = pc[q]
  BY <1>1 DEF IInv, Typed
<1>3. fdOf[r] # NoFd /\ index[r] = "added"
  <2>1. CASE r = Acceptor
    BY <1>1, <2>1, TcpServerAssumption DEF IInv, AcceptorRight, ChannelRight
  <2>2. CASE r \in RW
    BY <1>1, <2>2 DEF IInv, WorkerRight, ChannelRight
  <2> QED  BY <2>1, <2>2, Names
<1>4. /\ EP!IInv' /\ E!Next
      /\ index' = [index EXCEPT ![r] = "new"]
      /\ UNCHANGED <<open, fdOf, events>>
  BY <1>1, <1>3, PollerRemove DEF IInv
<1>5. (\A q \in Channels : q # r => index'[q] = index[q]) /\ index'[r] = "new"
  BY <1>4, PollerTyped DEF IInv, Channels
<1>6. /\ StackShape' /\ R!TypeOK' /\ StartRight'
      /\ \A q \in Coroutine : OnStack(q)' <=> OnStack(q)
      /\ start' = start /\ OnStack(r) /\ start[r]
  BY <1>1, StackFrame, CoroutineRuns DEF IInv, StartRight, routineVars
<1>7. \A q \in Coroutine : q # r => RoutineSame(q)
  BY <1>1, <1>2, <1>4, <1>5, <1>6 DEF RoutineSame, InPool, Channels
<1>8. AcceptorRight'
  <2>1. CASE r = Acceptor
    BY <1>1, <1>2, <1>4, <1>5, <1>6, <2>1 DEF IInv, AcceptorRight, ChannelRight
  <2> QED  BY <1>7, <2>1, RoutineFrame, Names
<1>9. ASSUME NEW q \in RW PROVE WorkerRight(q)'
  <2>1. CASE q = r
    BY <1>1, <1>2, <1>4, <1>5, <1>6, <2>1, Names DEF IInv, WorkerRight, ChannelRight, InPool
  <2> QED  BY <1>7, <2>1, RoutineFrame, Names
<1>10. /\ timers' \in Seq(Coroutine) /\ Distinct(timers')
       /\ \A q : q \in ToSet(timers') <=> q \in ToSet(timers) /\ q # r
  BY <1>1, Removed, Listed DEF IInv, Typed
<1>11. Typed'
  BY <1>1, <1>2, <1>10 DEF IInv, Typed, Label, sockVars, peerVars
<1>12. \A q \in Coroutine : (Waits(q)' <=> Waits(q)) /\ ~Waits(r)
  <2>1. ~Waits(r) /\ ~Waits(r)'
    BY <1>2, <1>6 DEF Waits, OnStack
  <2> QED  BY <1>7, <2>1, RoutineFrame
<1>13. TimersRight'
  <2>1. expired \in Seq(Coroutine)
    BY DEF IInv, Typed
  <2>2. /\ \A q : q \in ToSet(expired' \o timers') <=> q \in ToSet(expired') \/ q \in ToSet(timers')
        /\ Distinct(expired' \o timers')
    BY <1>1, <1>10, <2>1, Concatenated, Listed
  <2>3. \A q \in ToSet(expired') : Waits(q)'
    BY <1>1, <1>12, Listed DEF IInv, TimersRight
  <2>4. \A q \in ToSet(timers') : pc'[q] = "wait"
    BY <1>2, <1>10, Listed DEF IInv, TimersRight
  <2>5. \A q \in Coroutine : Waits(q)' => q \in ToSet(expired' \o timers')
    BY <1>1, <1>10, <1>12, <2>2, Listed DEF IInv, TimersRight
  <2> QED  BY <1>1, <2>2, <2>3, <2>4, <2>5 DEF IInv, TimersRight, Distinct
<1>14. FdsRight'
  <2>1. \A q \in Coroutine : Held(q)' = Held(q)
    BY <1>1 DEF Held
  <2> QED  BY <1>4, <1>5, <2>1, FdsFrame, Names DEF Channels
<1>15. ConnRight' /\ Distinct(pool)'
  BY <1>1, <1>4, ConnFrame DEF sockVars, IInv, Distinct
<1>16. ClosingRight'
  BY <1>1, <1>2, Names, ClosingFrame DEF sockVars, peerVars
<1>17. EventsRight'
  BY <1>1, <1>12, EventsFrame DEF IInv, Typed
<1>18. Contract
  BY <1>1, <1>4 DEF Contract, routineVars, R!vars
<1> QED  BY <1>4, <1>6, <1>8, <1>9, <1>11, <1>13, <1>14, <1>15, <1>16, <1>17, <1>18 DEF IInv

-----------------------------------------------------------------------------
(* The accept routine.                                                     *)

(* accept() takes the lowest descriptor that is free. *)
LEMMA LowestIsFree ==
  ASSUME FreeFds # {}
  PROVE  LowestFree \in ConnFd /\ LowestFree \notin open
<1>1. FreeFds \in SUBSET Nat
  BY TcpServerAssumption DEF FreeFds
<1>2. \E fd \in FreeFds : \A g \in FreeFds : fd <= g
  BY <1>1, LeastNumber
<1>3. LowestFree \in FreeFds
  BY <1>2 DEF LowestFree
<1> QED  BY <1>3 DEF FreeFds

(* A descriptor that nobody holds is open for the accept routine. *)
LEMMA AcceptIInv ==
  ASSUME IInv, Accept
  PROVE  IInv' /\ Contract
<1>1. /\ Running = Acceptor /\ pc[Acceptor] = "accept"
      /\ UNCHANGED <<routineVars, tskfd, pool, loopVars, gone, peerVars>>
  BY DEF Accept
<1>2. pc \in [Coroutine -> Label] /\ Acceptor \in Coroutine /\ Acceptor \notin RW
  BY Names DEF IInv, Typed
<1>3. cur[Acceptor] = NoFd /\ fdOf[Acceptor] = NoFd /\ index[Acceptor] = "new" /\ start[Acceptor]
  BY <1>1, <1>2, CoroutineRuns DEF IInv, AcceptorRight, ChannelRight, StartRight
<1>4. CASE GoTo(Acceptor, "make") /\ UNCHANGED <<epollVars, cur, backlog, sock>>
  <2>1. pc'[Acceptor] = "make" /\ \A q \in Coroutine : q # Acceptor => pc'[q] = pc[q]
    BY <1>2, <1>4 DEF GoTo
  <2>2. /\ R!TypeOK' /\ StackShape' /\ StartRight' /\ Distinct(pool)'
        /\ \A q \in RW : WorkerRight(q)'
        /\ OnStack(Acceptor)'
        /\ TimersRight' /\ EventsRight'
    BY <1>1, <1>2, <1>4, <2>1, RunnerFrame DEF loopVars, epollVars
  <2>3. AcceptorRight'
    BY <1>1, <1>3, <1>4, <2>1, <2>2 DEF AcceptorRight, ChannelRight, epollVars, routineVars
  <2>4. Typed'
    BY <1>1, <1>4 DEF IInv, Typed, GoTo, Label, loopVars, peerVars
  <2>5. FdsRight'
    <3>1. \A q \in Coroutine : Held(q)' = Held(q)
      BY <1>1, <1>4 DEF Held
    <3> QED  BY <1>4, <3>1, FdsFrame DEF epollVars
  <2>6. ConnRight'
    BY <1>1, <1>4, ConnFrame DEF epollVars
  <2>7. ClosingRight'
    BY <1>1, <1>2, <1>4, <2>1, Names, ClosingFrame DEF peerVars
  <2> QED  BY <1>1, <1>4, <2>2, <2>3, <2>4, <2>5, <2>6, <2>7, PollerSame, ContractSame DEF IInv
<1>5. CASE /\ ~(backlog = <<>> \/ FreeFds = {})
           /\ E!Open(LowestFree)
           /\ sock' = [sock EXCEPT ![LowestFree] = Head(backlog)]
           /\ backlog' = Tail(backlog)
           /\ cur' = [cur EXCEPT ![Acceptor] = LowestFree]
           /\ GoTo(Acceptor, "hand")
  <2> DEFINE fd == LowestFree
             c == Head(backlog)
  <2>1. fd \in ConnFd /\ fd \notin open /\ fd # NoFd
    BY <1>5, LowestIsFree, TcpServerAssumption
  <2>2. /\ backlog' \in Seq(Conn) /\ c \in Conn /\ c \in ToSet(backlog) /\ Distinct(backlog')
        /\ \A d : d \in ToSet(backlog') <=> d \in ToSet(backlog) /\ d # c
    BY <1>5, TailTaken DEF IInv, Typed, ConnRight
  <2>3. /\ sock' = [sock EXCEPT ![fd] = c]
        /\ cur' = [cur EXCEPT ![Acceptor] = fd]
    BY <1>5
  <2>4. EP!IInv' /\ E!Next /\ open' = open \cup {fd} /\ UNCHANGED <<fdOf, index, events>>
    BY <1>5, <2>1, PollerOpen DEF IInv
  <2> HIDE DEF fd, c
  <2>5. /\ pc'[Acceptor] = "hand" /\ \A q \in Coroutine : q # Acceptor => pc'[q] = pc[q]
        /\ cur'[Acceptor] = fd /\ \A q \in Coroutine : q # Acceptor => cur'[q] = cur[q]
    BY <1>2, <1>5, <2>3 DEF GoTo, IInv, Typed
  <2>6. /\ R!TypeOK' /\ StackShape' /\ StartRight' /\ Distinct(pool)'
        /\ \A q \in RW : WorkerRight(q)'
        /\ \A q \in Coroutine : q # Acceptor => Held(q)' = Held(q)
        /\ OnStack(Acceptor)'
        /\ TimersRight' /\ EventsRight'
    BY <1>1, <1>2, <2>4, <2>5, RunnerFrame DEF loopVars
  <2>7. AcceptorRight'
    BY <1>1, <1>3, <2>1, <2>4, <2>5, <2>6 DEF AcceptorRight, ChannelRight, routineVars
  <2>8. Typed'
    BY <1>1, <1>5, <2>1, <2>2, <2>3 DEF IInv, Typed, GoTo, Label, loopVars, peerVars
  <2>9. FdsRight'
    <3>1. Held(Acceptor)' = {fd} /\ Held(Acceptor) = {}
      BY <1>2, <1>3, <2>1, <2>5 DEF Held
    <3>2. \A q \in Coroutine : fd \notin Held(q)
      BY <2>1 DEF IInv, FdsRight
    <3>3. \A q, s \in Coroutine : q # s => Held(q)' \cap Held(s)' = {}
      BY <2>6, <3>1, <3>2 DEF IInv, FdsRight
    <3>4. \A g \in ConnFd : g \in open' <=> \E q \in Coroutine : g \in Held(q)'
      <4> SUFFICES ASSUME NEW g \in ConnFd
                   PROVE  g \in open' <=> \E q \in Coroutine : g \in Held(q)'
        OBVIOUS
      <4>1. CASE g = fd
        BY <1>2, <2>4, <3>1, <4>1
      <4>2. CASE g # fd
        <5>1. g \in open' <=> \E q \in Coroutine : g \in Held(q)
          BY <2>4, <4>2 DEF IInv, FdsRight
        <5>2. \A q \in Coroutine : g \in Held(q)' <=> g \in Held(q)
          BY <2>6, <3>1, <4>2
        <5> QED  BY <5>1, <5>2
      <4> QED  BY <4>1, <4>2
    <3> QED  BY <2>4, <3>3, <3>4 DEF IInv, FdsRight
  <2>10. ConnRight'
    <3>1. sock \in [ConnFd -> Conn \cup {NoConn}] /\ c # NoConn
      BY <2>2, TcpServerAssumption DEF IInv, Typed
    <3>2. sock'[fd] = c /\ \A g \in ConnFd : g # fd => sock'[g] = sock[g]
      BY <2>1, <2>3, <3>1
    <3>3. \A g \in ConnFd : sock[g] # c /\ sock[g] \notin gone \cup ToSet(backlog)
      BY <2>2 DEF IInv, ConnRight
    <3>4. \A g \in ConnFd : sock'[g] # NoConn <=> g \in open'
      BY <2>4, <3>1, <3>2 DEF IInv, ConnRight
    <3>5. \A g, h \in ConnFd : sock'[g] = sock'[h] /\ sock'[g] # NoConn => g = h
      BY <3>2, <3>3 DEF IInv, ConnRight
    <3>6. \A g \in ConnFd : sock'[g] \notin gone' \cup ToSet(backlog')
      BY <1>1, <2>2, <3>2, <3>3 DEF IInv, ConnRight
    <3>7. \A d \in ToSet(backlog') : d \notin gone'
      BY <1>1, <2>2 DEF IInv, ConnRight
    <3> QED  BY <2>2, <3>4, <3>5, <3>6, <3>7 DEF ConnRight, Distinct
  <2>11. ClosingRight'
    <3> SUFFICES ASSUME NEW q \in RW, pc'[q] = "close"
                 PROVE  \/ sock'[cur'[q]] \in reset'
                        \/ sock'[cur'[q]] \in eof' /\ unread'[sock'[cur'[q]]] = 0
      BY DEF ClosingRight
    <3>1. q # Acceptor /\ pc[q] = "close" /\ cur'[q] = cur[q] /\ q \in Coroutine
      BY <2>5, Names
    <3>2. cur[q] \in Held(q)
      BY <3>1 DEF Held, IInv, WorkerRight
    <3>3. cur[q] \in ConnFd /\ cur[q] # fd
      BY <2>1, <3>1, <3>2, OwnDescriptor
    <3>4. sock'[cur[q]] = sock[cur[q]]
      BY <2>3, <3>3 DEF IInv, Typed
    <3> QED  BY <1>1, <3>1, <3>4 DEF IInv, ClosingRight, peerVars
  <2>12. Contract
    BY <1>1, <2>4 DEF Contract, routineVars, R!vars
  <2> QED  BY <2>4, <2>6, <2>7, <2>8, <2>9, <2>10, <2>11, <2>12 DEF IInv
<1> QED  BY <1>4, <1>5 DEF Accept

(* A descriptor is closed by the routine that holds it. *)
LEMMA CloseFdRight ==
  ASSUME IInv, NEW r \in Coroutine, Running = r, pc[r] \in {"hand", "close"}, CloseFd(cur[r]),
         cur' = [cur EXCEPT ![r] = NoFd],
         NEW label \in {"accept", "break"}, GoTo(r, label),
         UNCHANGED <<routineVars, tskfd, pool, loopVars>>
  PROVE  /\ R!TypeOK' /\ EP!IInv' /\ Typed' /\ StackShape' /\ StartRight' /\ Distinct(pool)'
         /\ TimersRight' /\ FdsRight' /\ ConnRight' /\ ClosingRight' /\ EventsRight'
         /\ r # Acceptor => AcceptorRight'
         /\ \A q \in RW : q # r => WorkerRight(q)'
         /\ pc'[r] = label /\ cur'[r] = NoFd
         /\ OnStack(r)' /\ start[r] /\ start' = start /\ (InPool(r)' <=> InPool(r))
         /\ UNCHANGED <<fdOf, index, events>>
         /\ Contract
<1> DEFINE fd == cur[r]
           c == sock[fd]
<1>1. /\ pc \in [Coroutine -> Label] /\ cur \in [Coroutine -> ConnFd \cup {NoFd}]
      /\ sock \in [ConnFd -> Conn \cup {NoConn}]
  BY DEF IInv, Typed
<1>3. fd # NoFd /\ fd \in Held(r) /\ fd \in ConnFd /\ fd \in open
  <2>1. fd # NoFd
    BY Names DEF IInv, AcceptorRight, WorkerRight
  <2>2. fd \in Held(r)
    BY <2>1 DEF Held
  <2> QED  BY <2>1, <2>2, OwnDescriptor
<1>4. Held(r) = {fd}
  <2>1. r \in RW => tskfd[r] = NoFd
    BY DEF IInv, WorkerRight
  <2> QED  BY <1>3, <2>1 DEF Held
<1>5. /\ E!Close(fd)
      /\ gone' = gone \cup {c} /\ sock' = [sock EXCEPT ![fd] = NoConn]
      /\ unread' = [unread EXCEPT ![c] = 0]
      /\ eof' = eof \ {c} /\ reset' = reset \ {c} /\ full' = full \ {c}
      /\ UNCHANGED backlog
  BY DEF CloseFd
<1>6. EP!IInv' /\ E!Next /\ open' = open \ {fd} /\ UNCHANGED <<fdOf, index, events>>
  <2>1. \A d \in Channels : fdOf[d] = fd => index[d] = "new"
    BY <1>3, OwnDescriptor
  <2> QED  BY <1>3, <1>5, <2>1, PollerClose DEF IInv
<1>7. c \in Conn /\ c # NoConn
  BY <1>1, <1>3, TcpServerAssumption DEF IInv, ConnRight
<1> HIDE DEF fd, c
<1>8. /\ pc'[r] = label /\ \A q \in Coroutine : q # r => pc'[q] = pc[q]
      /\ cur'[r] = NoFd /\ \A q \in Coroutine : q # r => cur'[q] = cur[q]
  BY <1>1 DEF GoTo
<1>9. /\ R!TypeOK' /\ StackShape' /\ StartRight' /\ Distinct(pool)'
      /\ r # Acceptor => AcceptorRight'
      /\ \A q \in RW : q # r => WorkerRight(q)'
      /\ \A q \in Coroutine : q # r => Held(q)' = Held(q)
      /\ start' = start /\ OnStack(r)' /\ start[r] /\ (InPool(r)' <=> InPool(r))
      /\ TimersRight' /\ EventsRight'
  BY <1>6, <1>8, RunnerFrame DEF loopVars
<1>10. Typed'
  <2>1. pc' \in [Coroutine -> Label] /\ cur' \in [Coroutine -> ConnFd \cup {NoFd}]
    BY <1>1 DEF GoTo, Label
  <2>2. sock' \in [ConnFd -> Conn \cup {NoConn}] /\ gone' \subseteq Conn
    BY <1>1, <1>5, <1>7 DEF IInv, Typed
  <2>3. unread' \in [Conn -> 0 .. MaxData]
    BY <1>5, <1>7, TcpServerAssumption DEF IInv, Typed
  <2>4. eof' \subseteq Conn /\ reset' \subseteq Conn /\ full' \subseteq Conn
    BY <1>5 DEF IInv, Typed
  <2> QED  BY <1>5, <2>1, <2>2, <2>3, <2>4 DEF IInv, Typed, loopVars
<1>11. FdsRight'
  <2>1. Held(r)' = {}
    <3>1. r \in RW => tskfd'[r] = NoFd
      BY DEF IInv, WorkerRight
    <3> QED  BY <1>8, <3>1 DEF Held
  <2>2. \A q, s \in Coroutine : q # s => Held(q)' \cap Held(s)' = {}
    BY <1>9, <2>1 DEF IInv, FdsRight
  <2>3. \A g \in ConnFd : g \in open' <=> \E q \in Coroutine : g \in Held(q)'
    <3> SUFFICES ASSUME NEW g \in ConnFd
                 PROVE  g \in open' <=> \E q \in Coroutine : g \in Held(q)'
      OBVIOUS
    <3>1. g \in open <=> \E q \in Coroutine : g \in Held(q)
      BY DEF IInv, FdsRight
    <3>2. CASE g = fd
      <4>1. \A q \in Coroutine : q # r => fd \notin Held(q)
        BY <1>4 DEF IInv, FdsRight
      <4> QED  BY <1>6, <1>9, <2>1, <3>2, <4>1
    <3>3. CASE g # fd
      <4>1. \A q \in Coroutine : g \in Held(q)' <=> g \in Held(q)
        BY <1>4, <1>9, <2>1, <3>3
      <4> QED  BY <1>6, <3>1, <3>3, <4>1
    <3> QED  BY <3>2, <3>3
  <2> QED  BY <1>3, <1>6, <2>2, <2>3, TcpServerAssumption DEF IInv, FdsRight
<1>12. ConnRight'
  <2>1. sock'[fd] = NoConn /\ \A g \in ConnFd : g # fd => sock'[g] = sock[g]
    BY <1>1, <1>3, <1>5
  <2>2. sock[fd] = c /\ \A g \in ConnFd : g # fd => sock[g] # c
    BY <1>3, <1>7 DEF IInv, ConnRight, c
  <2>3. c \notin ToSet(backlog)
    BY <1>3, <2>2 DEF IInv, ConnRight
  <2>4. NoConn \notin gone' \cup ToSet(backlog)
    <3>1. ToSet(backlog) \subseteq Conn
      BY InToSet, ElementOfSeq DEF IInv, Typed
    <3> QED  BY <1>5, <1>7, <3>1, TcpServerAssumption DEF IInv, Typed
  <2>5. \A g \in ConnFd : sock'[g] # NoConn <=> g \in open'
    BY <1>6, <2>1 DEF IInv, ConnRight
  <2>6. \A g, h \in ConnFd : sock'[g] = sock'[h] /\ sock'[g] # NoConn => g = h
    BY <2>1 DEF IInv, ConnRight
  <2>7. \A g \in ConnFd : sock'[g] \notin gone' \cup ToSet(backlog')
    BY <1>5, <2>1, <2>2, <2>4 DEF IInv, ConnRight
  <2>8. \A d \in ToSet(backlog') : d \notin gone'
    BY <1>5, <2>3 DEF IInv, ConnRight
  <2> QED  BY <1>5, <2>5, <2>6, <2>7, <2>8 DEF IInv, ConnRight, Distinct
<1>13. ClosingRight'
  <2>1. \A q \in RW : pc'[q] # "close"
    BY <1>8, CoroutineRuns, Names DEF IInv, WorkerRight
  <2> QED  BY <2>1 DEF ClosingRight
<1>14. Contract
  BY <1>6 DEF Contract, routineVars, R!vars
<1> QED  BY <1>6, <1>8, <1>9, <1>10, <1>11, <1>12, <1>13, <1>14

LEMMA DropIInv ==
  ASSUME IInv, Drop
  PROVE  IInv' /\ Contract
<1>1. /\ Running = Acceptor /\ pc[Acceptor] = "hand" /\ Acceptor \in Coroutine
      /\ CloseFd(cur[Acceptor])
      /\ cur' = [cur EXCEPT ![Acceptor] = NoFd]
      /\ GoTo(Acceptor, "accept")
      /\ UNCHANGED <<routineVars, tskfd, pool, loopVars>>
  BY Names DEF Drop
<1>2. /\ R!TypeOK' /\ EP!IInv' /\ Typed' /\ StackShape' /\ StartRight' /\ Distinct(pool)'
      /\ TimersRight' /\ FdsRight' /\ ConnRight' /\ ClosingRight' /\ EventsRight'
      /\ \A q \in RW : q # Acceptor => WorkerRight(q)'
      /\ pc'[Acceptor] = "accept" /\ cur'[Acceptor] = NoFd
      /\ OnStack(Acceptor)' /\ start[Acceptor] /\ start' = start
      /\ UNCHANGED <<fdOf, index, events>>
      /\ Contract
  BY <1>1, CloseFdRight
<1>3. AcceptorRight'
  BY <1>1, <1>2 DEF IInv, AcceptorRight, ChannelRight
<1> QED  BY <1>2, <1>3, Names DEF IInv

LEMMA AcceptAgainIInv ==
  ASSUME IInv, AcceptAgain
  PROVE  IInv' /\ Contract
<1>1. /\ Running = Acceptor /\ pc[Acceptor] = "left"
      /\ E!Destroy(Acceptor)
      /\ pc' = [pc EXCEPT ![Acceptor] = "accept"]
      /\ UNCHANGED <<routineVars, tskfd, cur, pool, loopVars, sockVars>>
  BY DEF AcceptAgain, GoTo
<1>2. pc \in [Coroutine -> Label] /\ Acceptor \in Coroutine /\ Acceptor \notin RW
  BY Names DEF IInv, Typed
<1>3. pc'[Acceptor] = "accept" /\ \A q \in Coroutine : q # Acceptor => pc'[q] = pc[q]
  BY <1>1, <1>2
<1>4. cur[Acceptor] = NoFd /\ fdOf[Acceptor] # NoFd /\ index[Acceptor] = "new"
  BY <1>1, TcpServerAssumption DEF IInv, AcceptorRight, ChannelRight
<1>5. /\ EP!IInv' /\ E!Next
      /\ fdOf' = [fdOf EXCEPT ![Acceptor] = NoFd]
      /\ UNCHANGED <<open, index, events>>
  BY <1>1, <1>2, <1>4, PollerDestroy DEF IInv
<1>6. fdOf'[Acceptor] = NoFd /\ \A q \in Channels : q # Acceptor => fdOf'[q] = fdOf[q]
  BY <1>2, <1>5, PollerTyped DEF IInv, Channels
<1>7. /\ R!TypeOK' /\ StackShape' /\ StartRight' /\ Distinct(pool)'
      /\ \A q \in RW : WorkerRight(q)'
      /\ start' = start /\ OnStack(Acceptor)' /\ start[Acceptor]
      /\ TimersRight' /\ EventsRight'
  BY <1>1, <1>2, <1>3, <1>5, <1>6, RunnerFrame DEF loopVars, Channels
<1>8. AcceptorRight'
  BY <1>1, <1>3, <1>4, <1>5, <1>6, <1>7 DEF AcceptorRight, ChannelRight
<1>9. Typed'
  BY <1>1, <1>2 DEF IInv, Typed, Label, loopVars, sockVars, peerVars
<1>10. FdsRight'
  <2>1. \A q \in Coroutine : Held(q)' = Held(q)
    BY <1>1 DEF Held
  <2> QED  BY <1>2, <1>5, <1>6, <2>1, FdsFrame, Names DEF Channels
<1>11. ConnRight'
  BY <1>1, <1>5, ConnFrame DEF sockVars
<1>12. ClosingRight'
  BY <1>1, <1>2, <1>3, Names, ClosingFrame DEF sockVars, peerVars
<1>13. Contract
  BY <1>1, <1>5 DEF Contract, routineVars, R!vars
<1> QED  BY <1>5, <1>7, <1>8, <1>9, <1>10, <1>11, <1>12, <1>13 DEF IInv

(* The top of g_readwrite gets the descriptor, and is resumed. *)
LEMMA HandOverIInv ==
  ASSUME IInv, HandOver
  PROVE  IInv' /\ Contract
<1> DEFINE w == Last(pool)
           fd == cur[Acceptor]
<1>1. /\ Running = Acceptor /\ pc[Acceptor] = "hand" /\ pool # <<>>
      /\ tskfd' = [tskfd EXCEPT ![w] = fd]
      /\ pool' = Front(pool)
      /\ R!Resume(w)
      /\ cur' = [cur EXCEPT ![Acceptor] = NoFd]
      /\ pc' = [pc EXCEPT ![Acceptor] = "accept"]
      /\ UNCHANGED <<epollVars, loopVars, sockVars>>
  BY DEF HandOver, Popped, GoTo
<1>2. /\ pool' \in Seq(RW) /\ w \in RW /\ w \in ToSet(pool) /\ Distinct(pool')
      /\ \A q : q \in ToSet(pool') <=> q \in ToSet(pool) /\ q # w
  BY <1>1, FrontTaken DEF IInv, Typed
<1> HIDE DEF w
<1>3. /\ pc[w] = "top" /\ tskfd[w] = NoFd /\ start[w] /\ ~OnStack(w) /\ cur[w] = NoFd
      /\ w \in Coroutine /\ w # Acceptor /\ Acceptor \in Coroutine
  BY <1>2, Names DEF IInv, WorkerRight, InPool
<1>4. /\ R!TypeOK' /\ StackShape'
      /\ \A q \in Coroutine : OnStack(q)' <=> OnStack(q) \/ q = w
      /\ start' = [start EXCEPT ![w] = TRUE] /\ UNCHANGED <<created, end>>
  BY <1>1, <1>2, <1>3, Resumed DEF IInv
<1>5. start' = start
  BY <1>3, <1>4 DEF IInv, R!TypeOK
<1>6. StartRight'
  BY <1>3, <1>4, <1>5 DEF IInv, StartRight
<1>7. /\ pc \in [Coroutine -> Label] /\ cur \in [Coroutine -> ConnFd \cup {NoFd}]
      /\ tskfd \in [RW -> ConnFd \cup {NoFd}]
  BY DEF IInv, Typed
<1>8. /\ pc'[Acceptor] = "accept" /\ \A q \in Coroutine : q # Acceptor => pc'[q] = pc[q]
      /\ cur'[Acceptor] = NoFd /\ \A q \in Coroutine : q # Acceptor => cur'[q] = cur[q]
      /\ tskfd'[w] = fd /\ \A q \in RW : q # w => tskfd'[q] = tskfd[q]
  BY <1>1, <1>2, <1>3, <1>7
<1>9. fd # NoFd /\ fd \in ConnFd /\ OnStack(Acceptor) /\ start[Acceptor]
  BY <1>1, <1>3, <1>7, CoroutineRuns DEF IInv, AcceptorRight, StartRight
<1> HIDE DEF fd
<1>10. \A q \in Coroutine : q # w /\ q # Acceptor => RoutineSame(q)
  BY <1>1, <1>2, <1>4, <1>5, <1>8 DEF RoutineSame, InPool, epollVars
<1>11. AcceptorRight'
  BY <1>1, <1>3, <1>4, <1>5, <1>8, <1>9 DEF IInv, AcceptorRight, ChannelRight, epollVars
<1>12. ASSUME NEW q \in RW PROVE WorkerRight(q)'
  <2>1. CASE q = w
    <3>1. pc'[q] = "top" /\ cur'[q] = NoFd /\ start'[q] /\ OnStack(q)' /\ ~InPool(q)'
      BY <1>2, <1>3, <1>4, <1>5, <1>8, <2>1 DEF InPool
    <3>2. WorkerRight(q) /\ pc[q] = "top"
      BY <1>3, <2>1 DEF IInv
    <3> QED  BY <1>1, <3>1, <3>2 DEF WorkerRight, ChannelRight, epollVars
  <2>2. CASE q # w
    BY <1>10, <2>2, RoutineFrame, Names
  <2> QED  BY <2>1, <2>2
<1>13. EP!IInv' /\ Distinct(pool)'
  BY <1>1, <1>2, PollerSame DEF IInv, Distinct
<1>14. Typed'
  BY <1>1, <1>2, <1>7, <1>9 DEF IInv, Typed, Label, loopVars, sockVars, peerVars, fd
<1>15. \A q \in Coroutine : Waits(q)' <=> Waits(q)
  <2>1. \A q \in Coroutine : q = w \/ q = Acceptor => pc[q] # "wait" /\ pc'[q] # "wait"
    BY <1>1, <1>3, <1>8
  <2>2. \A q \in Coroutine : q = w \/ q = Acceptor => ~Waits(q) /\ ~Waits(q)'
    BY <2>1 DEF Waits
  <2>3. \A q \in Coroutine : q # w /\ q # Acceptor => (Waits(q)' <=> Waits(q))
    BY <1>10, RoutineFrame
  <2> QED  BY <2>2, <2>3
<1>16. TimersRight'
  <2>1. \A q \in ToSet(timers) : pc'[q] = pc[q]
    BY <1>1, <1>8, Listed DEF IInv, TimersRight
  <2> QED  BY <1>1, <1>15, <2>1, Listed, TimersFrame DEF loopVars, IInv, TimersRight
<1>17. FdsRight'
  <2>1. \A q \in Coroutine : q = w => Held(q) = {}
    BY <1>2, <1>3 DEF Held
  <2>2. \A q \in Coroutine : q = w => Held(q)' = {fd}
    BY <1>2, <1>3, <1>8, <1>9 DEF Held
  <2>3. \A q \in Coroutine : q = Acceptor => Held(q) = {fd}
    BY <1>9, Names DEF Held, fd
  <2>4. \A q \in Coroutine : q = Acceptor => Held(q)' = {}
    BY <1>8, Names DEF Held
  <2>5. \A q \in Coroutine : q # w /\ q # Acceptor => Held(q)' = Held(q)
    BY <1>10, RoutineFrame
  <2>6. \A q, s \in Coroutine : q # s => Held(q) \cap Held(s) = {}
    BY DEF IInv, FdsRight
  <2>7. \A q \in Coroutine : q # w /\ q # Acceptor => fd \notin Held(q)'
    BY <1>3, <2>3, <2>5, <2>6
  <2>8. ASSUME NEW q \in Coroutine, NEW s \in Coroutine, q # s
        PROVE  Held(q)' \cap Held(s)' = {}
    <3>1. CASE q = w
      BY <2>2, <2>4, <2>7, <2>8, <3>1
    <3>2. CASE s = w
      BY <2>2, <2>4, <2>7, <2>8, <3>2
    <3>3. CASE q = Acceptor \/ s = Acceptor
      BY <2>4, <3>3
    <3>4. CASE q # w /\ s # w /\ q # Acceptor /\ s # Acceptor
      <4>1. Held(q)' = Held(q) /\ Held(s)' = Held(s)
        BY <2>5, <3>4
      <4> QED  BY <2>6, <2>8, <4>1
    <3> QED  BY <3>1, <3>2, <3>3, <3>4
  <2>9. \A g : (\E q \in Coroutine : g \in Held(q)') <=> \E q \in Coroutine : g \in Held(q)
    <3>1. ASSUME NEW g, NEW q \in Coroutine, g \in Held(q)'
          PROVE  \E s \in Coroutine : g \in Held(s)
      <4>1. CASE q = w
        BY <1>3, <2>2, <2>3, <3>1, <4>1
      <4>2. CASE q # w /\ q # Acceptor
        BY <2>5, <3>1, <4>2
      <4> QED  BY <2>4, <3>1, <4>1, <4>2
    <3>2. ASSUME NEW g, NEW q \in Coroutine, g \in Held(q)
          PROVE  \E s \in Coroutine : g \in Held(s)'
      <4>1. CASE q = Acceptor
        BY <1>3, <2>2, <2>3, <3>2, <4>1
      <4>2. CASE q # w /\ q # Acceptor
        BY <2>5, <3>2, <4>2
      <4> QED  BY <2>1, <3>2, <4>1, <4>2
    <3> QED  BY <3>1, <3>2
  <2> QED  BY <1>1, <2>8, <2>9 DEF IInv, FdsRight, epollVars
<1>18. ConnRight'
  BY <1>1, ConnFrame DEF sockVars, epollVars
<1>19. ClosingRight'
  BY <1>1, <1>8, Names, ClosingFrame DEF sockVars, peerVars
<1>20. EventsRight'
  BY <1>1, <1>15, EventsFrame DEF loopVars, IInv, Typed
<1>21. Contract
  <2>1. w \in created
    BY <1>3 DEF IInv, StartRight
  <2> QED  BY <1>1, <1>3, <2>1, ContractResume
<1> QED  BY <1>4, <1>6, <1>11, <1>12, <1>13, <1>14, <1>16, <1>17, <1>18, <1>19, <1>20, <1>21 DEF IInv

-----------------------------------------------------------------------------
(* The read-write routines.                                                *)

(* With nothing to do, a routine enters itself in g_readwrite and yields. *)
LEMMA IdleIInv ==
  ASSUME IInv, NEW r \in RW, Top(r), tskfd[r] = NoFd
  PROVE  IInv' /\ Contract
<1>1. /\ Running = r /\ pc[r] = "top"
      /\ pool' = Append(pool, r)
      /\ R!Yield
      /\ UNCHANGED <<pc, tskfd, cur, epollVars, loopVars, sockVars>>
  BY DEF Top, Pushed
<1>2. r \in Coroutine /\ r # Acceptor /\ OnStack(r) /\ start[r] /\ ~InPool(r)
  BY <1>1, Names, CoroutineRuns DEF IInv, StartRight, WorkerRight
<1>3. /\ pool' \in Seq(RW) /\ Distinct(pool')
      /\ \A q : q \in ToSet(pool') <=> q \in ToSet(pool) \/ q = r
  BY <1>1, <1>2, Appended DEF IInv, Typed, InPool
<1>4. /\ StackShape' /\ R!TypeOK'
      /\ \A q \in Coroutine : OnStack(q)' <=> OnStack(q) /\ q # r
      /\ UNCHANGED <<start, created, end>>
  BY <1>1, <1>2, Yielded DEF IInv
<1>5. StartRight'
  BY <1>4 DEF IInv, StartRight
<1>6. \A q \in Coroutine : q # r => RoutineSame(q)
  BY <1>1, <1>3, <1>4 DEF RoutineSame, InPool, epollVars
<1>7. AcceptorRight'
  BY <1>2, <1>6, RoutineFrame, Names
<1>8. ASSUME NEW q \in RW PROVE WorkerRight(q)'
  <2>1. CASE q = r
    <3>1. InPool(q)' /\ ~OnStack(q)' /\ start'[q] /\ pc[q] = "top" /\ tskfd[q] = NoFd
      BY <1>1, <1>2, <1>3, <1>4, <2>1 DEF InPool
    <3>2. WorkerRight(q)
      BY DEF IInv
    <3> QED  BY <1>1, <3>1, <3>2 DEF WorkerRight, ChannelRight, epollVars
  <2> QED  BY <1>6, <2>1, RoutineFrame, Names
<1>9. Typed'
  BY <1>1, <1>3 DEF IInv, Typed, loopVars, sockVars, peerVars
<1>10. EP!IInv'
  BY <1>1, PollerSame DEF IInv
<1>11. \A q \in Coroutine : Waits(q)' <=> Waits(q)
  <2>1. \A q \in Coroutine : q = r => ~Waits(q) /\ ~Waits(q)'
    BY <1>1 DEF Waits
  <2> QED  BY <1>6, <2>1, RoutineFrame
<1>12. TimersRight'
  BY <1>1, <1>11, Listed, TimersFrame DEF loopVars, IInv, TimersRight
<1>13. FdsRight'
  <2>1. \A q \in Coroutine : Held(q)' = Held(q)
    BY <1>1 DEF Held
  <2> QED  BY <1>1, <2>1, FdsFrame DEF epollVars
<1>14. ConnRight'
  BY <1>1, ConnFrame DEF sockVars, epollVars
<1>15. ClosingRight'
  BY <1>1, ClosingFrame DEF sockVars, peerVars
<1>16. EventsRight'
  BY <1>1, <1>11, EventsFrame DEF loopVars, IInv, Typed
<1>17. Contract
  BY <1>1 DEF Contract, R!Next, epollVars, E!vars, E!chan
<1> QED  BY <1>3, <1>4, <1>5, <1>7, <1>8, <1>9, <1>10, <1>12, <1>13, <1>14, <1>15, <1>16, <1>17 DEF IInv

(* With a descriptor in its task_t, it takes it. *)
LEMMA TakeIInv ==
  ASSUME IInv, NEW r \in RW, Top(r), tskfd[r] # NoFd
  PROVE  IInv' /\ Contract
<1>1. /\ Running = r /\ pc[r] = "top"
      /\ cur' = [cur EXCEPT ![r] = tskfd[r]]
      /\ tskfd' = [tskfd EXCEPT ![r] = NoFd]
      /\ pc' = [pc EXCEPT ![r] = "make"]
      /\ UNCHANGED <<pool, routineVars, epollVars, loopVars, sockVars>>
  BY DEF Top, Consumed, GoTo
<1>2. /\ pc \in [Coroutine -> Label] /\ cur \in [Coroutine -> ConnFd \cup {NoFd}]
      /\ tskfd \in [RW -> ConnFd \cup {NoFd}]
      /\ r \in Coroutine /\ r # Acceptor
  BY Names DEF IInv, Typed
<1>3. /\ pc'[r] = "make" /\ cur'[r] = tskfd[r] /\ tskfd'[r] = NoFd
      /\ \A q \in Coroutine : q # r => pc'[q] = pc[q] /\ cur'[q] = cur[q]
      /\ \A q \in RW : q # r => tskfd'[q] = tskfd[q]
  BY <1>1, <1>2
<1>4. /\ R!TypeOK' /\ StackShape' /\ StartRight' /\ Distinct(pool)'
      /\ AcceptorRight'
      /\ \A q \in RW : q # r => WorkerRight(q)'
      /\ \A q \in Coroutine : q # r => Held(q)' = Held(q)
      /\ start' = start /\ OnStack(r)' /\ start[r] /\ (InPool(r)' <=> InPool(r))
      /\ TimersRight' /\ EventsRight'
  BY <1>1, <1>2, <1>3, RunnerFrame DEF loopVars, epollVars
<1>5. \A q \in RW : WorkerRight(q)'
  <2>1. ~InPool(r)'
    BY <1>4 DEF IInv, WorkerRight
  <2>2. index[r] = "new" /\ fdOf[r] = NoFd
    BY <1>1 DEF IInv, WorkerRight, ChannelRight
  <2>3. WorkerRight(r)'
    BY <1>1, <1>3, <1>4, <2>1, <2>2 DEF WorkerRight, ChannelRight, epollVars
  <2> QED  BY <1>4, <2>3
<1>6. Typed'
  BY <1>1, <1>2 DEF IInv, Typed, Label, loopVars, sockVars, peerVars
<1>7. EP!IInv'
  BY <1>1, PollerSame DEF IInv
<1>8. FdsRight'
  <2>1. cur[r] = NoFd
    BY <1>1 DEF IInv, WorkerRight
  <2>2. \A q \in Coroutine : q = r => Held(q) = {tskfd[r]} \ {NoFd} /\ Held(q)' = {tskfd[r]} \ {NoFd}
    BY <1>3, <2>1 DEF Held
  <2>3. \A q \in Coroutine : Held(q)' = Held(q)
    BY <1>4, <2>2
  <2> QED  BY <1>1, <2>3, FdsFrame DEF epollVars
<1>9. ConnRight'
  BY <1>1, ConnFrame DEF sockVars, epollVars
<1>10. ClosingRight'
  BY <1>1, <1>3, Names, ClosingFrame DEF sockVars, peerVars
<1>11. Contract
  BY <1>1, ContractSame
<1> QED  BY <1>4, <1>5, <1>6, <1>7, <1>8, <1>9, <1>10, <1>11 DEF IInv

(* A routine that has a connection reads, writes and closes that one. *)
LEMMA Serving ==
  ASSUME IInv, NEW r \in RW, pc[r] \in {"read", "write", "close"}
  PROVE  cur[r] \in ConnFd /\ cur[r] \in open /\ sock[cur[r]] \in Conn
<1>1. cur[r] # NoFd
  BY DEF IInv, WorkerRight
<1>2. cur[r] \in Held(r)
  BY <1>1 DEF Held
<1>3. cur[r] \in ConnFd /\ cur[r] \in open
  BY <1>2, OwnDescriptor, Names
<1> QED  BY <1>3 DEF IInv, Typed, ConnRight

(* A step from read() or write() to the next place in the function. *)
LEMMA ServeIInv ==
  ASSUME IInv, NEW r \in RW, Running = r, pc[r] \in {"read", "write"},
         NEW label \in {"write", "close", "make"}, GoTo(r, label),
         IF label = "make" THEN E!Destroy(r) ELSE UNCHANGED epollVars,
         UNCHANGED <<routineVars, tskfd, cur, pool, loopVars, backlog, sock, gone, eof, reset>>,
         unread' \in [Conn -> 0 .. MaxData], full' \subseteq Conn,
         label = "close" => /\ \/ sock[cur[r]] \in reset
                               \/ sock[cur[r]] \in eof /\ unread[sock[cur[r]]] = 0
                            /\ UNCHANGED unread
  PROVE  IInv' /\ Contract
<1>1. /\ pc \in [Coroutine -> Label]
      /\ r \in Coroutine /\ r # Acceptor
  BY Names DEF IInv, Typed
<1>2. pc' = [pc EXCEPT ![r] = label] /\ pc'[r] = label /\ \A q \in Coroutine : q # r => pc'[q] = pc[q]
  BY <1>1 DEF GoTo
<1>3. /\ fdOf[r] # NoFd /\ index[r] = "new" /\ cur[r] # NoFd /\ fdOf[r] = cur[r] /\ tskfd[r] = NoFd
      /\ ~InPool(r)
  BY DEF IInv, WorkerRight, ChannelRight
<1>4. /\ EP!IInv' /\ ([E!Next]_(E!vars))
      /\ UNCHANGED <<open, index, events>>
      /\ \A q \in Channels : q # r => fdOf'[q] = fdOf[q]
      /\ fdOf'[r] = IF label = "make" THEN NoFd ELSE fdOf[r]
  <2>1. CASE label = "make"
    <3>1. /\ EP!IInv' /\ E!Next
          /\ fdOf' = [fdOf EXCEPT ![r] = NoFd]
          /\ UNCHANGED <<open, index, events>>
      BY <1>1, <1>3, <2>1, PollerDestroy DEF IInv
    <3> QED  BY <1>1, <2>1, <3>1, PollerTyped DEF IInv, Channels
  <2>2. CASE label # "make"
    BY <2>2, PollerSame DEF IInv, epollVars, E!vars, E!chan
  <2> QED  BY <2>1, <2>2
<1>5. /\ R!TypeOK' /\ StackShape' /\ StartRight' /\ Distinct(pool)'
      /\ AcceptorRight'
      /\ \A q \in RW : q # r => WorkerRight(q)'
      /\ start' = start /\ OnStack(r)' /\ start[r] /\ (InPool(r)' <=> InPool(r))
      /\ TimersRight' /\ EventsRight'
  BY <1>1, <1>2, <1>4, RunnerFrame DEF loopVars, Channels
<1>6. \A q \in RW : WorkerRight(q)'
  <2>1. WorkerRight(r)'
    BY <1>2, <1>3, <1>4, <1>5 DEF WorkerRight, ChannelRight
  <2> QED  BY <1>5, <2>1
<1>7. Typed'
  BY <1>1, <1>2 DEF IInv, Typed, Label, loopVars
<1>8. FdsRight'
  <2>1. \A q \in Coroutine : Held(q)' = Held(q)
    BY DEF Held
  <2> QED  BY <1>1, <1>4, <2>1, FdsFrame, Names DEF Channels
<1>9. ConnRight'
  BY <1>4, ConnFrame
<1>10. ClosingRight'
  <2>1. \A q \in RW : q # r => pc'[q] # "close"
    BY <1>1, <1>2, CoroutineRuns, Names DEF IInv, WorkerRight
  <2> QED  BY <1>2, <2>1 DEF ClosingRight
<1>11. Contract
  BY <1>4 DEF Contract, routineVars, R!vars
<1> QED  BY <1>4, <1>5, <1>6, <1>7, <1>8, <1>9, <1>10, <1>11 DEF IInv

LEMMA ReadIInv ==
  ASSUME IInv, NEW r \in RW, Read(r)
  PROVE  IInv' /\ Contract
<1> DEFINE c == sock[cur[r]]
<1>1. /\ Running = r /\ pc[r] = "read"
      /\ UNCHANGED <<routineVars, tskfd, cur, pool, loopVars, backlog, sock, gone, eof, reset, full>>
  BY DEF Read
<1>2. c \in Conn /\ unread \in [Conn -> 0 .. MaxData] /\ full \subseteq Conn /\ MaxData \in Nat
  BY <1>1, Serving, TcpServerAssumption DEF IInv, Typed
<1>3. CASE /\ HasData(c)
           /\ \E n \in 0 .. unread[c] - 1 : unread' = [unread EXCEPT ![c] = n]
           /\ GoTo(r, "write")
           /\ UNCHANGED epollVars
  <2>1. PICK n \in 0 .. unread[c] - 1 : unread' = [unread EXCEPT ![c] = n]
    BY <1>3
  <2>2. unread[c] \in 0 .. MaxData
    BY <1>2
  <2>3. n \in 0 .. MaxData
    BY <1>2, <2>2
  <2>4. unread' \in [Conn -> 0 .. MaxData]
    BY <1>2, <2>1, <2>3
  <2> QED  BY <1>1, <1>2, <1>3, <2>4, ServeIInv
<1>4. CASE /\ ~HasData(c) /\ AtEnd(c)
           /\ GoTo(r, "close")
           /\ UNCHANGED <<epollVars, unread>>
  <2>1. unread[c] = 0
    BY <1>2, <1>4 DEF HasData
  <2>2. c \in eof \/ c \in reset
    BY <1>4 DEF AtEnd
  <2> QED  BY <1>1, <1>2, <1>4, <2>1, <2>2, ServeIInv
<1>5. CASE /\ ~HasData(c) /\ ~AtEnd(c)
           /\ E!Destroy(r)
           /\ GoTo(r, "make")
           /\ UNCHANGED unread
  BY <1>1, <1>2, <1>5, ServeIInv
<1> QED  BY <1>3, <1>4, <1>5 DEF Read

(* The process dies: nothing else changes. *)
LEMMA CrashIInv ==
  ASSUME IInv, crashed' = TRUE,
         UNCHANGED <<routineVars, epollVars, serverVars, looping, active, timers, handling, expired, sockVars>>
  PROVE  IInv' /\ Contract
<1>1. /\ R!TypeOK' /\ EP!IInv' /\ StackShape' /\ StartRight'
      /\ AcceptorRight' /\ (\A r \in RW : WorkerRight(r)') /\ Distinct(pool)' /\ FdsRight'
      /\ \A r \in Coroutine : pc'[r] = pc[r] /\ cur'[r] = cur[r] /\ (Waits(r)' <=> Waits(r))
  BY ServerSame
<1>2. Typed'
  BY DEF IInv, Typed, serverVars, sockVars, peerVars
<1>3. TimersRight'
  BY <1>1, Listed, TimersFrame DEF IInv, TimersRight
<1>4. ConnRight'
  BY ConnFrame DEF sockVars, epollVars
<1>5. ClosingRight'
  BY <1>1, Names, ClosingFrame DEF sockVars, peerVars
<1>6. EventsRight'
  BY <1>1, EventsFrame DEF IInv, Typed
<1>7. Contract
  BY ContractSame
<1> QED  BY <1>1, <1>2, <1>3, <1>4, <1>5, <1>6, <1>7 DEF IInv

LEMMA WriteIInv ==
  ASSUME IInv, NEW r \in RW, Write(r)
  PROVE  IInv' /\ Contract
<1> DEFINE c == sock[cur[r]]
<1>1. /\ Running = r /\ pc[r] = "write"
      /\ UNCHANGED <<routineVars, tskfd, cur, pool, looping, active, timers, handling, expired,
                     backlog, sock, gone, unread, eof, reset>>
  BY DEF Write
<1>2. c \in Conn /\ unread \in [Conn -> 0 .. MaxData] /\ full \subseteq Conn
  BY <1>1, Serving DEF IInv, Typed
<1>3. CASE /\ c \notin reset
           /\ full' \in {full, full \cup ({c} \cap Slow)}
           /\ E!Destroy(r)
           /\ GoTo(r, "make")
           /\ UNCHANGED crashed
  <2>1. full' \subseteq Conn
    BY <1>2, <1>3
  <2> QED  BY <1>1, <1>2, <1>3, <2>1, ServeIInv DEF loopVars
<1>4. CASE /\ c \in reset \ eof
           /\ GoTo(r, "close")
           /\ UNCHANGED <<epollVars, full, crashed>>
  BY <1>1, <1>2, <1>4, ServeIInv DEF loopVars
<1>5. CASE /\ c \in reset \cap eof
           /\ crashed' = TRUE
           /\ UNCHANGED <<epollVars, pc, full>>
  BY <1>1, <1>5, CrashIInv DEF serverVars, sockVars, peerVars
<1> QED  BY <1>3, <1>4, <1>5 DEF Write

LEMMA CloseConnIInv ==
  ASSUME IInv, NEW r \in RW, CloseConn(r)
  PROVE  IInv' /\ Contract
<1>1. r \in Coroutine /\ r # Acceptor
  BY Names
<1>2. CASE /\ Running = r /\ pc[r] = "close"
           /\ CloseFd(cur[r])
           /\ cur' = [cur EXCEPT ![r] = NoFd]
           /\ GoTo(r, "break")
           /\ UNCHANGED <<routineVars, tskfd, pool, loopVars>>
  <2>1. /\ R!TypeOK' /\ EP!IInv' /\ Typed' /\ StackShape' /\ StartRight' /\ Distinct(pool)'
        /\ TimersRight' /\ FdsRight' /\ ConnRight' /\ ClosingRight' /\ EventsRight'
        /\ AcceptorRight'
        /\ \A q \in RW : q # r => WorkerRight(q)'
        /\ pc'[r] = "break" /\ cur'[r] = NoFd
        /\ OnStack(r)' /\ start[r] /\ start' = start /\ (InPool(r)' <=> InPool(r))
        /\ UNCHANGED <<fdOf, index, events>>
        /\ Contract
    BY <1>1, <1>2, CloseFdRight
  <2>2. /\ tskfd[r] = NoFd /\ ~InPool(r) /\ fdOf[r] = cur[r] /\ index[r] = "new"
        /\ cur[r] \in ConnFd
    BY <1>2, Serving DEF IInv, WorkerRight, ChannelRight
  <2>3. WorkerRight(r)'
    BY <1>2, <2>1, <2>2 DEF WorkerRight, ChannelRight
  <2> QED  BY <2>1, <2>3 DEF IInv
<1>3. CASE /\ Running = r /\ pc[r] = "break"
           /\ E!Destroy(r)
           /\ GoTo(r, "top")
           /\ UNCHANGED <<routineVars, tskfd, cur, pool, loopVars, sockVars>>
  <2>1. pc \in [Coroutine -> Label]
    BY DEF IInv, Typed
  <2>2. pc' = [pc EXCEPT ![r] = "top"] /\ pc'[r] = "top" /\ \A q \in Coroutine : q # r => pc'[q] = pc[q]
    BY <1>1, <1>3, <2>1 DEF GoTo
  <2>3. /\ fdOf[r] \in ConnFd /\ index[r] = "new" /\ cur[r] = NoFd /\ tskfd[r] = NoFd
        /\ ~InPool(r)
    BY <1>3 DEF IInv, WorkerRight, ChannelRight
  <2>4. /\ EP!IInv' /\ E!Next
        /\ fdOf' = [fdOf EXCEPT ![r] = NoFd]
        /\ UNCHANGED <<open, index, events>>
    BY <1>1, <1>3, <2>3, TcpServerAssumption, PollerDestroy DEF IInv
  <2>5. fdOf'[r] = NoFd /\ \A q \in Channels : q # r => fdOf'[q] = fdOf[q]
    BY <1>1, <2>4, PollerTyped DEF IInv, Channels
  <2>6. /\ R!TypeOK' /\ StackShape' /\ StartRight' /\ Distinct(pool)'
        /\ AcceptorRight'
        /\ \A q \in RW : q # r => WorkerRight(q)'
        /\ start' = start /\ OnStack(r)' /\ start[r] /\ (InPool(r)' <=> InPool(r))
        /\ TimersRight' /\ EventsRight'
    BY <1>1, <1>3, <2>2, <2>4, <2>5, RunnerFrame DEF loopVars, Channels
  <2>7. WorkerRight(r)'
    BY <1>3, <2>2, <2>3, <2>4, <2>5, <2>6 DEF WorkerRight, ChannelRight
  <2>8. Typed'
    BY <1>3, <2>1, <2>2 DEF IInv, Typed, Label, loopVars, sockVars, peerVars
  <2>9. FdsRight'
    <3>1. \A q \in Coroutine : Held(q)' = Held(q)
      BY <1>3 DEF Held
    <3> QED  BY <1>1, <2>4, <2>5, <3>1, FdsFrame, Names DEF Channels
  <2>10. ConnRight'
    BY <1>3, <2>4, ConnFrame DEF sockVars
  <2>11. ClosingRight'
    BY <1>3, <2>2, Names, ClosingFrame DEF sockVars, peerVars
  <2>12. Contract
    BY <1>3, <2>4 DEF Contract, routineVars, R!vars
  <2> QED  BY <2>4, <2>6, <2>7, <2>8, <2>9, <2>10, <2>11, <2>12 DEF IInv
<1> QED  BY <1>2, <1>3 DEF CloseConn

-----------------------------------------------------------------------------
(* The invariant, and what follows from it.                                *)

LEMMA NextIInv ==
  ASSUME IInv, [Next]_vars
  PROVE  IInv' /\ Contract
<1>1. CASE Client
  BY <1>1, ClientIInv
<1>2. CASE Server
  <2>1. CASE MainStep
    BY <2>1, StartIInv, EnterLoopIInv, PollIInv, DispatchIInv, HandleReadIInv, RunTimerIInv DEF MainStep
  <2>2. ASSUME NEW r \in Coroutine, CoroutineStep(r)
        PROVE  IInv' /\ Contract
    BY <2>2, MakeChannelIInv, AddEpollIInv, LeaveEpollIInv DEF CoroutineStep
  <2>3. CASE AcceptStep
    BY <2>3, AcceptIInv, DropIInv, HandOverIInv, AcceptAgainIInv DEF AcceptStep
  <2>4. ASSUME NEW r \in RW, ReadWriteStep(r)
        PROVE  IInv' /\ Contract
    BY <2>4, IdleIInv, TakeIInv, ReadIInv, WriteIInv, CloseConnIInv DEF ReadWriteStep
  <2> QED  BY <1>2, <2>1, <2>2, <2>3, <2>4 DEF Server
<1>3. CASE UNCHANGED vars
  <2> USE <1>3 DEF vars
  <2>1. /\ R!TypeOK' /\ EP!IInv' /\ StackShape' /\ StartRight'
        /\ AcceptorRight' /\ (\A r \in RW : WorkerRight(r)') /\ Distinct(pool)' /\ FdsRight'
        /\ \A r \in Coroutine : pc'[r] = pc[r] /\ cur'[r] = cur[r] /\ (Waits(r)' <=> Waits(r))
    BY ServerSame
  <2>2. Typed'
    BY DEF IInv, Typed, serverVars, loopVars, sockVars, peerVars
  <2>3. TimersRight' /\ EventsRight'
    BY <2>1, Listed, TimersFrame, EventsFrame DEF IInv, TimersRight, Typed, loopVars
  <2>4. ConnRight' /\ ClosingRight'
    BY <2>1, Names, ConnFrame, ClosingFrame DEF sockVars, peerVars, epollVars
  <2>5. Contract
    BY ContractSame
  <2> QED  BY <2>1, <2>2, <2>3, <2>4, <2>5 DEF IInv
<1> QED  BY <1>1, <1>2, <1>3 DEF Next

(* The conjunction of what is said above holds in every state the server   *)
(* reaches, for any number of routines, descriptors and connections.       *)
THEOREM Invariance == Spec => []IInv
<1>1. Init => IInv
  BY InitIInv
<1>2. IInv /\ [Next]_vars => IInv'
  BY NextIInv
<1> QED  BY <1>1, <1>2, PTL DEF Spec

(* Every variable of the server keeps its type.                            *)
THEOREM TypeCorrect == Spec => []TypeOK
<1>1. IInv => TypeOK
  <2> SUFFICES ASSUME IInv PROVE TypeOK
    OBVIOUS
  <2>1. E!TypeOK
    BY PollerTyped DEF IInv, EP!IInv
  <2> QED  BY <2>1 DEF IInv, Typed, TypeOK
<1> QED  BY <1>1, Invariance, PTL

(* A routine has nothing in its task_t while it serves a connection. *)
LEMMA HoldsOne ==
  ASSUME IInv, NEW r \in Coroutine
  PROVE  Held(r) = {} \/ \E fd \in ConnFd : Held(r) = {fd}
<1>1. CASE r = Acceptor
  <2>1. Held(r) = {cur[r]} \ {NoFd} /\ cur[r] \in ConnFd \cup {NoFd}
    BY <1>1, Names DEF Held, IInv, Typed
  <2> QED  BY <2>1
<1>2. CASE r \in RW
  <2>1. /\ Held(r) = {cur[r], tskfd[r]} \ {NoFd}
        /\ cur[r] = NoFd \/ tskfd[r] = NoFd
        /\ cur[r] \in ConnFd \cup {NoFd} /\ tskfd[r] \in ConnFd \cup {NoFd}
    BY <1>2, Names DEF Held, IInv, Typed, WorkerRight
  <2> QED  BY <2>1
<1> QED  BY <1>1, <1>2, Names

(* Each open descriptor of a connection belongs to one routine, which will *)
(* close it, and no routine has two: nothing is leaked or closed twice.    *)
THEOREM DescriptorsOwned == Spec => []FdOwned
<1>1. ASSUME IInv PROVE FdOwned
  <2>1. ASSUME NEW r \in Coroutine PROVE Cardinality(Held(r)) <= 1
    <3>1. CASE Held(r) = {}
      BY <3>1, FS_EmptySet
    <3>2. ASSUME NEW fd \in ConnFd, Held(r) = {fd}
          PROVE  Cardinality(Held(r)) <= 1
      BY <3>2, FS_Singleton
    <3> QED  BY <1>1, <3>1, <3>2, HoldsOne
  <2> QED  BY <1>1, <2>1 DEF IInv, FdsRight, FdOwned
<1> QED  BY <1>1, Invariance, PTL

(* g_readwrite has each idle routine once and no other: the accept routine *)
(* gives a descriptor only to a routine that has nothing to do.            *)
THEOREM PoolCorrect == Spec => []PoolIdle
<1>1. ASSUME IInv PROVE PoolIdle
  <2>1. ASSUME NEW r \in RW, r \in ToSet(pool)
        PROVE  /\ pc[r] = "top" /\ Held(r) = {} /\ ~E!Alive(r)
               /\ r \notin ToSet(timers) \cup ToSet(expired) /\ ~OnStack(r)
    <3>1. /\ pc[r] = "top" /\ tskfd[r] = NoFd /\ cur[r] = NoFd /\ fdOf[r] = NoFd /\ ~OnStack(r)
      BY <1>1, <2>1 DEF IInv, WorkerRight, InPool
    <3>2. r \notin ToSet(timers) \cup ToSet(expired)
      BY <1>1, <3>1 DEF IInv, TimersRight, Waits
    <3> QED  BY <3>1, <3>2 DEF Held, E!Alive
  <2>2. ASSUME NEW r \in RW, start[r], ~OnStack(r)
        PROVE  r \in ToSet(pool) \/ Waits(r)
    BY <1>1, <2>2 DEF IInv, WorkerRight, InPool, Waits, OnStack
  <2> QED  BY <1>1, <2>1, <2>2 DEF IInv, Distinct, PoolIdle
<1> QED  BY <1>1, Invariance, PTL

(* A routine that waits is watched for its own descriptor, in both ways,   *)
(* and has one timer: the loop cannot forget it.                           *)
THEOREM WaitersCorrect == Spec => []WaitersWatched
<1>1. ASSUME IInv PROVE WaitersWatched
  <2> DEFINE list == expired \o timers
  <2>1. list \in Seq(Coroutine) /\ Distinct(list)
    BY <1>1, Concatenated DEF IInv, Typed, TimersRight
  <2>2. ASSUME NEW r \in Coroutine, Waits(r)
        PROVE  /\ interest[fdOf[r]] = [ptr |-> r, events |-> {"in", "out"}]
               /\ fdOf[r] = IF r = Acceptor THEN ListenFd ELSE cur[r]
    <3>1. pc[r] = "wait"
      BY <2>2 DEF Waits
    <3>2. index[r] = "added" /\ events[r] = {"in", "out"}
      BY <1>1, <3>1, Names DEF IInv, AcceptorRight, WorkerRight, ChannelRight
    <3>3. fdOf[r] = IF r = Acceptor THEN ListenFd ELSE cur[r]
      BY <1>1, <3>1, Names DEF IInv, AcceptorRight, WorkerRight
    <3>4. r # Acceptor => cur[r] \in ConnFd
      <4>1. r # Acceptor => cur[r] # NoFd
        BY <1>1, <3>1, Names DEF IInv, WorkerRight
      <4> QED  BY <1>1, <4>1 DEF IInv, Typed
    <3>5. fdOf[r] \in Fds /\ r \in Channels
      BY <3>3, <3>4 DEF Fds, Channels
    <3> QED  BY <1>1, <3>2, <3>3, <3>5, Watches
  <2>3. ASSUME NEW r \in Coroutine, Waits(r)
        PROVE  \E i \in 1 .. Len(list) : list[i] = r
    BY <1>1, <2>1, <2>3, InToSet DEF IInv, TimersRight
  <2>4. \A i, j \in 1 .. Len(list) : list[i] = list[j] => i = j
    BY <2>1 DEF Distinct
  <2> QED  BY <2>2, <2>3, <2>4 DEF WaitersWatched
<1> QED  BY <1>1, Invariance, PTL

(* If the timers are handled last, the channels of the events that poll()  *)
(* returned are still there whenever the loop goes on to the next one.     *)
THEOREM EventsValid ==
  ASSUME TimerLast
  PROVE  Spec => []EventsHaveChannel
<1>1. ASSUME IInv PROVE EventsHaveChannel
  <2> SUFFICES ASSUME NEW c \in active \ {TimerChan} PROVE E!Alive(c)
    BY DEF EventsHaveChannel
  <2>1. c \in Coroutine /\ pc[c] = "wait"
    BY <1>1 DEF IInv, Typed, EventsRight, Waits
  <2>2. fdOf[c] # NoFd
    BY <1>1, <2>1, Names, TcpServerAssumption DEF IInv, AcceptorRight, WorkerRight
  <2> QED  BY <2>2 DEF E!Alive
<1> QED  BY <1>1, Invariance, PTL

(* The server resumes only routines that may be resumed and calls the      *)
(* poller only as its assertions allow, for any schedule of the clients.   *)
THEOREM Contracts == Spec => KeepsContracts
<1>1. Init => R!Init
  BY DEF Init
<1>2. IInv /\ [Next]_vars => [R!Next]_(R!vars) /\ [E!Next]_(E!vars)
  BY NextIInv DEF Contract
<1> QED  BY <1>1, <1>2, Invariance, PTL DEF Spec, KeepsContracts, R!Spec

-----------------------------------------------------------------------------
(* What a step does to the connections.                                    *)

(* Most steps neither move a connection nor end one. *)
Quiet == /\ UNCHANGED <<open, backlog, sock, gone, eof, reset>>
         /\ pc'[Acceptor] = "hand" <=> pc[Acceptor] = "hand"
         /\ \A r \in Coroutine : Held(r)' = Held(r)

Accepts == Accept /\ backlog # <<>> /\ FreeFds # {}

Closes(r) == /\ Running = r /\ pc[r] = "close"
             /\ CloseFd(cur[r])
             /\ cur' = [cur EXCEPT ![r] = NoFd]
             /\ GoTo(r, "break")
             /\ UNCHANGED <<routineVars, tskfd, pool, loopVars>>

(* It is a quiet one if it leaves what the routines have. *)
LEMMA QuietStep ==
  ASSUME IInv, NEW r \in Coroutine, NEW label \in Label \ {"hand"}, pc[r] # "hand",
         GoTo(r, label) \/ UNCHANGED pc,
         UNCHANGED <<tskfd, cur, open, backlog, sock, gone, eof, reset>>
  PROVE  Quiet
<1>1. pc'[Acceptor] = "hand" <=> pc[Acceptor] = "hand"
  BY Names DEF IInv, Typed, GoTo
<1>2. \A q \in Coroutine : Held(q)' = Held(q)
  BY DEF Held
<1> QED  BY <1>1, <1>2 DEF Quiet

LEMMA MainQuiet ==
  ASSUME UNCHANGED <<epollVars, serverVars, sockVars>>
  PROVE  Quiet
<1>1. \A q \in Coroutine : Held(q)' = Held(q)
  BY DEF Held, serverVars
<1> QED  BY <1>1 DEF Quiet, epollVars, serverVars, sockVars, peerVars

LEMMA ClientQuiet ==
  ASSUME NEW c \in Conn, Send(c) \/ Drain(c)
  PROVE  Quiet
<1>1. UNCHANGED <<epollVars, serverVars, backlog, sock, gone, eof, reset>>
  BY DEF Send, Drain
<1>2. \A q \in Coroutine : Held(q)' = Held(q)
  BY <1>1 DEF Held, serverVars
<1> QED  BY <1>1, <1>2 DEF Quiet, epollVars, serverVars

LEMMA CoroutineQuiet ==
  ASSUME IInv, NEW r \in Coroutine, CoroutineStep(r)
  PROVE  Quiet
<1>1. CASE MakeChannel(r)
  BY <1>1, QuietStep DEF MakeChannel, E!Construct, sockVars, peerVars, Label
<1>2. CASE AddEpoll(r)
  BY <1>2, QuietStep DEF AddEpoll, E!UpdateChannel, E!Fail, sockVars, peerVars, Label
<1>3. CASE LeaveEpoll(r)
  <2>1. GoTo(r, "left") \/ GoTo(r, "read")
    BY <1>3 DEF LeaveEpoll
  <2>2. UNCHANGED <<tskfd, cur, open, backlog, sock, gone, eof, reset>> /\ pc[r] # "hand"
    BY <1>3 DEF LeaveEpoll, Withdraw, E!RemoveChannel, E!Fail, sockVars, peerVars
  <2>3. "left" \in Label \ {"hand"} /\ "read" \in Label \ {"hand"}
    BY DEF Label
  <2> QED  BY <2>1, <2>2, <2>3, QuietStep
<1> QED  BY <1>1, <1>2, <1>3 DEF CoroutineStep

LEMMA ReadWriteQuiet ==
  ASSUME IInv, NEW r \in RW, ReadWriteStep(r)
  PROVE  Quiet \/ Closes(r)
<1>1. r \in Coroutine
  BY Names
<1>2. CASE Top(r) /\ tskfd[r] = NoFd
  <2>1. UNCHANGED <<pc, tskfd, cur, epollVars, sockVars>> /\ pc[r] # "hand"
    BY <1>2 DEF Top
  <2>2. "top" \in Label \ {"hand"}
    BY DEF Label
  <2> QED  BY <1>1, <2>1, <2>2, QuietStep DEF epollVars, sockVars, peerVars
<1>3. CASE Top(r) /\ tskfd[r] # NoFd
  <2>1. /\ pc[r] = "top"
        /\ cur' = [cur EXCEPT ![r] = tskfd[r]]
        /\ tskfd' = [tskfd EXCEPT ![r] = NoFd]
        /\ pc' = [pc EXCEPT ![r] = "make"]
        /\ UNCHANGED <<epollVars, sockVars>>
    BY <1>3 DEF Top, Consumed, GoTo
  <2>2. /\ pc \in [Coroutine -> Label] /\ cur \in [Coroutine -> ConnFd \cup {NoFd}]
        /\ tskfd \in [RW -> ConnFd \cup {NoFd}]
    BY DEF IInv, Typed
  <2>3. cur[r] = NoFd
    BY <2>1 DEF IInv, WorkerRight
  <2>4. \A q \in Coroutine : q = r => Held(q)' = Held(q)
    BY <2>1, <2>2, <2>3 DEF Held
  <2>5. \A q \in Coroutine : q # r => Held(q)' = Held(q)
    BY <2>1, <2>2 DEF Held
  <2>6. pc'[Acceptor] = pc[Acceptor]
    BY <2>1, <2>2, Names
  <2> QED  BY <2>1, <2>4, <2>5, <2>6 DEF Quiet, epollVars, sockVars, peerVars
<1>4. CASE Read(r)
  <2>1. GoTo(r, "write") \/ GoTo(r, "close") \/ GoTo(r, "make")
    BY <1>4 DEF Read
  <2>2. UNCHANGED <<tskfd, cur, open, backlog, sock, gone, eof, reset>> /\ pc[r] # "hand"
    BY <1>4 DEF Read, E!Destroy, epollVars
  <2>3. {"write", "close", "make"} \subseteq Label \ {"hand"}
    BY DEF Label
  <2> QED  BY <1>1, <2>1, <2>2, <2>3, QuietStep
<1>5. CASE Write(r)
  <2>1. GoTo(r, "make") \/ GoTo(r, "close") \/ UNCHANGED pc
    BY <1>5 DEF Write
  <2>2. UNCHANGED <<tskfd, cur, open, backlog, sock, gone, eof, reset>> /\ pc[r] # "hand"
    BY <1>5 DEF Write, E!Destroy, epollVars
  <2>3. {"close", "make"} \subseteq Label \ {"hand"}
    BY DEF Label
  <2> QED  BY <1>1, <2>1, <2>2, <2>3, QuietStep
<1>6. CASE CloseConn(r) /\ ~Closes(r)
  <2>1. /\ pc[r] = "break" /\ E!Destroy(r) /\ GoTo(r, "top")
        /\ UNCHANGED <<tskfd, cur, sockVars>>
    BY <1>6 DEF CloseConn, Closes
  <2>2. "top" \in Label \ {"hand"}
    BY DEF Label
  <2> QED  BY <1>1, <2>1, <2>2, QuietStep DEF E!Destroy, sockVars, peerVars
<1> QED  BY <1>2, <1>3, <1>4, <1>5, <1>6 DEF ReadWriteStep

LEMMA AcceptQuiet ==
  ASSUME IInv, AcceptStep
  PROVE  Quiet \/ Accepts \/ Drop \/ HandOver
<1>1. CASE Accept /\ ~Accepts
  <2>1. /\ pc[Acceptor] # "hand" /\ GoTo(Acceptor, "make")
        /\ UNCHANGED <<tskfd, cur, epollVars, backlog, sock, gone, peerVars>>
    BY <1>1 DEF Accept, Accepts
  <2>2. "make" \in Label \ {"hand"}
    BY DEF Label
  <2> QED  BY <2>1, <2>2, Names, QuietStep DEF epollVars, peerVars
<1>2. CASE AcceptAgain
  <2>1. /\ pc[Acceptor] # "hand" /\ GoTo(Acceptor, "accept") /\ E!Destroy(Acceptor)
        /\ UNCHANGED <<tskfd, cur, sockVars>>
    BY <1>2 DEF AcceptAgain
  <2>2. "accept" \in Label \ {"hand"}
    BY DEF Label
  <2> QED  BY <2>1, <2>2, Names, QuietStep DEF E!Destroy, sockVars, peerVars
<1> QED  BY <1>1, <1>2 DEF AcceptStep

(* The steps that are not quiet. *)
LEMMA Steps ==
  ASSUME IInv, [Next]_vars
  PROVE  \/ Quiet
         \/ \E c \in Conn : Connect(c) \/ Shutdown(c) \/ Reset(c)
         \/ Accepts \/ Drop \/ HandOver
         \/ \E r \in RW : Closes(r)
<1>1. CASE Client
  BY <1>1, ClientQuiet DEF Client
<1>2. CASE Server
  <2>1. ASSUME MainStep PROVE Quiet
    BY <2>1, MainQuiet
    DEF MainStep, StartRoutine, EnterLoop, Poll, Dispatch, HandleRead, RunTimer
  <2> QED  BY <1>2, <2>1, CoroutineQuiet, AcceptQuiet, ReadWriteQuiet DEF Server
<1>3. CASE UNCHANGED vars
  BY <1>3, MainQuiet DEF vars
<1> QED  BY <1>1, <1>2, <1>3 DEF Next

-----------------------------------------------------------------------------
(* What is closed, and when.                                               *)

(* The steps that close a descriptor. *)
LEMMA ClosingSteps ==
  ASSUME IInv, [Next]_vars, NEW fd \in open \ open'
  PROVE  \/ Drop /\ fd = cur[Acceptor] /\ fd \in Held(Acceptor)
         \/ \E r \in RW : Closes(r) /\ fd = cur[r] /\ fd \in Held(r)
<1>1. CASE Quiet \/ \E c \in Conn : Connect(c) \/ Shutdown(c) \/ Reset(c)
  BY <1>1 DEF Quiet, Connect, Shutdown, Reset, epollVars
<1>2. CASE Accepts \/ HandOver
  BY <1>2 DEF Accepts, Accept, HandOver, E!Open, epollVars
<1>3. CASE Drop
  <2>1. fd = cur[Acceptor]
    BY <1>3 DEF Drop, CloseFd, E!Close
  <2>2. cur[Acceptor] # NoFd
    BY <1>3 DEF Drop, IInv, AcceptorRight
  <2> QED  BY <1>3, <2>1, <2>2 DEF Held
<1>4. ASSUME NEW r \in RW, Closes(r)
      PROVE  fd = cur[r] /\ fd \in Held(r)
  <2>1. fd = cur[r]
    BY <1>4 DEF Closes, CloseFd, E!Close
  <2>2. cur[r] # NoFd
    BY <1>4, Serving, PollerTyped, PollerAssumption DEF Closes, IInv
  <2> QED  BY <2>1, <2>2 DEF Held
<1> QED  BY <1>1, <1>2, <1>3, <1>4, Steps

(* Two routines do not hold one descriptor. *)
LEMMA OneHolder ==
  ASSUME IInv, NEW r \in Coroutine, NEW s \in Coroutine, NEW fd, fd \in Held(r), fd \in Held(s)
  PROVE  r = s
BY DEF IInv, FdsRight

LEMMA EchoedStep ==
  ASSUME IInv, [Next]_vars, NEW r \in RW, cur[r] \in open \ open'
  PROVE  sock[cur[r]] \in reset \/ unread[sock[cur[r]]] = 0
<1> DEFINE fd == cur[r]
<1>1. fd \in Held(r)
  BY PollerTyped, PollerAssumption DEF Held, IInv
<1>2. CASE Drop /\ fd = cur[Acceptor] /\ fd \in Held(Acceptor)
  BY <1>1, <1>2, OneHolder, Names
<1>3. ASSUME NEW q \in RW, Closes(q), fd = cur[q], fd \in Held(q)
      PROVE  sock[fd] \in reset \/ unread[sock[fd]] = 0
  <2>1. pc[r] = "close"
    BY <1>1, <1>3, OneHolder, Names DEF Closes
  <2> QED  BY <2>1 DEF IInv, ClosingRight
<1> QED  BY <1>2, <1>3, ClosingSteps

(* A connection that was not reset is closed by its routine only when all  *)
(* that the client sent has been read: nothing arrives behind the end of   *)
(* the stream that read() reported, although the routine has not closed    *)
(* the descriptor yet.                                                     *)
THEOREM Echoes == Spec => EchoesAll
<1>1. ASSUME IInv, [Next]_vars
      PROVE  [\A r \in RW : cur[r] \in open \ open'
                => sock[cur[r]] \in reset \/ unread[sock[cur[r]]] = 0]_vars
  BY <1>1, EchoedStep
<1> QED  BY <1>1, Invariance, PTL DEF Spec, EchoesAll

(* While the accept routine runs, a read-write routine that is not in      *)
(* g_readwrite waits for its client.                                       *)
LEMMA Busy ==
  ASSUME IInv, Running = Acceptor, NEW r \in RW, ~InPool(r)
  PROVE  Held(r) # {}
<1>1. OnStack(Acceptor) /\ ~OnStack(r)
  BY CoroutineRuns, Names DEF IInv
<1>2. start[r]
  BY <1>1, Names DEF IInv, StartRight
<1>3. pc[r] = "wait"
  BY <1>1, <1>2 DEF IInv, WorkerRight
<1>4. cur[r] # NoFd
  BY <1>3 DEF IInv, WorkerRight
<1> QED  BY <1>4 DEF Held

LEMMA DroppedStep ==
  ASSUME IInv, [Next]_vars, NEW fd \in ConnFd, fd \in open \ open', sock[fd] \notin eof \cup reset,
         NEW r \in RW
  PROVE  Held(r) # {}
<1>1. ASSUME Drop PROVE Held(r) # {}
  <2>1. Running = Acceptor /\ pool = <<>>
    BY <1>1 DEF Drop
  <2>2. ~InPool(r)
    BY <2>1, EmptyList DEF InPool
  <2> QED  BY <2>1, <2>2, Busy
<1>2. ASSUME NEW q \in RW, Closes(q), fd = cur[q] PROVE FALSE
  BY <1>2 DEF Closes, IInv, ClosingRight
<1> QED  BY <1>1, <1>2, ClosingSteps

(* A connection whose client is not done is closed only if every routine   *)
(* serves another: none of them is idle and none has been lost.            *)
THEOREM TurnsAwayWhenBusy == Spec => DropsOnlyWhenBusy
<1>1. ASSUME IInv, [Next]_vars
      PROVE  [\A fd \in ConnFd : fd \in open \ open' /\ sock[fd] \notin eof \cup reset
                => \A r \in RW : Held(r) # {}]_vars
  BY <1>1, DroppedStep
<1> QED  BY <1>1, Invariance, PTL DEF Spec, DropsOnlyWhenBusy

-----------------------------------------------------------------------------
(* The server implements the pool of workers.                              *)

AbsQueue == IF pc[Acceptor] = "hand" THEN <<ConnOf(Acceptor)>> \o backlog ELSE backlog
AbsServes == [r \in RW |-> ConnOf(r)]

(* The connection of a routine. *)
LEMMA ConnOfOne ==
  ASSUME NEW r \in Coroutine, NEW fd
  PROVE  /\ Held(r) = {fd} => ConnOf(r) = sock[fd]
         /\ Held(r)' = {fd} => ConnOf(r)' = sock'[fd]
         /\ Held(r) = {} => ConnOf(r) = NoConn
         /\ Held(r)' = {} => ConnOf(r)' = NoConn
BY DEF ConnOf

LEMMA Served ==
  ASSUME IInv, NEW r \in Coroutine
  PROVE  \/ Held(r) = {} /\ ConnOf(r) = NoConn
         \/ \E fd \in ConnFd : /\ Held(r) = {fd} /\ fd \in open
                               /\ ConnOf(r) = sock[fd] /\ sock[fd] \in Conn
<1>1. CASE Held(r) = {}
  BY <1>1, ConnOfOne
<1>2. ASSUME NEW fd \in ConnFd, Held(r) = {fd}
      PROVE  fd \in open /\ ConnOf(r) = sock[fd] /\ sock[fd] \in Conn
  <2>1. fd \in open
    BY <1>2, OwnDescriptor
  <2>2. sock[fd] \in Conn
    BY <2>1 DEF IInv, ConnRight, Typed
  <2> QED  BY <1>2, <2>1, <2>2, ConnOfOne
<1> QED  BY <1>1, <1>2, HoldsOne

LEMMA ConnKept ==
  ASSUME IInv, NEW r \in Coroutine, Held(r)' = Held(r), \A fd \in Held(r) : sock'[fd] = sock[fd]
  PROVE  ConnOf(r)' = ConnOf(r)
<1>1. CASE Held(r) = {}
  BY <1>1, ConnOfOne
<1>2. ASSUME NEW fd \in ConnFd, Held(r) = {fd}
      PROVE  ConnOf(r)' = ConnOf(r)
  BY <1>2, ConnOfOne
<1> QED  BY <1>1, <1>2, HoldsOne

(* A routine has a connection of its own. *)
LEMMA HolderHas ==
  ASSUME IInv, NEW r \in Coroutine, pc[r] \in {"hand", "close"}
  PROVE  /\ cur[r] \in ConnFd /\ cur[r] \in open /\ Held(r) = {cur[r]}
         /\ ConnOf(r) = sock[cur[r]] /\ sock[cur[r]] \in Conn
<1>1. cur[r] # NoFd
  BY Names DEF IInv, AcceptorRight, WorkerRight
<1>2. cur[r] \in Held(r)
  BY <1>1 DEF Held
<1> QED  BY <1>2, Served

(* The routines keep their connections when another one's is closed. *)
LEMMA OthersKeep ==
  ASSUME IInv, NEW r \in Coroutine, NEW q \in Coroutine, q # r, pc[r] \in {"hand", "close"},
         cur' = [cur EXCEPT ![r] = NoFd], UNCHANGED tskfd,
         sock' = [sock EXCEPT ![cur[r]] = NoConn]
  PROVE  ConnOf(q)' = ConnOf(q)
<1>1. Held(q)' = Held(q)
  BY DEF Held, IInv, Typed
<1>2. \A fd \in Held(q) : fd \in ConnFd /\ fd # cur[r]
  BY HolderHas, OneHolder, OwnDescriptor
<1>3. \A fd \in Held(q) : sock'[fd] = sock[fd]
  BY <1>2 DEF IInv, Typed
<1> QED  BY <1>1, <1>3, ConnKept

LEMMA QueueTyped ==
  ASSUME IInv
  PROVE  /\ backlog \in Seq(Conn) /\ AbsQueue \in Seq(Conn)
         /\ pc[Acceptor] = "hand" =>
               /\ AbsQueue # <<>> /\ Head(AbsQueue) = ConnOf(Acceptor) /\ Tail(AbsQueue) = backlog
<1>1. backlog \in Seq(Conn)
  BY DEF IInv, Typed
<1>2. pc[Acceptor] = "hand" => ConnOf(Acceptor) \in Conn
  BY HolderHas, Names
<1> QED  BY <1>1, <1>2, Prefixed DEF AbsQueue

LEMMA InitImplements == Init => Abs!Init
<1> SUFFICES ASSUME Init PROVE Abs!Init
  OBVIOUS
<1>1. \A r \in Coroutine : Held(r) = {}
  BY Names DEF Init, Held
<1>2. \A r \in RW : ConnOf(r) = NoConn
  BY <1>1, ConnOfOne, Names
<1>3. pc[Acceptor] # "hand"
  BY Names DEF Init
<1> QED  BY <1>2, <1>3 DEF Init, Abs!Init

LEMMA QuietImplements ==
  ASSUME IInv, Quiet
  PROVE  UNCHANGED Abs!vars
<1>1. \A r \in Coroutine : ConnOf(r)' = ConnOf(r)
  BY ConnKept DEF Quiet
<1> QED  BY <1>1, Names DEF Quiet, Abs!vars

(* A connection arrives. *)
LEMMA ConnectImplements ==
  ASSUME IInv, NEW c \in Conn, Connect(c)
  PROVE  Abs!Arrive(c)
<1>1. /\ ~Known(c) /\ backlog' = Append(backlog, c)
      /\ UNCHANGED <<serverVars, sock, gone, eof, reset>>
  BY DEF Connect, peerVars
<1>2. \A r \in Coroutine : ConnOf(r) # c
  <2> SUFFICES ASSUME NEW r \in Coroutine PROVE ConnOf(r) # c
    OBVIOUS
  <2>1. \A fd \in ConnFd : sock[fd] # c
    BY <1>1 DEF Known, Range, IInv, Typed
  <2>2. NoConn # c
    BY TcpServerAssumption
  <2> QED  BY <2>1, <2>2, Served
<1>3. c \notin gone /\ c \notin ToSet(backlog)
  BY <1>1 DEF Known
<1>4. c \notin ToSet(AbsQueue)
  <2>1. CASE pc[Acceptor] = "hand"
    <3>1. ConnOf(Acceptor) \in Conn
      BY <2>1, HolderHas, Names
    <3>2. AbsQueue = <<ConnOf(Acceptor)>> \o backlog
      BY <2>1 DEF AbsQueue
    <3> QED  BY <1>2, <1>3, <3>1, <3>2, Prefixed, QueueTyped, Names
  <2> QED  BY <1>3, <2>1 DEF AbsQueue
<1>5. \A r \in Coroutine : ConnOf(r)' = ConnOf(r)
  <2>1. \A r \in Coroutine : Held(r)' = Held(r)
    BY <1>1 DEF Held, serverVars
  <2> QED  BY <1>1, <2>1, ConnKept
<1>6. AbsQueue' = Append(AbsQueue, c)
  <2>1. CASE pc[Acceptor] = "hand"
    <3>1. ConnOf(Acceptor) \in Conn /\ ConnOf(Acceptor)' = ConnOf(Acceptor)
      BY <1>5, <2>1, HolderHas, Names
    <3>2. AbsQueue' = <<ConnOf(Acceptor)>> \o Append(backlog, c)
      BY <1>1, <2>1, <3>1 DEF AbsQueue, serverVars
    <3>3. AbsQueue = <<ConnOf(Acceptor)>> \o backlog
      BY <2>1 DEF AbsQueue
    <3> QED  BY <3>1, <3>2, <3>3, Prefixed, QueueTyped
  <2> QED  BY <1>1, <2>1 DEF AbsQueue, serverVars
<1>7. ~Abs!Known(c)
  <2>1. \A i \in 1 .. Len(AbsQueue) : AbsQueue[i] # c
    BY <1>4, QueueTyped, InToSet
  <2> QED  BY <1>2, <1>3, <2>1, Names DEF Abs!Known, AbsQueue
<1> QED  BY <1>1, <1>5, <1>6, <1>7, Names DEF Abs!Arrive, AbsQueue

(* A client is done. *)
LEMMA DoneImplements ==
  ASSUME IInv, NEW c \in Conn, Shutdown(c) \/ Reset(c)
  PROVE  Abs!Done(c) \/ UNCHANGED Abs!vars
<1>1. UNCHANGED <<serverVars, backlog, sock, gone>>
  BY DEF Shutdown, Reset
<1>2. \A r \in Coroutine : ConnOf(r)' = ConnOf(r)
  <2>1. \A r \in Coroutine : Held(r)' = Held(r)
    BY <1>1 DEF Held, serverVars
  <2> QED  BY <1>1, <2>1, ConnKept
<1>3. \/ c \notin eof \cup reset /\ eof' \cup reset' = (eof \cup reset) \cup {c}
      \/ eof' \cup reset' = eof \cup reset
  BY DEF Shutdown, Reset
<1> QED  BY <1>1, <1>2, <1>3, Names DEF Abs!Done, Abs!vars, serverVars

(* accept() takes the head of the queue, which nobody serves yet. *)
LEMMA AcceptImplements ==
  ASSUME IInv, Accepts
  PROVE  UNCHANGED Abs!vars
<1> DEFINE fd == LowestFree
<1>1. fd \in ConnFd /\ fd \notin open
  BY LowestIsFree DEF Accepts
<1>2. /\ pc[Acceptor] = "accept" /\ backlog # <<>>
      /\ sock' = [sock EXCEPT ![fd] = Head(backlog)]
      /\ backlog' = Tail(backlog)
      /\ cur' = [cur EXCEPT ![Acceptor] = fd]
      /\ pc' = [pc EXCEPT ![Acceptor] = "hand"]
      /\ UNCHANGED <<tskfd, gone, eof, reset>>
  BY DEF Accepts, Accept, GoTo, peerVars
<1> HIDE DEF fd
<1>3. /\ pc'[Acceptor] = "hand" /\ cur'[Acceptor] = fd /\ sock'[fd] = Head(backlog)
      /\ \A q \in Coroutine : q # Acceptor => cur'[q] = cur[q]
      /\ \A g \in ConnFd : g # fd => sock'[g] = sock[g]
  BY <1>1, <1>2, Names DEF IInv, Typed
<1>4. ConnOf(Acceptor)' = Head(backlog)
  <2>1. fd # NoFd
    BY <1>1, TcpServerAssumption
  <2>2. Held(Acceptor)' = {fd}
    BY <1>3, <2>1, Names DEF Held
  <2> QED  BY <1>3, <2>2, ConnOfOne, Names
<1>5. \A r \in RW : ConnOf(r)' = ConnOf(r)
  <2> SUFFICES ASSUME NEW r \in RW PROVE ConnOf(r)' = ConnOf(r)
    OBVIOUS
  <2>1. r \in Coroutine /\ Held(r)' = Held(r)
    BY <1>2, <1>3, Names DEF Held
  <2>2. \A g \in Held(r) : sock'[g] = sock[g]
    BY <1>1, <1>3, <2>1, OwnDescriptor
  <2> QED  BY <2>1, <2>2, ConnKept
<1>6. AbsQueue' = AbsQueue
  <2>1. AbsQueue' = <<Head(backlog)>> \o Tail(backlog)
    BY <1>2, <1>3, <1>4 DEF AbsQueue
  <2>2. Head(backlog) \in Conn
    BY <1>2, QueueTyped, HeadTailProperties
  <2>3. AbsQueue = backlog
    BY <1>2 DEF AbsQueue
  <2> QED  BY <1>2, <2>1, <2>2, <2>3, QueueTyped, Prefixed
<1> QED  BY <1>2, <1>5, <1>6 DEF AbsQueue, Abs!vars

(* Drop turns the head of the queue away. *)
LEMMA DropImplements ==
  ASSUME IInv, Drop
  PROVE  Abs!TurnAway
<1> DEFINE c == sock[cur[Acceptor]]
<1>1. /\ Running = Acceptor /\ pc[Acceptor] = "hand" /\ pool = <<>>
      /\ gone' = gone \cup {c} /\ sock' = [sock EXCEPT ![cur[Acceptor]] = NoConn]
      /\ eof' = eof \ {c} /\ reset' = reset \ {c}
      /\ backlog' = backlog
      /\ cur' = [cur EXCEPT ![Acceptor] = NoFd]
      /\ pc' = [pc EXCEPT ![Acceptor] = "accept"]
      /\ UNCHANGED tskfd
  BY DEF Drop, CloseFd, GoTo
<1>2. ConnOf(Acceptor) = c /\ Acceptor \in Coroutine /\ pc'[Acceptor] = "accept"
  BY <1>1, HolderHas, Names DEF IInv, Typed
<1> HIDE DEF c
<1>3. \A r \in RW : ConnOf(r)' = ConnOf(r)
  BY <1>1, OthersKeep, Names
<1>4. \A r \in RW : ConnOf(r) # NoConn
  <2> SUFFICES ASSUME NEW r \in RW PROVE ConnOf(r) # NoConn
    OBVIOUS
  <2>1. Held(r) # {}
    BY <1>1, EmptyList, Busy DEF InPool
  <2> QED  BY <2>1, Served, Names, TcpServerAssumption
<1>5. AbsQueue # <<>> /\ Head(AbsQueue) = c /\ Tail(AbsQueue) = backlog
  BY <1>1, <1>2, QueueTyped
<1>6. AbsQueue' = backlog
  BY <1>1, <1>2 DEF AbsQueue
<1>7. eof' \cup reset' = (eof \cup reset) \ {c}
  BY <1>1
<1> QED  BY <1>1, <1>3, <1>4, <1>5, <1>6, <1>7 DEF Abs!TurnAway, AbsQueue

(* A routine of g_readwrite takes the head of the queue. *)
LEMMA HandOverImplements ==
  ASSUME IInv, HandOver
  PROVE  \E w \in RW : Abs!Take(w)
<1> DEFINE w == Last(pool)
           fd == cur[Acceptor]
<1>1. /\ Running = Acceptor /\ pc[Acceptor] = "hand" /\ pool # <<>>
      /\ tskfd' = [tskfd EXCEPT ![w] = fd]
      /\ cur' = [cur EXCEPT ![Acceptor] = NoFd]
      /\ pc' = [pc EXCEPT ![Acceptor] = "accept"]
      /\ UNCHANGED <<backlog, sock, gone, eof, reset>>
  BY DEF HandOver, GoTo, sockVars, peerVars
<1>2. w \in RW /\ w \in ToSet(pool)
  BY <1>1, FrontTaken DEF IInv, Typed
<1> HIDE DEF w
<1>3. /\ tskfd[w] = NoFd /\ cur[w] = NoFd /\ w \in Coroutine /\ w # Acceptor
  BY <1>2, Names DEF IInv, WorkerRight, InPool
<1>4. /\ Acceptor \in Coroutine /\ fd \in ConnFd /\ fd # NoFd
      /\ ConnOf(Acceptor) = sock[fd] /\ pc'[Acceptor] = "accept"
  BY <1>1, HolderHas, Names, TcpServerAssumption DEF IInv, Typed
<1> HIDE DEF fd
<1>5. /\ tskfd'[w] = fd /\ \A q \in RW : q # w => tskfd'[q] = tskfd[q]
      /\ \A q \in RW : cur'[q] = cur[q]
  BY <1>1, <1>2, Names DEF IInv, Typed
<1>6. \A q \in RW : q = w => ConnOf(q) = NoConn /\ ConnOf(q)' = sock[fd]
  <2> SUFFICES ASSUME NEW q \in RW, q = w
               PROVE  ConnOf(q) = NoConn /\ ConnOf(q)' = sock[fd]
    OBVIOUS
  <2>1. Held(q) = {}
    BY <1>3 DEF Held
  <2>2. Held(q)' = {fd}
    BY <1>3, <1>4, <1>5 DEF Held
  <2> QED  BY <1>1, <2>1, <2>2, ConnOfOne, Names
<1>7. \A q \in RW : q # w => ConnOf(q)' = ConnOf(q)
  <2>1. \A q \in RW : q # w => Held(q)' = Held(q)
    BY <1>5 DEF Held
  <2> QED  BY <1>1, <2>1, ConnKept, Names
<1>8. AbsQueue # <<>> /\ Head(AbsQueue) = sock[fd] /\ Tail(AbsQueue) = backlog
  BY <1>1, <1>4, QueueTyped
<1>9. AbsQueue' = backlog
  BY <1>1, <1>4 DEF AbsQueue
<1>10. AbsServes' = [AbsServes EXCEPT ![w] = sock[fd]] /\ AbsServes[w] = NoConn
  BY <1>2, <1>6, <1>7 DEF AbsServes
<1>11. Abs!Take(w)
  BY <1>1, <1>8, <1>9, <1>10 DEF Abs!Take, AbsQueue, AbsServes
<1> QED  BY <1>2, <1>11

(* A routine that closes its connection is released. *)
LEMMA CloseImplements ==
  ASSUME IInv, NEW r \in RW, Closes(r)
  PROVE  Abs!Release(r)
<1> DEFINE c == sock[cur[r]]
<1>1. /\ pc[r] = "close" /\ r \in Coroutine /\ r # Acceptor
      /\ gone' = gone \cup {c} /\ sock' = [sock EXCEPT ![cur[r]] = NoConn]
      /\ eof' = eof \ {c} /\ reset' = reset \ {c}
      /\ backlog' = backlog
      /\ cur' = [cur EXCEPT ![r] = NoFd]
      /\ pc' = [pc EXCEPT ![r] = "break"]
      /\ UNCHANGED tskfd
  BY Names DEF Closes, CloseFd, GoTo
<1>2. ConnOf(r) = c /\ c \in eof \cup reset
  BY <1>1, HolderHas DEF IInv, ClosingRight
<1> HIDE DEF c
<1>3. \A q \in Coroutine : q # r => ConnOf(q)' = ConnOf(q)
  BY <1>1, OthersKeep
<1>4. \A q \in RW : q = r => ConnOf(q)' = NoConn
  <2> SUFFICES ASSUME NEW q \in RW, q = r PROVE ConnOf(q)' = NoConn
    OBVIOUS
  <2>1. cur'[q] = NoFd /\ tskfd'[q] = NoFd
    BY <1>1 DEF IInv, Typed, WorkerRight
  <2>2. Held(q)' = {}
    BY <2>1 DEF Held
  <2> QED  BY <2>2, ConnOfOne, Names
<1>5. AbsQueue' = AbsQueue
  <2>1. pc'[Acceptor] = pc[Acceptor] /\ ConnOf(Acceptor)' = ConnOf(Acceptor)
    BY <1>1, <1>3, Names DEF IInv, Typed
  <2> QED  BY <1>1, <2>1 DEF AbsQueue
<1>6. AbsServes' = [AbsServes EXCEPT ![r] = NoConn] /\ AbsServes[r] = c
  BY <1>2, <1>3, <1>4, Names DEF AbsServes
<1>7. eof' \cup reset' = (eof \cup reset) \ {c}
  BY <1>1
<1> QED  BY <1>1, <1>2, <1>5, <1>6, <1>7 DEF Abs!Release, AbsQueue, AbsServes

LEMMA StepImplements ==
  ASSUME IInv, [Next]_vars
  PROVE  [Abs!Next]_(Abs!vars)
<1>1. CASE Quiet
  BY <1>1, QuietImplements
<1>2. ASSUME NEW c \in Conn, Connect(c) \/ Shutdown(c) \/ Reset(c)
      PROVE  [Abs!Next]_(Abs!vars)
  BY <1>2, ConnectImplements, DoneImplements DEF Abs!Next
<1>3. CASE Accepts
  BY <1>3, AcceptImplements
<1>4. CASE Drop
  BY <1>4, DropImplements DEF Abs!Next, Abs!Accept
<1>5. CASE HandOver
  BY <1>5, HandOverImplements DEF Abs!Next, Abs!Accept
<1>6. ASSUME NEW r \in RW, Closes(r)
      PROVE  [Abs!Next]_(Abs!vars)
  BY <1>6, CloseImplements DEF Abs!Next
<1> QED  BY <1>1, <1>2, <1>3, <1>4, <1>5, <1>6, Steps

(* The server implements the pool of workers, but for its liveness: the    *)
(* connections are taken in their order, each by a routine that is idle    *)
(* and then serves no other until the client is done, or turned away when  *)
(* no routine is idle.                                                     *)
THEOREM Refinement == Spec => Abs!Safety
<1>1. IInv /\ [Next]_vars => [Abs!Next]_(Abs!vars)
  BY StepImplements
<1> QED  BY <1>1, InitImplements, Invariance, PTL DEF Spec, Abs!Safety

-----------------------------------------------------------------------------
(* What follows for the parts of which the server is made.                 *)

(* However many routines there are, at most three are on the call stack,   *)
(* the main routine included: CallStack_ needs no room for each of them.   *)
THEOREM StackNeverOverflows ==
  ASSUME Capacity \in Nat, 3 <= Capacity
  PROVE  Spec => []R!StackFits
<1>1. ASSUME IInv PROVE R!StackFits
  <2>1. Len(<<Main>>) = 1 /\ \A r : Len(<<Main, r>>) = 2 /\ Len(<<Main, Acceptor, r>>) = 3
    OBVIOUS
  <2>2. Len(callStack) = 1 \/ Len(callStack) = 2 \/ Len(callStack) = 3
    BY <1>1, <2>1 DEF IInv, StackShape
  <2>3. \A n \in {1, 2, 3} : n <= Capacity
    OBVIOUS
  <2>4. Len(callStack) \in {1, 2, 3}
    BY <2>2
  <2> QED  BY <2>3, <2>4 DEF R!StackFits
<1> QED  BY <1>1, Invariance, PTL

(* channels_ and the kernel's interest list agree with the channels of the *)
(* routines, and no assertion of Epoll.cpp fails, which is proved for      *)
(* every client that keeps the contract.                                   *)
THEOREM PollerCorrect == Spec => [](E!ChannelsExact /\ E!KernelAgrees /\ E!NoAssertFails)
<1>1. ASSUME IInv PROVE E!ChannelsExact /\ E!KernelAgrees /\ E!NoAssertFails
  <2>1. EP!ChannelsExact /\ EP!KernelAgrees /\ EP!NoAssertFails
    BY <1>1 DEF IInv, EP!IInv
  <2> QED  BY <2>1 DEF EP!ChannelsExact, E!ChannelsExact, EP!KernelAgrees, E!KernelAgrees,
                       EP!NoAssertFails, E!NoAssertFails, EP!Registered, E!Registered,
                       EP!Alive, E!Alive, EP!NoEntry, E!NoEntry
<1> QED  BY <1>1, Invariance, PTL

(* With fewer routines than the call stack has room for, the routines of   *)
(* the server are asymmetric coroutines: each continues where it yielded,  *)
(* and yields to the one that resumed it.                                  *)
THEOREM CoroutinesCorrect ==
  ASSUME Capacity \in Nat, IsFiniteSet(RW), Cardinality(RW) + 1 < Capacity
  PROVE  Spec => []R!ContextsValid /\ R!ImplementsCoroutine
<1>1. RP!RoutineAssumption
  <2>1. IsFiniteSet(Coroutine) /\ Cardinality(Coroutine) = Cardinality(RW) + 1
    BY Names, FS_AddElement DEF Coroutine
  <2>2. Cardinality(Coroutine) < Capacity
    BY <2>1
  <2> QED  BY <2>1, <2>2, TcpServerAssumption
           DEF RP!RoutineAssumption, RP!IsFiniteSet, IsFiniteSet, RP!Cardinality, Cardinality
<1>2. RP!Spec => []RP!ContextsValid
  BY <1>1, RP!ContextsCorrect DEF RP!ContextsCorrect
<1>3. RP!Spec => RP!ImplementsCoroutine
  BY <1>1, RP!Refinement DEF RP!Refinement
<1>4. R!Init => RP!Init
  BY DEF R!Init, RP!Init, R!AnyRoutine, RP!AnyRoutine
<1>5. [R!Next]_(R!vars) => [RP!Next]_(RP!vars)
  BY DEF R!Next, RP!Next, R!vars, RP!vars, R!Create, RP!Create, R!Resume, RP!Resume,
         R!MayResume, RP!MayResume, R!Yield, RP!Yield, R!Finish, RP!Finish, R!Swap, RP!Swap,
         R!Made, RP!Made, R!Popped, RP!Popped, R!Running, RP!Running, R!Front, RP!Front,
         R!Last, RP!Last, R!ToSet, RP!ToSet
<1>6. RP!ContextsValid => R!ContextsValid
  BY DEF R!ContextsValid, RP!ContextsValid, R!MayResume, RP!MayResume, R!ToSet, RP!ToSet
<1>7. /\ RP!Abs!Init => R!Abs!Init
      /\ [RP!Abs!Next]_(RP!Abs!vars) => [R!Abs!Next]_(R!Abs!vars)
  BY DEF R!Abs!Init, RP!Abs!Init, R!Abs!Next, RP!Abs!Next, R!Abs!vars, RP!Abs!vars,
         R!Abs!Create, RP!Abs!Create, R!Abs!Resume, RP!Abs!Resume,
         R!Abs!GiveBack, RP!Abs!GiveBack, R!PhaseOf, RP!PhaseOf, R!ResumerOf, RP!ResumerOf,
         R!OnStack, RP!OnStack, R!Running, RP!Running, R!Last, RP!Last, R!ToSet, RP!ToSet
<1>8. Spec => R!Spec
  BY Contracts DEF KeepsContracts
<1> QED  BY <1>2, <1>3, <1>4, <1>5, <1>6, <1>7, <1>8, PTL
         DEF R!Spec, RP!Spec, R!ImplementsCoroutine, RP!ImplementsCoroutine, R!Abs!Spec, RP!Abs!Spec

-----------------------------------------------------------------------------
(* How the process can die.                                                *)

(* With the timers handled last it can die of SIGPIPE alone: of a write to *)
(* a client that has shut down its side and then reset the connection.  No *)
(* event is delivered to a channel that is gone.                           *)
DiesOfSigpipe ==
  crashed /\ TimerLast =>
    \E r \in RW : Running = r /\ pc[r] = "write" /\ sock[cur[r]] \in reset \cap eof

(* The step by which it dies is such a write.                              *)
LEMMA CrashStep ==
  ASSUME IInv, [Next]_vars, ~crashed, crashed', TimerLast
  PROVE  \E r \in RW : /\ Running = r /\ pc[r] = "write" /\ sock[cur[r]] \in reset \cap eof
                       /\ UNCHANGED <<callStack, pc, cur, sock, reset, eof>>
<1>1. Server
  BY DEF Next, Client, Connect, Send, Shutdown, Reset, Drain, vars, loopVars
<1>2. CASE MainStep
  <2>1. PICK c \in Coroutine : Dispatch(c)
    BY <1>2 DEF MainStep, StartRoutine, EnterLoop, Poll, HandleRead, RunTimer, loopVars
  <2>2. Waits(c)
    BY <2>1 DEF Dispatch, IInv, EventsRight
  <2> QED  BY <2>1, <2>2 DEF Dispatch
<1>3. ASSUME NEW r \in Coroutine, CoroutineStep(r) PROVE FALSE
  BY <1>3 DEF CoroutineStep, MakeChannel, AddEpoll, LeaveEpoll, loopVars
<1>4. CASE AcceptStep
  BY <1>4 DEF AcceptStep, Accept, Drop, HandOver, AcceptAgain, loopVars
<1>5. ASSUME NEW r \in RW, ReadWriteStep(r)
      PROVE  /\ Running = r /\ pc[r] = "write" /\ sock[cur[r]] \in reset \cap eof
             /\ UNCHANGED <<callStack, pc, cur, sock, reset, eof>>
  <2>1. Write(r)
    BY <1>5 DEF ReadWriteStep, Top, Read, CloseConn, loopVars
  <2> QED  BY <2>1 DEF Write, routineVars
<1> QED  BY <1>1, <1>2, <1>3, <1>4, <1>5 DEF Server

(* If the timers are handled last, the process dies only of a write to a   *)
(* connection whose client has shut it down and then reset it.             *)
THEOREM DiesOnlyOfSigpipe == Spec => []DiesOfSigpipe
<1>1. Init => DiesOfSigpipe
  BY DEF Init, DiesOfSigpipe
<1>2. ASSUME IInv, DiesOfSigpipe, [Next]_vars PROVE DiesOfSigpipe'
  <2>1. CASE crashed
    <3>1. UNCHANGED vars
      BY <1>2, <2>1 DEF Next, Client, Server
    <3> QED  BY <1>2, <3>1 DEF DiesOfSigpipe, vars, routineVars, serverVars, loopVars, sockVars,
                               peerVars, Running, R!Running, R!Last
  <2>2. CASE ~crashed
    <3> SUFFICES ASSUME crashed', TimerLast
                 PROVE  (\E r \in RW : Running = r /\ pc[r] = "write"
                                       /\ sock[cur[r]] \in reset \cap eof)'
      BY DEF DiesOfSigpipe
    <3>1. PICK r \in RW : /\ Running = r /\ pc[r] = "write" /\ sock[cur[r]] \in reset \cap eof
                          /\ UNCHANGED <<callStack, pc, cur, sock, reset, eof>>
      BY <1>2, <2>2, CrashStep
    <3>2. Running' = Running
      BY <3>1 DEF Running, R!Running, R!Last
    <3> QED  BY <3>1, <3>2
  <2> QED  BY <2>1, <2>2
<1> QED  BY <1>1, <1>2, Invariance, PTL DEF Spec
=============================================================================
