----------------------------- MODULE TcpServer -----------------------------
(***************************************************************************)
(* The echo server (TcpServer.cpp) on top of the coroutines (Routine), the *)
(* channels and the poller (Epoll) and the event loop (EventLoop.cpp).     *)
(*                                                                         *)
(* One thread runs main(), which starts the routines and then the loop,    *)
(* the accept routine and the read-write routines.  The kernel and the     *)
(* clients act between any two of their steps.  A Channel lives on the     *)
(* stack of the routine that makes it, always at the same address, so the  *)
(* routine names it.                                                       *)
(*                                                                         *)
(* Time is abstract: all waits are equally long (3 s), so their timers are *)
(* kept in the order of registration, and when the timerfd fires those of  *)
(* some prefix have expired.  Module TimeHeap has the timers themselves.   *)
(***************************************************************************)
EXTENDS Naturals, FiniteSets, Sequences, SequencesExt

CONSTANTS RW,        (* the read-write routines: routineNum_ of them       *)
          Acceptor,  (* the accept routine                                 *)
          Main,      (* the main routine                                   *)
          NoRoutine, (* no routine                                         *)
          Capacity,  (* length of CallStack_                               *)
          ConnFd,    (* the numbers accept may return: a bound             *)
          ListenFd,  (* g_listen_fd                                        *)
          TimerFd,   (* timerfd_                                           *)
          NoFd,      (* the value -1 of task_t::fd                         *)
          TimerChan, (* timerfdChannel_                                    *)
          NoChannel, (* no channel                                         *)
          Conn,      (* the connections clients make: a bound              *)
          Resets,    (* those that the client may reset: a bound           *)
          Slow,      (* those that may leave what they are sent: a bound   *)
          NoConn,    (* no connection                                      *)
          MaxData,   (* bound on the chunks that wait to be read           *)
          TimerLast  (* whether epoll_wait reports the timerfd last        *)

Coroutine == RW \cup {Acceptor}

(* Different names are different things; descriptors are numbers, of which *)
(* accept takes the lowest that is free.                                   *)
ASSUME TcpServerAssumption ==
  /\ Acceptor \notin RW
  /\ Main \notin Coroutine
  /\ NoRoutine \notin Coroutine \cup {Main}
  /\ TimerChan \notin Coroutine
  /\ NoChannel \notin Coroutine \cup {TimerChan}
  /\ ConnFd \subseteq Nat
  /\ ListenFd \notin ConnFd /\ TimerFd \notin ConnFd /\ ListenFd # TimerFd
  /\ NoFd \notin ConnFd \cup {ListenFd, TimerFd}
  /\ NoConn \notin Conn
  /\ MaxData \in Nat
  /\ TimerLast \in BOOLEAN

VARIABLES callStack, created, start, end, ctx,                  (* Routine *)
          open, fdOf, events, index, channels, interest, failed (* Epoll   *)

routineVars == <<callStack, created, start, end, ctx>>
epollVars == <<open, fdOf, events, index, channels, interest, failed>>

R == INSTANCE Routine WITH Routine <- Coroutine
E == INSTANCE Epoll WITH Channel <- Coroutine \cup {TimerChan},
                         Fd <- ConnFd \cup {ListenFd, TimerFd}

VARIABLES
  (* the server *)
  pc,        (* where each coroutine is in its function                    *)
  tskfd,     (* task_t::fd of each read-write routine                      *)
  cur,       (* the local variable fd of each routine                      *)
  pool,      (* g_readwrite, its top last                                  *)
  (* the loop *)
  looping,   (* main() is in eventloop.loop()                              *)
  active,    (* activeChannels_ that are still to be handled               *)
  timers,    (* the routines that have a timer, the earliest first         *)
  handling,  (* the loop is in TimeHeap::handleRead                        *)
  expired,   (* the routines whose expired timer it has still to run       *)
  crashed,   (* the process has died: of a memory error or of SIGPIPE      *)
  (* the kernel's sockets *)
  backlog,   (* the connections that wait for accept                       *)
  sock,      (* the connection of each descriptor                          *)
  gone,      (* the connections that the server has closed                 *)
  unread,    (* the chunks of each connection that wait to be read         *)
  eof,       (* the connections whose client has shut down its side        *)
  reset,     (* the connections that the client has reset                  *)
  full       (* the connections whose send buffer is full                  *)

serverVars == <<pc, tskfd, cur, pool>>
loopVars == <<looping, active, timers, handling, expired, crashed>>
peerVars == <<unread, eof, reset, full>>
sockVars == <<backlog, sock, gone, peerVars>>
vars == <<routineVars, epollVars, serverVars, loopVars, sockVars>>

Running == R!Running
Label == {"top", "make", "add", "wait", "left", "accept", "hand",
          "read", "write", "close", "break"}

(* After the constructors of TcpServer, EventLoop, Epoll and TimeHeap: the *)
(* listening socket is open, and the timerfd is watched.                   *)
Init == /\ R!Init
        /\ open = {ListenFd, TimerFd}
        /\ fdOf = [c \in Coroutine \cup {TimerChan} |-> IF c = TimerChan THEN TimerFd ELSE NoFd]
        /\ events = [c \in Coroutine \cup {TimerChan} |-> IF c = TimerChan THEN {"in"} ELSE {}]
        /\ index = [c \in Coroutine \cup {TimerChan} |-> IF c = TimerChan THEN "added" ELSE "new"]
        /\ channels = [fd \in ConnFd \cup {ListenFd, TimerFd} |->
                         IF fd = TimerFd THEN TimerChan ELSE NoChannel]
        /\ interest = [fd \in ConnFd \cup {ListenFd, TimerFd} |->
                         IF fd = TimerFd THEN [ptr |-> TimerChan, events |-> {"in"}] ELSE E!NoEntry]
        /\ failed = FALSE
        /\ pc = [r \in Coroutine |-> IF r = Acceptor THEN "accept" ELSE "top"]
        /\ tskfd = [r \in RW |-> NoFd]
        /\ cur = [r \in Coroutine |-> NoFd]
        /\ pool = <<>>
        /\ looping = FALSE
        /\ active = {}
        /\ timers = <<>>
        /\ handling = FALSE
        /\ expired = <<>>
        /\ crashed = FALSE
        /\ backlog = <<>>
        /\ sock = [fd \in ConnFd |-> NoConn]
        /\ gone = {}
        /\ unread = [c \in Conn |-> 0]
        /\ eof = {}
        /\ reset = {}
        /\ full = {}

-----------------------------------------------------------------------------
(* The clients.                                                            *)

Known(c) == c \in ToSet(backlog) \cup Range(sock) \cup gone

Connect(c) == /\ ~Known(c)
              /\ backlog' = Append(backlog, c)
              /\ UNCHANGED <<routineVars, epollVars, serverVars, loopVars, sock, gone, peerVars>>

Send(c) == /\ Known(c) /\ c \notin gone \cup eof \cup reset
           /\ unread[c] < MaxData
           /\ unread' = [unread EXCEPT ![c] = @ + 1]
           /\ UNCHANGED <<routineVars, epollVars, serverVars, loopVars, backlog, sock, gone, eof, reset, full>>

(* The client sends no more; it still reads. *)
Shutdown(c) == /\ Known(c) /\ c \notin gone \cup eof \cup reset
               /\ eof' = eof \cup {c}
               /\ UNCHANGED <<routineVars, epollVars, serverVars, loopVars, backlog, sock, gone, unread, reset, full>>

(* The client closes its socket with data in it, or answers what it is     *)
(* sent after a close; the kernel then drops what was to be sent.          *)
Reset(c) == /\ Known(c) /\ c \in Resets \ (gone \cup reset)
            /\ reset' = reset \cup {c}
            /\ full' = full \ {c}
            /\ UNCHANGED <<routineVars, epollVars, serverVars, loopVars, backlog, sock, gone, unread, eof>>

(* The client reads what has been echoed. *)
Drain(c) == /\ c \in full
            /\ full' = full \ {c}
            /\ UNCHANGED <<routineVars, epollVars, serverVars, loopVars, backlog, sock, gone, unread, eof, reset>>

(* The sockets end with the process. *)
Client == /\ ~crashed
          /\ \E c \in Conn : Connect(c) \/ Send(c) \/ Shutdown(c) \/ Reset(c) \/ Drain(c)

-----------------------------------------------------------------------------
(* TcpServer::start.                                                       *)

(* The next routine is constructed, and resumed by the step after it: the  *)
(* read-write routines one by one, the accept routine after all of them.   *)
MayStart(r) == /\ Running = Main /\ ~looping
               /\ created = {s \in Coroutine : start[s]}
               /\ r = Acceptor => RW \subseteq created

StartRoutine ==
  \/ /\ \E r \in Coroutine : MayStart(r) /\ R!Create(r)
     /\ UNCHANGED <<epollVars, serverVars, loopVars, sockVars>>
  \/ /\ Running = Main /\ ~looping
     /\ \E r \in created : ~start[r] /\ R!Resume(r)
     /\ UNCHANGED <<epollVars, serverVars, loopVars, sockVars>>

EnterLoop == /\ Running = Main /\ ~looping
             /\ start[Acceptor]
             /\ looping' = TRUE
             /\ UNCHANGED <<routineVars, epollVars, serverVars, active, timers,
                            handling, expired, crashed, sockVars>>

-----------------------------------------------------------------------------
(* EventLoop::loop, Epoll::poll and TimeHeap::handleRead.                  *)

(* What makes each descriptor ready; the timerfd may fire once there is a  *)
(* timer.                                                                  *)
Happening(fd) ==
  IF fd = ListenFd THEN IF backlog # <<>> THEN {"in"} ELSE {}
  ELSE (IF unread[sock[fd]] > 0 \/ sock[fd] \in eof \cup reset THEN {"in"} ELSE {})
       \cup (IF sock[fd] \notin full THEN {"out"} ELSE {})

Ready == {fd \in (ConnFd \cup {ListenFd}) \cap open :
             interest[fd].events \cap Happening(fd) # {}}

Poll == /\ Running = Main /\ looping
        /\ ~handling /\ active = {}
        /\ \E T \in {{}, {interest[TimerFd].ptr}} :
             /\ timers = <<>> => T = {}
             /\ active' = {interest[fd].ptr : fd \in Ready} \cup T
        /\ active' # {}
        /\ UNCHANGED <<routineVars, epollVars, serverVars, looping, timers,
                       handling, expired, crashed, sockVars>>

(* A routine waits in addEpoll: its channel is alive and registered. *)
Waits(r) == pc[r] = "wait" /\ r \notin ToSet(callStack)

(* Mutant: the list is not cleared. *)
Handled_Not(c) == active

(* activeChannels_ once the loop has come to c. *)
Handled(c) == active \ {c}

(* Channel::handleEvent.  If the routine has left its channel since poll() *)
(* returned, the callback is a function object in a dead stack frame whose *)
(* memory has been freed: the call fails, or it calls what another channel *)
(* has put there since.                                                    *)
Dispatch(c) ==
  /\ Running = Main /\ ~handling
  /\ c \in active \ {TimerChan}
  /\ active' = Handled(c)
  /\ IF Waits(c)
     THEN R!Resume(c) /\ UNCHANGED crashed
     ELSE \/ crashed' = TRUE /\ UNCHANGED routineVars
          \/ (\E q \in Coroutine : Waits(q) /\ R!Resume(q)) /\ UNCHANGED crashed
  /\ UNCHANGED <<epollVars, serverVars, looping, timers, handling, expired, sockVars>>

HandleRead ==
  /\ Running = Main /\ ~handling
  /\ TimerChan \in active
  /\ TimerLast => active = {TimerChan}
  /\ active' = active \ {TimerChan}
  /\ handling' = TRUE
  /\ \E n \in 0 .. Len(timers) : /\ expired' = SubSeq(timers, 1, n)
                                 /\ timers' = SubSeq(timers, n + 1, Len(timers))
  /\ UNCHANGED <<routineVars, epollVars, serverVars, looping, crashed, sockVars>>

RunTimer == /\ Running = Main /\ handling
            /\ IF expired = <<>>
               THEN handling' = FALSE /\ UNCHANGED <<expired, routineVars>>
               ELSE /\ R!Resume(Head(expired))
                    /\ expired' = Tail(expired)
                    /\ UNCHANGED handling
            /\ UNCHANGED <<epollVars, serverVars, looping, active, timers, crashed, sockVars>>

-----------------------------------------------------------------------------
(* Channel::addEpoll, for the descriptor in cur[r].                        *)

GoTo(r, label) == pc' = [pc EXCEPT ![r] = label]

MakeChannel(r) ==
  /\ Running = r /\ pc[r] = "make"
  /\ E!Construct(r, IF r = Acceptor THEN ListenFd ELSE cur[r])
  /\ GoTo(r, "add")
  /\ UNCHANGED <<routineVars, tskfd, cur, pool, loopVars, sockVars>>

(* Mutant: only kWriteEvent is set. *)
Watched_Write == {"out"}

Watched == {"in", "out"}

AddEpoll(r) ==
  /\ Running = r /\ pc[r] = "add"
  /\ E!UpdateChannel(r, Watched)
  /\ timers' = Append(timers, r)
  /\ R!Yield
  /\ GoTo(r, "wait")
  /\ UNCHANGED <<tskfd, cur, pool, looping, active, handling, expired, crashed, sockVars>>

(* Mutant: the timer stays. *)
Cancelled_Not(r) == timers

(* The timers that cancel leaves. *)
Cancelled(r) == RemoveFirst(timers, r)

(* Mutant: the channel stays registered. *)
Withdraw_Not(r) == UNCHANGED epollVars

Withdraw(r) == E!RemoveChannel(r)

LeaveEpoll(r) ==
  /\ Running = r /\ pc[r] = "wait"
  /\ Withdraw(r)
  /\ timers' = Cancelled(r)
  /\ GoTo(r, IF r = Acceptor THEN "left" ELSE "read")
  /\ UNCHANGED <<routineVars, tskfd, cur, pool, looping, active, handling, expired, crashed, sockVars>>

-----------------------------------------------------------------------------
(* TcpServer::accept_routine.                                              *)

FreeFds == ConnFd \ open
LowestFree == CHOOSE fd \in FreeFds : \A g \in FreeFds : fd <= g

(* accept fails if there is no connection, and if there is no descriptor.  *)
Accept ==
  /\ Running = Acceptor /\ pc[Acceptor] = "accept"
  /\ IF backlog = <<>> \/ FreeFds = {}
     THEN GoTo(Acceptor, "make") /\ UNCHANGED <<epollVars, cur, backlog, sock>>
     ELSE /\ E!Open(LowestFree)
          /\ sock' = [sock EXCEPT ![LowestFree] = Head(backlog)]
          /\ backlog' = Tail(backlog)
          /\ cur' = [cur EXCEPT ![Acceptor] = LowestFree]
          /\ GoTo(Acceptor, "hand")
  /\ UNCHANGED <<routineVars, tskfd, pool, loopVars, gone, peerVars>>

(* The kernel forgets what it knew of the connection. *)
CloseFd(fd) == /\ E!Close(fd)
               /\ gone' = gone \cup {sock[fd]}
               /\ sock' = [sock EXCEPT ![fd] = NoConn]
               /\ unread' = [unread EXCEPT ![sock[fd]] = 0]
               /\ eof' = eof \ {sock[fd]}
               /\ reset' = reset \ {sock[fd]}
               /\ full' = full \ {sock[fd]}
               /\ UNCHANGED backlog

Drop == /\ Running = Acceptor /\ pc[Acceptor] = "hand"
        /\ pool = <<>>
        /\ CloseFd(cur[Acceptor])
        /\ cur' = [cur EXCEPT ![Acceptor] = NoFd]
        /\ GoTo(Acceptor, "accept")
        /\ UNCHANGED <<routineVars, tskfd, pool, loopVars>>

(* Mutants: top() without pop(), or the top is only cleared. *)
Popped_Not == pool
Popped_Cleared == [pool EXCEPT ![Len(pool)] = NoRoutine]

(* What is left of g_readwrite once its top has been taken. *)
Popped == Front(pool)

HandOver == /\ Running = Acceptor /\ pc[Acceptor] = "hand"
            /\ pool # <<>>
            /\ tskfd' = [tskfd EXCEPT ![Last(pool)] = cur[Acceptor]]
            /\ pool' = Popped
            /\ R!Resume(Last(pool))
            /\ cur' = [cur EXCEPT ![Acceptor] = NoFd]
            /\ GoTo(Acceptor, "accept")
            /\ UNCHANGED <<epollVars, loopVars, sockVars>>

(* The channel of the accept routine ends with the block it is made in. *)
AcceptAgain == /\ Running = Acceptor /\ pc[Acceptor] = "left"
               /\ E!Destroy(Acceptor)
               /\ GoTo(Acceptor, "accept")
               /\ UNCHANGED <<routineVars, tskfd, cur, pool, loopVars, sockVars>>

-----------------------------------------------------------------------------
(* TcpServer::readwrite_routine.                                           *)

(* Mutant: task_t::fd keeps its value. *)
Consumed_Not(r) == tskfd[r]

(* The value of task_t::fd once the routine has copied it. *)
Consumed(r) == NoFd

(* Mutant: the routine does not enter itself in g_readwrite. *)
Pushed_Not(r) == pool

Pushed(r) == Append(pool, r)

Top(r) ==
  /\ Running = r /\ pc[r] = "top"
  /\ IF tskfd[r] = NoFd
     THEN /\ pool' = Pushed(r)
          /\ R!Yield
          /\ UNCHANGED <<pc, tskfd, cur>>
     ELSE /\ cur' = [cur EXCEPT ![r] = tskfd[r]]
          /\ tskfd' = [tskfd EXCEPT ![r] = Consumed(r)]
          /\ GoTo(r, "make")
          /\ UNCHANGED <<pool, routineVars>>
  /\ UNCHANGED <<epollVars, loopVars, sockVars>>

(* Mutant: zero is taken for an empty read. *)
AtEnd_Never(c) == FALSE

AtEnd(c) == c \in eof \cup reset

(* Mutant: the end of the stream is seen before the data that precede it. *)
HasData_Late(c) == unread[c] > 0 /\ ~AtEnd(c)

HasData(c) == unread[c] > 0

(* read() returns data, the end of the stream or an error, or EAGAIN. *)
Read(r) ==
  /\ Running = r /\ pc[r] = "read"
  /\ LET c == sock[cur[r]]
     IN  \/ /\ HasData(c)
            /\ \E n \in 0 .. unread[c] - 1 : unread' = [unread EXCEPT ![c] = n]
            /\ GoTo(r, "write")
            /\ UNCHANGED epollVars
         \/ /\ ~HasData(c) /\ AtEnd(c)
            /\ GoTo(r, "close")
            /\ UNCHANGED <<epollVars, unread>>
         \/ /\ ~HasData(c) /\ ~AtEnd(c)
            /\ E!Destroy(r)
            /\ GoTo(r, "make")
            /\ UNCHANGED unread
  /\ UNCHANGED <<routineVars, tskfd, cur, pool, loopVars, backlog, sock, gone, eof, reset, full>>

(* write() sends all or part of it, or nothing (EAGAIN) if there is no     *)
(* room; in each case the routine waits again.  After a reset it fails:    *)
(* with ECONNRESET, or, if the client had shut down its side before, with  *)
(* EPIPE and SIGPIPE, which the server does not handle.                    *)
Write(r) ==
  /\ Running = r /\ pc[r] = "write"
  /\ LET c == sock[cur[r]]
     IN  \/ /\ c \notin reset
            /\ full' \in {full, full \cup ({c} \cap Slow)}
            /\ E!Destroy(r)
            /\ GoTo(r, "make")
            /\ UNCHANGED crashed
         \/ /\ c \in reset \ eof
            /\ GoTo(r, "close")
            /\ UNCHANGED <<epollVars, full, crashed>>
         \/ /\ c \in reset \cap eof
            /\ crashed' = TRUE
            /\ UNCHANGED <<epollVars, pc, full>>
  /\ UNCHANGED <<routineVars, tskfd, cur, pool, looping, active, timers, handling, expired,
                 backlog, sock, gone, unread, eof, reset>>

(* close(fd), then the end of the block of the channel. *)
CloseConn(r) ==
  \/ /\ Running = r /\ pc[r] = "close"
     /\ CloseFd(cur[r])
     /\ cur' = [cur EXCEPT ![r] = NoFd]
     /\ GoTo(r, "break")
     /\ UNCHANGED <<routineVars, tskfd, pool, loopVars>>
  \/ /\ Running = r /\ pc[r] = "break"
     /\ E!Destroy(r)
     /\ GoTo(r, "top")
     /\ UNCHANGED <<routineVars, tskfd, cur, pool, loopVars, sockVars>>

-----------------------------------------------------------------------------
MainStep == \/ StartRoutine \/ EnterLoop \/ Poll
            \/ \E c \in Coroutine : Dispatch(c)
            \/ HandleRead \/ RunTimer

CoroutineStep(r) == MakeChannel(r) \/ AddEpoll(r) \/ LeaveEpoll(r)

AcceptStep == Accept \/ Drop \/ HandOver \/ AcceptAgain

ReadWriteStep(r) == Top(r) \/ Read(r) \/ Write(r) \/ CloseConn(r)

(* The thread, which goes on as long as it has not died. *)
Server == /\ ~failed /\ ~crashed
          /\ \/ MainStep
             \/ \E r \in Coroutine : CoroutineStep(r)
             \/ AcceptStep
             \/ \E r \in RW : ReadWriteStep(r)

Next == Client \/ Server

Spec == Init /\ [][Next]_vars
FairSpec == Spec /\ WF_vars(Server)

-----------------------------------------------------------------------------
TypeOK == /\ R!TypeOK
          /\ E!TypeOK
          /\ pc \in [Coroutine -> Label]
          /\ tskfd \in [RW -> ConnFd \cup {NoFd}]
          /\ cur \in [Coroutine -> ConnFd \cup {NoFd}]
          /\ pool \in Seq(RW)
          /\ looping \in BOOLEAN
          /\ active \subseteq Coroutine \cup {TimerChan}
          /\ timers \in Seq(Coroutine)
          /\ handling \in BOOLEAN
          /\ expired \in Seq(Coroutine)
          /\ crashed \in BOOLEAN
          /\ backlog \in Seq(Conn)
          /\ sock \in [ConnFd -> Conn \cup {NoConn}]
          /\ gone \subseteq Conn
          /\ unread \in [Conn -> 0 .. MaxData]
          /\ eof \subseteq Conn
          /\ reset \subseteq Conn
          /\ full \subseteq Conn

OnStack(r) == r \in ToSet(callStack)

(* The descriptors that routine r has to close. *)
Held(r) == ({cur[r]} \cup (IF r \in RW THEN {tskfd[r]} ELSE {})) \ {NoFd}

(* Every descriptor of a connection that is open is held by exactly one    *)
(* routine, and a routine holds at most one, which is open: none is leaked *)
(* and none is closed twice or used after it was closed.                   *)
FdOwned ==
  /\ \A fd \in ConnFd : fd \in open <=> \E r \in Coroutine : fd \in Held(r)
  /\ \A r, s \in Coroutine : r # s => Held(r) \cap Held(s) = {}
  /\ \A r \in Coroutine : Cardinality(Held(r)) <= 1

(* A routine in g_readwrite is idle, as TcpServer.cpp:134 says: it is there *)
(* once, it has no descriptor, no channel and no timer and it is not        *)
(* running; and a read-write routine that has yielded is there or waits.    *)
PoolIdle ==
  /\ \A i, j \in 1 .. Len(pool) : pool[i] = pool[j] => i = j
  /\ \A r \in RW : r \in ToSet(pool) => /\ pc[r] = "top"
                                        /\ Held(r) = {}
                                        /\ ~E!Alive(r)
                                        /\ r \notin ToSet(timers) \cup ToSet(expired)
                                        /\ ~OnStack(r)
  /\ \A r \in RW : start[r] /\ ~OnStack(r) => r \in ToSet(pool) \/ Waits(r)

(* A routine that waits is watched by the kernel for its own descriptor,   *)
(* through its own channel, and has one timer: it cannot be forgotten.     *)
WaitersWatched ==
  \A r \in Coroutine : Waits(r) =>
    /\ interest[fdOf[r]] = [ptr |-> r, events |-> {"in", "out"}]
    /\ fdOf[r] = IF r = Acceptor THEN ListenFd ELSE cur[r]
    /\ \E i \in 1 .. Len(expired \o timers) : (expired \o timers)[i] = r
    /\ \A i, j \in 1 .. Len(expired \o timers) :
          (expired \o timers)[i] = r /\ (expired \o timers)[j] = r => i = j

(* Every step keeps the contracts of the coroutines and of the poller,     *)
(* which check neither: no routine is resumed that is on the call stack,   *)
(* finished or not constructed, no channel is destroyed and no descriptor  *)
(* closed while it is registered, and no descriptor is registered twice,   *)
(* so that no assertion of Epoll.cpp fails (TcpServer.cpp:114 tells of a   *)
(* time when g_listen_fd was registered twice and the server exited).      *)
KeepsContracts == R!Spec /\ [][E!Next]_(E!vars)

(* Whenever the loop goes on to the next pointer that poll() returned, the *)
(* channel it points to still exists, so that handleEvent "wakes the       *)
(* routine of the channel" (TcpServer.cpp:167).                            *)
EventsHaveChannel ==
  Running = Main /\ ~handling => \A c \in active \ {TimerChan} : E!Alive(c)

(* A connection is closed unserved only if every routine serves another.   *)
DropsOnlyWhenBusy ==
  [][\A fd \in ConnFd : fd \in open \ open' /\ sock[fd] \notin eof \cup reset
        => \A r \in RW : Held(r) # {}]_vars

(* A routine closes a connection that was not reset only after it has read *)
(* all that the client sent before its shutdown: the echo is cut short by  *)
(* a full send buffer alone.                                               *)
EchoesAll ==
  [][\A r \in RW : cur[r] \in open \ open'
        => sock[cur[r]] \in reset \/ unread[sock[cur[r]]] = 0]_vars

(* Every connection is accepted some time, and every client that is done   *)
(* sees its connection closed some time.                                   *)
Accepted == \A c \in Conn : c \in ToSet(backlog) ~> c \notin ToSet(backlog)
Closed == \A c \in Conn : c \in eof \cup reset ~> c \in gone

(* The server implements the pool of workers. *)
ConnOf(r) == IF Held(r) = {} THEN NoConn ELSE sock[CHOOSE fd \in Held(r) : TRUE]

Abs == INSTANCE WorkerPool WITH
         Worker <- RW,
         queue <- IF pc[Acceptor] = "hand" THEN <<ConnOf(Acceptor)>> \o backlog ELSE backlog,
         serves <- [r \in RW |-> ConnOf(r)],
         done <- eof \cup reset
ImplementsWorkerPool == Abs!Spec
=============================================================================
