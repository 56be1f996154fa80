------------------------------ MODULE Prefork ------------------------------
(***************************************************************************)
(* The echo server of stanard.cpp: main() forks processes that share the   *)
(* listening socket, and each of them has its own read-write routines, its *)
(* own pool g_readwrite and its own accept routine.                        *)
(*                                                                         *)
(* The coroutines are those of libco (co_create, co_resume, co_yield_ct,   *)
(* co_poll and the hooked poll), which is not in the repository: a routine *)
(* that waits is resumed by the loop of its process, when its descriptor   *)
(* is ready or after a second, hence at any time.                          *)
(*                                                                         *)
(* A descriptor is named by its connection; that numbers are used again is *)
(* the subject of module TcpServer.  A process dies of SIGPIPE when it     *)
(* writes to a connection that the client has first shut down, and then    *)
(* reset: the kernel keeps EPIPE for it, and ECONNRESET if there was no    *)
(* shutdown.                                                               *)
(***************************************************************************)
EXTENDS Naturals, Sequences, SequencesExt

CONSTANTS proccnt,   (* the processes that main() forks                    *)
          cnt,       (* the read-write routines of each process            *)
          Acceptor,  (* the accept routine of each process                 *)
          Conn,      (* the connections that clients make: a bound         *)
          NoConn,    (* the descriptor -1                                  *)
          Daemonize  (* whether main() ends without a wait                 *)

Process == 1 .. proccnt
RW == 1 .. cnt

ASSUME PreforkAssumption == /\ proccnt \in Nat /\ cnt \in Nat
                            /\ Acceptor \notin RW /\ NoConn \notin Conn

Coroutine == RW \cup {Acceptor}

VARIABLES
  main,      (* where main() is                                            *)
  status,    (* of each process                                            *)
  stack,     (* the call stack of each process, above its loop             *)
  pc,        (* where each routine of each process is                      *)
  task,      (* task_t::fd of each read-write routine                      *)
  cur,       (* its local variable fd                                      *)
  pool,      (* g_readwrite of each process, its top last                  *)
  backlog,   (* the connections that wait for accept                       *)
  gone,      (* the connections that are closed                            *)
  unread,    (* those with bytes to be read                                *)
  eof,       (* those whose client has shut down its side                  *)
  reset      (* those whose client has reset them                          *)

processVars == <<main, status>>
routineVars == <<stack, pc, task, cur, pool>>
connVars == <<backlog, gone, unread, eof, reset>>
vars == <<processVars, routineVars, connVars>>

Label == {"new", "top", "poll", "sleep", "write", "close", "accept"}

Init == /\ main = "setup"
        /\ status = [p \in Process |-> "none"]
        /\ stack = [p \in Process |-> <<>>]
        /\ pc = [p \in Process |-> [r \in Coroutine |-> "new"]]
        /\ task = [p \in Process |-> [r \in RW |-> NoConn]]
        /\ cur = [p \in Process |-> [r \in RW |-> NoConn]]
        /\ pool = [p \in Process |-> <<>>]
        /\ backlog = <<>>
        /\ gone = {} /\ unread = {} /\ eof = {} /\ reset = {}

Up(p) == status[p] = "up"

(* The connections that routine r of process p has to close. *)
Held(p, r) == {task[p][r], cur[p][r]} \ {NoConn}
HeldBy(p) == UNION {Held(p, r) : r \in RW}
Taken(c) == \E p \in Process : c \in HeldBy(p)

-----------------------------------------------------------------------------
(* The clients.  The kernel takes connections as long as some process has  *)
(* the listening socket.                                                   *)

Listening == main \in {"fork", "wait"} \/ \E p \in Process : Up(p)
Live(c) == c \in ToSet(backlog) \/ Taken(c)

Connect(c) == /\ Listening
              /\ ~Live(c) /\ c \notin gone
              /\ backlog' = Append(backlog, c)
              /\ UNCHANGED <<gone, unread, eof, reset>>

Send(c) == /\ Live(c) /\ c \notin unread \cup eof \cup reset
           /\ unread' = unread \cup {c}
           /\ UNCHANGED <<backlog, gone, eof, reset>>

Shutdown(c) == /\ Live(c) /\ c \notin eof \cup reset
               /\ eof' = eof \cup {c}
               /\ UNCHANGED <<backlog, gone, unread, reset>>

Reset(c) == /\ Live(c) /\ c \notin reset
            /\ reset' = reset \cup {c}
            /\ UNCHANGED <<backlog, gone, unread, eof>>

Client == /\ \E c \in Conn : Connect(c) \/ Send(c) \/ Shutdown(c) \/ Reset(c)
          /\ UNCHANGED <<processVars, routineVars>>

-----------------------------------------------------------------------------
(* main().                                                                 *)

(* The listening socket is made, or main() returns. *)
Setup == /\ main = "setup"
         /\ main' \in {"fork", "exited"}
         /\ UNCHANGED <<status, routineVars, connVars>>

(* fork() succeeds, or fails, and then main() forks no more. *)
Fork == /\ main = "fork"
        /\ \/ \E p \in Process : /\ {q \in Process : status[q] = "none"} = p .. proccnt
                                 /\ status' = [status EXCEPT ![p] = "up"]
                                 /\ UNCHANGED main
           \/ main' = "wait" /\ UNCHANGED status
        /\ UNCHANGED <<routineVars, connVars>>

(* The kernel closes connections, and forgets what it knew of them. *)
Closes(conns) == /\ gone' = gone \cup conns
                 /\ unread' = unread \ conns
                 /\ eof' = eof \ conns
                 /\ reset' = reset \ conns

(* When nobody has it any more, the listening socket is closed as well,    *)
(* and with it what waits in its backlog.                                  *)
LastCloses(conns) ==
  /\ backlog' = IF Listening' THEN backlog ELSE <<>>
  /\ Closes(conns \cup (ToSet(backlog) \ ToSet(backlog')))

(* wait(NULL) returns with the first process that dies, or at once if none *)
(* has been forked.                                                        *)
Exit == /\ main = "wait"
        /\ \/ Daemonize
           \/ \E p \in Process : status[p] = "dead"
           \/ \A p \in Process : status[p] = "none"
        /\ main' = "exited"
        /\ UNCHANGED <<status, routineVars>>
        /\ LastCloses({})

-----------------------------------------------------------------------------
(* The coroutines of a process.                                            *)

Runs(p, r, label) == /\ Up(p) /\ pc[p][r] = label
                     /\ stack[p] # <<>> /\ Last(stack[p]) = r

InLoop(p) == Up(p) /\ stack[p] = <<>>

GoTo(p, r, label) == pc' = [pc EXCEPT ![p][r] = label]
Resume(p, r) == stack' = [stack EXCEPT ![p] = Append(@, r)]
Yield(p) == stack' = [stack EXCEPT ![p] = Front(@)]

(* The child makes and resumes its read-write routines one by one, then    *)
(* the accept routine.                                                     *)
Start(p, r) == /\ InLoop(p)
               /\ {s \in Coroutine : pc[p][s] = "new"}
                    = {Acceptor} \cup IF r = Acceptor THEN {} ELSE r .. cnt
               /\ Resume(p, r)
               /\ GoTo(p, r, IF r = Acceptor THEN "accept" ELSE "top")
               /\ UNCHANGED <<processVars, task, cur, pool, connVars>>

-----------------------------------------------------------------------------
(* accept_routine.                                                         *)

(* Mutant: the accept routine does not look for an idle routine first. *)
HasIdle_Always(p) == TRUE

HasIdle(p) == pool[p] # <<>>

(* Mutant: top() without pop(). *)
Popped_Not(p) == pool

Popped(p) == [pool EXCEPT ![p] = Front(@)]

(* Mutant: the wait of an accept routine without idle routines has no end. *)
WaitsFor_Conn == {"poll"}

WaitsFor == {"poll", "sleep"}

(* The accept routine goes on when its wait is over, or when the routine   *)
(* that it has resumed yields.  Without an idle routine it sleeps; without *)
(* a connection it waits for one; the second test for an idle routine,     *)
(* after co_accept, never fails, since nothing has run in between.         *)
Accept(p) ==
  /\ \/ InLoop(p) /\ pc[p][Acceptor] \in WaitsFor
     \/ Runs(p, Acceptor, "accept")
  /\ IF ~HasIdle(p) \/ backlog = <<>>
     THEN /\ stack' = [stack EXCEPT ![p] = <<>>]
          /\ GoTo(p, Acceptor, IF HasIdle(p) THEN "poll" ELSE "sleep")
          /\ UNCHANGED <<task, pool, connVars>>
     ELSE /\ backlog' = Tail(backlog)
          /\ IF pool[p] = <<>>
             THEN /\ Closes({Head(backlog)})
                  /\ stack' = [stack EXCEPT ![p] = <<Acceptor>>]
                  /\ UNCHANGED <<task, pool>>
             ELSE /\ task' = [task EXCEPT ![p][Last(pool[p])] = Head(backlog)]
                  /\ pool' = Popped(p)
                  /\ stack' = [stack EXCEPT ![p] = <<Acceptor, Last(pool[p])>>]
                  /\ UNCHANGED <<gone, unread, eof, reset>>
          /\ GoTo(p, Acceptor, "accept")
  /\ UNCHANGED <<processVars, cur>>

-----------------------------------------------------------------------------
(* readwrite_routine.                                                      *)

(* Mutant: task_t::fd keeps its value. *)
Consumed_Not(p, r) == task

Consumed(p, r) == [task EXCEPT ![p][r] = NoConn]

(* It enters itself in the pool, or takes its descriptor and waits. *)
Top(p, r) ==
  /\ Runs(p, r, "top")
  /\ IF task[p][r] = NoConn
     THEN /\ pool' = [pool EXCEPT ![p] = Append(@, r)]
          /\ UNCHANGED <<pc, task, cur>>
     ELSE /\ cur' = [cur EXCEPT ![p][r] = task[p][r]]
          /\ task' = Consumed(p, r)
          /\ GoTo(p, r, "poll")
          /\ UNCHANGED pool
  /\ Yield(p)
  /\ UNCHANGED <<processVars, connVars>>

(* Mutant: only zero ends a connection, an error does not. *)
AtEnd_Zero(c) == c \in eof

AtEnd(c) == c \in eof \cup reset

(* When its wait is over the routine reads: data, even after a reset, or   *)
(* zero or an error.  After EAGAIN it waits again, and nothing changes.    *)
Read(p, r) ==
  /\ InLoop(p) /\ pc[p][Acceptor] # "new"
  /\ pc[p][r] = "poll"
  /\ cur[p][r] \in unread \/ AtEnd(cur[p][r])
  /\ GoTo(p, r, IF cur[p][r] \in unread THEN "write" ELSE "close")
  /\ unread' = unread \ {cur[p][r]}
  /\ Resume(p, r)
  /\ UNCHANGED <<processVars, task, cur, pool, backlog, gone, eof, reset>>

(* write() sends all, a part or nothing, and the routine waits again;      *)
(* after a reset it fails.                                                 *)
Write(p, r) ==
  /\ Runs(p, r, "write")
  /\ \/ cur[p][r] \notin reset /\ GoTo(p, r, "poll") /\ Yield(p)
     \/ cur[p][r] \in reset \ eof /\ GoTo(p, r, "close") /\ UNCHANGED stack
  /\ UNCHANGED <<processVars, task, cur, pool, connVars>>

(* SIGPIPE: the memory of the process is lost, and the kernel closes its   *)
(* descriptors.                                                            *)
Die(p, r) ==
  /\ Runs(p, r, "write")
  /\ cur[p][r] \in reset \cap eof
  /\ status' = [status EXCEPT ![p] = "dead"]
  /\ UNCHANGED main
  /\ LastCloses(HeldBy(p))
  /\ stack' = [stack EXCEPT ![p] = <<>>]
  /\ pool' = [pool EXCEPT ![p] = <<>>]
  /\ pc' = [pc EXCEPT ![p] = [s \in Coroutine |-> "new"]]
  /\ task' = [task EXCEPT ![p] = [s \in RW |-> NoConn]]
  /\ cur' = [cur EXCEPT ![p] = [s \in RW |-> NoConn]]

Close(p, r) ==
  /\ Runs(p, r, "close")
  /\ Closes({cur[p][r]})
  /\ cur' = [cur EXCEPT ![p][r] = NoConn]
  /\ GoTo(p, r, "top")
  /\ UNCHANGED <<processVars, stack, task, pool, backlog>>

-----------------------------------------------------------------------------
(* What a process does between a wait and the next one. *)
Run(p) == \/ \E r \in Coroutine : Start(p, r)
          \/ \E r \in RW : Top(p, r) \/ Write(p, r) \/ Die(p, r) \/ Close(p, r)

Next == \/ Client
        \/ Setup \/ Fork \/ Exit
        \/ \E p \in Process : Run(p) \/ Accept(p) \/ \E r \in RW : Read(p, r)

Spec == Init /\ [][Next]_vars

(* A process goes on as long as it can, and its loop forgets no routine:   *)
(* it handles all that are ready or whose second is over before it waits.  *)
FairSpec == /\ Spec
            /\ \A p \in Process : /\ WF_vars(Run(p))
                                  /\ SF_vars(Accept(p))
                                  /\ \A r \in RW : SF_vars(Read(p, r))

-----------------------------------------------------------------------------
TypeOK == /\ main \in {"setup", "fork", "wait", "exited"}
          /\ status \in [Process -> {"none", "up", "dead"}]
          /\ stack \in [Process -> Seq(Coroutine)]
          /\ pc \in [Process -> [Coroutine -> Label]]
          /\ task \in [Process -> [RW -> Conn \cup {NoConn}]]
          /\ cur \in [Process -> [RW -> Conn \cup {NoConn}]]
          /\ pool \in [Process -> Seq(RW)]
          /\ backlog \in Seq(Conn)
          /\ gone \subseteq Conn /\ unread \subseteq Conn
          /\ eof \subseteq Conn /\ reset \subseteq Conn

(* A connection is held by one routine of one process, although all of     *)
(* them accept from one socket; none that is held is closed or still waits *)
(* for accept, and a process that is not up holds none.                    *)
OneOwner ==
  /\ \A p, q \in Process : \A r, s \in RW :
        Held(p, r) \cap Held(q, s) # {} => p = q /\ r = s
  /\ \A p \in Process : \A r \in RW : task[p][r] = NoConn \/ cur[p][r] = NoConn
  /\ \A c \in Conn : Taken(c) => c \notin gone \cup ToSet(backlog)
  /\ \A p \in Process : ~Up(p) => HeldBy(p) = {}

(* A routine in the pool of its process is there once, holds nothing and   *)
(* does not run; one that has been started and does not run is in the pool *)
(* or waits: no routine is lost.                                           *)
PoolIdle ==
  \A p \in Process :
    /\ \A i, j \in 1 .. Len(pool[p]) : pool[p][i] = pool[p][j] => i = j
    /\ \A r \in ToSet(pool[p]) : /\ pc[p][r] = "top"
                                 /\ Held(p, r) = {}
                                 /\ r \notin ToSet(stack[p])
    /\ \A r \in RW : Up(p) /\ pc[p][r] # "new" /\ r \notin ToSet(stack[p])
                       => r \in ToSet(pool[p]) \/ pc[p][r] = "poll"

(* A connection is closed only when its client is done; the death of a     *)
(* process ends those that it holds and no other, and those that nobody    *)
(* has accepted end only when nobody is left to do so.                     *)
NeverDrops ==
  [][\A c \in gone' \ gone :
       \/ c \in eof \cup reset
       \/ \E p \in Process : Up(p) /\ ~Up(p)' /\ c \in HeldBy(p)
       \/ c \in ToSet(backlog) /\ ~Listening']_vars

(* While some process is up and has an idle routine, connections do not    *)
(* wait for ever: the accept routines that sleep or wait come back, and    *)
(* what one process misses or leaves when it dies another one accepts.     *)
ServesOn == []<>(backlog = <<>> \/ \A p \in Process : Up(p) => pool[p] = <<>>)

(* A client that is done, or has reset its connection, sees it closed. *)
Closed == \A c \in Conn : (Taken(c) /\ c \in eof \cup reset) ~> c \in gone
=============================================================================
