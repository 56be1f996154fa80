--------------------------- MODULE Prefork_proofs ---------------------------
(***************************************************************************)
(* Proofs about the preforked echo server: however many processes main()   *)
(* forks and however many routines they have, a connection has one owner,  *)
(* the pools hold idle routines and no connection is dropped.              *)
(*                                                                         *)
(* The strengthening says where a routine of a process can be: its place   *)
(* in its function tells whether it is on the call stack, whether it is in *)
(* the pool, and which of its two variables holds a descriptor; and a call *)
(* stack has the accept routine, at the bottom, and one other routine.     *)
(***************************************************************************)
EXTENDS Prefork, TLAPS, SequenceFacts

OnStack(p, r) == r \in ToSet(stack[p])
InPool(p, r) == r \in ToSet(pool[p])

(* The call stacks that a process can have. *)
StackShape(p) == \/ stack[p] = <<>>
                 \/ \E r \in Coroutine : stack[p] = <<r>>
                 \/ \E r \in RW : stack[p] = <<Acceptor, r>>

AcceptorRight(p) == /\ pc[p][Acceptor] \in {"new", "accept", "poll", "sleep"}
                    /\ OnStack(p, Acceptor) <=> pc[p][Acceptor] = "accept"

WorkerRight(p, r) ==
  /\ pc[p][r] \in {"new", "top", "poll", "write", "close"}
  /\ InPool(p, r) => pc[p][r] = "top" /\ task[p][r] = NoConn
  /\ OnStack(p, r) <=> \/ pc[p][r] \in {"write", "close"}
                       \/ pc[p][r] = "top" /\ ~InPool(p, r)
  /\ cur[p][r] # NoConn <=> pc[p][r] \in {"poll", "write", "close"}
  /\ task[p][r] # NoConn => pc[p][r] = "top"
  /\ pc[p][r] = "close" => cur[p][r] \in eof \cup reset

(* A process that is not up has nothing. *)
Blank(p) == /\ stack[p] = <<>> /\ pool[p] = <<>>
            /\ \A r \in Coroutine : pc[p][r] = "new"
            /\ \A r \in RW : task[p][r] = NoConn /\ cur[p][r] = NoConn

ProcessRight(p) == /\ StackShape(p)
                   /\ Distinct(pool[p])
                   /\ AcceptorRight(p)
                   /\ \A r \in RW : WorkerRight(p, r)
                   /\ ~Up(p) => Blank(p)

Owners == \A p, q \in Process : \A r, s \in RW :
            Held(p, r) \cap Held(q, s) # {} => p = q /\ r = s

ConnRight == /\ Owners
             /\ \A p \in Process : \A r \in RW : \A c \in Held(p, r) :
                   c \notin gone /\ c \notin ToSet(backlog)
             /\ Distinct(backlog)
             /\ \A c \in ToSet(backlog) : c \notin gone

IInv == /\ TypeOK
        /\ \A p \in Process : ProcessRight(p)
        /\ ConnRight

-----------------------------------------------------------------------------
(* What a step leaves alone.                                               *)

Unchanged(q) == /\ status'[q] = status[q] /\ stack'[q] = stack[q] /\ pool'[q] = pool[q]
                /\ pc'[q] = pc[q] /\ task'[q] = task[q] /\ cur'[q] = cur[q]

(* The connection that a routine is about to close stays at its end. *)
StaysEnded(q) == \A r \in RW : pc[q][r] = "close" /\ cur[q][r] \in eof \cup reset
                                => cur[q][r] \in eof' \cup reset'

LEMMA ProcessFrame ==
  ASSUME IInv, NEW q \in Process, Unchanged(q), StaysEnded(q)
  PROVE  ProcessRight(q)'
<1>1. ProcessRight(q)
  BY DEF IInv
<1>2. StackShape(q)' /\ Distinct(pool[q])' /\ AcceptorRight(q)'
  BY <1>1 DEF ProcessRight, Unchanged, StackShape, Distinct, AcceptorRight, OnStack
<1>3. ASSUME NEW r \in RW PROVE WorkerRight(q, r)'
  BY <1>1 DEF ProcessRight, Unchanged, StaysEnded, WorkerRight, OnStack, InPool
<1>4. ~Up(q)' => Blank(q)'
  BY <1>1 DEF ProcessRight, Unchanged, Up, Blank
<1> QED  BY <1>2, <1>3, <1>4 DEF ProcessRight

(* Nobody gets a connection. *)
LEMMA ConnFrame ==
  ASSUME IInv,
         \A p \in Process : \A r \in RW : Held(p, r)' \subseteq Held(p, r),
         \A p \in Process : \A r \in RW : \A c \in Held(p, r)' :
            c \notin gone' /\ c \notin ToSet(backlog'),
         Distinct(backlog'), \A c \in ToSet(backlog') : c \notin gone'
  PROVE  ConnRight'
<1>1. Owners'
  BY DEF IInv, ConnRight, Owners
<1> QED  BY <1>1 DEF ConnRight, Distinct

LEMMA ConnSame ==
  ASSUME IInv, task' = task, cur' = cur, backlog' = backlog, gone' = gone
  PROVE  ConnRight'
<1>1. \A p \in Process : \A r \in RW : Held(p, r)' = Held(p, r)
  BY DEF Held
<1> QED  BY <1>1, ConnFrame DEF IInv, ConnRight

(* The kernel closes some connections, and the backlog with the last owner *)
(* of the listening socket.                                                *)
LEMMA LastClosesRight ==
  ASSUME IInv, NEW conns \in SUBSET Conn, LastCloses(conns),
         \A c \in conns : c \notin ToSet(backlog)
  PROVE  /\ backlog' \in Seq(Conn) /\ gone' \subseteq Conn /\ unread' \subseteq Conn
         /\ eof' \subseteq Conn /\ reset' \subseteq Conn
         /\ Distinct(backlog')
         /\ \A c \in ToSet(backlog') : c \in ToSet(backlog) /\ c \notin gone'
         /\ \A c : c \in gone' => c \in gone \/ c \in conns \/ c \in ToSet(backlog)
         /\ \A c : c \in ToSet(backlog) /\ c \notin ToSet(backlog') => ~Listening'
         /\ \A c : c \in eof \cup reset /\ c \notin conns \cup ToSet(backlog)
                   => c \in eof' \cup reset'
<1>1. /\ backlog \in Seq(Conn) /\ gone \subseteq Conn /\ unread \subseteq Conn
      /\ eof \subseteq Conn /\ reset \subseteq Conn
      /\ Distinct(backlog) /\ \A c \in ToSet(backlog) : c \notin gone
  BY DEF IInv, TypeOK, ConnRight
<1>2. ToSet(backlog) \subseteq Conn
  BY <1>1, InToSet, ElementOfSeq
<1> DEFINE lost == ToSet(backlog) \ ToSet(backlog')
<1>3. /\ gone' = gone \cup (conns \cup lost)
      /\ unread' = unread \ (conns \cup lost)
      /\ eof' = eof \ (conns \cup lost)
      /\ reset' = reset \ (conns \cup lost)
  BY DEF LastCloses, Closes
<1>4. \/ Listening' /\ backlog' = backlog
      \/ ~Listening' /\ backlog' = <<>>
  BY DEF LastCloses
<1>5. ToSet(<<>>) = {} /\ Distinct(<<>>) /\ <<>> \in Seq(Conn)
  BY EmptySeq DEF ToSet, Distinct
<1> QED  BY <1>1, <1>2, <1>3, <1>4, <1>5

(* The clients and main().                                                 *)

LEMMA InitIInv == Init => IInv
<1> SUFFICES ASSUME Init PROVE IInv
  OBVIOUS
<1>1. ToSet(<<>>) = {} /\ Distinct(<<>>) /\ <<>> \in Seq(Conn)
      /\ <<>> \in Seq(Coroutine) /\ <<>> \in Seq(RW)
  BY EmptySeq DEF ToSet, Distinct
<1>2. RW \subseteq Coroutine /\ Acceptor \in Coroutine
  BY DEF Coroutine
<1>3. TypeOK
  BY <1>1, <1>2 DEF Init, TypeOK, Label
<1>4. ASSUME NEW p \in Process PROVE ProcessRight(p)
  BY <1>1, <1>2 DEF Init, ProcessRight, StackShape, AcceptorRight, WorkerRight, OnStack, InPool,
                    Blank
<1>5. ConnRight
  BY <1>1 DEF Init, ConnRight, Owners, Held
<1> QED  BY <1>3, <1>4, <1>5 DEF IInv

LEMMA ClientIInv ==
  ASSUME IInv, Client
  PROVE  IInv'
<1>1. /\ main' = main /\ status' = status /\ stack' = stack /\ pool' = pool
      /\ pc' = pc /\ task' = task /\ cur' = cur
  BY DEF Client, processVars, routineVars
<1>2. /\ gone' = gone /\ eof \subseteq eof' /\ reset \subseteq reset'
      /\ eof' \subseteq Conn /\ reset' \subseteq Conn /\ unread' \subseteq Conn
      /\ \/ backlog' = backlog
         \/ \E c \in Conn : ~Live(c) /\ c \notin gone /\ backlog' = Append(backlog, c)
  BY DEF Client, Connect, Send, Shutdown, Reset, IInv, TypeOK
<1>3. /\ backlog' \in Seq(Conn) /\ Distinct(backlog')
      /\ \A c \in ToSet(backlog') :
           /\ c \notin gone
           /\ c \in ToSet(backlog) \/ ~Taken(c)
  <2>1. backlog \in Seq(Conn) /\ ConnRight
    BY DEF IInv, TypeOK
  <2>2. CASE backlog' = backlog
    BY <2>1, <2>2 DEF ConnRight
  <2>3. ASSUME NEW c \in Conn, ~Live(c), c \notin gone, backlog' = Append(backlog, c)
        PROVE  /\ backlog' \in Seq(Conn) /\ Distinct(backlog')
               /\ \A d \in ToSet(backlog') : d \notin gone /\ (d \in ToSet(backlog) \/ ~Taken(d))
    BY <2>1, <2>3, Appended DEF ConnRight, Live
  <2> QED  BY <1>2, <2>2, <2>3
<1>4. TypeOK'
  BY <1>1, <1>2, <1>3 DEF IInv, TypeOK
<1>5. ASSUME NEW p \in Process PROVE ProcessRight(p)'
  BY <1>1, <1>2, ProcessFrame DEF Unchanged, StaysEnded
<1>6. ConnRight'
  <2>1. \A p \in Process : \A r \in RW : Held(p, r)' = Held(p, r)
    BY <1>1 DEF Held
  <2>2. \A p \in Process : \A r \in RW : \A c \in Held(p, r) : Taken(c)
    BY DEF Taken, HeldBy
  <2>3. \A p \in Process : \A r \in RW : \A c \in Held(p, r) :
          c \notin gone /\ c \notin ToSet(backlog)
    BY DEF IInv, ConnRight
  <2> QED  BY <1>2, <1>3, <2>1, <2>2, <2>3, ConnFrame
<1> QED  BY <1>4, <1>5, <1>6 DEF IInv

(* The listening socket is made, or main() ends. *)
LEMMA SetupIInv ==
  ASSUME IInv, Setup
  PROVE  IInv'
<1>1. /\ main' \in {"fork", "exited"}
      /\ UNCHANGED <<status, routineVars, connVars>>
  BY DEF Setup
<1>2. TypeOK'
  BY <1>1 DEF IInv, TypeOK, routineVars, connVars
<1>3. ASSUME NEW p \in Process PROVE ProcessRight(p)'
  BY <1>1, ProcessFrame DEF Unchanged, StaysEnded, routineVars, connVars
<1>4. ConnRight'
  BY <1>1, ConnSame DEF routineVars, connVars
<1> QED  BY <1>2, <1>3, <1>4 DEF IInv

(* A new process has nothing yet. *)
LEMMA ForkIInv ==
  ASSUME IInv, Fork
  PROVE  IInv'
<1>1. UNCHANGED <<routineVars, connVars>>
  BY DEF Fork
<1>2. CASE status' = status /\ main' = "wait"
  <2>1. TypeOK'
    BY <1>1, <1>2 DEF IInv, TypeOK, routineVars, connVars
  <2>2. ASSUME NEW p \in Process PROVE ProcessRight(p)'
    BY <1>1, <1>2, ProcessFrame DEF Unchanged, StaysEnded, routineVars, connVars
  <2>3. ConnRight'
    BY <1>1, ConnSame DEF routineVars, connVars
  <2> QED  BY <2>1, <2>2, <2>3 DEF IInv
<1>3. ASSUME NEW p \in Process, status' = [status EXCEPT ![p] = "up"], status[p] = "none",
             main' = main
      PROVE  IInv'
  <2>1. TypeOK'
    BY <1>1, <1>3 DEF IInv, TypeOK, routineVars, connVars
  <2>2. ASSUME NEW q \in Process, q # p PROVE ProcessRight(q)'
    BY <1>1, <1>3, <2>2, ProcessFrame DEF Unchanged, StaysEnded, routineVars, connVars, IInv, TypeOK
  <2>3. ProcessRight(p)'
    <3>1. ProcessRight(p) /\ ~Up(p) /\ Up(p)'
      BY <1>3 DEF IInv, Up, TypeOK
    <3> QED  BY <1>1, <3>1 DEF ProcessRight, StackShape, AcceptorRight, WorkerRight, OnStack, InPool,
                               Distinct, routineVars, connVars
  <2>4. ConnRight'
    BY <1>1, ConnSame DEF routineVars, connVars
  <2> QED  BY <2>1, <2>2, <2>3, <2>4 DEF IInv
<1>4. ASSUME NEW p \in Process, {q \in Process : status[q] = "none"} = p .. proccnt
      PROVE  status[p] = "none"
  <2>1. p \in p .. proccnt
    BY PreforkAssumption DEF Process
  <2> QED  BY <1>4, <2>1
<1> QED  BY <1>2, <1>3, <1>4 DEF Fork

LEMMA ExitIInv ==
  ASSUME IInv, Exit
  PROVE  IInv'
<1>1. /\ main' = "exited" /\ UNCHANGED <<status, routineVars>>
      /\ LastCloses({})
  BY DEF Exit
<1>2. /\ backlog' \in Seq(Conn) /\ gone' \subseteq Conn /\ unread' \subseteq Conn
      /\ eof' \subseteq Conn /\ reset' \subseteq Conn
      /\ Distinct(backlog')
      /\ \A c \in ToSet(backlog') : c \in ToSet(backlog) /\ c \notin gone'
      /\ \A c : c \in gone' => c \in gone \/ c \in ToSet(backlog)
      /\ \A c : c \in eof \cup reset /\ c \notin ToSet(backlog) => c \in eof' \cup reset'
  BY <1>1, LastClosesRight
<1>3. TypeOK'
  BY <1>1, <1>2 DEF IInv, TypeOK, routineVars
<1>4. \A p \in Process : \A r \in RW : Held(p, r)' = Held(p, r)
  BY <1>1 DEF Held, routineVars
<1>5. \A p \in Process : \A r \in RW : \A c \in Held(p, r) :
        c \notin gone /\ c \notin ToSet(backlog)
  BY DEF IInv, ConnRight
<1>6. ASSUME NEW p \in Process PROVE ProcessRight(p)'
  <2>1. \A r \in RW : pc[p][r] = "close" => cur[p][r] \in Held(p, r)
    BY DEF IInv, ProcessRight, WorkerRight, Held
  <2>2. StaysEnded(p)
    BY <1>2, <1>5, <2>1 DEF StaysEnded
  <2> QED  BY <1>1, <2>2, ProcessFrame DEF Unchanged, routineVars
<1>7. ConnRight'
  BY <1>2, <1>4, <1>5, ConnFrame
<1> QED  BY <1>3, <1>6, <1>7 DEF IInv

-----------------------------------------------------------------------------
(* The call stack of a process.                                            *)

LEMMA RunningRight ==
  ASSUME IInv, NEW p \in Process, NEW r \in RW, NEW label, Runs(p, r, label)
  PROVE  /\ Up(p) /\ OnStack(p, r) /\ pc[p][r] = label
         /\ \/ stack[p] = <<r>> /\ Front(stack[p]) = <<>>
            \/ stack[p] = <<Acceptor, r>> /\ Front(stack[p]) = <<Acceptor>>
<1>1. r \in Coroutine /\ Acceptor \in Coroutine /\ r # Acceptor
  BY PreforkAssumption DEF Coroutine
<1>2. Up(p) /\ pc[p][r] = label /\ stack[p] # <<>> /\ Last(stack[p]) = r
  BY DEF Runs
<1>3. CASE \E s \in Coroutine : stack[p] = <<s>>
  <2>1. PICK s \in Coroutine : stack[p] = <<s>>
    BY <1>3
  <2>2. Last(<<s>>) = s /\ ToSet(<<s>>) = {s} /\ Front(<<s>>) = <<>>
    BY Short
  <2>3. s = r
    BY <1>2, <2>1, <2>2
  <2> QED  BY <1>2, <2>1, <2>2, <2>3 DEF OnStack
<1>4. CASE \E s \in RW : stack[p] = <<Acceptor, s>>
  <2>1. PICK s \in RW : stack[p] = <<Acceptor, s>> /\ s \in Coroutine
    BY <1>4 DEF Coroutine
  <2>2. /\ Last(<<Acceptor, s>>) = s /\ ToSet(<<Acceptor, s>>) = {Acceptor, s}
        /\ Front(<<Acceptor, s>>) = <<Acceptor>>
    <3>1. Acceptor \in Coroutine /\ s \in Coroutine
      BY <1>1, <2>1
    <3>2. ASSUME NEW a \in Coroutine, NEW b \in Coroutine
          PROVE  /\ Last(<<a, b>>) = b /\ ToSet(<<a, b>>) = {a, b} /\ Front(<<a, b>>) = <<a>>
      <4>1. Last(<<a, b>>) = b
        BY DEF Last
      <4>2. ToSet(<<a, b>>) = {a, b}
        BY Short, Zenon
      <4>3. Front(<<a, b>>) = <<a>>
        BY FrontOfTwo
      <4> QED  BY <4>1, <4>2, <4>3
    <3> QED  BY <3>1, <3>2
  <2>3. s = r
    BY <1>2, <2>1, <2>2
  <2> QED  BY <1>2, <2>1, <2>2, <2>3 DEF OnStack
<1>5. StackShape(p)
  BY DEF IInv, ProcessRight
<1> QED  BY <1>2, <1>3, <1>4, <1>5 DEF StackShape

(* A routine that yields leaves the stack, and nobody else does. *)
LEMMA YieldRight ==
  ASSUME IInv, NEW p \in Process, NEW r \in RW, NEW label, Runs(p, r, label), Yield(p)
  PROVE  /\ stack' \in [Process -> Seq(Coroutine)]
         /\ StackShape(p)'
         /\ \A s : OnStack(p, s)' <=> OnStack(p, s) /\ s # r
         /\ \A q \in Process \ {p} : stack'[q] = stack[q]
<1>1. r \in Coroutine /\ Acceptor \in Coroutine /\ r # Acceptor
  BY PreforkAssumption DEF Coroutine
<1>2. stack \in [Process -> Seq(Coroutine)]
  BY DEF IInv, TypeOK
<1>3. \/ stack[p] = <<r>> /\ Front(stack[p]) = <<>>
      \/ stack[p] = <<Acceptor, r>> /\ Front(stack[p]) = <<Acceptor>>
  BY RunningRight
<1>4. stack' = [stack EXCEPT ![p] = Front(stack[p])]
  BY DEF Yield
<1>5. /\ ToSet(<<>>) = {} /\ ToSet(<<r>>) = {r} /\ ToSet(<<Acceptor>>) = {Acceptor}
      /\ ToSet(<<Acceptor, r>>) = {Acceptor, r}
      /\ <<>> \in Seq(Coroutine) /\ <<Acceptor>> \in Seq(Coroutine)
  BY <1>1, Short
<1>6. Front(stack[p]) \in Seq(Coroutine)
  BY <1>3, <1>5
<1>7. /\ stack' \in [Process -> Seq(Coroutine)] /\ stack'[p] = Front(stack[p])
      /\ \A q \in Process \ {p} : stack'[q] = stack[q]
  BY <1>2, <1>4, <1>6
<1>8. StackShape(p)'
  BY <1>1, <1>3, <1>7 DEF StackShape
<1>9. \A s : OnStack(p, s)' <=> OnStack(p, s) /\ s # r
  BY <1>1, <1>3, <1>5, <1>7 DEF OnStack
<1> QED  BY <1>7, <1>8, <1>9

(* The loop resumes a routine. *)
LEMMA ResumeRight ==
  ASSUME IInv, NEW p \in Process, NEW r \in Coroutine, InLoop(p), Resume(p, r)
  PROVE  /\ stack' \in [Process -> Seq(Coroutine)]
         /\ StackShape(p)'
         /\ \A s : ~OnStack(p, s)
         /\ \A s : OnStack(p, s)' <=> s = r
         /\ \A q \in Process \ {p} : stack'[q] = stack[q]
<1>1. stack \in [Process -> Seq(Coroutine)] /\ stack[p] = <<>>
  BY DEF IInv, TypeOK, InLoop
<1>2. stack' = [stack EXCEPT ![p] = <<r>>]
  BY <1>1, Short DEF Resume
<1>3. ToSet(<<>>) = {} /\ ToSet(<<r>>) = {r} /\ <<r>> \in Seq(Coroutine)
  BY Short
<1>4. /\ stack' \in [Process -> Seq(Coroutine)] /\ stack'[p] = <<r>>
      /\ \A q \in Process \ {p} : stack'[q] = stack[q]
  BY <1>1, <1>2, <1>3
<1> QED  BY <1>1, <1>3, <1>4 DEF StackShape, OnStack

-----------------------------------------------------------------------------
(* The steps of a process.                                                 *)

(* A process starts its read-write routines, and then its accept routine. *)
LEMMA StartIInv ==
  ASSUME IInv, NEW p \in Process, NEW r \in Coroutine, Start(p, r)
  PROVE  IInv'
<1> DEFINE label == IF r = Acceptor THEN "accept" ELSE "top"
<1>1. /\ pc' = [pc EXCEPT ![p][r] = label] /\ InLoop(p) /\ Resume(p, r)
      /\ UNCHANGED <<main, status, task, cur, pool, backlog, gone, unread, eof, reset>>
  BY DEF Start, GoTo, processVars, connVars
<1>2. pc[p][r] = "new"
  <2>1. r \in {Acceptor} \cup IF r = Acceptor THEN {} ELSE r .. cnt
    BY PreforkAssumption DEF Coroutine, RW
  <2> QED  BY <2>1 DEF Start
<1>3. pc \in [Process -> [Coroutine -> Label]] /\ label \in Label
  BY DEF IInv, TypeOK, Label
<1>4. /\ stack' \in [Process -> Seq(Coroutine)]
      /\ StackShape(p)'
      /\ \A s : ~OnStack(p, s)
      /\ \A s : OnStack(p, s)' <=> s = r
      /\ \A q \in Process \ {p} : stack'[q] = stack[q]
  BY <1>1, ResumeRight
<1>5. TypeOK'
  BY <1>1, <1>3, <1>4 DEF IInv, TypeOK
<1>6. ASSUME NEW q \in Process, q # p PROVE ProcessRight(q)'
  BY <1>1, <1>3, <1>4, <1>6, ProcessFrame DEF Unchanged, StaysEnded
<1>7. ProcessRight(p)'
  <2>1. ProcessRight(p) /\ Up(p) /\ Up(p)'
    BY <1>1 DEF IInv, InLoop, Up
  <2>2. /\ pc'[p][r] = label
        /\ \A s \in Coroutine \ {r} : pc'[p][s] = pc[p][s]
    BY <1>1, <1>3
  <2>3. AcceptorRight(p)'
    BY <1>4, <2>1, <2>2, PreforkAssumption DEF ProcessRight, AcceptorRight, Coroutine
  <2>4. ASSUME NEW s \in RW PROVE WorkerRight(p, s)'
    <3>1. WorkerRight(p, s) /\ s # Acceptor /\ s \in Coroutine
      BY <2>1, PreforkAssumption DEF ProcessRight, Coroutine
    <3>2. InPool(p, s)' <=> InPool(p, s)
      BY <1>1 DEF InPool
    <3>3. CASE s = r
      BY <1>1, <1>2, <1>4, <2>2, <3>1, <3>2, <3>3 DEF WorkerRight
    <3>4. CASE s # r
      BY <1>1, <1>2, <1>4, <2>2, <3>1, <3>2, <3>4 DEF WorkerRight
    <3> QED  BY <3>3, <3>4
  <2> QED  BY <1>1, <1>4, <2>1, <2>3, <2>4 DEF ProcessRight, Distinct
<1>8. ConnRight'
  BY <1>1, ConnSame
<1> QED  BY <1>5, <1>6, <1>7, <1>8 DEF IInv

(* A routine enters itself in the pool, or takes its descriptor. *)
LEMMA TopIInv ==
  ASSUME IInv, NEW p \in Process, NEW r \in RW, Top(p, r)
  PROVE  IInv'
<1>1. /\ Runs(p, r, "top") /\ Yield(p)
      /\ UNCHANGED <<main, status, backlog, gone, unread, eof, reset>>
  BY DEF Top, processVars, connVars
<1>2. Up(p) /\ Up(p)' /\ OnStack(p, r) /\ pc[p][r] = "top"
  BY <1>1, RunningRight DEF Up
<1>3. /\ stack' \in [Process -> Seq(Coroutine)]
      /\ StackShape(p)'
      /\ \A s : OnStack(p, s)' <=> OnStack(p, s) /\ s # r
      /\ \A q \in Process \ {p} : stack'[q] = stack[q]
  BY <1>1, YieldRight
<1>4. /\ ProcessRight(p) /\ WorkerRight(p, r)
      /\ r \in Coroutine /\ r # Acceptor
  BY PreforkAssumption DEF IInv, ProcessRight, Coroutine
<1>5. ~InPool(p, r) /\ cur[p][r] = NoConn
  BY <1>2, <1>4 DEF WorkerRight
<1>6. /\ pc \in [Process -> [Coroutine -> Label]]
      /\ task \in [Process -> [RW -> Conn \cup {NoConn}]]
      /\ cur \in [Process -> [RW -> Conn \cup {NoConn}]]
      /\ pool \in [Process -> Seq(RW)]
  BY DEF IInv, TypeOK
<1>7. AcceptorRight(p)' <=> pc'[p][Acceptor] \in {"new", "accept", "poll", "sleep"}
                            /\ (OnStack(p, Acceptor) <=> pc'[p][Acceptor] = "accept")
  BY <1>3, <1>4 DEF AcceptorRight
<1>8. CASE /\ task[p][r] = NoConn
           /\ pool' = [pool EXCEPT ![p] = Append(@, r)]
           /\ UNCHANGED <<pc, task, cur>>
  <2>1. /\ pool'[p] \in Seq(RW) /\ Distinct(pool'[p])
        /\ \A s : InPool(p, s)' <=> InPool(p, s) \/ s = r
        /\ pool' \in [Process -> Seq(RW)]
        /\ \A q \in Process \ {p} : pool'[q] = pool[q]
    <3>1. pool[p] \in Seq(RW) /\ pool'[p] = Append(pool[p], r) /\ Distinct(pool[p])
      BY <1>4, <1>6, <1>8 DEF ProcessRight
    <3>2. /\ Append(pool[p], r) \in Seq(RW) /\ Distinct(Append(pool[p], r))
          /\ \A y : y \in ToSet(Append(pool[p], r)) <=> y \in ToSet(pool[p]) \/ y = r
      BY <1>5, <3>1, Appended DEF InPool
    <3> QED  BY <1>6, <1>8, <3>1, <3>2 DEF InPool
  <2>2. TypeOK'
    BY <1>1, <1>3, <1>8, <2>1 DEF IInv, TypeOK
  <2>3. ASSUME NEW q \in Process, q # p PROVE ProcessRight(q)'
    BY <1>1, <1>3, <1>8, <2>1, <2>3, ProcessFrame DEF Unchanged, StaysEnded
  <2>4. ASSUME NEW s \in RW PROVE WorkerRight(p, s)'
    <3>1. WorkerRight(p, s)
      BY <1>4 DEF ProcessRight
    <3> QED  BY <1>1, <1>2, <1>3, <1>4, <1>5, <1>8, <2>1, <3>1 DEF WorkerRight
  <2>5. ProcessRight(p)'
    BY <1>2, <1>3, <1>4, <1>7, <1>8, <2>1, <2>4 DEF ProcessRight, AcceptorRight, Distinct
  <2>6. ConnRight'
    BY <1>1, <1>8, ConnSame
  <2> QED  BY <2>2, <2>3, <2>5, <2>6 DEF IInv
<1>9. CASE /\ task[p][r] # NoConn
           /\ cur' = [cur EXCEPT ![p][r] = task[p][r]]
           /\ task' = [task EXCEPT ![p][r] = NoConn]
           /\ pc' = [pc EXCEPT ![p][r] = "poll"]
           /\ pool' = pool
  <2>1. /\ cur'[p][r] = task[p][r] /\ task'[p][r] = NoConn /\ pc'[p][r] = "poll"
        /\ \A s \in Coroutine \ {r} : pc'[p][s] = pc[p][s]
        /\ \A s \in RW \ {r} : cur'[p][s] = cur[p][s] /\ task'[p][s] = task[p][s]
        /\ \A q \in Process \ {p} : cur'[q] = cur[q] /\ task'[q] = task[q] /\ pc'[q] = pc[q]
    BY <1>4, <1>6, <1>9
  <2>2. TypeOK'
    <3>1. pc' \in [Process -> [Coroutine -> Label]]
      BY <1>4, <1>6, <1>9 DEF Label
    <3>2. /\ task' \in [Process -> [RW -> Conn \cup {NoConn}]]
          /\ cur' \in [Process -> [RW -> Conn \cup {NoConn}]]
      BY <1>6, <1>9
    <3> QED  BY <1>1, <1>3, <1>9, <3>1, <3>2 DEF IInv, TypeOK
  <2>3. ASSUME NEW q \in Process, q # p PROVE ProcessRight(q)'
    BY <1>1, <1>3, <1>9, <2>1, <2>3, ProcessFrame DEF Unchanged, StaysEnded
  <2>4. ASSUME NEW s \in RW PROVE WorkerRight(p, s)'
    <3>1. WorkerRight(p, s) /\ s \in Coroutine /\ (InPool(p, s)' <=> InPool(p, s))
      BY <1>4, <1>9 DEF ProcessRight, Coroutine, InPool
    <3> QED  BY <1>1, <1>2, <1>3, <1>4, <1>5, <1>9, <2>1, <3>1 DEF WorkerRight
  <2>5. ProcessRight(p)'
    <3>1. AcceptorRight(p)'
      BY <1>4, <1>7, <2>1 DEF ProcessRight, AcceptorRight, Coroutine
    <3> QED  BY <1>2, <1>3, <1>4, <1>9, <2>4, <3>1 DEF ProcessRight, Distinct
  <2>6. ConnRight'
    <3>1. \A q \in Process : \A s \in RW : Held(q, s)' = Held(q, s)
      BY <1>5, <1>9, <2>1 DEF Held
    <3> QED  BY <1>1, <3>1, ConnFrame DEF IInv, ConnRight
  <2> QED  BY <2>2, <2>3, <2>5, <2>6 DEF IInv
<1> QED  BY <1>8, <1>9 DEF Top, GoTo, Consumed

(* When the accept routine goes on, no read-write routine runs. *)
LEMMA AcceptRuns ==
  ASSUME IInv, NEW p \in Process,
         InLoop(p) \/ Runs(p, Acceptor, "accept")
  PROVE  Up(p) /\ \A s \in RW : ~OnStack(p, s)
<1>1. Acceptor \in Coroutine /\ Acceptor \notin RW /\ RW \subseteq Coroutine
  BY PreforkAssumption DEF Coroutine
<1>2. CASE InLoop(p)
  BY <1>2, <1>1, Short DEF InLoop, OnStack
<1>3. CASE Runs(p, Acceptor, "accept")
  <2>1. Up(p) /\ stack[p] # <<>> /\ Last(stack[p]) = Acceptor
    BY <1>3 DEF Runs
  <2>2. ASSUME NEW s \in Coroutine, stack[p] = <<s>> PROVE \A r \in RW : ~OnStack(p, r)
    <3>1. Last(<<s>>) = s /\ ToSet(<<s>>) = {s}
      BY Short
    <3> QED  BY <1>1, <2>1, <2>2, <3>1 DEF OnStack
  <2>3. ASSUME NEW s \in RW PROVE stack[p] # <<Acceptor, s>>
    <3>1. Last(<<Acceptor, s>>) = s
      BY DEF Last
    <3> QED  BY <1>1, <2>1, <3>1
  <2> QED  BY <2>1, <2>2, <2>3 DEF IInv, ProcessRight, StackShape
<1> QED  BY <1>2, <1>3

(* The accept routine waits, or hands a connection to an idle routine; it  *)
(* has none to close.                                                      *)
LEMMA AcceptCases ==
  ASSUME IInv, NEW p \in Process, Accept(p)
  PROVE  /\ Up(p) /\ \A s \in RW : ~OnStack(p, s)
         /\ UNCHANGED <<main, status, cur, gone, unread, eof, reset>>
         /\ \/ /\ stack' = [stack EXCEPT ![p] = <<>>]
               /\ \E label \in {"poll", "sleep"} : pc' = [pc EXCEPT ![p][Acceptor] = label]
               /\ UNCHANGED <<task, pool, backlog>>
            \/ /\ pool[p] # <<>> /\ backlog # <<>>
               /\ backlog' = Tail(backlog)
               /\ task' = [task EXCEPT ![p][Last(pool[p])] = Head(backlog)]
               /\ pool' = [pool EXCEPT ![p] = Front(@)]
               /\ stack' = [stack EXCEPT ![p] = <<Acceptor, Last(pool[p])>>]
               /\ pc' = [pc EXCEPT ![p][Acceptor] = "accept"]
<1>1. Up(p) /\ \A s \in RW : ~OnStack(p, s)
  BY AcceptRuns DEF Accept
<1>2. UNCHANGED <<main, status, cur>>
  BY DEF Accept, processVars
<1>3. CASE ~HasIdle(p) \/ backlog = <<>>
  <2>1. PICK label \in {"poll", "sleep"} : GoTo(p, Acceptor, label)
    BY <1>3 DEF Accept
  <2> QED  BY <1>1, <1>2, <1>3, <2>1 DEF Accept, GoTo, connVars
<1>4. CASE ~(~HasIdle(p) \/ backlog = <<>>)
  <2>1. pool[p] # <<>> /\ backlog # <<>>
    BY <1>4 DEF HasIdle
  <2> QED  BY <1>1, <1>2, <1>4, <2>1 DEF Accept, GoTo, Popped
<1> QED  BY <1>3, <1>4

LEMMA AcceptIInv ==
  ASSUME IInv, NEW p \in Process, Accept(p)
  PROVE  IInv'
<1>1. /\ Up(p) /\ Up(p)' /\ \A s \in RW : ~OnStack(p, s)
      /\ UNCHANGED <<main, status, cur, gone, unread, eof, reset>>
  BY AcceptCases DEF Up
<1>2. /\ ProcessRight(p) /\ Acceptor \in Coroutine /\ Acceptor \notin RW
      /\ RW \subseteq Coroutine
  BY PreforkAssumption DEF IInv, Coroutine
<1>3. /\ pc \in [Process -> [Coroutine -> Label]]
      /\ task \in [Process -> [RW -> Conn \cup {NoConn}]]
      /\ cur \in [Process -> [RW -> Conn \cup {NoConn}]]
      /\ pool \in [Process -> Seq(RW)]
      /\ stack \in [Process -> Seq(Coroutine)]
      /\ backlog \in Seq(Conn)
  BY DEF IInv, TypeOK
<1>4. CASE /\ stack' = [stack EXCEPT ![p] = <<>>]
           /\ \E label \in {"poll", "sleep"} : pc' = [pc EXCEPT ![p][Acceptor] = label]
           /\ UNCHANGED <<task, pool, backlog>>
  <2>1. PICK label \in {"poll", "sleep"} : pc' = [pc EXCEPT ![p][Acceptor] = label]
    BY <1>4
  <2>2. /\ pc' \in [Process -> [Coroutine -> Label]]
        /\ pc'[p][Acceptor] \in {"poll", "sleep"}
        /\ \A s \in RW : pc'[p][s] = pc[p][s]
        /\ \A q \in Process \ {p} : pc'[q] = pc[q]
    BY <1>2, <1>3, <2>1 DEF Label
  <2>3. /\ <<>> \in Seq(Coroutine) /\ ToSet(<<>>) = {}
    BY EmptySeq DEF ToSet
  <2>4. /\ stack' \in [Process -> Seq(Coroutine)] /\ stack'[p] = <<>>
        /\ \A q \in Process \ {p} : stack'[q] = stack[q]
    BY <1>3, <1>4, <2>3
  <2>5. TypeOK'
    BY <1>1, <1>4, <2>2, <2>4 DEF IInv, TypeOK
  <2>6. ASSUME NEW q \in Process, q # p PROVE ProcessRight(q)'
    BY <1>1, <1>4, <2>2, <2>4, <2>6, ProcessFrame DEF Unchanged, StaysEnded
  <2>7. ProcessRight(p)'
    <3>1. AcceptorRight(p)' /\ StackShape(p)'
      BY <2>2, <2>3, <2>4 DEF AcceptorRight, OnStack, StackShape
    <3>2. ASSUME NEW s \in RW PROVE WorkerRight(p, s)'
      BY <1>1, <1>2, <1>4, <2>2, <2>3, <2>4 DEF ProcessRight, WorkerRight, OnStack, InPool
    <3> QED  BY <1>1, <1>2, <1>4, <3>1, <3>2 DEF ProcessRight, Distinct
  <2>8. ConnRight'
    BY <1>1, <1>4, ConnSame
  <2> QED  BY <2>5, <2>6, <2>7, <2>8 DEF IInv
<1>5. CASE /\ pool[p] # <<>> /\ backlog # <<>>
           /\ backlog' = Tail(backlog)
           /\ task' = [task EXCEPT ![p][Last(pool[p])] = Head(backlog)]
           /\ pool' = [pool EXCEPT ![p] = Front(@)]
           /\ stack' = [stack EXCEPT ![p] = <<Acceptor, Last(pool[p])>>]
           /\ pc' = [pc EXCEPT ![p][Acceptor] = "accept"]
  <2> DEFINE r == Last(pool[p])
             c == Head(backlog)
  <2>1. /\ Front(pool[p]) \in Seq(RW) /\ r \in RW /\ r \in ToSet(pool[p])
        /\ Distinct(Front(pool[p]))
        /\ \A y : y \in ToSet(Front(pool[p])) <=> y \in ToSet(pool[p]) /\ y # r
    <3>1. pool[p] \in Seq(RW) /\ Distinct(pool[p])
      BY <1>2, <1>3 DEF ProcessRight
    <3> QED  BY <1>5, <3>1, FrontTaken
  <2>2. /\ backlog' \in Seq(Conn) /\ c \in Conn /\ c \in ToSet(backlog)
        /\ Distinct(backlog')
        /\ \A y : y \in ToSet(backlog') <=> y \in ToSet(backlog) /\ y # c
    <3>1. Distinct(backlog)
      BY DEF IInv, ConnRight
    <3> QED  BY <1>3, <1>5, <3>1, TailTaken
  <2>3. /\ <<Acceptor, r>> \in Seq(Coroutine)
        /\ ToSet(<<Acceptor, r>>) = {Acceptor, r}
    <3>1. Acceptor \in Coroutine /\ r \in Coroutine
      BY <1>2, <2>1
    <3>2. ToSet(<<Acceptor, r>>) = {Acceptor, r}
      BY <3>1, Short, Zenon
    <3> QED  BY <3>1, <3>2
  <2> HIDE DEF r, c
  <2>4. /\ pool' = [pool EXCEPT ![p] = Front(pool[p])]
        /\ task' = [task EXCEPT ![p][r] = c]
        /\ stack' = [stack EXCEPT ![p] = <<Acceptor, r>>]
    BY <1>5 DEF r, c
  <2>5. /\ pool' \in [Process -> Seq(RW)] /\ Distinct(pool'[p])
        /\ \A s : InPool(p, s)' <=> InPool(p, s) /\ s # r
        /\ stack' \in [Process -> Seq(Coroutine)] /\ stack'[p] = <<Acceptor, r>>
        /\ \A s : OnStack(p, s)' <=> s = Acceptor \/ s = r
        /\ \A q \in Process \ {p} : stack'[q] = stack[q] /\ pool'[q] = pool[q]
    BY <1>3, <2>1, <2>3, <2>4 DEF InPool, OnStack
  <2>6. /\ pc' \in [Process -> [Coroutine -> Label]]
        /\ pc'[p][Acceptor] = "accept"
        /\ \A s \in RW : pc'[p][s] = pc[p][s]
        /\ \A q \in Process \ {p} : pc'[q] = pc[q]
    BY <1>2, <1>3, <1>5 DEF Label
  <2>7. /\ task' \in [Process -> [RW -> Conn \cup {NoConn}]]
        /\ task'[p][r] = c
        /\ \A s \in RW \ {r} : task'[p][s] = task[p][s]
        /\ \A q \in Process \ {p} : task'[q] = task[q]
    BY <1>3, <2>1, <2>2, <2>4
  <2>8. TypeOK'
    BY <1>1, <2>2, <2>5, <2>6, <2>7 DEF IInv, TypeOK
  <2>9. ASSUME NEW q \in Process, q # p PROVE ProcessRight(q)'
    BY <1>1, <2>5, <2>6, <2>7, <2>9, ProcessFrame DEF Unchanged, StaysEnded
  <2>10. WorkerRight(p, r) /\ pc[p][r] = "top" /\ task[p][r] = NoConn /\ cur[p][r] = NoConn
    BY <1>2, <2>1 DEF ProcessRight, WorkerRight, InPool
  <2>11. ProcessRight(p)'
    <3>1. AcceptorRight(p)' /\ StackShape(p)'
      BY <2>1, <2>5, <2>6 DEF AcceptorRight, StackShape
    <3>2. ASSUME NEW s \in RW PROVE WorkerRight(p, s)'
      <4>1. WorkerRight(p, s) /\ s # Acceptor /\ ~OnStack(p, s)
        BY <1>1, <1>2 DEF ProcessRight
      <4>2. CASE s = r
        BY <1>1, <2>5, <2>6, <2>10, <4>1, <4>2 DEF WorkerRight
      <4>3. CASE s # r
        BY <1>1, <2>5, <2>6, <2>7, <4>1, <4>3 DEF WorkerRight
      <4> QED  BY <4>2, <4>3
    <3> QED  BY <1>1, <2>5, <3>1, <3>2 DEF ProcessRight, Distinct
  <2>12. ConnRight'
    <3>1. ASSUME NEW q \in Process, NEW s \in RW, NEW d
          PROVE  d \in Held(q, s)' <=> d \in Held(q, s) \/ (q = p /\ s = r /\ d = c)
      <4>1. cur' = cur /\ c # NoConn
        BY <1>1, <2>2, PreforkAssumption
      <4>2. CASE q = p /\ s = r
        BY <2>7, <2>10, <4>1, <4>2 DEF Held
      <4>3. CASE q # p \/ s # r
        <5>1. task'[q][s] = task[q][s]
          BY <2>7, <4>3
        <5> QED  BY <4>1, <4>3, <5>1 DEF Held
      <4> QED  BY <4>2, <4>3
    <3>2. ConnRight
      BY DEF IInv
    <3>3. /\ \A q \in Process : \A s \in RW : c \notin Held(q, s)
          /\ c \notin gone /\ gone' = gone
      BY <1>1, <2>2, <3>2 DEF ConnRight
    <3>6. Owners'
      <4>1. ASSUME NEW q \in Process, NEW u \in Process, NEW s \in RW, NEW v \in RW,
                   NEW d, d \in Held(q, s)', d \in Held(u, v)'
            PROVE  q = u /\ s = v
        <5>1. /\ d \in Held(q, s) \/ (q = p /\ s = r /\ d = c)
              /\ d \in Held(u, v) \/ (u = p /\ v = r /\ d = c)
          BY <3>1, <4>1
        <5> QED  BY <3>2, <3>3, <5>1 DEF ConnRight, Owners
      <4> QED  BY <4>1 DEF Owners
    <3>4. ASSUME NEW q \in Process, NEW s \in RW, NEW d \in Held(q, s)'
          PROVE  d \notin gone' /\ d \notin ToSet(backlog')
      <4>1. d \in Held(q, s) \/ d = c
        BY <3>1, <3>4
      <4> QED  BY <2>2, <3>2, <3>3, <4>1 DEF ConnRight
    <3>5. \A d \in ToSet(backlog') : d \notin gone'
      BY <1>1, <2>2 DEF IInv, ConnRight
    <3> QED  BY <2>2, <3>6, <3>4, <3>5 DEF ConnRight, Distinct
  <2> QED  BY <2>8, <2>9, <2>11, <2>12 DEF IInv
<1> QED  BY <1>4, <1>5, AcceptCases

(* A step in which routine r alone goes to another place. *)
LEMMA WentTo ==
  ASSUME IInv, NEW p \in Process, NEW r \in RW, NEW label \in Label, GoTo(p, r, label)
  PROVE  /\ pc' \in [Process -> [Coroutine -> Label]]
         /\ pc'[p][r] = label
         /\ pc'[p][Acceptor] = pc[p][Acceptor]
         /\ \A s \in RW \ {r} : pc'[p][s] = pc[p][s]
         /\ \A q \in Process \ {p} : pc'[q] = pc[q]
<1>1. r \in Coroutine /\ r # Acceptor /\ RW \subseteq Coroutine /\ Acceptor \in Coroutine
  BY PreforkAssumption DEF Coroutine
<1>2. pc \in [Process -> [Coroutine -> Label]]
  BY DEF IInv, TypeOK
<1> QED  BY <1>1, <1>2 DEF GoTo

LEMMA ReadIInv ==
  ASSUME IInv, NEW p \in Process, NEW r \in RW, Read(p, r)
  PROVE  IInv'
<1> DEFINE label == IF cur[p][r] \in unread THEN "write" ELSE "close"
<1>1. /\ InLoop(p) /\ pc[p][r] = "poll" /\ Resume(p, r) /\ GoTo(p, r, label)
      /\ label = "close" => cur[p][r] \in eof \cup reset
      /\ unread' = unread \ {cur[p][r]}
      /\ UNCHANGED <<main, status, task, cur, pool, backlog, gone, eof, reset>>
  BY DEF Read, processVars, AtEnd
<1>2. /\ ProcessRight(p) /\ Up(p) /\ Up(p)' /\ r # Acceptor /\ r \in Coroutine
      /\ label \in Label
  BY <1>1, PreforkAssumption DEF IInv, InLoop, Up, Coroutine, Label
<1>3. /\ stack' \in [Process -> Seq(Coroutine)]
      /\ StackShape(p)'
      /\ \A s : ~OnStack(p, s)
      /\ \A s : OnStack(p, s)' <=> s = r
      /\ \A q \in Process \ {p} : stack'[q] = stack[q]
  BY <1>1, <1>2, ResumeRight
<1>4. /\ pc' \in [Process -> [Coroutine -> Label]]
      /\ pc'[p][r] = label
      /\ pc'[p][Acceptor] = pc[p][Acceptor]
      /\ \A s \in RW \ {r} : pc'[p][s] = pc[p][s]
      /\ \A q \in Process \ {p} : pc'[q] = pc[q]
  BY <1>1, <1>2, WentTo
<1>5. TypeOK'
  BY <1>1, <1>3, <1>4 DEF IInv, TypeOK
<1>6. ASSUME NEW q \in Process, q # p PROVE ProcessRight(q)'
  BY <1>1, <1>3, <1>4, <1>6, ProcessFrame DEF Unchanged, StaysEnded
<1>7. ProcessRight(p)'
  <2>1. AcceptorRight(p)'
    BY <1>2, <1>3, <1>4 DEF ProcessRight, AcceptorRight
  <2>2. ASSUME NEW s \in RW PROVE WorkerRight(p, s)'
    <3>1. WorkerRight(p, s) /\ (InPool(p, s)' <=> InPool(p, s))
      BY <1>1, <1>2 DEF ProcessRight, InPool
    <3> QED  BY <1>1, <1>3, <1>4, <3>1 DEF WorkerRight
  <2> QED  BY <1>1, <1>2, <1>3, <2>1, <2>2 DEF ProcessRight, Distinct
<1>8. ConnRight'
  BY <1>1, ConnSame
<1> QED  BY <1>5, <1>6, <1>7, <1>8 DEF IInv

LEMMA WriteIInv ==
  ASSUME IInv, NEW p \in Process, NEW r \in RW, Write(p, r)
  PROVE  IInv'
<1>1. /\ Runs(p, r, "write")
      /\ UNCHANGED <<main, status, task, cur, pool, backlog, gone, unread, eof, reset>>
  BY DEF Write, processVars, connVars
<1>2. /\ ProcessRight(p) /\ WorkerRight(p, r) /\ Up(p) /\ Up(p)' /\ r # Acceptor
      /\ pc[p][r] = "write" /\ OnStack(p, r)
  BY <1>1, RunningRight, PreforkAssumption DEF IInv, ProcessRight, Up
<1>3. PICK label \in {"poll", "close"} :
         /\ GoTo(p, r, label)
         /\ label = "close" => cur[p][r] \in eof \cup reset /\ stack' = stack
         /\ label = "poll" => Yield(p)
  BY DEF Write
<1>4. /\ pc' \in [Process -> [Coroutine -> Label]]
      /\ pc'[p][r] = label
      /\ pc'[p][Acceptor] = pc[p][Acceptor]
      /\ \A s \in RW \ {r} : pc'[p][s] = pc[p][s]
      /\ \A q \in Process \ {p} : pc'[q] = pc[q]
  BY <1>3, WentTo DEF Label
<1>5. /\ stack' \in [Process -> Seq(Coroutine)]
      /\ StackShape(p)'
      /\ \A s : OnStack(p, s)' <=> OnStack(p, s) /\ (s # r \/ label = "close")
      /\ \A q \in Process \ {p} : stack'[q] = stack[q]
  <2>1. CASE label = "poll"
    BY <1>1, <1>3, <2>1, YieldRight
  <2>2. CASE label = "close"
    BY <1>2, <1>3, <2>2 DEF IInv, TypeOK, ProcessRight, StackShape, OnStack
  <2> QED  BY <1>3, <2>1, <2>2
<1>6. TypeOK'
  BY <1>1, <1>4, <1>5 DEF IInv, TypeOK
<1>7. ASSUME NEW q \in Process, q # p PROVE ProcessRight(q)'
  BY <1>1, <1>4, <1>5, <1>7, ProcessFrame DEF Unchanged, StaysEnded
<1>8. ProcessRight(p)'
  <2>1. AcceptorRight(p)'
    BY <1>2, <1>4, <1>5 DEF ProcessRight, AcceptorRight
  <2>2. ASSUME NEW s \in RW PROVE WorkerRight(p, s)'
    <3>1. WorkerRight(p, s) /\ (InPool(p, s)' <=> InPool(p, s))
      BY <1>1, <1>2 DEF ProcessRight, InPool
    <3> QED  BY <1>1, <1>2, <1>3, <1>4, <1>5, <3>1 DEF WorkerRight
  <2> QED  BY <1>1, <1>2, <1>5, <2>1, <2>2 DEF ProcessRight, Distinct
<1>9. ConnRight'
  BY <1>1, ConnSame
<1> QED  BY <1>6, <1>7, <1>8, <1>9 DEF IInv

(* A routine closes its descriptor and goes back to the top. *)
LEMMA CloseIInv ==
  ASSUME IInv, NEW p \in Process, NEW r \in RW, Close(p, r)
  PROVE  IInv'
<1> DEFINE c == cur[p][r]
<1>1. /\ Runs(p, r, "close") /\ GoTo(p, r, "top")
      /\ gone' = gone \cup {c} /\ unread' = unread \ {c}
      /\ eof' = eof \ {c} /\ reset' = reset \ {c}
      /\ cur' = [cur EXCEPT ![p][r] = NoConn]
      /\ UNCHANGED <<main, status, stack, task, pool, backlog>>
  BY DEF Close, Closes, processVars
<1>2. /\ ProcessRight(p) /\ WorkerRight(p, r) /\ Up(p) /\ Up(p)' /\ r # Acceptor
      /\ pc[p][r] = "close" /\ OnStack(p, r)
  BY <1>1, RunningRight, PreforkAssumption DEF IInv, ProcessRight, Up
<1>3. /\ pc' \in [Process -> [Coroutine -> Label]]
      /\ pc'[p][r] = "top"
      /\ pc'[p][Acceptor] = pc[p][Acceptor]
      /\ \A s \in RW \ {r} : pc'[p][s] = pc[p][s]
      /\ \A q \in Process \ {p} : pc'[q] = pc[q]
  BY <1>1, WentTo DEF Label
<1>4. /\ cur' \in [Process -> [RW -> Conn \cup {NoConn}]]
      /\ cur'[p][r] = NoConn
      /\ \A s \in RW \ {r} : cur'[p][s] = cur[p][s]
      /\ \A q \in Process \ {p} : cur'[q] = cur[q]
  BY <1>1 DEF IInv, TypeOK
<1>5. c \in Held(p, r) /\ c \in Conn
  BY <1>2 DEF WorkerRight, Held, IInv, TypeOK
<1>6. TypeOK'
  BY <1>1, <1>3, <1>4, <1>5 DEF IInv, TypeOK
<1>7. ASSUME NEW q \in Process, NEW s \in RW, q # p \/ s # r PROVE c \notin Held(q, s)
  BY <1>5, <1>7 DEF IInv, ConnRight, Owners
<1>8. ASSUME NEW q \in Process, NEW s \in RW, q # p \/ s # r,
             pc[q][s] = "close", cur[q][s] \in eof \cup reset
      PROVE  cur[q][s] \in eof' \cup reset'
  <2>1. cur[q][s] \in Held(q, s)
    BY <1>8 DEF IInv, ProcessRight, WorkerRight, Held
  <2> QED  BY <1>1, <1>7, <1>8, <2>1
<1> HIDE DEF c
<1>9. ASSUME NEW q \in Process, q # p PROVE ProcessRight(q)'
  BY <1>1, <1>3, <1>4, <1>8, <1>9, ProcessFrame DEF Unchanged, StaysEnded
<1>10. ProcessRight(p)'
  <2>1. AcceptorRight(p)'
    BY <1>1, <1>2, <1>3 DEF ProcessRight, AcceptorRight, OnStack
  <2>2. ASSUME NEW s \in RW PROVE WorkerRight(p, s)'
    <3>1. /\ WorkerRight(p, s) /\ (InPool(p, s)' <=> InPool(p, s))
          /\ OnStack(p, s)' <=> OnStack(p, s)
      BY <1>1, <1>2 DEF ProcessRight, InPool, OnStack
    <3>2. CASE s = r
      BY <1>1, <1>2, <1>3, <1>4, <3>1, <3>2 DEF WorkerRight
    <3>3. CASE s # r
      BY <1>1, <1>3, <1>4, <1>8, <3>1, <3>3 DEF WorkerRight
    <3> QED  BY <3>2, <3>3
  <2> QED  BY <1>1, <1>2, <2>1, <2>2 DEF ProcessRight, Distinct, StackShape
<1>11. ConnRight'
  <2>1. ASSUME NEW q \in Process, NEW s \in RW, NEW d \in Held(q, s)'
        PROVE  d \in Held(q, s) /\ d # c
    <3>1. CASE q = p /\ s = r
      <4>1. task[p][r] = NoConn
        BY <1>2 DEF WorkerRight
      <4> QED  BY <1>1, <1>4, <2>1, <3>1, <4>1 DEF Held
    <3>2. CASE q # p \/ s # r
      <4>1. cur'[q][s] = cur[q][s] /\ task' = task
        BY <1>1, <1>4, <3>2
      <4>2. d \in Held(q, s)
        BY <2>1, <4>1 DEF Held
      <4> QED  BY <1>7, <3>2, <4>2
    <3> QED  BY <3>1, <3>2
  <2>2. \A d \in ToSet(backlog) : d # c
    BY <1>5 DEF IInv, ConnRight
  <2> QED  BY <1>1, <2>1, <2>2, ConnFrame DEF IInv, ConnRight
<1> QED  BY <1>6, <1>9, <1>10, <1>11 DEF IInv

(* The connections of a process that dies are held by nobody else, and     *)
(* none of them waits for accept.                                          *)
LEMMA DieIInv ==
  ASSUME IInv, NEW p \in Process, NEW r \in RW, Die(p, r)
  PROVE  IInv'
<1>1. /\ status' = [status EXCEPT ![p] = "dead"] /\ main' = main
      /\ LastCloses(HeldBy(p))
      /\ stack' = [stack EXCEPT ![p] = <<>>]
      /\ pool' = [pool EXCEPT ![p] = <<>>]
      /\ pc' = [pc EXCEPT ![p] = [s \in Coroutine |-> "new"]]
      /\ task' = [task EXCEPT ![p] = [s \in RW |-> NoConn]]
      /\ cur' = [cur EXCEPT ![p] = [s \in RW |-> NoConn]]
  BY DEF Die
<1>2. /\ \A c \in HeldBy(p) : c \in Conn /\ c \notin ToSet(backlog)
      /\ \A q \in Process \ {p} : \A s \in RW : \A c \in Held(q, s) :
           c \notin HeldBy(p) /\ c \notin ToSet(backlog) /\ c \notin gone
  <2>1. ASSUME NEW c \in HeldBy(p) PROVE c \in Conn /\ c \notin ToSet(backlog)
    <3>1. PICK s \in RW : c \in Held(p, s)
      BY DEF HeldBy
    <3> QED  BY <3>1 DEF IInv, ConnRight, TypeOK, Held
  <2>2. ASSUME NEW q \in Process \ {p}, NEW s \in RW, NEW c \in Held(q, s)
        PROVE  c \notin HeldBy(p)
    <3>1. \A u \in RW : c \notin Held(p, u)
      BY DEF IInv, ConnRight, Owners
    <3> QED  BY <3>1 DEF HeldBy
  <2> QED  BY <2>1, <2>2 DEF IInv, ConnRight
<1>3. /\ backlog' \in Seq(Conn) /\ gone' \subseteq Conn /\ unread' \subseteq Conn
      /\ eof' \subseteq Conn /\ reset' \subseteq Conn
      /\ Distinct(backlog')
      /\ \A c \in ToSet(backlog') : c \in ToSet(backlog) /\ c \notin gone'
      /\ \A c : c \in gone' => c \in gone \/ c \in HeldBy(p) \/ c \in ToSet(backlog)
      /\ \A c : c \in eof \cup reset /\ c \notin HeldBy(p) \cup ToSet(backlog)
                => c \in eof' \cup reset'
  <2>1. HeldBy(p) \in SUBSET Conn
    BY <1>2
  <2> QED  BY <1>1, <1>2, <2>1, LastClosesRight
<1>4. /\ <<>> \in Seq(Coroutine) /\ <<>> \in Seq(RW)
      /\ ToSet(<<>>) = {} /\ Distinct(<<>>)
  BY EmptySeq DEF ToSet, Distinct
<1>5. /\ status' \in [Process -> {"none", "up", "dead"}] /\ status'[p] = "dead"
      /\ stack' \in [Process -> Seq(Coroutine)] /\ stack'[p] = <<>>
      /\ pool' \in [Process -> Seq(RW)] /\ pool'[p] = <<>>
      /\ pc' \in [Process -> [Coroutine -> Label]] /\ \A s \in Coroutine : pc'[p][s] = "new"
      /\ task' \in [Process -> [RW -> Conn \cup {NoConn}]]
      /\ cur' \in [Process -> [RW -> Conn \cup {NoConn}]]
      /\ \A s \in RW : task'[p][s] = NoConn /\ cur'[p][s] = NoConn
      /\ \A q \in Process \ {p} : Unchanged(q)
  BY <1>1, <1>4 DEF IInv, TypeOK, Label, Unchanged
<1>6. TypeOK'
  BY <1>1, <1>3, <1>5 DEF IInv, TypeOK
<1>7. ASSUME NEW q \in Process, q # p PROVE ProcessRight(q)'
  <2>1. \A s \in RW : pc[q][s] = "close" => cur[q][s] \in Held(q, s)
    BY DEF IInv, ProcessRight, WorkerRight, Held
  <2>2. StaysEnded(q)
    BY <1>2, <1>3, <1>7, <2>1 DEF StaysEnded
  <2> QED  BY <1>5, <1>7, <2>2, ProcessFrame
<1>8. ProcessRight(p)'
  BY <1>4, <1>5 DEF ProcessRight, StackShape, AcceptorRight, WorkerRight, OnStack, InPool, Blank,
                    Coroutine
<1>9. ConnRight'
  <2>1. \A q \in Process \ {p} : \A s \in RW : Held(q, s)' = Held(q, s)
    BY <1>5 DEF Held, Unchanged
  <2>2. \A s \in RW : Held(p, s)' = {}
    BY <1>5 DEF Held
  <2> QED  BY <1>2, <1>3, <2>1, <2>2, ConnFrame
<1> QED  BY <1>6, <1>7, <1>8, <1>9 DEF IInv

-----------------------------------------------------------------------------
LEMMA NextIInv == IInv /\ [Next]_vars => IInv'
<1> SUFFICES ASSUME IInv, [Next]_vars PROVE IInv'
  OBVIOUS
<1>1. CASE UNCHANGED vars
  <2>1. UNCHANGED <<main, status, stack, pc, task, cur, pool, backlog, gone, unread, eof, reset>>
    BY <1>1 DEF vars, processVars, routineVars, connVars
  <2>2. TypeOK'
    BY <2>1 DEF IInv, TypeOK
  <2>3. ASSUME NEW p \in Process PROVE ProcessRight(p)'
    BY <2>1, ProcessFrame DEF Unchanged, StaysEnded
  <2> QED  BY <2>1, <2>2, <2>3, ConnSame DEF IInv
<1>2. CASE Client
  BY <1>2, ClientIInv
<1>3. CASE Setup \/ Fork \/ Exit
  BY <1>3, SetupIInv, ForkIInv, ExitIInv
<1>4. ASSUME NEW p \in Process, Run(p) PROVE IInv'
  BY <1>4, StartIInv, TopIInv, WriteIInv, DieIInv, CloseIInv DEF Run
<1>5. ASSUME NEW p \in Process, Accept(p) PROVE IInv'
  BY <1>5, AcceptIInv
<1>6. ASSUME NEW p \in Process, NEW r \in RW, Read(p, r) PROVE IInv'
  BY <1>6, ReadIInv
<1> QED  BY <1>1, <1>2, <1>3, <1>4, <1>5, <1>6 DEF Next

(* IInv is an invariant: what the other theorems rest on. *)
THEOREM Invariance == Spec => []IInv
<1>1. Init => IInv
  BY InitIInv
<1>2. IInv /\ [Next]_vars => IInv'
  BY NextIInv
<1> QED  BY <1>1, <1>2, PTL DEF Spec

(* The variables of the processes and of the connections keep their types. *)
THEOREM TypeCorrect == Spec => []TypeOK
<1>1. IInv => TypeOK
  BY DEF IInv
<1> QED  BY <1>1, Invariance, PTL

(* Whatever processes accept from the one listening socket, a connection   *)
(* belongs to one routine of one process (accept_routine 89-125).          *)
THEOREM OwnersCorrect == Spec => []OneOwner
<1>1. IInv => OneOwner
  <2> SUFFICES ASSUME IInv PROVE OneOwner
    OBVIOUS
  <2>1. \A p, q \in Process : \A r, s \in RW :
           Held(p, r) \cap Held(q, s) # {} => p = q /\ r = s
    BY DEF IInv, ConnRight, Owners
  <2>2. \A p \in Process : \A r \in RW : task[p][r] = NoConn \/ cur[p][r] = NoConn
    BY DEF IInv, ProcessRight, WorkerRight
  <2>3. ASSUME NEW c \in Conn, Taken(c) PROVE c \notin gone \cup ToSet(backlog)
    <3>1. PICK p \in Process, r \in RW : c \in Held(p, r)
      BY <2>3 DEF Taken, HeldBy
    <3> QED  BY <3>1 DEF IInv, ConnRight
  <2>4. ASSUME NEW p \in Process, ~Up(p) PROVE HeldBy(p) = {}
    <3>1. \A r \in RW : Held(p, r) = {}
      BY <2>4 DEF IInv, ProcessRight, Blank, Held
    <3> QED  BY <3>1 DEF HeldBy
  <2> QED  BY <2>1, <2>2, <2>3, <2>4 DEF OneOwner
<1> QED  BY <1>1, Invariance, PTL

(* The routines in a pool are idle and no routine is lost, for any number  *)
(* of routines (readwrite_routine 55-58, accept_routine 104-126).          *)
THEOREM PoolsCorrect == Spec => []PoolIdle
<1>1. IInv => PoolIdle
  <2> SUFFICES ASSUME IInv, NEW p \in Process
               PROVE  /\ \A i, j \in 1 .. Len(pool[p]) : pool[p][i] = pool[p][j] => i = j
                      /\ \A r \in ToSet(pool[p]) : /\ pc[p][r] = "top"
                                                   /\ Held(p, r) = {}
                                                   /\ r \notin ToSet(stack[p])
                      /\ \A r \in RW : Up(p) /\ pc[p][r] # "new" /\ r \notin ToSet(stack[p])
                                         => r \in ToSet(pool[p]) \/ pc[p][r] = "poll"
    BY DEF PoolIdle
  <2>1. ProcessRight(p) /\ pool[p] \in Seq(RW)
    BY DEF IInv, TypeOK
  <2>2. \A r \in ToSet(pool[p]) : r \in RW
    BY <2>1, InToSet, ElementOfSeq
  <2>3. ASSUME NEW r \in ToSet(pool[p])
        PROVE  pc[p][r] = "top" /\ Held(p, r) = {} /\ r \notin ToSet(stack[p])
    BY <2>1, <2>2 DEF ProcessRight, WorkerRight, InPool, OnStack, Held
  <2>4. \A r \in RW : Up(p) /\ pc[p][r] # "new" /\ r \notin ToSet(stack[p])
                       => r \in ToSet(pool[p]) \/ pc[p][r] = "poll"
    BY <2>1 DEF ProcessRight, WorkerRight, InPool, OnStack
  <2> QED  BY <2>1, <2>3, <2>4 DEF ProcessRight, Distinct
<1> QED  BY <1>1, Invariance, PTL

(* The ways in which a connection ends. *)
MayEnd(c) == \/ c \in eof \cup reset
             \/ \E p \in Process : Up(p) /\ ~Up(p)' /\ c \in HeldBy(p)
             \/ c \in ToSet(backlog) /\ ~Listening'

(* The servers drop no connection: the close(fd) of accept_routine (117)   *)
(* is never reached, and that of readwrite_routine (80) only when the      *)
(* client is done or gone.                                                 *)
THEOREM DropsNothing == Spec => NeverDrops
<1>1. IInv /\ [Next]_vars => [\A c \in gone' \ gone : MayEnd(c)]_vars
  <2> SUFFICES ASSUME IInv, Next, NEW c \in gone' \ gone PROVE MayEnd(c)
    BY DEF vars, processVars, routineVars, connVars
  <2>1. CASE Client
    BY <2>1 DEF Client, Connect, Send, Shutdown, Reset
  <2>2. CASE Setup \/ Fork
    BY <2>2 DEF Setup, Fork, connVars
  <2>3. CASE Exit
    <3>1. LastCloses({})
      BY <2>3 DEF Exit
    <3> QED  BY <3>1, LastClosesRight DEF MayEnd
  <2>4. ASSUME NEW p \in Process, Run(p) PROVE MayEnd(c)
    <3>1. CASE \E r \in Coroutine : Start(p, r)
      BY <3>1 DEF Start, connVars
    <3>2. CASE \E r \in RW : Top(p, r) \/ Write(p, r)
      BY <3>2 DEF Top, Write, connVars
    <3>3. ASSUME NEW r \in RW, Close(p, r) PROVE MayEnd(c)
      <4>1. c = cur[p][r] /\ Runs(p, r, "close")
        BY <3>3 DEF Close, Closes
      <4>2. WorkerRight(p, r) /\ pc[p][r] = "close"
        BY <4>1 DEF IInv, ProcessRight, Runs
      <4> QED  BY <4>1, <4>2 DEF MayEnd, WorkerRight
    <3>4. ASSUME NEW r \in RW, Die(p, r) PROVE MayEnd(c)
      <4>1. /\ LastCloses(HeldBy(p)) /\ Up(p) /\ status' = [status EXCEPT ![p] = "dead"]
        BY <3>4 DEF Die, Runs
      <4>2. ~Up(p)'
        BY <4>1 DEF IInv, TypeOK, Up
      <4>3. c \in HeldBy(p) \/ (c \in ToSet(backlog) /\ c \notin ToSet(backlog'))
        BY <4>1 DEF LastCloses, Closes
      <4>4. c \notin ToSet(backlog') /\ c \in ToSet(backlog) => ~Listening'
        BY <4>1 DEF LastCloses
      <4> QED  BY <4>1, <4>2, <4>3, <4>4 DEF MayEnd
    <3> QED  BY <2>4, <3>1, <3>2, <3>3, <3>4 DEF Run
  <2>5. ASSUME NEW p \in Process, Accept(p) PROVE MayEnd(c)
    BY <2>5, AcceptCases
  <2>6. ASSUME NEW p \in Process, NEW r \in RW, Read(p, r) PROVE MayEnd(c)
    BY <2>6 DEF Read
  <2> QED  BY <2>1, <2>2, <2>3, <2>4, <2>5, <2>6 DEF Next
<1>2. [][\A c \in gone' \ gone : MayEnd(c)]_vars => NeverDrops
  BY DEF NeverDrops, MayEnd
<1> QED  BY <1>1, <1>2, Invariance, PTL DEF Spec

=============================================================================
