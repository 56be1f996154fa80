------------------------------ MODULE SysHook ------------------------------
(***************************************************************************)
(* The system calls of hook_sys_call.cpp.  A descriptor that socket() or   *)
(* co_accept() makes has an entry in g_rpchook_socket_fd, which remembers  *)
(* whether the user asked for O_NONBLOCK; the hooked calls then wait with  *)
(* poll() where the user expects a call that blocks, and pass through      *)
(* where the user does not.  poll() itself is not hooked (lines 584-600).  *)
(*                                                                         *)
(* Several threads make calls; a call is a few steps, between which the    *)
(* kernel, the peers and the other threads act.  Of the data only the      *)
(* number of bytes is kept.  Left out: timeouts (setsockopt), because a    *)
(* wait may end whenever the descriptor is not ready, the commands of      *)
(* fcntl that change nothing here, and descriptors beyond the table.       *)
(***************************************************************************)
EXTENDS Naturals, Integers

CONSTANTS Thread,     (* the threads                                       *)
          Fd,         (* the descriptors                                   *)
          NoFd,       (* the descriptor of a thread that makes no call     *)
          MaxBytes,   (* bound: the bytes of one call                      *)
          SndBuf      (* the room of the kernel for bytes that wait        *)

ASSUME SysHookAssumption == /\ NoFd \notin Fd
                            /\ MaxBytes \in Nat /\ SndBuf \in Nat

VARIABLES entry,      (* [Fd -> Entry]: g_rpchook_socket_fd, user_flag     *)
          file,       (* [Fd -> File]: what the kernel knows               *)
          call        (* [Thread -> Call]: the call of each thread         *)

vars == <<entry, file, call>>

Entry == {"none", "blocking", "nonblocking"}

(* A descriptor is free or open; peer is the state of the connection, room *)
(* the bytes that the kernel can take, avail the bytes it can give.        *)
Origin == {"free", "socket", "accept"}
Peer == {"none", "pending", "refused", "up", "gone"}
File == [origin : Origin, nonblock : BOOLEAN, peer : Peer,
         room : 0 .. SndBuf, avail : 0 .. 1]

FreeFile == [origin |-> "free", nonblock |-> FALSE, peer |-> "none",
             room |-> 0, avail |-> 0]

(* A call has its place, the bytes asked for, those counted (wrotelen) and *)
(* those the kernel took or gave, the result of the last system call, the  *)
(* waits of connect, and how the last wait ended, if there was one.        *)
Op == {"none", "socket", "accept", "close", "connect", "write", "sendto", "read"}
Step == {"start", "alloc", "setfl", "sysclose", "poll", "try", "return"}
Wait == {"none", "ready", "timeout"}
Call == [op : Op, fd : Fd \cup {NoFd}, step : Step, nbyte : 0 .. MaxBytes,
         wrotelen : 0 .. MaxBytes, moved : 0 .. MaxBytes,
         ret : -1 .. MaxBytes, polls : 0 .. 2, wait : Wait]

NewCall(op, fd, step, n) ==
  [op |-> op, fd |-> fd, step |-> step, nbyte |-> n, wrotelen |-> 0, moved |-> 0,
   ret |-> 0, polls |-> 0, wait |-> "none"]

NoCall == NewCall("none", NoFd, "start", 0)

Init == /\ entry = [fd \in Fd |-> "none"]
        /\ file = [fd \in Fd |-> FreeFile]
        /\ call = [t \in Thread |-> NoCall]

(* Callers use a descriptor in one thread at a time. *)
MayUse(fd) == /\ file[fd].origin # "free"
              /\ \A t \in Thread : call[t].fd # fd

Begin(t, op, fd, n) ==
  /\ call[t] = NoCall
  /\ call' = [call EXCEPT ![t] = NewCall(op, fd, "start", n)]

At(t, ops, step) == call[t].op \in ops /\ call[t].step = step

Goto(t, step) == call' = [call EXCEPT ![t].step = step]

Returns(t, ret) == call' = [call EXCEPT ![t].step = "return", ![t].ret = ret]

Return(t) == /\ call[t].step = "return"
             /\ call' = [call EXCEPT ![t] = NoCall]
             /\ UNCHANGED <<entry, file>>

(* Whether a call on fd passes through to the system. *)
PassesThrough(fd) == entry[fd] \in {"none", "nonblocking"}

-----------------------------------------------------------------------------
(* The table: socket, co_accept, close, fcntl(F_SETFL).                    *)

NewFile(origin, nonblock) ==
  [origin |-> origin, nonblock |-> nonblock,
   peer |-> IF origin = "accept" THEN "up" ELSE "none",
   room |-> IF origin = "accept" THEN SndBuf ELSE 0, avail |-> 0]

(* The system makes a descriptor; socket() can ask for SOCK_NONBLOCK. *)
SysOpen(t, fd, op, nonblock) ==
  /\ file[fd].origin = "free"
  /\ op = "accept" => ~nonblock
  /\ call[t] = NoCall
  /\ call' = [call EXCEPT ![t] = NewCall(op, fd, "alloc", 0)]
  /\ file' = [file EXCEPT ![fd] = NewFile(op, nonblock)]
  /\ UNCHANGED entry

Alloc(t) == /\ At(t, {"socket", "accept"}, "alloc")
            /\ entry' = [entry EXCEPT ![call[t].fd] = "blocking"]
            /\ Goto(t, IF call[t].op = "socket" THEN "setfl" ELSE "return")
            /\ UNCHANGED file

(* The flags that the system gets when the user asks for O_NONBLOCK or     *)
(* not, and those that the entry remembers.                                *)
FlagFor(fd, nonblock) == nonblock \/ entry[fd] # "none"

Remembered(fd, nonblock) == IF entry[fd] = "none" THEN "none"
                            ELSE IF nonblock THEN "nonblocking" ELSE "blocking"

SetFlags(fd, nonblock) ==
  /\ file' = [file EXCEPT ![fd].nonblock = FlagFor(fd, nonblock)]
  /\ entry' = [entry EXCEPT ![fd] = Remembered(fd, nonblock)]

(* socket() sets the flags that it gets from the system. *)
SetFl(t) == /\ At(t, {"socket"}, "setfl")
            /\ SetFlags(call[t].fd, file[call[t].fd].nonblock)
            /\ Goto(t, "return")

Fcntl(t, fd, nonblock) == /\ call[t] = NoCall
                          /\ MayUse(fd)
                          /\ SetFlags(fd, nonblock)
                          /\ UNCHANGED call

(* Mutant of Freed: the entry of a closed descriptor stays. *)
Freed_Not(fd) == entry

Freed(fd) == [entry EXCEPT ![fd] = "none"]

Close(t) == /\ At(t, {"close"}, "start")
            /\ entry' = Freed(call[t].fd)
            /\ Goto(t, "sysclose")
            /\ UNCHANGED file

SysClose(t) == /\ At(t, {"close"}, "sysclose")
               /\ file' = [file EXCEPT ![call[t].fd] = FreeFile]
               /\ Returns(t, 0)
               /\ UNCHANGED entry

-----------------------------------------------------------------------------
(* The system calls that move bytes, and poll.  send is the same as write, *)
(* and recv and recvfrom are the same as read.                             *)

Writers == {"write", "sendto"}
Readers == {"read"}

Least(m, n) == IF m <= n THEN m ELSE n

(* What a system call for n bytes may return on the descriptor f; no       *)
(* result means that it blocks.  (One that blocks may take a part only,    *)
(* when a signal ends it.)                                                 *)
SysWrite(f, n) ==
  IF n = 0 THEN {0}
  ELSE IF f.peer # "up" THEN {-1}
  ELSE IF f.room > 0 THEN {Least(n, f.room)}
  ELSE IF f.nonblock THEN {-1} ELSE {}

SysRead(f, n) ==
  IF f.peer \in {"none", "pending"} THEN {-1}
  ELSE IF f.avail > 0 \/ n = 0 THEN {Least(n, f.avail)}
  ELSE IF f.peer \in {"refused", "gone"} THEN {0, -1}
  ELSE IF f.nonblock THEN {-1} ELSE {}

Moved(n) == IF n > 0 THEN n ELSE 0

(* A descriptor that is not connected is ready: its calls fail at once.    *)
Ready(op, f) == \/ f.peer \in {"none", "refused", "gone"}
                \/ op \in Readers /\ f.avail > 0
                \/ op \in Writers /\ f.room > 0
                \/ op = "connect" /\ f.peer = "up"

(* poll() returns at once if the descriptor is ready, or when the timeout  *)
(* has passed.                                                             *)
Polled(t) ==
  [call EXCEPT ![t].step = "try",
               ![t].wait = IF Ready(call[t].op, file[call[t].fd])
                           THEN "ready" ELSE "timeout"]

Poll(t) == /\ At(t, Writers \cup Readers, "poll")
           /\ call' = Polled(t)
           /\ UNCHANGED <<entry, file>>

(* A reader waits first and then tries once. *)
StartRead(t) == /\ At(t, Readers, "start")
                /\ Goto(t, IF PassesThrough(call[t].fd) THEN "try" ELSE "poll")
                /\ UNCHANGED <<entry, file>>

TryRead(t) ==
  /\ At(t, Readers, "try")
  /\ \E r \in SysRead(file[call[t].fd], call[t].nbyte) :
       /\ file' = [file EXCEPT ![call[t].fd].avail = @ - Moved(r)]
       /\ call' = [call EXCEPT ![t].step = "return", ![t].ret = r, ![t].moved = Moved(r)]
  /\ UNCHANGED entry

(* Mutant of Counted: only the bytes of the last try are counted. *)
Counted_Last(c, r) == Moved(r)

(* wrotelen after a try that returned r *)
Counted(c, r) == c.wrotelen + Moved(r)

(* Mutant of TriesAgain: a first try that fails returns its failure. *)
TriesAgain_Moved(c, r) == c.op = "write" /\ r > 0 /\ Counted(c, r) < c.nbyte

(* write and send wait and try again while something is left, until a try  *)
(* after a wait takes nothing.  (The first try may fail: the loop is then  *)
(* entered all the same.)                                                  *)
TriesAgain(c, r) == /\ c.op = "write"
                    /\ r # 0
                    /\ Counted(c, r) < c.nbyte
                    /\ r > 0 \/ c.step = "start"

(* Mutant of WaitsAgain: a try that takes nothing does not end the loop. *)
WaitsAgain_Always(c, r) == c.op = "write" /\ Counted(c, r) < c.nbyte

(* sendto waits once, if there was no room (EAGAIN). *)
WaitsAgain(c, r) ==
  \/ TriesAgain(c, r)
  \/ /\ c.op = "sendto" /\ c.step = "start"
     /\ r < 0 /\ file[c.fd].peer \in {"pending", "up"}

(* What the call returns if it does not wait again. *)
Result(c, r) == IF c.op = "sendto" \/ PassesThrough(c.fd) \/ (r <= 0 /\ c.wrotelen = 0)
                THEN r ELSE Counted(c, r)

TryWrite(t) ==
  /\ At(t, Writers, "start") \/ At(t, Writers, "try")
  /\ LET c == call[t]
     IN  \E r \in SysWrite(file[c.fd], c.nbyte - c.wrotelen) :
           /\ file' = [file EXCEPT ![c.fd].room = @ - Moved(r)]
           /\ IF ~PassesThrough(c.fd) /\ WaitsAgain(c, r)
              THEN call' = [call EXCEPT ![t].step = "poll",
                                        ![t].wrotelen = Counted(c, r),
                                        ![t].moved = @ + Moved(r)]
              ELSE call' = [call EXCEPT ![t].step = "return", ![t].ret = Result(c, r),
                                        ![t].moved = @ + Moved(r)]
  /\ UNCHANGED entry

-----------------------------------------------------------------------------
(* connect: the connection is made or refused at once or later; connect    *)
(* polls three times.                                                      *)

SysConnect(t) ==
  /\ At(t, {"connect"}, "start")
  /\ LET fd == call[t].fd
     IN  \/ /\ file[fd].peer # "none"
            /\ Returns(t, -1)
            /\ UNCHANGED file
         \/ /\ file[fd].peer = "none"
            /\ \E p \in {"up", "refused", "pending"} :
                 /\ file' = [file EXCEPT ![fd].peer = p,
                                         ![fd].room = IF p = "up" THEN SndBuf ELSE 0]
                 /\ IF p = "pending" /\ ~PassesThrough(fd)
                    THEN Goto(t, "poll")
                    ELSE Returns(t, IF p = "up" THEN 0 ELSE -1)
  /\ UNCHANGED entry

GivesUp(t) == call[t].polls = 2

(* POLLOUT says that the connection is made, or that it was refused. *)
PollConnect(t) ==
  /\ At(t, {"connect"}, "poll")
  /\ IF Ready("connect", file[call[t].fd]) THEN Returns(t, 0)
     ELSE IF GivesUp(t) THEN Returns(t, -1)
     ELSE call' = [call EXCEPT ![t].polls = @ + 1]
  /\ UNCHANGED <<entry, file>>

-----------------------------------------------------------------------------
(* The kernel and the peers.                                               *)

Settle(fd) == /\ file[fd].peer = "pending"
              /\ \/ file' = [file EXCEPT ![fd].peer = "up", ![fd].room = SndBuf]
                 \/ file' = [file EXCEPT ![fd].peer = "refused"]
              /\ UNCHANGED <<entry, call>>

Drain(fd) == /\ file[fd].peer = "up" /\ file[fd].room < SndBuf
             /\ file' = [file EXCEPT ![fd].room = @ + 1]
             /\ UNCHANGED <<entry, call>>

PeerSends(fd) == /\ file[fd].peer = "up" /\ file[fd].avail = 0
                 /\ file' = [file EXCEPT ![fd].avail = 1]
                 /\ UNCHANGED <<entry, call>>

(* The peer resets the connection; SIGPIPE is taken to be ignored. *)
PeerGoes(fd) == /\ file[fd].peer = "up"
                /\ file' = [file EXCEPT ![fd].peer = "gone", ![fd].room = 0]
                /\ UNCHANGED <<entry, call>>

-----------------------------------------------------------------------------
(* The calls that a thread may begin. *)
BeginCall(t) ==
  \E fd \in Fd :
    \/ \E op \in {"socket", "accept"}, nonblock \in BOOLEAN : SysOpen(t, fd, op, nonblock)
    \/ \E nonblock \in BOOLEAN : Fcntl(t, fd, nonblock)
    \/ /\ MayUse(fd)
       /\ \/ Begin(t, "close", fd, 0)
          \/ file[fd].origin = "socket" /\ Begin(t, "connect", fd, 0)
          \/ \E op \in Writers, n \in 0 .. MaxBytes : Begin(t, op, fd, n)
          \/ \E op \in Readers : Begin(t, op, fd, MaxBytes)
       /\ UNCHANGED <<entry, file>>

Continue(t) == \/ Alloc(t) \/ SetFl(t) \/ Close(t) \/ SysClose(t)
               \/ StartRead(t) \/ TryRead(t) \/ TryWrite(t) \/ Poll(t)
               \/ SysConnect(t) \/ PollConnect(t) \/ Return(t)

Kernel == \E fd \in Fd : Settle(fd) \/ Drain(fd) \/ PeerSends(fd) \/ PeerGoes(fd)

Next == \/ \E t \in Thread : BeginCall(t) \/ Continue(t)
        \/ Kernel

Spec == Init /\ [][Next]_vars

(* A thread that can go on with its call does so; nobody owes it a peer.   *)
FairSpec == Spec /\ \A t \in Thread : WF_vars(Continue(t))

-----------------------------------------------------------------------------
(* Properties.                                                             *)

TypeOK == /\ entry \in [Fd -> Entry]
          /\ file \in [Fd -> File]
          /\ call \in [Thread -> Call]

Settled(fd) == \A t \in Thread :
                 call[t].fd = fd => call[t].op \notin {"socket", "accept", "close"}

(* The table agrees with the kernel: a free number has no entry, so that   *)
(* the next descriptor does not inherit one (close frees it first, line    *)
(* 333); a descriptor in use has one, and is O_NONBLOCK wherever the       *)
(* hooked calls count on it: if socket() made it or the user asked for it. *)
TableAgrees ==
  \A fd \in Fd :
    /\ file[fd].origin = "free" => entry[fd] = "none"
    /\ file[fd].origin # "free" /\ Settled(fd)
         => /\ entry[fd] # "none"
            /\ (file[fd].origin = "socket" \/ entry[fd] = "nonblocking")
                 => file[fd].nonblock

(* What a call returns is what the kernel took or gave in all of its       *)
(* system calls: write and send count the parts of a message (lines 389 to *)
(* 424), and report no failure once a part is gone.                        *)
CountsRight ==
  \A t \in Thread :
    At(t, Writers \cup Readers, "return") => Moved(call[t].ret) = call[t].moved

(* Where the user expects a call that blocks, it fails on a connection     *)
(* that is up, or being made, only if it has waited and the wait has timed *)
(* out: never at once for want of room or of bytes, and never after a wait *)
(* that saw the descriptor ready (read lines 355-362, write 389-424,       *)
(* sendto 450-464).                                                        *)
FailsOnlyAfterWait ==
  \A t \in Thread :
    (/\ At(t, Writers \cup Readers, "return")
     /\ call[t].ret = -1
     /\ entry[call[t].fd] = "blocking"
     /\ file[call[t].fd].peer \in {"pending", "up"})
      => call[t].wait = "timeout"

(* Every call on a descriptor that socket() made comes to an end, whatever *)
(* the peer does: each wait has a timeout, and none of the loops goes on   *)
(* without an answer (write and send lines 404-419, connect 289-301).      *)
CallsEnd ==
  \A t \in Thread :
    (call[t].op # "none" /\ file[call[t].fd].origin = "socket") ~> call[t] = NoCall
=============================================================================
