--------------------------- MODULE SysHook_proofs ---------------------------
(***************************************************************************)
(* Proofs about the hooked system calls: the safety properties of SysHook  *)
(* are invariant for any threads, descriptors, lengths and room.           *)
(*                                                                         *)
(* The strengthening says three things: a descriptor that a call uses      *)
(* belongs to that call alone, until close has given the number back; the  *)
(* table and the flags are right but for the call that is changing them;   *)
(* and what a call counts, and what its last wait told, is still true.     *)
(***************************************************************************)
EXTENDS SysHook, TLAPS

Users == Writers \cup Readers

(* A call owns its descriptor, up to the system's close. *)
Owns(t) == call[t] # NoCall /\ ~At(t, {"close"}, "return")

(* What the call of t, not yet ended, knows of its descriptor. *)
CallKnows(t) ==
  LET c == call[t]
      f == file[c.fd]
  IN  /\ c # NoCall => c.fd \in Fd /\ c.op # "none"
      /\ Owns(t) => f.origin # "free"
      /\ At(t, {"accept"}, "alloc") => f.origin = "accept"
      /\ At(t, {"socket"}, "setfl") => entry[c.fd] # "none"
      /\ At(t, {"close"}, "sysclose") => entry[c.fd] = "none"

(* What the call of t has counted. *)
CallCounts(t) ==
  LET c == call[t]
  IN  c.op \in Users =>
        /\ c.wrotelen <= c.nbyte
        /\ c.step = "return" => Moved(c.ret) = c.moved
        /\ c.step # "return" => /\ c.moved = c.wrotelen
                                /\ c.op # "write" => c.wrotelen = 0
        /\ c.step = "start" => c.wrotelen = 0 /\ c.wait = "none"
        /\ c.step \in {"poll", "try"} /\ c.op \in Writers => entry[c.fd] = "blocking"

Dead == {"none", "refused", "gone"}

(* A descriptor that a wait saw ready stays so until it is used; a try of  *)
(* a call that does not pass through is the first one or follows a wait,   *)
(* and a failure is due to a dead descriptor or to a wait in vain.         *)
CallWaited(t) ==
  LET c == call[t]
      f == file[c.fd]
  IN  /\ c.op \in Users /\ c.step = "try" /\ c.wait = "ready"
           => \/ f.peer \in Dead
              \/ /\ f.peer = "up"
                 /\ c.op \in Writers => f.room > 0
                 /\ c.op \in Readers => f.avail > 0
      /\ c.op \in Users /\ c.step = "try" /\ c.wait = "none"
           => entry[c.fd] # "blocking"
      /\ c.op \in Users /\ c.step = "return" /\ c.ret = -1 /\ entry[c.fd] = "blocking"
           => c.wait = "timeout" \/ f.peer \in Dead

CallRight(t) == CallKnows(t) /\ CallCounts(t) /\ CallWaited(t)

(* The call of t changes the entry or the flags of fd. *)
Changes(t, fd) == /\ call[t].fd = fd
                  /\ \/ At(t, {"socket", "accept"}, "alloc")
                     \/ At(t, {"socket"}, "setfl")
                     \/ At(t, {"close"}, "sysclose")

FdRight(fd) ==
  LET f == file[fd]
  IN  /\ f.room > 0 => f.peer = "up"
      /\ f.avail > 0 => f.peer \in {"up", "gone"}
      /\ f.origin = "free" => entry[fd] = "none"
      /\ f.origin # "free" /\ ~(\E t \in Thread : Changes(t, fd))
           => /\ entry[fd] # "none"
              /\ f.origin = "socket" \/ entry[fd] = "nonblocking" => f.nonblock

OneOwner == \A t, u \in Thread :
              Owns(t) /\ Owns(u) /\ call[t].fd = call[u].fd => t = u

IInv == /\ TypeOK
        /\ \A t \in Thread : CallRight(t)
        /\ \A fd \in Fd : FdRight(fd)
        /\ OneOwner

-----------------------------------------------------------------------------
LEMMA NewCallType ==
  ASSUME NEW op \in Op, NEW fd \in Fd, NEW step \in Step, NEW n \in 0 .. MaxBytes
  PROVE  NewCall(op, fd, step, n) \in Call
<1>1. 0 \in 0 .. MaxBytes /\ 0 \in -1 .. MaxBytes /\ 0 \in 0 .. 2
  BY SysHookAssumption
<1> QED  BY <1>1 DEF NewCall, Call, Wait

(* In the beginning there are no calls and no descriptors. *)
LEMMA InitIInv == Init => IInv
<1> SUFFICES ASSUME Init PROVE IInv
  OBVIOUS
<1>1. TypeOK
  BY SysHookAssumption
  DEF Init, TypeOK, NoCall, NewCall, FreeFile, Call, File, Entry, Op, Step, Wait, Origin, Peer
<1>2. ASSUME NEW t \in Thread PROVE CallRight(t) /\ ~Owns(t)
  BY <1>2 DEF Init, NoCall, NewCall, CallRight, CallKnows, CallCounts, CallWaited, Owns, At,
              Users, Writers, Readers
<1>3. ASSUME NEW fd \in Fd PROVE FdRight(fd)
  BY <1>3 DEF Init, FreeFile, FdRight
<1> QED  BY <1>1, <1>2, <1>3 DEF IInv, OneOwner

(* A call that has not returned owns its descriptor, and no other does. *)
LEMMA ActiveOwns ==
  ASSUME IInv, NEW t \in Thread, call[t].op # "none", call[t].step # "return"
  PROVE  /\ Owns(t)
         /\ call[t].fd \in Fd
         /\ file[call[t].fd].origin # "free"
         /\ \A u \in Thread \ {t} : Owns(u) => call[u].fd # call[t].fd
<1>1. call[t] # NoCall
  BY DEF NoCall, NewCall
<1>2. Owns(t)
  BY <1>1 DEF Owns, At
<1> QED  BY <1>1, <1>2 DEF IInv, CallRight, CallKnows, OneOwner

(* A step of t that concerns fd alone, which nobody else owns, leaves the  *)
(* calls of the others and the other descriptors as they should be.        *)
LEMMA Frame ==
  ASSUME IInv, TypeOK', NEW t \in Thread, NEW fd \in Fd,
         \A u \in Thread \ {t} : call'[u] = call[u],
         \A g \in Fd \ {fd} : entry'[g] = entry[g] /\ file'[g] = file[g],
         \A u \in Thread \ {t} : Owns(u) => call[u].fd # fd,
         call[t].fd \in {fd, NoFd}, call'[t].fd \in {fd, NoFd},
         CallRight(t)', FdRight(fd)'
  PROVE  IInv'
<1>1. ASSUME NEW u \in Thread \ {t} PROVE CallRight(u)'
  <2>1. CallRight(u) /\ call'[u] = call[u]
    BY DEF IInv
  <2>2. CASE Owns(u)
    <3>1. call[u].fd \in Fd \ {fd}
      BY <2>1, <2>2 DEF CallRight, CallKnows, Owns
    <3>2. entry'[call[u].fd] = entry[call[u].fd] /\ file'[call[u].fd] = file[call[u].fd]
      BY <3>1
    <3> QED  BY <2>1, <3>2 DEF CallRight, CallKnows, CallCounts, CallWaited, Owns, At
  <2>3. CASE ~Owns(u)
    BY <2>1, <2>3 DEF CallRight, CallKnows, CallCounts, CallWaited, Owns, At, NoCall, NewCall,
                      Users, Writers, Readers
  <2> QED  BY <2>2, <2>3
<1>2. ASSUME NEW g \in Fd \ {fd} PROVE FdRight(g)'
  <2>1. FdRight(g) /\ entry'[g] = entry[g] /\ file'[g] = file[g]
    BY DEF IInv
  <2>2. \A u \in Thread : Changes(u, g)' <=> Changes(u, g)
    <3>1. ~Changes(t, g) /\ ~Changes(t, g)'
      BY SysHookAssumption DEF Changes
    <3>2. \A u \in Thread \ {t} : Changes(u, g)' <=> Changes(u, g)
      BY DEF Changes, At
    <3> QED  BY <3>1, <3>2
  <2> QED  BY <2>1, <2>2 DEF FdRight
<1>3. OneOwner'
  <2>1. \A u \in Thread \ {t} : Owns(u)' <=> Owns(u)
    BY DEF Owns, At
  <2>2. Owns(t)' => call'[t].fd = fd
    BY SysHookAssumption DEF Owns, CallRight, CallKnows
  <2> QED  BY <2>1, <2>2 DEF IInv, OneOwner
<1> QED  BY <1>1, <1>2, <1>3 DEF IInv

(* The frame of a step of a call that is under way. *)
LEMMA ActiveFrame ==
  ASSUME IInv, TypeOK', NEW t \in Thread,
         call[t].op # "none", call[t].step # "return",
         \A u \in Thread \ {t} : call'[u] = call[u],
         \A g \in Fd \ {call[t].fd} : entry'[g] = entry[g] /\ file'[g] = file[g],
         call'[t].fd = call[t].fd,
         CallRight(t)', FdRight(call[t].fd)'
  PROVE  IInv'
BY ActiveOwns, Frame

-----------------------------------------------------------------------------
(* The table.                                                              *)

(* A new descriptor has no entry until the call that makes it adds one. *)
LEMMA SysOpenIInv ==
  ASSUME IInv, NEW t \in Thread, NEW fd \in Fd, NEW op \in {"socket", "accept"},
         NEW nonblock \in BOOLEAN, SysOpen(t, fd, op, nonblock)
  PROVE  IInv'
<1> DEFINE c == NewCall(op, fd, "alloc", 0)
<1>1. c = [op |-> op, fd |-> fd, step |-> "alloc", nbyte |-> 0, wrotelen |-> 0,
           moved |-> 0, ret |-> 0, polls |-> 0, wait |-> "none"]
  BY DEF NewCall
<1>2. call' = [call EXCEPT ![t] = c] /\ call[t] = NoCall
  BY DEF SysOpen
<1>3. NewFile(op, nonblock) =
        [origin |-> op, nonblock |-> nonblock,
         peer |-> IF op = "accept" THEN "up" ELSE "none",
         room |-> IF op = "accept" THEN SndBuf ELSE 0, avail |-> 0]
  BY DEF NewFile
<1>4. TypeOK'
  <2>1. c \in Call
    BY NewCallType, SysHookAssumption DEF Op, Step
  <2>2. NewFile(op, nonblock) \in File
    BY <1>3, SysHookAssumption DEF File, Origin, Peer
  <2> QED  BY <1>2, <2>1, <2>2 DEF IInv, TypeOK, SysOpen
<1>5. /\ call'[t] = c /\ file'[fd] = NewFile(op, nonblock)
      /\ entry'[fd] = "none"
  BY <1>2 DEF SysOpen, IInv, TypeOK, FdRight
<1>6. CallRight(t)'
  BY <1>1, <1>3, <1>5 DEF CallRight, CallKnows, CallCounts, CallWaited, Owns, At, NoCall, NewCall,
                          Users, Writers, Readers
<1>7. FdRight(fd)'
  <2>1. Changes(t, fd)'
    BY <1>1, <1>5 DEF Changes, At
  <2> QED  BY <1>3, <1>5, <2>1, SysHookAssumption DEF FdRight
<1>8. \A u \in Thread \ {t} : Owns(u) => call[u].fd # fd
  BY DEF IInv, CallRight, CallKnows, SysOpen
<1>9. call[t].fd = NoFd /\ call'[t].fd = fd
  BY <1>1, <1>2, <1>5 DEF NoCall, NewCall
<1>10. /\ \A u \in Thread \ {t} : call'[u] = call[u]
       /\ \A g \in Fd \ {fd} : entry'[g] = entry[g] /\ file'[g] = file[g]
  BY <1>2 DEF SysOpen, IInv, TypeOK
<1> QED  BY <1>4, <1>6, <1>7, <1>8, <1>9, <1>10, Frame

(* alloc_by_fd adds the entry. *)
LEMMA AllocIInv ==
  ASSUME IInv, NEW t \in Thread, Alloc(t)
  PROVE  IInv'
<1> DEFINE fd == call[t].fd
<1> USE DEF IInv
<1>1. Owns(t) /\ fd \in Fd /\ file[fd].origin # "free"
  BY ActiveOwns DEF Alloc, At
<1>2. /\ call'[t] = [call[t] EXCEPT !.step = IF call[t].op = "socket" THEN "setfl" ELSE "return"]
      /\ entry'[fd] = "blocking" /\ file' = file
  BY <1>1 DEF Alloc, Goto, TypeOK
<1>3. TypeOK'
  BY <1>1 DEF Alloc, Goto, TypeOK, Call, Step, Entry
<1>4. CallRight(t)'
  BY <1>1, <1>2 DEF TypeOK, Call, Alloc, CallRight, CallKnows, CallCounts, CallWaited, Owns, At,
                    Users, Writers, Readers, NoCall, NewCall
<1>5. FdRight(fd)'
  <2>1. call[t].op = "socket" => Changes(t, fd)'
    BY <1>1, <1>2 DEF Changes, At, TypeOK, Call
  <2>2. call[t].op # "socket" => file[fd].origin = "accept"
    BY DEF Alloc, At, CallRight, CallKnows
  <2> QED  BY <1>1, <1>2, <2>1, <2>2 DEF FdRight
<1>6. /\ \A u \in Thread \ {t} : call'[u] = call[u]
      /\ \A g \in Fd \ {fd} : entry'[g] = entry[g] /\ file'[g] = file[g]
      /\ call'[t].fd = fd
  BY <1>2 DEF Alloc, Goto, TypeOK, Call
<1> QED  BY <1>3, <1>4, <1>5, <1>6, ActiveFrame DEF Alloc, At

(* socket sets the flags of its descriptor, which has an entry by then. *)
LEMMA SetFlIInv ==
  ASSUME IInv, NEW t \in Thread, SetFl(t)
  PROVE  IInv'
<1> DEFINE fd == call[t].fd
<1> USE DEF IInv
<1>1. Owns(t) /\ fd \in Fd /\ file[fd].origin # "free" /\ entry[fd] # "none"
  BY ActiveOwns DEF SetFl, At, CallRight, CallKnows
<1>2. /\ call'[t] = [call[t] EXCEPT !.step = "return"]
      /\ entry'[fd] = IF file[fd].nonblock THEN "nonblocking" ELSE "blocking"
      /\ file'[fd] = [file[fd] EXCEPT !.nonblock = TRUE]
  BY <1>1 DEF SetFl, SetFlags, FlagFor, Remembered, Goto, TypeOK, File
<1>3. TypeOK'
  <2>1. entry' \in [Fd -> Entry]
    BY <1>1 DEF SetFl, SetFlags, Remembered, TypeOK, Entry
  <2>2. FlagFor(fd, file[fd].nonblock) = TRUE
    BY <1>1 DEF FlagFor
  <2>3. file' \in [Fd -> File]
    BY <1>1, <2>2 DEF SetFl, SetFlags, TypeOK, File
  <2>4. call' \in [Thread -> Call]
    BY DEF SetFl, Goto, TypeOK, Call, Step
  <2> QED  BY <2>1, <2>3, <2>4 DEF TypeOK
<1>4. CallRight(t)'
  BY <1>1, <1>2 DEF TypeOK, Call, File, SetFl, CallRight, CallKnows, CallCounts, CallWaited,
                    Owns, At, Users, Writers, Readers, NoCall, NewCall
<1>5. FdRight(fd)'
  BY <1>1, <1>2 DEF FdRight, TypeOK, File
<1>6. /\ \A u \in Thread \ {t} : call'[u] = call[u]
      /\ \A g \in Fd \ {fd} : entry'[g] = entry[g] /\ file'[g] = file[g]
      /\ call'[t].fd = fd
  BY <1>2 DEF SetFl, SetFlags, Goto, TypeOK, Call
<1> QED  BY <1>3, <1>4, <1>5, <1>6, ActiveFrame DEF SetFl, At

(* The user sets flags between two calls. *)
LEMMA FcntlIInv ==
  ASSUME IInv, NEW t \in Thread, NEW fd \in Fd, NEW nonblock \in BOOLEAN,
         Fcntl(t, fd, nonblock)
  PROVE  IInv'
<1> USE DEF IInv
<1>1. file[fd].origin # "free" /\ \A u \in Thread : call[u].fd # fd
  BY DEF Fcntl, MayUse
<1>2. entry[fd] # "none"
  BY <1>1 DEF FdRight, Changes
<1>3. /\ entry'[fd] = IF nonblock THEN "nonblocking" ELSE "blocking"
      /\ file'[fd] = [file[fd] EXCEPT !.nonblock = TRUE]
      /\ call' = call
      /\ \A g \in Fd \ {fd} : entry'[g] = entry[g] /\ file'[g] = file[g]
  BY <1>2 DEF Fcntl, SetFlags, FlagFor, Remembered, TypeOK, File
<1>4. TypeOK'
  BY <1>2 DEF Fcntl, SetFlags, FlagFor, Remembered, TypeOK, Entry, File
<1>5. CallRight(t)'
  BY <1>3 DEF Fcntl, CallRight, CallKnows, CallCounts, CallWaited, Owns, At, NoCall, NewCall,
              Users, Writers, Readers
<1>6. FdRight(fd)'
  BY <1>1, <1>2, <1>3 DEF FdRight, TypeOK, File
<1>7. call[t].fd = NoFd
  BY DEF Fcntl, NoCall, NewCall
<1> QED  BY <1>1, <1>3, <1>4, <1>5, <1>6, <1>7, Frame

(* close frees the entry first, and then the number. *)
LEMMA CloseIInv ==
  ASSUME IInv, NEW t \in Thread, Close(t)
  PROVE  IInv'
<1> DEFINE fd == call[t].fd
<1> USE DEF IInv
<1>1. Owns(t) /\ fd \in Fd /\ file[fd].origin # "free"
  BY ActiveOwns DEF Close, At
<1>2. /\ call'[t] = [call[t] EXCEPT !.step = "sysclose"]
      /\ entry'[fd] = "none" /\ file' = file
  BY <1>1 DEF Close, Freed, Goto, TypeOK
<1>3. TypeOK'
  BY <1>1 DEF Close, Freed, Goto, TypeOK, Call, Step, Entry
<1>4. CallRight(t)'
  BY <1>1, <1>2 DEF TypeOK, Call, Close, CallRight, CallKnows, CallCounts, CallWaited,
                    Owns, At, Users, Writers, Readers, NoCall, NewCall
<1>5. FdRight(fd)'
  <2>1. Changes(t, fd)'
    BY <1>1, <1>2 DEF Close, Changes, At, TypeOK, Call
  <2> QED  BY <1>1, <1>2, <2>1 DEF FdRight
<1>6. /\ \A u \in Thread \ {t} : call'[u] = call[u]
      /\ \A g \in Fd \ {fd} : entry'[g] = entry[g] /\ file'[g] = file[g]
      /\ call'[t].fd = fd
  BY <1>2 DEF Close, Freed, Goto, TypeOK, Call
<1> QED  BY <1>3, <1>4, <1>5, <1>6, ActiveFrame DEF Close, At

LEMMA SysCloseIInv ==
  ASSUME IInv, NEW t \in Thread, SysClose(t)
  PROVE  IInv'
<1> DEFINE fd == call[t].fd
<1> USE DEF IInv
<1>1. Owns(t) /\ fd \in Fd /\ entry[fd] = "none"
  BY ActiveOwns DEF SysClose, At, CallRight, CallKnows
<1>2. /\ call'[t] = [call[t] EXCEPT !.step = "return", !.ret = 0]
      /\ entry' = entry /\ file'[fd] = FreeFile
  BY <1>1 DEF SysClose, Returns, TypeOK
<1>3. TypeOK'
  <2>1. 0 \in -1 .. MaxBytes /\ 0 \in 0 .. SndBuf
    BY SysHookAssumption
  <2>2. FreeFile \in File
    BY <2>1 DEF FreeFile, File, Origin, Peer
  <2>3. call'[t] \in Call
    BY <1>2, <2>1 DEF TypeOK, Call, Step
  <2> QED  BY <1>1, <2>2, <2>3 DEF SysClose, Returns, TypeOK
<1>4. CallRight(t)'
  BY <1>1, <1>2 DEF TypeOK, Call, SysClose, CallRight, CallKnows, CallCounts, CallWaited,
                    Owns, At, Users, Writers, Readers, NoCall, NewCall
<1>5. FdRight(fd)'
  BY <1>1, <1>2 DEF FdRight, FreeFile
<1>6. /\ \A u \in Thread \ {t} : call'[u] = call[u]
      /\ \A g \in Fd \ {fd} : entry'[g] = entry[g] /\ file'[g] = file[g]
      /\ call'[t].fd = fd
  BY <1>2 DEF SysClose, Returns, TypeOK, Call
<1> QED  BY <1>3, <1>4, <1>5, <1>6, ActiveFrame DEF SysClose, At

-----------------------------------------------------------------------------
(* The calls that read and write.                                          *)

(* What a system call returns: a failure, or no more than was asked for    *)
(* and than there is room, or are bytes, for.                              *)
LEMMA SysWriteResult ==
  ASSUME NEW f \in File, NEW n \in Nat, NEW r \in SysWrite(f, n)
  PROVE  /\ r \in -1 .. n
         /\ r > 0 => r <= f.room /\ f.peer = "up"
         /\ n > 0 /\ f.peer = "up" /\ f.room > 0 => r > 0
BY SysHookAssumption DEF SysWrite, Least, File

LEMMA SysReadResult ==
  ASSUME NEW f \in File, NEW n \in Nat, NEW r \in SysRead(f, n)
  PROVE  /\ r \in -1 .. n
         /\ r > 0 => r <= f.avail
         /\ f.peer = "up" /\ f.avail > 0 => r # -1
BY SysHookAssumption DEF SysRead, Least, File

(* A call begins on a descriptor that no call uses. *)
LEMMA BeginIInv ==
  ASSUME IInv, NEW t \in Thread, NEW fd \in Fd, NEW n \in 0 .. MaxBytes, MayUse(fd),
         NEW op \in {"close", "connect", "write", "sendto", "read"},
         Begin(t, op, fd, n), UNCHANGED <<entry, file>>
  PROVE  IInv'
<1> USE DEF IInv
<1>1. /\ call[t] = NoCall
      /\ call' = [call EXCEPT ![t] = NewCall(op, fd, "start", n)]
      /\ file[fd].origin # "free" /\ \A u \in Thread : call[u].fd # fd
      /\ entry' = entry /\ file' = file
  BY DEF Begin, MayUse
<1>2. TypeOK'
  <2>1. NewCall(op, fd, "start", n) \in Call
    BY NewCallType DEF Op, Step
  <2> QED  BY <1>1, <2>1 DEF TypeOK
<1>3. call'[t] = NewCall(op, fd, "start", n)
  BY <1>1 DEF TypeOK
<1>4. CallRight(t)'
  BY <1>1, <1>3, SysHookAssumption
  DEF CallRight, CallKnows, CallCounts, CallWaited, Owns, At, NoCall, NewCall,
      Users, Writers, Readers
<1>5. FdRight(fd)'
  BY <1>1 DEF FdRight, Changes
<1>6. /\ \A u \in Thread \ {t} : call'[u] = call[u]
      /\ call[t].fd = NoFd /\ call'[t].fd = fd
  BY <1>1, <1>3 DEF TypeOK, NoCall, NewCall
<1> QED  BY <1>1, <1>2, <1>4, <1>5, <1>6, Frame

(* A call returns. *)
LEMMA ReturnIInv ==
  ASSUME IInv, NEW t \in Thread, Return(t)
  PROVE  IInv'
<1> USE DEF IInv
<1>1. /\ call[t].step = "return"
      /\ call' = [call EXCEPT ![t] = NoCall]
      /\ entry' = entry /\ file' = file
      /\ call'[t] = NoCall /\ \A u \in Thread \ {t} : call'[u] = call[u]
  BY DEF Return, TypeOK
<1>2. TypeOK'
  <2>1. 0 \in 0 .. MaxBytes /\ 0 \in -1 .. MaxBytes /\ 0 \in 0 .. 2
    BY SysHookAssumption
  <2>2. NoCall \in Call
    BY <2>1 DEF NoCall, NewCall, Call, Op, Step, Wait
  <2> QED  BY <1>1, <2>2 DEF TypeOK
<1>3. ASSUME NEW u \in Thread PROVE CallRight(u)'
  <2>1. CASE u = t
    BY <1>1, <2>1 DEF CallRight, CallKnows, CallCounts, CallWaited, Owns, At, NoCall, NewCall,
                      Users, Writers, Readers
  <2>2. CASE u # t
    BY <1>1, <2>2 DEF CallRight, CallKnows, CallCounts, CallWaited, Owns, At
  <2> QED  BY <2>1, <2>2
<1>4. ASSUME NEW fd \in Fd PROVE FdRight(fd)'
  <2>1. \A u \in Thread : Changes(u, fd) => Changes(u, fd)'
    BY <1>1 DEF Changes, At
  <2> QED  BY <1>1, <2>1 DEF FdRight
<1>5. OneOwner'
  BY <1>1 DEF OneOwner, Owns, At
<1> QED  BY <1>2, <1>3, <1>4, <1>5

(* A reader that does not pass through waits first. *)
LEMMA StartReadIInv ==
  ASSUME IInv, NEW t \in Thread, StartRead(t)
  PROVE  IInv'
<1> DEFINE fd == call[t].fd
<1> USE DEF IInv
<1>1. Owns(t) /\ fd \in Fd /\ file[fd].origin # "free"
  BY ActiveOwns DEF StartRead, At, Readers
<1> DEFINE step == IF PassesThrough(fd) THEN "try" ELSE "poll"
<1>2. step \in {"try", "poll"} /\ (step = "try" => PassesThrough(fd))
  OBVIOUS
<1> HIDE DEF step
<1>3. call' = [call EXCEPT ![t].step = step]
  BY DEF StartRead, Goto, step
<1>4. /\ call'[t] = [call[t] EXCEPT !.step = step]
      /\ entry' = entry /\ file' = file
  BY <1>3 DEF StartRead, TypeOK
<1>5. TypeOK'
  BY <1>2, <1>3, <1>4 DEF TypeOK, Call, Step
<1>6. CallRight(t)'
  BY <1>1, <1>2, <1>4
  DEF TypeOK, Call, PassesThrough, StartRead, CallRight, CallKnows, CallCounts,
      CallWaited, Owns, At, Users, Writers, Readers, NoCall, NewCall
<1>7. FdRight(fd)'
  <2>1. \A u \in Thread : Changes(u, fd) => Changes(u, fd)'
    BY <1>3, <1>4 DEF Changes, At, StartRead, Readers, TypeOK, Call
  <2> QED  BY <1>1, <1>4, <2>1 DEF FdRight
<1>8. /\ \A u \in Thread \ {t} : call'[u] = call[u]
      /\ \A g \in Fd \ {fd} : entry'[g] = entry[g] /\ file'[g] = file[g]
      /\ call'[t].fd = fd
  BY <1>3, <1>4 DEF TypeOK, Call
<1> QED  BY <1>5, <1>6, <1>7, <1>8, ActiveFrame DEF StartRead, At, Readers

(* After a wait the call knows whether the descriptor is ready. *)
LEMMA PollIInv ==
  ASSUME IInv, NEW t \in Thread, Poll(t)
  PROVE  IInv'
<1> DEFINE fd == call[t].fd
           ready == Ready(call[t].op, file[fd])
<1> USE DEF IInv
<1>1. Owns(t) /\ fd \in Fd /\ file[fd].origin # "free"
  BY ActiveOwns DEF Poll, At, Writers, Readers
<1>2. (IF ready THEN "ready" ELSE "timeout") \in {"ready", "timeout"}
  OBVIOUS
<1>3. /\ call'[t] = [call[t] EXCEPT !.step = "try",
                                    !.wait = IF ready THEN "ready" ELSE "timeout"]
      /\ entry' = entry /\ file' = file
  BY DEF Poll, Polled, TypeOK
<1>4. TypeOK'
  <2>1. call'[t] \in Call
    BY <1>2, <1>3 DEF TypeOK, Call, Step, Wait
  <2> QED  BY <1>3, <2>1 DEF Poll, Polled, TypeOK
<1>5. call[t].op \in Writers \cup Readers /\ call[t].step = "poll"
  BY DEF Poll, At
<1>6. CallRight(t)'
  <2>1. CallKnows(t)' /\ CallCounts(t)'
    BY <1>1, <1>3, <1>5 DEF TypeOK, Call, CallRight, CallKnows, CallCounts,
                            Owns, At, Users, Writers, Readers, NoCall, NewCall
  <2>2. CallWaited(t)'
    <3>1. ready => \/ file[fd].peer \in Dead
                   \/ /\ file[fd].peer = "up"
                      /\ call[t].op \in Writers => file[fd].room > 0
                      /\ call[t].op \in Readers => file[fd].avail > 0
      BY <1>1, <1>5 DEF Ready, FdRight, Dead, Writers, Readers
    <3> QED  BY <1>3, <1>5, <3>1 DEF CallWaited, TypeOK, Call
  <2> QED  BY <2>1, <2>2 DEF CallRight
<1>7. FdRight(fd)'
  <2>1. \A u \in Thread : Changes(u, fd) => Changes(u, fd)'
    BY <1>3, <1>5 DEF Poll, Polled, Changes, At, Writers, Readers, TypeOK, Call
  <2> QED  BY <1>1, <1>3, <2>1 DEF FdRight
<1>8. /\ \A u \in Thread \ {t} : call'[u] = call[u]
      /\ \A g \in Fd \ {fd} : entry'[g] = entry[g] /\ file'[g] = file[g]
      /\ call'[t].fd = fd
  BY <1>3 DEF Poll, Polled, TypeOK, Call
<1> QED  BY <1>4, <1>5, <1>6, <1>7, <1>8, ActiveFrame DEF Writers, Readers

(* A try to read takes what is there; after a wait that saw some, it does  *)
(* not fail.                                                               *)
LEMMA TryReadIInv ==
  ASSUME IInv, NEW t \in Thread, TryRead(t)
  PROVE  IInv'
<1> DEFINE fd == call[t].fd
           n == call[t].nbyte
<1> USE DEF IInv
<1>1. Owns(t) /\ fd \in Fd /\ file[fd].origin # "free"
  BY ActiveOwns DEF TryRead, At, Readers
<1>2. PICK r \in SysRead(file[fd], n) :
        /\ file' = [file EXCEPT ![fd].avail = @ - Moved(r)]
        /\ call' = [call EXCEPT ![t].step = "return", ![t].ret = r, ![t].moved = Moved(r)]
  BY DEF TryRead
<1>3. /\ file[fd] \in File /\ n \in 0 .. MaxBytes /\ call[t] \in Call
      /\ call[t].op \in Readers /\ call[t].step = "try" /\ entry' = entry
  BY <1>1 DEF TypeOK, Call, TryRead, At
<1>4. /\ r \in -1 .. n /\ Moved(r) \in 0 .. n
      /\ r > 0 => r <= file[fd].avail
      /\ file[fd].peer = "up" /\ file[fd].avail > 0 => r # -1
  BY <1>2, <1>3, SysReadResult, SysHookAssumption DEF Moved
<1>5. file[fd].avail - Moved(r) \in 0 .. 1
  BY <1>3, <1>4 DEF File, Moved
<1>6. /\ call'[t] = [call[t] EXCEPT !.step = "return", !.ret = r, !.moved = Moved(r)]
      /\ file'[fd] = [file[fd] EXCEPT !.avail = @ - Moved(r)]
  BY <1>1, <1>2 DEF TypeOK
<1>7. TypeOK'
  <2>1. Moved(r) \in 0 .. MaxBytes /\ r \in -1 .. MaxBytes
    BY <1>3, <1>4, SysHookAssumption
  <2>2. call'[t] \in Call
    BY <1>3, <1>6, <2>1 DEF Call, Step
  <2>3. file'[fd] \in File
    BY <1>3, <1>5, <1>6 DEF File
  <2> QED  BY <1>2, <1>3, <2>2, <2>3 DEF TypeOK
<1>8. CallRight(t)'
  <2>1. CallKnows(t)' /\ CallCounts(t)'
    BY <1>1, <1>3, <1>6 DEF Call, File, CallRight, CallKnows, CallCounts, Owns, At, Users,
                            Writers, Readers, NoCall, NewCall
  <2>2. CallWaited(t)'
    <3>1. SUFFICES ASSUME r = -1, entry[fd] = "blocking", call[t].wait # "timeout"
                   PROVE  file'[fd].peer \in Dead
      BY <1>3, <1>6 DEF CallWaited, Call
    <3>2. call[t].wait = "ready"
      BY <1>3, <3>1 DEF CallRight, CallWaited, Users, Call, Wait
    <3>3. file[fd].peer \in Dead
      BY <1>3, <1>4, <3>1, <3>2 DEF CallRight, CallWaited, Users
    <3> QED  BY <1>3, <1>6, <3>3 DEF File
  <2> QED  BY <2>1, <2>2 DEF CallRight
<1>9. FdRight(fd)'
  <2>1. \A u \in Thread : Changes(u, fd) => Changes(u, fd)'
    BY <1>2, <1>3 DEF Changes, At, Readers, TypeOK, Call
  <2>2. file'[fd].avail > 0 => file[fd].avail > 0
    BY <1>3, <1>4, <1>6 DEF File
  <2> QED  BY <1>1, <1>3, <1>6, <2>1, <2>2 DEF FdRight, File
<1>10. /\ \A u \in Thread \ {t} : call'[u] = call[u]
       /\ \A g \in Fd \ {fd} : entry'[g] = entry[g] /\ file'[g] = file[g]
       /\ call'[t].fd = fd
  BY <1>2, <1>3, <1>6 DEF TypeOK, Call
<1> QED  BY <1>3, <1>7, <1>8, <1>9, <1>10, ActiveFrame DEF Readers

(* A try to write counts what the kernel took, and then waits for room or  *)
(* returns the sum.                                                        *)
LEMMA TryWriteIInv ==
  ASSUME IInv, NEW t \in Thread, TryWrite(t)
  PROVE  IInv'
<1> DEFINE c == call[t]
           fd == call[t].fd
           n == call[t].nbyte - call[t].wrotelen
<1> USE DEF IInv
<1>1. /\ c \in Call /\ c.op \in Writers /\ c.step \in {"start", "try"} /\ entry' = entry
  BY DEF TypeOK, TryWrite, At
<1>2. /\ Owns(t) /\ fd \in Fd /\ file[fd].origin # "free"
  BY <1>1, ActiveOwns DEF Writers
<1>3. PICK r \in SysWrite(file[fd], n) :
        /\ file' = [file EXCEPT ![fd].room = @ - Moved(r)]
        /\ IF ~PassesThrough(fd) /\ WaitsAgain(c, r)
           THEN call' = [call EXCEPT ![t].step = "poll",
                                     ![t].wrotelen = Counted(c, r),
                                     ![t].moved = @ + Moved(r)]
           ELSE call' = [call EXCEPT ![t].step = "return", ![t].ret = Result(c, r),
                                     ![t].moved = @ + Moved(r)]
  BY DEF TryWrite
<1>4. /\ c.nbyte \in 0 .. MaxBytes /\ c.wrotelen \in 0 .. c.nbyte
      /\ c.moved = c.wrotelen
      /\ c.op # "write" => c.wrotelen = 0
      /\ c.step = "start" => c.wrotelen = 0 /\ c.wait = "none"
      /\ c.step = "try" => entry[fd] = "blocking"
  BY <1>1 DEF Call, CallRight, CallCounts, Users
<1>5. n \in Nat /\ file[fd] \in File
  BY <1>2, <1>4 DEF TypeOK
<1>6. /\ r \in -1 .. n /\ Moved(r) \in 0 .. n
      /\ r > 0 => r <= file[fd].room /\ file[fd].peer = "up"
      /\ n > 0 /\ file[fd].peer = "up" /\ file[fd].room > 0 => r > 0
  BY <1>3, <1>5, SysWriteResult DEF Moved
<1>7. file[fd].room - Moved(r) \in 0 .. SndBuf
  BY <1>5, <1>6, SysHookAssumption DEF File, Moved
<1>8. Counted(c, r) \in 0 .. c.nbyte /\ Counted(c, r) = c.moved + Moved(r)
  BY <1>4, <1>6 DEF Counted
<1>9. /\ Result(c, r) \in -1 .. c.nbyte
      /\ Moved(Result(c, r)) = c.moved + Moved(r)
      /\ Result(c, r) = -1 => r = -1
  <2>1. CASE c.op = "sendto" \/ PassesThrough(fd) \/ (r <= 0 /\ c.wrotelen = 0)
    <3>1. Result(c, r) = r
      BY <2>1 DEF Result
    <3>2. c.wrotelen = 0
      BY <1>1, <1>4, <2>1 DEF PassesThrough
    <3> QED  BY <1>4, <1>6, <3>1, <3>2
  <2>2. CASE ~(c.op = "sendto" \/ PassesThrough(fd) \/ (r <= 0 /\ c.wrotelen = 0))
    <3>1. Result(c, r) = Counted(c, r)
      BY <2>2 DEF Result
    <3> QED  BY <1>4, <1>8, <3>1 DEF Moved
  <2> QED  BY <2>1, <2>2
<1>10. /\ Counted(c, r) \in 0 .. MaxBytes /\ c.moved + Moved(r) \in 0 .. MaxBytes
       /\ Result(c, r) \in -1 .. MaxBytes
  BY <1>4, <1>8, <1>9, SysHookAssumption
<1>11. file'[fd] = [file[fd] EXCEPT !.room = @ - Moved(r)] /\ file' \in [Fd -> File]
  BY <1>2, <1>3, <1>5, <1>7 DEF TypeOK, File
<1>12. \A g \in Fd \ {fd} : entry'[g] = entry[g] /\ file'[g] = file[g]
  BY <1>1, <1>3 DEF TypeOK
<1>13. /\ call'[t] \in Call
       /\ call'[t].op = c.op /\ call'[t].fd = fd /\ call'[t].step \in {"poll", "return"}
       /\ call' \in [Thread -> Call]
       /\ \A u \in Thread \ {t} : call'[u] = call[u]
       /\ CallCounts(t)' /\ CallWaited(t)'
  <2>1. CASE ~PassesThrough(fd) /\ WaitsAgain(c, r)
    <3>1. call'[t] = [c EXCEPT !.step = "poll", !.wrotelen = Counted(c, r),
                               !.moved = @ + Moved(r)]
      BY <1>1, <1>3, <2>1 DEF TypeOK
    <3>2. call'[t] \in Call
      BY <1>1, <1>10, <3>1 DEF Call, Step
    <3>3. c.op = "sendto" => Counted(c, r) = 0
      <4>1. c.op = "sendto" => r < 0
        BY <2>1 DEF WaitsAgain, TriesAgain
      <4> QED  BY <1>4, <1>6, <4>1 DEF Counted, Moved
    <3>4. entry[fd] = "blocking"
      BY <1>2, <2>1 DEF PassesThrough, TypeOK, Entry
    <3>5. CallCounts(t)' /\ CallWaited(t)'
      BY <1>1, <1>4, <1>8, <3>1, <3>3, <3>4
      DEF Call, CallCounts, CallWaited, Users, Writers
    <3>6. call'[t].op = c.op /\ call'[t].fd = fd /\ call'[t].step = "poll"
      BY <1>1, <3>1 DEF Call
    <3>7. call' \in [Thread -> Call] /\ \A u \in Thread \ {t} : call'[u] = call[u]
      BY <1>3, <2>1, <3>2 DEF TypeOK
    <3> QED  BY <3>2, <3>5, <3>6, <3>7
  <2>2. CASE ~(~PassesThrough(fd) /\ WaitsAgain(c, r))
    <3>1. call'[t] = [c EXCEPT !.step = "return", !.ret = Result(c, r),
                               !.moved = @ + Moved(r)]
      BY <1>1, <1>3, <2>2 DEF TypeOK
    <3>2. call'[t] \in Call
      BY <1>1, <1>10, <3>1 DEF Call, Step
    <3>3. CallCounts(t)'
      BY <1>1, <1>4, <1>9, <3>1 DEF Call, CallCounts
    <3>4. CallWaited(t)'
      <4>1. SUFFICES ASSUME Result(c, r) = -1, entry[fd] = "blocking", c.wait # "timeout"
                     PROVE  file'[fd].peer \in Dead
        BY <1>1, <3>1 DEF CallWaited, Call
      <4>2. r = -1 /\ n > 0
        BY <1>3, <1>5, <1>9, <4>1 DEF SysWrite
      <4>3. file[fd].peer \in Dead
        <5>1. CASE c.step = "try"
          <6>1. c.wait = "ready"
            BY <1>1, <4>1, <5>1 DEF CallRight, CallWaited, Users, Call, Wait
          <6> QED  BY <1>1, <1>6, <4>2, <5>1, <6>1 DEF CallRight, CallWaited, Users
        <5>2. CASE c.step = "start"
          <6>1. Counted(c, r) < c.nbyte
            BY <1>4, <4>2, <5>2 DEF Counted, Moved
          <6>2. file[fd].peer \notin {"pending", "up"}
            BY <1>1, <2>2, <4>1, <4>2, <5>2, <6>1
            DEF PassesThrough, WaitsAgain, TriesAgain, Writers
          <6> QED  BY <1>5, <6>2 DEF File, Peer, Dead
        <5> QED  BY <1>1, <5>1, <5>2
      <4> QED  BY <1>5, <1>11, <4>3 DEF File
    <3>5. call'[t].op = c.op /\ call'[t].fd = fd /\ call'[t].step = "return"
      BY <1>1, <3>1 DEF Call
    <3>6. call' \in [Thread -> Call] /\ \A u \in Thread \ {t} : call'[u] = call[u]
      BY <1>3, <2>2, <3>2 DEF TypeOK
    <3> QED  BY <3>2, <3>3, <3>4, <3>5, <3>6
  <2> QED  BY <2>1, <2>2
<1>14. TypeOK'
  BY <1>1, <1>11, <1>13 DEF TypeOK
<1>15. CallKnows(t)'
  BY <1>1, <1>2, <1>5, <1>11, <1>13
  DEF CallKnows, Owns, At, File, NoCall, NewCall, Writers
<1>16. FdRight(fd)'
  <2>1. \A u \in Thread : Changes(u, fd) => Changes(u, fd)'
    BY <1>1, <1>13 DEF Changes, At, Writers
  <2>2. file'[fd].room > 0 => file[fd].room > 0
    BY <1>5, <1>6, <1>11 DEF File
  <2>3. /\ file'[fd].origin = file[fd].origin /\ file'[fd].nonblock = file[fd].nonblock
        /\ file'[fd].peer = file[fd].peer /\ file'[fd].avail = file[fd].avail
    BY <1>5, <1>11 DEF File
  <2> QED  BY <1>1, <1>2, <1>13, <2>1, <2>2, <2>3 DEF FdRight
<1> QED  BY <1>1, <1>12, <1>13, <1>14, <1>15, <1>16, ActiveFrame DEF Writers, CallRight

-----------------------------------------------------------------------------
(* connect, the kernel and the peers.                                      *)

LEMMA SysConnectIInv ==
  ASSUME IInv, NEW t \in Thread, SysConnect(t)
  PROVE  IInv'
<1> DEFINE fd == call[t].fd
<1> USE DEF IInv
<1>1. /\ Owns(t) /\ fd \in Fd /\ file[fd].origin # "free" /\ file[fd] \in File
      /\ call[t] \in Call /\ call[t].op = "connect" /\ call[t].step = "start"
      /\ entry' = entry
  BY ActiveOwns DEF SysConnect, At, TypeOK
<1>2. PICK step \in {"poll", "return"}, ret \in {call[t].ret, 0, -1} :
        call' = [call EXCEPT ![t].step = step, ![t].ret = ret]
  <2>1. \/ \E ret \in {0, -1} : Returns(t, ret)
        \/ Goto(t, "poll")
    BY DEF SysConnect
  <2>2. CASE \E ret \in {0, -1} : Returns(t, ret)
    BY <2>2 DEF Returns
  <2>3. CASE Goto(t, "poll")
    <3>1. [call EXCEPT ![t].step = "poll"] =
            [call EXCEPT ![t].step = "poll", ![t].ret = call[t].ret]
      BY <1>1 DEF TypeOK, Call
    <3> QED  BY <2>3, <3>1 DEF Goto
  <2> QED  BY <2>1, <2>2, <2>3
<1>3. /\ call'[t] = [call[t] EXCEPT !.step = step, !.ret = ret]
      /\ \A u \in Thread \ {t} : call'[u] = call[u]
  BY <1>2 DEF TypeOK
<1>4. call' \in [Thread -> Call]
  <2>1. ret \in -1 .. MaxBytes
    BY <1>1, SysHookAssumption DEF Call
  <2>2. call'[t] \in Call
    BY <1>1, <1>3, <2>1 DEF Call, Step
  <2> QED  BY <1>2, <2>2 DEF TypeOK
<1>5. /\ file' \in [Fd -> File]
      /\ \A g \in Fd \ {fd} : file'[g] = file[g]
      /\ file'[fd].origin = file[fd].origin /\ file'[fd].nonblock = file[fd].nonblock
      /\ file'[fd].room > 0 => file'[fd].peer = "up"
      /\ file'[fd].avail > 0 => file'[fd].peer \in {"up", "gone"}
  <2>1. CASE file' = file
    BY <1>1, <2>1 DEF TypeOK, FdRight
  <2>2. CASE /\ file[fd].peer = "none"
             /\ \E p \in {"up", "refused", "pending"} :
                  file' = [file EXCEPT ![fd].peer = p,
                                       ![fd].room = IF p = "up" THEN SndBuf ELSE 0]
    <3>1. PICK p \in {"up", "refused", "pending"} :
            file' = [file EXCEPT ![fd].peer = p,
                                 ![fd].room = IF p = "up" THEN SndBuf ELSE 0]
      BY <2>2
    <3>2. (IF p = "up" THEN SndBuf ELSE 0) \in 0 .. SndBuf
      BY SysHookAssumption
    <3>3. file' \in [Fd -> File] /\ \A g \in Fd \ {fd} : file'[g] = file[g]
      BY <1>1, <3>1, <3>2 DEF TypeOK, File, Peer
    <3>4. file'[fd] = [file[fd] EXCEPT !.peer = p,
                                       !.room = IF p = "up" THEN SndBuf ELSE 0]
      BY <1>1, <3>1 DEF TypeOK
    <3>5. ~(file[fd].avail > 0)
      BY <1>1, <2>2 DEF FdRight
    <3> QED  BY <1>1, <3>3, <3>4, <3>5, SysHookAssumption DEF File
  <2> QED  BY <2>1, <2>2 DEF SysConnect
<1>6. CallRight(t)'
  BY <1>1, <1>3, <1>5 DEF Call, CallRight, CallKnows, CallCounts, CallWaited, Owns, At, Users,
                          Writers, Readers, NoCall, NewCall
<1>7. FdRight(fd)'
  <2>1. \A u \in Thread : Changes(u, fd) => Changes(u, fd)'
    BY <1>1, <1>3 DEF Changes, At
  <2> QED  BY <1>1, <1>3, <1>5, <2>1 DEF FdRight, Call
<1>8. TypeOK' /\ call'[t].fd = fd
  BY <1>1, <1>3, <1>4, <1>5 DEF TypeOK, Call
<1> QED  BY <1>1, <1>3, <1>5, <1>6, <1>7, <1>8, ActiveFrame

LEMMA PollConnectIInv ==
  ASSUME IInv, NEW t \in Thread, PollConnect(t)
  PROVE  IInv'
<1> DEFINE fd == call[t].fd
<1> USE DEF IInv
<1>1. /\ Owns(t) /\ fd \in Fd /\ file[fd].origin # "free"
      /\ call[t] \in Call /\ call[t].op = "connect" /\ call[t].step = "poll"
      /\ entry' = entry /\ file' = file
  BY ActiveOwns DEF PollConnect, At, TypeOK
<1>2. /\ call' \in [Thread -> Call]
      /\ \A u \in Thread \ {t} : call'[u] = call[u]
      /\ call'[t].op = "connect" /\ call'[t].fd = fd /\ call'[t].step \in {"poll", "return"}
  <2>1. CASE \E ret \in {0, -1} : Returns(t, ret)
    <3>1. PICK ret \in {0, -1} : call' = [call EXCEPT ![t].step = "return", ![t].ret = ret]
      BY <2>1 DEF Returns
    <3>2. ret \in -1 .. MaxBytes
      BY SysHookAssumption
    <3> QED  BY <1>1, <3>1, <3>2 DEF TypeOK, Call, Step
  <2>2. CASE ~GivesUp(t) /\ call' = [call EXCEPT ![t].polls = @ + 1]
    <3>1. call[t].polls + 1 \in 0 .. 2
      BY <1>1, <2>2 DEF GivesUp, Call
    <3> QED  BY <1>1, <2>2, <3>1 DEF TypeOK, Call
  <2> QED  BY <2>1, <2>2 DEF PollConnect
<1>3. CallRight(t)'
  BY <1>1, <1>2 DEF CallRight, CallKnows, CallCounts, CallWaited, Owns, At, Users,
                    Writers, Readers, NoCall, NewCall
<1>4. FdRight(fd)'
  <2>1. \A u \in Thread : Changes(u, fd) => Changes(u, fd)'
    BY <1>1, <1>2 DEF Changes, At
  <2> QED  BY <1>1, <1>2, <2>1 DEF FdRight
<1>5. TypeOK'
  BY <1>1, <1>2 DEF TypeOK
<1> QED  BY <1>1, <1>2, <1>3, <1>4, <1>5, ActiveFrame

(* What the kernel and the peers do takes nothing away from a descriptor   *)
(* that a wait saw ready: it stays dead, gets more of what it has, or      *)
(* dies.                                                                   *)
LEMMA KernelIInv ==
  ASSUME IInv, Kernel
  PROVE  IInv'
<1> USE DEF IInv
<1>1. PICK fd \in Fd : Settle(fd) \/ Drain(fd) \/ PeerSends(fd) \/ PeerGoes(fd)
  BY DEF Kernel
<1>2. /\ entry' = entry /\ call' = call /\ file[fd] \in File
      /\ \A g \in Fd \ {fd} : file'[g] = file[g]
  BY <1>1 DEF Settle, Drain, PeerSends, PeerGoes, TypeOK
<1> DEFINE f == file[fd]
<1>3. /\ file' \in [Fd -> File]
      /\ file'[fd].origin = f.origin /\ file'[fd].nonblock = f.nonblock
      /\ f.peer \in Dead => file'[fd].peer \in Dead
      /\ f.peer = "up" => \/ file'[fd].peer \in Dead
                          \/ /\ file'[fd].peer = "up"
                             /\ f.room > 0 => file'[fd].room > 0
                             /\ f.avail > 0 => file'[fd].avail > 0
      /\ file'[fd].room > 0 => file'[fd].peer = "up"
      /\ file'[fd].avail > 0 => file'[fd].peer \in {"up", "gone"}
  <2>1. CASE Settle(fd)
    <3>1. CASE file' = [file EXCEPT ![fd].peer = "up", ![fd].room = SndBuf]
      <4>1. SndBuf \in 0 .. SndBuf
        BY SysHookAssumption
      <4> QED  BY <1>2, <2>1, <3>1, <4>1 DEF Settle, TypeOK, File, Peer, FdRight, Dead
    <3>2. CASE file' = [file EXCEPT ![fd].peer = "refused"]
      BY <1>2, <2>1, <3>2 DEF Settle, TypeOK, File, Peer, FdRight, Dead
    <3> QED  BY <2>1, <3>1, <3>2 DEF Settle
  <2>2. CASE Drain(fd)
    <3>1. f.room + 1 \in 0 .. SndBuf /\ f.room + 1 > 0
      BY <1>2, <2>2, SysHookAssumption DEF Drain, File
    <3>2. /\ file' = [file EXCEPT ![fd].room = @ + 1]
          /\ file'[fd] = [f EXCEPT !.room = f.room + 1] /\ f.peer = "up"
      BY <2>2 DEF Drain, TypeOK
    <3>3. file' \in [Fd -> File]
      BY <1>2, <3>1, <3>2 DEF TypeOK, File
    <3>4. /\ file'[fd].origin = f.origin /\ file'[fd].nonblock = f.nonblock
          /\ file'[fd].peer = f.peer /\ file'[fd].avail = f.avail
          /\ file'[fd].room = f.room + 1
      BY <1>2, <3>2 DEF File
    <3>5. file'[fd].room > 0 /\ file'[fd].peer = "up"
      BY <3>1, <3>2, <3>4
    <3>6. f.peer \notin Dead
      BY <3>2 DEF Dead
    <3> QED  BY <3>3, <3>4, <3>5, <3>6
  <2>3. CASE PeerSends(fd)
    BY <1>2, <2>3 DEF PeerSends, TypeOK, File, FdRight, Dead
  <2>4. CASE PeerGoes(fd)
    <3> DEFINE gone == [f EXCEPT !.peer = "gone"]
    <3>1. 0 \in 0 .. SndBuf
      BY SysHookAssumption
    <3>2. gone \in File /\ gone.peer = "gone" /\ gone.origin = f.origin
          /\ gone.nonblock = f.nonblock
      BY <1>2 DEF File, Peer
    <3>3. f.peer = "up" /\ file' = [file EXCEPT ![fd] = [gone EXCEPT !.room = 0]]
      BY <2>4 DEF PeerGoes
    <3> HIDE DEF gone
    <3>4. file'[fd] = [gone EXCEPT !.room = 0]
      BY <3>3 DEF TypeOK
    <3>5. file'[fd] \in File /\ file'[fd].origin = f.origin
          /\ file'[fd].nonblock = f.nonblock
          /\ file'[fd].peer = "gone" /\ file'[fd].room = 0
      BY <3>1, <3>2, <3>4 DEF File
    <3>6. file' \in [Fd -> File]
      BY <3>3, <3>4, <3>5 DEF TypeOK
    <3>7. ~(file'[fd].room > 0) /\ f.peer \notin Dead /\ file'[fd].peer \in Dead
      BY <3>3, <3>5 DEF Dead
    <3> QED  BY <3>5, <3>6, <3>7
  <2> QED  BY <1>1, <2>1, <2>2, <2>3, <2>4
<1>4. TypeOK'
  BY <1>2, <1>3 DEF TypeOK
<1>5. ASSUME NEW t \in Thread PROVE CallRight(t)'
  <2>1. CASE call[t].fd = fd
    <3>1. CallKnows(t)' /\ CallCounts(t)'
      BY <1>2, <1>3, <2>1 DEF CallRight, CallKnows, CallCounts, Owns, At
    <3>2. CallWaited(t)'
      BY <1>2, <1>3, <2>1 DEF CallRight, CallWaited
    <3> QED  BY <3>1, <3>2 DEF CallRight
  <2>2. CASE call[t] # NoCall /\ call[t].fd # fd
    <3>1. file'[call[t].fd] = file[call[t].fd]
      BY <1>2, <2>2 DEF CallRight, CallKnows
    <3> QED  BY <1>2, <2>2, <3>1 DEF CallRight, CallKnows, CallCounts, CallWaited, Owns, At
  <2>3. CASE call[t] = NoCall
    BY <1>2, <2>3 DEF CallRight, CallKnows, CallCounts, CallWaited, Owns, At, NoCall, NewCall,
                      Users, Writers, Readers
  <2> QED  BY <2>1, <2>2, <2>3
<1>6. ASSUME NEW g \in Fd PROVE FdRight(g)'
  <2>1. \A u \in Thread : Changes(u, g)' <=> Changes(u, g)
    BY <1>2 DEF Changes, At
  <2> QED  BY <1>2, <1>3, <2>1 DEF FdRight
<1>7. OneOwner'
  BY <1>2 DEF OneOwner, Owns, At
<1> QED  BY <1>4, <1>5, <1>6, <1>7

-----------------------------------------------------------------------------
(* Every step keeps the invariant. *)
LEMMA BeginCallIInv ==
  ASSUME IInv, NEW t \in Thread, BeginCall(t)
  PROVE  IInv'
<1>1. PICK fd \in Fd :
        \/ \E op \in {"socket", "accept"}, nonblock \in BOOLEAN : SysOpen(t, fd, op, nonblock)
        \/ \E nonblock \in BOOLEAN : Fcntl(t, fd, nonblock)
        \/ /\ MayUse(fd)
           /\ \E op \in {"close", "connect", "write", "sendto", "read"}, n \in 0 .. MaxBytes :
                Begin(t, op, fd, n)
           /\ UNCHANGED <<entry, file>>
  <2>1. 0 \in 0 .. MaxBytes /\ MaxBytes \in 0 .. MaxBytes
    BY SysHookAssumption
  <2> QED  BY <2>1 DEF BeginCall, Writers, Readers
<1> QED  BY <1>1, SysOpenIInv, FcntlIInv, BeginIInv

LEMMA NextIInv == IInv /\ [Next]_vars => IInv'
<1> SUFFICES ASSUME IInv, [Next]_vars PROVE IInv'
  OBVIOUS
<1>1. ASSUME NEW t \in Thread, BeginCall(t) PROVE IInv'
  BY <1>1, BeginCallIInv
<1>2. ASSUME NEW t \in Thread, Continue(t) PROVE IInv'
  BY <1>2, AllocIInv, SetFlIInv, CloseIInv, SysCloseIInv, StartReadIInv, TryReadIInv,
     TryWriteIInv, PollIInv, SysConnectIInv, PollConnectIInv, ReturnIInv
  DEF Continue
<1>3. CASE Kernel
  BY <1>3, KernelIInv
<1>4. CASE UNCHANGED vars
  BY <1>4 DEF vars, IInv, TypeOK, CallRight, CallKnows, CallCounts, CallWaited, FdRight,
              Changes, OneOwner, Owns, At
<1> QED  BY <1>1, <1>2, <1>3, <1>4 DEF Next

(* The strengthening is invariant: who owns a descriptor, what the table   *)
(* and the flags say, what a call has counted and seen.                    *)
THEOREM Invariance == Spec => []IInv
<1>1. Init => IInv
  BY InitIInv
<1>2. IInv /\ [Next]_vars => IInv'
  BY NextIInv
<1> QED  BY <1>1, <1>2, PTL DEF Spec

(* The table, the descriptors and the local variables of the calls keep    *)
(* their types: no count goes below zero or beyond what was asked for.     *)
THEOREM TypeCorrect == Spec => []TypeOK
<1>1. IInv => TypeOK
  BY DEF IInv
<1> QED  BY <1>1, Invariance, PTL

(* The table agrees with the kernel, for every set of threads and          *)
(* descriptors: no number inherits an entry of the one before it           *)
(* (hook_sys_call.cpp:333), and the descriptors that the hooked calls      *)
(* count on are O_NONBLOCK.                                                *)
THEOREM TableCorrect == Spec => []TableAgrees
<1>1. IInv => TableAgrees
  BY DEF IInv, FdRight, TableAgrees, Settled, Changes, At
<1> QED  BY <1>1, Invariance, PTL

(* Calls return what the kernel took or gave, whatever their length and in *)
(* however many parts (hook_sys_call.cpp:389-424).                         *)
THEOREM CountsCorrect == Spec => []CountsRight
<1>1. IInv => CountsRight
  BY DEF IInv, CallRight, CallCounts, CountsRight, At, Users
<1> QED  BY <1>1, Invariance, PTL

(* A call that the user expects to block fails, while its connection is    *)
(* there, only after a wait that timed out.                                *)
THEOREM FailuresWaited == Spec => []FailsOnlyAfterWait
<1>1. IInv => FailsOnlyAfterWait
  BY DEF IInv, CallRight, CallWaited, FailsOnlyAfterWait, At, Users, Dead
<1> QED  BY <1>1, Invariance, PTL
=============================================================================
