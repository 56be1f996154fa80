-------------------------------- MODULE Epoll --------------------------------
(***************************************************************************)
(* Channels and the poller (Channel.cpp, Channel.h, Epoll.cpp): the map    *)
(* channels_ from descriptors to channels, the index of each channel, and  *)
(* the interest list that the kernel keeps and to which epoll_wait owes    *)
(* the Channel pointers that it returns.                                   *)
(*                                                                         *)
(* Neither Channel nor Epoll guards against misuse, beyond assertions, and *)
(* Epoll::update ignores what epoll_ctl returns.  The actions of Next obey *)
(* the contract that the callers in TimeHeap and Channel::addEpoll keep.   *)
(***************************************************************************)
EXTENDS Naturals, FiniteSets

CONSTANTS Channel,   (* the Channel objects                                *)
          Fd,        (* the descriptors                                    *)
          NoChannel, (* a descriptor has no channel                        *)
          NoFd       (* a Channel that is not constructed                  *)

ASSUME EpollAssumption == NoChannel \notin Channel /\ NoFd \notin Fd

VARIABLES open,      (* the descriptors that are open                      *)
          fdOf,      (* fd_ of each channel, NoFd outside its lifetime     *)
          events,    (* events_ of each channel                            *)
          index,     (* index_ of each channel                             *)
          channels,  (* channels_                                          *)
          interest,  (* the kernel's interest list                         *)
          failed     (* an assertion failed                                *)

chan == <<fdOf, events, index>>
vars == <<open, chan, channels, interest, failed>>

Event == {"in", "out"}
Index == {"new", "added", "deleted"}

(* An entry of the interest list: epoll_event, or that there is none. *)
Entry == [ptr : Channel, events : SUBSET Event]
NoEntry == [ptr |-> NoChannel, events |-> {}]

Init == /\ open = {}
        /\ fdOf = [c \in Channel |-> NoFd]
        /\ events = [c \in Channel |-> {}]
        /\ index = [c \in Channel |-> "new"]
        /\ channels = [fd \in Fd |-> NoChannel]
        /\ interest = [fd \in Fd |-> NoEntry]
        /\ failed = FALSE

Alive(c) == fdOf[c] # NoFd
Registered(c) == Alive(c) /\ index[c] # "new"

-----------------------------------------------------------------------------
(* The kernel: epoll_ctl, and what close does to the interest list.        *)

(* The epoll_event of a channel. *)
EntryFor(c, ev) == [ptr |-> c, events |-> ev]

(* Epoll::update.  An ADD of a descriptor that is in the list (EEXIST), a  *)
(* MOD or DEL of one that is not (ENOENT) and any operation on one that is *)
(* not open (EBADF) fail and change nothing.                               *)
Update(op, c, ev) ==
  LET fd == fdOf[c]
      present == interest[fd] # NoEntry
      succeeds == fd \in open /\ present = (op # "add")
      entry == IF op = "del" THEN NoEntry ELSE EntryFor(c, ev)
  IN interest' = IF succeeds THEN [interest EXCEPT ![fd] = entry] ELSE interest

Open(fd) == /\ fd \notin open
            /\ open' = open \cup {fd}
            /\ UNCHANGED <<chan, channels, interest, failed>>

Close(fd) == /\ fd \in open
             /\ open' = open \ {fd}
             /\ interest' = [interest EXCEPT ![fd] = NoEntry]
             /\ UNCHANGED <<chan, channels, failed>>

-----------------------------------------------------------------------------
(* Channel and Epoll.                                                      *)

Construct(c, fd) == /\ fdOf' = [fdOf EXCEPT ![c] = fd]
                    /\ events' = [events EXCEPT ![c] = {}]
                    /\ index' = [index EXCEPT ![c] = "new"]
                    /\ UNCHANGED <<open, channels, interest, failed>>

Destroy(c) == /\ fdOf' = [fdOf EXCEPT ![c] = NoFd]
              /\ UNCHANGED <<open, events, index, channels, interest, failed>>

Fail == /\ failed' = TRUE
        /\ UNCHANGED <<open, chan, channels, interest>>

(* The assertions of updateChannel and of removeChannel. *)
UpdateAsserts(c) == IF index[c] = "new" THEN channels[fdOf[c]] = NoChannel
                    ELSE channels[fdOf[c]] = c
RemoveAsserts(c) == channels[fdOf[c]] = c /\ index[c] # "new"

(* What updateChannel asks of epoll_ctl, and the index it leaves. *)
Operation(c, ev) == CASE index[c] \in {"new", "deleted"} -> "add"
                      [] index[c] = "added" /\ ev = {} -> "del"
                      [] OTHER -> "mod"

(* Mutant: a channel that is disabled counts as new. *)
IndexAfter_New(c, ev) == IF Operation(c, ev) = "del" THEN "new" ELSE "added"

IndexAfter(c, ev) == IF Operation(c, ev) = "del" THEN "deleted" ELSE "added"

(* enableReading, enableWriting, disableAll, addEpoll: events_ becomes ev  *)
(* and update() calls updateChannel.                                       *)
UpdateChannel(c, ev) ==
  IF UpdateAsserts(c)
  THEN /\ events' = [events EXCEPT ![c] = ev]
       /\ channels' = [channels EXCEPT ![fdOf[c]] = c]
       /\ index' = [index EXCEPT ![c] = IndexAfter(c, ev)]
       /\ Update(Operation(c, ev), c, ev)
       /\ UNCHANGED <<open, fdOf, failed>>
  ELSE Fail

(* Mutant: the descriptor is never taken off the interest list. *)
NeedsDel_Never(c) == FALSE

(* Whether removeChannel has to take it off. *)
NeedsDel(c) == index[c] = "added"

(* Mutant: the entry stays in channels_. *)
Erased_Not(c) == channels

Erased(c) == [channels EXCEPT ![fdOf[c]] = NoChannel]

RemoveChannel(c) ==
  IF RemoveAsserts(c)
  THEN /\ channels' = Erased(c)
       /\ index' = [index EXCEPT ![c] = "new"]
       /\ IF NeedsDel(c) THEN Update("del", c, {}) ELSE UNCHANGED interest
       /\ UNCHANGED <<open, fdOf, events, failed>>
  ELSE Fail

-----------------------------------------------------------------------------
(* The contract: a channel is registered for an open descriptor that no    *)
(* other registered channel has, it is removed before it is destroyed, and *)
(* a descriptor is closed only when no registered channel has it.          *)

Use(c) == \/ /\ ~Alive(c)
             /\ \E fd \in open : Construct(c, fd)
          \/ /\ Alive(c)
             /\ index[c] = "new"
             /\ fdOf[c] \in open
             /\ \A d \in Channel : Registered(d) => fdOf[d] # fdOf[c]
             /\ \E ev \in SUBSET Event : UpdateChannel(c, ev)
          \/ /\ Registered(c)
             /\ \/ \E ev \in {events[c] \cup {e} : e \in Event} \cup {{}} :
                      UpdateChannel(c, ev)
                \/ RemoveChannel(c)
          \/ Alive(c) /\ ~Registered(c) /\ Destroy(c)

MayClose(fd) == \A c \in Channel : fdOf[c] = fd => ~Registered(c)

Next == /\ ~failed
        /\ \/ \E c \in Channel : Use(c)
           \/ \E fd \in Fd : Open(fd) \/ (MayClose(fd) /\ Close(fd))

Spec == Init /\ [][Next]_vars

-----------------------------------------------------------------------------
TypeOK == /\ open \subseteq Fd
          /\ fdOf \in [Channel -> Fd \cup {NoFd}]
          /\ events \in [Channel -> SUBSET Event]
          /\ index \in [Channel -> Index]
          /\ channels \in [Fd -> Channel \cup {NoChannel}]
          /\ interest \in [Fd -> Entry \cup {NoEntry}]
          /\ failed \in BOOLEAN

(* channels_ holds exactly the registered channels, each at its own        *)
(* descriptor; so no two of them have the same one.                        *)
ChannelsExact ==
  \A fd \in Fd, c \in Channel : channels[fd] = c <=> Registered(c) /\ fdOf[c] = fd

(* The kernel watches exactly the channels whose index is kAdded, for the  *)
(* events they ask for: no call of epoll_ctl whose result is ignored has   *)
(* failed, and epoll_wait never returns a Channel that is gone.            *)
KernelAgrees ==
  \A fd \in Fd :
     interest[fd] = IF channels[fd] # NoChannel /\ index[channels[fd]] = "added"
                    THEN [ptr |-> channels[fd], events |-> events[channels[fd]]]
                    ELSE NoEntry

(* No assertion of Epoll.cpp fails for a caller that keeps the contract. *)
NoAssertFails == ~failed
=============================================================================
