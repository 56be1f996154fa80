---------------------------- MODULE Epoll_proofs ----------------------------
(***************************************************************************)
(* Proofs about module Epoll, for every set of channels and descriptors.   *)
(*                                                                         *)
(* ChannelsExact and KernelAgrees need each other, and the fact that the   *)
(* descriptor of a registered channel is open: without it epoll_ctl fails, *)
(* Epoll::update ignores that, and the index of the channel is wrong.      *)
(***************************************************************************)
EXTENDS Epoll, TLAPS

(* A channel is registered only for a descriptor that is open. *)
RegisteredOpen == \A c \in Channel : Registered(c) => fdOf[c] \in open

IInv == /\ TypeOK
        /\ ChannelsExact
        /\ KernelAgrees
        /\ NoAssertFails
        /\ RegisteredOpen

-----------------------------------------------------------------------------
(* Nothing is registered when the program starts. *)
LEMMA InitIInv == Init => IInv
<1> SUFFICES ASSUME Init PROVE IInv
  OBVIOUS
<1>1. TypeOK
  BY DEF Init, TypeOK, Index, Entry, NoEntry, Event
<1>2. ChannelsExact /\ KernelAgrees /\ NoAssertFails /\ RegisteredOpen
  BY EpollAssumption
  DEF Init, ChannelsExact, KernelAgrees, NoAssertFails, RegisteredOpen, Registered, Alive, NoEntry
<1> QED  BY <1>1, <1>2 DEF IInv

(* A new channel is not registered. *)
LEMMA ConstructIInv ==
  ASSUME IInv, NEW c \in Channel, NEW fd \in open, ~Alive(c), Construct(c, fd)
  PROVE  IInv'
<1> USE DEF IInv
<1>1. TypeOK'
  BY DEF TypeOK, Construct, Index
<1>2. \A d \in Channel : /\ Registered(d)' <=> Registered(d)
                         /\ Registered(d) => d # c /\ fdOf'[d] = fdOf[d]
  BY DEF Construct, TypeOK, Registered, Alive
<1>3. ChannelsExact'
  BY <1>2 DEF ChannelsExact, Construct
<1>4. KernelAgrees'
  <2>1. \A f \in Fd : channels[f] # NoChannel => Registered(channels[f])
    BY DEF ChannelsExact, TypeOK
  <2>2. \A d \in Channel : d # c => index'[d] = index[d] /\ events'[d] = events[d]
    BY DEF Construct, TypeOK
  <2> QED  BY <1>2, <2>1, <2>2 DEF KernelAgrees, Construct, TypeOK
<1>5. NoAssertFails' /\ RegisteredOpen'
  BY <1>2 DEF NoAssertFails, RegisteredOpen, Construct
<1> QED  BY <1>1, <1>3, <1>4, <1>5

(* A channel that is not registered may be destroyed. *)
LEMMA DestroyIInv ==
  ASSUME IInv, NEW c \in Channel, ~Registered(c), Destroy(c)
  PROVE  IInv'
<1> USE DEF IInv
<1>1. TypeOK'
  BY DEF TypeOK, Destroy
<1>2. \A d \in Channel : /\ Registered(d)' <=> Registered(d)
                         /\ Registered(d) => fdOf'[d] = fdOf[d]
  BY DEF Destroy, TypeOK, Registered, Alive
<1>3. ChannelsExact'
  BY <1>2 DEF ChannelsExact, Destroy
<1>4. KernelAgrees' /\ NoAssertFails'
  BY DEF KernelAgrees, NoAssertFails, Destroy, NoEntry
<1>5. RegisteredOpen'
  BY <1>2 DEF RegisteredOpen, Destroy
<1> QED  BY <1>1, <1>3, <1>4, <1>5

(* Opening a descriptor changes no registration. *)
LEMMA OpenIInv ==
  ASSUME IInv, NEW fd \in Fd, Open(fd)
  PROVE  IInv'
<1> USE DEF IInv
<1>1. open' = open \cup {fd} /\ UNCHANGED <<chan, channels, interest, failed>>
  BY DEF Open
<1>2. TypeOK'
  BY <1>1 DEF TypeOK, chan
<1>3. ChannelsExact' /\ RegisteredOpen'
  BY <1>1 DEF ChannelsExact, RegisteredOpen, Registered, Alive, chan
<1>4. KernelAgrees' /\ NoAssertFails'
  BY <1>1 DEF KernelAgrees, NoAssertFails, NoEntry, chan
<1> QED  BY <1>2, <1>3, <1>4

(* A descriptor that no registered channel has may be closed: the kernel   *)
(* forgets no entry that channels_ still has.                              *)
LEMMA CloseIInv ==
  ASSUME IInv, NEW fd \in Fd, MayClose(fd), Close(fd)
  PROVE  IInv'
<1> USE DEF IInv
<1>1. TypeOK'
  BY DEF TypeOK, Close, chan, Entry, NoEntry
<1>2. channels[fd] = NoChannel
  BY DEF MayClose, ChannelsExact, TypeOK
<1>3. ChannelsExact' /\ NoAssertFails'
  BY DEF ChannelsExact, NoAssertFails, Close, chan, Registered, Alive
<1>4. RegisteredOpen'
  BY DEF RegisteredOpen, MayClose, Close, chan, Registered, Alive
<1>5. KernelAgrees'
  BY <1>2 DEF KernelAgrees, Close, chan, TypeOK, NoEntry
<1> QED  BY <1>1, <1>3, <1>4, <1>5

-----------------------------------------------------------------------------
(* Where updateChannel may be called: by a registered channel, or for an   *)
(* open descriptor that no registered channel has.                         *)
MayUpdate(c) ==
  /\ Alive(c)
  /\ fdOf[c] \in open
  /\ index[c] = "new" => \A d \in Channel : Registered(d) => fdOf[d] # fdOf[c]

(* No assertion of updateChannel fails there, and epoll_ctl succeeds.      *)
LEMMA UpdateSucceeds ==
  ASSUME IInv, NEW c \in Channel, MayUpdate(c), NEW ev \in SUBSET Event
  PROVE  /\ fdOf[c] \in Fd
         /\ channels[fdOf[c]] \in {NoChannel, c}
         /\ UpdateAsserts(c)
         /\ (interest[fdOf[c]] # NoEntry) = (Operation(c, ev) # "add")
<1> USE DEF IInv
<1>1. fdOf[c] \in Fd
  BY DEF MayUpdate, Alive, TypeOK
<1>2. CASE index[c] = "new"
  <2>1. channels[fdOf[c]] = NoChannel
    BY <1>1, <1>2 DEF MayUpdate, ChannelsExact, TypeOK
  <2>2. interest[fdOf[c]] = NoEntry
    BY <1>1, <2>1 DEF KernelAgrees
  <2> QED  BY <1>1, <1>2, <2>1, <2>2 DEF UpdateAsserts, Operation
<1>3. CASE index[c] # "new"
  <2>1. channels[fdOf[c]] = c
    BY <1>1, <1>3 DEF MayUpdate, ChannelsExact, Registered
  <2>2. (interest[fdOf[c]] # NoEntry) = (index[c] = "added")
    <3>1. [ptr |-> c, events |-> events[c]] # NoEntry
      BY EpollAssumption DEF NoEntry
    <3>2. interest[fdOf[c]] = IF index[c] = "added"
                              THEN [ptr |-> c, events |-> events[c]] ELSE NoEntry
      BY <1>1, <2>1, EpollAssumption DEF KernelAgrees
    <3> QED  BY <3>1, <3>2
  <2>3. (Operation(c, ev) # "add") = (index[c] = "added")
    BY <1>3 DEF Operation, TypeOK, Index
  <2> QED  BY <1>1, <1>3, <2>1, <2>2, <2>3 DEF UpdateAsserts
<1> QED  BY <1>2, <1>3

(* After updateChannel the channel is registered, and the kernel watches   *)
(* it unless it asks for nothing.                                          *)
LEMMA UpdateChannelIInv ==
  ASSUME IInv, NEW c \in Channel, MayUpdate(c), NEW ev \in SUBSET Event,
         UpdateChannel(c, ev)
  PROVE  IInv'
<1> USE DEF IInv
<1> DEFINE fd == fdOf[c]
<1>1. /\ fd \in Fd /\ fd \in open
      /\ channels[fd] \in {NoChannel, c}
      /\ UpdateAsserts(c)
      /\ (interest[fd] # NoEntry) = (Operation(c, ev) # "add")
  BY UpdateSucceeds DEF MayUpdate
<1>2. /\ events' = [events EXCEPT ![c] = ev]
      /\ channels' = [channels EXCEPT ![fd] = c]
      /\ index' = [index EXCEPT ![c] = IndexAfter(c, ev)]
      /\ UNCHANGED <<open, fdOf, failed>>
  BY <1>1 DEF UpdateChannel
<1>3. interest' = [interest EXCEPT ![fd] =
                     IF Operation(c, ev) = "del" THEN NoEntry ELSE [ptr |-> c, events |-> ev]]
  BY <1>1 DEF UpdateChannel, Update, EntryFor
<1>4. IndexAfter(c, ev) = IF Operation(c, ev) = "del" THEN "deleted" ELSE "added"
  BY DEF IndexAfter
<1>5. TypeOK'
  BY <1>1, <1>2, <1>3, <1>4 DEF TypeOK, Index, Entry, NoEntry
<1>6. \A d \in Channel : Registered(d)' <=> Registered(d) \/ d = c
  BY <1>2, <1>4 DEF Registered, Alive, TypeOK, MayUpdate
<1>7. \A d \in Channel : d # c /\ Registered(d) => fdOf[d] # fd
  BY <1>1, EpollAssumption DEF ChannelsExact
<1>8. ChannelsExact'
  BY <1>1, <1>2, <1>6, <1>7 DEF ChannelsExact, TypeOK
<1>9. KernelAgrees'
  <2> SUFFICES ASSUME NEW f \in Fd
               PROVE  interest'[f] = IF channels'[f] # NoChannel /\ index'[channels'[f]] = "added"
                                     THEN [ptr |-> channels'[f], events |-> events'[channels'[f]]]
                                     ELSE NoEntry
    BY DEF KernelAgrees, NoEntry
  <2>1. CASE f = fd
    BY <1>1, <1>2, <1>3, <1>4, <2>1, EpollAssumption DEF TypeOK
  <2>2. CASE f # fd
    <3>1. channels'[f] = channels[f] /\ interest'[f] = interest[f]
      BY <1>1, <1>2, <1>3, <2>2 DEF TypeOK
    <3>2. channels[f] # c
      BY <2>2 DEF ChannelsExact
    <3>3. \A d \in Channel : d # c => index'[d] = index[d] /\ events'[d] = events[d]
      BY <1>2 DEF TypeOK
    <3> QED  BY <3>1, <3>2, <3>3 DEF KernelAgrees, TypeOK
  <2> QED  BY <2>1, <2>2
<1>10. NoAssertFails' /\ RegisteredOpen'
  BY <1>1, <1>2, <1>6 DEF NoAssertFails, RegisteredOpen
<1> QED  BY <1>5, <1>8, <1>9, <1>10

(* After removeChannel neither channels_ nor the kernel has the channel.   *)
LEMMA RemoveChannelIInv ==
  ASSUME IInv, NEW c \in Channel, Registered(c), RemoveChannel(c)
  PROVE  IInv'
<1> USE DEF IInv
<1> DEFINE fd == fdOf[c]
<1>1. /\ fd \in Fd /\ fd \in open
      /\ channels[fd] = c
      /\ RemoveAsserts(c)
  BY DEF Registered, Alive, TypeOK, ChannelsExact, RegisteredOpen, RemoveAsserts
<1>2. /\ channels' = [channels EXCEPT ![fd] = NoChannel]
      /\ index' = [index EXCEPT ![c] = "new"]
      /\ UNCHANGED <<open, fdOf, events, failed>>
  BY <1>1 DEF RemoveChannel, Erased
<1>3. interest[fd] = IF index[c] = "added" THEN [ptr |-> c, events |-> events[c]] ELSE NoEntry
  BY <1>1, EpollAssumption DEF KernelAgrees
<1>4. interest' = [interest EXCEPT ![fd] = NoEntry]
  <2>1. CASE index[c] = "added"
    <3>1. interest[fd] # NoEntry
      BY <1>3, <2>1, EpollAssumption DEF NoEntry
    <3> QED  BY <1>1, <2>1, <3>1 DEF RemoveChannel, NeedsDel, Update
  <2>2. CASE index[c] # "added"
    BY <1>1, <1>3, <2>2 DEF RemoveChannel, NeedsDel, TypeOK
  <2> QED  BY <2>1, <2>2
<1>5. TypeOK'
  BY <1>2, <1>4 DEF TypeOK, Index, Entry, NoEntry
<1>6. \A d \in Channel : Registered(d)' <=> Registered(d) /\ d # c
  BY <1>2 DEF Registered, Alive, TypeOK
<1>7. \A d \in Channel : d # c /\ Registered(d) => fdOf[d] # fd
  BY <1>1 DEF ChannelsExact
<1>8. ChannelsExact'
  BY <1>1, <1>2, <1>6, <1>7, EpollAssumption DEF ChannelsExact, TypeOK
<1>9. KernelAgrees'
  <2> SUFFICES ASSUME NEW f \in Fd
               PROVE  interest'[f] = IF channels'[f] # NoChannel /\ index'[channels'[f]] = "added"
                                     THEN [ptr |-> channels'[f], events |-> events'[channels'[f]]]
                                     ELSE NoEntry
    BY DEF KernelAgrees, NoEntry
  <2>1. CASE f = fd
    BY <1>1, <1>2, <1>4, <2>1 DEF TypeOK
  <2>2. CASE f # fd
    <3>1. channels'[f] = channels[f] /\ interest'[f] = interest[f]
      BY <1>1, <1>2, <1>4, <2>2 DEF TypeOK
    <3>2. channels[f] # c
      BY <2>2 DEF ChannelsExact
    <3>3. \A d \in Channel : d # c => index'[d] = index[d] /\ events'[d] = events[d]
      BY <1>2 DEF TypeOK
    <3> QED  BY <3>1, <3>2, <3>3 DEF KernelAgrees, TypeOK
  <2> QED  BY <2>1, <2>2
<1>10. NoAssertFails' /\ RegisteredOpen'
  BY <1>2, <1>6 DEF NoAssertFails, RegisteredOpen
<1> QED  BY <1>5, <1>8, <1>9, <1>10

-----------------------------------------------------------------------------
(* One use of a channel keeps the invariant. *)
LEMMA UseIInv ==
  ASSUME IInv, NEW c \in Channel, Use(c)
  PROVE  IInv'
<1>1. CASE ~Alive(c) /\ \E fd \in open : Construct(c, fd)
  BY <1>1, ConstructIInv
<1>2. CASE /\ Alive(c)
           /\ index[c] = "new"
           /\ fdOf[c] \in open
           /\ \A d \in Channel : Registered(d) => fdOf[d] # fdOf[c]
           /\ \E ev \in SUBSET Event : UpdateChannel(c, ev)
  BY <1>2, UpdateChannelIInv DEF MayUpdate
<1>3. CASE /\ Registered(c)
           /\ \E ev \in {events[c] \cup {e} : e \in Event} \cup {{}} : UpdateChannel(c, ev)
  <2>1. MayUpdate(c)
    BY <1>3 DEF MayUpdate, Registered, IInv, RegisteredOpen
  <2>2. {events[c] \cup {e} : e \in Event} \cup {{}} \subseteq SUBSET Event
    BY DEF IInv, TypeOK
  <2> QED  BY <1>3, <2>1, <2>2, UpdateChannelIInv
<1>4. CASE Registered(c) /\ RemoveChannel(c)
  BY <1>4, RemoveChannelIInv
<1>5. CASE Alive(c) /\ ~Registered(c) /\ Destroy(c)
  BY <1>5, DestroyIInv
<1> QED  BY <1>1, <1>2, <1>3, <1>4, <1>5 DEF Use

(* The invariant is inductive. *)
THEOREM Invariance == Spec => []IInv
<1>1. IInv /\ [Next]_vars => IInv'
  <2> SUFFICES ASSUME IInv, [Next]_vars PROVE IInv'
    OBVIOUS
  <2>1. CASE \E c \in Channel : Use(c)
    BY <2>1, UseIInv
  <2>2. CASE \E fd \in Fd : Open(fd)
    BY <2>2, OpenIInv
  <2>3. CASE \E fd \in Fd : MayClose(fd) /\ Close(fd)
    BY <2>3, CloseIInv
  <2>4. CASE UNCHANGED vars
    <3>1. TypeOK'
      BY <2>4 DEF vars, chan, IInv, TypeOK
    <3>2. ChannelsExact' /\ RegisteredOpen'
      BY <2>4 DEF vars, chan, IInv, ChannelsExact, RegisteredOpen, Registered, Alive
    <3>3. KernelAgrees' /\ NoAssertFails'
      BY <2>4 DEF vars, chan, IInv, KernelAgrees, NoAssertFails, NoEntry
    <3> QED  BY <3>1, <3>2, <3>3 DEF IInv
  <2> QED  BY <2>1, <2>2, <2>3, <2>4 DEF Next
<1> QED  BY InitIInv, <1>1, PTL DEF Spec

(* The variables of the poller keep their types. *)
THEOREM TypeCorrect == Spec => []TypeOK
BY Invariance, PTL DEF IInv

(* channels_ is exact whatever the number of channels and descriptors, and *)
(* in whatever order descriptors are closed and used again.                *)
THEOREM ChannelsCorrect == Spec => []ChannelsExact
BY Invariance, PTL DEF IInv

(* What channels_ says and what the kernel does never come apart, although *)
(* Epoll::update ignores the result of epoll_ctl.                          *)
THEOREM KernelCorrect == Spec => []KernelAgrees
BY Invariance, PTL DEF IInv

(* No assertion of updateChannel or of removeChannel fails. *)
THEOREM AssertionsHold == Spec => []NoAssertFails
BY Invariance, PTL DEF IInv
=============================================================================
