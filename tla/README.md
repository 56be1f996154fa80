# MyLibCo in TLA+

MyLibCo (`src/`) is a small C++ coroutine library with an event loop and an
echo server on top of it. This directory has TLA+ models of its core, the TLC
configurations that check them on small instances, and theorems about them
that TLAPS checks for every value of the constants. `PROJECT.json` lists the
components, the runs, the source lines that each definition models, the
hazards, the findings and the theorems.

## 1. The system

`TcpServer` is one process with one thread (the `fork` loop in
`TcpServer::start` is commented out, although `README.md` of the repository
speaks of processes). `stanard.cpp` is the program it was modelled on: the same
server with several processes, on the coroutines of libco.

| Part | State | Operations | Hard parts |
|---|---|---|---|
| Coroutines: `Routine_t`, `RoutineEnv_t` (`routine.*`, `coctx*`) | `CallStack_`, `CallStackSize_`; per routine `start_`, `end_`, `ctx_` | constructor, `Resume`, `Yield`, end of `RoutineFunc` | nested resumes; nothing is checked: a yield of the main routine, a resume of a routine that is on the stack or has ended, and the 129th entry are undefined behaviour |
| Channels and poller: `Channel`, `Epoll` | `fd_`, `events_`, `index_`; `channels_`; the kernel's interest list | `updateChannel`, `removeChannel`, `update`, `poll` | descriptor numbers are used again; the result of `epoll_ctl` is ignored; channels live on coroutine stacks |
| Timers: `TimeHeap`, `Timer` (`MiniHeap.*`), `Timestamp` | `timers_` (a multimap by expiry), the Timer objects, the timerfd | `addTimer`, `delTimer`, `handleRead` (`getExpired`, `run`, `reset`) | timers are found by expiry, not by identity; routines that a timer resumes change the heap in the middle of `handleRead`; two clocks |
| Event loop: `EventLoop` | `activeChannels_` | `loop`, `runAfter`, `cancel` | the batch that `poll` returned becomes stale while it is handled |
| Wait: `Channel::addEpoll` | local `tmp`, the routine that yields | register, arm a timer of 3 s, yield, remove, cancel | event and timeout race |
| Echo server: `TcpServer` | `g_listen_fd`, `g_readwrite` (a stack of idle tasks), `task_t::fd` | `start`, `accept_routine`, `readwrite_routine` | hand-over of descriptors, the pool when it is empty, descriptor shortage |
| `Buffer` (`Buffer.h`, `Buffer.cpp`; the server does not use it yet) | the array, `readerIndex_`, `writerIndex_` | append, prepend, retrieve, `makeSpace`, `readFd`, `shrink` | index arithmetic in `size_t`; bytes that move; a read that overflows into a second array |
| Hooked system calls (`hook_sys_call.cpp`, from libco, not built) | `g_rpchook_socket_fd`, one entry per hooked descriptor | `socket`, `co_accept`, `close`, `fcntl`, `connect`, `read`, `write`, `send`, `sendto`, `recv`, `recvfrom` | numbers that are used again; two sets of flags; partial writes; waits that time out |
| Prefork echo server (`stanard.cpp`) | per process `g_readwrite`, `task_t::fd`; the listening socket, which all share | `main`, `accept_routine`, `readwrite_routine` | processes compete for connections and do not know of each other; a process that dies of SIGPIPE |
| Sockets, addresses, tests, `practice/` | none of their own | wrappers | - |

The parts interact by calls and by control transfer. `addEpoll` registers the
channel (`Epoll`), adds a timer (`TimeHeap`) and yields (`Routine`). The loop
calls `handleEvent` of each channel of a batch: for the timerfd this is
`handleRead`, which resumes the routine of each expired timer; for any other
channel it resumes the channel's routine. The accept routine resumes an idle
read-write routine from within itself. A routine continues inside `addEpoll`,
removes its channel and cancels its timer. Nothing runs in parallel, but each
of these calls may come in any order the kernel, the clock and the clients
choose.

What makes each part correct:

* coroutines: a routine that gets the processor continues where it left it,
  and the one that yields gives it back to the one that resumed it; the call
  stack is never left at either end;
* poller: `channels_`, the indexes and the kernel never disagree, whatever
  happens to descriptors in between, and no assertion fails;
* timers: a wait ends by its own event or after its own deadline; no wait is
  forgotten, and a timer resumes nobody whose wait is over; no Timer is used
  after it was deleted;
* server: each descriptor has one owner, who closes it once; the pool has
  exactly the idle routines; connections are dropped only when all routines
  are busy; a client that is done sees its connection closed;
* prefork server: each connection has one owner in one process; the death of
  a process costs its own connections and no other; as long as somebody has
  an idle routine, connections are accepted;
* buffer: the bytes put in come out once and in order, whatever moves in
  between; the indexes stay in order, and inside the array unless `shrink` is
  called after a retrieve (a finding);
* hooked calls: the table agrees with the kernel's descriptors and flags; a
  call returns what its system calls did; every call comes to an end.

`PROJECT.json` lists the hazards of this code, line by line, with the
properties that would catch each of them going wrong.

## 2. The modules

| Module | What it is |
|---|---|
| `Coroutine` | abstract: asymmetric coroutines, each with a phase and a resumer |
| `Routine` | `routine.cpp`, `coctx.cpp`: the call stack and the contexts; implements `Coroutine` |
| `Epoll` | `Channel`, `Epoll` and the kernel's interest list, under the contract their callers keep |
| `TimedWait` | abstract: a routine waits until an event or after a deadline |
| `TimeHeap` | `MiniHeap.cpp`, `EventLoop.cpp`, the timer of `addEpoll`; implements `TimedWait` |
| `WorkerPool` | abstract: connections in order, one worker each, turned away only if all are busy |
| `TcpServer` | the server, composed of `Routine` and `Epoll` by INSTANCE; implements `WorkerPool` |
| `Prefork` | `stanard.cpp`: processes, their routines and pools, the shared listening socket |
| `ByteQueue` | abstract: bytes come out once and in order |
| `Buffer` | `Buffer.h`, `Buffer.cpp`; implements `ByteQueue` |
| `SysHook` | `hook_sys_call.cpp`: the table, the flags, the calls that wait |
| `MC*` | constants for TLC |
| `*_proofs` | the theorems and their proofs, one module for each module that is proved about |
| `SequenceFacts` | lemmas about sequences (push, pop, append, remove one element) that the proofs of `Prefork` and `TcpServer` cite |

### Routine

`callStack` is `CallStack_[0 .. CallStackSize_ - 1]`; `Create`, `Resume`,
`Yield` and `Finish` are the constructor, `Routine_t::Resume`,
`Routine_t::Yield` and the tail of `RoutineFunc`. A saved context (`ctx_`) is
abstracted to the place where its owner continues when it is loaded, since
that is all that `coctx_swap` restores: the entry that `Coctx_make` prepares,
inside a call of `Resume`, inside a call of `Yield`, or at the end of
`RoutineFunc`, where there is nothing to continue. `Resume` checks nothing;
`MayResume` is the contract of its callers, and `TcpServer` shows
(`KeepsContracts`) that the server keeps it. The copying of stacks in
`Swap_two_routine` is dead code: `occupy_rou_` and `pending_rou_` are NULL.

### Epoll

`UpdateChannel(c, ev)` is `enableReading`, `enableWriting`, `disableAll` and
the first half of `addEpoll`, that is, the change of `events_` followed by
`Epoll::updateChannel`. `Update` is `Epoll::update` with what `epoll_ctl` does
to the interest list, its failures (EEXIST, ENOENT, EBADF) included, which the
code ignores. A failed assertion sets `failed`. `Close` also removes the
descriptor from the interest list, as the kernel does. `Next` lets callers do
everything the contract of the two classes allows: several channels compete
for a descriptor, one after the other.

### TimeHeap

Time is counted in ticks, the resolution of a Timestamp. `now` is the wall
clock (`gettimeofday`), which `SetClock` may set; the timerfd counts down on
the monotonic clock (`fdLeft`). The timerfd is armed for `MinWait` ticks at
least (100 in the code), also for a time that has passed
(`HowMuchTimeFromNow`), so that it may fire up to that much late. `Ties` says
whether a time the code takes may equal an expiry that is there already, of a
timer in the heap or of one that is about to run. In microseconds that is
rare, and the code breaks when it happens: see the findings. `AfterDelTimer`
is a set, since of several entries with the same key `find` may return any.
Which routine runs matters here only as far as timers are concerned; when a
routine is resumed by mistake (a timer of another wait, for instance) it goes
on and may wait again. `TimedWait` says what is left when timers are forgotten:
a wait ends by an event that was reported for it, or after the clock was seen
to be past its deadline (`due`). The clock may be set there too.

### TcpServer

Each step of a routine between two points where another actor may act is an
action; `pc` names the points. `Dispatch` is `handleEvent` for a channel of a
routine. If that routine has left its channel since `poll` returned, the
pointer is dangling: `Channel` and the callback object stored in it are in a
dead frame, and the memory of the callback has been freed. The outcomes are a
crash or a call of a callback that another channel has stored there since.
Timers are an ordered list here, because all waits take 3 seconds; `HandleRead`
takes any prefix of it as expired, and `cancel` removes the one entry that a
routine has (`Cancelled`). `TimerLast` restricts the order in which
`epoll_wait` reports descriptors: TRUE means that the timerfd comes last in
its batch. `epoll_wait` returns at most 1024 events per call
(`kInitEventListSize`); the instances have fewer descriptors. Clients connect, send, shut down their side, reset the
connection and read what they are sent; `full` is a send buffer without room.
After a reset `read` still returns what had arrived, and then an error; `write`
fails with ECONNRESET, and the routine closes the connection. If the client
had first shut down its side, the kernel's error is EPIPE instead and `write`
raises SIGPIPE, which nothing handles: `crashed`. The kernel forgets what it
knew of a connection when the descriptor is closed.

### Prefork

`status` says which processes live, and the variables of a process are
functions of it: `stack` (the routines that are running or have resumed
another, without the loop), `pc`, `task`, `cur` and `pool`. `Fork` makes the
processes one by one, and may fail; `Exit` is `wait(NULL)`, which returns with
the first process that dies. libco is not in the repository, so its loop is
modelled by what it gives to `stanard.cpp`: a routine that waits is resumed
when its descriptor is ready or after its second (`Accept`, `Read`). A
descriptor is named by its connection, which is enough because `TcpServer` has
the reuse of numbers. `Accept` is one pass of the loop of `accept_routine`: no
other routine of the process runs between its tests, and another process takes
a connection before `accept` or after it. `Die` is SIGPIPE: the kernel closes
what the process had, and with the last process (or `main`) that has it the
listening socket, with the connections in its backlog.

### Buffer

The array is a function from indexes that count from 0, so that `Copied`
(`std::copy`), `Resized` (`resize`) and `MovedToFront` (the second half of
`makeSpace`) are what the code does to it, and `Contents` is what
`retrieveAsString` would return. `readFd` is one `readv`: what does not fit
into the array goes to `extrabuf` and is appended from there. What the callers
owe is in the guards, from the assertions of the code. `shrink` has neither an
assertion nor a guard: it moves the bytes to the front of a smaller array and
leaves the indexes. Called when `readerIndex` is not `kCheapPrepend`
(`ShrinksLate`: after a retrieve or a prepend) it changes the contents, and may
leave `writerIndex` beyond the end. `WritableBytes` then wraps around, as
`size_t` does (`SizeT`). The copies that would reach beyond the array are
undefined in C++: they set `overrun`, where the model stops.

### SysHook

A call is a sequence of steps between which the kernel, the peer and other
threads act: `step` names the place. `PassesThrough` is the test at the start
of each call, and `SetFlags` is `fcntl(F_SETFL)`, with the flags the kernel
gets and those the entry remembers. `SysWrite` and `SysRead` give the results
that the kernel may return; a blocking call without a result has to wait.
`poll` is not hooked in this file (its hook is commented out), so that a wait
is the system's `poll`; it returns when the descriptor is ready or after its
timeout, that is, at any time. `send` is `write`, and `recv` and `recvfrom`
are `read`, line by line, as far as this model goes.

## 3. The runs

| Run | Instance | What it shows |
|---|---|---|
| `coroutines` | 3 routines, stack of 4 | all nestings of three routines; the stack has exactly the room it needs |
| `poller` | 3 channels, 2 descriptors | more channels than descriptors, so that every descriptor is used again by another channel |
| `timeouts` | 2 routines, 3 Timers, clock up to 5, set once, no ties, `MinWait` of 2 | two overlapping waits of different length, one of them renewed inside `handleRead`: each keeps its own timer and cancels no other; no Timer is used after it was deleted; the timerfd is armed and in time; liveness and refinement |
| `server_races` | 2 read-write routines, 3 connections (1 of them may be reset, or slow), 2 descriptors, timerfd in any place | descriptor shortage, an empty pool, resets and stale events: what holds until the process dies |
| `server_serves` | 1 routine, 2 connections, 2 descriptors, timerfd last, no resets | the loop comes to no channel that is gone; an empty pool when a connection comes, and which connections are dropped; liveness, and refinement of the worker pool |
| `prefork` | 2 processes with 1 routine each, 2 connections | competition for a connection, a process that must leave one to the other, resets, the death of one process or of both; safety and liveness |
| `buffer` | 2 values of a byte, strings of 1 to 3, prefix of 1, array of 1 to 7, `extrabuf` of 2, `size_t` of 4 bits | every way to run out of room: at the front, at the end, in `extrabuf`; `shrink` at any time |
| `hooked_calls` | 3 threads, 1 descriptor, calls for up to 3 bytes, room for 2 | one number opened, used and closed again by several threads; writes in parts; waits that end without an answer |
| `assert_in_getExpired`, `cancel_of_a_tie`, `stale_event`, `shrink_after_retrieve` | small | the findings, see below |

Bounds. Clock, clock steps, Timer addresses, connections, unread chunks and
the size of the buffer are bounded by constants, each named in the module that
uses it. A Timer address that leaks is lost to the model as it is to the
program, so that the number of addresses also bounds the number of waits that
end by an event. Two waits are enough for every interaction of timers, since
`delTimer`, `getExpired` and `insert` compare two entries at a time; of the two
lengths of a wait (`Delays`, 1 and 3) one is below `MinWait`. In the
server two routines and three connections give every combination of one idle
and one busy routine and of both busy; with two descriptors for them the third
connection finds none free, so that `accept` fails, and no connection is
dropped there. `server_serves` has the other case, a connection that is
accepted while the one routine is busy. One connection
that may be reset (`Resets`) and that may have a full send buffer (`Slow`) is
enough: the end of the process by SIGPIPE needs one, and a descriptor that is
not writable takes no part in what the loop does with the others.
In `prefork` two processes with a routine each are the least that compete; the
safety properties are proved for any number of processes and routines. In the buffer the
code tells lengths apart only by comparing them with the room at the front, at
the end, and in `extrabuf`; each comparison goes both ways in the instance.
The hooked calls never look at the entry of another descriptor, so one
descriptor is enough (and the proofs hold for any number); a call of three bytes with room for two takes at least
two tries. The proofs remove the bounds for the modules they are about.

Deadlock is not checked where the system may stop: all routines may have
ended (`coroutines`), the clock has reached its bound (`TimeHeap`), the
process has died of a stale event or of SIGPIPE (`server_races`), the
clients have nothing left to do (`prefork`), or a copy has reached beyond the
array (`buffer`). Symmetry is used in runs
without liveness only.

Fairness. `TimeHeap`: time passes, until the bound of the clock; the loop is
scheduled, unless it sleeps in `epoll_wait` and nothing is ready; and a
routine that runs yields some time, because neither routine of the server
loops without a wait as long as its descriptor has nothing more to read.
`TcpServer`: the one thread is scheduled as long as it has something to do;
nothing is assumed of the clients. `Prefork`: a process that runs goes on
(weak fairness), and its loop comes to every routine whose descriptor is ready
or whose second is over before it waits again. Other routines of the process
may run in between and other processes may take the connection, so that this
is strong fairness of `Accept` and `Read`. `SysHook`: a thread that can take the next
step of its call takes it; nothing is assumed of the kernel's room or of the
peers, since each wait has a timeout. `WaitEnds`, `Accepted`, `Closed`,
`ServesOn` and `CallsEnd` depend on nothing else. `CallsEnd` is about descriptors from
`socket()`: `co_accept` does not add O_NONBLOCK, and a write on its descriptor
blocks in the system as long as the peer takes nothing.

## 4. Findings

* `getExpired` aborts when a timer is due at the very microsecond at which
  `handleRead` reads the clock: `lower_bound` gives the entry whose key equals
  `now`, and the assertion wants `now < it->first` (`MiniHeap.cpp:158`).
* `delTimer` removes the timer of another routine if the expiries are equal
  (`MiniHeap.cpp:129`); `Channel.cpp:67` speaks of the corresponding timer.
  `CancelsOnlyOwn` proves that equal expiries are the only cause.
* A stale event: if the timerfd is reported before the descriptor of a routine
  whose timer has expired, `handleRead` resumes that routine, which may read the
  end of the stream, close and go back to the pool. Its `Channel` is gone, and
  the loop still comes to the pointer to it (`EventLoop.cpp:39`), where
  `TcpServer.cpp:167` speaks of waking the routine of the channel. With
  `TimerLast` that does not happen (`server_serves`, `EventsValid`). A routine
  that waits again instead makes its `Channel` again at the same address, and
  takes the event of the wait before for its own.
* `shrink` after a retrieve leaves `writerIndex_` beyond the end of the smaller
  array (`Buffer.h:139`). `writableBytes` wraps around, so that
  `ensureWritableBytes` makes no room, its assertion (`Buffer.h:113`) passes,
  and the next `append` writes outside of the array. `OnlyShrinkLeaves` proves
  that nothing else puts an index there.

Noted while reading, without a run: `delTimer` never deletes the Timer
(`MiniHeap.cpp:132`), although its comment in line 127 speaks of deleting a
timer, so that each wait that ends by an event leaks one (`LiveAfterDelTimer`
has it so); the constructor of `TcpServer` goes on without a listening socket
if it cannot make one, and the accept routine then fails every three seconds
(`TcpServer.cpp:98`); `errno` is tested after `std::cout` may have changed it,
and `buf` is printed up to a zero byte that it need not have
(`TcpServer.cpp:178-180`); `epoll_wait` reports at most 1024 descriptors at a
time, since `events_` is never enlarged; `EventLoop::runAfter` has no return
statement (the build happens to leave the result of `runAt` in place);
the hooked `connect` takes
POLLOUT for success (`hook_sys_call.cpp:302`) and so returns 0 for a
connection that was refused, as `PollConnect` says; `co_accept` leaves its
descriptor blocking, and `fcntl(F_GETFL)` reports the O_NONBLOCK that the
user never asked for.

## 5. The proofs

`Routine_proofs`. The inductive invariant is `TypeOK`, `StackWellFormed`,
`ContextsValid` and two facts that these need: routines on the stack have been
created and started, and one that has not been started has not ended.
From it: the properties of the run `coroutines`, for every finite set of
routines that has fewer members than `CallStack_` has entries
(`RoutineAssumption`). That the stack never overflows follows because a
sequence without repetitions is no longer than the set of its elements is
large. The refinement of `Coroutine` is proved step by step.

`Epoll_proofs`. `ChannelsExact`, `KernelAgrees` and `NoAssertFails` are
inductive only together, and only with the fact that the descriptor of a
registered channel is open: otherwise `epoll_ctl` fails, and its result is
ignored. The lemma `UpdateSucceeds` is the core: where the contract allows
`updateChannel`, the assertions hold and `epoll_ctl` succeeds.

`TimeHeap_proofs`. `TypeOK`, `TimersArmed` and `TimersAlive` are inductive
with `WaiterTimers`: the Timer of a waiting routine is its own, and is not
among those that have run and that `reset` will delete. `TimerfdArmed` and
`NoUseAfterDelete` follow for equal expiries too, which the run `timeouts`
leaves out. `FiresInTime` follows step by step from there. Under `~Ties`,
`OwnTimer` is inductive with the facts that expiries are distinct and that
nothing is expired outside `handleRead`; `CancelsOwn` follows, and every step
implements a step of `TimedWait` (`WaitsImplemented`, the safety part of
`ImplementsTimedWait`). All of this holds for every number of clock steps
(`MaxSteps`).

`Buffer_proofs`. The inductive invariant is the shape of the buffer, which
includes that the array has room for the prefix: otherwise the bytes that
`makeSpace` moves need not fit. It holds after a late `shrink` too, with
`writerIndex` possibly outside. What only holds inside of the array
(`SpaceIsMade`, the steps of `ByteQueue`) has `Inside(b)` as its premise, and
`OnlyShrinkLeaves` says how long that is true. There is one lemma for each operator that changes the buffer
(`Resized`, `MovedToFront`, `Written`, `Received`, `Prepended`, `Shrunk`): it
keeps the invariant and does to `Contents` what `ByteQueue` says. Invariance
and `Refinement` have one step per action, each of which cites its lemma.

`SysHook_proofs`. The invariant says that a descriptor in use belongs to one
call, up to the moment at which the system closes it (`OneOwner`,
`CallKnows`); that the table and the flags are right except where a call is
changing them (`FdRight`); that the counts of a call add up (`CallCounts`);
and what the last wait of a call tells of its descriptor (`CallWaited`): one
that was seen ready has stayed so, a try of a call that does not pass through
is the first or follows a wait, and a call that has failed has waited in vain
or its connection is gone. The lemma `Frame` shows once that a step of a call leaves the other calls and
descriptors as they should be, since no other call owns its descriptor; each
action then has to look at one call and one descriptor only. `TableCorrect`,
`CountsCorrect` and `FailuresWaited` follow for any number of threads and
descriptors. They rest on the contract that a
descriptor is used by one thread at a time (`MayUse`).

`Prefork_proofs`. The invariant is `TypeOK`, one formula per process
(`ProcessRight`) and one about the connections (`ConnRight`). The first says
that the place of a routine in its function determines whether it is on the
call stack, whether it is in the pool, and which of its two variables holds a
descriptor, and that a process which is not up has nothing. The second says
that no two routines hold one connection, and that what is held, what waits in
the backlog and what is gone are apart. A step of a process changes the variables of that process only, so each
action is checked for its own process and the others keep `ProcessRight`.
`OwnersCorrect`, `PoolsCorrect` and `DropsNothing` follow for every number of
processes, routines and connections; that `HasIdle` still holds when `accept`
has returned, so that the second test of the pool never drops a connection, is
what `DropsNothing` needs of `Accept`.

`TcpServer_proofs`. The server is composed of `Routine` and `Epoll`, and so is
its invariant `IInv`. Its first two conjuncts are those of the parts: the type
invariant of the coroutines and the whole inductive invariant of
`Epoll_proofs`, which is instantiated for the channels and descriptors of the
server. Each action of the poller that the server takes is shown to be allowed
by its contract, and the lemmas of `Epoll_proofs` then say that the invariant
of the poller is kept; nothing is proved about it again. The other conjuncts
are about the server:

* `StackShape`: the call stack is the main routine, the main and one routine,
  or the main, the accept and one read-write routine. No deeper nesting is
  possible, since a read-write routine resumes nobody;
* `StartRight`: no routine ends, and `start` makes the accept routine last;
* `AcceptorRight` and `WorkerRight`: the place of a routine in its function
  tells whether it is on the call stack, whether it is in the pool, which of
  `tskfd` and `cur` holds a descriptor, and whether its channel is registered
  and for which descriptor. `PoolIdle` and `WaitersWatched` are not inductive
  without it: a routine that leaves the pool must be known to wait in `Yield`,
  with no channel and no timer, or its descriptor would overwrite another;
* `Distinct(pool)`, `TimersRight`: a routine is in the pool once, and has one
  timer exactly while it waits or has just been resumed;
* `FdsRight`: an open descriptor of a connection is held by one routine;
* `ConnRight` and `ClosingRight`: which connections are in the backlog, which
  are open and which are gone, and what a routine that is about to close its
  descriptor knows of the client. `EchoesAll` needs the latter: that the read
  saw the end of the stream must still be true when `close` is called;
* `EventsRight`: with `TimerLast`, events of a batch that are not yet handled
  are for routines that still wait.

From `IInv` follow `TypeOK`, `FdOwned`, `PoolIdle` and `WaitersWatched`, for
any set of routines and any sets of descriptors and connections
(`TcpServerAssumption`: the names are different, descriptors are numbers), and
`EventsHaveChannel` under `TimerLast` (`EventsValid`), without which it is false
(the finding `stale_event`). `KeepsContracts` is proved along with the invariant, step by
step (`Contract`): every step of the server is a step that `Routine` and
`Epoll` allow. The lemma `Steps` then sorts the steps of the server by what
they do to the connections: nothing, a move of a client, `accept`, a
connection turned away, a hand-over to a routine, `close`. From it follow
`EchoesAll`, `DropsOnlyWhenBusy` and the refinement of `WorkerPool` (`Refinement`, the
safety part of `ImplementsWorkerPool`). `DiesOnlyOfSigpipe` says that with
`TimerLast` the process dies of nothing but the `write` that raises SIGPIPE,
for every set `Resets`; no run checks it, since the run with `TimerLast` has no
resets.

Since the server keeps the contracts, what is proved of the parts holds in it:
`PollerCorrect` (`ChannelsExact`, `KernelAgrees` and `NoAssertFails`) and `CoroutinesCorrect`
(`ContextsValid` and `ImplementsCoroutine`, from the theorems of
`Routine_proofs`, if there are fewer routines than entries of `CallStack_`).
`StackNeverOverflows` needs less: the server uses three entries of the 128,
however many routines it has.

`TypeOK` is checked by TLC where a run names it, and proved for every module
of the code.

Only model-checked: the liveness properties (`WaitEnds`, `Accepted`, `Closed`,
`ServesOn`, `CallsEnd` and the fairness in `TimedWait` and `WorkerPool`), which
are out of the prover's reach.

## 6. Not modelled

`connectionCallback_`; a listening socket that could not be made
(`TcpServer`); the bytes that are echoed, of which `TcpServer` counts chunks;
batches of `epoll_wait` that leave ready descriptors for the next one; more
than one thread in a process; a shortage of descriptors in `Prefork`, where
`co_accept` fails only when nobody waits (`server_races` has it for
`TcpServer`); `Buffer::swap` and what happens after a copy beyond the array; of the hooked calls the timeouts
that `setsockopt` sets (a wait may end at any time, so that their length does
not matter), the commands of `fcntl` that pass through (F_DUPFD makes a
descriptor that shares O_NONBLOCK and has no entry), the environment
variables, `gethostbyname`, and the switch that turns the hooks off; libco,
which is not in the repository.

Sockets and addresses (`Socket`, `SocketsOps`, `InetAddress`) are wrappers of
system calls and conversions of addresses; they keep no state and the servers
do not use them. The tests print, or need headers that are not there, and
`practice/` cannot be built: `TcpConnection` is empty, and it calls members
that `EventLoop` does not have.

## 7. Plan

1. (done) `Coroutine`, `Routine`, `Epoll`, `TimedWait`, `TimeHeap`,
   `WorkerPool`, `TcpServer`, `ByteQueue`, `Buffer`, `SysHook` with their
   runs; proofs for `Routine`, `Epoll`, `TimeHeap`, `Buffer` and `SysHook`.
2. (done) Resets and SIGPIPE in `TcpServer`; `Prefork` with its run and its
   proofs.
3. (done) Proofs for `TcpServer`: every safety property of its runs, the
   contracts and the refinement of `WorkerPool`, using the theorems about
   `Routine` and `Epoll`.
4. Batches of bounded size in `TcpServer`, the timeouts of `setsockopt` in
   `SysHook`, and the bytes of an echo (with `ByteQueue`).
