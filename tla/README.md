# A TLA+ model of tcpframe

tcpframe is a multi-process TCP server in C: a master forks workers that share one
listen socket, and each worker runs a single-threaded, level-triggered epoll loop with a
time-out for every connection.  This directory models the parts of it that carry its
logic, checks them with TLC on small instances, and proves with TLAPS, for every size, the
invariants that the runs check on those instances.

Paths below are relative to the repository.

## Inventory

| part | state | operations | interacts with |
|---|---|---|---|
| timer heap (`src/min_heap.c`) | pointer array, used and allocated size, index of each node | init, push, pop, erase, reserve, shift up, shift down | driven by the reactor's register, unregister and time-out functions |
| reactor (`src/reactor.c`) | table of descriptors (mask, argument, callbacks), epoll set, cached time, count of clients | EventBaseCreate, EventAdd, EventDel, the dispatch loop, time-out phase | calls the callbacks with what the slot of the descriptor holds |
| connection callbacks (`src/socket_util.c`) | `ConnFd`: descriptor, buffers, counters, timer | accept, receive, send, time-out, destroy, resize of both buffers, append | register and unregister events and timers, call the protocol |
| binary protocol (`src/bin_proto.c`) | none of its own; works in the buffers of `ConnFd` | pack, unpack, dispatch by command, echo, test reply | called by receive, appends to the send buffer |
| socket API (`src/socket_api.c`) | none | create server, receive and send with partial results | called by main and the callbacks |
| master and workers (`main.c`) | count of workers to fork, signal handlers | fork, wait, two SIGTERM handlers | signals to the process group |
| server log (`src/server_log.c`) | one handle per process: mutex, descriptor, level, size, file count | create, print, roll, destroy | everybody logs, the signal handlers too; a fork copies handle, mutex and descriptor |
| benchmark client (`client/http/`) | array of clients indexed by descriptor modulo its size, epoll set, counters, cached time | connect, send, receive, reset, clear time-outs, refill | a program of its own |

What is hard in it, and what makes each part right:

* **Heap.**  Nodes are erased by an index stored in the node, and a timer is renewed by
  overwriting the key of a node *in* the heap before it is erased.  Right means: between
  operations the array is ordered, indexes and positions agree, exactly the live
  connections have a timer, no access leaves the array, and the time-out made of the root,
  in whole milliseconds and an int, ends when a timer is due.  realloc may fail and the
  clock is the wall clock.
* **Reactor.**  One epoll_wait returns events of many descriptors, and a callback in the
  batch may close a connection whose descriptor a later accept of the same batch gets.
  Right means: the table, the epoll set and the open sockets agree (EventAdd and EventDel
  choose the operation from the table alone, and a failure ends the worker); a callback
  gets a live connection, the one the event was about; every way a connection ends gives
  everything back; a silent connection is reaped.
* **Connection.**  Packets and replies are cut anywhere by TCP.  Right means: packets are
  framed as they were sent, replies are sent once, whole and in order, and the write event
  is registered exactly while there is something to send.
* **Master.**  Workers end while others are forked, and a fork inherits the master's
  handler.  Right means: the count balances, workers come back, and nobody survives a
  master that stops.  The handlers log first and may hang in that, so the last two hold
  with exceptions, which only the model of the log can state.
* **Log.**  SIGTERM may interrupt a line or the exchange of the handle, and the handlers
  log.  Right means: a worker has no log but its own, the handle is there between lock and
  unlock, and SIGTERM ends a process wherever it does not find it in a lock.
* **Benchmark client.**  Connections end and are replaced in the middle of a batch, a
  client that times out sends its request again on the same connection, and a client is
  found by its descriptor modulo the size of the array.  Right means: slots, descriptors
  and the count of clients agree, events reach the client they are for, two answers never
  count for one request that went out, and the benchmark ends.

`PROJECT.json` lists the hazards, each at its line, with the properties about it.

## Modules

| module | models | kind |
|---|---|---|
| `TimerSet` | what the reactor expects of its timers: a set with deadlines, from which only a due, earliest timer expires | abstract specification |
| `MinHeap` | the heap and the reactor's operations on it | component; implements `TimerSet` |
| `MinHeapProofs`, `MinHeapRefinement` | theorems about `MinHeap` | proofs |
| `ReactorProofs`, `ConnectionProofs`, `MasterProofs`, `ServerLogProofs`, `BenchClientProofs` | theorems about the module they are named after | proofs |
| `Reactor` | one worker: loop, table, epoll set, life of connections; timers as in `TimerSet` | component |
| `Connection` | the bytes of one connection: buffers, framing, replies | component |
| `Master` | the processes, their counts and signals | component |
| `ServerLog` | the log of every process, step by step, composed with the actions of `Master` | composition |
| `BenchClient` | the benchmark client against a server and a network | component |
| `MC*` | instances for TLC | |

Operators whose name ends in `_Something` and whose comment starts with "Mutant" are
faulty variants of the definition they precede.  `PROJECT.json` pairs each with a
property that TLC finds violated when the variant takes the definition's place; nothing
else uses them.

### MinHeap

`heap`, `iNodeUsed`, `iNodeCapacity`, `iHeapIndex` and `stTimeout` are the fields of
`MinHeapHeader` and `TimeoutEvent`; slots past `iNodeUsed` keep their stale pointers.
Every iteration of the loops of `__MinheapShiftUp` and `__MinheapShiftDown` is a step
(`ShiftUpStep`, `ShiftDownStep`); `pc`, `uHoleIndex` and `item` are the loop's state.  A
worker is single-threaded, so nothing interleaves with an operation: the steps are there
to make the loop invariants visible, and `Idle` guards the start of the next operation.
`RegisterNew`, `Reregister`, `Unregister` and `PopExpired` are the four uses the reactor
makes of the heap, with what they do before the first loop; `FinishPush`, `FinishDown`
and `FinishEraseUp` are what follows the last iteration, including the push that
`RegisterTimerOutEvent` makes after its erase.

`EpollTimeout` is what the loop gives to `epoll_wait`: the distance of the root from the
cached time, rounded up to milliseconds of `UsecPerMs` ticks and cut to an int of
`2 * IntHalf` values (`ToInt`).  `WaitIsExact` says that this sleep, counted from the cached
time, ends when a timer is due and less than a millisecond late; what the callbacks took
since the time was cached comes on top (`lag` in `Reactor`).  After the clock was set back
far enough the cut makes the value wrong, even negative, which is for ever; the property
excepts that (`Near`).

`FinishEraseUp` is the ShiftUp branch of `MinheapErase`, which sets the index of the wrong
node to -1 (`src/min_heap.c:305`).  `history` records that this branch was taken.  The
properties of the heap's contents hold until then and say so (`Clean`); bounds hold
always.  When a freed node is left in the array the next operation would read freed
memory, and the model stops (`Defined`).

### Reactor

`iMask` and `pstArg` are the table, `interest` is the kernel's epoll set, `open` the
kernel's descriptors; they are separate so that they can disagree.  `batch` holds what
epoll_wait returned and `seen` the connection each event was about at that moment
(recorded for `BatchFresh` only).  Descriptors are dispatched in any order, since epoll
promises none; the read half and the write half of one event are two steps, and the
second looks at the mask again as the code does.  The receive callback has the outcomes
`Connection` gives it: a part of a packet, a packet with or without a reply, or the end.
`ttl` is a deadline relative to `pstTimeCache` and `lag` how far the cached time is
behind: all timers are handled relative to the cached time, which is refreshed only after
epoll_wait.  How long a timer is overdue makes no difference to the loop, so `ttl` stops
at 0, where the code keeps an absolute deadline.  Timers behave as `TimerSet` promises and
every live connection has one: a worker in which no realloc failed and no erase took its
ShiftUp branch.

A worker ends in phase "noctl" (epoll_ctl failed), "noaccept" (accept failed with an errno
that is not EINTR, EAGAIN or EWOULDBLOCK: EMFILE when no descriptor is left, others at any
time; `AcceptFails`) or "sigpipe".  In phase "overrun" a descriptor past the table was
accepted and the model stops.

Abstractions: descriptor 0 stands for the listen socket, other descriptors of the process
are left out; a batch holds all ready descriptors (fewer than `EPOLL_SIZE`); EINTR happens
only when epoll_wait would block; the ends of a worker for want of memory, or because a
socket cannot be made non-blocking, are left out; edge-triggered mode, `iStopSign` and
`__DeleteEventBase` have no use in the code.

### Connection

The client's stream is a sequence of packets; a position in it tells which byte of which
packet the server reads, so the server's framing is compared with the client's instead of
being assumed.  Each packet records where it starts (`start`) and how many bytes of reply
come before its own (`out`), which is all the properties need to know of the sums of
lengths.  `RecvData` is `PynServerRecvData` with its partial results: all, some,
nothing, or 0 at the end of file even after some bytes.  One receive callback is one step, chosen
by what is there: `RecvHeadFails`, `RecvHeadPart`, `RecvBadHead`, `RecvBodyFails`,
`RecvBodyPart`, `RecvPacket`; the last one contains `ProcessEntirePacket` and the reply.
The send buffer holds, per byte, which byte of which reply was put there.
`Resized` has the three branches of `ResizeSendBufferPtr`; `sendAlloc` is what malloc was
really asked for.  A write outside the buffer ends the behaviour (`status = "overrun"`).
The overlapping memcpy of `AppendPktToBuff` is taken to copy what was there before.  Two
kinds of bytes of a test reply are never written by the code (`Unwritten`: the command,
which `SetPacketCmd` writes into the wrong memory, and the last byte of the body);
they keep what the buffer held and no property asks anything of them.  `AddAllData2Packet`
also reads past the literal it fills a long body with (`bin_proto.c:437`); which bytes it
finds is left out, and both accesses are taken not to end the process.  Lengths are scaled:
head 2 for 5, body at 3 for 13, padding 2 for 128, 2 bytes per callback for 4096.  A reset
by the client and a read error are the end of file or the time-out of the model.

### Master

`worker[w]` is "young" from the fork until the worker installs `ChildSigHandler`; in that
window SIGTERM runs `ParentSigHandler` in the worker.  `Fail` is every end of a worker by
itself: no log, no event base, an `exit` of the reactor.  The branch of `main` for an
error of `wait` is unreachable by `WorkersBalance`: there is always a child to wait for.
When a fork fails `main` returns (`ForkFails`) and tells nobody, although the comment at
`main.c:257` promises the workers a signal.

A handler is one step here: what it does after its line of log.  That line may wait for
ever, so nothing makes the step happen: `Master` has no fairness and claims no liveness.
`ServerLog` has the line and states what does happen.

### ServerLog

`ServerLog` has the variables of `Master` and an instance of it; each action of `Master`
is conjoined with what the code does to the log at the same time.  `at` is where the main
flow of a process is: in a line (`LogMsg`, `Format`, `Lock`, `Write`, `Unlock`), or, in a worker
just forked, on the way from the inherited handle to its own (`DestroyMutex` to
`OpenLog`, one step per call that changes the handle).  `handle` is what
`g_pstServerLogHandle` points to at that moment, `files` the logs of which the process has
a descriptor.  The master logs once per turn of its loop, after a fork, a wait and an
error of fork.

A process that was sent SIGTERM runs its handler before anything else: its main flow stays
where it is.  `HandlerLogs` is the LOG_ERROR of either handler.  It returns at once
without a handle or a file; it does not wait for a destroyed mutex (pthread_mutex_lock
fails on it); it waits for one that is held, for ever if the holder is the interrupted flow;
with a handle that was freed or never written to, its outcome is open.  The flow calls
`localtime_r` and `malloc` outside the mutex (`Format`, position "libc", and "free" for
the handle), and the handler calls them too: if the signal found the flow there, the
handler may wait for their lock for ever (`InLibc`).  What else a serving worker allocates
and frees is taken to lie at "libc" as well.

What `Master` takes to be one step, a handler that tells the workers and exits, is then
shown to happen wherever the signal finds the process outside its log (`InLog`):
`EndsOutsideLog`.  A master that ends leaves only workers that were told and that the signal
found in their log (`StopsEverybody`), and the workers come back unless some process hangs in
its handler (`RestoredOrStuck`).  Between lock and unlock the handler never returns
(`TermEnds`, a violation, stated of the mutex of the log alone).

`Fail` is a young worker whose `CreateLogfileHandle` fails in malloc, pthread_mutex_init or
open, or the end of one that serves.

`CheckFileSize` is always false for a process that has a handle, so `Roll` is never taken;
it is there because `HandleInUse` holds for this reason only.

### BenchClient

`slot` is the array of `ClientFD`, `sock` the kernel's sockets and the epoll set, `batch`
what epoll_wait returned and has not been dispatched yet.  The functions that a callback
strings together map a pool (slots, sockets, `liveClientNum`) to a pool, so that a
callback is one step with everything it calls.  The time-out check resets every client
that expired; `ResetAll` states it slot by slot, since a reset touches only its own slot
and descriptor.  `socket` returns the lowest free
descriptor, as POSIX says; `SlotExact` rests on it.  Descriptors are dispatched in any
order.  By `TurnTaking` no event has both halves, so the code's second look-up of
`wFuncProc` in a slot the first half has replaced does not happen.

Requests and answers are counted in pieces: `wire` is what the server has not read, `inq`
what the client has not read, `rest` what is still to come of the answer being sent.  The
server takes any `ReqLen` pieces for a request, which is what it sees after a request was
cut by a time-out and sent again.  `DecodeResponse` takes whatever was read for an answer.
Time goes in steps of the 200 ms check; `age` is the age of `touchTime`, which a new client
takes over from its slot.

`written` is a history variable: the requests that went out whole, re-sent ones included.
`AnsweredOnce` bounds the answers by it, so it counts neither the writes, as
`totalRequests` does (`worker.c:890`), nor the packets of the server.  That `doneRequests` counts
complete packets, as `worker.c:161` says, is false: in this model, as in the code, each
segment of an answer that is read by itself counts.

`ParseOptions` calls `TestConnect` twice before the first client (`worker.c:266`, `:268`)
and neither socket is closed: the descriptors below `FirstFd` are those two, the epoll
instance and stdio.

Abstractions: answers later than the time-out are bounded by `MaxTimeouts`, ends of
connections and losses of datagrams by `MaxEnds`; `timeoutClientNum` is only displayed, and
capped; `totalRequests`, displayed too, is left out; EAGAIN and EINTR do not happen, since
nobody else writes to the socket and no handler is installed; `resetClientNum`,
`createClientNum`, latencies and the report are left out, as are the options.

## Runs

| run | result | checks |
|---|---|---|
| `heap` | pass | four connections, array growing 1, 2, 4, failing realloc, clock set back: types, bounds, order, indexes, timers, `WaitIsExact`, refinement of `TimerSet` |
| `heap_erase` | violation | `DestroyRemovesTimer`: seven connections are the least for an erase whose replacement rises with a clock that never goes back |
| `reactor` | pass | two connection blocks, four descriptors, table of three, dirty listen slot: `KernelAgrees`, `ArgIsLive`, `BatchFresh`, `WriteArmed`, `NothingLeaks`, and `CtlNeverFails`: the worker never ends on a failed epoll_ctl |
| `reactor_live` | pass | `SilentIsReaped`, `QueueMoves` under fairness, with two connections in the queue and descriptors that run out |
| `connection` | pass | three packets of seven kinds, up to two outstanding: framing, bounds, write event, output, answers |
| `late_body` | violation | `LateBodyAwaited` |
| `send_grow` | violation | `SendInBounds` |
| `reply_queue` | violation | `RepliesQueued` |
| `master` | pass | three workers, three failures, two kills, fork failing: `WorkersBalance` |
| `log` | pass | two workers, two failures, two kills, the service stopped: `OwnLog`, `HandleInUse`, `EndsOutsideLog`, `StopsEverybody`, `RestoredOrStuck` |
| `log_signal` | violation | `TermEnds` |
| `bench` | pass | two clients, two answers, three modes: `SlotExact`, `TurnTaking`, `BatchFresh`, `AnsweredOnce`, `Finishes` |

The five violations are disagreements between the code and what a comment of the
repository says of it; `PROJECT.json` quotes the comments, and lists under findings
further disagreements met while modelling that need no run to be seen.  Deadlock is not
checked: a heap may be left with a freed node, a worker may exit, a connection ends, the
service stops, a process hangs in its handler, the benchmark ends.

**Bounds.**  `MaxUsed` and `MaxClock` bound the heap's array and clock; four nodes make a
heap of three levels in which both children, one child and no child of a hole occur, and
deadlines that tie.  Without a clock that is set back a pushed timer is the latest and never
rises; with it `ShiftUpStep` runs and a renewal reaches the ShiftUp branch of an erase.  A
millisecond is two ticks (`UsecPerMs`) and an int has the values -2 to 1 (`IntHalf`), so
that distances which are no whole milliseconds, and ones which do not fit, both occur.
realloc may fail in this run, so the half of `TimersExact` that every live connection has a
timer, which holds when it does not, rests on the proof.  In the reactor two connection
blocks and three usable descriptors allow a descriptor and a block to be freed and reused,
separately, within one batch; `MaxInbox` 1 still allows partial packets for ever.  A table
of three is overrun before the fourth descriptor is missed, so that accept fails for want of
one in `reactor_live` only, whose two descriptors for connections fit the table; there
`MaxBacklog` is 2, since a queue of one is empty after every accept.  In `connection` the
buffer of 8 is shorter, equal and longer than packets and replies, and the move to the front
of `ResizeSendBufferPtr` happens.  In `master` two workers of three may be away while the
third is young.  In `log` two workers are enough for one to be forked, or to be in the
middle of its log, while the other is terminated; every handler may meet every step of the
exchange of the handle.  In `bench` a request takes one or two writes and an answer comes in
two segments, so that answers run ahead of requests; a second request waits partly in front
of a full socket; `RecvMax` of two pieces is exceeded when late answers pile up.  Each
behaviour has, at any time, one late answer and one moment of trouble, in which some or all
connections end or datagrams are lost; one error is tolerated (`MaxFail`) and the next ends
the run, and every one of the ends in `Ended` is reached.  That a request is itself cut by a
time-out takes two late answers; the same instance with `MaxTimeouts` 2 has 1.2 million
states and passes too.

**Fairness.**  The kernel schedules every process: weak fairness of the worker's thread
(`LoopStep`).  Time passes (`Tick`).  In `connection`, the network delivers, the worker
serves its ready events (that it does is `Reactor`'s loop), and the client reads what it is
sent, or else its connection times out.  In `log`, the master and each worker run; a handler
that waits for the interrupted flow is not enabled, or is stuck, so fairness does not get it
past the lock.  `master` assumes nothing.  In `bench`, the process runs, connections are
established and requests answered, with one fairness condition for all clients together: the
server may prefer one of them for ever. Nothing is assumed of clients, siblings, failures or
signals: they may act or not.  `SilentIsReaped` holds with signals that interrupt epoll_wait
because the cached time is refreshed on that path as well, so that the next wait has
time-out 0 and does not block.

## Proofs

Every invariant that a passing run checks, its type invariants included, is also a
theorem `Spec => []Inv` for every value of the constants, as are the action property
`CtlNeverFails` and two refinements.  `PROJECT.json` lists them under theorems.

| module | theorems | inductive invariant |
|---|---|---|
| `MinHeapProofs` | `TypeCorrect`, `ArrayBoundsHold`, `HeapOrderHolds`, `IndexExactHolds`, `TimersExactHold` | `HeapInv` |
| `MinHeapRefinement` | `WaitIsExactHolds`, `Refinement` (`MinHeap` implements `TimerSet`) | `RefInv` |
| `ReactorProofs` | `ReactorTypeOK`, `KernelAgreesHolds`, `ArgIsLiveHolds`, `BatchFreshHolds`, `WriteArmedHolds`, `NothingLeaksHolds`, `CtlNeverFailsHolds` | `Inv` |
| `ConnectionProofs` | `ConnectionTypeOK`, `FramingExactHolds`, `RecvInBoundsHolds`, `WriteArmedHolds`, `StreamIntactHolds` | `RecvInv`, `SendInv`, `Intact` |
| `MasterProofs` | `MasterTypeOK`, `WorkersBalanceHolds` | `Balanced` |
| `ServerLogProofs` | `ImplementsMaster` (`ServerLog` implements `Master`), `ServerLogTypeOK`, `OwnLogHolds`, `HandleInUseHolds` | `Processes`, `LogInv` |
| `BenchClientProofs` | `BenchTypeOK`, `SlotExactHolds`, `TurnTakingHolds`, `BatchFreshHolds`, `AnsweredOnceHolds` | `Inv` |

**Assumptions.**  Only those on the constants, named, at least one per component
(`HeapAssumption`, `WaitAssumption`, `ReactorAssumption`, `ConnectionAssumption`,
`MasterAssumption`, `ServerLogAssumption`, `BenchAssumption`), which TLC evaluates in the
runs.  They say that lengths, sizes and bounds are naturals, that there are finitely many
workers, that the interval of a timer, in milliseconds, fits an int, and how the constants
of the code relate: the head comes before the command and the body (`HeadLen <= CmdPos <
BodyPos`), a buffer has room for a head and for the `sizeof(int)` bytes that
`ResizeSendBufferPtr` asks malloc for, a packet is longer than what precedes its body, a
padding has at least two bytes, a socket takes a whole request of the benchmark (`SndBuf >=
ReqLen`), and the benchmark is asked for at least one client and one answer.

None of the invariants is inductive by itself; each module first states what is, and TLC
checked it on the instance of the component's run before it was proved.  Each proof goes
action by action.

**Heap.**  The theorems on the heap's contents hold until an erase took the ShiftUp branch;
types and bounds always.  `HeapInv` adds what holds inside the loops, where the array has a
hole: it is the conjunction of `SafeInv` (types, sizes and the position of the hole) and,
while `Clean`, of `Placed`, `Indexed` (every node outside the hole is where its index says),
`Ordered` and `OrderedAcrossHole` (the order skips the hole: the parent of the hole is at
most the hole's children, which lets either loop stop at any iteration), `ItemFits` (what
the loop so far has established about the item against the hole's other side), `Running`
(which operation runs which loop and with which nodes) and `Owned` (which node is outside
the heap, and why).  The delicate step is the renewal: the key of a node changes while it is
in the heap, and order survives because that node is at once the hole.  `WaitIsExactHolds`
needs that rounding up is exact (`RoundsUp`), that what fits an int is not changed by the
cut (`FitsInt`), and that the root is minimal; this is an induction along parents, done with
the existence of a least element of a nonempty set of naturals: the least position of a node
that is earlier than the root would have a parent that is earlier too.  The refinement adds
`ReasonInv`, why a removal under way is allowed by `TimerSet`: a popped node was due and
earliest when its loop started, and stays so since the clock moves only between operations.

**Reactor.**  A slot with a mask is the slot of an open descriptor, the open descriptors are
the listen socket and those of live connections, and a connection's slot points back to it.
To these come `Starting` (before EventBaseCreate nothing is watched, whatever malloc left),
`Reads` (a live connection always listens for input, so that deleting the write event is a
MOD), `DeadQuiet` and `NoListenArg`, and for the batch `Dispatching`, `BatchIdle` and
`NoListenWrite`.  `BatchFresh` then is preserved because a descriptor with an event in the
batch was not closed since epoll_wait returned, unless by the read half of its own event,
and only closed descriptors are handed out.  That EventAdd and EventDel always find the
epoll set they expect gives `CtlNeverFailsHolds`: their exits are dead code as long as
descriptors stay within the table.

**Connection.**  The receiving side (`RecvInv`) is proved first and by itself: `Stream`
says that packets follow one another and that the places where they end grow, `Position`
that bytes read minus bytes of the current packet is the end of the packets processed,
and that once the head is complete the rest of the body has room, for which the doubling
of the buffer needs `2^n > n`.  The sending side (`SendInv`) says that what waits lies
within what was really allocated; a reply that does not fit ends the behaviour
(`send_grow`).  `Intact` restates `StreamIntact` reply by reply (`InPlace`): byte i of
reply k is at its place of the output, on the wire or in the buffer, which is what a send,
the move to the front and the append of a reply each preserve.  It says nothing once two
replies overlapped (`reply_queue`).

**Master and log.**  `Balanced` is the balance of workers together with the types, whose
bound on `iWorkerCount` follows from it.  `ImplementsMaster` shows that every step of
`ServerLog` is one of `Master` or leaves its variables alone; the balance is therefore
proved of `Master`'s steps alone and carried over.  `LogInv` says what handle, mutex and
open log a process has, from where its main flow is.

**Benchmark client.**  `SlotExact` rests on this: descriptors of clients all lie in the
first `needClientNum` after `FirstFd`, an interval that has one descriptor for each
remainder (`WindowHas`, `WindowOnce`).  While a client is missing some slot is free, so the
descriptor of the interval with that remainder is closed; the lowest free descriptor is
at most that one, hence again in the interval, and the only one there with its remainder,
hence its slot is free (`NewFdFits`).  The functions of the pool are shown to keep
`PoolInv` and to leave all other clients alone (`Keeps`), from which `BatchFresh` follows
for every callback at once (`HandledFresh`).  `AnsweredOnce` counts the clients that wait
(`Waits`): the write that takes the last piece of a request adds one and is counted, any other
write adds none, an answer takes one away, and nothing else adds one.

**Left to TLC.**  Liveness under fairness, which TLAPS 1.4.5 does not reach:
`SilentIsReaped`, `QueueMoves`, `Answered`, `EndsOutsideLog`, `StopsEverybody`,
`RestoredOrStuck`, `Finishes`.  The five properties that the code
violates are false, and their runs show how.

## Not modelled

* The names and numbers of rolled log files: the roll never runs (`server_log.c:22`).
* Options, statistics (`totalRequests` among them) and report of the benchmark client; of
  `TestConnect` only the descriptors it leaves open.
* Creating and configuring sockets, becoming a daemon: sequences of system calls made
  once, before there is anything to interleave with.  Of the daemon only the disposition
  of SIGPIPE is kept (`Daemon` in `Reactor`).
* Byte order, sequence numbers, log lines, the text of replies.
* Functions without a caller.

## Plan

Done: all modules of the table with their runs; every invariant of a passing run, the
action property of the reactor and both refinements are proved.

What is left to state and prove, in this order:

1. That `Reactor` keeps the timers as `TimerSet` allows: `Expire` only of a due timer, and
   the cached time never ahead of the clock.  `Reactor` has relative deadlines (`ttl`,
   `lag`), so this needs an absolute clock as a history variable.
2. Action properties: that a connection's output only grows (`Connection`), and that a
   worker once told to end never serves again (`Master`).
3. For each liveness property the invariant half of its argument: what is enabled while
   the goal is not reached.
