# libconn in TLA+

A verification development for libconn, a C event loop (`src/src/event_loop.c`,
`src/src/io.c`) with a C++ layer for HTTP and WebSocket on top of it. Paths
below are relative to the directory that holds `src/` and `tla/`, so that the
library's own `src/io.c` is `src/src/io.c`.

1. [The system](#1-the-system)
2. [The modules](#2-the-modules)
3. [The runs](#3-the-runs)
4. [The proofs](#4-the-proofs)
5. [What the code does that its texts do not say](#5-what-the-code-does-that-its-texts-do-not-say)
6. [Not modelled, and the plan](#6-not-modelled-and-the-plan)

## 1. The system

An `event_loop_t` belongs to one thread, which runs `event_loop_run`: look at
the heap of timers, wait at the dispatcher (epoll) for at most 10 ms, run the
callbacks of the events that were found. Everything else is a callback of a
connection (`io_t`), of a timer, or of a function that another thread posted.
Posted functions, `io_send_data`, `io_close` and the `quit` flag cross threads by
design; `get_io`, `io_add` and the state of a `WebSocketClient` do so because
`io_accept_cb`, `open()` and `close()` run in another thread than the loop they are
about.

| Component | State | Operations | Meets | Hard parts | Correct when |
|---|---|---|---|---|---|
| Posting (`EventLoop.cpp`, `loop_post_event`, `pipe_read_cb`) | `m_eventQueue`, `custom_events[]`, `custom_events_num`, the pipe, `loop->mutex` | post, wakeup, stop; read the pipe, run the table | every thread that posts; the dispatcher | two queues with two locks and a count of bytes between them; a pipe that is full; a table that is not bounded | functions run one at a time, in order, once; none is forgotten |
| Heap (`heap.h`) | the array | insert, pop, remove, top | timers | equal keys, last slot, full and empty | a priority queue |
| Timers (`event_loop.c`, `io.c`) | the heap, `timers_num`, the pending list, four timers per connection | add, reset, delete, expire; timeouts | callbacks that add, reset, close while timers run | a timer that is reset, freed or removed while it is due; unsigned clocks and counters | each timer runs when it is due and as often as it should; no freed timer is reached |
| Connection (`io.c`, `io_close`) | `write_buf`, `events`, `cb`, `closed`, `write_mutex` | send, flush, read, connect, close | any thread; epoll; the peer; OpenSSL | closing while another thread is inside; partial writes; errors with the lock held | bytes arrive in order; closed once; locks returned |
| Loop and fd table (`event_loop.c`) | `io_array`, the pending list, `cur_ms`, `quit` | run, stop, get_io | all of the above | an fd that is closed and reused while its event is pending | an event reaches the io it was for |
| Dispatchers (`dispatcher/`) | the kernel's or the library's set of fds | add, del, run (update is called by nobody) | the loop | one fd, two events; an fd that is closed while it is watched | what was added and not deleted is reported |
| Acceptor and thread pool (`io_accept_cb`, `thread_pool.c`, `event_loop_thread.c`) | workers, round-robin position | start, next loop, accept | main loop and workers | a connection is registered with a worker before its callbacks are set | every connection gets its callbacks before its events |
| C++ loop thread (`EventLoopThread.cpp`) | thread, started flag | init, destroy | creator and thread | ownership of the condition variable; join without stop | init returns once the loop runs, and what the two share outlives its use |
| WebSocket frames (`WebSocketParser.cpp`, `ws_util.c`) | a buffer | feed, build | client, server | frames cut anywhere, length forms | what is built is what is parsed |
| WebSocket client (`WebSocketClient.cpp`, `WebSocketChannel.cpp`) | state, ping timer | open, send, close, closeAfterTime | caller's thread and loop's | the calls run in the caller's thread | its state is true; onopen, messages, onclose in this order, onclose once |
| HTTP server (`http/`) | parser, request, response, service type | feed, respond, upgrade | connection, router | body in pieces, several requests in a read, an upgrade | no response that was not asked for; the service hears of opening, messages and end in this order |
| HTTP client (`HttpClient.cpp`) | tasks, channels | exec, sendAsync | caller and loop | failure and timeout | every task ends, its callback called at most once |

How they interact: the dispatcher marks an `io_t` pending and `process_pending_event`
calls its `cb` (`handle_event` or `io_write_cb`), which calls the program's
callbacks; these call `io_send_data`, `io_close`, `io_set_*_timeout`, `add_timer`.
A posted function reaches the loop as a byte in a pipe, which is one more `io_t`.

`PROJECT.json` lists each hazard at its line, with the properties that watch it.

## 2. The modules

| Module | What it is |
|---|---|
| `PostQueue` | What `postEvent` promises: a FIFO served one function at a time |
| `EventPost` | The code that implements it |
| `EventPostProofs` | Theorems about `EventPost` |
| `PriorityQueue` | What `heap.h` promises |
| `HeapOps` | The functions of `heap.h`, each as the array it leaves behind |
| `Heap` | The same, one comparison or swap at a time |
| `MCHeap`, `HeapProofs` | For TLC; theorems |
| `Timers`, `TimersProofs` | Timers, timeouts and the loop's passes over them, on `HeapOps`; theorems |
| `IoConn`, `IoConnProofs` | One connection between the loop's thread, other threads and the peer; theorems |
| `Dispatchers` | epoll, poll and select as functions of their tables |
| `EventDispatch` | A loop with several connections on fds that are reused, on `Dispatchers` |
| `EventDispatchProofs` | Theorems about both |
| `Acceptor`, `AcceptorProofs` | The workers of a server and what `io_accept_cb` hands to them; theorems |
| `WsFrames` | Building and parsing of WebSocket frames |
| `HttpServing`, `HttpServingProofs` | A connection of `HttpServer`: requests, upgrade, frames, on `WsFrames`; theorems |
| `LoopThread` | The start and the end of an `EventLoopThread` |
| `Clients` | A `WebSocketClient` and an `HttpClient` on one `LoopThread` |
| `ClientsProofs` | Theorems about both |

An operator whose name is that of another with a suffix (`Store_OffByOne`) and
whose comment begins with "Mutant" or "Faulty variant" is a slip a programmer
could make. No specification uses it; it is there to show that a property would
catch it.

### EventPost

`postEvent` is five steps: `Push` (queue, under `m_mutex`), `LockForPost`,
`WritePipe` or `PipeFull`, `Store`. `pc[p]` is the poster's place; `count[p]`
makes each function distinct. The loop is `TestQuit`, `PollTimeout` or
`ReadPipe`, `LockForDispatch`, then `FireSlot` (pop the front of the queue) and
`RunFunction` for each byte, `EndDispatch`. `io_read_cb` reads all that the pipe
holds before `pipe_read_cb` locks: that gap is the component's difficulty, and
`raced` records that a byte fell into it. Three outcomes are undefined in the code
and end a behaviour with `fault`: a store past the table, a call through a slot
that was never written (which may also be NULL and skipped), the front of an empty
queue. `m_mutex` protects a push or a pop only and is not a step of its own.

### HeapOps, Heap

`h[i+1]` is `array[i]`. `Heap` starts each call with one action and then takes
`StepUp` or `StepDown` per turn of `heapify_up` or call of `heapify_down`; a ghost
`goal` holds what `HeapOps` says the call returns. The keys of members change only
outside the heap, as `process_timer` and `reset_timer` do it.

### Timers

`pc` is where `event_loop_run` is: the head of the loop (`top`), the dispatcher
(`poll`), callbacks of connections (`io`), `process_timer` (`expire`),
`process_pending_event` (`pending`), a timer's callback (`cb`, `return`). The
program's calls are actions that are enabled in `io` and in callbacks of its own
timers. `tm` holds the timers with their flags as in `event.h` (`destory`,
`pending`); `io` what a connection knows of its timeouts. `NewTimer` is `malloc`: the
timers are interchangeable until given out. The clock is a step of its own. A timer that
was freed keeps its fields: what a use of it would do is not modelled, the invariants say
where none happens.
Calls from other threads are not modelled: `add_timer` and the heap have no lock.

### IoConn

`pc[t]` is where thread `t` is inside `io_write` or `io_close`; the loop's thread is
also inside `handle_event`, `io_connect_cb`, `io_read_cb` or `io_write_cb`, and all
its other callbacks are `idle`. Bytes are numbered as `io_write` takes them on, so
`wire` and `wbuf` show loss, repetition and order. `epoll` is what the kernel watches
the fd for: adding to a registered fd fails and deleting one event deletes the fd,
as `EPOLL_CTL_ADD` and `EPOLL_CTL_DEL` do. `free_io` leaves NULL buffers; a thread
that uses one ends the program (`UseAfterFree`). Assumed: the program's `write_cb`
makes no calls, `connect_cb` is set, it does not start calls on a connection it knows
to be closed, and a change of `io->events` is one step. After the handshake an SSL
connection differs in what `SSL_write` does on a full socket (`WriteWant`); without
`SSL_MODE_ENABLE_PARTIAL_WRITE`, which `open_ssl.c` does not set, it never writes a
part, so an SSL connection's `write_buf` stays empty and the SSL half of
`io_write_cb` is not reached.

### Dispatchers, EventDispatch

A back end's table is a sequence of entries, an fd and its events: one per fd for epoll
and select, one per `add` for poll. `EventDispatch` keeps `io_array`, the pending list
and the fields of each `io_t` that decide what is done with an event. A pass is `Wait`
(the back end returns its reports), `Report` for each of them, then `Take` for each
pending event, with `handle_event`'s halves for writing and reading and the program's
callbacks (`pc = "user"`) in between, in which any connection may be closed, accepted
or made. A closed connection's fd is free and the kernel gives it out again. A second
thread does what `io_accept_cb`, `create_tcp_client` and `io_close` do to a loop that is
not their own, in steps: `get_io`, then `io_add`; the flag, the two `io_del`, `close`.
Two ghosts name what the code does not exclude: `raced`, an io that got the report
made for its fd's former owner, because it was put into `io_array` after the back end
returned, or that was closed by the other thread while `io_connect_cb` was about to
enable reading; and `stale`, the fd which that registers. A stale fd makes `select` fail
with EBADF in every pass from then on (`IsBlind`). An io without a callback that is given
a report stays marked as pending for ever. Left out: fds of 1024 and more, the growth
of tables, `FD_SET(-1)`, the pipe (it is added twice, as an io like any other), and
everything about the contents of a connection, which is in `IoConn`.

### Acceptor

The main thread is in `thread_pool_start` (`create`, `lock`, `wait`), then in its loop, and
after `io_accept_cb` in each of the three assignments of `HttpServer`'s `on_accept`. A
worker that looks at a connection between `io_read_enable` and the last of them sees
what is set so far: `read_cb` missing, a message is left in `read_buf` and never given to
anyone; `close_cb` missing, the handle is not deleted. The ghost `early` marks it. An SSL
connection has no such gap, because `ssl_server_handshake` calls `accept_cb` first; its
client needs `Flights` messages to get through. A message is what one read takes.
Failures of `pthread_create`, `malloc` and `accept` are left out.

### WsFrames, HttpServing

`BuildFrame` and `BuildWsFrame` compute the bytes of a header, `TakeFrame` is one turn of
`WebSocketParser::feedRecvData` on them; masks and payloads are counted, not stored.
Payloads have at most `MaxPayload` bytes: from there on `m_bufLen = frame_size * 2` of `sendFrame`
is no int.
`HttpServing` feeds a connection with requests cut into tokens: `line`, the two halves of
the header name `Upgrade`, `end` of the headers, and a body in two pieces. What
`http_parser` calls for each token, and where it stops (an upgrade, an error, nothing
more after `Connection: close`), is taken from its use in `HttpParser.cpp`. `RecvHttp` is
a whole `on_recv`: parsing, then the response, the switch, or nothing. After the
switch `RecvWs` and `ParseTurn` do the same for frames. `io_close` deletes the handle in
`on_close`; where the code goes on with it, the behaviour ends with `fault`. The reader
should know: the url, the headers and the method of a request are never cleared, so a
second request on a connection has both urls and is not routed; the service's
`onclose` is called by the handle's destructor. Left out: frames that come with the upgrade in one read
(it is not parsed to its end, so the connection is closed, as for a second request),
a request behind the upgrade in a later read, and fragmented messages (`fin` is not
looked at).

### LoopThread, Clients

`LoopThread` is the handshake of `EventLoopThread::init`: who holds the mutex, the flag, the
signal, and `deletes`, how often the mutex, the condition and the flag were deleted. That
is twice after a failing `pthread_create` and after every end of the thread, which ends
the behaviours of `Clients`. `Clients` adds a program's thread (`appPc`) that opens, sends,
closes and deletes a `WebSocketClient` and calls `async_send`, and the handlers of the
loop's thread (`loopPc`). The socket blocks, so `connect` and what follows run in the
program's thread; a step of the loop is what lies between two uses of the state
both write (`m_wsState`, the io, `m_pingTimer`, `m_sendBuffer`). The first time the
program opens or closes while the loop is in a handler of the channel is recorded
(`raced`) and ends the behaviour: what is then called and deleted is undefined. The
destructor joins a thread that nobody has told to stop: `Join` waits until `stop` was
called before. Also seen: all opcodes, pings and closes included, are given to
`onmessage`; the HTTP client's callback comes with the headers, before the body.
Left out: `closeAfterTime`, the loop's heap used by two threads, the blocking `send` of
`HttpClient`, keep-alive (`io->keepalive` is set by nobody here).

## 3. The runs

Every run is exhaustive within its bounds. `CHECK_DEADLOCK FALSE` is set where the
system may stop: bounded calls, a stopped loop, a closed connection, a crash.

| Run | What it shows | Bounds, and why they are enough |
|---|---|---|
| `post` | Types; the balance of bytes and functions; faults only for their known reasons; FIFO of the table while no byte is raced; `EventPost` implements `PostQueue`; posts return; functions are executed | 2 threads of 2 posts, pipe and table of 2, 1 wakeup, the loop may be stopped: the pipe fills, the table overflows, a byte races while others wait |
| `heap_order` | The loops compute the operators; order; implements `PriorityQueue` | 7 nodes, 3 keys, capacity 6: three levels, a last node with and without sibling, equal keys, a full heap |
| `timers_plain` | Timers of the program: one place each, not early, not too often, and none forgotten beside an endless one | 3 timers with delays 1 and 2, once, twice or for ever, clock up to 4 |
| `timers_idle` | Timeouts of a connection beside an endless timer that is deleted | 1 connection, 3 timers, 3 calls in all, delays 0 to 2, `timers_num` starting at 0 or 2 |
| `conn_safety` | Stream, single close, lock, crashes only by races | 1 thread beside the loop's, messages of 1, 2 and 4, 5 bytes, buffer of 2, socket of 2: a rest that does not fit behind others, and one that is too long by itself; 2 messages from the peer, resets, TCP and SSL, both ends |
| `conn_live` | Calls of every thread return and the loop comes back to its events; closed connections are released | As before with 2 bytes, buffer 2, socket 1, TCP only, no messages from the peer |
| `dispatch` | An event reaches the io it was for; the pending list; the tables of the back ends | 3 back ends; 3 connections on 2 fds by the loop alone, 2 with the second thread: an fd is reused while another is pending, and each race with a report happens |
| `accept` | No message or handle is lost but by `early`; workers share evenly; the start ends and messages are taken | 2 connections, 0 to 2 workers, TCP and SSL, 2 messages each, `read_buf` of 2, handshakes of 2 messages, 1 spurious wakeup |
| `http_serving` | Answers, the life of a WebSocket, frames cut anywhere | all sequences of 1 or 2 requests of 4 kinds; 2 frames of 3 opcodes, 5 lengths (both sides of 125/126 and of 65535/65536), masked or not |
| `clients` | The start of the thread, the state and callbacks of the client, the end of tasks | 2 connections one after the other, 1 frame each, 1 task, with and without pings |
| `timers_alone` | Finds a behaviour that a text of the repository excludes (section 5) | The program of the text: one timer at first, another from its callback |
| `conn_unsent` | Another of the kind | The smallest in which it happens: a server, the loop's thread alone |

`Max32 = 7` stands for `UINT32_MAX`: it is where a repeat count means "for ever" and
where `timers_num` wraps, and the runs reach neither end by accident.

Fairness. `post`: each poster and the loop go on, because threads are scheduled;
the mutex needs no more, since posts are finite. `timers_plain`, `timers_alone`: the clock
and the loop go on, since callbacks return. The runs of `IoConn`: each thread goes on,
a thread waiting for `write_mutex` gets it if it is free again and again (strong
fairness; the loop may poll a writable socket for ever and lock each time), and
a peer that is up reads. `accept`: threads are scheduled, and a loop serves each of its
connections that goes on being readable, since it takes all reports in turn. `clients`:
the loop's thread runs; one pass takes all that the pipe and the sockets have, so a
task and a response have their turn however much else there is (strong fairness of
`DoTask` and `HttpOnRead`); the HTTP server answers or closes. Nobody has to send,
close, post or stop.

Liveness. `HandedOverIsExecuted` names everything that can prevent execution: the
loop is stopped, the pipe was full, a byte was raced, a wakeup made it skip a slot,
undefined behaviour. `DueTimerRuns` has one condition, a timer that repeats for ever; without one the last
expiry of a loop's only timer ends the program, which is the counterexample of
`timers_alone`. `CallReturns` is about all threads: for the loop's it says that it comes back to
its events from whatever it calls. It has one exception, named `LoopWaitsForItself`: the peer
resets while bytes wait in the buffer, and `io_write_cb` closes the connection with
`write_mutex` locked. `LockIsReturned` says that this takes no less, and that SSL keeps
the lock only when a call had more bytes than the socket takes; `CallReturns` is checked
of TCP. In it and in `ClosedIsReleased`, `~Alive` is the use of a released buffer, which takes
another thread (`OnlyRacesCrash`). `StartsAndServes` excepts connections
that are closed or that a worker served too early; `TaskEndsOnce` excepts a loop that was stopped, a
double deletion and a race.

Some properties hold only under a condition because the code does not do more, and
the condition is what a user of the library has to know: `WaitsOnce` is checked of programs that set no timeout
twice and delete no timer (`reset_timer` and `del_timer` pop the top of the heap,
whichever timer that is); `NoDanglingTimer` says of the heap only that it holds no freed
timer of the program, because a connection's timer can be put into it three times (three
timeouts, one of them set again twice, each time popping another timer) and is freed after it
was taken out twice, which needs six calls and is beyond the bounds of `timers_idle`; `CountCoversHeap`
needs a `timers_num` that does not wrap; `OnlyRacesCrash` leaves crashes to connections that
another thread closes; `OrderedUnlessRaced` and `EmptyPopNeedsWakeup` say so in
their names; `OwnEventsOnly` and `MarkedIsListed` leave out an io that another thread
made while a report for its fd was on its way; `DataReachesHandle` a TCP connection that
a worker served before `accept_cb` had ended; `AnswersAreEarned` a request with a body
that comes later than its head and a read with parts of two requests;
`ClientStateIsTrue` and `EndIsLast` a program that calls `open()` or `close()` while the
loop's thread is in a handler of that client.

## 4. The proofs

All theorems are checked by TLAPS for every value of the constants that satisfies the
named assumptions. These say that sizes are natural numbers, that threads,
connections and fds are not confused with "nobody" and "none", and that

- the posters are finitely many (`EventPost`);
- the timers are finitely many, the heap has a slot, and the count and the repeats fit into
  32 bits (`TimersAreFinite`, `CapacityIsPositive`, `NumsFit`, `RepeatsFit`); the clock
  starts above 0 (`StartIsNatural`);
- the connections are finitely many and one of the pool sizes is the largest
  (`ConnsAreFinite`, `WorkersAreBounded`), which is what makes the counts exist;
- a payload is no longer than `MaxPayload` (`LengthsFit`), and an opcode is one of `ws_opcode`
  (`KnownOps`);
- there is a connection and an fd, and the back ends are the three of `dispatcher/`
  (`BoundsArePositive`, `KnownBackEnds`).

`EventPostProofs`. Types and control first: `TypeCorrect`, `MutexIsExclusive` (one
inductive invariant: who is between lock and unlock owns the mutex). `TokensBalance`
needs more than the balance itself: that the loop's index stays within the bytes it
read and that each poster's place determines whether its byte was written; the
invariant `Safe` conjoins these. A step of the loop moves a unit between pipe,
hand, queue and `Stuck`; cardinalities of `BeforeByte` change by one. `NoEmptyPop` and
`OverrunNeedsBacklog` are read off `Safe`. `TableIsFifoUnlessRaced` needs a second
invariant, `TableExact`: as long as nothing was raced, `stored` is `fired` followed by
the slots not yet run, and the slots are exactly the bytes. `Refinement` is
`ImplementsPostQueue`: initial states map to initial states, and each step to a step
of `PostQueue` or a stutter.

`HeapProofs`. `Basics` (types and no duplicates, through swaps) and `OrderInv`, which
is the heap order with a hole: while `heapify_up` or `heapify_down` runs, only the pair
at the index may be out of order, and its children are in order with its parent,
so that a swap moves the hole and nothing else. `CallsKeepOrder` is the case of no
hole. `TopIsLeastAlways` goes from parents to the root, which is an induction; it
is done with the least counterexample (`LeastNatural`, from the well-foundedness of
strict subset on finite sets). `Refinement` proves `ImplementsPriorityQueue`.
`LoopsComputeHeapOps` is `GoalReached`: what the functions of `HeapOps` return from where a loop has
got to is always the `goal`, since each turn is one unfolding of the recursion; that the
recursive functions exist is shown as in `TimersProofs` (below). With it the theorems about
`Timers`, which takes whole calls, are about the loops of `heap.h`.

`IoConnProofs`. The invariant is types, `CallsOK` (a sender returns to where it called from), `Control`
and the properties themselves. `Control` is what the theorems share. `LockOK`: between `lock` and the last use of
`write_buf` the thread owns `write_mutex` and `closed` is false, so nobody else writes.
`CloseOK`: `closed` picks one `closer`, and its place in `io_close` determines how often
`close_cb` was called, whether the buffers are released and what epoll still watches;
this is `ClosedOnce`. `ConnectOK` and `LoopCloseOK` are about the loop's thread alone: after a
close of its own no later step of the pass finds an event to handle, therefore a crash
needs a second closer (`OnlyRacesCrash`). `StreamIsIntact` is not inductive without the lock: only the
owner of `write_mutex` numbers bytes and appends them, and an empty `write_buf` means that all
bytes taken on are on the wire. `SocketOK` relates the socket to what was ever
given to it (`CanFillSocket` in `LockIsReturned`): a connection that speaks SSL was accepted,
so a call that wants more room had more bytes than the socket holds.

`AcceptorProofs`. `RobinOK` carries `WorkersShareEvenly`: the counts are equal once one is taken
off for the workers before `pos`, and `thread_count` is the number of connections given
away. For `DataReachesHandle` one needs, for each connection, how far `on_accept` has come for
it (`MainOK`, `CallbacksOf`: callbacks are missing only while the main thread is in `on_accept` for it)
and where its messages are (`DataOf`: sent is waiting plus delivered, unless `early`).

`ClientsProofs`. `ThreadOK` gives for each pair of places of creator and thread the owner of the
mutex and how often `ThreadArg` was deleted; it proves `StartIsSafe` and is inductive under the
steps of the clients too, which touch the thread only by starting it. `ClientOK` holds
while there was no race: `open()` has the connection to itself until it is registered, so that
`m_wsState`, the io and what the loop is doing determine each other; `PingOK`
says when a timer that will touch the channel exists. `CallbackOnce` (a task's callback is called at most once)
is the safety half of `TaskEndsOnce`.

`EventDispatchProofs`. First the back ends as operators: for each of the three, what `add`, the
two `del` of `io_close` and `close` do to the entries of an fd and that they leave the entries of
the others (`AddKeeps`, `DelKeeps`, `BothClears`, `CloseKeeps`), and that `run` reports exactly
events of entries (`ReportsFound`, `FoundReports`). poll's `del` moves the last entry into the gap, which is why a table
is described by its entries and never by their places (`Dropped`). Then the invariant. `TableOK` and
`OwnerOK` are `WatchedAsAsked` and need each other: an fd has one owner, and a table entry
an `io_array` slot. `ListOK` is `MarkedIsListed`. For `OwnEventsOnly` the invariant says more than the property:
`EvidenceOK` and `ReportOK` state that what was reported of a connection is true of it in *every* state
until the loop comes to it, although other callbacks run in between, because only its own handler
takes messages from it, and an io that is closed in between has no fd. Which entry `get` finds
is the least index of an fd, by `Least`, the minimum of a set of naturals.

`TimersProofs`. The actions of `Timers` contain whole calls of `heap.h`, which recur over arrays,
so the first part is about `HeapOps`. A recursive function over a finite domain with a decreasing measure exists:
`Recursion` gets this from a least counterexample (`Least`), and from it come `UpUnfolds` and
`DownUnfolds`, one turn of each loop. Then `UpReorders` and `DownReorders`, again by least
counterexample: a heapify permutes the array, so that an insertion adds one place to one
node and a pop or a removal takes one away (`Inserted`, `Removed`). The second part says
what each action does to the fields of timers and connections and ends in `StepKinds`, ten
kinds of steps that all later proofs share. `Kept` is the invariant of pointers: types and who is being called
(`Typed`), a connection's timers are live and its own (`TimersAreLinked`), a pending timer is pending once and
has its count at its end (`PendingIsOver`), a timer of the program is in one place
(`PlainIsInOnePlace`), and one that is about to be freed is not linked (`FreedIsUnlinked`):
without the last, `NoDanglingTimer` is not inductive, since it is the callback before
that unlinks the timer. `ReadsAreNoted` is `ReadClockIsBehind` for all the places where `cur_ms` is not
yet taken again. `PlainKeepsCount` is the induction of `NeverEarlyNorTooOften`: what a timer did
and what its `repeat` still holds make what was asked for, and between its making and its next
time there is room for one timeout more than it has run. `Balanced` is that of `CountCoversHeap`:
`timers_num` and the timers given to `del_timer` make its first value and the timers still
counted; it holds if `timers_num` cannot wrap (`CountHasRoom`). `NoneIsLost` proves `WaitsOnce`
and `LastingTimerKeepsLoopAlive` for a program without connections that deletes no timer
and whose timers fit into the heap (`PlainProgram`), which are the conditions of `timers_plain`.

`HttpServingProofs`. `WsLifecycle` from `ServiceOK`: what was told of an open connection is
the opening, then messages; whatever closes it puts the end behind that, and nothing is told
afterwards. It does not depend on what the parsers make of the bytes. `FramesArriveWhole` does, and
its proof has three parts. Where a frame starts is a recursive sum: `BytesFacts`, `BytesGrow` and
`BytesStay` say that the starts ascend and that a new frame moves none of them, so that a byte
belongs to one frame (`HeadBytes`). `WellBuilt` says what is common to the headers of
both builders (`FrameIsWellBuilt`, from the digits of a length to base 256, `Digits`; the wrong shifts of
`build_ws_frame` fall on digits that are 0), and of such a header any part that was read is taken
rightly (`TakeFacts`). `FramesOK` is the invariant: the property, and that `m_buffer` starts
where the next frame does and ends within what was sent. `AnswersAreEarned` needs what the parser
makes of a read, token by token. All that matters of `Wire` is where the first request ends and
that the line of the next follows (`WireFacts`), and all that matters of the parser after `a`
tokens is `ParserAt(p, a)`: in the first request it has at most one url and no method, and is
complete only between the head and the body of a `post`; at the end of that request it has both
and is complete; behind it there are two urls, or the read has failed. `TokenInFirst` and
`TokenBehindFirst` are one token, `ReadFacts` a read of any length (by `Least` again). Beside the
property, `EarnedOK` has that, that what is answered has been read at least to the end of a head,
and that a whole answer came with the last token: the read that ends the first request then finds
no whole answer, and one that has its end in the middle is `shared`.

Model-checked only. Liveness (`PostReturns`, `HandedOverIsExecuted`, `DueTimerRuns`,
`CallReturns`, `ClosedIsReleased`, `StartsAndServes`, the "is called" half of `TaskEndsOnce`), which the
prover does not reach. Every safety property of the runs is proved.
`MutexDiscipline` and `CallbackOnce` are proved and no run checks them under these names.

## 5. What the code does that its texts do not say

Two are runs that end with a counterexample, and entries of "findings":

- `conn_unsent`: the echo server of `README.md` section 2, when a reply does not fit into the
  socket, never sends the rest and reads no further message: the second
  `EPOLL_CTL_ADD` fails and `io->cb` has become `io_write_cb`.
- `timers_alone`: section 8 of `README.md` and `bin/test_timer.c` have one timer, to
  run once, whose callback adds the next. Its expiry empties the heap before the callback
  is called, `process_timer` reads the top (`EmptyHeap` in `Timers`), and the program is over.

The others are part of the models, and the conditions of the properties (section 3)
name them:

- A byte that is written between the loop's read of the pipe and its lock makes it run a
  posted event twice and leave a later one in the table (`raced` in `EventPost`), although
  the mutex is there to "lock custom events & coustom_events_num" (`event.h:158`).
- `event_loop_wakeup` makes the loop call through a slot of the table that nothing was
  written to, or pop an empty queue (`FireUnwrittenSlot`).
- A peer that resets the connection while a rest of an answer waits makes the loop's
  thread wait for itself (`FlushError` in `IoConn`): no `on_close`, and nothing else is served.
- An SSL answer that meets a full socket leaves `write_mutex` locked, and the next
  call on that connection waits for ever (`WriteWant`).
- A timeout that is set again pops the top of the heap, whichever timer that is, and inserts its own
  a second time; a timer freed after its last expiry may still be there (`ResetTimer` in
  `Timers`, section 3).
- The timer of a connection attempt is not removed when the attempt succeeds
  (`Connected`), and closes the connection five seconds later.
- A TCP connection's first bytes may reach nobody, and its end may leave its handle
  behind, when a worker is faster than `on_accept` (`early` in `Acceptor`).
- A close frame, or a service that closes in `onmessage`, deletes the handle and its
  parser while the parser runs (`fault` in `HttpServing`).
- A second request on a connection gets no answer; a request whose body comes in a
  later read than its head is answered before the body, and again after it.
- A `WebSocketClient` whose connect failed stays "connecting" and cannot be opened
  again (`ClientStateIsTrue`).

## 6. Not modelled, and the plan

Left out for good: `http_parser.c` and OpenSSL (vendored; their results are inputs;
they are also nearly all of the lines below `src/`), `log.c`, `conn_socket.c` (pure
I/O), `base64.c` (a pure function), the examples in `bin/`, the contents of messages.
`event_loop_destory` only frees memory when the loop has ended. `WebSocketChannel::send`
of a string locks a mutex that its caller holds: it never returns, and there is nothing to
explore. The blocking `HttpClient::send` is one thread's sequence of system calls.

What the plan has left is `closeAfterTime` and `open()` beside a loop that runs timers: two threads
on one heap, on `Heap`'s single comparisons.
