# libcpp in TLA+

A verification project for libcpp, a C++11 network library in the style of
Muduo: an event loop per thread, timers, TCP servers and clients, asynchronous
logging, reliable datagrams (KCP), HTTP and a few thread primitives. The modules
here are translated from the code; TLC checks them on small instances and TLAPS
proves, for every value of the constants, the safety properties of eight of them:
the loop, the poller, the timers, the buffer, connections, clients, the logger and
the lock.

Paths in this file are relative to the repository's `src/` directory of library
code, so `net/TcpConnection.cc` is `src/src/net/TcpConnection.cc`.
`PROJECT.json` gives, for every definition of a module, the source lines it
models.

## 1. Inventory

### How the parts work together

One thread runs one `EventLoop`. The loop asks its `EPoller` which `Channel`s
are ready, calls their handlers, and then runs the functors that were queued
for it. Objects belong to one loop and are changed in its thread only; other
threads hand it functors with `runInLoop()` or `queueInLoop()` and wake it
through an eventfd. A `TcpServer` accepts in a base loop and gives each
`TcpConnection` to an io loop of its `EventLoopGroup`, so the life of a
connection is a conversation of functors between two loops. A `TcpClient` uses
a `Connector`, which uses the loop's `TimerQueue` for retries. Almost no state
is protected by a mutex: correctness rests on the order of events, functors and
unlocked flags, which is what the models are about.

| component | state | operations | what makes it correct |
|---|---|---|---|
| `reactor/EventLoop` | `looping_`, `quit_`, `doingPendingFunctors_`, `pendingFunctors_`, the eventfd | `loop`, `quit`, `runInLoop`, `queueInLoop`, `wakeup`, `handleWakeup`, `doPendingFunctors` | no functor and no quit waits behind a poll that nobody wakes; functors run once, in order |
| `reactor/EPoller`, `Channel` | `channels_`, the kernel's epoll set, `events_`, `revents_`, `index_` | `poll`, `updateChannel`, `removeChannel`, `enable*`, `disable*`, `handleEvent` | raw `Channel*` never dangle, `index_` agrees with the kernel, `epoll_ctl` never fails |
| `datetime/TimerQueue`, `Timer`, `TimerId` | two sets of timers, cancelled ones, the timerfd | `addTimer`, `cancel`, `handleRead`, `getExpired`, `reset` | one owner per `Timer`, the timerfd armed in time, no early or repeated call, cancel works |
| `io/Buffer` | a vector and two indices | `append`, `retrieve*`, `readFd`, `makeSpace` | a queue of bytes, with bounded growth |
| `net/TcpConnection` | `state_`, `outputBuffer_`, its Channel | `send`, `shutdown`, `connectEstablished`, `connectDestroyed`, `handleRead/Write/Close` | bytes leave in order, none is stranded or cut off; one beginning, one end |
| `net/TcpServer`, `Acceptor`, `reactor/EventLoopGroup` | the map of connections, the loops, the next loop | `start`, `newConnection`, `removeConnection`, `getNextLoop` | each connection in the map exactly while it lives |
| `net/Connector`, `net/TcpClient` | `state_`, `connect_`, `channel_`, the retry timer, `connection_` | `connect`, `disconnect`, `stop`, retry, `handleWrite`, `handleError`, `removeConnection` | one attempt at a time, none lost, no socket leaked, stop is final |
| `logging/LogFile` | the open file, its size, day and last flush | `append`, `flush`, `rollFile` | every line in the file of its day, flushed at intervals |
| `logging/AsyncLoggingDoubleBuffering` | current, next and full buffers, `running_` | `append`, `threadFunc`, `stop` | no line lost, doubled or reordered; stop returns |
| `thread/RwLock` | four counters, a mutex, two condition variables | `read_lock`, `read_unlock`, `write_lock`, `write_unlock` | exclusion, writers first, no lost notification |
| `datetime/TimerWheel` | wheels of buckets, the delay queue, positions of timers | `insert`, `advanceClock`, `cancel`, `handleRead` | a timer fires in its tick |
| `kcp/ikcp` | two queues and two buffers of segments, windows, pending acknowledgements | `ikcp_send`, `ikcp_recv`, `ikcp_input`, `ikcp_update`, `ikcp_flush` | messages arrive whole, once and in order over a network that loses, doubles and reorders, and no loss leaves both ends waiting |
| `kcp/KcpLayer`, `KcpServer`, `KcpClient` | connections by conversation id, two eventfds | handshake, `send`, `receive`, `handleRead` | the two ends of a conversation belong together, conversations do not mix |
| `http/http_parser` | about sixty states, flags, lengths, marks into the current read | `http_parser_execute`, `http_parser_parse_url` | how the stream is cut into reads does not matter; no assertion fails |
| `http/HttpSession`, `HttpServer`, `HttpClient`, `HttpMessage` | the message being built, the map of sessions | parser callbacks, `execute`, `onConnection`, `get*AsString` | what one side writes the other is shown |
| `thread/CountDownLatch` | a counter | `wait`, `countDown` | waiters leave at zero |

The hard behaviours are interleavings of threads around unlocked flags
(`quit_`, `state_`, `running_`, `connect_`), functors and events of one
iteration that meet objects an earlier one removed, partial writes, slow,
closing and resetting peers, late and repeated timers, failed attempts that are
retried, datagrams that are lost, doubled or late, streams that are cut anywhere,
and memory addresses and descriptors that are reused. `PROJECT.json`
lists each of these hazards at its line with the properties that watch it.

### Not modelled

* `Poller`: no code constructs one.
* `UdpServer`, `UdpClient`, `Socket`, `InetAddress`, `TimeStamp`, `Logger`,
  `FixedBuffer`: system call wrappers, conversions and formatting without a
  protocol. Their outcomes are choices of the modules that call them.
* `Semaphore`, `SpinLock` and `ThreadPool` do not compile when they are used
  (`Semaphore.h:30`, `SpinLock.h:22`, `ThreadPool.h:51`) and so have no behaviour.
* The tag classes of `utils`, the example application and the test programs.
* `EventLoopGroup`, `Acceptor`, and the part of `TcpServer` that concerns several
  connections at once; `CountDownLatch`; the destructor of `TcpClient`: planned,
  see section 6.
* Parts of modelled components: the congestion window of ikcp (switched off by
  `ikcp_nodelay(cb, 1, 10, 2, 1)`), its stream mode, `ikcp_check` and
  `ikcp_setmtu`; the close packet of the KCP layer, which is a TODO in the code;
  `HTTP_BOTH`, the end-of-stream call that no code makes, ICY and SOURCE, lenient
  mode, pausing, tabs, most method names, and URLs of 65536 bytes or more
  (whose offsets are 16 bits wide) in `http_parser`.

## 2. Modules

The modules follow the objects of the code. A critical section is one step;
whatever a thread does between two critical sections or system calls that
another thread can observe is a step of its own. A loop thread is atomic
between the points where it calls user code. Definitions named in a comment
"Mutant" are not part of any specification: each is a plausible mistake in the
definition below it, and replacing that definition by it must make TLC find a
violation.

| module | models | uses |
|---|---|---|
| `FunctorQueue` | abstract: what an EventLoop promises, one FIFO queue | |
| `EventLoop` | `reactor/EventLoop` with any number of calling threads | implements `FunctorQueue` |
| `MCEventLoop` | instances of `EventLoop` | extends it |
| `EventLoopProofs` | proofs | extends `EventLoop` |
| `EPoller` | `reactor/EPoller`, `reactor/Channel` and the two owners of Channels | the functor order of `EventLoop` |
| `EPollerProofs` | proofs | extends `EPoller` |
| `TimerQueue`, `MCTimerQueue`, `TimerQueueProofs` | `datetime/TimerQueue`, `Timer`, `TimerId` | the functor order of `EventLoop` |
| `ByteQueue` | abstract: what a Buffer promises, a queue of bytes | |
| `Buffer` | class `Buffer` of `io/Buffer` | implements `ByteQueue` |
| `TcpConnection`, `TcpConnectionProofs` | `net/TcpConnection`, the part of `net/TcpServer` for one connection | two functor queues, a Buffer as a queue, `EPoller`'s `index_`; the proofs extend `Buffer` too |
| `TcpClient`, `TcpClientProofs` | `net/TcpClient` with `net/Connector` | the phases of a loop, the timer ids of `TimerQueue` |
| `LogFile` | `logging/LogFile`, with and without its mutex | |
| `AsyncLogging`, `AsyncLoggingProofs` | `logging/AsyncLoggingDoubleBuffering` | extends `LogFile`: the backend's file |
| `RwLock`, `RwLockProofs` | `thread/RwLock` | |
| `Ikcp` | the control block of `kcp/ikcp.c` and the functions on it | |
| `Kcp`, `MCKcp` | two control blocks and the network between them | extends `Ikcp` |
| `KcpLayer` | `kcp/KcpLayer` with `KcpServer` and `KcpClient` | extends `Ikcp` |
| `KcpProofs` | proofs | extends `Kcp` and `KcpLayer` |
| `HttpUrl` | the URL and host parsers of `http/http_parser.c` | |
| `HttpSession` | the callbacks of `http/HttpSession`, `HttpMessage` | extends `HttpUrl` |
| `HttpParser` | `http_parser_execute()` | extends `HttpSession`, whose callbacks it makes |
| `Http`, `MCHttp` | `http/HttpServer` and `http/HttpClient` reading a connection | extends `HttpParser` |
| `TimerWheel` | `datetime/TimerWheel` | |

What a module assumes of another is what that one establishes: loops run
functors once and in order (`EventLoop`, proved), a Buffer is a queue of bytes
(`Buffer`, proved), a Channel whose event is being handled exists (`EPoller`,
proved), `cancel()` finds the first timer of the process only (`TimerQueue`,
proved).

### EventLoop

`phase` is where the loop thread is in `loop()`; `op[t]` is the call a thread
is in the middle of, between its push (or its store to `quit_`) and its write
to the eventfd. `QueueInLoop(t)` and `Quit(t)` are the first halves of the
calls and `Wakeup(t)` the second, with the condition of `queueInLoop()`: another
thread, or the loop thread while functors run. `EnterLoop`, `Iterate`,
`LeaveLoop`, `PollReady`, `PollTimeout`, `HandleWakeup`, `HandleIo`,
`BeginPending`, `SwapFunctors`, `RunFunctor` and `EndPending` are the loop
thread's steps. All channels but the eventfd's are one, `"io"`, which may become
ready at any time. A functor is named by its caller and call number.

### EPoller

`Channels` are objects, `Fds` descriptors that are reused. `epoll` and
`interest` are the kernel's table, `channels` the poller's, `index` the
poller's note in the Channel. `UpdateChannel` and `DisableAndRemove` are
`updateChannel()` and the pair `disableAllEvents()`, `removeChannel()` that both
owners call; an `epoll_ctl` on a descriptor in the wrong state sets `failed`.
`life` follows the owners: a `TcpConnection` (new, up, closing, down, dead) or
the Channel of a `Connector` (connecting, removed, dead), which may pass its
descriptor to a `TcpConnection` inside its own `handleEvent()`. Handlers of one
iteration and functors of one batch may act on any Channel the code lets them
reach. A close in another process and a user who keeps a `Channel` of his own
are not modelled.

### TimerQueue

`heap` maps addresses to `Timer` objects, and an address that is freed may be
returned by the next `new`. `timers`, `activeTimers`, `cancelingTimers`,
`expired` are the code's containers, `armed` is the timerfd. Calls of the loop
thread (`AddTimer`, `Cancel`, also inside callbacks) act at once; calls of other
threads create the object and put a task on `tasks`. One unit of time is the
100 microseconds `resetTimerfd()` never goes below.

### Buffer

The vector, `readerIndex_` and `writerIndex_`, with `makeSpace()` split into
`Grown` and `Moved`. Bytes are numbered in the order in which they are appended,
so that order, loss and repetition are visible. `readFd()` fills the vector and
appends what went to `extrabuf`.

### TcpConnection

One connection from `newConnection()` to `connectDestroyed()`: `ioTasks` and
`baseTasks` are the functors on their way in the two loops (one queue when the
server has no threads), `output`, `wire` and `inflight` the bytes buffered,
written and not yet read by the peer, `caller` where another thread is in its
`shutdown()`. The user sends and shuts down from callbacks, also from
`writeCompleteCallback_`, also after the end of the peer's stream. The other
thread does not call `send()`, which would abort the process outside the io loop
(`TcpConnection.cc:51`), and it keeps its `shared_ptr` until its functor has run.

### TcpClient

`Connector` and `TcpClient` in one loop, whose iteration is explicit: `Poll`
fetches events, they are handled, then a batch of functors is run. `timer` and
`timerId` are `"first"` or `"later"`, because `cancel()` finds the first timer
of the process only; `fresh` says that there was none yet. `disconnect()` and
`stop()` are called in the loop or in another thread (`userThread`); in the
second case the stores to the two `connect_` flags and the functor are separate
steps. `connect()` is called once. Not modelled: the destructor of `TcpClient`,
which the code itself calls a hack (`TcpClient.cc:64`), and the length of the
retry delay.

### LogFile and AsyncLogging

Lines have length one and a number. `LogFile` keeps the stdio buffer apart from
the disk and names a file by the second in which it was opened. `AsyncLogging`
either gives it to a backend, which calls it without the mutex, or (`at` is
`"none"`) lets any thread call it with `threadSafe = true`: `DirectAppend`,
`DirectFlush`. A `unique_ptr` that was moved from is
`Null`, and using it crashes the process. The backend's steps are the test of
`running_`, the wait, the critical zone, one step for each buffer written, and
the end of the round.

### RwLock

`at[t]` is where a thread is; the counters are the code's. Everything a call
does under `mutex_` is one step, a notified thread is `woken` until it gets the
mutex and tests its predicate, and both condition variables may wake up
spuriously. The constructor is declared and not defined (`RwLock.h`); the
counters are taken to start at zero.

### Ikcp, Kcp and KcpLayer

A control block is a record with the fields of `IKCPCB` that its behaviour
depends on; `IkcpSend`, `IkcpRecv`, `IkcpInput`, `Flushed` and `Output` are the
library's functions on it, each built from one operator per inner step
(`ParseUna`, `ParseAck`, `ParseData`, `MoveAvailable`, `FlushAcks`,
`ProbeWindow`, `MoveToSndBuf`, `NeedSend`). Segments are packed into datagrams of
at most `Mtu` bytes as `ikcp_flush()` does. Time is not a number: which segments
have reached their `resendts`, and whether `ts_probe` has passed, are parameters
of a flush. `Kcp` joins two control blocks by a network from which any datagram
may be delivered, lost or delivered twice. A timer that runs out while an answer
is still on its way counts as a fault like a loss, so that needless
retransmissions happen but are bounded.

`KcpLayer` is one server and several clients, each one loop thread whose
callbacks are atomic. The two eventfds are counters, so that two notifications
before one read add up, as in the kernel. Using an entry of `connections_`
without a control block ends the process. `kcpUpdate()` flushes or, within the
interval, does not; nothing calls it periodically, as in the code.

### HttpUrl, HttpParser, HttpSession and Http

A parser is a record with the fields of `struct http_parser`, the locals of one
`http_parser_execute()` and the session its callbacks change. The loop over a
header value counts what it read when it is left (`EnterValue`, `LeaveValue`) and
may step over a character (`pe`); everywhere else a character is counted when it is
read (`CountChar`). There is one
operator for each state or group of states, named after it. A character is a
symbol; keywords (`chunked`, `content-length`) are cut in two pieces so that a
read may end inside one. Every assertion is explicit. `ParseUrlChar` and
`ParseHostChar` are given as sets of edges. `Http` reads a stream in pieces of
any size, and may lose the connection and begin anew at any point. `MCHttp`
writes its streams with the model of `HttpMessage::getRequestAsString()` and
`getResponseAsString()`.

### TimerWheel

`wheels` holds `currentTime_` and the buckets of each level, `queue` the delay
queue, `addr` the order of the buckets' addresses, which is what
`delayQueue_.sort()` sorts by; it is any order. `Insert`, `AdvanceClock`,
`GetExpired` and `UpdateDelayQueue` are the code's functions. `cancel()` is
called only for timers that wait in a bucket, since for others it follows a null
or stale position.

## 3. Runs

| run | question | bounds | distinct states |
|---|---|---|---|
| `event_loop` | Is a wakeup or a quit lost? Does the pair of vectors implement one queue? Does everything queued run, and does quit stop the loop, without help of the poll timeout? `NoLostWakeup`, `NoLostQuit`, `RefinesFunctorQueue`, `FunctorsRun`, `QuitStops` | 2 other threads with 2 calls and 1, 3 of the loop thread; poll may time out and never has to | 355 367 |
| `timer_queue` | `SetsAgree`, `OneOwner`, `ArmedInTime`, `NeverEarly`, `FirstTimerCancelled` | 3 timers at 2 addresses, delays 0 and 2, interval 1, time to 3, one waiting task | 819 329 |
| `buffer` | `GrowthBounded`, `RefinesByteQueue` | 9 bytes, prepend 2, initial size 3, extra buffer 3 | 3 561 |
| `epoller` | `KernelAgrees`, `NoDangling`, `CtlNeverFails` | 3 Channels, 2 descriptors | 81 525 |
| `tcp_connection` | `BytesInOrder`, `NoStrandedBytes`, `NoTruncation`, `OneLifecycle`, `EventuallyDestroyed`, `ShutdownHappens` | 4 bytes, a send buffer of 2 | 7 656 |
| `tcp_client` | `OneAttempt`, `NoAbort`, `NoSocketLeak`, `StopIsFinal`, `Reconnects` | one `connect()`; no other bound, attempts go on for ever | 2 494 |
| `async_logging` | `LinesInOrder`, `FilesOfOneDay`, `StopReturns` | 6 lines, buffers of 2, roll at 2, days of 3 seconds, time to 4 | 80 433 |
| `rw_lock` | `Exclusion`, `NoLostWakeup`, `ReadersResume` | 4 threads; no other bound | 1 430 |
| `kcp` | `MessagesInOrder`, `AckedIsHeld`, `NeverStuck` | messages of 3, 5, 1 and 1 bytes in segments of 2; the second is refused; windows of 2 and 3; one fault | 544 304 |
| `kcp_layer` | `HandshakeAgrees`, `ConversationsApart` | a server and two clients, one `connect()` and one `send()` each, any losses | 83 599 |
| `http` | `FragmentsDontMatter`, `RoundTrip`, `NoAssertFails` | pairs of 8 requests, responses, users that refuse, 3 streams with every character changed, two values of 52 characters with one changed; headers of at most 46; reads of 1 to 3 characters or the rest | 165 424 |
| `timer_wheel` | does a timer run when it was set for? `NotEarlierThanATick`: **violated** | 2 timers, 3 buckets of 2, two levels | |

Each property is stated in words above its definition, with the lines it is
about.

Why the bounds suffice. *event_loop*: two callers are needed for one to wake the
loop on behalf of the other's push; the loop thread's three calls let `loop()` be
entered, a functor queue another, and `loop()` be entered again after a `quit()`.
The theorems of section 4 remove these bounds, and those of the next nine runs, for
the safety properties except `NeverStuck`.
*timer_queue*: three timers at two addresses force an address to be reused while
an old `TimerId` is around, and allow a repeating timer, one in its callback, and
one in the other set at the same time; three units of time let a repeating timer
be late by more than an interval. *buffer*: nine bytes are three times the
initial size, so that the buffer grows, moves and grows again. *epoller*: a
Connector's Channel, the connection it turns into and a third one that takes over
a closed descriptor. *tcp_connection*: a send buffer half the size of what is
sent makes direct, partial, failed and deferred writes occur in one behaviour.
*async_logging*: two rounds, one of them with two full buffers, a roll by size,
one by day and two in a second.
*kcp*: the three segments of the accepted messages up to the third call fill the
receive window while the fourth waits, so that the window closes and the news of
its opening can be lost; one fault lets each of loss, duplication and a needless
retransmission happen at every point, but not two of them in one behaviour, which
would take more states than TLC gets through. `NeverStuck` starts in each state from
an empty network, which is any number of losses more; with a round less than its
bound allows it fails.
*kcp_layer*: two clients are what is needed for ids to be added up and for an
ACK to be filed under the wrong id. *http*: the header limit of 46
characters is what the longest first header of the pairs has (with 45 `RoundTrip`
fails), and the values of 52 characters go past it and past the character after
the limit which the parser steps over in one read; the largest length, 40, is
exceeded when a digit is put before another. Three characters are more than any
delimiter, so a read may end before, inside and after each.

`CHECK_DEADLOCK FALSE` is set where a bound or the end of the program stops
everything: calls, timers, bytes or lines are used up, the connection is gone,
the process has crashed, the stream has been read. `buffer`, `epoller`, `tcp_client` and `rw_lock` are
checked for deadlock.

### Fairness

* `event_loop`: weak fairness of the loop thread inside `loop()` and of a
  thread between push and eventfd write. Threads are scheduled and no call
  blocks between these points. Poll has to return only if the eventfd is
  readable; no other channel ever has to become ready, and the timeout never has
  to come.
* `tcp_connection`: weak fairness of the two loops' functors and of the events
  that epoll, level triggered, keeps reporting; the other thread finishes the
  `shutdown()` it began; a peer that has not closed keeps reading. Nobody has to
  send, shut down or close.
* `tcp_client`: weak fairness of the loop; strong fairness of a poll that reports
  each event which is ready again and again, of an attempt that gets as far as
  `kConnecting`, and of its success. The last two are the assumption under which
  reconnecting means anything: attempts repeated for ever succeed sometimes.
* `async_logging`: weak fairness of the backend, whose wait has a timeout, and of
  a `stop()` that was begun. Nobody has to log.
* `rw_lock`: a thread that was notified gets the mutex, and one that holds the
  lock releases it. Spurious wakeups are possible and never needed.

`Kcp` and `KcpLayer` state none: `kcpUpdate()` is called from `send()` and
`handleRead()` only (`kcp/KcpLayer.cc:103`, `139`, `162`, `176`; the periodic call is
commented out, lines 205-206), so the code does not guarantee that anything is ever
sent again. `NeverStuck` of `Kcp` is therefore an invariant. It says of every
reachable state, with everything in flight lost, what a fixed number of updates
achieves if somebody makes them.

### Findings

**A timer of the wheel runs ticks before its time** (`timer_wheel`,
`datetime/TimerWheel.cc:58`). The bucket is chosen by the absolute time
(`virtualId % wheelSize_`), and its expiration is the current time plus the
bucket's number of ticks; the two agree only if the current time is a multiple of
the wheel's range. `TimerWheel.h:45` says "Add a timer to run 'cb' at 'when'".

Seen while modelling. The models contain these behaviours or exclude them by an
assumption named in the module; the properties above say what holds besides.

Timers
* `addTimer()` returns a `TimerId` whose sequence is the default 0, while
  `activeTimers_` holds the Timer's own number, so that `cancel()` misses every
  timer but the first of the process (`datetime/TimerQueue.cc:59`).
  `FirstTimerCancelled` says what the code does achieve.
* The wheel's delay queue is sorted by pointers (`datetime/TimerWheel.cc:240`); a
  bucket with number 0 whose expiration does not change is not queued again; a
  repeating timer shorter than a tick, and one that falls in the current tick of
  an upper wheel, is inserted nowhere; `cancel()` of a timer that does not wait
  follows a null or stale position (line 140).

Loop, connections
* A second `connect()` after the first connection fails the assertion of
  `startInLoop()` (`net/Connector.cc:41`), since `state_` stays `kConnected`.
* `restart()` sets `connect_` without looking (`net/Connector.cc:109`) and so
  undoes a `stop()` of another thread; `StopIsFinal` is stated for a `stop()` in
  the loop.
* An iteration longer than the retry delay would meet `channel_` before it is
  reset (`net/Connector.cc:93`); the model takes iterations to be shorter.
* Functors that the loop thread queues before `loop()` wake nobody and wait for
  the next event or timeout (`reactor/EventLoop.cc:94`); `FunctorsRun` and
  `NoLostWakeup` except them by name (`early`).
* `loop()` clears `quit_`, so a `quit()` that comes before it is forgotten
  (`reactor/EventLoop.cc:134`).
* `send()` from another thread aborts, and the functors of `shutdown()` and
  `send()` hold a raw `this` (`net/TcpConnection.cc:51`, `176`): users must not do
  the one and must keep their pointer for the other.

Logging
* `LogFile` with `threadSafe=true` locks itself out: `append()` holds `mutex_`
  when its flush at an interval locks it again (`logging/LogFile.cc:125`).
* The refill of the spare buffers declares variables that shadow the function's
  own; the second round hands `append()` a null buffer
  (`logging/AsyncLoggingDoubleBuffering.h:114`). `LinesInOrder` and `StopReturns`
  hold up to that crash.
* Lines appended after the last round stay in the buffers at `stop()`
  (`AsyncLoggingDoubleBuffering.h:93`).
* A file rolled twice in one second is opened again under the same name and
  appended to (`logging/LogFile.cc:148`); `LinesInOrder` covers this.

KCP
* The eventfds add up the ids written to them (`kcp/KcpLayer.cc:184`); the sum may
  name another conversation, or none, which ends the process.
* The client files the server's address under its own `nextConv_`, always 1
  (line 159), so that only a client whose conversation is 1 can send.
* A duplicated SYN makes a second conversation, a duplicated ACK replaces a
  control block in use, and data that overtakes the ACK ends the client.
* Neither handshake datagram is repeated, and nothing calls `ikcp_update()`
  periodically (lines 205-206 are commented out): a lost last datagram is never
  sent again. Times are passed in microseconds where ikcp counts milliseconds.
* A message longer than the user's buffer can never be read: `ikcp_recv` returns
  -3, which `KcpServer` and `KcpClient` add to a length.

HTTP
* `onHeadersComplete()` parses the URL of responses too, which is empty: the
  result 1 means "skip the body", so `HttpClient` never delivers a body and
  parses it as the next message. The `Ok` response of `MCHttp` is there for the
  other two properties; `RoundTrip` claims nothing of it.
* The URL of CONNECT is parsed with `is_connect` 0, so `onHeadersCallback_` never
  runs for `host:port`.
* The last trailer is never added to the headers; `hint_` is appended to once per
  part of the status text, and again by `getResponseAsString()`.
* After an upgrade the rest of a read is dropped and later reads are parsed as
  HTTP; errors are logged and the connection stays.
* A header value is counted after it was read, so that one which is too long and
  holds a character that is refused is `HPE_INVALID_HEADER_TOKEN` or
  `HPE_INVALID_CONTENT_LENGTH` in one read and `HPE_HEADER_OVERFLOW` when the read
  is cut before that character (`http/http_parser.c:1666`). The other way round too:
  after `max_header_size` characters of a value in one read the next is stepped over
  (line 1503), though a shorter read finds it bad. `FragmentsDontMatter` claims that
  the header is refused either way.
* `nread` is not reset after trailers, which therefore count against the next
  message's limit; a word of `Connection` that is cut short swallows the comma
  that follows it (`k,close`).
* `HttpSession::shouldKeepAlive()` is the negation of its name
  (`http/HttpSession.h:46`).
* `sessions_` of `HttpServer` is one map changed by the callbacks of all io loops
  without a lock (`http/HttpServer.cc:38`); `Http` models one io loop.

## 4. Proofs

TLAPS checks about 12600 obligations in eight modules. Nothing is assumed but the
named `ASSUME`s of the modules: that the loop thread is not one of the others and
numbers are numbers (`EventLoop`), that sizes are natural numbers (`Buffer`),
that the null pointer and the missing descriptor are not real ones (`EPoller`),
that the set of threads is finite (`RwLock`), that addresses, delays and bounds
are numbers and the clock can pass (`TimerQueue`), that the send buffer has room
for a byte (`TcpConnection`), that a buffer holds a line, a day lasts a second and a
null pointer is not a buffer (`LogFile`, `AsyncLogging`), that sizes and windows are
positive and the receive window is at most 256 (`Ikcp`: `frg` travels in one byte,
`IKCP_WND_RCV` is 128 and nothing calls `ikcp_wndsize()`), that there are two ends
(`Kcp`), that the server is not a client and clients are finitely many, and that a
missing address is none of theirs (`KcpLayer`). TLC evaluates them on
every run. The bounds on calls, bytes, lines, timers and time are constants like
any other, so a theorem holds for all of them.

**EventLoopProofs**, for any set of threads, any number of calls, with or without
a poll timeout: `TypeCorrect`, `NoWakeupIsLost`, `NoQuitIsLost`,
`FunctorsRunOnceInOrder`, `ImplementsFunctorQueue`. `NoLostWakeup` speaks of the
loop in poll, and is not inductive: a step into poll needs to know that a wakeup
was already owed in the phases before. The invariant `LoopInv` therefore says
(`WakeupOwed`) that in every phase from which the loop reaches poll without
taking the list again, a functor in `pendingFunctors_` is accompanied by a
readable eventfd or by a thread about to write it; (`FlagsFollowPhase`) that
`doingPendingFunctors_` is set exactly inside `doPendingFunctors()`, on which the
wakeup by nested pushes depends; (`RunOnceInOrder`) that all pushes are what ran,
what the batch holds and what is pending, in order; and (`NumberedByCall`) that
no functor is queued twice, which the abstract queue demands.

**TcpConnectionProofs**, first part, about `Buffer`, for every prepend, initial and extra size: `BufferTypeCorrect`,
`BufferKeepsOrder`, `SpaceIsAlwaysMade`, `GrowthIsBounded`,
`ImplementsByteQueue`. `BufferInv` says that the indices are in order behind the
prepend, that the readable bytes are the last ones put in, and that a vector that
has grown did so for at most twice the largest amount of unread data (`Modest`).
Each of `Grown`, `Moved` and the write has a lemma of its own, composed for
`append()` and twice for `readFd()`.

**EPollerProofs**, for any Channels and descriptors: `EPollerTypeCorrect`,
`IndexIsRight`, `KernelIsRight`, `NoPointerDangles`, `ActiveStayRegistered`,
`NoCtlFails`. None of these is inductive alone, because `index_` is right only if
no two live Channels share a descriptor. The invariant `Inv` ties `index_` to
both tables in both directions (`AddedInv`, `DeletedInv`, `PointerInv`), both to
what the owner has done (`LifeInv`: a descriptor has one holder, and it is open),
and the active list to Channels the poller knows (`LoopInv`).

**RwLockProofs**, for any finite set of threads: `TypeCorrect` (the four counters
are the numbers of threads that read, write and wait), `MutualExclusion`,
`WakeupsSuffice`, `ReadersGiveWay`. The conjunction of the first three is
inductive: a waker decides by the counters, so that they count the right threads
is needed to know that somebody is woken.

**TcpConnectionProofs**, second part, for any number of bytes and any size of the send buffer:
`TypeCorrect`, `BytesStayInOrder`, `BytesNeverStranded`, `OneLifecycleHolds` and the
action property `NothingTruncated`. `OneLifecycle` is about what is at the head of a
loop's queue and says nothing of what stands behind it. `Lifecycle` says it: the
connection is not yet up, open, closing or destroyed, and for each phase which
functors can be in which of the two queues. While it closes, its end waits in
exactly one of them; a `shutdownInLoop` of the other thread may be anywhere once it
has been queued.

**TimerQueueProofs**, for any timers, addresses, delays and intervals: `TypeCorrect`,
`SetsAlwaysAgree`, `OneOwnerAlways`, `AlwaysArmedInTime`, `CallsNeverEarly`,
`FirstTimerGoes`. The sets agree only as long as no object is freed while a set
names it, which needs to be known of the functors too: `Structure` says that every
live object is owned by one functor, by `timers_` or by `handleRead()` (`Owners`,
`Functors`), that numbers identify live objects although addresses are reused
(`Numbers`, `Ids`), and that an entry is filed under the object's expiration
(`Entries`, `Actives`). `ArmedForAll` extends `ArmedInTime` to every timer, because
the earliest one may be cancelled. `Paced` ties the expiration of a live timer to
the number of its calls, of which `NeverEarly` is the consequence at the time of a
call. `FirstDropped` follows the first timer, once cancelled, to the end of
`handleRead()`.

**TcpClientProofs**: `AttemptsExclude`, `AssertionsHold`, `SocketsOwned` and the action
property `StopEndsAttempts`. The model has no constants, and its queues turn out to
be short; the proof gives the reason. An attempt is always carried by exactly one of
its possible carriers, and `state_` fits it (`States`); a `resetChannel` functor is
queued exactly while the Channel is removed and is run in the same iteration
(`Batches`); what an iteration has fetched is still true when it is handled
(`Fetched`), for which `OneAttempt` is needed, and conversely.

**AsyncLoggingProofs**, for any capacity, roll size, flush interval and length of a
day: `TypeCorrect`, `LinesStayInOrder`, `FilesStayOfOneDay`. That the lines are in
order in the files needs that only the newest file is written to, so every later one
is empty (`LaterEmpty`); that a buffer written next continues the files needs that
what is in the LogFile are the first lines (`LoggedFirst`), and that the backend
holds nothing when it takes the buffers (`Held`). `FilesOfOneDay` needs the open
file to be pure (`OpenOfOneDay`), since the write that makes it impure also closes
it (`ClosedOfOneDay`). The files and the buffers are joined by the recursive
`FlattenSeq`; what it computes is proved from a set form of induction (`Induction`:
the least number outside a set has no predecessor, from `WFMin`), which needs no
theorem with an operator as a parameter.

**KcpProofs**, for any segment size, windows, messages and number of faults, over a
network that loses, duplicates and reorders: `KcpDelivers` (`MessagesInOrder`) and
`KcpForgetsNothing` (`AckedIsHeld`); and for any number of clients and conversations
over one that loses and reorders: `LayerHandshake` (`HandshakeAgrees`) and
`LayerKeepsApart` (`ConversationsApart`).
They follow from `KcpInvariant` and `LayerInvariant`, which are stated too.

None of the four is inductive: what the receiver will have tomorrow depends on
segments in both windows and in datagrams that may be as old as the conversation.
One direction is described by a `Link` between a sender and a receiver, over a
witness: the stream of all fragments of the messages accepted by `ikcp_send()`, and
where each message ends in it (`Stream`). Fragment `sn` of the stream is what every
copy of segment `sn` carries, in `snd_buf` (`SenderOK`), in a datagram however late
(`DataOK`), and in `rcv_buf` and `rcv_queue` (`ReceiverOK`); `rcv_queue` begins where
a message does, so that counting down `frg` finds its end and not another's. In the
other direction an acknowledgement, in `acklist` (`AcklistOK`) or on its way
(`AcksOK`), names what the receiver holds for good, and what left `snd_buf` is held
(`GoneIsHeld`); here it matters that `rcv_nxt` never falls. A `Pair` is a `Link` in
each direction, since a datagram carries data one way and acknowledgements the
other. There is one lemma for each thing that happens to a pair: `PairSends`,
`PairReceives`, `PairFlushes`, `PairInputs`, `PairFewer` (a loss), `PairTurned` (seen
from the other end).

`KcpInv` is a `Pair` for each end. `LayerInv` is a `Pair` for each conversation the
server has made, where an entry the client does not have yet counts as a new control
block: its datagrams may be under way before the client has heard of it. Around it,
`DatagramOK` says that a datagram belongs to a conversation of the two nodes between
which it travels, and that the ACK of a handshake is in flight only as long as the
client has no entry (it is sent once and the network of `KcpLayer` does not
duplicate), so that it never replaces a control block in use; `ServerOK` and
`ClientOK` tie the entries of both sides together.

Segment numbers are natural numbers in `Ikcp`: the theorems speak of conversations of
fewer than 2^31 segments, in which the code's 32-bit comparisons do not wrap.

The operators of `Ikcp` fold over sequences. They are written as recursive
functions, and what they compute is proved from the same set form of induction as in
`AsyncLoggingProofs`.

Each inductive invariant was checked by TLC on the run's instance before it was
proved, except `KcpInv` and `LayerInv`, whose quantifier over the witness TLC cannot
enumerate.

Only model-checked: the liveness properties `FunctorsRun`, `QuitStops`,
`EventuallyDestroyed`, `ShutdownHappens`, `StopReturns`, `Reconnects` and
`ReadersResume` (the prover handles neither fairness nor `ENABLED`); `NeverStuck`
of `Kcp`, which counts rounds and so is an induction over data, and supposes that
the user's buffer holds every message; and the invariants of `Http`: `HttpParser` runs over its input with a
`RECURSIVE` operator, which the prover does not support, and what a parser makes of
every input is an induction over data. `NotEarlierThanATick` of `TimerWheel` does
not hold. `SpaceIsMade`, `IndexMeaning`, `ActiveRegistered`, `WritersFirst` and the
type invariants are parts of the inductive invariants and are proved, not run.

## 5. How to run

    tlc -config MCEventLoop.cfg MCEventLoop
    tlapm EventLoopProofs.tla

and likewise for the pairs of module and configuration in `PROJECT.json`.

## 6. Plan

Order of work: first what every other component relies on (loop, poller, buffer),
then what users see (connections, clients, timers), then logging and locks, then
the protocols (KCP, HTTP) and the wheel; that much is done. What remains, in
order:

1. `TcpServer` with `EventLoopGroup` and `Acceptor`: several connections over
   several loops, `start()` from the base loop, the round robin of
   `getNextLoop()`, a functor of one loop that meets the end of another's
   connection. Composes several connections as an abstraction of
   `TcpConnection`; property: every connection is in the map from `accept()` to
   `connectDestroyed()`, in one loop, once.
2. The KCP layer over a network that duplicates, and its composition with ikcp's
   `NeverStuck`; liveness once something calls `kcpUpdate()` periodically.
3. `CountDownLatch`; the destructor of `TcpClient`.
4. Proofs: a form of `HttpParser` without a `RECURSIVE` operator, in which
   `NoAssertFails` is an invariant of one character at a time.
