# A TLA+ model of muduo

This directory specifies the core of **muduo 2.0.2** (`src/muduo-2.0.2`), a C++
network library built on one event loop per thread. The specifications are
translated from the source. TLC checks them on small instances, and TLAPS proves
the safety properties of every modelled component for every instance. Paths below are
relative to `src/muduo-2.0.2/` unless they start with `src/`.

The repository is a collection of unrelated libraries (Lua, two Redis versions,
spdlog, srpc, tinyhttpd, workflow, and archives of others). muduo is the one this
project is about; the others are listed in `PROJECT.json` and not modelled.

## 1. The system and its parts

An `EventLoop` belongs to one thread. It waits in a `Poller` (`epoll` or `poll`),
calls the `Channel`s that became active, and then runs the functors that any
thread may have queued with `queueInLoop()`. Everything else hangs on that loop:
timers (`TimerQueue`), connections (`TcpConnection`, owned by a `TcpServer` or a
`TcpClient`), the `Acceptor` and the `Connector` that make them, and the thread
that runs a loop (`EventLoopThread`). The library under `muduo/base` gives
threads, monitors, a thread pool and logging.

| Part | Source | Modules | State |
|---|---|---|---|
| EventLoop | `muduo/net/EventLoop.{h,cc}` | `EventLoop`, `Executor`, `EventLoopProofs` | modelled, proved |
| EventLoopThread, Thread start/join, latch | `muduo/net/EventLoopThread.cc`, `muduo/base/Thread.cc` | `EventLoopThread`, `EventLoopProofs` | modelled, proved |
| TimerQueue, Timer, TimerId | `muduo/net/TimerQueue.cc`, `Timer.{h,cc}` | `TimerQueue`, `TimerQueueProofs` | all but the destructor; proved |
| Channel | `muduo/net/Channel.{h,cc}` | `Channel` | interest, registration, dispatch |
| Pollers | `muduo/net/poller/*.cc`, `muduo/net/Poller.cc` | `EPollPoller`, `PollPoller`, `DefaultPoller`, `PollerSpec`, `PollerProofs` | modelled, proved |
| TcpConnection | `muduo/net/TcpConnection.cc` | `TcpConnection`, `TcpConnectionProofs` | modelled, proved |
| TcpServer, Acceptor, EventLoopThreadPool | `muduo/net/{TcpServer,Acceptor,EventLoopThreadPool}.cc` | `TcpServer`, `Acceptor`, `TcpServerProofs` | modelled, but for the pool's calls that only read; proved |
| TcpClient, Connector | `muduo/net/{TcpClient,Connector}.cc` | `TcpClient`, `Connector`, `TcpClientProofs` | modelled, proved |
| Buffer | `muduo/net/Buffer.{h,cc}` | `Buffer`, `ByteQueue`, `TcpConnectionProofs` | all calls that change it but the integer forms; proved |
| ThreadPool | `muduo/base/ThreadPool.cc` | `ThreadPool`, `ThreadPoolProofs` | modelled, proved |
| AsyncLogging, LogFile, AppendFile | `muduo/base/{AsyncLogging,LogFile,FileUtil}.cc` | `AsyncLogging`, `LogFile`, `AsyncLoggingProofs` | modelled, proved |
| Blocking queues, HTTP, RPC, LogStream, Date, sockets, ... | `muduo/base`, `muduo/net` | | not modelled (section 7) |

"Proved" means the safety properties of section 4; liveness is model-checked.

The modules depend on each other as the classes do:

    Executor <== EventLoop <-- EventLoopThread       <-- extends
       :  (FIFO of functors)                         <== is implemented by
       +.. TimerQueue, TcpConnection, TcpClient, TcpServer
           (their variable functors is such a FIFO, one for each loop)
    PollerSpec <== DefaultPoller --> EPollPoller, PollPoller --> Channel
    ByteQueue  <== Buffer
    Connector <-- TcpClient      Acceptor <-- TcpServer     LogFile <-- AsyncLogging
    ThreadPool

`EventLoopThread` composes the owner and the thread's own code with all of
`EventLoop`; that the composition still is an `EventLoop` is proved. `TimerQueue`,
`TcpConnection`, `TcpClient` and `TcpServer` use the loop through its promise
only, the first-in first-out queue of module `Executor`; that `EventLoop` keeps
this promise is checked and proved. `TcpClient` and `TcpServer` in turn use only
the states and the close callback of a `TcpConnection`, whose inside is the
subject of its own module. The MC modules give constants that a configuration
cannot write down.

## 2. The modules and the code

Every definition that stands for code is mapped to its lines in `PROJECT.json`.
Variables keep the source's names, with the trailing underscore. Variables whose
comment says *history* record what happened and guard nothing, except that a
behaviour ends after one of the named races below. Operators with a
name like `Quit_NoWakeup`, just before `Quit`, are the plausible mistakes with
which the properties were tried out; the specifications do not use them.

**EventLoop.** `lpc` is where the loop thread is: `outside`, `check` (the
`while (!quit_)`), `poll`, `handle`, `swap`, `run` (between two functors), `call`
(inside one). `CheckQuit`,
`PollReadable`, `PollTimeout`, `HandleEvent`, `EventsHandled`, `SwapFunctors`,
`RunFunctor` and `FunctorsDone` are `loop()` and `doPendingFunctors()` cut at the
points another thread can observe. Another thread's `queueInLoop()` and `quit()`
are two steps each, the push or store (`QueueInLoop`, `Quit`) and the write to the
eventfd (`Wakeup`). In the loop's own thread `queueInLoop()`, `runInLoop()` and
`quit()` happen in callbacks, or before `loop()`. The eventfd is readable or not:
`poll()` tells no more apart. A functor's name is queued once.

**EventLoopThread.** `tpc` and `opc` are the places of `threadFunc()` and of the
owner. `startLoop()` is `StartThread` and `WaitForLoop`; `threadFunc()` is
`ThreadBegins`, `Publish`, `EnterLoop`, the loop's steps, `ClearLoop` and
`ThreadEnds`; the destructor is `DtorCheck` (reads `loop_` without the lock),
`DtorQuit`, `DtorWake`, `DtorJoin`.

**TimerQueue.** A timer is a record at a heap address, and addresses are reused,
since a `TimerId` is a pointer and a sequence number. `timers_` and
`activeTimers_` are the two sets of the code, ordered by pair order. `handleRead()`
is `HandleRead` (read the timerfd, `getExpired()`), the batch's callbacks
(`CallbackReturns`, with calls in between) and `HandleReadEnds` (`reset()` and the
re-arming). `addTimer()` of another thread is `AddTimer` (allocate, queue) and
`ReturnTimerId` (read `sequence()` for the result). The timerfd counts down on a
monotonic clock (`Tick`), while `now` is the wall clock, which may be set back.

**Channel, EPollPoller, PollPoller, DefaultPoller.** `Channel` has the events, the
registration and one dispatch round, with the assertions of `Channel`,
`EventLoop` and `Poller` as the guards `MayUpdate` and `MayRemove`. Each poller
adds its own structure: `index_` as `kNew`/`kAdded`/`kDeleted` with the kernel's
epoll set and the growth of `events_`; or `index_` as a position in `pollfds_`,
with the fd encoded as `-fd-1` when it is to be ignored, and the swap of
`removeChannel()`. The assertion there that the pollfd is ignored
(`muduo/net/poller/PollPoller.cc:122`) is not the caller's: a first update without
events leaves the fd as it is (line 84), so `Abort` ends the process when such a
channel is removed (`silent` remembers which these are). `DefaultPoller` chooses one when the loop is made, as
`newDefaultPoller()` does, and is checked against `PollerSpec`.

**TcpConnection.** One connection from `newConnection()` to its destructor.
`phase` is where its I/O loop is; `HangUp`, `HandleRead`, `HandleWrite` are
`handleEventWithGuard()`'s callbacks in its order; `RunFunctor` runs the queued
`connectEstablished`, `sendInLoop`, `shutdownInLoop` and so on. Another thread's
call is up to three steps: the test of `state_`, the store, and the push. The
object exists while a `shared_ptr` does (`Alive`): the server's map, a queued
functor bound to `shared_from_this()`, or a user. `turn` tells where the channel is
in the loop's round: not in `activeChannels_`, there with another channel's handler
running, or in its own `messageCallback_`. The server may be destroyed at any time
from another thread, and, when it shares the connection's loop, by any code of that
loop: a functor, a handler of another channel, or this connection's
`messageCallback_`. (`handleClose()` is one step, so a server destroyed by its
`connectionCallback_` is the server destroyed before it: race `unsafe`.) Bytes are named by their
message. `write()` may take any part, or fail with or without a fault.

**Connector, TcpClient.** `Connector` has the functions that run in the loop as
operators (`Connect`, `Connecting`, `Retry`, ...), and `TcpClient` puts them into
actions. The loop's round is a `Poll` that reports any set of ready sources (the
connecting socket, a retry timer, an open connection, the destructor's timer),
their handlers, and the functors swapped out. The user, in the loop's thread or in
another, calls `connect()`, `disconnect()`, `stop()` and the destructor, each cut
where the loop can come in between (`upc`): `StartSets`/`StartRuns`,
`StopSets`/`StopQueues`, `DestroyReads`/`DestroyDetaches`/`DestroyEnds`.
Functors bound to the bare `Connector` (`Raw`) are told apart from those that hold
a `shared_ptr`; `ConnectorAlive` and `Held` say which objects exist. A socket gets
the lowest free descriptor, so descriptors are reused.

**Acceptor, TcpServer.** `Acceptor` has `handleRead()` step by step: `accept()`,
and when no descriptor is left the close of the reserve, the second `accept()`,
its close and the reopening of `/dev/null`, with the rest of the process opening
descriptors in between. `TcpServer` has the map `connections_`, the pool's loops
with their functors, each entering `loop()` some time after `start()` returned
(`EnterLoop`, with its store to `quit_`), `newConnection()` by round robin, closes in the connection's
loop, `removeConnectionInLoop()` in the server's, `connectDestroyed()` back in the
connection's, and the destructor: it releases the map, queues
`connectDestroyed()` for each connection, and the pool's threads are quit and
joined. A connection here is established, closed or destroyed; `kDisconnecting`
belongs to `TcpConnection`, as do the rounds of a loop that the server shares with
its connections. The poller is the default one, `epoll`.

**LogFile, AsyncLogging.** `LogFile` has `append_unlocked()`, `rollFile()` and
`flush()`: rolling by size, and every `checkEveryN_` appends by period, at most
once a second. `AsyncLogging` has the front end (`AppendLine`: `currentBuffer_`,
`nextBuffer_`, a new buffer) and the backend cut at the lock: `TestRunning`,
`WaitForSeconds`, `TakeBuffers`, `DropBuffers` (more than `DropAbove` buffers: two
are kept and a notice is written), one `WriteBuffer` for each buffer, `EndRound`.
`start()` waits for the latch and `stop()` joins. A line is a number.

**Buffer.** `buf` is the vector with its two indices; the operators `AppendTo`,
`ReadInto`, `RetrieveFrom`, `PrependTo`, `MakeSpace` and `ShrinkTo` compute as
the code does, on real positions, and `ByteQueue` says what a reader sees.

**ThreadPool.** Each critical section is a step and `Condition::wait()` ends one.
`notify()` wakes any one waiter, and wakeups may be spurious. The owner calls
`start(n)`, for `n` from 0, and `stop()`; callers of `run()` may block.

## 3. What the runs check

Each run is `tlc -config <cfg> <module>`. Every property was also tried against a
changed definition (the `mutants` of `PROJECT.json`), which TLC must find to
violate it.

| Run | Instance | What holds |
|---|---|---|
| `eventloop` | 2 threads, 3 functors, 1 I/O channel; 70,732 states | `NoLostWakeup`: `poll()` never sits on a functor with no write to the eventfd done or due. `ImplementsExecutor`: nothing queued is lost, doubled or overtaken. `PromptlyRun` and `QuitStops`, without the help of the 10 s poll timeout. |
| `eventloopthread` | owner and thread, 2 functors; 8,827 states | `LoopOutlivesCalls`: `startLoop()` returns a loop that exists, and the destructor enters `quit()` on one. `StartLoopReturns`. `LateDtorReturns`: the destructor of a thread that is looping joins it. |
| `timerqueue` | 2 addresses, 2 timers, 1 thread, time to 3; 146,379 states | `TimersOwned`: the two sets agree and every timer has one owner, so none is leaked, deleted twice or used by the loop after its deletion. `TimerfdArmed`: the timerfd is never off, or late, while a timer waits. `CancelIsFinal`, also when the address is reused. `DueTimerRuns`. |
| `poller` | 4 channels, two of them on fd 0 in turn, either poller; 720,333 states | `KernelMirrorsChannels`: the epoll set is that of the channels and no `epoll_ctl()` fails; every channel finds its own pollfd after any swaps, and the process aborts in `removeChannel()` only for a channel that was updated once, to have no events. `DispatchToAdded`: no event goes to a removed channel. `ImplementsPoller`. |
| `tcpconnection_stream` | 2 messages of 2 bytes, 1 other thread; 24,024 states | `StreamInOrder`. `WritingIffPending`. `ShutdownAfterData`. `ClosingCompletes`: a half-close and a peer's close come to their end. |
| `tcpconnection_lifetime` | every call but `forceCloseWithDelay()`, server with and without a thread pool, which may be destroyed at any time; 6,120,252 states | Outside four named races: `ClosedOnce`; `DestroyedClosed`: the assertions of `~TcpConnection()`, `~Channel()` and `Channel::remove()` hold, and nothing bound to the raw `this` is queued when the object dies. |
| `buffer` | pieces of up to 3 bytes on a vector of 3; 247,463 states | `CheapPrepend`. `ImplementsByteQueue`. |
| `threadpool` | 2 workers, 2 callers, 4 tasks, queues unbounded and of 1 and 2; 70,848 states | `OnePlace`: no task is lost or run twice. `SignalsReach`: no signal of either condition is lost. `TasksRun`. `StopReturns`. |
| `tcpclient` | 4 descriptors, 3 calls, 1 failed attempt, user in the loop or not, with and without `enableRetry()`; 111,164 states | `SocketsAccounted`: no path leaks a socket. Outside six named races: `NoDangling`: the assertions hold and what is queued refers to live objects. `StopIsFinal`: no attempt is under way after `stop()`, whatever retry timers are left. `Connects`. `CleanedUp`: the destructor leaves nothing behind. |
| `tcpserver` | 3 clients, 3 descriptors, 1 taken by others, 0 to 2 threads; 56,883 states | Outside three named races: `ConnectionsTracked`: a connection leaves the map once and is destroyed once, in its loop. `ReserveHeld`: the Acceptor gets its reserve back. `ClientAnswered`: nobody waits in the kernel's queue while the loop spins on it. `TornDown`: closed connections give their descriptor back, and the destructor returns with none left. |
| `asynclogging` | 6 lines, buffers of 3, drop above 2, files of 3; 132,003 states | `LinesConserved`: every line is in one place, in the order of `append()`, or among those a late backend threw away. `BuffersRecycled`: the backend's assertions, and room for every line. `FilesRoll`: by size after its second and by period before `checkEveryN_` appends, with increasing names. `LinesReachDisk`. `StopReturns`. |

One run shows that the code does not do what a comment says of it:

| Run | What happens |
|---|---|
| `timerqueue_id` | `IdNamesTimer` fails. `addTimer()` reads `timer->sequence()` (`muduo/net/TimerQueue.cc:123`) after it gave the timer to the loop, which may have run and deleted it; `TimerQueue.h:45` says "Must be thread safe. Usually be called from other threads." |

### Uses the code does not protect itself against

Some modules name such uses, record them in `races`, and state their properties
for behaviours without them. A flag that is raised too early would make the
properties vacuous, so each is raised only at the step that acts on the stale
value.

- `TcpConnection`: a call that takes effect after the close on a stale test of
  `state_` (`late`: `forceClose()` tests and stores in two steps at
  `muduo/net/TcpConnection.cc:242`, and the connection is then closed a second
  time); the destruction of the server around a half-finished close (`teardown`);
  the destruction of the server by a handler of the same loop while the connection's
  channel is in `activeChannels_` and it is another's turn (`round`: `~TcpServer()`
  runs `connectDestroyed()` at once, `muduo/net/TcpServer.cc:48`, and the assertion
  of `EventLoop::removeChannel()` at `muduo/net/EventLoop.cc:212` fails); a close,
  or a queued `removeConnectionInLoop()`, that runs when the server is gone
  (`unsafe`, "FIXME: unsafe" at `muduo/net/TcpServer.cc:96`: it queues a second
  `connectDestroyed()`). After a race the model goes on as a build with `NDEBUG`
  does while the memory of destroyed objects is still there.
- `TcpClient`: `connect()` while the Connector is not at rest (`reuse`, the code
  has "FIXME: check state"); the loop inside the client while another thread
  destroys it (`late`); a restart after another thread's `stop()` or
  `disconnect()` on a stale `connect_` (`restart`); the destructor, with a
  connection, while functors bound to the bare Connector are queued (`pending`,
  "FIXME: unsafe"); the destructor's timer overtaking such functors (`slow`); the
  user giving up the last reference to an open connection, or its own after
  `unique()` was read as false (`dropped`).
- `TcpServer`: a connection closing in its loop when the server goes (`unsafe`,
  "FIXME: unsafe"); `connectDestroyed()` queued to a loop that has swapped its
  functors out, or has not begun its first round, and is then quit (`dropped`); the
  server destroyed right after `start()`, so that a pool thread enters `loop()`
  after it was told to quit (`erased`: `startLoop()` returns when `loop_` is
  published, `muduo/net/EventLoopThread.cc:47`, and `loop()` then stores
  `quit_ = false`, `muduo/net/EventLoop.cc:108`; the destructor joins a thread that
  does not end).
- `PollPoller`: the removal of a channel that was updated once, to have no events.
  `~Acceptor()` does it when `listen()` was never called and `MUDUO_USE_POLL` is
  set. This is no race: it is `aborted`, the end of the behaviour, and
  `KernelMirrorsChannels` says that there is no other way to it.

More behaviours are left out by the statement of a property or by the environment.

- `LateDtorReturns` speaks of a thread that is looping, since an erased `quit()`
  (as above) makes `~EventLoopThread()` wait for ever; and `LoopOutlivesCalls` of
  a loop that nothing but the destructor quits, since `~EventLoopThread()` reads
  `loop_` without the lock ("still a tiny chance to call destructed object").
- `DispatchToAdded` rests on `MayRemove`, an assertion that the code leaves to its
  callers; the caller that breaks it is the race `round` above.
- The wall clock of `TimerQueue` may be set back, but does not jump forward. After
  such a jump the monotonic timerfd is late for the timers that became due, and the
  "never late" of `TimerfdArmed` does not hold; they run when it expires.
- The clock of `LogFile` only advances. If `time()` is set back, `now > lastRoll_`
  (`muduo/base/LogFile.cc:99`) keeps `rollFile()` from rolling until `lastRoll_` is
  reached again, and `FilesRoll` does not hold for its size and period.
- `TcpServer::start()` is documented as thread safe (`muduo/net/TcpServer.h:74`),
  but `EventLoopThreadPool::start()` aborts outside the loop's thread: the model
  starts the server in its loop.

### Bounds

Each bound is a named constant and stands in a guard.

- *EventLoop*: two threads suffice for a push between another's push and its
  write; three functors fill the swapped vector, the queue behind it, and one to
  come.
- *TimerQueue*: two addresses and two timers, so that a stale `TimerId` meets a
  new timer at its address, and a batch holds two timers that cancel each other.
  `Whens = {0, 2}` has one timer overdue at once and one in the future; time 3
  leaves room for a repetition. `MaxNow` freezes the wall clock but not the
  timerfd, so a timer that is due at the end is still run.
- *Pollers*: two channels that share an fd in turn give fd reuse; three fds give a
  removal from `pollfds_` at the end, in the middle and of the only entry.
  fd 0 is there since `-fd-1`, and not `-fd`, must encode it. `events_` of
  `EPollPoller` starts at 1 and grows to 2.
- *TcpConnection*: two messages of two bytes give partial writes before and after
  the other message is queued; a high water mark of 3 is crossed by the second
  message only. Two closes are allowed so that a second close is reachable.
- *TcpClient*: three calls give connect, stop and destroy, or connect, disconnect
  and connect again; one failure gives a retry and an error that is not retried;
  with four descriptors a new attempt can have the descriptor of a connection that
  is still being destroyed, or another one.
- *TcpServer*: two descriptors remain beside the reserve for three clients, and
  one can be taken by the rest of the process, also while the reserve is closed;
  two threads make round robin and the order of their destruction matter.
- *AsyncLogging*: six lines in buffers of three fill both front buffers and make
  a third; the drop limit of 2 is reached; files of 3 lines roll by size, and a
  clock to 4 with periods of 2 by time; a file can be full again within its second.
- *Buffer*: with `kCheapPrepend` 2 and initial size 1, a piece of three bytes
  overruns each area and readFd()'s `extrabuf` of 2.
- *ThreadPool*: two workers and two callers make "wake one of several" matter;
  four tasks fill a queue of two and still block both callers.

The proofs of section 4 remove the bounds for the properties they state.
No symmetry reduction is used: most runs check liveness.

### Fairness

Weak fairness is assumed of the steps a running thread takes by itself: the loop
between two polls, the second half of a call that has begun, a worker, the
logging backend, a join. Nothing is assumed of calls: no user has to queue, quit,
stop or destroy anything. In addition:

- a `poll()` whose eventfd is readable returns; only `EventLoopThread` also uses
  that `poll()` returns after `kPollTimeMs`, and `AsyncLogging` that
  `waitForSeconds()` returns after `flushInterval_`;
- time passes, and the wall clock is not set back for ever (`TimerQueue`);
- a socket with bytes to write becomes writable again and again, reading from a
  closed peer comes to its end, and a timer that is set expires (strong fairness,
  `TcpConnection`). The first is the peer's reading, without which no half-close
  can be promised; the last is what `DueTimerRuns` shows of `TimerQueue`;
- an attempt to connect ends and a timer fires (strong fairness, `TcpClient`),
  since `poll()` reports a ready descriptor until it is handled;
- the server's loop gets to its functors, and a client in the kernel's queue is
  reported, again and again (strong fairness, `TcpServer`): one round of the loop
  does both, and neither can keep the other out for ever;
- tasks and callbacks return.

`CHECK_DEADLOCK FALSE` is said where the program may really come to its end: a
destroyed `EventLoopThread`, `TcpClient` or `TcpServer`, a stopped `ThreadPool`
or `AsyncLogging`, and the assertion of `PollPoller` that fails.

## 4. What is proved

TLAPS (`tlapm <module>.tla`) proves the following for every value of the
constants, from the named assumptions of the modules and nothing else.

**EventLoopProofs**, for any set of threads, functors and channels, from
`ChannelAssumption` (the wakeup channel is none of the others, and `NULL` is no
channel).

| Theorem | Argument |
|---|---|
| `TypeCorrect`: `Spec => []TypeOK` | `TypeOK` is inductive. Besides types it ties `looping_`, `callingPendingFunctors_`, the swapped vector and the active channels to the place of the loop thread, which the next proofs need. |
| `QueueOrder`: `Spec => []QueueHistory` | What was queued is what ran, then the swapped vector, then `pendingFunctors_`. Inductive together with `TypeOK`: `swap()` is sound because the local vector is empty when it happens. |
| `WakeupNotLost`: `Spec => []NoLostWakeup` | `NoLostWakeup` is not inductive: it speaks of `poll` only, and the eventfd is drained elsewhere. `WakeupInv` says it of every place but `handle` and `swap`, the window between the draining of the eventfd and the swap. Only `handleRead()` drains, it leads to the swap, and every push outside that window comes with a `wakeup()`; that is what the condition `!isInLoopThread() \|\| callingPendingFunctors_` of `queueInLoop()` is for. |
| `EventLoopImplementsExecutor`: `Spec => ImplementsExecutor` | The queue of `Executor` is `functors \o pendingFunctors_`: a push appends to it, the swap leaves it as it is, and running takes its head. |
| `QuitWakesLoop`: `Spec => []QuitNotSlept` | In `poll()` with `quit_` set, a write to the eventfd has happened or is due. `quit()` in the loop's own thread writes none and needs none: the loop tests `quit_` before it polls. |

The same module proves of `EventLoopThread`, with `OwnerAssumption` (the owner is
one of the threads) besides:

| Theorem | Argument |
|---|---|
| `ThreadRunsLoop`: `ThreadSpec => Spec` | Every step of the thread or its owner is a step of `EventLoop` or leaves its variables alone. |
| `ThreadLosesNoWakeup`: `ThreadSpec => []NoLostWakeup /\ ImplementsExecutor` | From the theorem above and those of `EventLoop`. |
| `LoopOutlives`: `ThreadSpec => []LoopOutlivesCalls` | `LifeInv`: `loop_` and the object follow `threadFunc()`, and the loop is left only after a store to `quit_`, which is the destructor's or another's that is noted. |
| `StartLoopIsNotified`: `ThreadSpec => []NotifyNotLost` | The thread notifies once. `NotifyInv`: the owner reads `loop_` under the same mutex before it waits, so while it waits the thread is still before `Publish`, unless something else quit the loop. |

**TimerQueueProofs**, from `TimerAssumption`.

| Theorem | Argument |
|---|---|
| `TimersHaveOneOwner`: `Spec => []TimersOwned` | `SequenceInv`: live timers have different sequence numbers. `OwnerInv`: an address has a timer exactly when one of `timers_`, the expired batch and one queued functor has it, and `activeTimers_` is `timers_` with sequence numbers. |
| `CancelledStaysGone`: `Spec => []CancelIsFinal` | `CancelInv`: a cancelled timer still exists only inside the batch being called, and then it is in `cancelingTimers_`, so `reset()` frees it. |
| `TimerfdStaysArmed`: `Spec => []TimerfdArmed` | `ArmedInv`. An insertion sets the timerfd only if the new timer is the earliest, and `reset()` sets it for the first of `timers_` if that one is `valid()`, that is, not at time 0. `ZeroArmed` closes this gap: a timer at time 0 that waits when a batch ends was added during the batch, and its insertion set the timerfd to the least delay. |

**PollerProofs**, from `ChannelAssumption` of `Channel` and `EventListAssumption`,
for any channels and any sharing of descriptors between them.

| Theorem | Argument |
|---|---|
| `DispatchesToAdded`: `Spec => []DispatchToAdded` | `DispatchInv`: what is left of a round is added, since only the current channel may remove itself or another that is not active. |
| `MirrorsChannels`: `Spec => []KernelMirrorsChannels` | `EpollInv`: `index_` tells whether the kernel has the entry, and every entry of the kernel is that of an added channel. `PollInv`: positions and pollfds correspond one to one, and a pollfd without events is ignored unless its channel is `silent`, which is so from a first update without events to the next update; `PollSwapKeeps` is the swap with the last entry, decoding `-fd-1`. `AbortInv`: after an abort, the channel to be removed was such a one. |
| `PollerImplemented`: `Spec => ImplementsPoller` | From both: the watched events of the mapping are the wanted ones, and only added channels with wanted events are reported. |

**TcpConnectionProofs**, from `ConnectionAssumption`, for any threads, calls,
message sizes and bounds.

| Theorem | Argument |
|---|---|
| `BytesInOrder`: `Spec => []StreamInOrder`, `WatchesWhilePending`: `Spec => []WritingIffPending`, `ShutdownLosesNothing`: `Spec => []ShutdownAfterData` | One invariant, `IInv`: the three properties need each other (a direct write happens only when nothing waits, and the channel's interest tells), and need that `connectEstablished()` is the first functor and nothing happens before it (`QueueInv`, `EarlyInv`). |
| `ClosesOnce`: `Spec => []ClosedOnce`, `DestroyedQuietly`: `Spec => []DestroyedClosed` | `LifeInv`, on top of `IInv` and outside the races: `state_` says what was reported (`CountInv`), events are reported for open connections only (`EventInv`), and exactly one of the map, one queued functor and the past has the `connectDestroyed()` (`ServerInv`). `RoundInv`: once `messageCallback_` runs only `handleWrite()` may be left of the channel's turn, so a server destroyed there leaves no second close behind. |
| `ClosingNotForgotten`: `Spec => []ClosingUnderway` | Inductive with the two invariants above. What is to end the connection is handed from one to the next: a thread about to queue, the queued functor, then, when bytes wait, the watched channel; and a functor that finds nothing to do finds the socket shut down or the connection closed. |

The same module proves of `Buffer`, for any bytes, sizes, pieces and bounds, from
`BufferAssumption`:

| Theorem | Argument |
|---|---|
| `BufferTypeCorrect`: `BufferSpec => []TypeOK` | `0 <= readerIndex_ <= writerIndex_ <= size`, and the memory is a function on the vector's positions. |
| `HeaderFits`: `BufferSpec => []CheapPrepend` | `kCheapPrepend` bytes, less those prepended already, are free in front of the content. |
| `NoNeedlessGrowth`: `BufferSpec => GrowsOnlyIfNeeded` | `makeSpace()` resizes only if content, request and `kCheapPrepend` exceed the vector. |
| `BufferImplementsByteQueue`: `BufferSpec => ImplementsByteQueue` | Each operation changes `Readable(buf)` as the byte queue says. |

All four rest on one inductive invariant, `BufferInv`: `TypeOK`, `CheapPrepend`,
and that the vector is never smaller than the constructor made it, without which
`retrieveAll()` could put its indices behind the end. One lemma for each operator
says what it does to type and content; `NextIsGood` puts them together. Lemma
`MovesDown` shows on the way that `assert(kCheapPrepend < readerIndex_)` in
`makeSpace()` cannot fail.

**TcpServerProofs**, from `ServerAssumption` and `AcceptorAssumption`, for any
number of threads, clients and descriptors.

| Theorem | Argument |
|---|---|
| `ConnectionsOnce`: `Spec => []ConnectionsTracked` | `TrackInv` says it without counting: no functor is in any queue twice, `connectEstablished()` comes before `connectDestroyed()` in a queue (`InOrder`), what a queued functor says of its connection (`QueuedInv`), and which functor a connection waits for (`WaitInv`). The counts of the property follow from the uniqueness of the place. |
| `ReserveComesBack`: `Spec => []ReserveHeld` | `FdInv`: the number of descriptors in use never exceeds the limit, and while the reserve is closed and nobody else took it one is free, so the `open()` that gets it back succeeds. |
| `RefusalNotLost`: `Spec => [][RefusalReachesClient]_vars` | The second `accept()` of `handleRead()` takes a waiting client, unless the reserve was stolen. From `FdInv`, and `Serving`: the handler runs only while the server exists. |
| `DtorDestroysPool`: `Spec => []PoolTornDown` | `EndInv`, while no race has happened: no loop of the pool ends before `connections_` is empty, none ends with functors left, and only loops that have not ended are given functors. With `WaitInv`, a connection that is gone from the map and has no `connectDestroyed()` queued was destroyed. |

**TcpClientProofs**, from `ClientAssumption` and `ConnectorAssumption`, for any
descriptors, calls, modes and bounds.

| Theorem | Argument |
|---|---|
| `SocketsNeverLeak`: `Spec => []SocketsAccounted` | Inductive by itself, the races included. |
| `NothingDangles`: `Spec => []NoDangling`, `StopStaysFinal`: `Spec => []StopIsFinal` | One invariant, `IInv`, while `races` is empty. `AttemptInv`: there is one attempt at a time, queued, waiting for a timer, on the channel, or a connection. `ResetInv`: a channel that was removed is reset before the loop can come to the next attempt, because `resetChannel()` is queued and the functors of a round run before the next poll. `StopInv`: a stopped client that still connects has its `stopInLoop()` queued. `DestroyInv`: the destructor leaves a holder of the Connector as long as something is bound to it. `ConnInv`: each connection that is not destroyed has somebody who will close or destroy it. |
| `AttemptNotForgotten`: `Spec => []AttemptUnderway` | On top of `IInv`: each step that takes away the socket, the timer or the queued `startInLoop()` of a Connector that is to connect leaves another of the three, connects, or gives up on an error the code does not retry. |

The invariant of `TcpClient` need not hold after a race, so what is proved by
induction is `Good`: `SocketsAccounted`, and `IInv` if no race has happened. A race
is never taken back, hence a step into a state without one starts in one.

**ThreadPoolProofs**, from `ThreadPoolAssumption`.

| Theorem | Argument |
|---|---|
| `TasksInOnePlace`: `Spec => []OnePlace` | `PlaceInv` says it without counting: no place holds a task twice, no two hold the same, and together they hold what was sent. One lemma for each way a task moves. |
| `SignalsNotLost`: `Spec => []SignalsReach` | `SignalsReach` is inductive with types and the finiteness of the sets it counts: a task put or taken brings one more awake thread, and a thread that goes back to wait found nothing to do. |
| `StopLeavesNobody`: `Spec => []StopReaches` | `StopInv`: `running_` is false from `stop()` on, `notifyAll()` under the mutex leaves nobody waiting, and a worker tests `running_` under the mutex before it waits. |

**AsyncLoggingProofs**, from `LoggingAssumption` and `LogFileAssumption`.

| Theorem | Argument |
|---|---|
| `SpareBuffersReturn`: `Spec => []BuffersRecycled` | `BufferInv`: `nextBuffer_` is missing only if a full buffer waits; so the second spare is given away only when at least two buffers are taken, and what was written refills both. |
| `FilesRollInTime`: `Spec => []FilesRoll` | `FileInv`: `startOfPeriod_` is the period of `lastRoll_`, so a file of an earlier period can always be rolled, and until `count_` makes `append_unlocked()` look at the clock every late append is counted by it. |
| `LinesNeverLost`: `Spec => []LinesConserved` | `LineInv`: besides the property, how many of `buffersToWrite` are left and that nothing is left between rounds. A step moves lines from the front of one place to the end of the next, which leaves `Files \o Memory` as it is (`LinesMove`), appends the next number (`LineAppended`), or cuts out a middle part (`LinesDropped`). What the recursive function `Contents` gives for the parts of a vector of buffers is proved first, by a least counterexample. |
| `RestsOnlyFlushed`: `Spec => []RestsFlushed` | `FlushInv`: between two rounds, and after the last, nothing is left to write and the file's buffer is empty. With `LineInv`, what is not on the disk is with `append()` or was dropped. |

## 5. What is only model-checked

Liveness in every module: fairness and `ENABLED` are outside what these provers
do. Every invariant, action property and refinement that a passing run checks is
also a theorem of section 4.

The part of a liveness property that needs no fairness is proved: that what it
promises is never forgotten, which is where such a promise usually fails. What is
left to TLC is that somebody who can move does, and that this comes to an end.

| Liveness property, checked by TLC | Proved for it |
|---|---|
| `PromptlyRun`, `QuitStops` | `WakeupNotLost`, `QuitWakesLoop` |
| `StartLoopReturns` | `StartLoopIsNotified` |
| `LateDtorReturns` | `QuitWakesLoop`, of the thread's loop by `ThreadRunsLoop` |
| `DueTimerRuns` | `TimerfdStaysArmed` |
| `ClosingCompletes` | `ClosingNotForgotten` for what follows `shutdown()` |
| `ClientAnswered` | `RefusalNotLost`, `ReserveComesBack` |
| `TornDown` | `ConnectionsOnce`, `DtorDestroysPool` |
| `Connects`, `CleanedUp` | `AttemptNotForgotten`, `NothingDangles` |
| `TasksRun`, `StopReturns` of the pool | `SignalsNotLost`, `StopLeavesNobody` |
| `LinesReachDisk`, `StopReturns` of the log | `RestsOnlyFlushed`, `LinesNeverLost` |

The invariants `QuitNotSlept`, `NotifyNotLost`, `ClosingUnderway`,
`RefusalReachesClient`, `PoolTornDown`, `AttemptUnderway`, `StopReaches` and
`RestsFlushed` are stated in the proof modules, beside the theorems. No run lists
them, since the runs check the liveness properties they serve; on the constants of
those runs TLC finds them to hold.

Two proofs need an induction over data: a set of times has a least member, and
what `Contents` computes. The library's induction theorems take an operator as a
parameter, which these provers cannot instantiate. `Least`, that a set of natural
numbers has a least member, follows from `WFMin` of `WellFoundedInduction`, which
takes none, and a proof then looks at a least counterexample.

## 6. Hazards

`PROJECT.json` lists, with the line where each bites, what a test of this code
would hardly reach, and the properties that cover it. Where part of a hazard is a
named race, a note says which part. Those without a property are limits of the
design that nothing in the repository promises to avoid; the models have these
behaviours, and the properties leave them out or allow them:

- `quit()` before `loop()` is erased (`muduo/net/EventLoop.cc:108`), and
  `~EventLoopThread()` may use a loop that another quit has just ended
  (`muduo/net/EventLoopThread.cc:30`);
- a handler may remove a channel that waits in the same round
  (`muduo/net/EventLoop.cc:212`, race `round`);
- `startRead()` and `stopRead()` do not look at `state_`
  (`muduo/net/TcpConnection.cc:301`, race `late`);
- a `stop()` between the test of `connect_` and the restart is lost
  (`muduo/net/TcpClient.cc:174`, race `restart`);
- a line appended after the backend's last exchange is not written
  (`muduo/base/AsyncLogging.cc:69`);
- a `closeCallback_` bound to a `TcpServer` in another loop may find the server
  destroyed (`muduo/net/TcpServer.cc:96`, race `unsafe`);
- `connectDestroyed()` may be queued to a loop that is quit before it runs it
  (`muduo/net/TcpServer.cc:48`, race `dropped`);
- `ThreadPool::stop()` does not signal `notFull_` (`muduo/base/ThreadPool.cc:82`),
  so a `run()` that waits for a place when the last worker leaves waits for ever,
  and tasks still queued are dropped; `TasksRun` is stated for a pool that is not
  stopped.

Also part of the models, and not excluded by any property: functors queued after
the loop's last turn are not run; `cancel()` in the loop's thread may overtake an
addition queued by another one.

## 7. What is not modelled, and why

- *Data*: the content of messages, `inputBuffer_`, names, log lines, addresses.
- *The kernel*: `epoll`, `poll`, timerfd, eventfd, sockets and files are modelled
  by how the code uses them. System calls that only fail by a programming error
  are assumed to succeed, except where the code handles the failure.
- *Assertions*: a guard says what an assertion demands of the caller, as for
  `Channel`; an invariant says that an assertion about the code itself holds.
- *Destruction* of `TimerQueue` and of an `EventLoop` outside `EventLoopThread`.
- *Integer forms* of `Buffer` (`appendInt32()` and the like, which are
  `append()` of four bytes), and its searches, which change nothing.
- *`tie()`* of `Channel`, as `TcpConnection`'s channel is always tied: `Alive`
  says when the object exists. The `shared_ptr` that `handleEvent()` itself holds
  is left out of `Alive`: it only postpones the destructor to the end of the event.
- *The retry delay* of `Connector` and its doubling: a timer fires at any time.
- *`getLoopForHash()`, `getAllLoops()`* of `EventLoopThreadPool`, which only read.
- *Mutex, Condition, CountDownLatch, Atomic*: a critical section is one step, a
  wait is a place, and a notification moves a waiter, in the modules that use
  them.
- *BlockingQueue, BoundedBlockingQueue*: the two monitors of `ThreadPool`'s queue
  without its `stop()`; `run()` and `take()` are the same code with one condition
  more, and are modelled and proved.
- *HTTP*: a parser of text in one thread, driven by a connection's message
  callback; a model would repeat it character by character.
- *Protobuf codec and RPC*: generated code and reflection do most of the work. What
  is left is a table of outstanding calls behind one mutex.
- *Logging, LogStream, Timestamp, Date, TimeZone*: formatting and immutable values
  in one thread, without state that others see.
- *Sockets, addresses, process information, zlib, the inspector, examples and
  contrib*: wrappers of system calls, text, or programs that use the library.
- *The other libraries of the repository*, each a system of its own.

## 8. What could come next

1. `TcpServer` over several full `TcpConnection`s instead of their states, for a
   refinement between the two modules' views of one connection.
2. `RpcChannel`'s table of outstanding calls; `convert()` of `LogStream` and the
   Julian day of `Date` against reference definitions.
