# Verification of cppmsg

cppmsg (`src/msg`) is a C++ messaging library over TCP: an epoll reactor, a
pool of worker threads, a pipe per connection that performs queued read and
write tasks, and a message framing on top. This directory holds TLA+ modules of
its own code, configurations that model-check them with TLC, and theorems that
the TLA+ proof system checks. `PROJECT.json` maps every definition to source
lines.

## 1. The system

A user thread sends or receives a message on a *connection*. The connection
wraps the message in *I/O tasks* and puts them in one of the two lists of its
*pipe*. A pipe owns an *event*, the registration of its descriptor with epoll.
The *reactor*'s loop waits in `epoll_wait` and hands each report to the pipe's
callback, which queues a job in the *task pool*. A worker of the pool runs the
job: `doread`, `dowrite`, and at the end a new registration. *Status* objects
tell the loops how an I/O call ended. Failures that may pass put a resubmission
in the *timer*, which is a part of the reactor. Connections come from a
*listener* or a *connector*, which own events of the same loop; host names are
resolved to *addresses* by threads of their own. Messages may take their memory
from *arenas* of a pool.

| component (under `src/msg/src`) | state it keeps | operations | called by |
|---|---|---|---|
| pipe (`channel/pipe.*`) | `mtx`, `closed`, lists `reads` and `writes`, `backoff` | `add_read`, `add_write`, `remove_read`, `close`, `pipe_cb`, `doread`, `dowrite`, `resubmit_*` | users, loop, workers, timer |
| I/O tasks (`channel/iotask.*`) | buffers | `try_scatter_input`, `try_gather_output` and their callbacks | workers |
| event (`system/event.*`) | `mtx`, `evmask`, the registration in the kernel | `submit_*`, `consume`, `please_destroy_me` | users, workers, loop |
| status (`common/status.*`) | one heap block | constructor, copies, `code`, `is_*`, `str` | everywhere |
| task pool (`common/taskpool.*`) | job queue, condition variable, shutdown flag | `execute`, the detached workers, the destructor | loop, timer, resolver |
| reactor (`system/reactor.*`) | queue of callbacks, `closing` | `submit`, `submit_and_wake`, `eventloop`, `stop` | users, workers |
| timer (`system/timer.*`, timerfd in `fd.*`, `common/clock.*`) | priority queue, timerfd | `please_push`, `handle_expired_timeouts` | loop; users through the reactor |
| basic connection (`channel/connection.*`, `basic_connection.*`, `common/blockable.h`) | the pipe; one `blockable` per call | `sendmsg`, `sendmsg_async`, `recvmsg`, `recv_multipart_msg`, `close` | users |
| messages, arenas (`message.*`, `common/arena.h`) | chunk lists; a pool with a free list, a reap list and a reaper thread | `alloc`, `reset`, `ref`, `deref`, `recycle`, `enable`, `disable` | users, connection |
| resolver (`system/resolv.*`) | a request queue and `NrThreads` threads | `resolv_ipv4_sync`, `resolv_ipv6_sync`, `create_resolv_task` | users |
| addresses (`system/addr.*`) | 32 bytes: a family, a port, a host or a path | `init`, `set_port`, `==`, `addrcmp`, `to_posix`, `str` | resolver, endpoints |
| listener (`listener/*`) | `mtx`, `closed`, a socket and its event | `start`, `accept`, `close`, `listener_cb` | users, loop, workers |
| connector (`connector/*`) | `closed`, a socket and its event | `connect`, `close`, `connect_cb` | users, loop, workers |
| concurrent queue (`common/concurrentq.h`) | third-party lock-free queue | `enqueue`, `try_dequeue` | reactor |
| sessions, derived connections, log, `ilist` | none used by the library | | |

What is hard in it, component by component, and what makes it correct:

- **pipe.** `doread` and `dowrite` run in workers and release `mtx` around each
  `readv`/`writev`; meanwhile users add, remove and close, and other workers
  may serve the same pipe. Correct: a task in a list is never forgotten by
  epoll (no lost wakeup); one worker per direction; tasks leave a list only when
  performed, once, in order; the pipe is closed once, and when it must be.
- **event.** One-shot registration in the kernel, `evmask` in the process, and
  a `submit` that may fall between a report and its `consume`. `consume` runs a
  callback with `event::mtx` held, and callback and users take `pipe::mtx` and
  `event::mtx` in opposite orders. Correct: no flag gets lost, no deadlock, the
  object is deleted once and never while the loop holds a report of it.
- **status.** Three layouts are described in comments, a fourth is coded.
  Correct: a status is classified as what it was constructed as.
- **reactor, timer.** `stop` and `submit` race with `epoll_wait`; the timerfd
  must be set to the earliest timeout, whatever is already due, equal, or
  last in the queue. Correct: every callback runs, every timeout fires, once,
  not before it is due, and `stop` returns.
- **task pool.** `notify_one` comes after the unlock, the workers are detached,
  and jobs may never return. Correct: every job starts once, in order, and no
  worker sleeps on one.
- **basic connection.** Header and body are two tasks, the second added by the
  callback of the first; a `readv` or `writev` may be partial; `close` and
  illegal sizes race with the callback of the task. Correct: messages arrive
  whole and in order, a call returns, and success means what it says.
- **messages and arenas.** An arena goes from a message to a list, to the reaper,
  to another list, each under a lock of its own; `enable` and `disable` come at
  any time. Correct: an arena is in one place at a time, what `alloc` returns is
  aligned and nobody else's, and a disabled pool releases its memory.
- **resolver.** A thread signals a caller, or queues its callback in the task
  pool that connections may hold. Correct: one answer per request, the final
  one, and none starves.
- **listener, connector.** An event is registered before its owner knows it;
  `close` by a user races with `close` by the loop. Correct: an open listener is
  always watched, events die once, and a connect ends in one answer or a close.
- **addresses.** Equality and order compare what the family uses, the hash takes
  all bytes. Correct: a strict total order that agrees with equality, equal keys
  with equal hashes, and conversions that return what went in.

`PROJECT.json` lists every hazard at its line with the property that covers it.

## 2. Modules

| model | uses | checked by | proofs in |
|---|---|---|---|
| `Pipe` | `Event`, `Status` | `MCPipe` | `PipeProofs` |
| `PipeOrder` | `Pipe`, `TaskFifo` | `MCPipe` | `PipeOrderProofs` |
| `Reactor` | | `MCReactor` | `ReactorProofs` |
| `TaskPool` | `TaskFifo` | `MCResolver` | `TaskPoolProofs` |
| `Resolver` | `TaskPool` twice | `MCResolver` | `ResolverProofs` |
| `Connection` | | `MCConnection` | `ConnectionProofs` |
| `Arena`, `ArenaPool` | | `MCArena` | `ArenaProofs` |
| `Endpoints` | `Event` twice | `MCEndpoints` | `EndpointsProofs` |
| `Addr` | | `MCResolver` | `ResolverProofs` |

The MC modules hold model values and symmetry sets. How the models compose the
parts of the system:

- **Pipe** composes a pipe, its event, the loop and the task pool as one
  descriptor sees them, the timer's resubmissions, the socket and the peer.
- **Reactor** composes the loop, the threads that submit to it, and its timer:
  what the loop does between two `epoll_wait`s. It knows of a pipe only that it
  may be reported and may ask for its destruction.
- **Endpoints** composes a listener and a connector, each with its event, over
  the same loop and pool, and a network that joins the two.
- **Resolver** composes two instances of **TaskPool**, the resolver's threads and
  the task pool: a worker of the first is a caller of the second.
- **Connection** stands on Pipe: it uses what `PipeOrderProofs` shows of a pipe
  used in one direction, one worker and a FIFO, and adds the data.
- **TaskFifo** is the abstract specification of a queue: what is added is
  performed once, in the order of the calls. Both directions of Pipe (through
  **PipeOrder**) and both pools of Resolver implement it.

And one by one:

- **Status** models the block a status points to as a function from byte
  offsets to bytes. `NewState`, `Code` and the `Is...` operators are the constructor
  and the accessors, byte 4 against byte 8 included.
- **Event** models the object (`evmask`, the owner of `event::mtx` when it is
  held across steps) and the kernel's side (`armed`: the events epoll would
  report; `oneshot`: whether a report disarms). Its operators are used as parts
  of the actions of Pipe and of Endpoints.
- **Pipe**: a step is what happens
  between two points where another thread can be noticed: taking `pipe::mtx`,
  waiting for `event::mtx` while holding `pipe::mtx`, or an unlocked system
  call with the callback of its task.

  | state | code |
  |---|---|
  | `mtx` | the owner of `pipe::mtx` when held across steps |
  | `closed`, `reads`, `writes`, `backoff` | members of `pipe` |
  | `call[t]` | how far the user's `add_read`/`add_write` of task `t` is |
  | `lpc`, `ev`, `destroyq`, `deleted` | the event loop: batch, `cbq`, end of the event |
  | `deferred` | resubmissions that wait in the timer |
  | `pool`, `wpc`, `job`, `cur`, `res` | the task pool, each worker and its locals |
  | `arrived`, `taken`, `sent`, `drained`, `eof`, `err`, `hup`, `faults` | the socket |
  | `got` | which units of input filled which read task |

  | action | code |
  |---|---|
  | `AddRead`, `AddWrite`, `AddSubmit` | `add_*`, `doadd_*` and the submit on a list that was empty |
  | `RemoveRead` | the `remove_read` of `recvmsg` after an illegal size |
  | `Close` | `close`, `doclose` |
  | `EpollWait`, `EpollWake` | `epoll_wait` reports the descriptor, or the eventfd |
  | `ConsumeEvent`, `ConsumeClose` | `event::consume`, `pipe_cb`: queue a job, or close on EPOLLERR |
  | `DrainDestroy`, `DrainDone` | the callbacks of the loop's queue |
  | `TimerFires` | `backoff_routine` enters the task pool |
  | `TakeJob`, `StartJob`, `JobSubmits` | a worker and its job, from the lock to the last submit |
  | `ReadNext`, `Readv*`, `ReadDone` | `doread`: head of the loop, `readv`, the decision |
  | `WriteNext`, `Writev*`, `WriteDone` | `dowrite`, likewise |

  One unit of data stands for what one `readv` or `writev` moves, so a task is
  one unit. The kernel and the peer are modelled from how the library uses them:
  readiness, EAGAIN, end of stream, reset, EBADF after the descriptor was closed,
  and SIGPIPE, which ends the process because nothing in the library ignores it.
  `pop_front` of an empty list ends the process too (`crashed`).
- **PipeOrder** maps each direction of Pipe to TaskFifo: a performed task that
  still waits to be popped counts as gone, what the kernel took (or what the
  tasks were filled with, in stream order) is `done`.
- **Reactor**: the clock is an integer. The lock-free queue is a FIFO per producer, and a
  `try_dequeue` that finds the producers' queues empty one after another, which
  is all that queue promises.

  | state | code |
  |---|---|
  | `cbq` | `reactor::cbq`, a sequence of requests for each producer |
  | `eventfd`, `closing` | the counter of `eventfd_event` is not 0; `reactor::closing` |
  | `lpc`, `reports`, `seen` | the loop: its place, the batch, the producers this `try_dequeue` found empty |
  | `upc` | a user between the enqueue and the `wake()` of `submit_and_wake` |
  | `timeoutq`, `expire`, `interval`, `timerfd` | the priority queue, members of a timeout, what the timerfd is set to (0: disarmed) |
  | `stale` | what `top()` of an empty priority queue returns |
  | `clock` | `now()` |
  | `fired`, `asked`, `ran`, `late` | history: runs of a timeout, requests made, callbacks run, the clock has overtaken the loop |

  | action | code |
  |---|---|
  | `PleaseDestroyMe`, `PleasePush`, `Wake` | `submit_and_wake` by a user, of a callback or of a timeout (`defer`, `repeat`) |
  | `Stop` | `stop` before its `join` |
  | `EpollWait`, `EpollInterrupted` | `epoll_wait`, and its EINTR |
  | `ConsumeEventfd`, `ConsumePipe`, `ConsumeOther`, `ConsumeTimerfd` | `consume` of each report and what its callback does to the reactor |
  | `RunExpired`, `ExpiredOver`, `ResetTimerfd` | `handle_expired_timeouts`, turn by turn, and its last reset |
  | `BatchDone`, `RunRequest`, `FindEmpty`, `TurnDone` | the rest of a turn of `eventloop`; `RunRequest` contains `timer::push` |
  | `Tick` | time passes |

  `late` says when time outran the program: a timeout became due before it was
  in the timer, or the clock advanced between an expiry and the reset that
  follows. The first needs a delay shorter than one pass of the loop; the second
  happens to a one-shot timeout of any delay, when the millisecond clock ticks in
  the few instructions between its expiry and the reset. The code says
  nothing of either, so the properties are stated without them; section 3 says
  what happens then.
- **TaskPool** is the loop of `taskpool.cc`, and of `resolv.cc`, which is the same.
  No thread holds `mtx_` across two steps; `notify_one` is a step of its own.

  | state | code |
  |---|---|
  | `tasks`, `shutdown` | `tasks_`; `is_shutdown_`, and after that the freed `meta_` |
  | `wpc`, `job` | each detached thread: about to look at the queue, in `cond_.wait`, in a job, or out of its loop |
  | `cpc` | a caller between `emplace` and `notify_one` |
  | `started` | history: the jobs in the order they were taken |

  | action | code |
  |---|---|
  | `Execute`, `NotifyOne` | `execute`, before and after the unlock |
  | `Take`, `Wait`, `WakeSpuriously`, `Return`, `Exit` | the loop of a worker |
  | `SetShutdown`, `NotifyAll` | the destructor; after `NotifyAll` the threads use freed memory, and the model ends |
- **Resolver**: `at`, `copied` are a thread's place and its local `a`; `parsed`,
  `is_done` are the members of a request, `carried` is what the lambda of line 114
  captured, `answer` what the caller got. `Create`, `Notify`, `SyncReturn` are a
  caller; `Take`, `Resolv`, `Signal`, `ExecuteCallback`, `Return` a resolver
  thread; `PipeEvent` gives the task pool a job that waits for input and so never
  returns (see Pipe); `RunCallback` runs the callback of an asynchronous request.
  `getaddrinfo` finds an address or none, and nobody asks which.
- **Addr** holds `addr.cc` as operators on a record whose fields are the bytes cut
  where the code cuts them. `ResolvedV4` and `ResolvedV6` are what `resolv()`
  makes of the two kinds of result. Nothing in it has state of its own.
- **Connection** is two ends and the bytes between them, in units: a header, moved
  whole, or a part of a body.

  | state | code |
  |---|---|
  | `writes`, `wpc`, `scall`, `size` | the sender's list, its worker, each `sendmsg` and the size of its message |
  | `reads`, `rpc`, `rcall`, `failed` | the receiver's list of header, body and bulk tasks, its worker, each call, those that met an illegal size |
  | `closed`, `gone` | `pipe::closed` of each end; the descriptor closed |
  | `stream` | the units in the kernel |
  | `offered`, `written`, `delivered`, `astray` | history: the messages in the order of `add_write`, what was written of each, what receivers got, and whether they have lost track of where messages start |

  | action | code |
  |---|---|
  | `Send`, `SendReturns` | `sendmsg`, `sendmsg_async` |
  | `WriterStarts`, `Writev`, `WriteDone` | `dowrite`, `try_gather_output` and `on_success` |
  | `Recv`, `RecvReturns` | `recvmsg`, `recv_multipart_msg`, with the `remove_read` after an illegal size |
  | `ReaderStarts`, `ReadHdr`, `ReadBody`, `ReadBulk`, `ReadDone` | `doread`, `try_scatter_input` and the three `on_success` |
  | `Close`, `DeleteEvent` | `close`, and the end of the event in the loop |

  The sockets are nonblocking: a `readv` or `writev` moves all that it was given or
  any part of it (`ReadvMoves`, `WritevMoves`), and is a success either way. A message of which a
  `writev` took a part is `Torn`; a read that leaves a part of a body behind
  (`CutsBody`) or finds an illegal size leads receivers `astray`, and eight bytes
  inside a body that are taken for a header have any value. A header callback that
  comes after a close drops its body task, as `doadd_read` does. `OneReceiver`
  says whether users receive one after the other.
- **Arena** is `class arena` as a record and operators: its chunks, those freed by
  `reset` and still in the list included, `curchunk`, `curpos`. **ArenaPool** is
  the pool and the messages that use it.

  | state | code |
  |---|---|
  | `arena` | the arena of each identity |
  | `enabled`, `switching` | the flag; `disable` between its parts, while it has `enabledmtx` |
  | `freelist`, `reaplist`, `reaper`, `hand` | the lists; the reaper's place and the arena it recycles |
  | `meta` | each message: alive or in its destructor, its arena, size and blocks |
  | `late`, `switches` | history: what was on the way during the last `disable` |

  | action | code |
  |---|---|
  | `Create`, `UseArena`, `AppendChunk`, `Clear`, `DestroyPlain` | the constructors, `use_arena`, `append`, `clear`, the destructor |
  | `Deref`, `DerefPush`, `DerefNotify` | `arena_pool::deref`, lock by lock |
  | `ReaperTakes`, `ReaperWaits`, `Recycle` | the reaper thread |
  | `Enable`, `Disable`, `ReleaseFree`, `ReleaseReap` | `enable`, and `disable` lock by lock |

  A second free of a chunk and a use of a null arena end the program (`crashed`).
- **Endpoints**: `lmtx` is the owner of `listener::mtx`, held by `start` while it
  waits for `event::mtx`; `assigned` is whether `connector::e` is set; `accepted` counts
  connections and with them descriptors, which nobody closes, `faults` bounds the
  accepts that fail for reasons of the network or the kernel.

  | action | code |
  |---|---|
  | `UserStarts`, `UserSubmits`, `WorkerStarts`, `WorkerSubmits` | `start` with `accept`, and its submit, by a user and by the job of `listener_cb` |
  | `Accept` in them | `accept4` takes a connection; there is none (EAGAIN) or no descriptor (EMFILE); it is lost (ECONNABORTED) or stays (ENFILE, ENOBUFS); the socket was shut down (EINVAL), which closes the listener |
  | `UserCloses`, `ConsumeClose` | `listener::close`, by a user and by the loop |
  | `ConnectAtOnce` | `connect` when the connection is there at once: no event, and a descriptor nobody keeps |
  | `Connect`, `Assign`, `SubmitConnect` | `connect`: the registration, the assignment of `e`, the submit |
  | `ConsumeListener`, `ConsumeConnector`, `WorkerAnswers` | `consume` with `listener_cb`, `connect_cb`, and the latter's job |
  | `UserClosesConnector` | `connector::close` and the destructor, at any time: also of a connector without an event |
  | `EpollWait`, `EpollWake`, `ConsumeDone`, `Drain`, `DrainDone`, `TakeJob` | the loop and the pool |
  | `PeerArrives`, `ConnectSucceeds`, `ConnectRefused`, `ListenerError` | the network |

  A `connect` that fails at once changes nothing the connector knows, so it is no
  step: the connector is still new, and may be closed. A deleted or null event that
  is used makes the program do anything (`crashed`), or nothing.

## 3. Runs

Every number below is a constant in the `.cfg`. Deadlock checking is off in
every run: a connection that is idle, or was closed, has nothing to do, a
process may end, and a `crashed` program takes no further step. Those are correct
ends of a behaviour.

| run | what it asks | result |
|---|---|---|
| `pipe_duplex` | one task each way, the write asynchronous and the read one that may be rejected; two workers; the peer sends, shuts down, resets; a user closes; one I/O error; one backoff timer. `TypeOK`, `NoLostWakeup`, `EventOutlivesReports` | holds, 1.5 million states |
| `pipe_oneway` | three writes or three reads, never both (`OneWaySpec`), send buffer of one, end of stream and close at any time: `OneWorkerPerDirection`, `NoTaskDropped`, `WritesInOrder` and `ReadsInOrder` (refinements of TaskFifo), and, live, `EveryWriteIsSent`, `InputIsRead` | holds, 127 thousand states |
| `reactor` | one user (the loop is a second producer), two timeouts, one callback, delays 1 and 2, one-shot and periodic, clock 1..3, a `stop` at any time: `TypeOK`, `RequestsWakeTheLoop`, `ReportsStayTrue`, `TimerfdInTimeUnlessLate`, and, live, `CallbacksRun`, `TimeoutsFire`, `StopsAtNextWake` | holds, 161 thousand states |
| `connection` | two messages, sizes 0, 2 and an illegal 3, a `recvmsg` and a `recv_multipart_msg` one after the other in either order, transfers of any part, a close of either end at any time: `TypeOK`, `WholeMessagesInOrder`, `SuccessIsABarrier`, and, live, `SendsReturn`, `ReceivesReturn` | holds, 600 thousand states |
| `resolver` | a synchronous and an asynchronous request, two resolver threads, two pool threads, one job that keeps its thread for ever, the end of the process at any time: `TypeOK`, `NobodySleepsOnWork`, `OneFinalAnswer`, `PoolsAreFifos` (refinement), and, live, `EveryRequestIsAnswered`. It also evaluates the three ASSUMEs of `MCResolver` about addresses | holds, 395 thousand states |
| `arena` | two messages, three arenas of which the pool claims one, chunks of 28 bytes, blocks of 10 and 28, one `enable` and one `disable` at any time: `TypeOK`, `OneOwner`, `BlocksAreSound`, `DisabledHoldsLate`, `ReaperHears` | holds, 925 thousand states |
| `endpoints` | a listener started twice, a peer and a connector that connect to it, one descriptor to accept into, one accept that fails otherwise, two workers, closes, a refusal and a socket error at any time: `TypeOK`, `ListenerListens`, `EventsDieOnce`, `AnsweredOnce`, and, live, `EveryoneIsAccepted`, `ConnectsEnd` | holds, 314 thousand states |
| `lost_read` | two reads and a write: `NoTaskDropped` | violated |
| `lock_cycle` | a read, a write and a reset: `NoLockCycle` | violated |
| `eof_closes` | a read and a shutdown: `EndOfStreamCloses` | violated |
| `partial_io` | two messages and two `recvmsg`: `MessagesArriveWhole`, without the exceptions of `WholeMessagesInOrder` | violated |
| `stale_answer` | an asynchronous request: `CallbacksGetTheAddress` | violated |

The violated runs are disagreements between the code and what its comments say:

- **`lost_read`.** While a worker is in its unlocked `readv`, the submit at the
  end of another job (or of an `add_write`) arms EPOLLIN again. A second worker
  enters `doread`, performs the same task, and both pop: a task that was
  never filled is dropped and its `recvmsg` waits for ever.
- **`lock_cycle`.** The loop holds `event::mtx` and waits for `pipe::mtx` in
  `close`; a user holds `pipe::mtx` and waits for `event::mtx` in `submit`.
- **`eof_closes`.** The constructor of a status stores the code in byte 8,
  `code()` reads byte 4, which is a byte of the value and 0 in every status of the
  library. So no status is ever an error, a fault or a failure, only "not
  success", and `doread` and `dowrite` leave their loops only on an empty list: at
  the end of the stream a worker spins and the pipe is never closed.
- **`partial_io`.** A `writev` that moved a part of a message completes its task
  ("iov is fully transferred"), a `readv` that filled a part of a body completes
  the message: the rest is taken for the next header, and a `sendmsg` returns the
  success of a message that nobody will write.
- **`stale_answer`.** The resolver's thread copies `parsed_address` before it
  resolves, and gives the callback the copy.

### Observations without a run

Met while modelling; each is in the models as the code has it.

- Pipe. With a read task that waits for input a worker spins in `doread`, and the
  writes of the same job are never tried. `close` deletes the event and closes
  its descriptor while a worker may be in `readv` on it. A `recvmsg` that rejects
  a size removes its task before the worker has the lock again, and the worker
  pops the next one. The callback closes on EPOLLERR only: its test of EPOLLHUP
  sees flags from which the reactor has removed it. The copy constructor of a
  status loses the final 0 of the message.
- Reactor. `stop` does not wake the loop: it returns when something else does,
  which is what `StopsAtNextWake` says. A timeout that is due when the loop pushes
  it gives `timerfd_reset` a delay of 0, which disarms a timerfd: the loop sleeps
  with a due timeout in its queue. A delay below 0 is refused by `timerfd_settime`
  and the exception ends the process (`lpc = "dead"`); the reset at the end of
  `handle_expired_timeouts` gets there when the queue is empty, because it reads
  the timeout popped last. `TimerfdInTimeUnlessLate` is stated without these cases.
- Connection. With two users in `recvmsg` at a time (`OneReceiver` = FALSE) one
  takes the other's body for a header, and `WholeMessagesInOrder` is violated.
  An empty message never returns from `recvmsg`: its body is a `readv` into
  nothing, whose 0 is taken for the end of the stream (`EmptyBody` in
  `ReceivesReturn`). No timeout expires. "close of a connection will trigger
  on_failure(conn_close) of all its io_tasks" (`connection.h:19`), but `doclose`
  calls `on_pipe_closed`, which is empty and which no task overrides: `close` wakes
  nobody, and `SendsReturn` and `ReceivesReturn` are violated unless they except it.
- Task pool. The destructor frees what its detached threads wait in.
  `hardware_concurrency()` may be 0, and then no job ever runs.
- Arenas. `reset` frees all chunks but the first and leaves their pointers in the
  list, for the next `reset` or the destructor to free again; `clear` of a message
  without an arena resets a null one, and `recvmsg` clears every message that is
  not empty. Both set `crashed`.
- Listener. `listener_cb` closes with `event::mtx` held and `start` submits with
  `listener::mtx` held: the lock order of `lock_cycle` again, when the listening
  socket fails (`Deadlocked`). The accepted descriptor is neither kept nor closed. When
  none is left, `accept4` fails with EMFILE, the "back off 100ms and retry" is only
  a line of the log, and `start` submits again at once: loop and pool go round
  without end, and nobody is accepted. `EveryoneIsAccepted` is violated unless it
  excepts `accepted = MaxFiles`, and unless it excepts `Deadlocked`.
- Connector. The event is registered before `e` is set and before it is submitted:
  an error in between closes a null event, or one that is then submitted after its
  deletion. `close`, which the destructor calls, uses the null `e` also of a connector
  whose `connect` was not called, failed at once or succeeded at once; in the last
  two cases the descriptor stays open. `get_sockfd_err` returns no negative number, so that a refused connect
  is answered as a success. There is no retry: `reconnector` is empty.
- Addresses. `resolv` files an IPv6 host under `family_v4`; `init` of a unix
  domain socket throws in `set_port` before the path is set; equal addresses may
  hash apart (section 4). The constructor of `resolv_task` assigns the family to its
  own parameter (`resolv.cc:27`), so that the member stays uninitialised and the
  hint to `getaddrinfo` is any byte: the model covers it by letting every lookup find
  an address or none. A host that is not found leaves the address as it was,
  and its caller with a success.
- `sync_connect`, `try_connect` and `bind_listen` leave the descriptor open when a
  later call of theirs fails. `ilist::swap` of two adjacent nodes loses the links
  and `back()` returns the front; no code of the library uses that template.

### Why these bounds

The races of the pipe need two workers and at most two tasks of a
direction; a third task makes the FIFO runs tell "the front" from "the other
one" after a pop. A send buffer of one makes every second message meet EAGAIN.
One unit of data per read task lets each `readv` succeed and one more meet
EAGAIN. `MaxFaults` = 1 and `MaxDefer` = 1 reach the failure callbacks and one
resubmission; `MaxDefer` also holds a resubmission back while one is queued,
because otherwise the spinning loops would add timers without end. `pipe_duplex`
uses the symmetry of the two workers, `arena` that of arenas and messages; the
runs with temporal properties use none.
`BackoffGarbage` = {0}: with the loops as they are, no branch that writes or
tests `backoff` by its size is reached except `GivesUp`, whose other side only
removes a resubmission; the theorems allow any 16-bit value.

In `reactor`, two timeouts are enough for one that is earlier, later or equal,
on push and on expiry; the interval 1 refreshes one to before or after the
other. The clock ends at 3: no timeout is asked for beyond it, but a periodic
one may be refreshed past it and then stays in the queue. A second user would
add nothing but interleavings of independent queues, and theorem
`RequestsAreHeard` covers any number.

In `connection`, four units of room hold one whole message of 3 and the header
of the next, so that a writer waits for room and a bulk read ends after a header;
the sizes are one that is empty, one legal, one beyond `MaxSize` = 2. A legal body of two
units can be cut in the middle, by either side. One call of each kind meets what
the other has left in the stream; the theorems cover any number of messages and
calls. In `resolver`, two
threads of each pool are the fewest of which one can sleep while the other
works, and one endless job leaves one. In `arena`, chunks of 28 bytes and blocks
of 10 give one that fits after an alignment, one that overflows the chunk (10,
then 10 from offset 16, then one that does not fit), and one of a chunk's whole
size; `MaxTotal` = 38 allows three small blocks or one of each. One claimed arena
and two messages make `ref` take from the list and from `new`. One `enable` and
one `disable` are `MaxSwitches` = 2: the pool starts disabled, and a second round
would start from a state with the same lists. In `endpoints`, two workers and a
user make three threads in `start`, one of which holds the mutex; two connections
(the peer's and the connector's) and `MaxFiles` = 1 leave one pending for which
there is no descriptor, and `MaxFaults` = 1 makes every other failure of `accept4`
come before a success. That the listener goes on after an accepted connection is
`ListenerListens`, which `AlwaysListening` proves for any number.

### Fairness

`FairSpec` and `OneWaySpec`, used by the runs with a liveness property. Nothing is
assumed of users that have not called, of the peer's input, or of an end of the
process.

- Pipe: weak fairness of the event loop, of each worker and of each user call that
  already holds `pipe::mtx`: these are threads the operating system runs. Strong
  fairness of the steps that wait for a mutex: another thread may free and take it
  again and again, and a waiter gets it in the end. Weak fairness of the peer
  draining its side, without which a full send buffer stays full.
- Reactor: weak fairness of the loop, of time, and of a user between the enqueue
  and the `wake()`; strong fairness of a successful `epoll_wait`, which signals may
  interrupt but not every time.
- Connection: weak fairness of the two workers and of the users that were
  signalled. `SendsReturn` assumes that the kernel does not stay full, in the
  property itself.
- Resolver: weak fairness of every thread of both pools and of the callers that
  have made a request. `EveryRequestIsAnswered` is claimed only while fewer
  endless jobs than pool threads exist, and until the process ends.
- Endpoints: weak fairness of the loop, the workers and a `start` or `connect`
  under way; strong fairness where a thread waits for a mutex.

`arena` is a run of safety properties only. `eof_closes` is violated under
`FairSpec`: the starvation does not depend on the scheduler being unfair.

## 4. Proofs

The theorems hold for every value of the constants that the named ASSUMEs of the
model allow; where one needs more, it says so.

| module | theorem | says |
|---|---|---|
| `PipeProofs` | `TypeCorrect` | `Spec => []TypeOK` |
| | `WakeupsAreNotLost` | `[]NoLostWakeup`: while an open pipe has tasks of a direction, epoll watches for it, or a thread is on its way to ask |
| | `EventsOutliveReports` | `[]EventOutlivesReports` |
| | `NoFailureIsRecognized` | no status of `readv` or `writev` is an error, a fault or a failure to the loops |
| `PipeOrderProofs` | `WorkersTakeTurns` | `OneWaySpec => []OneWorkerPerDirection`, if no size is illegal (`BadTasks` = {}) and no socket fails (`MaxFaults` = 0, `~CanReset`) |
| | `NothingPoppedTwice` | no worker pops from an empty list (`[]~crashed`), same premises |
| | `TasksAreKept` | `NoTaskDropped`: what leaves a list was performed, same premises |
| | `WritesKeepOrder` | `OneWaySpec => WritesInOrder`, a refinement of TaskFifo, if no socket fails |
| | `ReadsKeepOrder` | `OneWaySpec => ReadsInOrder`, another, if no size is illegal |
| `ReactorProofs` | `TypeCorrect` | `[]TypeOK` |
| | `RequestsAreHeard` | `[]RequestsWakeTheLoop`: the loop never sleeps on a request unless its eventfd is readable or about to be |
| | `ReadsSucceed` | `[]ReportsStayTrue`: the reads of eventfd and timerfd never throw |
| | `TimerIsInTime` | `[]TimerfdInTimeUnlessLate` |
| `TaskPoolProofs` | `TypeCorrect` | `[]TypeOK` |
| | `WorkIsSeen` | `[]NoSleepOnWork`, for finite sets of workers and callers |
| | `JobsStayApart` | `[]JobsAreApart`: no two workers run one job, and no job is queued after it was taken |
| | `PoolImplementsFifo` | `Spec => JobsStartInOrder`, the refinement of TaskFifo |
| `ResolverProofs` | `TypeCorrect` | `[]TypeOK` |
| | `BothPoolsWork` | `[]NobodySleepsOnWork`, for finite sets of requests and threads |
| | `BothPoolsAreFifos` | `Spec => PoolsAreFifos` |
| | `AnsweredOnceAndFinally` | `[]OneFinalAnswer` |
| | `OrderIsStrictAndTotal` | `addrcmp` is a strict total order and agrees with `operator==` |
| | `ConvertsBack` | `init` and `to_posix` return what went in, whatever was there before |
| | `PathIsNeverSet` | `init` of a unix domain socket always throws |
| | `HostsOfV6AreConfused` | an IPv6 host resolves to the IPv4 address of its first four bytes |
| | `EqualMayHashApart` | there are equal addresses of different hashed bytes |
| `ConnectionProofs` | `TypeCorrect` | `[]TypeOK`, for transfers of any length and receivers at the same time |
| | `SuccessIsBarrier` | `[]SuccessIsABarrier`: when a `sendmsg` returns success, its message and all before it have been through their `writev` |
| | `WholeMessages` | `[]WholeMessagesInOrder`, if the users receive one after the other (`OneReceiver`) |
| `ArenaProofs` | `TypeCorrect` | `[]TypeOK` |
| | `OneOwnerAlways` | `[]OneOwner` |
| | `ReaperAlwaysHears` | `[]ReaperHears` |
| | `OnlyLateArenas` | `[]DisabledHoldsLate` |
| | `BlocksStaySound` | `[]BlocksAreSound`, for `Align` = 8 |
| `EndpointsProofs` | `TypeCorrect` | `[]TypeOK` |
| | `AlwaysListening` | `[]ListenerListens` |
| | `DeletedOnce` | `[]EventsDieOnce` |
| | `AnswerGivenOnce` | `[]AnsweredOnce` |

Assumptions on the constants (`PipeAssumption`, ...): sets of tasks, jobs and
threads that are of different kinds are disjoint, bounds and sizes are natural
numbers, delays positive, backoff 16 bits. TLC evaluates each of them in the runs
of the MC module that extends its model.

**Pipe.** `NoLostWakeup` alone is not inductive: it speaks of what epoll
watches, and `submit` replaces that by `event::evmask`, which it does not
mention. The invariant `IInv` is `TypeOK` and

- `CoverInv`: a direction with tasks is under watch **and** in `event::evmask`,
  unless someone is on the way to submit: the loop with a report it has not
  consumed, a queued or running event job, or a user between its `push_back`
  and its `submit`. A `submit` for the other direction then keeps it; a report
  and `consume` may take it away only because an event job follows;
- `JobInv`: a worker in `resubmit_write` has a job of the backoff timer, so that
  every event job ends in `dosubmit_both` and none ends with half of it;
- `DestroyInv`: `EventOutlivesReports`, and a deleted event is not registered, so
  that epoll reports it no more.

Each part has a lemma over the actions (`TypeNext`, `CoverNext`, `JobNext`,
`DestroyNext`); `Inductive` puts them together. `DestroyNext` rests
on `NoFailureIsRecognized`: `doread` and `dowrite` call `doclose` without testing
`closed`, and that is harmless only because they never get there. If `code()`
were repaired, the proof would fail at exactly that step.

**PipeOrder.** One worker per direction is not inductive either: it says nothing of
the next report. `OrderInv` follows the *right* to perform the tasks of a list. In
one-way use it is in one place at a time (`Chain`): epoll watches for the flag, or
the loop has a report of it, or the task pool has the job, or one worker has it,
or one user is about to submit; and while it is anywhere the list has a task,
unless the worker holds the lock and is about to find out. A user therefore
submits only when it found the list empty, with nobody else at it, and the
one-shot registration, not the mutex, keeps a second worker away. Hence
`AtFront`: when the worker is back from its `readv` or `writev`, the task it
took is still the first of the list, and has been performed if the call
succeeded. The other parts are who holds `pipe::mtx` (`PlaceInv`), that a call to
come is nowhere yet (`NewInv`), that a direction nobody has used is silent
(`UnusedInv`), that without failures only a closed pipe has backoff timers
(`DeferInv`), and that each unit read is in the buffers of one task (`UnitsInv`).
The premises are not for convenience. An illegal size makes `remove_read` take out a
task which the worker pops as well (reading only). A socket that fails makes
the backoff timer call `resubmit_write`, which asks for output although a worker
may be at it (writing only). `Spared` attaches each premise to the direction that needs it, so that
`ReadsKeepOrder` holds through faults and resets. Without one-way use the run
`lost_read` refutes `NoTaskDropped`. For the refinements, a step is matched with
TaskFifo: `AddRead` and `AddWrite` add, `ReadvData` and `WritevData` perform, and
the pop that follows is a stutter because the abstract queue has already lost
the task.

**Reactor.** `IInv` is `TypeOK`, `ReportsStayTrue` and

- `PlaceInv`: outside the batch there are no reports, and outside the emptying
  of the queue no producer counts as found empty;
- `WakeInv`: `RequestsWakeTheLoop` extended to the whole turn. A request may be
  in the queue without a wake-up only while the loop will still look at that
  producer: before the emptying, or in it and not yet found empty. This is why
  reading the eventfd *before* the queue is right: the request enqueued after
  its producer was found empty comes with a `wake()` nobody has consumed;
- `TimerInv`: every queued timeout was asked for, and, unless the clock has
  overtaken the loop, the loop is alive, the timerfd is set to no later than any
  timeout in the queue (or the loop is in the expiry, which will reset it), and
  no request waiting for the loop is due.

**TaskPool, Resolver.** `NoSleepOnWork` counts: jobs against awake workers and
pending notifications, while somebody sleeps. With `TypeOK` it is inductive; each
step moves one worker or one caller, and the cardinalities of the sets they
leave and enter change by one, which is why they must be finite. A job is taken
once because `JobsAreApart` is: it is queued once, and never both queued and
started. Resolver instantiates TaskPool twice; every step of it is shown to be a
step, or a stutter, of each instance (`ResolvPoolStep`, `TaskPoolStep`), and the
theorems of the pool are then cited for both. Its own invariant adds `AtInv` (a
thread has a place in a task exactly while the pool says it runs one), `DoneInv`
(a request that is done was taken, and no thread is before or in the step that
writes its address any more), `SyncInv` (its caller has the address it holds) and
`AsyncInv` (an answered request has left the task pool's queue, and no worker
runs its callback), and for the last two that the jobs of both pools are apart.

**Connection.** `SuccessIsABarrier` speaks of messages that have left the list. Two
parts of the invariant carry it: `OfferedInv` (every message was offered once, the list
holds the last of them) and `WrittenInv` (of those before the list, and of the first in
it while its worker is about to pop it, at least the header was written), with
`SignalledInv`: a message whose sender was signalled is one of these. It holds for whole and torn
messages alike, because the code cannot tell them apart; that success does not
mean *written whole* is said in section 3.

`TypeOK` needs `ReadsInv`: a call has one task in the list, or its header task at the
front and the body task that this has added, and of a call that failed only the
task about to be popped; so that `remove_read` never empties the list under a
worker in its `readv`. It also needs the type of `Cut`, which is recursive.

`WholeMessagesInOrder` speaks of what has arrived; `WholeInv` says where the rest is:

- `OfferedInv`, `WrittenInv`, as above;
- `StreamInv`: every header in the stream belongs to a message that was written,
  behind it comes as much of its body as was written of it, and behind that the
  header of the next message, or the end of the stream if that was the last one
  (`MessageAt`, `Follows`);
- `DeliveryInv`: unless the receivers are `astray`, no call has failed and one of four
  things holds. They are `Between` messages: the stream starts with the header
  after the q-th message and the non-empty ones of the first q were delivered,
  while the list has at most one task that starts a message. Or `Within` the
  q-th, whose body is at the front of the stream, and the task at work, or next, is
  a body task of exactly its size. Or `Stopped`: their end is closed, the body task
  was dropped, and nothing is read any more. Or `Lost`: a torn message has been
  reached. What comes before it was delivered in its place and stays so, and what
  comes after it is not promised.

A step of the sender lets `Follows` and `MessageAt` stand (`FollowsGrow`,
`MessageGrow`), a read of n units shifts them by n (`FollowsShift`, `MessageShift`),
`SelectedStep` adds one message to those delivered, and `CutWhole` shows that a bulk
read from a header on, unless it leaves a part of a body behind, is cut into the
messages that were there, up to a torn one. With two receivers at once
`Between` fails: two header tasks in the list, and the body that belongs to the first
is read by the second.

What `Cut` computes is shown without induction rules over operators. `LeastElement`
(every non-empty set of naturals has one) comes from the library's theorem that
strict inclusion of finite sets is well-founded, applied to the intervals `0..x`;
`InductOnNat` follows from it for *sets*; and each use names the set of the k for
which the statement holds of all positions less than k from the end. `CutExists` builds
the function the recursive definition chooses in the same way, and `CutStepLocal`
says why it may: the value at a position depends on later ones only.

**Arena.** `PoolInv` is `TypeOK`; every arena that exists has a first and a current chunk
of the regular size, neither freed, and `curpos` inside it (`ArenasSound`);
messages without an arena, or in their destructor, have no blocks (`Blockless`); `OwnInv`, which says
`OneOwner` list by list, free of the set of places; `ReaperHears`; and `LateInv`,
`DisabledHoldsLate` extended to the middle of a `disable`: what a disabled
pool holds outside the list that is still to be released is in `late`.
`BlockInv` rests on it: every block of a message is usable in its arena, apart from
the others, and, in the current chunk, below `curpos`; other actions keep it
because the message is the only owner of its arena. The lemma `Aligned` does
modular arithmetic that the solver knows for a fixed modulus only, hence
`Align` = 8, the value the code has.

**Endpoints.** `IInv` is `TypeOK`, `ListenerListens`, `EventsDieOnce` and
`SubmitInv` (between `accept` and the submit a thread has `listener::mtx` and the
listener is open), `BatchInv` (reports are in the batch only, and EPOLLERR only of
a failed socket), `DestroyInv` (what is queued for deletion or gone is closed, is
in one of the two, and epoll does not report what is gone) and `AnswerInv`: the
answer of a connect is in one place at most, the registration, the report, the
queue or a worker, and in none once it was given; with the one-shot registration
that makes `AnsweredOnce` inductive.

**Addr** (in `ResolverProofs`). `Less` compares lists; `LessIsLex` writes it out as lexicographic orders
of two, three and four numbers, and the rest is arithmetic.

Only model-checked: the liveness properties, which rest on fairness and `ENABLED`
(`EveryWriteIsSent`, `InputIsRead`, `CallbacksRun`, `TimeoutsFire`, `StopsAtNextWake`,
`SendsReturn`, `ReceivesReturn`, `EveryRequestIsAnswered`, `EveryoneIsAccepted`,
`ConnectsEnd`). Every safety property of the passing runs is the statement of a
theorem.

## 5. What is not modelled

- `common/concurrentq.h`, a third-party lock-free queue, and `googletest`, vendored
  with the library: most of the lines of `src`. The models use the queue as
  what it promises, a FIFO for each producer. What is left, the library's own
  code, is some 2900 lines, a good part of which are declarations, logging,
  formatting and placeholders.
- `remove_write`, `clear_*`, `read`, `write`, `resubmit_read` and
  `resubmit_both` of the pipe, `set_cb` of the event, the destruction of a
  timeout: no code of the library calls them.
- The reactor's `join`; what the library does after the destructor of a
  pool, which is undefined; objects that are destroyed while a worker still uses
  them (`this` in the callbacks), because nothing in the code waits for it.
- The build of messages without arenas, which is `new` and `delete`; contents of
  messages, except in Connection.
- `getaddrinfo`, socket options, signals, conversions of the clock, formatting.
- `sync_connect`, `bind_listen`, `sync_accept`: sequences of blocking calls without
  state. Classes without behaviour: sessions, `ack_connection`,
  `checksum_connection`, `healthcheck_connection`, `pingpong_connection`,
  `reconnector`, `msgpool.h`. `ilist`, which nothing instantiates.
- Faults the library does not handle are not in the models either: nothing is
  persisted, so there is no recovery from a crash, and TCP neither loses nor
  reorders what a connection carries.

## 6. What could be added

1. Connection over the actions of Pipe instead of its abstraction, for duplex use;
   with it, the theorems of PipeOrder could be cited in a refinement proof.
2. What of `OneWorkerPerDirection` and the order of the tasks survives duplex use: the
   write direction of a pipe whose reads never overlap a submit, for example.
3. The header, which Connection moves whole, cut into bytes as well: eight bytes may
   be split like any others.
