# A TLA+ verification of phxrpc

phxrpc is a C++ RPC framework: an HTTP server built as a half-synchronous,
half-asynchronous unit (one IO thread that runs a uthread per connection, and a
pool of worker threads), a client library on the same uthreads, and a code
generator. The modules here specify the concurrent core of `src/phxrpc`, the
start of a server, the calls of a client, and the generators of `src/codegen`.
TLC checks them on small instances, and TLAPS proves the theorems of the
`*_proofs` modules for every value of the constants.

## 1. Inventory

### Components, their state and their operations

| component | state | operations | what makes it correct |
|---|---|---|---|
| `ThdQueue` (`rpc/thread_queue.h`) | `queue_`, `mutex_`, `cv_`, atomic `size_`, `break_out_` | `push`, `pluck`, `break_out`, unlocked `size`/`empty` | no lost wake-up, no lost or repeated value, the unlocked reads are safe to act on |
| `DataFlow` (`rpc/hsha_server.cpp`) | an in-queue and an out-queue | `PushRequest`, `PluckRequest`, `PushResponse`, `PluckResponse`, `CanPushRequest`, `CanPluckResponse`, `BreakOut` | queue bound; the IO thread never blocks |
| `Timer` (`network/timer.cpp`) | `timer_heap_`, and in each socket its `timer_id` | `AddTimer`, `RemoveTimer`, `PopTimeout`, `GetNextTimeout` | heap order, positions and ids agree, nothing expires early |
| `UThreadRuntime` (`network/uthread_runtime.cpp`) | `context_list_`, the list of finished slots, `current_uthread_`, the count of the unfinished | `Create`, `Resume`, `Yield`, `UThreadDoneCallback` | a slot is used again only when its uthread has finished; the count is exact |
| `UThreadEpollScheduler` (`network/uthread_epoll.cpp`) | `todo_list_`, the epoll set, the timer heap, `closed_`, the handlers | `AddTask`, `Run`, `ConsumeTodoList`, `DealwithTimeout`, `ResumeAll`, `Close`; `UThreadPoll`, `UThreadWait` | the uthread resumed for a socket is the one that waits on it; every wait ends; `Run` returns when all is done |
| `EpollNotifier` | a pipe | `Notify`, its uthread | a response does not wait longer than one `epoll_wait` |
| `HshaServerAcceptor` | the accepted fd | `LoopAccept` | connection limit |
| `HshaServerIO`, `HshaServerUnit` | `accepted_fd_list_` | `AddAcceptedFd`, `HandlerAcceptedFd`, `IOFunc`, `ActiveSocketFunc` | every fd, request, response and socket structure is freed exactly once; an answer reaches the request it is for |
| `Worker`, `WorkerPool` | thread, `shut_down_` | `Func`, `Shutdown`, the destructors | every plucked request is answered; shutdown ends |
| `HshaServerStat`, `HshaServerQos` | atomic counters, averages, reject rate | counters, `CalFunc`, `CanAccept`, `CanEnqueue` | `hold_fds_` exact; no division by 0; refusing ends when the load does |
| `HshaServer` | `server_unit_list_` | constructor, `RunForever` | every unit has a worker, and together they have all |
| socket streams | get and put areas, the socket structure | `underflow`, `sync`, `Attach`, `DetachSocket` | no byte lost or sent twice; the socket freed once |
| HTTP (`http/`) | message, headers | `RecvReq`, `RecvResp`, `SendReq`, `SendResp` | messages on one connection stay in step |
| client calls (`rpc/uthread_caller.cpp`, `http_caller.cpp`, the generated `PhxBatchEcho`) | the calls and their results, `closed_`, the response they may share | `AddCaller`, `MultiCall`, `Call`, `Close` | each call ends, is called back once, and its result tells why it failed |
| configuration (`file/config.cpp`, `rpc/server_config.cpp`) | the text of a file, fields read once | `InitConfig`, `ReadItem`, `Read` | what is read is what the file says |
| code generator (`src/codegen`) | the generated files and the times make compares | four generators, the generated Makefile | files of different versions fit together; work by hand is kept; client and server agree on the methods |
| monitors, logs | none | interfaces, printers | pure output |

### How they interact

The acceptor thread accepts an fd, checks `hold_fds_`, appends the fd to
`accepted_fd_list_` of a unit and then increments `hold_fds_`. The IO thread of
the unit runs `UThreadEpollScheduler::Run`. One iteration is `epoll_wait`, a
`Resume` per event, `ActiveSocketFunc` (responses of the workers),
`HandlerAcceptedFd` (new fds become tasks), `ConsumeTodoList` (tasks become
uthreads), `DealwithTimeout`. A uthread runs `IOFunc`: it reads a request, pushes
it with its socket *pointer* into `in_queue_`, waits in `UThreadWait`, and writes
the response. A worker plucks the pair, dispatches, pushes the response with the
same pointer into `out_queue_` and notifies the epoll. The pointer is the only
link between response and connection. The workers and the IO thread add up how
long requests waited in the queues; the thread of `HshaServerStat` averages that
once a second, and the thread of `HshaServerQos` sets from the averages the share
of requests the IO thread refuses. On the client side a scheduler runs one
uthread per call until all have ended or one calls `Close`. When the wait for a
worker times out first, the uthread gives the socket up (`UThreadLazyDestory`) and `ActiveSocketFunc` frees it with
the late response.

### What is hard here

* threads that read `size_`, `hold_fds_` and the fd list and act on them later;
* a worker's answer racing the timeout of the uthread that waits for it, with a
  socket structure whose memory may be used again;
* slots of uthreads that are used again while sockets still carry their index;
* a timer heap that is searched by positions each socket has to keep up to date;
* wake-ups that are lost or spurious, and shutdown while threads sleep;
* a control loop over two threads and unsynchronised fields;
* calls that share `errno`, a response message and the decision to stop;
* generators that die, or are overtaken by an edit, between two of the files that
  have to fit together.

`hazards` in `PROJECT.json` lists them one by one with their lines.

## 2. Modules

```
BlockingFifo   <--implements--  ThdQueue         <-- ThdQueue_proofs
ThdQueue       <--extends----   WorkerPool       (ThdQueue twice: in and out)
                                WorkerPool       <-- WorkerPool_proofs (extends ThdQueue_proofs)
TimerSet       <--implements--  Timer            <-- MCTimer, Timer_proofs
UThreadRuntime <--extends----   UThreadEpoll     <-- MCUThreadEpoll
UThreadEpoll   <--extends----   ClientCalls      <-- UThread_proofs   (proves about all three)
HshaUnit       <-- MCHshaUnit, HshaUnit_proofs   (uses the promises of BlockingFifo and TimerSet)
Config         <--extends----   HshaServer       <-- MCHshaServer, HshaServer_proofs
TcpStreamBuf, HttpConnection    <-- Connection_proofs (HttpConnection uses the promise of TcpStreamBuf)
CodeGenerator  <-- MCCodeGenerator, CodeGenerator_proofs
```

* **ThdQueue.** A step is one access to the shared state. `PushEnqueue` and
  `PushIncr` are separate, as are `PluckDecr` and `PluckPop`, because `size()` is
  read between them. `cv_.wait` is `PluckWait`, `SpuriousWakeup`, `PluckRelock`.
  The two ways `DataFlow` uses a queue are parameters: a *gated* producer has
  read `size() < max` before it pushes, a *polling* consumer has read `!empty()`
  before it plucks. `taken` is a history variable.
* **BlockingFifo.** The abstract queue: no mutex, no counter, no condition
  variable. The refinement maps `queue_` to the abstract queue.
* **Timer.** Every iteration of `heap_up` and `heap_down` is a step; `pos` and
  `obj` are the hole and the object that is lifted out. The environment actions
  (`Suspend`, `ResumeByEvent`, `CloseSocket`, ...) are the callers in
  `uthread_epoll.cpp`, in the order in which they call. The removal of the last
  element, which leaves a stale `timer_id`, is translated with its result.
* **WorkerPool.** Both queues of a unit with the threads between them: the
  variables of `ThdQueue` are those of `in_queue_`, an instance of it is
  `out_queue_`, so the workers are consumers of the one and producers of the
  other. Every step of a thread is a step of one of the queues, conjoined with
  what `Worker::Func` or the destructor of the pool does around it. Requests are
  numbered, so that one that is lost or answered twice shows. The destructor
  calls `Shutdown` and deletes one worker after the other, as the code does; each
  call of `break_out` is a closer of `ThdQueue`.
* **TimerSet.** The promise of the heap: each uthread arms one timer, one that an
  event resumes removes its own and no other, and what expires is an earliest
  timer that is due. A timer with no timeout may expire when it is the only kind
  left, see section 6.
* **UThreadRuntime.** The slots and the linked list of finished ones. Resume and
  Yield set the status on a *copy* of the slot, so no stored status is RUNNING.
  `finished` is a history variable: the stack that the linked list stands for.
* **UThreadEpoll.** The scheduler as a client uses it, on top of
  `UThreadRuntime`: each action is a phase of `Run` or a step of a uthread up to
  the point where it yields, conjoined with the action of the runtime that it
  calls. `batch` is what is left of the events that `epoll_wait` reported, or of
  the list that `ResumeAll` copied.
* **HshaUnit.** Acceptor, IO thread and workers with every access to shared data
  a step; the IO thread runs at most one uthread at a time and goes through the
  phases of `Run` in order. Socket structures are cells that are freed and used
  again; requests and responses are named by connection and number.
* **Config.** `ReadItem` as an operator over the lines of a file, with the places
  it starts and stops at, and beside it what such a file means, said without a
  search (`Says`, `Has`, `WellFormed`).
* **HshaServer.** A server from its configuration file on. The main thread reads
  the file, constructs `HshaServerStat` and `HshaServerQos`, whose threads start
  before their fields are initialised, divides the workers over the units and
  listens. Then each read and each store of the two `CalFunc` is a step, beside
  the steps of requests that add to the counters. `slow` says whether requests
  wait; from some moment on they need not (`Calm`). The share of refused requests
  decides only whether `CanEnqueue` can succeed, and what it lets through is what
  is averaged next.
* **ClientCalls.** `MultiCall` and `PhxBatchEcho` on `UThreadEpoll`. Every wait and
  every resumption of a call is a step of `UThreadEpoll`; between two waits the
  call is `Open`, `Send`, `Flush`, `Recv` and `RecvRest` with what the peer and the
  kernel may do. A call waits as often as it has to: a request goes out in up to
  `MaxPieces` pieces (`unsent`), an answer comes in any number. `RecvRest` is the end
  of an answer without Content-Length, which `RecvBody` reads until the stream is at
  eof: whatever ends that read, a timeout and `Close` included, the answer is parsed
  and its header gives the result, any number the peer has written there (`Results`).
  `errno` is one variable for all the calls. `cause` is a history variable.
* **CodeGenerator.** The text of a file is the methods it declares, defines and
  calls and the table it holds: one operator per renderer, a function of the
  version of the proto file. Where the compiler compares the messages of a method
  (stub, client, service, handler, and the calls of them) a method is its name with
  its messages (`Methods`); the functions of the dispatcher and of the tool all have
  the same parameters and go by name (`Names`). Generated code includes the header of
  the client by its generated name, also after the programmer has renamed it
  (`FindsClientHeader`). The state is which version each file was written
  from, whether it is complete, and whether it holds work by hand; opening and
  closing a file are separate steps of a generator, and it may die between them.
  make compares the time of a header with that of the proto file (`newer`), as
  the rules of the Makefile do. `suspect` is a history variable: the generators
  that have begun to write and have not come to the end with the proto file that
  was saved by then.
* **TcpStreamBuf.** The put area of a stream at one end of a connection, the
  bytes on the wire, and the get area at the other end. `PSend(ret)` is one call of
  `psend` in the loop of `sync`, `Underflow(ret)` one `precv`; how many bytes a
  call moves, and when it fails, is the kernel's choice. `written`, `got` and
  `flushed` are history variables.
* **HttpConnection.** Client and server of one connection. What `TcpStreamBuf`
  delivers is a sequence of tokens, the lines of a message and the units of its
  body, and each receiver finds the end of a message the way `RecvBody` does.
  Both ends run the same receiving actions, as in the code. The server is the loop
  of `IOFunc`; the client calls again on the same stream, also after a call that
  failed. A flush that fails has sent any part of the message.

Two facts about the standard library are assumed by the last two modules: the
flags of a stream are kept until they are cleared, which this code never does,
and a `bad()` stream does not call `sync` again when it is flushed (LWG issue 581;
a library without it sends the put area, whose first pieces are already on the
wire, once more).

## 3. Runs

| run | instance | what it shows |
|---|---|---|
| `worker_pool` | 1 IO thread, 2 workers, in-queue bound 2, at most 3 requests | `SizeNeverOverstates`, `NoLostWakeup`, the bound and the refinement of `BlockingFifo` for the in-queue while it is used by its real threads; `IOThreadNeverWaits`: the IO thread never sleeps in `PluckResponse`; `AnsweredOnce`; `DestructorEnds` |
| `timer` | 6 sockets, timeouts 1, 2 and none | `HeapExact`, `TimersFollowSockets`, `NeverEarly` and the refinement of `TimerSet` |
| `timer_truncation` | 2 sockets, 4 instead of 2^32 values of `int` | a violation: see section 6 |
| `hsha_unit` | 3 connections, 2 at a time, 2 workers, queue bound 1, 2 requests each | `SocketPointersValid`, `AnswerMatchesRequest`, `Accounted` (memory, fds, `hold_fds_`) and `Limits` in every interleaving |
| `hsha_unit_live` | 2 connections, 1 worker, 1 request each | `EverythingReturned`: every fd is closed and every message freed |
| `uthread_epoll` | 4 tasks, any number of waits, one `epoll_wait` failure | `ResumesTheWaiter`, `WaitersReachable`, `ReturnsWhenAllDone`, the list of slots and the count |
| `client_calls` | 2 calls, any number of waits, requests in up to 2 pieces, one of them larger than the buffer, one `epoll_wait` failure | `CalledBackOnce`, `ResultTellsTheCause`, `EchoAnswerKept`; `TimedWaitsEnd`: waits with a timeout end; `CallsEnd`: so does every call whose own peer does not send pieces of an answer without end |
| `http_connection` | 3 calls, bodies of 0 to 2 units | `RequestsIntact`, `AnswersMatch`; `OnlyEmptyAnswersStall`: the only way in which both ends wait for each other |
| `http_chunked` | 2 calls, chunks on a kept-alive connection | a violation: see section 6 |
| `hsha_server` | all files of 3 of 12 lines under one of 3 beginnings, then one of them served with 2 requests, averages over 2 waits, 4 parts instead of 100 | `ConfigMeans`: what is read is what the file says; `UnitsExact`; `DivisorCounted`; `RejectionEnds`: refusing ends once the queues are short |
| `code_generator` | 3 versions of a proto file, `pb2server` and `pb2client` run by hand as well as by make, one death, one edit by hand | `OnlyStaleCodeBreaksTheBuild`, `RoutesAgree`, `HandWorkSurvives` |
| `tcp_stream_buf` | areas of 2 bytes, 5 bytes written | `NothingLostOrRepeated`, `FlushedIsSent` |

Why these bounds are enough to be of use:

* two sleeping workers and one producer are what a lost notification needs, and
  two workers what a shutdown one by one needs: the second one spins on the
  broken queue while the first is joined. Three requests let each worker hold one
  while the queue is not empty;
* `RemoveTimer` moves an object *up* only when it fills a hole in another
  subtree: the smallest heap with that shape has six objects. Clock and timeouts
  are small because only the order of deadlines matters;
* three connections with a limit of two and two workers let a cell be freed and
  used again while a late answer for its old user is still with a worker;
  `MAX_ACCEPT_QUEUE_LENGTH` is 0 so that its boundary is met;
* three calls let a late answer meet the call after the next; bodies of two units
  are cut in the middle by a send that fails;
* areas smaller than what is written make `overflow` call `sync`, and a `sync` of
  two bytes can fail between them;
* the configuration files have every order of three lines: the section may be in
  the first line, missing, or cut by another one, a key may come twice, be a bare
  word or the beginning of a longer word, and the numbers may be negative, zero or
  larger than the number of workers. Only the file of the fixed lines can be bound
  and goes on to serve requests, which keeps the two questions apart;
* averages of two waits let a worker add to the sum between any two steps of the
  stat thread; with a share in 4 parts that changes by 2 the bound below the whole
  is met from below and the bound 0 from above;
* two calls are one that ends well and closes, and one that is closed at any point;
  two pieces of a request let a send fail at its beginning and in its middle;
* the proto file gets a method whose name differs from another's in case only, then
  loses one and gives another one other messages; a make after each version, a death in between and one edit by hand
  give every mixture of two versions. Of the generators that make runs, one is
  run by hand as well, which is enough to have it run, die or be overtaken while
  make would not have run it;
* four tasks let a slot be used for a third uthread while two others wait, with
  one of them in a batch of events.

Symmetry is declared only where no liveness is checked. Deadlock is checked except
where the system may stop: `worker_pool` (after the destructor), `uthread_epoll` and
`client_calls` (`Run` returns), `hsha_server` (a process that ends at start-up),
`http_connection` and `tcp_stream_buf` (connections end). Bounds of the model, as
opposed to constants of the code, are marked in the modules: `MaxPush`, `MaxTime`,
`MaxRequests`, `MaxBlocks`, `MaxPieces`, `MaxErrors`, `MaxCalls`, `MaxBody`,
`MaxWritten`, `MaxCount`, `MaxDeaths`, `MaxEdits`.

### Fairness

* *Threads that are inside a call go on* (weak fairness of each thread's steps).
  The operating system schedules them. In `WorkerPool` a worker and the destructor
  have strong fairness, because a broken queue lets the other worker take and
  release the mutex without end: a thread that waits for a mutex that is free
  again and again obtains it. The destructor need not be called and requests need
  not come.
* *The scheduler loop goes round*: `epoll_wait` has a limit of 4 ms.
* *A timer that stays armed becomes due.* In `HshaUnit` this is strong fairness of
  `Timeout`, which is enabled only in `DealwithTimeout`, where the loop passes again
  and again. In `UThreadEpoll` and `ClientCalls` it is `TimersRunOut`: if the loop
  passes there again and again, no timer with a deadline stays armed for ever. No
  more than that is justified: every wait arms its timer anew with the whole timeout,
  so the timer of a uthread whose events come in time is never due.
* *The loops of statistics and QoS wake up*: their `wait_for` ends after a second.
  Clients of `HshaServer` keep sending; that the queues become short (`Calm`) is
  not assumed but the premise of `RejectionEnds`.
* Of the peers of a client nothing is assumed, but that none sends its answer without
  end *and* without a pause in which the call would have to wait. A peer that sends
  a piece within each timeout keeps its call, and so its `MultiCall`, for ever:
  `CallsEnd` has that as its exception, and says that the other calls end
  nevertheless. Of the clients of a server `hsha_unit_live` assumes that each sends
  finitely many requests in finitely many pieces (`MaxRequests`, `MaxBlocks`), since
  the server is kept by such a client in the same way; the hazards say so.

## 4. Proofs

Every theorem is about the specification that the runs check, for all values of
its constants, from the assumptions named with it. A safety property is proved the
same way each time: an inductive invariant of named parts, `Init => Inv`,
`Inv /\ [Next]_vars => Inv'` with one step per action, and `Inv => property`.
`theorems` in `PROJECT.json` lists the results; the rest are lemmas.

| module | inductive invariant | theorems (the property of a run) |
|---|---|---|
| `ThdQueue_proofs` | `IInv`, `BrokenInv` | `TypeCorrect`, `SizeIsSafe` (`SizeNeverOverstates`), `GateBounds` (`SoleGatedProducerBound`), `PollerIsNeverBlocked` (`SolePollerNeverWaits`), `WakeupsAreNotLost` (`NoLostWakeup`), `RefinesFifo` |
| `WorkerPool_proofs` | `PoolInv` | `PoolUsesTheQueues`, `PoolWakeups` (`NoLostWakeup`), `IOThreadIsNeverBlocked` (`IOThreadNeverWaits`), `RequestsAreAnsweredOnce` (`AnsweredOnce`) |
| `UThread_proofs` | `RuntimeInv`, `EInv`, `CInv` | `TypeCorrect`, `FreeList`, `Count`, `SchedulerUsesTheRuntime`, `TheWaiterIsResumed` (`ResumesTheWaiter`), `NoWaiterIsForgotten` (`WaitersReachable`), `RunReturnsWhenAllDone` (`ReturnsWhenAllDone`), `EveryCallIsCalledBack` (`CalledBackOnce`), `ErrnoTellsTheCause` (`ResultTellsTheCause`), `TheEchoIsKept` (`EchoAnswerKept`) |
| `HshaUnit_proofs` | `UInv` | `PointersStayValid` (`SocketPointersValid`), `AnswersReachTheirRequest` (`AnswerMatchesRequest`), `EverythingIsAccounted` (`Accounted`), `LimitsAreKept` (`Limits`) |
| `Timer_proofs` | `TInv` | `HeapIsExact` (`HeapExact`), `TimersAreTheWaiters` (`TimersFollowSockets`), `NothingExpiresEarly` (`NeverEarly`), `RefinesTimerSet` (`ImplementsTimerSet`) |
| `HshaServer_proofs` | `SInv` | `TheDivisorIsCounted` (`DivisorCounted`), `EveryUnitHasWorkers` (`UnitsExact`), `ReadsWhatTheFileSays` (`ConfigMeans`) |
| `Connection_proofs` | `BufInv`, `HInv` | `BufTypeCorrect` (`BufTypeOK`), `StreamIsFaithful` (`NothingLostOrRepeated`), `FlushIsHonest` (`FlushedIsSent`); `RequestsArriveIntact` (`RequestsIntact`), `CallsGetTheirAnswers` (`AnswersMatch`), `StallsNeedAnEmptyAnswer` (`OnlyEmptyAnswersStall`) |
| `CodeGenerator_proofs` | `IInv` | `CallsAreServed` (`RoutesAgree`), `BuildsUnlessStale` (`OnlyStaleCodeBreaksTheBuild`), `NothingByHandIsLost` (`HandWorkSurvives`) |

**ThdQueue**, from `QueueAssumption` (the roles are disjoint, the bounds are
naturals) and `FiniteAssumption` (there are finitely many threads).
`SizeNeverOverstates` is not inductive: that `size_` is exact when the mutex is free
follows only from who holds it and what that thread has done. `IInv` has types;
`MutexInv` (a thread is in a critical section exactly when it holds the mutex);
`SizeInv` (the counter is one behind between the two writes of push or pluck);
`CheckedInv` (what pluck's tests establish still holds at `pop`); `GateInv` and
`PollInv` (what a *sole* gated producer or polling consumer has read is still good
when it acts, because only it could make it worse). `NoLostWakeup` compares the
cardinalities of two sets of threads, so a step is described by which thread it
takes out of one set and puts into another; it needs `BrokenInv` (once the queue is
broken, consumers sleep only until `notify_all` has run) because a consumer that
leaves a broken queue takes nothing. `RefinesFifo`: every step is a step of
`BlockingFifo` or stutters (its safety part).

**WorkerPool**, from these and `PoolAssumption` (one closer per worker, since each
calls `break_out` once). Every step of the pool is a step of `ThdQueue` for the
in-queue, or leaves it alone, and the same for the out-queue
(`PoolUsesTheQueues`), so `IInv` of both holds without being proved again. This
needs `WorkerInv` (a worker is in the out-queue only while it pushes) and
`CloserInv` (a worker that is deleted finds a closer that is idle). A request is
counted where it may be: in the in-queue, with a worker, in the out-queue, taken;
`AnsweredOnce` is the sum, so each move needs what `Append` and `Tail` do to the
number of positions at which a value occurs.

**UThreadRuntime and UThreadEpoll**, the runtime without assumptions about the
constants, the scheduler from `EpollAssumption` (its bounds are naturals). The
linked list of finished slots is compared with the stack `finished`;
`RuntimeTypeOK`, `FreeListExact` and `UnfinishedExact` are inductive together and
not one by one: the head of the list is an index only because the links are those of
the stack, a uthread that ends is not already on the list because only finished
slots are, and the count stays natural because it is a cardinality. Each step of the
scheduler is one of the runtime's (`SchedulerUsesTheRuntime`), so this invariant
carries over. On top of it `EInv` has `SlotInv` (slots in use and started tasks are
one to one: a slot that is used again must not have two owners), `TodoInv`,
`PhaseInv` (who may be in a batch of events, and when) and `WaitInv` (every socket
that is registered, armed or in a batch names the slot of its waiter). A stale
`uthread_id` is harmless because the socket of a finished wait is in none of
the three.

**ClientCalls**, from the same and `CallsAssumption`. Every step of the calls is one
of `UThreadEpoll`, except the next `MultiCall` of the same caller, for which `EInv`
is shown again. `PlaceInv` ties the place of a call to what its task does, `CpuInv`
says that a call that does not wait is the one on the thread, and `FailInv` what the
loops that end the waits leave behind: a call resumed without its event is on its way
to its end, so `ResumeAll` needs to resume each only once, but for the second flush.
Such a call fails, and leaves the response message alone, unless it reads the rest of
an answer (`"receiving_rest"`), which it then takes for complete.
`ResultTellsTheCause` is part of the invariant: `errno` is shared, and what a call
reads was written for it because no other call ran in between.

**HshaUnit**, from `UnitAssumption` (the limits are naturals, `None` is no connection
and no cell) and `NullAssumption` (`None` is no message and no job). The proof rests
on an abstraction of a connection's program counter, `Stage`, which says what memory
its uthread uses. `RunInv` has one uthread running and the lists apart; `CountInv`
says that `hold_fds_` is exact but for the increment under way, and that what the
acceptor has read of it is still good when it acts; `JobInv`, that no job is in two
places and no two jobs are for one request or use one cell; `NumInv`, that a late
answer is for an earlier request than the one being read; `CellInv`, that a cell is
live exactly as long as a stream owns it or a late answer needs it, and that a
connection whose cell was destroyed has ended; `MsgInv`, that what is allocated is
what somebody still frees. None of these is inductive alone: a late
answer may free its cell only because no other job points to it (`JobInv`), a uthread
its own only because its answer has come and no job is left (`CellInv`), and the
answer that comes belongs to the request being waited for only because late ones
point to destroyed cells.

**Timer**, from `TimerAssumption` (times are naturals, and the bound of the clock is
less than the deadline that stands for none). Between the
iterations of a loop the array is no heap: `OrderInv` is the order with a hole. While
an object moves up, only it may be earlier than its parent; while one moves down, only
its children may be earlier than it; and the children of the hole fit under its
parent, so the loop may go on either way. `IdsExact` lets the object in the hole be
at no position. `SocketInv` says who has a timer and what a stale `timer_id` may be:
that of a running uthread is no position of the heap for as long as it runs.
`DeadlineInv` bounds the distance of finite deadlines, which makes the narrowing to
`int` harmless for them. That the front is the earliest of all is an induction from
an object to its parent; it is done with the least position at which a smaller
deadline stands (`LeastElement`, from the well-foundedness of `<`). With it
`RefinesTimerSet` is proved step by step: the loops stutter, and `PopTimeout` takes
an earliest timer.

**Config and HshaServer**, from `ServerAssumption` (a file is a sequence of lines, the
rate and the parts are positive). `UnitsInv` says what the constructor has built so
far: units that are alike until the last one takes the rest; that the rest is
positive needs that there are no more units than workers. The sum over all units is
a recursive function; it is compared with a closed form at the least index at which
the two differ. `CountsInv` needs no lock because only the stat thread sets a count
back. `ConfigMeans` is proved for one step from any file: the line at which the search
stops is in the section that the last header before it names, because a well-formed
file has one header of that name. The type invariant bounds the share that is refused
only for a `FastRejectAdjustRate` that is not negative: nothing in the code excludes
a negative one.

**TcpStreamBuf**, from `StreamAssumption` (the areas have at least one byte). Its invariant
`BufInv` adds one conjunct to the properties, `NothingSentYet`: while the stream is
good and no `sync` runs, nothing of the put area is on the wire. Without it `sync`,
which begins at `pbase()`, could send bytes twice; it holds because a `sync` that fails
leaves the stream bad for ever. Every action that moves bytes has a lemma of its own,
which cuts a sequence in two (`Cut`, `HeadAndTail`) and appends a part to the next
one (`Concat`, `Assoc`).

**HttpConnection**, from `ConnectionAssumption` (the bounds are naturals) and, as a
hypothesis of each theorem, `~ChunkedKeepAlive`: with it true the first property is
false, see section 6. None of the three properties says anything of a message that is
half read, so the invariant does: `ServerReads` and `ClientReads` give each end the
one message it may be in, and `InMessage` says that what is on its way is what follows
the first `c` tokens of that message, and that the receiver has made of those what they
say (`Parsed`). `CallsInv` counts the calls. Each wire carries at most one message,
because a client that has not failed waits for the answer; after a failure nothing
more is sent, so the part of a request that was flushed has nothing behind it that
could complete it. The messages themselves are met only through `Frame`, what a
receiver relies on: where the header ends, that its fields agree with the body, where
the chunk ends. That requests and answers have a frame is proved once (`RequestFrame`,
`ResponseFrame`), and that each step of the receiver moves on in any frame once for
both ends (`HeaderStep`, `BodyStep`). An end that has a whole message before it blocks
only at its end (`BlocksAtTheEnd`), which leaves the empty answer.

**CodeGenerator**, from `ProtosAssumption` (a proto file is a sequence of methods with
different names, none of them a name the renderers add) and `ByHandAssumption` (what
is run by hand is one of the four generators); nothing is assumed about `Fold`, so the
client and the server agree with each other however names are folded. Methods may be
added, removed and given other messages from one version to the next. `RunInv` says
what the generator that runs has behind it: the files it passed are there, and those
it rewrites are of its version. When it ends with the proto file that is saved, this
becomes `FreshInv`: all it writes belongs to its header. `RoutesAgree` is then a matter
of the renderers: stub and dispatcher hold the entries of one version, and what is not
rewritten is served by the service or its default. `HandInv` has what
`HandWorkSurvives` needs, that no file which is rewritten is ever edited by hand and
that the header of the client has one of its two names.
`OnlyStaleCodeBreaksTheBuild` compares the methods of four files with their messages;
that nothing else can break the build is what `MethodsOf` (what each renderer writes)
says together with the versions of the files. Of how they came to these versions the
property says nothing, so
`NoDeathInv` does, as long as no generator died: only the file being written is not
whole (`WholeInv`), a generator leaves all its files behind, but for those that
`make clean` takes (`PresentInv`), files that are rewritten together or edited together
are of one version (`VersionInv`), and make has found or written what it builds
from (`MakeInv`). That the four lists have no file in common (`PlanDistinct`) keeps the
files of the others as they were while one generator writes. All of it is stated over
`source`, the files as a generator finds them, for which the renaming of `client.h`
changes nothing; that the compiler does not find it any more comes in only at the end
(`HeaderByName`). A generator opens the *first* file it does not skip, which is the
least element of a set (`LeastElement`).

Only model-checked: liveness, which is out of the prover's reach. These are
`EverythingReturned`, `DestructorEnds`, `TimedWaitsEnd`, `CallsEnd`, `RejectionEnds`,
and the fairness of `ImplementsFifo`. Every invariant and every action property of a
passing run is stated by a theorem.

## 5. Not modelled

* ucontext switches, stacks, the Boost and Darwin plugins: machine state;
  a switch is taken to do what its name says.
* logging and monitors, with the counters that only they read (the requests, bytes
  and failures per second, `worker_idles_`): pure output.
* the keys of the configuration that are copied to a field and decide nothing
  modelled here, and `OptMap`, the command line of the tool.
* the destructors of `HshaServer` and `HshaServerUnit`: the generated main never
  reaches them, and the thread they join runs `RunForever`.
* in the code generator: the wording of the text, make with several jobs and the
  times of object files, messages that are removed from the proto file (a message
  that was declared once stays declared, so old code of a method that is gone or has
  other messages now still compiles by itself), and the converters of the old XML format
  (`svrkit_xml2mkdefine.cpp`, `phxrpc_xml2proto.cpp`), which print a file once.
* blocking streams (`BlockTcpStream`): the thread waits in the kernel, nothing is
  shared. `UThreadAccept` is called only by a test, `WriteFile` only by a monitor.
* contents of messages: only their identity matters to the server unit.
* several units, and the rate at which `NotifyEpoll` is throttled: a notification
  only makes `epoll_wait` return earlier, and the models let it return any time.
* in HTTP: the HEAD method, status 304, continuation lines of headers, URL encoding
  and lines longer than the receiver's buffer.

## 6. Findings

**A timer without a timeout can expire.** `Timer::GetNextTimeout` (`src/phxrpc/network/timer.cpp:148`) narrows the 64-bit
distance to the first deadline to `int`. A socket armed with timeout -1 has the
deadline 2^64 - 1; in each millisecond in which the low 32 bits of the distance
are zero the heap's front counts as due and its uthread is resumed as if it had
timed out. `timer_truncation` shows it with 4 in place of 2^32. What holds is
`NeverEarly`: a *finite* timeout, which fits `int`, never expires early.

**The end of a chunked message stays on the wire.** The comment at
`src/phxrpc/http/http_proto.cpp:310` refers to section 19.4.6 of RFC 2616, whose
procedure reads, after the chunk of size 0, the lines up to the empty one. `RecvBody`
leaves its loop at the chunk of size 0 (line 331). If the connection is kept alive
the empty line becomes the start line of the next request, whose own start line is
then read as a header: `http_chunked`. The clients of this repository do not send
chunks, so between themselves client and server stay in step (`http_connection`,
where chunked requests close the connection).

Not a disagreement with any text of the repository, but worth knowing:
`OnlyEmptyAnswersStall` is as strong as it can be. An answer without content
carries no Content-Length, the client reads it until the server closes, and a
server that keeps the connection alive does not: that call lasts until one of the
two times out, and read-until-close then reports success.

So are the conditions that properties above had to be given:

* `RoutesAgree` excludes a generator of stub or service that began to write and has not
  since come to its end with the saved proto file: it still runs, died, or was
  overtaken by an edit. The Makefile compares the proto file with the header only,
  which is written first. Another run of that generator or `make clean` mends it.
* `CalledBackOnce` excludes a call whose request does not fit into the buffer of the
  stream: after `Close` its failed send may wait once more in `flush`, and
  `ResumeAll` resumes every socket once.
* `EchoAnswerKept` allows an answer that the same `epoll_wait` reported to overwrite
  the first good one after `Close`. It also allows that to a call which `Close` finds
  while it reads the rest of an answer without Content-Length: `RecvBody` takes the
  failed read for the end of the answer, so `Call` parses it into the message that
  all the calls of `PhxBatchEcho` share.
* `ReturnsWhenAllDone` counts uthreads, as `Run` does: a task that the last uthread
  adds from `DealwithTimeout`, after which nothing but the count is tested, is left in
  `todo_list_` for the next `Run`.
* `ResultTellsTheCause` says nothing of an answer: its X-PHXRPC-Result may be -202 or
  -303, and an answer that a timeout or `Close` cut short counts as one.
* `CallsEnd` excludes a call whose peer sends pieces of its answer without end, see
  the fairness above.
* `OnlyStaleCodeBreaksTheBuild` excludes a client that has a method which the stub does
  not have, or has with other messages, and the same for the tool and the client:
  both are written once and then left to the programmer. It also excludes code that
  includes the header of the client after `pb2client` was told to do without it by
  renaming it to `.hpp`: the tool, whose `tool.cpp` is rewritten with that `#include`
  by every run, and a client whose code was not changed by hand.
* `ConfigMeans` is about well-formed files. With a word that begins with a key before
  the key itself, `ReadItem` searches the same place for ever (`Hangs`).

## 7. Plan

Done, in this order: ThdQueue and its proofs; Timer; HshaUnit; UThreadRuntime
and its proofs; UThreadEpoll; TcpStreamBuf and its proofs; HttpConnection;
CodeGenerator; ClientCalls; WorkerPool; Config and HshaServer.

Then the proofs: the wake-ups of ThdQueue and the pool on both queues; the scheduler
on the runtime and the calls on the scheduler; HshaUnit; the timer heap and its
refinement; the start of a server; the messages of a connection; the versions of
generated files.

Nothing of the plan is left. Liveness would be the next thing to prove, with a prover
that knows fairness.
