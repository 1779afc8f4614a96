------------------------------ MODULE HshaUnit ------------------------------
(***************************************************************************)
(* One unit of the half-sync half-async server (rpc/hsha_server.cpp) with  *)
(* the acceptor: the acceptor thread hands connections to the IO thread,   *)
(* the IO thread runs one uthread (IOFunc) per connection, and the worker  *)
(* threads answer the requests the uthreads put into in_queue_.            *)
(*                                                                         *)
(* The three kinds of threads interleave at every access to what they      *)
(* share: hold_fds_, the list of accepted fds, in_queue_ and out_queue_.   *)
(* The queues are used through the promises of ThdQueue (BlockingFifo).    *)
(* Within the IO thread the scheduler loop decides who runs: at most one   *)
(* uthread, until it yields (Running), and the phases of one iteration of  *)
(* UThreadEpollScheduler::Run follow in the order of the code.             *)
(*                                                                         *)
(* Memory is modelled by what it can go wrong with: UThreadSocket_t        *)
(* structures live in cells that are freed and used again, HttpRequest and *)
(* HttpResponse objects are in the sets requests and responses while they  *)
(* are allocated, and open holds the connections whose fd is open.         *)
(***************************************************************************)
EXTENDS Integers, Sequences, FiniteSets

CONSTANTS
  Conns,           \* connections clients open, each once
  Cells,           \* addresses calloc may return for a UThreadSocket_t
  Workers,         \* the worker threads of the unit
  MaxConnections,  \* HshaServerConfig::GetMaxConnections()
  MaxQueueLength,  \* HshaServerConfig::GetMaxQueueLength()
  MaxAcceptQueue,  \* MAX_ACCEPT_QUEUE_LENGTH
  MaxRequests,     \* bound of the model: requests a client sends on one connection
  MaxBlocks,       \* bound of the model: waits for the peer during one message
  None             \* a null pointer, or nobody

ASSUME UnitAssumption ==
  /\ None \notin Conns \cup Cells
  /\ MaxConnections \in Nat
  /\ MaxQueueLength \in Nat
  /\ MaxAcceptQueue \in Nat
  /\ MaxRequests \in Nat \ {0}
  /\ MaxBlocks \in Nat

VARIABLES
  accept_pc,         \* LoopAccept: idle, check, add, count
  accepted_fd,       \* the connection it has just accepted, or None
  hold_fds,          \* hold_fds_, the atomic counter
  accepted_fd_list,  \* accepted_fd_list_ of the unit, under queue_mutex_
  todo_list,         \* todo_list_ of the scheduler
  phase,             \* which part of Run the IO thread is in
  events,            \* connections epoll_wait reported and Run has not resumed
  pc,                \* IOFunc of each connection
  socket,            \* IOFunc's stream: the cell it owns, or None
  blocks,            \* times IOFunc has waited for the peer in this message
  reqno,             \* requests read from the connection so far
  cell,              \* the UThreadSocket_t structures
  in_queue,          \* in_queue_: pairs of socket pointer and request
  out_queue,         \* out_queue_: pairs of socket pointer and response
  worker,            \* Worker::Func of each worker: where it is, what it holds
  requests,          \* allocated HttpRequest objects
  responses,         \* allocated HttpResponse objects
  open               \* connections whose fd the server has open

acceptVars == <<accept_pc, accepted_fd>>
memoryVars == <<cell, requests, responses, open>>
ioVars     == <<todo_list, phase, events, pc, socket, blocks, reqno>>
queueVars  == <<in_queue, out_queue>>
vars == <<acceptVars, hold_fds, accepted_fd_list, ioVars, memoryVars,
          queueVars, worker>>

\* The n-th request of a connection; its response carries the same name.
Message == Conns \X (1..MaxRequests)

\* What travels through the queues: the socket pointer of QueueExtData and the
\* request or response.
Job == [sock : Cells, msg : Message]

\* A null pointer is neither of these.
ASSUME NullAssumption == None \notin Message /\ None \notin Job

\* A cell: allocated or free, the fd it is for, uthread_id = -1, and args.
CellType == [live : BOOLEAN, conn : Conns \cup {None}, destroyed : BOOLEAN,
             args : Message \cup {None}]

FreeCell == [live |-> FALSE, conn |-> None, destroyed |-> FALSE, args |-> None]

Phases == {"events", "active", "accept", "todo", "timeout"}

\* Where IOFunc can be when its uthread is suspended, and while it runs.
Suspended == {"recv_wait", "wait", "send_wait"}
RunningPC == {"recv", "parsed", "admitted", "woken", "send", "exit", "destroy"}
ConnPC    == {"new", "listed", "todo", "done"} \cup Suspended \cup RunningPC

WorkerPC == {"pluck", "dispatch", "respond", "delete"}

Idle == [at |-> "pluck", job |-> None]

Init ==
  /\ accept_pc = "idle"
  /\ accepted_fd = None
  /\ hold_fds = 0
  /\ accepted_fd_list = <<>>
  /\ todo_list = <<>>
  /\ phase = "todo"
  /\ events = {}
  /\ pc = [c \in Conns |-> "new"]
  /\ socket = [c \in Conns |-> None]
  /\ blocks = [c \in Conns |-> 0]
  /\ reqno = [c \in Conns |-> 0]
  /\ cell = [a \in Cells |-> FreeCell]
  /\ in_queue = <<>>
  /\ out_queue = <<>>
  /\ worker = [w \in Workers |-> Idle]
  /\ requests = {}
  /\ responses = {}
  /\ open = {}

\* The uthread that runs on the IO thread, if any.
Running == {c \in Conns : pc[c] \in RunningPC}

-----------------------------------------------------------------------------
(* HshaServerAcceptor::LoopAccept *)

Accept(c) ==
  /\ accept_pc = "idle"
  /\ pc[c] = "new"
  /\ accept_pc' = "check"
  /\ accepted_fd' = c
  /\ open' = open \cup {c}
  /\ UNCHANGED <<hold_fds, accepted_fd_list, ioVars, cell, requests, responses,
                 queueVars, worker>>

\* close(accepted_fd); continue;
RejectAccepted ==
  /\ accept_pc' = "idle"
  /\ accepted_fd' = None
  /\ open' = open \ {accepted_fd}
  /\ pc' = [pc EXCEPT ![accepted_fd] = "done"]
  /\ UNCHANGED <<hold_fds, accepted_fd_list, todo_list, phase, events, socket,
                 blocks, reqno, cell, requests, responses, queueVars, worker>>

\* HshaServerQos::CanAccept() fails.
TooManyConnections ==
  /\ accept_pc = "check"
  /\ hold_fds >= MaxConnections
  /\ RejectAccepted

\* Mutant of CanAccept: the limit is compared with <=.
CanAcceptOffByOne ==
  /\ accept_pc = "check"
  /\ hold_fds <= MaxConnections
  /\ accept_pc' = "add"
  /\ UNCHANGED <<accepted_fd, hold_fds, accepted_fd_list, ioVars, memoryVars,
                 queueVars, worker>>

CanAccept ==
  /\ accept_pc = "check"
  /\ hold_fds < MaxConnections
  /\ accept_pc' = "add"
  /\ UNCHANGED <<accepted_fd, hold_fds, accepted_fd_list, ioVars, memoryVars,
                 queueVars, worker>>

\* AddAcceptedFd: the list is longer than MAX_ACCEPT_QUEUE_LENGTH.
AcceptQueueFull ==
  /\ accept_pc = "add"
  /\ Len(accepted_fd_list) > MaxAcceptQueue
  /\ RejectAccepted

AddAcceptedFd ==
  /\ accept_pc = "add"
  /\ Len(accepted_fd_list) <= MaxAcceptQueue
  /\ accepted_fd_list' = Append(accepted_fd_list, accepted_fd)
  /\ pc' = [pc EXCEPT ![accepted_fd] = "listed"]
  /\ accept_pc' = "count"
  /\ UNCHANGED <<accepted_fd, hold_fds, todo_list, phase, events, socket, blocks,
                 reqno, memoryVars, queueVars, worker>>

\* hold_fds_++, after the IO thread may already have the connection.
CountAccepted ==
  /\ accept_pc = "count"
  /\ hold_fds' = hold_fds + 1
  /\ accept_pc' = "idle"
  /\ accepted_fd' = None
  /\ UNCHANGED <<accepted_fd_list, ioVars, memoryVars, queueVars, worker>>

-----------------------------------------------------------------------------
(* UThreadEpollScheduler::Run: one iteration of the loop.  A phase ends only *)
(* when no uthread runs.                                                     *)

\* epoll_wait, which returns after 4 ms at the latest, reports any of the
\* connections that wait for their peer.
EpollWait ==
  /\ phase = "timeout"
  /\ Running = {}
  /\ phase' = "events"
  /\ events' \in SUBSET {c \in Conns : pc[c] \in {"recv_wait", "send_wait"}}
  /\ UNCHANGED <<acceptVars, hold_fds, accepted_fd_list, todo_list, pc, socket,
                 blocks, reqno, memoryVars, queueVars, worker>>

\* The peer is ready: UThreadPoll returns and the stream goes on.
Event(c) ==
  /\ phase = "events"
  /\ Running = {}
  /\ c \in events
  /\ events' = events \ {c}
  /\ pc' = [pc EXCEPT ![c] = IF @ = "recv_wait" THEN "recv" ELSE "send"]
  /\ UNCHANGED <<acceptVars, hold_fds, accepted_fd_list, todo_list, phase, socket,
                 blocks, reqno, memoryVars, queueVars, worker>>

EventsDone ==
  /\ phase = "events"
  /\ Running = {}
  /\ events = {}
  /\ phase' = "active"
  /\ UNCHANGED <<acceptVars, hold_fds, accepted_fd_list, todo_list, events, pc,
                 socket, blocks, reqno, memoryVars, queueVars, worker>>

\* ActiveSocketFunc on a response whose uthread still waits: it gets the
\* response and runs.
ActiveSocket ==
  LET job == Head(out_queue)
      a   == job.sock
  IN
  /\ phase = "active"
  /\ Running = {}
  /\ out_queue # <<>>
  /\ ~cell[a].destroyed
  /\ out_queue' = Tail(out_queue)
  /\ cell' = [cell EXCEPT ![a].args = job.msg]
  /\ pc' = [pc EXCEPT ![cell[a].conn] = "woken"]
  /\ UNCHANGED <<acceptVars, hold_fds, accepted_fd_list, todo_list, phase, events,
                 socket, blocks, reqno, requests, responses, open, in_queue, worker>>

\* Mutant of LateResponse: the response is not deleted.
LateResponseLeaks ==
  LET job == Head(out_queue)
      a   == job.sock
  IN
  /\ phase = "active"
  /\ Running = {}
  /\ out_queue # <<>>
  /\ cell[a].destroyed
  /\ out_queue' = Tail(out_queue)
  /\ open' = open \ {cell[a].conn}
  /\ cell' = [cell EXCEPT ![a] = FreeCell]
  /\ UNCHANGED <<acceptVars, hold_fds, accepted_fd_list, ioVars, requests,
                 responses, in_queue, worker>>

\* ActiveSocketFunc on a response that comes after the timeout: the fd that was
\* left open for it is closed, the structure and the response are freed.
LateResponse ==
  LET job == Head(out_queue)
      a   == job.sock
  IN
  /\ phase = "active"
  /\ Running = {}
  /\ out_queue # <<>>
  /\ cell[a].destroyed
  /\ out_queue' = Tail(out_queue)
  /\ open' = open \ {cell[a].conn}
  /\ cell' = [cell EXCEPT ![a] = FreeCell]
  /\ responses' = responses \ {job.msg}
  /\ UNCHANGED <<acceptVars, hold_fds, accepted_fd_list, ioVars, requests,
                 in_queue, worker>>

\* CanPluckResponse() is false.
ActiveDone ==
  /\ phase = "active"
  /\ Running = {}
  /\ out_queue = <<>>
  /\ phase' = "accept"
  /\ UNCHANGED <<acceptVars, hold_fds, accepted_fd_list, todo_list, events, pc,
                 socket, blocks, reqno, memoryVars, queueVars, worker>>

\* HandlerAcceptedFd drains the list while it holds queue_mutex_.
HandlerAcceptedFd ==
  /\ phase = "accept"
  /\ todo_list' = todo_list \o accepted_fd_list
  /\ accepted_fd_list' = <<>>
  /\ pc' = [c \in Conns |-> IF pc[c] = "listed" THEN "todo" ELSE pc[c]]
  /\ phase' = "todo"
  /\ UNCHANGED <<acceptVars, hold_fds, events, socket, blocks, reqno, memoryVars,
                 queueVars, worker>>

\* ConsumeTodoList starts IOFunc: CreateSocket, Attach, and the first request.
StartTask ==
  LET c == Head(todo_list) IN
  /\ phase = "todo"
  /\ Running = {}
  /\ todo_list # <<>>
  /\ todo_list' = Tail(todo_list)
  /\ \E a \in Cells :
       /\ ~cell[a].live
       /\ cell' = [cell EXCEPT ![a] = [live |-> TRUE, conn |-> c,
                                       destroyed |-> FALSE, args |-> None]]
       /\ socket' = [socket EXCEPT ![c] = a]
  /\ reqno' = [reqno EXCEPT ![c] = 1]
  /\ requests' = requests \cup {<<c, 1>>}
  /\ pc' = [pc EXCEPT ![c] = "recv"]
  /\ UNCHANGED <<acceptVars, hold_fds, accepted_fd_list, phase, events, blocks,
                 responses, open, queueVars, worker>>

TodoDone ==
  /\ phase = "todo"
  /\ Running = {}
  /\ todo_list = <<>>
  /\ phase' = "timeout"
  /\ UNCHANGED <<acceptVars, hold_fds, accepted_fd_list, todo_list, events, pc,
                 socket, blocks, reqno, memoryVars, queueVars, worker>>

\* Mutant of Timeout: a read has no timer.
TimeoutNotForReads(c) ==
  /\ phase = "timeout"
  /\ Running = {}
  /\ \/ /\ pc[c] = "send_wait"
        /\ responses' = responses \ {<<c, reqno[c]>>}
        /\ pc' = [pc EXCEPT ![c] = "exit"]
     \/ /\ pc[c] = "wait"
        /\ pc' = [pc EXCEPT ![c] = "woken"]
        /\ UNCHANGED responses
  /\ UNCHANGED <<acceptVars, hold_fds, accepted_fd_list, todo_list, phase, events,
                 socket, blocks, reqno, cell, requests, open, queueVars, worker>>

\* DealwithTimeout resumes a uthread whose timer is due.  A read or a write that
\* times out fails; IOFunc itself looks at args after UThreadWait.
Timeout(c) ==
  /\ phase = "timeout"
  /\ Running = {}
  /\ \/ /\ pc[c] = "recv_wait"
        /\ requests' = requests \ {<<c, reqno[c]>>}
        /\ pc' = [pc EXCEPT ![c] = "exit"]
        /\ UNCHANGED responses
     \/ /\ pc[c] = "send_wait"
        /\ responses' = responses \ {<<c, reqno[c]>>}
        /\ pc' = [pc EXCEPT ![c] = "exit"]
        /\ UNCHANGED requests
     \/ /\ pc[c] = "wait"
        /\ pc' = [pc EXCEPT ![c] = "woken"]
        /\ UNCHANGED <<requests, responses>>
  /\ UNCHANGED <<acceptVars, hold_fds, accepted_fd_list, todo_list, phase, events,
                 socket, blocks, reqno, cell, open, queueVars, worker>>

-----------------------------------------------------------------------------
(* HshaServerIO::IOFunc *)

\* RecvReq needs bytes the peer has not sent: the uthread yields.
RecvBlock(c) ==
  /\ pc[c] = "recv"
  /\ blocks[c] < MaxBlocks
  /\ blocks' = [blocks EXCEPT ![c] = @ + 1]
  /\ pc' = [pc EXCEPT ![c] = "recv_wait"]
  /\ UNCHANGED <<acceptVars, hold_fds, accepted_fd_list, todo_list, phase, events,
                 socket, reqno, memoryVars, queueVars, worker>>

\* RecvReq fails: delete request; break;
RecvFail(c) ==
  /\ pc[c] = "recv"
  /\ requests' = requests \ {<<c, reqno[c]>>}
  /\ pc' = [pc EXCEPT ![c] = "exit"]
  /\ UNCHANGED <<acceptVars, hold_fds, accepted_fd_list, todo_list, phase, events,
                 socket, blocks, reqno, cell, responses, open, queueVars, worker>>

RecvReq(c) ==
  /\ pc[c] = "recv"
  /\ blocks' = [blocks EXCEPT ![c] = 0]
  /\ pc' = [pc EXCEPT ![c] = "parsed"]
  /\ UNCHANGED <<acceptVars, hold_fds, accepted_fd_list, todo_list, phase, events,
                 socket, reqno, memoryVars, queueVars, worker>>

\* CanPushRequest reads in_queue_'s size, which the workers change.
CanPushRequest(c) ==
  /\ pc[c] = "parsed"
  /\ Len(in_queue) < MaxQueueLength
  /\ pc' = [pc EXCEPT ![c] = "admitted"]
  /\ UNCHANGED <<acceptVars, hold_fds, accepted_fd_list, todo_list, phase, events,
                 socket, blocks, reqno, memoryVars, queueVars, worker>>

\* The queue is full, or CanEnqueue rejects: delete request; break;
RejectRequest(c) ==
  /\ \/ pc[c] = "parsed" /\ Len(in_queue) >= MaxQueueLength
     \/ pc[c] = "admitted"
  /\ requests' = requests \ {<<c, reqno[c]>>}
  /\ pc' = [pc EXCEPT ![c] = "exit"]
  /\ UNCHANGED <<acceptVars, hold_fds, accepted_fd_list, todo_list, phase, events,
                 socket, blocks, reqno, cell, responses, open, queueVars, worker>>

\* Mutant of PushRequest: UThreadSetArgs(nullptr) is missing.
PushRequestKeepsArgs(c) ==
  /\ pc[c] = "admitted"
  /\ in_queue' = Append(in_queue, [sock |-> socket[c], msg |-> <<c, reqno[c]>>])
  /\ pc' = [pc EXCEPT ![c] = "wait"]
  /\ UNCHANGED <<acceptVars, hold_fds, accepted_fd_list, todo_list, phase, events,
                 socket, blocks, reqno, memoryVars, out_queue, worker>>

\* PushRequest(socket, request), UThreadSetArgs(nullptr), UThreadWait: the last
\* two touch only what the IO thread owns.
PushRequest(c) ==
  /\ pc[c] = "admitted"
  /\ in_queue' = Append(in_queue, [sock |-> socket[c], msg |-> <<c, reqno[c]>>])
  /\ cell' = [cell EXCEPT ![socket[c]].args = None]
  /\ pc' = [pc EXCEPT ![c] = "wait"]
  /\ UNCHANGED <<acceptVars, hold_fds, accepted_fd_list, todo_list, phase, events,
                 socket, blocks, reqno, requests, responses, open, out_queue, worker>>

\* Mutant of WaitTimedOut: DetachSocket is missing, the stream frees the socket.
WaitTimedOutAttached(c) ==
  /\ pc[c] = "woken"
  /\ cell[socket[c]].args = None
  /\ cell' = [cell EXCEPT ![socket[c]].destroyed = TRUE]
  /\ pc' = [pc EXCEPT ![c] = "exit"]
  /\ UNCHANGED <<acceptVars, hold_fds, accepted_fd_list, todo_list, phase, events,
                 socket, blocks, reqno, requests, responses, open, queueVars, worker>>

\* UThreadGetArgs is null: the worker still has the socket pointer, so the
\* stream gives it up and leaves it to the late response.
WaitTimedOut(c) ==
  /\ pc[c] = "woken"
  /\ cell[socket[c]].args = None
  /\ cell' = [cell EXCEPT ![socket[c]].destroyed = TRUE]
  /\ socket' = [socket EXCEPT ![c] = None]
  /\ pc' = [pc EXCEPT ![c] = "exit"]
  /\ UNCHANGED <<acceptVars, hold_fds, accepted_fd_list, todo_list, phase, events,
                 blocks, reqno, requests, responses, open, queueVars, worker>>

\* FixRespHeaders on the response, then SendResp.
WaitAnswered(c) ==
  /\ pc[c] = "woken"
  /\ cell[socket[c]].args # None
  /\ pc' = [pc EXCEPT ![c] = "send"]
  /\ UNCHANGED <<acceptVars, hold_fds, accepted_fd_list, todo_list, phase, events,
                 socket, blocks, reqno, memoryVars, queueVars, worker>>

SendBlock(c) ==
  /\ pc[c] = "send"
  /\ blocks[c] < MaxBlocks
  /\ blocks' = [blocks EXCEPT ![c] = @ + 1]
  /\ pc' = [pc EXCEPT ![c] = "send_wait"]
  /\ UNCHANGED <<acceptVars, hold_fds, accepted_fd_list, todo_list, phase, events,
                 socket, reqno, memoryVars, queueVars, worker>>

\* SendResp returns, delete response; the loop ends unless the response went out
\* and the connection is kept alive, when the next request is allocated.
SendResp(c) ==
  /\ pc[c] = "send"
  /\ responses' = responses \ {cell[socket[c]].args}
  /\ blocks' = [blocks EXCEPT ![c] = 0]
  /\ \/ /\ pc' = [pc EXCEPT ![c] = "exit"]
        /\ UNCHANGED <<reqno, requests>>
     \/ /\ reqno[c] < MaxRequests
        /\ reqno' = [reqno EXCEPT ![c] = @ + 1]
        /\ requests' = requests \cup {<<c, reqno[c] + 1>>}
        /\ pc' = [pc EXCEPT ![c] = "recv"]
  /\ UNCHANGED <<acceptVars, hold_fds, accepted_fd_list, todo_list, phase, events,
                 socket, cell, open, queueVars, worker>>

\* After the loop: hold_fds_--.
ReleaseHold(c) ==
  /\ pc[c] = "exit"
  /\ hold_fds' = hold_fds - 1
  /\ pc' = [pc EXCEPT ![c] = "destroy"]
  /\ UNCHANGED <<acceptVars, accepted_fd_list, todo_list, phase, events, socket,
                 blocks, reqno, memoryVars, queueVars, worker>>

\* ~UThreadTcpStream closes and frees the socket it still has.
DestroyStream(c) ==
  /\ pc[c] = "destroy"
  /\ IF socket[c] = None
     THEN UNCHANGED <<open, cell, socket>>
     ELSE /\ open' = open \ {cell[socket[c]].conn}
          /\ cell' = [cell EXCEPT ![socket[c]] = FreeCell]
          /\ socket' = [socket EXCEPT ![c] = None]
  /\ pc' = [pc EXCEPT ![c] = "done"]
  /\ UNCHANGED <<acceptVars, hold_fds, accepted_fd_list, todo_list, phase, events,
                 blocks, reqno, requests, responses, queueVars, worker>>

-----------------------------------------------------------------------------
(* Worker::Func *)

PluckRequest(w) ==
  /\ worker[w].at = "pluck"
  /\ in_queue # <<>>
  /\ worker' = [worker EXCEPT ![w] = [at |-> "dispatch", job |-> Head(in_queue)]]
  /\ in_queue' = Tail(in_queue)
  /\ UNCHANGED <<acceptVars, hold_fds, accepted_fd_list, ioVars, memoryVars,
                 out_queue>>

\* new HttpResponse; dispatch_ fills it in, unless the request has waited for
\* MAX_QUEUE_WAIT_TIME_COST, when the response stays empty.
DispatchRequest(w) ==
  /\ worker[w].at = "dispatch"
  /\ responses' = responses \cup {worker[w].job.msg}
  /\ worker' = [worker EXCEPT ![w].at = "respond"]
  /\ UNCHANGED <<acceptVars, hold_fds, accepted_fd_list, ioVars, cell, requests,
                 open, queueVars>>

\* PushResponse and NotifyEpoll, which only shortens the wait of epoll_wait.
PushResponse(w) ==
  /\ worker[w].at = "respond"
  /\ out_queue' = Append(out_queue, worker[w].job)
  /\ worker' = [worker EXCEPT ![w].at = "delete"]
  /\ UNCHANGED <<acceptVars, hold_fds, accepted_fd_list, ioVars, memoryVars, in_queue>>

DeleteRequest(w) ==
  /\ worker[w].at = "delete"
  /\ requests' = requests \ {worker[w].job.msg}
  /\ worker' = [worker EXCEPT ![w] = Idle]
  /\ UNCHANGED <<acceptVars, hold_fds, accepted_fd_list, ioVars, cell, responses,
                 open, queueVars>>

-----------------------------------------------------------------------------

AcceptorStep ==
  \/ TooManyConnections
  \/ CanAccept
  \/ AcceptQueueFull
  \/ AddAcceptedFd
  \/ CountAccepted

SchedulerStep ==
  \/ EpollWait
  \/ EventsDone
  \/ ActiveSocket
  \/ LateResponse
  \/ ActiveDone
  \/ HandlerAcceptedFd
  \/ StartTask
  \/ TodoDone

IOFunc(c) ==
  \/ RecvBlock(c)
  \/ RecvFail(c)
  \/ RecvReq(c)
  \/ CanPushRequest(c)
  \/ RejectRequest(c)
  \/ PushRequest(c)
  \/ WaitTimedOut(c)
  \/ WaitAnswered(c)
  \/ SendBlock(c)
  \/ SendResp(c)
  \/ ReleaseHold(c)
  \/ DestroyStream(c)

WorkerStep(w) ==
  \/ PluckRequest(w)
  \/ DispatchRequest(w)
  \/ PushResponse(w)
  \/ DeleteRequest(w)

Next ==
  \/ \E c \in Conns : Accept(c)
  \/ AcceptorStep
  \/ SchedulerStep
  \/ \E c \in Conns : Event(c) \/ Timeout(c) \/ IOFunc(c)
  \/ \E w \in Workers : WorkerStep(w)

\* The three kinds of threads keep running: the acceptor finishes what it does
\* with an accepted fd, epoll_wait returns at least every 4 ms and the loop and
\* the uthread it runs go on, and dispatch_ returns.  A timer that stays armed
\* becomes due, and DealwithTimeout, which the loop reaches again and again,
\* resumes its uthread.  Of the clients only this is assumed: one sends finitely
\* many requests, each in finitely many pieces (MaxRequests, MaxBlocks), because
\* every piece that arrives starts the timeout anew.
Fairness ==
  /\ WF_vars(AcceptorStep)
  /\ WF_vars(SchedulerStep)
  /\ \A c \in Conns : /\ WF_vars(Event(c))
                      /\ WF_vars(IOFunc(c))
                      /\ SF_vars(Timeout(c))
  /\ \A w \in Workers : WF_vars(WorkerStep(w))

Spec == Init /\ [][Next]_vars /\ Fairness

-----------------------------------------------------------------------------
(* Properties *)

TypeOK ==
  /\ accept_pc \in {"idle", "check", "add", "count"}
  /\ accepted_fd \in Conns \cup {None}
  /\ hold_fds \in Int
  /\ accepted_fd_list \in Seq(Conns)
  /\ todo_list \in Seq(Conns)
  /\ phase \in Phases
  /\ events \in SUBSET Conns
  /\ pc \in [Conns -> ConnPC]
  /\ socket \in [Conns -> Cells \cup {None}]
  /\ blocks \in [Conns -> 0..MaxBlocks]
  /\ reqno \in [Conns -> 0..MaxRequests]
  /\ cell \in [Cells -> CellType]
  /\ in_queue \in Seq(Job)
  /\ out_queue \in Seq(Job)
  /\ worker \in [Workers -> [at : WorkerPC, job : Job \cup {None}]]
  /\ \A w \in Workers : worker[w].at = "pluck" <=> worker[w].job = None
  /\ requests \in SUBSET Message
  /\ responses \in SUBSET Message
  /\ open \in SUBSET Conns

\* The jobs whose response has not reached the IO thread yet.
InQueue  == {in_queue[k] : k \in 1..Len(in_queue)}
OutQueue == {out_queue[k] : k \in 1..Len(out_queue)}
AtWorker(places) == {worker[w].job : w \in {v \in Workers : worker[v].at \in places}}
Pending  == InQueue \cup AtWorker({"dispatch", "respond"}) \cup OutQueue

\* A socket pointer that travels through the queues stays valid until the IO
\* thread takes it back, also when the connection times out and its cell could
\* be freed and given to the next connection meanwhile.
SocketPointersValid ==
  \A job \in Pending : /\ cell[job.sock].live
                       /\ cell[job.sock].conn = job.msg[1]

\* A response that can still be delivered is for the request its uthread waits
\* for: never for an earlier request, an earlier user of the cell, or a uthread
\* that is not in UThreadWait.
AnswerMatchesRequest ==
  \A job \in Pending :
    \/ cell[job.sock].destroyed
    \/ \E c \in Conns : /\ pc[c] \in {"wait", "woken"}
                        /\ socket[c] = job.sock
                        /\ job.msg = <<c, reqno[c]>>
                        /\ cell[job.sock].args = None

\* What the uthread of a connection holds.
Reading == {c \in Conns : pc[c] \in {"recv", "recv_wait", "parsed", "admitted"}}
Writing == {c \in Conns : \/ pc[c] \in {"send", "send_wait"}
                          \/ pc[c] = "woken" /\ cell[socket[c]].args # None}
Current(c) == <<c, reqno[c]>>

\* Every allocated object has exactly the owners the code frees it from, and
\* every pointer in use points to an allocated one: nothing leaks and nothing
\* is freed twice, whoever wins the race of answer and timeout.
MemoryAccounted ==
  /\ requests = {Current(c) : c \in Reading}
                \cup {job.msg : job \in InQueue \cup AtWorker(WorkerPC \ {"pluck"})}
  /\ responses = {Current(c) : c \in Writing}
                 \cup {job.msg : job \in OutQueue \cup AtWorker({"respond"})}
  /\ {a \in Cells : cell[a].live} =
       {socket[c] : c \in {d \in Conns : socket[d] # None}}
       \cup {job.sock : job \in {j \in Pending : cell[j.sock].destroyed}}

\* An fd is open while the acceptor or a list has it, while the stream of its
\* uthread owns it, and after a timeout while a worker still has its socket.
FdsAccounted ==
  open = {c \in Conns : \/ accepted_fd = c /\ accept_pc # "count"
                        \/ pc[c] \in {"listed", "todo"}
                        \/ socket[c] # None}
         \cup {cell[a].conn : a \in {b \in Cells : cell[b].destroyed}}

\* The connections the unit serves.
InService == {c \in Conns : pc[c] \notin {"new", "destroy", "done"}}

\* hold_fds_ counts them, except for the one that the acceptor has handed over
\* and not counted yet: the IO thread may even count it off first.
HoldFdsExact ==
  hold_fds = Cardinality(InService) - (IF accept_pc = "count" THEN 1 ELSE 0)

\* Memory, descriptors and the count of connections agree with the threads that
\* hold them, in every interleaving of the acceptor, the IO thread and workers.
Accounted == TypeOK /\ MemoryAccounted /\ FdsAccounted /\ HoldFdsExact

\* Checking hold_fds_ first and counting later still keeps the limit, because
\* only one thread does either.
ConnectionLimit == Cardinality(InService) <= MaxConnections

\* in_queue_ keeps its limit although its size is read long before the push; the
\* list of accepted fds exceeds its own by the one that the > of AddAcceptedFd
\* lets in.
QueueLimits ==
  /\ Len(in_queue) <= MaxQueueLength
  /\ Len(accepted_fd_list) <= MaxAcceptQueue + 1

\* The limits that are checked on a value another thread may have changed since.
Limits == ConnectionLimit /\ QueueLimits

\* Every fd the server accepts is closed again, whatever the client does: no
\* wait for the peer or for a worker lasts for ever.
FdsEventuallyClosed == \A c \in Conns : c \in open ~> c \notin open

\* Every request that is allocated, and every response, is freed in the end.
MessagesEventuallyFreed ==
  \A m \in Message : (m \in requests \/ m \in responses)
                       ~> (m \notin requests /\ m \notin responses)

\* A connection that times out, is refused or is answered leaves nothing behind
\* for ever.
EverythingReturned == FdsEventuallyClosed /\ MessagesEventuallyFreed
=============================================================================
