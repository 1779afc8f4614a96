----------------------------- MODULE WorkerPool -----------------------------
(***************************************************************************)
(* DataFlow, Worker and WorkerPool of rpc/hsha_server.cpp: the two queues  *)
(* of a unit, each a ThdQueue, between the IO thread (the producer) and    *)
(* the workers (the consumers), and the destructor of the pool.  The       *)
(* variables of ThdQueue are those of in_queue_.                           *)
(***************************************************************************)
EXTENDS ThdQueue, SequencesExt

ASSUME PoolAssumption == Cardinality(Closers) = Cardinality(Consumers)

VARIABLES
  out_mutex, out_queue, out_size, out_break_out, out_pc, out_taken,  \* out_queue_
  worker_pc,      \* where each worker is in Func
  request,        \* the request each worker has, as a set
  shut_down_,     \* shut_down_ of each worker
  deleting,       \* the worker the destructor is at, with the closer that stands
                  \* for its call of break_out, as a set
  deleted         \* the workers that were joined

outVars == <<out_mutex, out_queue, out_size, out_break_out, out_pc, out_taken>>
poolVars == <<shut_down_, deleting, deleted>>
allVars == <<vars, outVars, worker_pc, request, poolVars>>

Out == INSTANCE ThdQueue WITH
  Producers <- Consumers, Consumers <- Producers, Gated <- {}, Polling <- Producers,
  mutex_ <- out_mutex, queue_ <- out_queue, size_ <- out_size,
  break_out_ <- out_break_out, pc <- out_pc, taken <- out_taken

PoolInit ==
  /\ Init
  /\ Out!Init
  /\ worker_pc = [w \in Consumers |-> "loop"]
  /\ request = [w \in Consumers |-> {}]
  /\ shut_down_ = [w \in Consumers |-> FALSE]
  /\ deleting = {}
  /\ deleted = {}

-----------------------------------------------------------------------------
(* The IO thread: one thread for both queues *)

\* Requests are numbered in the order they are pushed.
PushRequest(io) ==
  /\ out_pc[io] = "idle"
  /\ \/ CallPush(io) \/ PushLock(io) \/ PushIncr(io) \/ PushNotify(io)
     \/ /\ PushEnqueue(io)
        /\ Last(queue_') = Len(taken) + Len(queue_')
  /\ UNCHANGED <<outVars, worker_pc, request, poolVars>>

PluckResponse(io) ==
  /\ pc[io] = "idle"
  /\ Out!CallPluck(io) \/ Out!Pluck(io)
  /\ UNCHANGED <<vars, worker_pc, request, poolVars>>

-----------------------------------------------------------------------------
(* Worker::Func *)

At(w, from, to) ==
  /\ worker_pc[w] = from
  /\ worker_pc' = [worker_pc EXCEPT ![w] = to]
  /\ UNCHANGED poolVars

\* while (!shut_down_), then PluckRequest.
Idle(w) ==
  /\ ~shut_down_[w]
  /\ At(w, "loop", "pluck")
  /\ CallPluck(w)
  /\ UNCHANGED <<outVars, request>>

Exit(w) ==
  /\ shut_down_[w]
  /\ At(w, "loop", "exit")
  /\ UNCHANGED <<vars, outVars, request>>

Plucking(w) ==
  /\ At(w, "pluck", "pluck")
  /\ \/ PluckLock(w) \/ PluckOpen(w) \/ PluckWait(w) \/ PluckNonEmpty(w)
     \/ PluckRelock(w) \/ PluckDecr(w)
  /\ UNCHANGED <<outVars, request>>

\* request == nullptr: continue.
PluckedNothing(w) ==
  /\ At(w, "pluck", "loop")
  /\ PluckBroken(w)
  /\ UNCHANGED <<outVars, request>>

Plucked(w) ==
  /\ At(w, "pluck", "work")
  /\ PluckPop(w)
  /\ request' = [request EXCEPT ![w] = {Head(queue_)}]
  /\ UNCHANGED outVars

\* Mutant: the worker looks at shut_down_ again before it works.
WorkUnlessShutDown(w) ==
  IF shut_down_[w]
  THEN /\ At(w, "work", "loop")
       /\ request' = [request EXCEPT ![w] = {}]
       /\ UNCHANGED <<vars, outVars>>
  ELSE /\ At(w, "work", "push")
       /\ Out!CallPush(w)
       /\ UNCHANGED <<vars, request>>

\* The call of dispatch_ or, when the request waited too
\* long, an empty response, then PushResponse.
Work(w) ==
  /\ At(w, "work", "push")
  /\ Out!CallPush(w)
  /\ UNCHANGED <<vars, request>>

PushResponse(w) ==
  /\ At(w, "push", "push")
  /\ \/ Out!PushLock(w)
     \/ /\ Out!PushEnqueue(w)
        /\ {Last(out_queue')} = request[w]
     \/ Out!PushIncr(w)
  /\ UNCHANGED <<vars, request>>

\* NotifyEpoll, delete request.
Worked(w) ==
  /\ At(w, "push", "loop")
  /\ Out!PushNotify(w)
  /\ request' = [request EXCEPT ![w] = {}]
  /\ UNCHANGED vars

Func(w) == \/ Idle(w) \/ Exit(w)
           \/ Plucking(w) \/ PluckedNothing(w) \/ Plucked(w)
           \/ Work(w) \/ PushResponse(w) \/ Worked(w)

SpuriouslyWoken(w) ==
  /\ SpuriousWakeup(w)
  /\ UNCHANGED <<outVars, worker_pc, request, poolVars>>

-----------------------------------------------------------------------------
(* WorkerPool::~WorkerPool: Shutdown and delete, one worker after the other *)

PoolStep == UNCHANGED <<worker_pc, request>>

\* shut_down_ = true; DataFlow::BreakOut, in_queue_ first.
Shutdown(w) ==
  /\ deleting = {} /\ w \notin deleted
  /\ shut_down_' = [shut_down_ EXCEPT ![w] = TRUE]
  /\ LET b == CHOOSE c \in Closers : pc[c] = "idle"
     IN  deleting' = {<<w, b>>} /\ CallBreakOut(b)
  /\ UNCHANGED <<outVars, deleted>> /\ PoolStep

BreakIn(w, b) ==
  /\ <<w, b>> \in deleting
  /\ BreakOut(b)
  /\ UNCHANGED <<outVars, poolVars>> /\ PoolStep

BreakOutQueue(w, b) ==
  /\ <<w, b>> \in deleting /\ pc[b] = "done"
  /\ Out!CallBreakOut(b) \/ Out!BreakOut(b)
  /\ UNCHANGED <<vars, poolVars>> /\ PoolStep

\* thread_.join in the destructor of the worker.
Join(w, b) ==
  /\ <<w, b>> \in deleting /\ out_pc[b] = "done"
  /\ worker_pc[w] = "exit"
  /\ deleting' = {}
  /\ deleted' = deleted \cup {w}
  /\ UNCHANGED <<vars, outVars, shut_down_>> /\ PoolStep

Destructor ==
  \/ \E w \in Consumers : Shutdown(w)
  \/ \E w \in Consumers, b \in Closers :
       BreakIn(w, b) \/ BreakOutQueue(w, b) \/ Join(w, b)

PoolNext ==
  \/ \E io \in Producers : PushRequest(io) \/ PluckResponse(io)
  \/ \E w \in Consumers : Func(w) \/ SpuriouslyWoken(w)
  \/ Destructor

\* Every thread runs, and one that waits for a mutex that is released again and
\* again gets it.  The destructor need not be called, but goes on once it is;
\* requests need not come.
PoolFairness ==
  /\ \A io \in Producers :
       /\ WF_allVars(Push(io) /\ PushRequest(io))
       /\ WF_allVars(PluckResponse(io))
  /\ \A w \in Consumers : SF_allVars(Func(w))
  /\ SF_allVars(deleting # {} /\ Destructor)
  /\ WF_allVars(deleted # {} /\ Destructor)

PoolSpec == PoolInit /\ [][PoolNext]_allVars /\ PoolFairness

-----------------------------------------------------------------------------
(* Properties; those of ThdQueue are about in_queue_. *)

\* The IO thread, which runs the uthreads, never blocks in PluckResponse.
IOThreadNeverWaits == Out!SolePollerNeverWaits

Occurs(v, s) == Cardinality({i \in DOMAIN s : s[i] = v})

\* Every request a worker has taken is answered exactly once or still in its
\* hands, also by workers that are shut down meanwhile.
AnsweredOnce ==
  \A v \in Value :
    Occurs(v, taken) =
      Occurs(v, out_taken) + Occurs(v, out_queue)
        + Cardinality({w \in Consumers :
                         v \in request[w] /\ out_pc[w] \notin {"incr", "notify"}})

\* Once begun, the destructor ends: every worker leaves its loop and is joined,
\* although all of them share the flag of the queue and each has its own
\* shut_down_.
DestructorEnds == deleting # {} ~> deleted = Consumers
=============================================================================
