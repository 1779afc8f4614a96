------------------------------ MODULE ThdQueue ------------------------------
(***************************************************************************)
(* ThdQueue<T> of rpc/thread_queue.h: a std::queue guarded by a mutex, a   *)
(* condition variable for the threads that wait in pluck, an atomic size   *)
(* that size() and empty() read WITHOUT the mutex, and a break_out flag.   *)
(*                                                                         *)
(* A step is one access to the shared state: the mutex is acquired,        *)
(* queue_ and size_ change in two separate steps while it is held, and     *)
(* cv_.wait releases it.  Wake-ups may be spurious and notify_one wakes    *)
(* any one of the waiting threads, as the C++ standard allows.             *)
(*                                                                         *)
(* The two ways rpc/hsha_server.cpp uses a queue are parameters: a Gated   *)
(* producer calls push only after it has read size() < MaxLen              *)
(* (DataFlow::CanPushRequest), a Polling consumer calls pluck only after   *)
(* it has read !empty() (DataFlow::CanPluckResponse).                      *)
(***************************************************************************)
EXTENDS Integers, Sequences, FiniteSets

CONSTANTS
  Producers,   \* threads that call push
  Consumers,   \* threads that call pluck
  Closers,     \* threads that call break_out
  Gated,       \* the producers that read size() before they push
  Polling,     \* the consumers that read empty() before they pluck
  MaxLen,      \* the bound a gated producer compares size() with
  MaxPush,     \* bound of the model: values pushed in a behaviour
  Value,       \* the values pushed
  NoThread     \* the mutex is free

Threads == Producers \cup Consumers \cup Closers

ASSUME QueueAssumption ==
  /\ Producers \cap Consumers = {}
  /\ Producers \cap Closers = {}
  /\ Consumers \cap Closers = {}
  /\ Gated \subseteq Producers
  /\ Polling \subseteq Consumers
  /\ MaxLen \in Nat
  /\ MaxPush \in Nat
  /\ NoThread \notin Threads

\* A process has finitely many threads.
ASSUME FiniteAssumption == IsFiniteSet(Threads)

VARIABLES
  mutex_,      \* the thread that holds mutex_, or NoThread
  queue_,      \* queue_: a sequence of values
  size_,       \* size_: the atomic counter
  break_out_,  \* break_out_
  pc,          \* where each thread is in push, pluck or break_out
  taken        \* history: the values pluck returned, in order

vars == <<mutex_, queue_, size_, break_out_, pc, taken>>

ProducerPC == {"idle", "push_lock", "enqueue", "incr", "notify"}
ConsumerPC == {"idle", "pluck_lock", "check_break", "check_empty", "wait",
               "relock", "decr", "pop"}
CloserPC   == {"idle", "close_lock", "set", "notify_all", "done"}

\* The threads blocked in cv_.wait.
Waiting == {c \in Consumers : pc[c] = "wait"}

Init ==
  /\ mutex_ = NoThread
  /\ queue_ = <<>>
  /\ size_ = 0
  /\ break_out_ = FALSE
  /\ pc = [t \in Threads |-> "idle"]
  /\ taken = <<>>

Goto(t, from, to) ==
  /\ pc[t] = from
  /\ pc' = [pc EXCEPT ![t] = to]

Lock(t) ==
  /\ mutex_ = NoThread
  /\ mutex_' = t

Unlock == mutex_' = NoThread

-----------------------------------------------------------------------------
(* push *)

\* Mutant of CallPush: the bound is compared with <=.
CallPushOffByOne(p) ==
  /\ Len(taken) + Len(queue_) < MaxPush
  /\ p \in Gated => size_ <= MaxLen
  /\ Goto(p, "idle", "push_lock")
  /\ UNCHANGED <<mutex_, queue_, size_, break_out_, taken>>

\* The thread calls push; a gated one has just seen size() below MaxLen.
CallPush(p) ==
  /\ Len(taken) + Len(queue_) < MaxPush
  /\ p \in Gated => size_ < MaxLen
  /\ Goto(p, "idle", "push_lock")
  /\ UNCHANGED <<mutex_, queue_, size_, break_out_, taken>>

PushLock(p) ==
  /\ Goto(p, "push_lock", "enqueue")
  /\ Lock(p)
  /\ UNCHANGED <<queue_, size_, break_out_, taken>>

PushEnqueue(p) ==
  /\ Goto(p, "enqueue", "incr")
  /\ \E v \in Value : queue_' = Append(queue_, v)
  /\ UNCHANGED <<mutex_, size_, break_out_, taken>>

\* Mutant of PushIncr: size_++ is missing.
PushUncounted(p) ==
  /\ Goto(p, "incr", "notify")
  /\ UNCHANGED <<mutex_, queue_, size_, break_out_, taken>>

PushIncr(p) ==
  /\ Goto(p, "incr", "notify")
  /\ size_' = size_ + 1
  /\ UNCHANGED <<mutex_, queue_, break_out_, taken>>

\* Mutant of PushNotify: only the push that finds the queue empty notifies.
PushNotifyFirstOnly(p) ==
  /\ pc[p] = "notify"
  /\ \/ /\ Waiting = {} \/ Len(queue_) > 1
        /\ pc' = [pc EXCEPT ![p] = "idle"]
     \/ /\ Len(queue_) <= 1
        /\ \E c \in Waiting : pc' = [pc EXCEPT ![p] = "idle", ![c] = "relock"]
  /\ Unlock
  /\ UNCHANGED <<queue_, size_, break_out_, taken>>

\* cv_.notify_one wakes some waiting thread if there is one; the lock_guard
\* then releases the mutex.
PushNotify(p) ==
  /\ pc[p] = "notify"
  /\ \/ /\ Waiting = {}
        /\ pc' = [pc EXCEPT ![p] = "idle"]
     \/ \E c \in Waiting : pc' = [pc EXCEPT ![p] = "idle", ![c] = "relock"]
  /\ Unlock
  /\ UNCHANGED <<queue_, size_, break_out_, taken>>

-----------------------------------------------------------------------------
(* pluck *)

\* Mutant of CallPluck: pluck is called without looking at empty().
CallPluckUnchecked(c) ==
  /\ Goto(c, "idle", "pluck_lock")
  /\ UNCHANGED <<mutex_, queue_, size_, break_out_, taken>>

\* The thread calls pluck; a polling one has just seen !empty().
CallPluck(c) ==
  /\ c \in Polling => size_ # 0
  /\ Goto(c, "idle", "pluck_lock")
  /\ UNCHANGED <<mutex_, queue_, size_, break_out_, taken>>

PluckLock(c) ==
  /\ Goto(c, "pluck_lock", "check_break")
  /\ Lock(c)
  /\ UNCHANGED <<queue_, size_, break_out_, taken>>

\* if (break_out_) return false: on entry and again after every wait.
PluckBroken(c) ==
  /\ break_out_
  /\ Goto(c, "check_break", "idle")
  /\ Unlock
  /\ UNCHANGED <<queue_, size_, break_out_, taken>>

PluckOpen(c) ==
  /\ ~break_out_
  /\ Goto(c, "check_break", "check_empty")
  /\ UNCHANGED <<mutex_, queue_, size_, break_out_, taken>>

\* cv_.wait releases the mutex and blocks in one step.
PluckWait(c) ==
  /\ queue_ = <<>>
  /\ Goto(c, "check_empty", "wait")
  /\ Unlock
  /\ UNCHANGED <<queue_, size_, break_out_, taken>>

\* Mutant of PluckNonEmpty: size_-- is skipped.
PluckUndiscounted(c) ==
  /\ queue_ # <<>>
  /\ Goto(c, "check_empty", "pop")
  /\ UNCHANGED <<mutex_, queue_, size_, break_out_, taken>>

PluckNonEmpty(c) ==
  /\ queue_ # <<>>
  /\ Goto(c, "check_empty", "decr")
  /\ UNCHANGED <<mutex_, queue_, size_, break_out_, taken>>

SpuriousWakeup(c) ==
  /\ Goto(c, "wait", "relock")
  /\ UNCHANGED <<mutex_, queue_, size_, break_out_, taken>>

\* Mutant of PluckRelock: break_out_ is only checked on entry.
PluckRelockUnchecked(c) ==
  /\ Goto(c, "relock", "check_empty")
  /\ Lock(c)
  /\ UNCHANGED <<queue_, size_, break_out_, taken>>

\* A woken thread owns the mutex again when cv_.wait returns.
PluckRelock(c) ==
  /\ Goto(c, "relock", "check_break")
  /\ Lock(c)
  /\ UNCHANGED <<queue_, size_, break_out_, taken>>

PluckDecr(c) ==
  /\ Goto(c, "decr", "pop")
  /\ size_' = size_ - 1
  /\ UNCHANGED <<mutex_, queue_, break_out_, taken>>

\* Mutant of PluckPop: queue_.back() is returned.
PluckBack(c) ==
  /\ Goto(c, "pop", "idle")
  /\ taken' = Append(taken, queue_[Len(queue_)])
  /\ queue_' = SubSeq(queue_, 1, Len(queue_) - 1)
  /\ Unlock
  /\ UNCHANGED <<size_, break_out_>>

PluckPop(c) ==
  /\ Goto(c, "pop", "idle")
  /\ taken' = Append(taken, Head(queue_))
  /\ queue_' = Tail(queue_)
  /\ Unlock
  /\ UNCHANGED <<size_, break_out_>>

-----------------------------------------------------------------------------
(* break_out *)

CallBreakOut(b) ==
  /\ Goto(b, "idle", "close_lock")
  /\ UNCHANGED <<mutex_, queue_, size_, break_out_, taken>>

BreakLock(b) ==
  /\ Goto(b, "close_lock", "set")
  /\ Lock(b)
  /\ UNCHANGED <<queue_, size_, break_out_, taken>>

BreakSet(b) ==
  /\ Goto(b, "set", "notify_all")
  /\ break_out_' = TRUE
  /\ UNCHANGED <<mutex_, queue_, size_, taken>>

BreakNotifyAll(b) ==
  /\ pc[b] = "notify_all"
  /\ pc' = [t \in Threads |-> IF t = b THEN "done"
                              ELSE IF t \in Waiting THEN "relock" ELSE pc[t]]
  /\ Unlock
  /\ UNCHANGED <<queue_, size_, break_out_, taken>>

-----------------------------------------------------------------------------

Push(p) == \/ PushLock(p)
           \/ PushEnqueue(p)
           \/ PushIncr(p)
           \/ PushNotify(p)

Pluck(c) == \/ PluckLock(c)
            \/ PluckBroken(c)
            \/ PluckOpen(c)
            \/ PluckWait(c)
            \/ PluckNonEmpty(c)
            \/ PluckRelock(c)
            \/ PluckDecr(c)
            \/ PluckPop(c)

BreakOut(b) == \/ BreakLock(b)
               \/ BreakSet(b)
               \/ BreakNotifyAll(b)

Next ==
  \/ \E p \in Producers : CallPush(p) \/ Push(p)
  \/ \E c \in Consumers : CallPluck(c) \/ Pluck(c) \/ SpuriousWakeup(c)
  \/ \E b \in Closers : CallBreakOut(b) \/ BreakOut(b)

\* The operating system keeps running a thread that is inside a call, and the
\* consumers are loops that call pluck again (Worker::Func, the scheduler loop
\* that calls ActiveSocketFunc).  Nobody has to push or to break out, and no
\* wake-up has to be spurious.
Fairness ==
  /\ \A p \in Producers : WF_vars(Push(p))
  /\ \A c \in Consumers : WF_vars(CallPluck(c)) /\ WF_vars(Pluck(c))
  /\ \A b \in Closers : WF_vars(BreakOut(b))

Spec == Init /\ [][Next]_vars /\ Fairness

-----------------------------------------------------------------------------
(* Properties *)

\* The variables stay in their types: the mutex is free or held by a thread,
\* and the counter, a signed atomic_int, is never negative.
TypeOK ==
  /\ mutex_ \in Threads \cup {NoThread}
  /\ queue_ \in Seq(Value)
  /\ taken \in Seq(Value)
  /\ size_ \in Nat
  /\ break_out_ \in BOOLEAN
  /\ pc \in [Threads -> ProducerPC \cup ConsumerPC \cup CloserPC]
  /\ \A p \in Producers : pc[p] \in ProducerPC
  /\ \A c \in Consumers : pc[c] \in ConsumerPC
  /\ \A b \in Closers : pc[b] \in CloserPC

\* What a thread that reads size() or empty() without the mutex can rely on:
\* the counter never overstates the queue, and is exact whenever no push or
\* pluck is in its critical section (push counts after it enqueues, pluck
\* discounts before it pops).
SizeNeverOverstates ==
  /\ size_ <= Len(queue_)
  /\ mutex_ = NoThread => size_ = Len(queue_)

\* A consumer inside pluck that is not asleep.
Awake == {c \in Consumers : pc[c] \notin {"idle", "wait"}}

\* No lost wake-up: while some consumer sleeps, there is a consumer awake in
\* pluck, or a push about to notify, for every value in the queue.
NoLostWakeup ==
  Waiting # {} =>
    Len(queue_) <= Cardinality(Awake)
                   + Cardinality({p \in Producers : pc[p] \in {"incr", "notify"}})

\* DataFlow's use of size(): a queue with one producer, which pushes only after
\* it has read size() < max, is never longer than max, although the counter may
\* understate the length at the moment of the read.
SoleGatedProducerBound ==
  (\E p \in Gated : Producers = {p}) => Len(queue_) <= MaxLen

\* DataFlow's use of empty(): a lone consumer that plucks only after it has
\* read !empty() never blocks (the IO thread may not sleep in PluckResponse).
SolePollerNeverWaits ==
  (\E c \in Polling : Consumers = {c}) => Waiting = {}

\* The queue implements the abstract one: first in first out, every value taken
\* at most once, none after break_out, and (with fairness) a value in an open
\* queue is eventually taken.
Fifo == INSTANCE BlockingFifo WITH
  items <- queue_, closed <- break_out_, received <- taken

ImplementsFifo == Fifo!Spec
=============================================================================
