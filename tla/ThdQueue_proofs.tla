--------------------------- MODULE ThdQueue_proofs ---------------------------
(***************************************************************************)
(* Safety of ThdQueue for every set of producers, consumers and closers.   *)
(* The inductive invariant IInv says who holds the mutex, how far the      *)
(* counter lags behind the queue while it is held, and what a thread that  *)
(* has passed one of the checks may still rely on.                         *)
(***************************************************************************)
EXTENDS ThdQueue, FiniteSetTheorems, TLAPS

\* The program counters at which a thread holds the mutex.
Critical == {"enqueue", "incr", "notify", "check_break", "check_empty",
             "decr", "pop", "set", "notify_all"}

\* A thread is in a critical section exactly when it holds the mutex.
MutexInv == \A t \in Threads : pc[t] \in Critical <=> mutex_ = t

\* The counter is one behind between the two writes of a push or a pluck, and
\* exact otherwise.
Lagging == \E t \in Threads : pc[t] \in {"incr", "pop"}

SizeInv == size_ = Len(queue_) - (IF Lagging THEN 1 ELSE 0)

\* What the checks of pluck establish for the steps after them.
CheckedInv ==
  \A c \in Consumers :
    /\ pc[c] \in {"decr", "pop"} => queue_ # <<>>
    /\ pc[c] \in {"check_empty", "decr", "pop"} => ~break_out_

\* A lone gated producer that is on its way to enqueue still sees room.
GateInv ==
  \A p \in Gated : Producers = {p} =>
    /\ pc[p] \in {"push_lock", "enqueue"} => size_ < MaxLen
    /\ Len(queue_) <= MaxLen

\* A lone polling consumer that is on its way to the queue finds it non-empty.
PollInv ==
  \A c \in Polling : Consumers = {c} =>
    /\ pc[c] \notin {"wait", "relock"}
    /\ pc[c] \in {"pluck_lock", "check_break", "check_empty", "decr"} => size_ > 0

\* Once break_out_ is set, consumers only sleep until notify_all has run.
BrokenInv ==
  break_out_ /\ Waiting # {} => \E b \in Closers : pc[b] = "notify_all"

IInv == TypeOK /\ MutexInv /\ SizeInv /\ CheckedInv /\ GateInv /\ PollInv

-----------------------------------------------------------------------------

\* The mutex admits one thread at a time into the critical sections.
LEMMA OneInside ==
  ASSUME MutexInv, NEW t \in Threads, NEW u \in Threads,
         pc[t] \in Critical, pc[u] \in Critical
  PROVE  t = u
BY DEF MutexInv

\* The initial state satisfies the inductive invariant.
LEMMA InitIInv == Init => IInv
<1> SUFFICES ASSUME Init PROVE IInv
  OBVIOUS
<1>1. TypeOK
  <2>1. /\ mutex_ \in Threads \cup {NoThread}
        /\ size_ \in Nat
        /\ break_out_ \in BOOLEAN
    BY DEF Init
  <2>2. queue_ \in Seq(Value) /\ taken \in Seq(Value)
    BY DEF Init
  <2>3. \A t \in Threads : pc[t] \in ProducerPC \cap ConsumerPC \cap CloserPC
    BY DEF Init, ProducerPC, ConsumerPC, CloserPC
  <2>4. pc \in [Threads -> ProducerPC \cup ConsumerPC \cup CloserPC]
    BY <2>3 DEF Init
  <2> QED
    BY <2>1, <2>2, <2>3, <2>4 DEF TypeOK, Threads
<1>2. MutexInv
  BY QueueAssumption DEF Init, MutexInv, Critical, Threads
<1>3. SizeInv
  BY DEF Init, SizeInv, Lagging
<1>4. CheckedInv /\ PollInv
  BY QueueAssumption DEF Init, CheckedInv, PollInv, Threads
<1>5. GateInv
  BY QueueAssumption DEF Init, GateInv, Threads
<1> QED
  BY <1>1, <1>2, <1>3, <1>4, <1>5 DEF IInv

\* While a thread is in a critical section between other points than the two
\* writes, the counter is exact.
LEMMA ExactInside ==
  ASSUME TypeOK, MutexInv, SizeInv, NEW t \in Threads,
         pc[t] \in Critical \ {"incr", "pop"}
  PROVE  size_ = Len(queue_)
<1>1. ~Lagging
  BY DEF Lagging, MutexInv, Critical
<1> QED
  BY <1>1 DEF SizeInv, TypeOK

\* Between the two writes it is one behind.
LEMMA LagInside ==
  ASSUME TypeOK, SizeInv, NEW t \in Threads, pc[t] \in {"incr", "pop"}
  PROVE  size_ = Len(queue_) - 1
BY DEF SizeInv, Lagging, TypeOK

\* Every step keeps the types.
LEMMA TypeStep ==
  ASSUME TypeOK, MutexInv, SizeInv, CheckedInv, [Next]_vars
  PROVE  TypeOK'
<1>1. ASSUME NEW p \in Producers, CallPush(p) PROVE TypeOK'
  BY <1>1, QueueAssumption DEF TypeOK, CallPush, Goto, Lock, Unlock, Threads,
     ProducerPC, ConsumerPC, CloserPC
<1>2. ASSUME NEW p \in Producers, PushLock(p) PROVE TypeOK'
  BY <1>2, QueueAssumption DEF TypeOK, PushLock, Goto, Lock, Unlock, Threads,
     ProducerPC, ConsumerPC, CloserPC
<1>3. ASSUME NEW p \in Producers, PushEnqueue(p) PROVE TypeOK'
  BY <1>3, QueueAssumption DEF TypeOK, PushEnqueue, Goto, Lock, Unlock, Threads,
     ProducerPC, ConsumerPC, CloserPC
<1>4. ASSUME NEW p \in Producers, PushIncr(p) PROVE TypeOK'
  BY <1>4, QueueAssumption DEF TypeOK, PushIncr, Goto, Lock, Unlock, Threads,
     ProducerPC, ConsumerPC, CloserPC
<1>5. ASSUME NEW p \in Producers, PushNotify(p) PROVE TypeOK'
  <2> USE <1>5, QueueAssumption DEF PushNotify, Waiting, Unlock
  <2>1. CASE Waiting = {} /\ pc' = [pc EXCEPT ![p] = "idle"]
    BY <2>1 DEF TypeOK, Threads, ProducerPC, ConsumerPC, CloserPC
  <2>2. ASSUME NEW c \in Waiting,
               pc' = [pc EXCEPT ![p] = "idle", ![c] = "relock"]
        PROVE  TypeOK'
    BY <2>2 DEF TypeOK, Threads, ProducerPC, ConsumerPC, CloserPC
  <2> QED
    BY <2>1, <2>2
<1>6. ASSUME NEW c \in Consumers, CallPluck(c) PROVE TypeOK'
  BY <1>6, QueueAssumption DEF TypeOK, CallPluck, Goto, Lock, Unlock, Threads,
     ProducerPC, ConsumerPC, CloserPC
<1>7. ASSUME NEW c \in Consumers, PluckLock(c) PROVE TypeOK'
  BY <1>7, QueueAssumption DEF TypeOK, PluckLock, Goto, Lock, Unlock, Threads,
     ProducerPC, ConsumerPC, CloserPC
<1>8. ASSUME NEW c \in Consumers, PluckBroken(c) PROVE TypeOK'
  BY <1>8, QueueAssumption DEF TypeOK, PluckBroken, Goto, Lock, Unlock, Threads,
     ProducerPC, ConsumerPC, CloserPC
<1>9. ASSUME NEW c \in Consumers, PluckOpen(c) PROVE TypeOK'
  BY <1>9, QueueAssumption DEF TypeOK, PluckOpen, Goto, Lock, Unlock, Threads,
     ProducerPC, ConsumerPC, CloserPC
<1>10. ASSUME NEW c \in Consumers, PluckWait(c) PROVE TypeOK'
  BY <1>10, QueueAssumption DEF TypeOK, PluckWait, Goto, Lock, Unlock, Threads,
     ProducerPC, ConsumerPC, CloserPC
<1>11. ASSUME NEW c \in Consumers, PluckNonEmpty(c) PROVE TypeOK'
  BY <1>11, QueueAssumption DEF TypeOK, PluckNonEmpty, Goto, Lock, Unlock, Threads,
     ProducerPC, ConsumerPC, CloserPC
<1>12. ASSUME NEW c \in Consumers, SpuriousWakeup(c) PROVE TypeOK'
  BY <1>12, QueueAssumption DEF TypeOK, SpuriousWakeup, Goto, Lock, Unlock, Threads,
     ProducerPC, ConsumerPC, CloserPC
<1>13. ASSUME NEW c \in Consumers, PluckRelock(c) PROVE TypeOK'
  BY <1>13, QueueAssumption DEF TypeOK, PluckRelock, Goto, Lock, Unlock, Threads,
     ProducerPC, ConsumerPC, CloserPC
<1>14. ASSUME NEW c \in Consumers, PluckDecr(c) PROVE TypeOK'
  <2>1. size_ = Len(queue_) /\ queue_ # <<>>
    BY <1>14, ExactInside DEF PluckDecr, Goto, Threads, Critical, CheckedInv
  <2>2. size_' \in Nat
    BY <1>14, <2>1 DEF TypeOK, PluckDecr
  <2> QED
    BY <1>14, <2>2, QueueAssumption DEF TypeOK, PluckDecr, Goto, Threads,
       ProducerPC, ConsumerPC, CloserPC
<1>15. ASSUME NEW c \in Consumers, PluckPop(c) PROVE TypeOK'
  <2>1. queue_ # <<>>
    BY <1>15 DEF PluckPop, Goto, CheckedInv
  <2>2. Head(queue_) \in Value /\ Tail(queue_) \in Seq(Value)
    BY <2>1 DEF TypeOK
  <2>3. queue_' \in Seq(Value) /\ taken' \in Seq(Value)
    BY <1>15, <2>2 DEF TypeOK, PluckPop
  <2> QED
    BY <1>15, <2>3, QueueAssumption DEF TypeOK, PluckPop, Goto, Unlock, Threads,
       ProducerPC, ConsumerPC, CloserPC
<1>16. ASSUME NEW b \in Closers, CallBreakOut(b) PROVE TypeOK'
  BY <1>16, QueueAssumption DEF TypeOK, CallBreakOut, Goto, Lock, Unlock, Threads,
     ProducerPC, ConsumerPC, CloserPC
<1>17. ASSUME NEW b \in Closers, BreakLock(b) PROVE TypeOK'
  BY <1>17, QueueAssumption DEF TypeOK, BreakLock, Goto, Lock, Unlock, Threads,
     ProducerPC, ConsumerPC, CloserPC
<1>18. ASSUME NEW b \in Closers, BreakSet(b) PROVE TypeOK'
  BY <1>18, QueueAssumption DEF TypeOK, BreakSet, Goto, Lock, Unlock, Threads,
     ProducerPC, ConsumerPC, CloserPC
<1>19. ASSUME NEW b \in Closers, BreakNotifyAll(b) PROVE TypeOK'
  <2>1. pc' \in [Threads -> ProducerPC \cup ConsumerPC \cup CloserPC]
    BY <1>19 DEF TypeOK, BreakNotifyAll, Waiting, CloserPC, ConsumerPC
  <2>2. \A q \in Producers : pc'[q] \in ProducerPC
    BY <1>19, QueueAssumption DEF TypeOK, BreakNotifyAll, Waiting, Threads
  <2>3. \A c \in Consumers : pc'[c] \in ConsumerPC
    BY <1>19, QueueAssumption DEF TypeOK, BreakNotifyAll, Threads, ConsumerPC
  <2>4. \A a \in Closers : pc'[a] \in CloserPC
    BY <1>19, QueueAssumption
       DEF TypeOK, BreakNotifyAll, Waiting, Threads, CloserPC
  <2> QED
    BY <1>19, <2>1, <2>2, <2>3, <2>4 DEF TypeOK, BreakNotifyAll, Unlock
<1>20. CASE UNCHANGED vars
  BY <1>20 DEF vars, TypeOK
<1> QED
  BY <1>1, <1>2, <1>3, <1>4, <1>5, <1>6, <1>7, <1>8, <1>9, <1>10, <1>11,
     <1>12, <1>13, <1>14, <1>15, <1>16, <1>17, <1>18, <1>19, <1>20 DEF Next, Push, Pluck, BreakOut


\* Every step keeps the mutex exclusive.
LEMMA MutexStep ==
  ASSUME TypeOK, MutexInv, [Next]_vars
  PROVE  MutexInv'
<1>1. ASSUME NEW p \in Producers, CallPush(p) PROVE MutexInv'
  BY <1>1, QueueAssumption DEF TypeOK, MutexInv, CallPush, Goto, Lock, Unlock,
     Threads, Critical, Waiting
<1>2. ASSUME NEW p \in Producers, PushLock(p) PROVE MutexInv'
  BY <1>2, QueueAssumption DEF TypeOK, MutexInv, PushLock, Goto, Lock, Unlock,
     Threads, Critical, Waiting
<1>3. ASSUME NEW p \in Producers, PushEnqueue(p) PROVE MutexInv'
  BY <1>3, QueueAssumption DEF TypeOK, MutexInv, PushEnqueue, Goto, Lock, Unlock,
     Threads, Critical, Waiting
<1>4. ASSUME NEW p \in Producers, PushIncr(p) PROVE MutexInv'
  BY <1>4, QueueAssumption DEF TypeOK, MutexInv, PushIncr, Goto, Lock, Unlock,
     Threads, Critical, Waiting
<1>5. ASSUME NEW p \in Producers, PushNotify(p) PROVE MutexInv'
  BY <1>5, QueueAssumption DEF TypeOK, MutexInv, PushNotify, Goto, Lock, Unlock,
     Threads, Critical, Waiting
<1>6. ASSUME NEW c \in Consumers, CallPluck(c) PROVE MutexInv'
  BY <1>6, QueueAssumption DEF TypeOK, MutexInv, CallPluck, Goto, Lock, Unlock,
     Threads, Critical, Waiting
<1>7. ASSUME NEW c \in Consumers, PluckLock(c) PROVE MutexInv'
  BY <1>7, QueueAssumption DEF TypeOK, MutexInv, PluckLock, Goto, Lock, Unlock,
     Threads, Critical, Waiting
<1>8. ASSUME NEW c \in Consumers, PluckBroken(c) PROVE MutexInv'
  BY <1>8, QueueAssumption DEF TypeOK, MutexInv, PluckBroken, Goto, Lock, Unlock,
     Threads, Critical, Waiting
<1>9. ASSUME NEW c \in Consumers, PluckOpen(c) PROVE MutexInv'
  BY <1>9, QueueAssumption DEF TypeOK, MutexInv, PluckOpen, Goto, Lock, Unlock,
     Threads, Critical, Waiting
<1>10. ASSUME NEW c \in Consumers, PluckWait(c) PROVE MutexInv'
  BY <1>10, QueueAssumption DEF TypeOK, MutexInv, PluckWait, Goto, Lock, Unlock,
     Threads, Critical, Waiting
<1>11. ASSUME NEW c \in Consumers, PluckNonEmpty(c) PROVE MutexInv'
  BY <1>11, QueueAssumption DEF TypeOK, MutexInv, PluckNonEmpty, Goto, Lock, Unlock,
     Threads, Critical, Waiting
<1>12. ASSUME NEW c \in Consumers, SpuriousWakeup(c) PROVE MutexInv'
  BY <1>12, QueueAssumption DEF TypeOK, MutexInv, SpuriousWakeup, Goto, Lock, Unlock,
     Threads, Critical, Waiting
<1>13. ASSUME NEW c \in Consumers, PluckRelock(c) PROVE MutexInv'
  BY <1>13, QueueAssumption DEF TypeOK, MutexInv, PluckRelock, Goto, Lock, Unlock,
     Threads, Critical, Waiting
<1>14. ASSUME NEW c \in Consumers, PluckDecr(c) PROVE MutexInv'
  BY <1>14, QueueAssumption DEF TypeOK, MutexInv, PluckDecr, Goto, Lock, Unlock,
     Threads, Critical, Waiting
<1>15. ASSUME NEW c \in Consumers, PluckPop(c) PROVE MutexInv'
  BY <1>15, QueueAssumption DEF TypeOK, MutexInv, PluckPop, Goto, Lock, Unlock,
     Threads, Critical, Waiting
<1>16. ASSUME NEW b \in Closers, CallBreakOut(b) PROVE MutexInv'
  BY <1>16, QueueAssumption DEF TypeOK, MutexInv, CallBreakOut, Goto, Lock, Unlock,
     Threads, Critical, Waiting
<1>17. ASSUME NEW b \in Closers, BreakLock(b) PROVE MutexInv'
  BY <1>17, QueueAssumption DEF TypeOK, MutexInv, BreakLock, Goto, Lock, Unlock,
     Threads, Critical, Waiting
<1>18. ASSUME NEW b \in Closers, BreakSet(b) PROVE MutexInv'
  BY <1>18, QueueAssumption DEF TypeOK, MutexInv, BreakSet, Goto, Lock, Unlock,
     Threads, Critical, Waiting
<1>19. ASSUME NEW b \in Closers, BreakNotifyAll(b) PROVE MutexInv'
  BY <1>19, QueueAssumption DEF TypeOK, MutexInv, BreakNotifyAll, Goto, Lock, Unlock,
     Threads, Critical, Waiting
<1>20. CASE UNCHANGED vars
  BY <1>20 DEF vars, MutexInv
<1> QED
  BY <1>1, <1>2, <1>3, <1>4, <1>5, <1>6, <1>7, <1>8, <1>9, <1>10, <1>11,
     <1>12, <1>13, <1>14, <1>15, <1>16, <1>17, <1>18, <1>19, <1>20 DEF Next, Push, Pluck, BreakOut


\* Every step keeps the counter exact up to the lag.
LEMMA SizeStep ==
  ASSUME TypeOK, MutexInv, SizeInv, CheckedInv, [Next]_vars
  PROVE  SizeInv'
<1>1. ASSUME NEW p \in Producers, CallPush(p) PROVE SizeInv'
  BY <1>1, QueueAssumption DEF TypeOK, MutexInv, SizeInv, Lagging, CallPush, Goto,
     Lock, Unlock, Threads, Critical, Waiting
<1>2. ASSUME NEW p \in Producers, PushLock(p) PROVE SizeInv'
  BY <1>2, QueueAssumption DEF TypeOK, MutexInv, SizeInv, Lagging, PushLock, Goto,
     Lock, Unlock, Threads, Critical, Waiting
<1>3. ASSUME NEW p \in Producers, PushEnqueue(p) PROVE SizeInv'
  BY <1>3, QueueAssumption DEF TypeOK, MutexInv, SizeInv, Lagging, PushEnqueue, Goto,
     Lock, Unlock, Threads, Critical, Waiting
<1>4. ASSUME NEW p \in Producers, PushIncr(p) PROVE SizeInv'
  BY <1>4, QueueAssumption DEF TypeOK, MutexInv, SizeInv, Lagging, PushIncr, Goto,
     Lock, Unlock, Threads, Critical, Waiting
<1>5. ASSUME NEW p \in Producers, PushNotify(p) PROVE SizeInv'
  BY <1>5, QueueAssumption DEF TypeOK, MutexInv, SizeInv, Lagging, PushNotify, Goto,
     Lock, Unlock, Threads, Critical, Waiting
<1>6. ASSUME NEW c \in Consumers, CallPluck(c) PROVE SizeInv'
  BY <1>6, QueueAssumption DEF TypeOK, MutexInv, SizeInv, Lagging, CallPluck, Goto,
     Lock, Unlock, Threads, Critical, Waiting
<1>7. ASSUME NEW c \in Consumers, PluckLock(c) PROVE SizeInv'
  BY <1>7, QueueAssumption DEF TypeOK, MutexInv, SizeInv, Lagging, PluckLock, Goto,
     Lock, Unlock, Threads, Critical, Waiting
<1>8. ASSUME NEW c \in Consumers, PluckBroken(c) PROVE SizeInv'
  BY <1>8, QueueAssumption DEF TypeOK, MutexInv, SizeInv, Lagging, PluckBroken, Goto,
     Lock, Unlock, Threads, Critical, Waiting
<1>9. ASSUME NEW c \in Consumers, PluckOpen(c) PROVE SizeInv'
  BY <1>9, QueueAssumption DEF TypeOK, MutexInv, SizeInv, Lagging, PluckOpen, Goto,
     Lock, Unlock, Threads, Critical, Waiting
<1>10. ASSUME NEW c \in Consumers, PluckWait(c) PROVE SizeInv'
  BY <1>10, QueueAssumption DEF TypeOK, MutexInv, SizeInv, Lagging, PluckWait, Goto,
     Lock, Unlock, Threads, Critical, Waiting
<1>11. ASSUME NEW c \in Consumers, PluckNonEmpty(c) PROVE SizeInv'
  BY <1>11, QueueAssumption DEF TypeOK, MutexInv, SizeInv, Lagging, PluckNonEmpty, Goto,
     Lock, Unlock, Threads, Critical, Waiting
<1>12. ASSUME NEW c \in Consumers, SpuriousWakeup(c) PROVE SizeInv'
  BY <1>12, QueueAssumption DEF TypeOK, MutexInv, SizeInv, Lagging, SpuriousWakeup, Goto,
     Lock, Unlock, Threads, Critical, Waiting
<1>13. ASSUME NEW c \in Consumers, PluckRelock(c) PROVE SizeInv'
  BY <1>13, QueueAssumption DEF TypeOK, MutexInv, SizeInv, Lagging, PluckRelock, Goto,
     Lock, Unlock, Threads, Critical, Waiting
<1>14. ASSUME NEW c \in Consumers, PluckDecr(c) PROVE SizeInv'
  BY <1>14, QueueAssumption DEF TypeOK, MutexInv, SizeInv, Lagging, PluckDecr, Goto,
     Lock, Unlock, Threads, Critical, Waiting
<1>15. ASSUME NEW c \in Consumers, PluckPop(c) PROVE SizeInv'
  <2>1. queue_ # <<>> /\ size_ = Len(queue_) - 1
    BY <1>15, LagInside DEF PluckPop, Goto, Threads, CheckedInv
  <2>2. Len(queue_') = Len(queue_) - 1
    BY <1>15, <2>1 DEF TypeOK, PluckPop
  <2>3. ~Lagging'
    BY <1>15, QueueAssumption
       DEF TypeOK, MutexInv, Lagging, PluckPop, Goto, Threads, Critical
  <2> QED
    BY <1>15, <2>1, <2>2, <2>3 DEF SizeInv, PluckPop
<1>16. ASSUME NEW b \in Closers, CallBreakOut(b) PROVE SizeInv'
  BY <1>16, QueueAssumption DEF TypeOK, MutexInv, SizeInv, Lagging, CallBreakOut, Goto,
     Lock, Unlock, Threads, Critical, Waiting
<1>17. ASSUME NEW b \in Closers, BreakLock(b) PROVE SizeInv'
  BY <1>17, QueueAssumption DEF TypeOK, MutexInv, SizeInv, Lagging, BreakLock, Goto,
     Lock, Unlock, Threads, Critical, Waiting
<1>18. ASSUME NEW b \in Closers, BreakSet(b) PROVE SizeInv'
  BY <1>18, QueueAssumption DEF TypeOK, MutexInv, SizeInv, Lagging, BreakSet, Goto,
     Lock, Unlock, Threads, Critical, Waiting
<1>19. ASSUME NEW b \in Closers, BreakNotifyAll(b) PROVE SizeInv'
  BY <1>19, QueueAssumption DEF TypeOK, MutexInv, SizeInv, Lagging, BreakNotifyAll, Goto,
     Lock, Unlock, Threads, Critical, Waiting
<1>20. CASE UNCHANGED vars
  BY <1>20 DEF vars, SizeInv, Lagging
<1> QED
  BY <1>1, <1>2, <1>3, <1>4, <1>5, <1>6, <1>7, <1>8, <1>9, <1>10, <1>11,
     <1>12, <1>13, <1>14, <1>15, <1>16, <1>17, <1>18, <1>19, <1>20 DEF Next, Push, Pluck, BreakOut


\* Every step keeps what the checks of pluck established.
LEMMA CheckedStep ==
  ASSUME TypeOK, MutexInv, CheckedInv, [Next]_vars
  PROVE  CheckedInv'
<1>1. ASSUME NEW p \in Producers, CallPush(p) PROVE CheckedInv'
  BY <1>1, QueueAssumption DEF TypeOK, MutexInv, CheckedInv, CallPush, Goto,
     Lock, Unlock, Threads, Critical, Waiting
<1>2. ASSUME NEW p \in Producers, PushLock(p) PROVE CheckedInv'
  BY <1>2, QueueAssumption DEF TypeOK, MutexInv, CheckedInv, PushLock, Goto,
     Lock, Unlock, Threads, Critical, Waiting
<1>3. ASSUME NEW p \in Producers, PushEnqueue(p) PROVE CheckedInv'
  BY <1>3, QueueAssumption DEF TypeOK, MutexInv, CheckedInv, PushEnqueue, Goto,
     Lock, Unlock, Threads, Critical, Waiting
<1>4. ASSUME NEW p \in Producers, PushIncr(p) PROVE CheckedInv'
  BY <1>4, QueueAssumption DEF TypeOK, MutexInv, CheckedInv, PushIncr, Goto,
     Lock, Unlock, Threads, Critical, Waiting
<1>5. ASSUME NEW p \in Producers, PushNotify(p) PROVE CheckedInv'
  BY <1>5, QueueAssumption DEF TypeOK, MutexInv, CheckedInv, PushNotify, Goto,
     Lock, Unlock, Threads, Critical, Waiting
<1>6. ASSUME NEW c \in Consumers, CallPluck(c) PROVE CheckedInv'
  BY <1>6, QueueAssumption DEF TypeOK, MutexInv, CheckedInv, CallPluck, Goto,
     Lock, Unlock, Threads, Critical, Waiting
<1>7. ASSUME NEW c \in Consumers, PluckLock(c) PROVE CheckedInv'
  BY <1>7, QueueAssumption DEF TypeOK, MutexInv, CheckedInv, PluckLock, Goto,
     Lock, Unlock, Threads, Critical, Waiting
<1>8. ASSUME NEW c \in Consumers, PluckBroken(c) PROVE CheckedInv'
  BY <1>8, QueueAssumption DEF TypeOK, MutexInv, CheckedInv, PluckBroken, Goto,
     Lock, Unlock, Threads, Critical, Waiting
<1>9. ASSUME NEW c \in Consumers, PluckOpen(c) PROVE CheckedInv'
  BY <1>9, QueueAssumption DEF TypeOK, MutexInv, CheckedInv, PluckOpen, Goto,
     Lock, Unlock, Threads, Critical, Waiting
<1>10. ASSUME NEW c \in Consumers, PluckWait(c) PROVE CheckedInv'
  BY <1>10, QueueAssumption DEF TypeOK, MutexInv, CheckedInv, PluckWait, Goto,
     Lock, Unlock, Threads, Critical, Waiting
<1>11. ASSUME NEW c \in Consumers, PluckNonEmpty(c) PROVE CheckedInv'
  BY <1>11, QueueAssumption DEF TypeOK, MutexInv, CheckedInv, PluckNonEmpty, Goto,
     Lock, Unlock, Threads, Critical, Waiting
<1>12. ASSUME NEW c \in Consumers, SpuriousWakeup(c) PROVE CheckedInv'
  BY <1>12, QueueAssumption DEF TypeOK, MutexInv, CheckedInv, SpuriousWakeup, Goto,
     Lock, Unlock, Threads, Critical, Waiting
<1>13. ASSUME NEW c \in Consumers, PluckRelock(c) PROVE CheckedInv'
  BY <1>13, QueueAssumption DEF TypeOK, MutexInv, CheckedInv, PluckRelock, Goto,
     Lock, Unlock, Threads, Critical, Waiting
<1>14. ASSUME NEW c \in Consumers, PluckDecr(c) PROVE CheckedInv'
  BY <1>14, QueueAssumption DEF TypeOK, MutexInv, CheckedInv, PluckDecr, Goto,
     Lock, Unlock, Threads, Critical, Waiting
<1>15. ASSUME NEW c \in Consumers, PluckPop(c) PROVE CheckedInv'
  BY <1>15, QueueAssumption DEF TypeOK, MutexInv, CheckedInv, PluckPop, Goto,
     Lock, Unlock, Threads, Critical, Waiting
<1>16. ASSUME NEW b \in Closers, CallBreakOut(b) PROVE CheckedInv'
  BY <1>16, QueueAssumption DEF TypeOK, MutexInv, CheckedInv, CallBreakOut, Goto,
     Lock, Unlock, Threads, Critical, Waiting
<1>17. ASSUME NEW b \in Closers, BreakLock(b) PROVE CheckedInv'
  BY <1>17, QueueAssumption DEF TypeOK, MutexInv, CheckedInv, BreakLock, Goto,
     Lock, Unlock, Threads, Critical, Waiting
<1>18. ASSUME NEW b \in Closers, BreakSet(b) PROVE CheckedInv'
  BY <1>18, QueueAssumption DEF TypeOK, MutexInv, CheckedInv, BreakSet, Goto,
     Lock, Unlock, Threads, Critical, Waiting
<1>19. ASSUME NEW b \in Closers, BreakNotifyAll(b) PROVE CheckedInv'
  BY <1>19, QueueAssumption DEF TypeOK, MutexInv, CheckedInv, BreakNotifyAll, Goto,
     Lock, Unlock, Threads, Critical, Waiting
<1>20. CASE UNCHANGED vars
  BY <1>20 DEF vars, CheckedInv
<1> QED
  BY <1>1, <1>2, <1>3, <1>4, <1>5, <1>6, <1>7, <1>8, <1>9, <1>10, <1>11,
     <1>12, <1>13, <1>14, <1>15, <1>16, <1>17, <1>18, <1>19, <1>20 DEF Next, Push, Pluck, BreakOut


\* Every step keeps the bound a lone gated producer observes.
LEMMA GateStep ==
  ASSUME TypeOK, MutexInv, SizeInv, CheckedInv, GateInv, [Next]_vars
  PROVE  GateInv'
<1>1. ASSUME NEW p \in Producers, CallPush(p) PROVE GateInv'
  BY <1>1, QueueAssumption DEF TypeOK, MutexInv, GateInv, CallPush, Goto,
     Lock, Unlock, Threads, Critical, Waiting
<1>2. ASSUME NEW p \in Producers, PushLock(p) PROVE GateInv'
  BY <1>2, QueueAssumption DEF TypeOK, MutexInv, GateInv, PushLock, Goto,
     Lock, Unlock, Threads, Critical, Waiting
<1>3. ASSUME NEW p \in Producers, PushEnqueue(p) PROVE GateInv'
  <2>1. size_ = Len(queue_) \/ pc[p] # "enqueue"
    BY ExactInside DEF Threads, Critical
  <2>2. Len(queue_') = Len(queue_) + 1
    BY <1>3 DEF TypeOK, PushEnqueue
  <2> QED
    BY <1>3, <2>1, <2>2, QueueAssumption
       DEF TypeOK, GateInv, PushEnqueue, Goto, Threads
<1>4. ASSUME NEW p \in Producers, PushIncr(p) PROVE GateInv'
  BY <1>4, QueueAssumption DEF TypeOK, MutexInv, GateInv, PushIncr, Goto,
     Lock, Unlock, Threads, Critical, Waiting
<1>5. ASSUME NEW p \in Producers, PushNotify(p) PROVE GateInv'
  BY <1>5, QueueAssumption DEF TypeOK, MutexInv, GateInv, PushNotify, Goto,
     Lock, Unlock, Threads, Critical, Waiting
<1>6. ASSUME NEW c \in Consumers, CallPluck(c) PROVE GateInv'
  BY <1>6, QueueAssumption DEF TypeOK, MutexInv, GateInv, CallPluck, Goto,
     Lock, Unlock, Threads, Critical, Waiting
<1>7. ASSUME NEW c \in Consumers, PluckLock(c) PROVE GateInv'
  BY <1>7, QueueAssumption DEF TypeOK, MutexInv, GateInv, PluckLock, Goto,
     Lock, Unlock, Threads, Critical, Waiting
<1>8. ASSUME NEW c \in Consumers, PluckBroken(c) PROVE GateInv'
  BY <1>8, QueueAssumption DEF TypeOK, MutexInv, GateInv, PluckBroken, Goto,
     Lock, Unlock, Threads, Critical, Waiting
<1>9. ASSUME NEW c \in Consumers, PluckOpen(c) PROVE GateInv'
  BY <1>9, QueueAssumption DEF TypeOK, MutexInv, GateInv, PluckOpen, Goto,
     Lock, Unlock, Threads, Critical, Waiting
<1>10. ASSUME NEW c \in Consumers, PluckWait(c) PROVE GateInv'
  BY <1>10, QueueAssumption DEF TypeOK, MutexInv, GateInv, PluckWait, Goto,
     Lock, Unlock, Threads, Critical, Waiting
<1>11. ASSUME NEW c \in Consumers, PluckNonEmpty(c) PROVE GateInv'
  BY <1>11, QueueAssumption DEF TypeOK, MutexInv, GateInv, PluckNonEmpty, Goto,
     Lock, Unlock, Threads, Critical, Waiting
<1>12. ASSUME NEW c \in Consumers, SpuriousWakeup(c) PROVE GateInv'
  BY <1>12, QueueAssumption DEF TypeOK, MutexInv, GateInv, SpuriousWakeup, Goto,
     Lock, Unlock, Threads, Critical, Waiting
<1>13. ASSUME NEW c \in Consumers, PluckRelock(c) PROVE GateInv'
  BY <1>13, QueueAssumption DEF TypeOK, MutexInv, GateInv, PluckRelock, Goto,
     Lock, Unlock, Threads, Critical, Waiting
<1>14. ASSUME NEW c \in Consumers, PluckDecr(c) PROVE GateInv'
  BY <1>14, QueueAssumption DEF TypeOK, MutexInv, GateInv, PluckDecr, Goto,
     Lock, Unlock, Threads, Critical, Waiting
<1>15. ASSUME NEW c \in Consumers, PluckPop(c) PROVE GateInv'
  BY <1>15, QueueAssumption DEF TypeOK, MutexInv, GateInv, PluckPop, Goto,
     Lock, Unlock, Threads, Critical, Waiting
<1>16. ASSUME NEW b \in Closers, CallBreakOut(b) PROVE GateInv'
  BY <1>16, QueueAssumption DEF TypeOK, MutexInv, GateInv, CallBreakOut, Goto,
     Lock, Unlock, Threads, Critical, Waiting
<1>17. ASSUME NEW b \in Closers, BreakLock(b) PROVE GateInv'
  BY <1>17, QueueAssumption DEF TypeOK, MutexInv, GateInv, BreakLock, Goto,
     Lock, Unlock, Threads, Critical, Waiting
<1>18. ASSUME NEW b \in Closers, BreakSet(b) PROVE GateInv'
  BY <1>18, QueueAssumption DEF TypeOK, MutexInv, GateInv, BreakSet, Goto,
     Lock, Unlock, Threads, Critical, Waiting
<1>19. ASSUME NEW b \in Closers, BreakNotifyAll(b) PROVE GateInv'
  BY <1>19, QueueAssumption DEF TypeOK, MutexInv, GateInv, BreakNotifyAll, Goto,
     Lock, Unlock, Threads, Critical, Waiting
<1>20. CASE UNCHANGED vars
  BY <1>20 DEF vars, GateInv
<1> QED
  BY <1>1, <1>2, <1>3, <1>4, <1>5, <1>6, <1>7, <1>8, <1>9, <1>10, <1>11,
     <1>12, <1>13, <1>14, <1>15, <1>16, <1>17, <1>18, <1>19, <1>20 DEF Next, Push, Pluck, BreakOut


\* Every step keeps a lone polling consumer supplied.
LEMMA PollStep ==
  ASSUME TypeOK, MutexInv, SizeInv, CheckedInv, PollInv, [Next]_vars
  PROVE  PollInv'
<1>1. ASSUME NEW p \in Producers, CallPush(p) PROVE PollInv'
  BY <1>1, QueueAssumption DEF TypeOK, MutexInv, PollInv, CallPush, Goto,
     Lock, Unlock, Threads, Critical, Waiting
<1>2. ASSUME NEW p \in Producers, PushLock(p) PROVE PollInv'
  BY <1>2, QueueAssumption DEF TypeOK, MutexInv, PollInv, PushLock, Goto,
     Lock, Unlock, Threads, Critical, Waiting
<1>3. ASSUME NEW p \in Producers, PushEnqueue(p) PROVE PollInv'
  BY <1>3, QueueAssumption DEF TypeOK, MutexInv, PollInv, PushEnqueue, Goto,
     Lock, Unlock, Threads, Critical, Waiting
<1>4. ASSUME NEW p \in Producers, PushIncr(p) PROVE PollInv'
  BY <1>4, QueueAssumption DEF TypeOK, MutexInv, PollInv, PushIncr, Goto,
     Lock, Unlock, Threads, Critical, Waiting
<1>5. ASSUME NEW p \in Producers, PushNotify(p) PROVE PollInv'
  BY <1>5, QueueAssumption DEF TypeOK, MutexInv, PollInv, PushNotify, Goto,
     Lock, Unlock, Threads, Critical, Waiting
<1>6. ASSUME NEW c \in Consumers, CallPluck(c) PROVE PollInv'
  BY <1>6, QueueAssumption DEF TypeOK, MutexInv, PollInv, CallPluck, Goto,
     Lock, Unlock, Threads, Critical, Waiting
<1>7. ASSUME NEW c \in Consumers, PluckLock(c) PROVE PollInv'
  BY <1>7, QueueAssumption DEF TypeOK, MutexInv, PollInv, PluckLock, Goto,
     Lock, Unlock, Threads, Critical, Waiting
<1>8. ASSUME NEW c \in Consumers, PluckBroken(c) PROVE PollInv'
  BY <1>8, QueueAssumption DEF TypeOK, MutexInv, PollInv, PluckBroken, Goto,
     Lock, Unlock, Threads, Critical, Waiting
<1>9. ASSUME NEW c \in Consumers, PluckOpen(c) PROVE PollInv'
  BY <1>9, QueueAssumption DEF TypeOK, MutexInv, PollInv, PluckOpen, Goto,
     Lock, Unlock, Threads, Critical, Waiting
<1>10. ASSUME NEW c \in Consumers, PluckWait(c) PROVE PollInv'
  <2>1. size_ = Len(queue_)
    BY <1>10, ExactInside DEF PluckWait, Goto, Threads, Critical
  <2> QED
    BY <1>10, <2>1, QueueAssumption DEF TypeOK, PollInv, PluckWait, Goto, Threads
<1>11. ASSUME NEW c \in Consumers, PluckNonEmpty(c) PROVE PollInv'
  BY <1>11, QueueAssumption DEF TypeOK, MutexInv, PollInv, PluckNonEmpty, Goto,
     Lock, Unlock, Threads, Critical, Waiting
<1>12. ASSUME NEW c \in Consumers, SpuriousWakeup(c) PROVE PollInv'
  BY <1>12, QueueAssumption DEF TypeOK, MutexInv, PollInv, SpuriousWakeup, Goto,
     Lock, Unlock, Threads, Critical, Waiting
<1>13. ASSUME NEW c \in Consumers, PluckRelock(c) PROVE PollInv'
  BY <1>13, QueueAssumption DEF TypeOK, MutexInv, PollInv, PluckRelock, Goto,
     Lock, Unlock, Threads, Critical, Waiting
<1>14. ASSUME NEW c \in Consumers, PluckDecr(c) PROVE PollInv'
  BY <1>14, QueueAssumption DEF TypeOK, MutexInv, PollInv, PluckDecr, Goto,
     Lock, Unlock, Threads, Critical, Waiting
<1>15. ASSUME NEW c \in Consumers, PluckPop(c) PROVE PollInv'
  BY <1>15, QueueAssumption DEF TypeOK, MutexInv, PollInv, PluckPop, Goto,
     Lock, Unlock, Threads, Critical, Waiting
<1>16. ASSUME NEW b \in Closers, CallBreakOut(b) PROVE PollInv'
  BY <1>16, QueueAssumption DEF TypeOK, MutexInv, PollInv, CallBreakOut, Goto,
     Lock, Unlock, Threads, Critical, Waiting
<1>17. ASSUME NEW b \in Closers, BreakLock(b) PROVE PollInv'
  BY <1>17, QueueAssumption DEF TypeOK, MutexInv, PollInv, BreakLock, Goto,
     Lock, Unlock, Threads, Critical, Waiting
<1>18. ASSUME NEW b \in Closers, BreakSet(b) PROVE PollInv'
  BY <1>18, QueueAssumption DEF TypeOK, MutexInv, PollInv, BreakSet, Goto,
     Lock, Unlock, Threads, Critical, Waiting
<1>19. ASSUME NEW b \in Closers, BreakNotifyAll(b) PROVE PollInv'
  BY <1>19, QueueAssumption DEF TypeOK, MutexInv, PollInv, BreakNotifyAll, Goto,
     Lock, Unlock, Threads, Critical, Waiting
<1>20. CASE UNCHANGED vars
  BY <1>20 DEF vars, PollInv
<1> QED
  BY <1>1, <1>2, <1>3, <1>4, <1>5, <1>6, <1>7, <1>8, <1>9, <1>10, <1>11,
     <1>12, <1>13, <1>14, <1>15, <1>16, <1>17, <1>18, <1>19, <1>20 DEF Next, Push, Pluck, BreakOut

-----------------------------------------------------------------------------
(* Theorems *)

\* IInv holds in every reachable state.
THEOREM Invariance == Spec => []IInv
<1>1. IInv /\ [Next]_vars => IInv'
  BY TypeStep, MutexStep, SizeStep, CheckedStep, GateStep, PollStep DEF IInv
<1> QED
  BY InitIInv, <1>1, PTL DEF Spec

\* ThdQueue keeps its types in every behaviour.
THEOREM TypeCorrect == Spec => []TypeOK
<1>1. IInv => TypeOK
  BY DEF IInv
<1> QED
  BY Invariance, <1>1, PTL

\* size() and empty(), read without the mutex, never overstate the queue, and
\* are exact while no push or pluck is inside its critical section.
THEOREM SizeIsSafe == Spec => []SizeNeverOverstates
<1>1. IInv => SizeNeverOverstates
  <2> SUFFICES ASSUME IInv PROVE SizeNeverOverstates
    OBVIOUS
  <2>1. size_ <= Len(queue_)
    BY DEF IInv, TypeOK, SizeInv
  <2>2. ASSUME mutex_ = NoThread PROVE ~Lagging
    BY <2>2, QueueAssumption DEF IInv, MutexInv, Lagging, Critical
  <2> QED
    BY <2>1, <2>2 DEF IInv, SizeInv, TypeOK, SizeNeverOverstates
<1> QED
  BY Invariance, <1>1, PTL

\* A queue with one producer that checks size() first is never longer than the
\* bound it checks against.
THEOREM GateBounds == Spec => []SoleGatedProducerBound
<1>1. IInv => SoleGatedProducerBound
  BY DEF IInv, GateInv, SoleGatedProducerBound
<1> QED
  BY Invariance, <1>1, PTL

\* A lone consumer that checks empty() first never blocks in pluck.
THEOREM PollerIsNeverBlocked == Spec => []SolePollerNeverWaits
<1>1. IInv => SolePollerNeverWaits
  BY QueueAssumption DEF IInv, PollInv, SolePollerNeverWaits, Waiting
<1> QED
  BY Invariance, <1>1, PTL

-----------------------------------------------------------------------------
(* No lost wake-up: two sets of threads are counted, so a step is described *)
(* by what it does to them.                                                 *)

\* The producers that have a value in the queue and still have to notify.
Notifying == {p \in Producers : pc[p] \in {"incr", "notify"}}

\* The sets that are counted are finite.
LEMMA FiniteSides ==
  /\ IsFiniteSet(Awake) /\ Cardinality(Awake) \in Nat
  /\ IsFiniteSet(Notifying) /\ Cardinality(Notifying) \in Nat
<1>1. Awake \in SUBSET Threads /\ Notifying \in SUBSET Threads
  BY DEF Awake, Notifying, Threads
<1>2. IsFiniteSet(Awake) /\ IsFiniteSet(Notifying)
  BY <1>1, FiniteAssumption, FS_Subset
<1> QED
  BY <1>2, FS_CardinalityType

\* Every step keeps BrokenInv: a consumer falls asleep only after it has read
\* break_out_ as unset, with the mutex held since.
LEMMA BrokenStep ==
  ASSUME TypeOK, MutexInv, CheckedInv, BrokenInv, [Next]_vars
  PROVE  BrokenInv'
<1> USE QueueAssumption DEF Waiting, Goto
<1>1. ASSUME NEW p \in Producers, CallPush(p) \/ Push(p) PROVE BrokenInv'
  <2>1. CASE CallPush(p) \/ PushLock(p) \/ PushEnqueue(p) \/ PushIncr(p)
    <3>1. /\ break_out_' = break_out_ /\ \A t \in Threads \ {p} : pc'[t] = pc[t]
          /\ Waiting' = Waiting
      BY <2>1 DEF TypeOK, CallPush, PushLock, PushEnqueue, PushIncr, Threads,
         ConsumerPC
    <3> QED
      BY <3>1 DEF BrokenInv, Threads
  <2>2. CASE PushNotify(p)
    <3>1. /\ break_out_' = break_out_ /\ Waiting' \subseteq Waiting
          /\ \A b \in Closers : pc'[b] = pc[b]
      BY <2>2 DEF TypeOK, PushNotify, Threads
    <3> QED
      BY <3>1 DEF BrokenInv
  <2> QED
    BY <1>1, <2>1, <2>2 DEF Push
<1>2. ASSUME NEW c \in Consumers, PluckWait(c) PROVE BrokenInv'
  BY <1>2 DEF PluckWait, CheckedInv, BrokenInv
<1>3. ASSUME NEW c \in Consumers,
             \/ CallPluck(c) \/ PluckLock(c) \/ PluckBroken(c) \/ PluckOpen(c)
             \/ PluckNonEmpty(c) \/ PluckRelock(c) \/ PluckDecr(c) \/ PluckPop(c)
             \/ SpuriousWakeup(c)
      PROVE  BrokenInv'
  <2>1. /\ break_out_' = break_out_ /\ Waiting' \subseteq Waiting
        /\ \A b \in Closers : pc'[b] = pc[b]
    BY <1>3 DEF TypeOK, Threads, CallPluck, PluckLock, PluckBroken, PluckOpen,
       PluckNonEmpty, PluckRelock, PluckDecr, PluckPop, SpuriousWakeup
  <2> QED
    BY <2>1 DEF BrokenInv
<1>4. ASSUME NEW b \in Closers, CallBreakOut(b) \/ BreakLock(b) PROVE BrokenInv'
  <2>1. /\ break_out_' = break_out_ /\ Waiting' = Waiting
        /\ \A a \in Closers : pc[a] = "notify_all" => pc'[a] = "notify_all"
    BY <1>4 DEF TypeOK, Threads, CallBreakOut, BreakLock
  <2> QED
    BY <2>1 DEF BrokenInv
<1>5. ASSUME NEW b \in Closers, BreakSet(b) PROVE BrokenInv'
  BY <1>5 DEF TypeOK, Threads, BreakSet, BrokenInv
<1>6. ASSUME NEW b \in Closers, BreakNotifyAll(b) PROVE BrokenInv'
  BY <1>6 DEF TypeOK, Threads, BreakNotifyAll, BrokenInv, ConsumerPC
<1>7. CASE UNCHANGED vars
  BY <1>7 DEF vars, BrokenInv
<1> QED
  BY <1>1, <1>2, <1>3, <1>4, <1>5, <1>6, <1>7 DEF Next, Pluck, BreakOut

\* Every step keeps NoLostWakeup: a value that enters the queue comes with a
\* push that will notify, the notification hands its place over to the consumer
\* it wakes, and a consumer leaves pluck awake only with a value or broken out.
LEMMA WakeupStep ==
  ASSUME TypeOK, MutexInv, CheckedInv, BrokenInv, NoLostWakeup, [Next]_vars
  PROVE  NoLostWakeup'
<1> DEFINE Covered == Len(queue_) <= Cardinality(Awake) + Cardinality(Notifying)
<1> USE QueueAssumption DEF Goto
<1>0. /\ NoLostWakeup <=> (Waiting # {} => Covered)
      /\ NoLostWakeup' <=> (Waiting' # {} => Covered')
  BY DEF NoLostWakeup, Notifying
<1> HIDE DEF Covered
<1>a. /\ IsFiniteSet(Awake) /\ Cardinality(Awake) \in Nat
      /\ IsFiniteSet(Notifying) /\ Cardinality(Notifying) \in Nat
      /\ Len(queue_) \in Nat
  BY FiniteSides DEF TypeOK
<1>b. \* A step that keeps the queue and moves threads only into the two sets.
      ASSUME queue_' = queue_, Waiting' \subseteq Waiting,
             Awake' = Awake \/ \E c : Awake' = Awake \cup {c},
             Notifying' = Notifying
      PROVE  NoLostWakeup'
  <2>1. Cardinality(Awake') \in Nat /\ Cardinality(Awake') >= Cardinality(Awake)
    <3>1. CASE Awake' = Awake
      BY <3>1, <1>a
    <3>2. ASSUME NEW c, Awake' = Awake \cup {c}
          PROVE  Cardinality(Awake') \in Nat /\ Cardinality(Awake') >= Cardinality(Awake)
      <4>1. Cardinality(Awake \cup {c}) \in {Cardinality(Awake), Cardinality(Awake) + 1}
        BY <1>a, FS_AddElement
      <4> QED
        BY <3>2, <4>1, <1>a
    <3> QED
      BY <1>b, <3>1, <3>2
  <2> QED
    BY <1>0, <1>a, <1>b, <2>1 DEF Covered
<1>1. ASSUME NEW p \in Producers, CallPush(p) \/ PushLock(p) \/ PushIncr(p)
      PROVE  NoLostWakeup'
  <2>1. /\ queue_' = queue_ /\ Waiting' = Waiting /\ Awake' = Awake
        /\ Notifying' = Notifying
    BY <1>1 DEF TypeOK, Threads, CallPush, PushLock, PushIncr, Waiting, Awake,
       Notifying
  <2> QED
    BY <2>1, <1>b
<1>2. ASSUME NEW p \in Producers, PushEnqueue(p) PROVE NoLostWakeup'
  <2>1. /\ Len(queue_') = Len(queue_) + 1 /\ Waiting' = Waiting /\ Awake' = Awake
        /\ p \notin Notifying /\ Notifying' = Notifying \cup {p}
    BY <1>2 DEF TypeOK, Threads, PushEnqueue, Waiting, Awake, Notifying
  <2>2. Cardinality(Notifying') = Cardinality(Notifying) + 1
    BY <1>a, <2>1, FS_AddElement
  <2> QED
    BY <1>0, <1>a, <2>1, <2>2 DEF Covered
<1>3. ASSUME NEW p \in Producers, PushNotify(p) PROVE NoLostWakeup'
  <2>1. CASE Waiting = {} /\ pc' = [pc EXCEPT ![p] = "idle"]
    <3>1. Waiting' = {}
      BY <2>1 DEF TypeOK, Threads, Waiting
    <3> QED
      BY <3>1, <1>0
  <2>2. ASSUME NEW c \in Waiting,
               pc' = [pc EXCEPT ![p] = "idle", ![c] = "relock"]
        PROVE  NoLostWakeup'
    <3>1. /\ queue_' = queue_ /\ Waiting # {}
          /\ c \notin Awake /\ Awake' = Awake \cup {c}
          /\ p \in Notifying /\ Notifying' = Notifying \ {p}
      BY <1>3, <2>2 DEF TypeOK, Threads, PushNotify, Waiting, Awake, Notifying
    <3>2. Cardinality(Awake') = Cardinality(Awake) + 1
      BY <1>a, <3>1, FS_AddElement
    <3>3. Cardinality(Notifying') = Cardinality(Notifying) - 1
      BY <1>a, <3>1, FS_RemoveElement
    <3> QED
      BY <1>0, <1>a, <3>1, <3>2, <3>3 DEF Covered
  <2> QED
    BY <1>3, <2>1, <2>2 DEF PushNotify
<1>4. ASSUME NEW c \in Consumers,
             \/ CallPluck(c) \/ PluckLock(c) \/ PluckOpen(c) \/ PluckNonEmpty(c)
             \/ PluckRelock(c) \/ PluckDecr(c) \/ SpuriousWakeup(c)
      PROVE  NoLostWakeup'
  <2>1. /\ queue_' = queue_ /\ Waiting' \subseteq Waiting
        /\ Awake' = Awake \/ Awake' = Awake \cup {c}
        /\ Notifying' = Notifying
    BY <1>4 DEF TypeOK, Threads, CallPluck, PluckLock, PluckOpen, PluckNonEmpty,
       PluckRelock, PluckDecr, SpuriousWakeup, Waiting, Awake, Notifying
  <2> QED
    BY <2>1, <1>b
<1>5. ASSUME NEW c \in Consumers, PluckBroken(c) PROVE NoLostWakeup'
  <2>1. \A b \in Closers : pc[b] # "notify_all"
    BY <1>5, OneInside DEF PluckBroken, Threads, Critical
  <2>2. Waiting = {}
    BY <1>5, <2>1 DEF PluckBroken, BrokenInv
  <2>3. Waiting' = {}
    BY <1>5, <2>2 DEF TypeOK, Threads, PluckBroken, Waiting
  <2> QED
    BY <2>3, <1>0
<1>6. ASSUME NEW c \in Consumers, PluckWait(c) PROVE NoLostWakeup'
  <2>1. Len(queue_') = 0
    BY <1>6 DEF PluckWait
  <2>2. Cardinality(Awake') \in Nat /\ Cardinality(Notifying') \in Nat
    <3>1. Awake' \in SUBSET Threads /\ Notifying' \in SUBSET Threads
      BY DEF Awake, Notifying, Threads
    <3> QED
      BY <3>1, FiniteAssumption, FS_Subset, FS_CardinalityType
  <2> QED
    BY <1>0, <2>1, <2>2 DEF Covered
<1>7. ASSUME NEW c \in Consumers, PluckPop(c) PROVE NoLostWakeup'
  <2>1. Len(queue_') = Len(queue_) - 1
    BY <1>7 DEF TypeOK, PluckPop, CheckedInv
  <2>2. /\ Waiting' = Waiting
        /\ c \in Awake /\ Awake' = Awake \ {c} /\ Notifying' = Notifying
    BY <1>7 DEF TypeOK, Threads, PluckPop, Waiting, Awake, Notifying
  <2>3. Cardinality(Awake') = Cardinality(Awake) - 1
    BY <1>a, <2>2, FS_RemoveElement
  <2> QED
    BY <1>0, <1>a, <2>1, <2>2, <2>3 DEF Covered
<1>8. ASSUME NEW b \in Closers, CallBreakOut(b) \/ BreakLock(b) \/ BreakSet(b)
      PROVE  NoLostWakeup'
  <2>1. /\ queue_' = queue_ /\ Waiting' = Waiting /\ Awake' = Awake
        /\ Notifying' = Notifying
    BY <1>8 DEF TypeOK, Threads, CallBreakOut, BreakLock, BreakSet, Waiting, Awake,
       Notifying
  <2> QED
    BY <2>1, <1>b
<1>9. ASSUME NEW b \in Closers, BreakNotifyAll(b) PROVE NoLostWakeup'
  <2>1. Waiting' = {}
    BY <1>9 DEF TypeOK, Threads, BreakNotifyAll, Waiting
  <2> QED
    BY <2>1, <1>0
<1>10. CASE UNCHANGED vars
  BY <1>10 DEF vars, NoLostWakeup, Waiting, Awake
<1> QED
  BY <1>1, <1>2, <1>3, <1>4, <1>5, <1>6, <1>7, <1>8, <1>9, <1>10
     DEF Next, Push, Pluck, BreakOut

\* While a consumer sleeps there is, for every value in the queue, a consumer
\* awake in pluck or a push about to notify.
THEOREM WakeupsAreNotLost == Spec => []NoLostWakeup
<1>1. Init => BrokenInv /\ NoLostWakeup
  <2> SUFFICES ASSUME Init PROVE Waiting = {}
    BY DEF BrokenInv, NoLostWakeup
  <2> QED
    BY DEF Init, Waiting, Threads
<1>2. IInv /\ BrokenInv /\ NoLostWakeup /\ [Next]_vars => (BrokenInv /\ NoLostWakeup)'
  BY BrokenStep, WakeupStep DEF IInv
<1> QED
  BY Invariance, <1>1, <1>2, PTL DEF Spec

-----------------------------------------------------------------------------
(* Refinement: every step is a step of BlockingFifo or leaves it unchanged. *)

\* The initial state is one of BlockingFifo.
LEMMA InitRefines == Init => Fifo!Init
BY DEF Init, Fifo!Init

\* Every step is one of BlockingFifo or leaves its variables alone.
LEMMA StepRefines ==
  ASSUME TypeOK, CheckedInv, [Next]_vars
  PROVE  [Fifo!Next]_(Fifo!vars)
<1> USE DEF Fifo!Next, Fifo!vars
<1>1. ASSUME NEW p \in Producers, PushEnqueue(p) PROVE \E v \in Value : Fifo!Put(v)
  BY <1>1 DEF PushEnqueue, Fifo!Put
<1>2. ASSUME NEW c \in Consumers, PluckPop(c) PROVE Fifo!Take
  BY <1>2 DEF PluckPop, Goto, CheckedInv, Fifo!Take
<1>3. ASSUME NEW b \in Closers, BreakSet(b) PROVE Fifo!Close
  BY <1>3 DEF BreakSet, Fifo!Close
<1>4. ASSUME NEW p \in Producers,
             CallPush(p) \/ PushLock(p) \/ PushIncr(p) \/ PushNotify(p)
      PROVE  UNCHANGED Fifo!vars
  BY <1>4 DEF CallPush, PushLock, PushIncr, PushNotify
<1>5. ASSUME NEW c \in Consumers,
             \/ CallPluck(c) \/ PluckLock(c) \/ PluckBroken(c) \/ PluckOpen(c)
             \/ PluckWait(c) \/ PluckNonEmpty(c) \/ PluckRelock(c) \/ PluckDecr(c)
             \/ SpuriousWakeup(c)
      PROVE  UNCHANGED Fifo!vars
  BY <1>5 DEF CallPluck, PluckLock, PluckBroken, PluckOpen, PluckWait,
              PluckNonEmpty, PluckRelock, PluckDecr, SpuriousWakeup
<1>6. ASSUME NEW b \in Closers,
             CallBreakOut(b) \/ BreakLock(b) \/ BreakNotifyAll(b)
      PROVE  UNCHANGED Fifo!vars
  BY <1>6 DEF CallBreakOut, BreakLock, BreakNotifyAll
<1>7. CASE UNCHANGED vars
  BY <1>7 DEF vars
<1> QED
  BY <1>1, <1>2, <1>3, <1>4, <1>5, <1>6, <1>7 DEF Next, Push, Pluck, BreakOut

\* ThdQueue implements the safety part of the abstract queue: first in first
\* out, nothing taken twice, nothing taken after break_out.
THEOREM RefinesFifo == Spec => Fifo!Init /\ [][Fifo!Next]_(Fifo!vars)
<1>1. IInv /\ [Next]_vars => [Fifo!Next]_(Fifo!vars)
  BY StepRefines DEF IInv
<1> QED
  BY InitRefines, Invariance, <1>1, PTL DEF Spec
=============================================================================
