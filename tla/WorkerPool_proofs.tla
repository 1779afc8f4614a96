-------------------------- MODULE WorkerPool_proofs --------------------------
(***************************************************************************)
(* Safety of WorkerPool for every set of workers.  Both queues keep the    *)
(* inductive invariant of ThdQueue_proofs, because every step of the pool  *)
(* is a step of each queue or leaves it alone; the requests are then       *)
(* counted on their way from one queue to the other.                       *)
(***************************************************************************)
EXTENDS WorkerPool, ThdQueue_proofs

\* What is proved about a queue, for out_queue_.
OutP == INSTANCE ThdQueue_proofs WITH
  Producers <- Consumers, Consumers <- Producers, Gated <- {}, Polling <- Producers,
  mutex_ <- out_mutex, queue_ <- out_queue, size_ <- out_size,
  break_out_ <- out_break_out, pc <- out_pc, taken <- out_taken

-----------------------------------------------------------------------------
(* How often a value occurs in a sequence *)

Positions(v, s) == {i \in DOMAIN s : s[i] = v}

\* Counting is defined: the positions are finitely many.
LEMMA OccursType ==
  ASSUME NEW S, NEW s \in Seq(S), NEW v
  PROVE  /\ IsFiniteSet(Positions(v, s))
         /\ Occurs(v, s) = Cardinality(Positions(v, s))
         /\ Occurs(v, s) \in Nat
<1>1. DOMAIN s = 1..Len(s) /\ Len(s) \in Nat
  OBVIOUS
<1>2. Positions(v, s) \in SUBSET (1..Len(s))
  BY <1>1 DEF Positions
<1>3. IsFiniteSet(Positions(v, s))
  <2>1. IsFiniteSet(1..Len(s))
    BY <1>1, FS_Interval
  <2> QED
    BY <2>1, <1>2, FS_Subset
<1> QED
  BY <1>3, FS_CardinalityType DEF Occurs, Positions

\* A value appended occurs once more, the others as often as before.
LEMMA OccursAppend ==
  ASSUME NEW S, NEW s \in Seq(S), NEW x \in S, NEW v
  PROVE  Occurs(v, Append(s, x)) = Occurs(v, s) + (IF x = v THEN 1 ELSE 0)
<1>1. Append(s, x) \in Seq(S) /\ Len(s) \in Nat /\ Len(Append(s, x)) = Len(s) + 1
  OBVIOUS
<1>2. Positions(v, Append(s, x)) =
        Positions(v, s) \cup (IF x = v THEN {Len(s) + 1} ELSE {})
  BY <1>1 DEF Positions
<1>3. Len(s) + 1 \notin Positions(v, s)
  BY <1>1 DEF Positions
<1>4. /\ IsFiniteSet(Positions(v, s))
      /\ Occurs(v, s) = Cardinality(Positions(v, s)) /\ Occurs(v, s) \in Nat
      /\ Occurs(v, Append(s, x)) = Cardinality(Positions(v, Append(s, x)))
  BY <1>1, OccursType
<1>5. Cardinality(Positions(v, s) \cup {Len(s) + 1}) = Cardinality(Positions(v, s)) + 1
  BY <1>3, <1>4, FS_AddElement
<1>6. CASE x = v
  BY <1>2, <1>4, <1>5, <1>6
<1>7. CASE x # v
  BY <1>2, <1>4, <1>7
<1> QED
  BY <1>6, <1>7

\* A value taken from the head occurs once less in the tail.
LEMMA OccursTail ==
  ASSUME NEW S, NEW s \in Seq(S), s # <<>>, NEW v
  PROVE  Occurs(v, s) = Occurs(v, Tail(s)) + (IF Head(s) = v THEN 1 ELSE 0)
<1> DEFINE P == Positions(v, s) \ {1}
           Q == Positions(v, Tail(s))
           f == [i \in Q |-> i + 1]
<1>1. /\ Tail(s) \in Seq(S) /\ Len(s) \in Nat \ {0} /\ Len(Tail(s)) = Len(s) - 1
      /\ \A i \in 1..Len(Tail(s)) : Tail(s)[i] = s[i + 1]
      /\ Head(s) = s[1]
  OBVIOUS
<1>2. Q \subseteq 1..(Len(s) - 1) /\ P \subseteq 2..Len(s)
  BY <1>1 DEF Positions
<1>3. f \in Bijection(Q, P)
  <2>1. f \in [Q -> P]
    BY <1>1, <1>2 DEF Positions
  <2>2. \A i, j \in Q : f[i] = f[j] => i = j
    BY <1>2
  <2>3. ASSUME NEW j \in P PROVE \E i \in Q : f[i] = j
    <3>1. j - 1 \in Q
      BY <1>1, <1>2 DEF Positions
    <3> QED
      BY <1>2, <3>1
  <2> QED
    BY <2>1, <2>2, <2>3 DEF Bijection, Injection, Surjection, IsInjective
<1>4. IsFiniteSet(Q) /\ ExistsBijection(Q, P)
  BY <1>1, <1>3, OccursType DEF ExistsBijection
<1>5. Cardinality(P) = Cardinality(Q)
  BY <1>4, FS_Bijection
<1>6. Cardinality(P) = Cardinality(Positions(v, s))
                         - (IF Head(s) = v THEN 1 ELSE 0)
  <2>1. 1 \in Positions(v, s) <=> Head(s) = v
    BY <1>1 DEF Positions
  <2>2. IsFiniteSet(Positions(v, s)) /\ Cardinality(Positions(v, s)) \in Nat
    BY OccursType
  <2>3. Cardinality(P) = IF 1 \in Positions(v, s)
                         THEN Cardinality(Positions(v, s)) - 1
                         ELSE Cardinality(Positions(v, s))
    BY <2>2, FS_RemoveElement
  <2> QED
    BY <2>1, <2>2, <2>3
<1>7. /\ Occurs(v, s) = Cardinality(Positions(v, s))
      /\ Occurs(v, Tail(s)) = Cardinality(Q) /\ Occurs(v, Tail(s)) \in Nat
      /\ Occurs(v, s) \in Nat
  BY <1>1, OccursType
<1> QED
  BY <1>5, <1>6, <1>7

-----------------------------------------------------------------------------
(* The pool runs two queues *)

\* What ThdQueue assumes of its constants holds for out_queue_ too, where the
\* roles are exchanged and nobody is gated.
LEMMA OutAssumption ==
  /\ Consumers \cap Producers = {}
  /\ Consumers \cap Closers = {}
  /\ Producers \cap Closers = {}
  /\ {} \subseteq Consumers
  /\ Producers \subseteq Producers
  /\ MaxLen \in Nat
  /\ MaxPush \in Nat
  /\ NoThread \notin Consumers \cup Producers \cup Closers
  /\ OutP!IsFiniteSet(Consumers \cup Producers \cup Closers)
<1>1. Consumers \cup Producers \cup Closers = Threads
  BY DEF Threads
<1>2. OutP!IsFiniteSet(Threads)
  BY FiniteAssumption DEF IsFiniteSet, OutP!IsFiniteSet
<1> QED
  BY <1>1, <1>2, QueueAssumption

\* The closers that stand for a call of break_out.
Used == {b \in Closers : pc[b] # "idle"}

\* Every worker that is being deleted or was deleted has used one closer.
CloserInv ==
  /\ deleted \subseteq Consumers
  /\ deleting = {} \/ \E w \in Consumers \ deleted, b \in Closers : deleting = {<<w, b>>}
  /\ Cardinality(Used) = Cardinality(deleted) + (IF deleting = {} THEN 0 ELSE 1)

\* The sets that CloserInv counts are finite.
LEMMA FiniteClosers ==
  /\ IsFiniteSet(Closers) /\ IsFiniteSet(Consumers)
  /\ IsFiniteSet(Used) /\ Cardinality(Used) \in Nat
  /\ \A D \in SUBSET Consumers : IsFiniteSet(D) /\ Cardinality(D) \in Nat
<1>1. Closers \in SUBSET Threads /\ Consumers \in SUBSET Threads
  BY DEF Threads
<1>2. IsFiniteSet(Closers) /\ IsFiniteSet(Consumers)
  BY <1>1, FiniteAssumption, FS_Subset
<1>3. Used \in SUBSET Closers
  BY DEF Used
<1> QED
  BY <1>2, <1>3, FS_Subset, FS_CardinalityType

\* There are as many closers as workers, so a worker that is still to be deleted
\* finds one that is idle.
LEMMA CloserLeft ==
  ASSUME CloserInv, NEW w \in Consumers, deleting = {}, w \notin deleted
  PROVE  \E b \in Closers : pc[b] = "idle"
<1>1. Cardinality(deleted) < Cardinality(Consumers)
  <2>1. deleted \in SUBSET Consumers /\ deleted # Consumers
    BY DEF CloserInv
  <2>2. /\ Cardinality(deleted) <= Cardinality(Consumers)
        /\ Cardinality(Consumers) = Cardinality(deleted) => Consumers = deleted
    BY <2>1, FiniteClosers, FS_Subset
  <2> QED
    BY <2>1, <2>2, FiniteClosers
<1>2. Cardinality(Used) = Cardinality(deleted)
  BY FiniteClosers DEF CloserInv
<1>3. Used # Closers
  BY <1>1, <1>2, PoolAssumption, FiniteClosers
<1> QED
  BY <1>3 DEF Used

\* A step of the pool is a step of in_queue_ or leaves it alone.
LEMMA InStep ==
  ASSUME CloserInv, [PoolNext]_allVars
  PROVE  [Next]_vars
<1>1. ASSUME NEW io \in Producers, PushRequest(io) \/ PluckResponse(io)
      PROVE  [Next]_vars
  BY <1>1 DEF PushRequest, PluckResponse, Next, Push
<1>2. ASSUME NEW w \in Consumers, Func(w) \/ SpuriouslyWoken(w) PROVE [Next]_vars
  BY <1>2 DEF Func, Idle, Exit, Plucking, PluckedNothing, Plucked, Work,
     PushResponse, Worked, SpuriouslyWoken, Next, Pluck
<1>3. CASE Destructor
  <2>1. ASSUME NEW w \in Consumers, Shutdown(w) PROVE [Next]_vars
    <3> DEFINE b == CHOOSE c \in Closers : pc[c] = "idle"
    <3>1. b \in Closers
      BY <2>1, CloserLeft DEF Shutdown
    <3>2. CallBreakOut(b)
      BY <2>1 DEF Shutdown
    <3> QED
      BY <3>1, <3>2 DEF Next
  <2>2. ASSUME NEW w \in Consumers, NEW b \in Closers,
               BreakIn(w, b) \/ BreakOutQueue(w, b) \/ Join(w, b)
        PROVE  [Next]_vars
    BY <2>2 DEF BreakIn, BreakOutQueue, Join, Next
  <2> QED
    BY <1>3, <2>1, <2>2 DEF Destructor
<1>4. CASE UNCHANGED allVars
  BY <1>4 DEF allVars
<1> QED
  BY <1>1, <1>2, <1>3, <1>4 DEF PoolNext

\* The steps of out_queue_, under both names of its instance.
LEMMA OutSteps ==
  /\ Out!Init <=> OutP!Init
  /\ \A w \in Consumers :
       /\ Out!CallPush(w) \/ Out!PushLock(w) \/ Out!PushEnqueue(w)
            \/ Out!PushIncr(w) \/ Out!PushNotify(w)
       => OutP!CallPush(w) \/ OutP!Push(w)
  /\ \A io \in Producers :
       Out!CallPluck(io) \/ Out!Pluck(io) => OutP!CallPluck(io) \/ OutP!Pluck(io)
  /\ \A b \in Closers :
       Out!CallBreakOut(b) \/ Out!BreakOut(b) => OutP!CallBreakOut(b) \/ OutP!BreakOut(b)
<1> USE DEF Out!Goto, OutP!Goto, Out!Lock, OutP!Lock, Out!Unlock, OutP!Unlock,
            Out!Waiting, OutP!Waiting, Out!Threads, OutP!Threads
<1>1. Out!Init <=> OutP!Init
  BY DEF Out!Init, OutP!Init
<1>2. ASSUME NEW w \in Consumers,
             Out!CallPush(w) \/ Out!PushLock(w) \/ Out!PushEnqueue(w)
               \/ Out!PushIncr(w) \/ Out!PushNotify(w)
      PROVE  OutP!CallPush(w) \/ OutP!Push(w)
  BY <1>2 DEF Out!CallPush, OutP!CallPush, OutP!Push, Out!PushLock, OutP!PushLock,
     Out!PushEnqueue, OutP!PushEnqueue, Out!PushIncr, OutP!PushIncr,
     Out!PushNotify, OutP!PushNotify
<1>3. ASSUME NEW io \in Producers, Out!CallPluck(io) \/ Out!Pluck(io)
      PROVE  OutP!CallPluck(io) \/ OutP!Pluck(io)
  BY <1>3 DEF Out!CallPluck, OutP!CallPluck, Out!Pluck, OutP!Pluck,
     Out!PluckLock, OutP!PluckLock, Out!PluckBroken, OutP!PluckBroken,
     Out!PluckOpen, OutP!PluckOpen, Out!PluckWait, OutP!PluckWait,
     Out!PluckNonEmpty, OutP!PluckNonEmpty, Out!PluckRelock, OutP!PluckRelock,
     Out!PluckDecr, OutP!PluckDecr, Out!PluckPop, OutP!PluckPop
<1>4. ASSUME NEW b \in Closers, Out!CallBreakOut(b) \/ Out!BreakOut(b)
      PROVE  OutP!CallBreakOut(b) \/ OutP!BreakOut(b)
  BY <1>4 DEF Out!CallBreakOut, OutP!CallBreakOut, Out!BreakOut, OutP!BreakOut,
     Out!BreakLock, OutP!BreakLock, Out!BreakSet, OutP!BreakSet,
     Out!BreakNotifyAll, OutP!BreakNotifyAll
<1> QED
  BY <1>1, <1>2, <1>3, <1>4

\* A step of the pool is a step of out_queue_ or leaves it alone.
LEMMA OutStep ==
  ASSUME [PoolNext]_allVars
  PROVE  [OutP!Next]_(OutP!vars)
<1> USE DEF OutP!vars, outVars
<1>1. ASSUME NEW io \in Producers, PushRequest(io) \/ PluckResponse(io)
      PROVE  [OutP!Next]_(OutP!vars)
  BY <1>1, OutSteps DEF PushRequest, PluckResponse, OutP!Next
<1>2. ASSUME NEW w \in Consumers, Func(w) \/ SpuriouslyWoken(w)
      PROVE  [OutP!Next]_(OutP!vars)
  BY <1>2, OutSteps DEF Func, Idle, Exit, Plucking, PluckedNothing, Plucked, Work,
     PushResponse, Worked, SpuriouslyWoken, OutP!Next
<1>3. CASE Destructor
  BY <1>3, OutSteps
     DEF Destructor, Shutdown, BreakIn, BreakOutQueue, Join, OutP!Next
<1>4. CASE UNCHANGED allVars
  BY <1>4 DEF allVars
<1> QED
  BY <1>1, <1>2, <1>3, <1>4 DEF PoolNext

\* Every step keeps the count of closers.
LEMMA CloserStep ==
  ASSUME TypeOK, CloserInv, [PoolNext]_allVars
  PROVE  CloserInv'
<1> USE QueueAssumption DEF Threads
<1>1. ASSUME UNCHANGED <<deleting, deleted>>,
             \A b \in Closers : pc[b] # "idle" <=> pc'[b] # "idle"
      PROVE  CloserInv'
  <2>1. Used' = Used
    BY <1>1 DEF Used
  <2> QED
    BY <1>1, <2>1 DEF CloserInv
<1>2. ASSUME NEW io \in Producers, PushRequest(io) PROVE CloserInv'
  <2>1. UNCHANGED <<deleting, deleted>>
    BY <1>2 DEF PushRequest, poolVars
  <2>2. \A b \in Closers : pc'[b] = pc[b]
    BY <1>2 DEF TypeOK, PushRequest, CallPush, PushLock, PushIncr, PushNotify,
       PushEnqueue, Goto, Waiting
  <2> QED
    BY <2>1, <2>2, <1>1
<1>3. ASSUME NEW io \in Producers, PluckResponse(io) PROVE CloserInv'
  BY <1>3, <1>1 DEF PluckResponse, poolVars, vars
<1>4. ASSUME NEW w \in Consumers, Func(w) \/ SpuriouslyWoken(w) PROVE CloserInv'
  <2>1. UNCHANGED <<deleting, deleted>>
    BY <1>4 DEF Func, Idle, Exit, Plucking, PluckedNothing, Plucked, Work,
       PushResponse, Worked, SpuriouslyWoken, At, poolVars
  <2>2. \A b \in Closers : pc'[b] = pc[b]
    BY <1>4 DEF TypeOK, Func, Idle, Exit, Plucking, PluckedNothing, Plucked, Work,
       PushResponse, Worked, SpuriouslyWoken, CallPluck, PluckLock, PluckBroken,
       PluckOpen, PluckWait, PluckNonEmpty, PluckRelock, PluckDecr, PluckPop,
       SpuriousWakeup, Goto, vars
  <2> QED
    BY <2>1, <2>2, <1>1
<1>5. ASSUME NEW w \in Consumers, Shutdown(w) PROVE CloserInv'
  <2> DEFINE b == CHOOSE c \in Closers : pc[c] = "idle"
  <2>1. b \in Closers /\ b \notin Used
    BY <1>5, CloserLeft DEF Shutdown, Used
  <2>2. /\ deleting = {} /\ deleting' = {<<w, b>>}
        /\ deleted' = deleted /\ w \notin deleted
        /\ CallBreakOut(b)
    BY <1>5 DEF Shutdown
  <2>3. Used' = Used \cup {b}
    BY <2>1, <2>2 DEF TypeOK, CallBreakOut, Goto, Used
  <2>4. Cardinality(Used') = Cardinality(Used) + 1
    BY <2>1, <2>3, FiniteClosers, FS_AddElement
  <2> HIDE DEF b
  <2>5. Cardinality(Used) = Cardinality(deleted)
    BY <2>2, FiniteClosers DEF CloserInv
  <2> QED
    BY <2>1, <2>2, <2>4, <2>5 DEF CloserInv
<1>6. ASSUME NEW w \in Consumers, NEW b \in Closers, BreakIn(w, b)
      PROVE  CloserInv'
  <2>1. UNCHANGED <<deleting, deleted>>
    BY <1>6 DEF BreakIn, poolVars
  <2>2. \A a \in Closers : pc[a] # "idle" <=> pc'[a] # "idle"
    BY <1>6 DEF TypeOK, BreakIn, BreakOut, BreakLock, BreakSet, BreakNotifyAll,
       Goto, Waiting
  <2> QED
    BY <2>1, <2>2, <1>1
<1>7. ASSUME NEW w \in Consumers, NEW b \in Closers, BreakOutQueue(w, b)
      PROVE  CloserInv'
  BY <1>7, <1>1 DEF BreakOutQueue, poolVars, vars
<1>8. ASSUME NEW w \in Consumers, NEW b \in Closers, Join(w, b)
      PROVE  CloserInv'
  <2>1. /\ <<w, b>> \in deleting /\ deleting' = {}
        /\ deleted' = deleted \cup {w} /\ pc' = pc
    BY <1>8 DEF Join, vars
  <2>2. w \notin deleted
    BY <2>1 DEF CloserInv
  <2>3. Cardinality(deleted') = Cardinality(deleted) + 1
    BY <2>1, <2>2, FiniteClosers, FS_AddElement DEF CloserInv
  <2>4. Used' = Used
    BY <2>1 DEF Used
  <2> QED
    BY <2>1, <2>3, <2>4, FiniteClosers DEF CloserInv
<1>9. CASE UNCHANGED allVars
  BY <1>9, <1>1 DEF allVars, vars, poolVars
<1> QED
  BY <1>2, <1>3, <1>4, <1>5, <1>6, <1>7, <1>8, <1>9 DEF PoolNext, Destructor

-----------------------------------------------------------------------------
(* Where a worker and its request are *)

WorkerPC == {"loop", "pluck", "work", "push", "exit"}

\* A worker is in out_queue_ only while it pushes, and has a request only
\* between the pluck that returned it and the end of that push.
WorkerInv ==
  /\ worker_pc \in [Consumers -> WorkerPC]
  /\ request \in [Consumers -> SUBSET Value]
  /\ \A w \in Consumers :
       /\ worker_pc[w] # "push" => out_pc[w] = "idle"
       /\ worker_pc[w] \in {"loop", "pluck", "exit"} => request[w] = {}

\* What the IO thread and the closers do in out_queue_ moves no worker.
LEMMA OthersOut ==
  ASSUME OutP!TypeOK,
         \/ \E io \in Producers : OutP!CallPluck(io) \/ OutP!Pluck(io)
         \/ \E b \in Closers : OutP!CallBreakOut(b) \/ OutP!BreakOut(b)
  PROVE  \A w \in Consumers : out_pc'[w] = out_pc[w]
<1> USE QueueAssumption DEF OutP!Goto, OutP!Threads
<1>1. ASSUME NEW io \in Producers, OutP!CallPluck(io) \/ OutP!Pluck(io)
      PROVE  \A w \in Consumers : out_pc'[w] = out_pc[w]
  BY <1>1 DEF OutP!TypeOK, OutP!CallPluck, OutP!Pluck, OutP!PluckLock,
     OutP!PluckBroken, OutP!PluckOpen, OutP!PluckWait, OutP!PluckNonEmpty,
     OutP!PluckRelock, OutP!PluckDecr, OutP!PluckPop
<1>2. ASSUME NEW b \in Closers, OutP!CallBreakOut(b) \/ OutP!BreakOut(b)
      PROVE  \A w \in Consumers : out_pc'[w] = out_pc[w]
  BY <1>2 DEF OutP!TypeOK, OutP!CallBreakOut, OutP!BreakOut, OutP!BreakLock,
     OutP!BreakSet, OutP!BreakNotifyAll, OutP!Waiting
<1> QED
  BY <1>1, <1>2

\* What a push of a worker in out_queue_ does to the workers there.
LEMMA WorkerOut ==
  ASSUME OutP!TypeOK, NEW w \in Consumers,
         OutP!CallPush(w) \/ OutP!Push(w)
  PROVE  /\ \A u \in Consumers \ {w} : out_pc'[u] = out_pc[u]
         /\ OutP!PushNotify(w) => out_pc'[w] = "idle"
         /\ out_taken' = out_taken
<1> USE QueueAssumption DEF OutP!Goto, OutP!Threads, OutP!TypeOK
<1>1. CASE OutP!CallPush(w) \/ OutP!PushLock(w) \/ OutP!PushEnqueue(w) \/ OutP!PushIncr(w)
  BY <1>1 DEF OutP!CallPush, OutP!PushLock, OutP!PushEnqueue, OutP!PushIncr,
     OutP!PushNotify
<1>2. CASE OutP!PushNotify(w)
  BY <1>2 DEF OutP!PushNotify, OutP!Waiting
<1> QED
  BY <1>1, <1>2 DEF OutP!Push

\* Every step keeps WorkerInv.
LEMMA WorkerStep ==
  ASSUME TypeOK, CheckedInv, OutP!TypeOK, WorkerInv, [PoolNext]_allVars
  PROVE  WorkerInv'
<1> USE QueueAssumption DEF WorkerInv, WorkerPC
<1>1. ASSUME UNCHANGED <<worker_pc, request>>,
             \A w \in Consumers : out_pc'[w] = out_pc[w]
      PROVE  WorkerInv'
  BY <1>1
<1>2. ASSUME NEW io \in Producers, PushRequest(io) \/ PluckResponse(io)
      PROVE  WorkerInv'
  BY <1>2, <1>1, OutSteps, OthersOut DEF PushRequest, PluckResponse, outVars
<1>3. ASSUME NEW w \in Consumers,
             Idle(w) \/ Exit(w) \/ Plucking(w) \/ PluckedNothing(w)
      PROVE  WorkerInv'
  BY <1>3 DEF Idle, Exit, Plucking, PluckedNothing, At, outVars
<1>4. ASSUME NEW w \in Consumers, Plucked(w) PROVE WorkerInv'
  <2>1. Head(queue_) \in Value
    BY <1>4 DEF TypeOK, Plucked, PluckPop, Goto, CheckedInv
  <2> QED
    BY <1>4, <2>1 DEF Plucked, At, outVars
<1>5. ASSUME NEW w \in Consumers, Work(w) \/ PushResponse(w) PROVE WorkerInv'
  <2>1. /\ \A u \in Consumers \ {w} : out_pc'[u] = out_pc[u]
        /\ request' = request
    BY <1>5, OutSteps, WorkerOut DEF Work, PushResponse
  <2> QED
    BY <1>5, <2>1 DEF Work, PushResponse, At
<1>6. ASSUME NEW w \in Consumers, Worked(w) PROVE WorkerInv'
  <2>1. OutP!PushNotify(w)
    BY <1>6 DEF Worked, Out!PushNotify, OutP!PushNotify, Out!Waiting,
       OutP!Waiting, Out!Unlock, OutP!Unlock
  <2>2. /\ \A u \in Consumers \ {w} : out_pc'[u] = out_pc[u]
        /\ out_pc'[w] = "idle"
    BY <2>1, WorkerOut DEF OutP!Push
  <2> QED
    BY <1>6, <2>2 DEF Worked, At
<1>7. ASSUME NEW w \in Consumers, SpuriouslyWoken(w) PROVE WorkerInv'
  BY <1>7, <1>1 DEF SpuriouslyWoken, outVars
<1>8. CASE Destructor
  BY <1>8, <1>1, OutSteps, OthersOut
     DEF Destructor, Shutdown, BreakIn, BreakOutQueue, Join, PoolStep, outVars
<1>9. CASE UNCHANGED allVars
  BY <1>9, <1>1 DEF allVars, outVars
<1> QED
  BY <1>2, <1>3, <1>4, <1>5, <1>6, <1>7, <1>8, <1>9 DEF PoolNext, Func

-----------------------------------------------------------------------------
(* Every request is answered once *)

\* The workers that have request v and have not yet put its answer in out_queue_.
Holding(v) == {w \in Consumers : v \in request[w] /\ out_pc[w] \notin {"incr", "notify"}}

\* The workers that are counted are finitely many.
LEMMA FiniteHolding ==
  ASSUME NEW v
  PROVE  IsFiniteSet(Holding(v)) /\ Cardinality(Holding(v)) \in Nat
<1>1. Holding(v) \in SUBSET Consumers
  BY DEF Holding
<1> QED
  BY <1>1, FiniteClosers

\* Every step keeps the count: a request is in exactly one of a worker's hands,
\* the out-queue and the answers the IO thread has plucked.
LEMMA AnsweredStep ==
  ASSUME TypeOK, CheckedInv, OutP!TypeOK, OutP!CheckedInv, WorkerInv, AnsweredOnce,
         [PoolNext]_allVars
  PROVE  AnsweredOnce'
<1> USE QueueAssumption
<1> DEFINE Balance(v) ==
      Occurs(v, taken) = Occurs(v, out_taken) + Occurs(v, out_queue)
                           + Cardinality(Holding(v))
<1>0. /\ AnsweredOnce <=> \A v \in Value : Balance(v)
      /\ AnsweredOnce' <=> \A v \in Value : Balance(v)'
  BY DEF AnsweredOnce, Holding
<1>a. ASSUME NEW v \in Value
      PROVE  /\ Occurs(v, taken) \in Nat /\ Occurs(v, out_taken) \in Nat
             /\ Occurs(v, out_queue) \in Nat
  BY OccursType DEF TypeOK, OutP!TypeOK
<1>1. ASSUME UNCHANGED <<taken, out_taken, out_queue>>,
             \A v \in Value : Holding(v)' = Holding(v)
      PROVE  AnsweredOnce'
  BY <1>0, <1>1
<1>2. ASSUME NEW io \in Producers, PushRequest(io) PROVE AnsweredOnce'
  <2>1. taken' = taken
    BY <1>2 DEF PushRequest, CallPush, PushLock, PushIncr, PushNotify, PushEnqueue
  <2> QED
    BY <1>1, <1>2, <2>1 DEF PushRequest, outVars, Holding
<1>3. ASSUME NEW io \in Producers, PluckResponse(io) PROVE AnsweredOnce'
  <2>1. /\ taken' = taken /\ \A v \in Value : Holding(v)' = Holding(v)
        /\ OutP!CallPluck(io) \/ OutP!Pluck(io)
    BY <1>3, OutSteps, OthersOut DEF PluckResponse, vars, Holding
  <2>2. CASE OutP!PluckPop(io)
    <3>1. /\ out_queue \in Seq(Value) /\ out_queue # <<>> /\ Head(out_queue) \in Value
          /\ out_taken \in Seq(Value)
          /\ out_taken' = Append(out_taken, Head(out_queue))
          /\ out_queue' = Tail(out_queue)
      BY <2>2 DEF OutP!PluckPop, OutP!Goto, OutP!CheckedInv, OutP!TypeOK
    <3>2. ASSUME NEW v \in Value PROVE Balance(v)'
      <4>1. Occurs(v, out_taken') = Occurs(v, out_taken)
                                      + (IF Head(out_queue) = v THEN 1 ELSE 0)
        BY <3>1, OccursAppend
      <4>2. Occurs(v, out_queue) = Occurs(v, out_queue')
                                     + (IF Head(out_queue) = v THEN 1 ELSE 0)
        BY <3>1, OccursTail
      <4>3. Occurs(v, out_queue') \in Nat
        <5>1. out_queue' \in Seq(Value)
          BY <3>1
        <5> QED
          BY <5>1, OccursType
      <4> QED
        BY <1>0, <1>a, <2>1, <4>1, <4>2, <4>3, FiniteHolding
    <3> QED
      BY <3>2, <1>0
  <2>3. CASE ~OutP!PluckPop(io)
    <3>1. out_taken' = out_taken /\ out_queue' = out_queue
      BY <2>1, <2>3 DEF OutP!CallPluck, OutP!Pluck, OutP!PluckLock,
         OutP!PluckBroken, OutP!PluckOpen, OutP!PluckWait, OutP!PluckNonEmpty,
         OutP!PluckRelock, OutP!PluckDecr
    <3> QED
      BY <1>1, <2>1, <3>1
  <2> QED
    BY <2>2, <2>3
<1>4. ASSUME NEW w \in Consumers, Idle(w) \/ Exit(w) \/ Plucking(w) \/ PluckedNothing(w)
      PROVE  AnsweredOnce'
  <2>1. UNCHANGED <<taken, outVars, request>>
    BY <1>4 DEF Idle, Exit, Plucking, PluckedNothing, CallPluck, PluckLock,
       PluckOpen, PluckWait, PluckNonEmpty, PluckRelock, PluckDecr, PluckBroken, vars
  <2> QED
    BY <1>1, <2>1 DEF outVars, Holding
<1>5. ASSUME NEW w \in Consumers, Plucked(w) PROVE AnsweredOnce'
  <2>1. /\ queue_ \in Seq(Value) /\ queue_ # <<>> /\ Head(queue_) \in Value
        /\ taken \in Seq(Value) /\ taken' = Append(taken, Head(queue_))
    BY <1>5 DEF TypeOK, Plucked, PluckPop, Goto, CheckedInv
  <2>2. /\ request[w] = {} /\ out_pc[w] = "idle"
        /\ request' = [request EXCEPT ![w] = {Head(queue_)}]
        /\ UNCHANGED <<out_taken, out_queue, out_pc>>
    BY <1>5 DEF Plucked, At, WorkerInv, outVars
  <2>3. ASSUME NEW v \in Value PROVE Balance(v)'
    <3>1. Occurs(v, taken') = Occurs(v, taken) + (IF Head(queue_) = v THEN 1 ELSE 0)
      BY <2>1, OccursAppend
    <3>2. w \notin Holding(v)
      BY <2>2 DEF Holding
    <3>3. CASE Head(queue_) = v
      <4>1. Holding(v)' = Holding(v) \cup {w}
        BY <2>2, <3>3 DEF Holding, WorkerInv
      <4>2. Cardinality(Holding(v)') = Cardinality(Holding(v)) + 1
        BY <3>2, <4>1, FiniteHolding, FS_AddElement
      <4> QED
        BY <1>0, <1>a, <2>2, <3>1, <3>3, <4>2, FiniteHolding
    <3>4. CASE Head(queue_) # v
      <4>1. Holding(v)' = Holding(v)
        BY <2>2, <3>4 DEF Holding, WorkerInv
      <4> QED
        BY <1>0, <1>a, <2>2, <3>1, <3>4, <4>1, FiniteHolding
    <3> QED
      BY <3>3, <3>4
  <2> QED
    BY <2>3, <1>0
<1>6. ASSUME NEW w \in Consumers, Work(w) PROVE AnsweredOnce'
  <2>1. /\ UNCHANGED <<taken, out_taken, out_queue, request>>
        /\ out_pc[w] = "idle" /\ out_pc' = [out_pc EXCEPT ![w] = "push_lock"]
    BY <1>6 DEF Work, Out!CallPush, Out!Goto, vars
  <2> QED
    BY <1>1, <2>1 DEF Holding, OutP!TypeOK, OutP!Threads
<1>7. ASSUME NEW w \in Consumers, PushResponse(w) PROVE AnsweredOnce'
  <2>1. taken' = taken /\ request' = request
    BY <1>7 DEF PushResponse, vars
  <2>2. CASE Out!PushLock(w) \/ Out!PushIncr(w)
    BY <1>1, <2>1, <2>2
       DEF Out!PushLock, Out!PushIncr, Out!Goto, Holding, OutP!TypeOK, OutP!Threads
  <2>3. CASE Out!PushEnqueue(w) /\ {Last(out_queue')} = request[w]
    <3>1. PICK x \in Value : out_queue' = Append(out_queue, x)
      BY <2>3 DEF Out!PushEnqueue
    <3>2. /\ out_queue \in Seq(Value) /\ Last(out_queue') = x
          /\ request[w] = {x}
      BY <2>3, <3>1 DEF OutP!TypeOK, Last
    <3>3. /\ out_taken' = out_taken
          /\ out_pc[w] = "enqueue" /\ out_pc' = [out_pc EXCEPT ![w] = "incr"]
      BY <2>3 DEF Out!PushEnqueue, Out!Goto
    <3>4. ASSUME NEW v \in Value PROVE Balance(v)'
      <4>1. Occurs(v, out_queue') = Occurs(v, out_queue) + (IF x = v THEN 1 ELSE 0)
        BY <3>1, <3>2, OccursAppend
      <4>2. CASE x = v
        <5>1. w \in Holding(v) /\ Holding(v)' = Holding(v) \ {w}
          BY <2>1, <3>2, <3>3, <4>2 DEF Holding, OutP!TypeOK, OutP!Threads
        <5>2. Cardinality(Holding(v)') = Cardinality(Holding(v)) - 1
          BY <5>1, FiniteHolding, FS_RemoveElement
        <5> QED
          BY <1>0, <1>a, <2>1, <3>3, <4>1, <4>2, <5>2, FiniteHolding
      <4>3. CASE x # v
        <5>1. Holding(v)' = Holding(v)
          BY <2>1, <3>2, <3>3, <4>3 DEF Holding, OutP!TypeOK, OutP!Threads
        <5> QED
          BY <1>0, <1>a, <2>1, <3>3, <4>1, <4>3, <5>1, FiniteHolding
      <4> QED
        BY <4>2, <4>3
    <3> QED
      BY <3>4, <1>0
  <2> QED
    BY <1>7, <2>2, <2>3 DEF PushResponse
<1>8. ASSUME NEW w \in Consumers, Worked(w) PROVE AnsweredOnce'
  <2>1. OutP!PushNotify(w) /\ out_queue' = out_queue
    BY <1>8 DEF Worked, Out!PushNotify, OutP!PushNotify, Out!Waiting,
       OutP!Waiting, Out!Unlock, OutP!Unlock
  <2>2. /\ \A u \in Consumers \ {w} : out_pc'[u] = out_pc[u]
        /\ out_pc[w] = "notify" /\ out_taken' = out_taken
    BY <2>1, WorkerOut DEF OutP!Push, OutP!PushNotify
  <2>3. taken' = taken /\ request' = [request EXCEPT ![w] = {}]
    BY <1>8 DEF Worked, vars
  <2> QED
    BY <1>1, <2>1, <2>2, <2>3 DEF Holding, WorkerInv
<1>9. ASSUME NEW w \in Consumers, SpuriouslyWoken(w) PROVE AnsweredOnce'
  BY <1>1, <1>9 DEF SpuriouslyWoken, SpuriousWakeup, outVars, Holding
<1>10. CASE Destructor
  <2>1. taken' = taken /\ request' = request
    BY <1>10 DEF Destructor, Shutdown, CallBreakOut, BreakIn, BreakOut, BreakLock,
       BreakSet, BreakNotifyAll, BreakOutQueue, Join, PoolStep, vars
  <2>2. /\ out_taken' = out_taken /\ out_queue' = out_queue
        /\ \A u \in Consumers : out_pc'[u] = out_pc[u]
    <3>1. CASE UNCHANGED outVars
      BY <3>1 DEF outVars
    <3>2. ASSUME NEW w \in Consumers, NEW b \in Closers, BreakOutQueue(w, b)
          PROVE  /\ out_taken' = out_taken /\ out_queue' = out_queue
                 /\ \A u \in Consumers : out_pc'[u] = out_pc[u]
      <4>1. \A u \in Consumers : out_pc'[u] = out_pc[u]
        BY <3>2, OutSteps, OthersOut DEF BreakOutQueue
      <4> QED
        BY <3>2, <4>1 DEF BreakOutQueue, Out!CallBreakOut, Out!BreakOut,
           Out!BreakLock, Out!BreakSet, Out!BreakNotifyAll
    <3> QED
      BY <1>10, <3>1, <3>2 DEF Destructor, Shutdown, BreakIn, Join
  <2> QED
    BY <1>1, <2>1, <2>2 DEF Holding
<1>11. CASE UNCHANGED allVars
  BY <1>1, <1>11 DEF allVars, vars, outVars, Holding
<1> QED
  BY <1>2, <1>3, <1>4, <1>5, <1>6, <1>7, <1>8, <1>9, <1>10, <1>11 DEF PoolNext, Func

-----------------------------------------------------------------------------
(* Theorems *)

\* The invariant of the pool: that of each queue, and where the workers, their
\* requests and the closers are.
PoolInv == IInv /\ OutP!IInv /\ CloserInv /\ WorkerInv

\* PoolInv holds in every reachable state of the pool.
LEMMA PoolInvariance == PoolSpec => []PoolInv
<1>1. PoolInit => PoolInv
  <2> SUFFICES ASSUME PoolInit PROVE PoolInv
    OBVIOUS
  <2>1. IInv
    BY InitIInv DEF PoolInit
  <2>2. OutP!IInv
    BY OutSteps, OutP!InitIInv, OutAssumption DEF PoolInit, OutP!Threads
  <2>3. CloserInv
    <3>1. Used = {} /\ deleted = {} /\ deleting = {}
      BY DEF PoolInit, Init, Used, Threads
    <3> QED
      BY <3>1, FS_EmptySet DEF CloserInv
  <2>4. WorkerInv
    BY DEF PoolInit, WorkerInv, WorkerPC, Out!Init, Out!Threads
  <2> QED
    BY <2>1, <2>2, <2>3, <2>4 DEF PoolInv
<1>2. PoolInv /\ [PoolNext]_allVars => PoolInv'
  <2> SUFFICES ASSUME PoolInv, [PoolNext]_allVars PROVE PoolInv'
    OBVIOUS
  <2>1. IInv'
    BY InStep, TypeStep, MutexStep, SizeStep, CheckedStep, GateStep, PollStep
       DEF PoolInv, IInv
  <2>2. OutP!IInv'
    <3>1. /\ OutP!TypeOK /\ OutP!MutexInv /\ OutP!SizeInv /\ OutP!CheckedInv
          /\ OutP!GateInv /\ OutP!PollInv /\ [OutP!Next]_(OutP!vars)
      BY OutStep DEF PoolInv, OutP!IInv
    <3> USE OutAssumption DEF OutP!Threads
    <3>2. OutP!TypeOK'
      BY <3>1, OutP!TypeStep
    <3>3. OutP!MutexInv'
      BY <3>1, OutP!MutexStep
    <3>4. OutP!SizeInv'
      BY <3>1, OutP!SizeStep
    <3>5. OutP!CheckedInv'
      BY <3>1, OutP!CheckedStep
    <3>6. OutP!GateInv'
      BY <3>1, OutP!GateStep
    <3>7. OutP!PollInv'
      BY <3>1, OutP!PollStep
    <3> QED
      BY <3>2, <3>3, <3>4, <3>5, <3>6, <3>7 DEF OutP!IInv
  <2>3. CloserInv' /\ WorkerInv'
    BY CloserStep, WorkerStep DEF PoolInv, IInv, OutP!IInv
  <2> QED
    BY <2>1, <2>2, <2>3 DEF PoolInv
<1> QED
  BY <1>1, <1>2, PTL DEF PoolSpec

\* Each queue of the pool is a ThdQueue: the IO thread, the workers and the
\* destructor do to in_queue_ and to out_queue_ only what its steps do.
THEOREM PoolUsesTheQueues ==
  PoolSpec => /\ Init /\ [][Next]_vars
              /\ OutP!Init /\ [][OutP!Next]_(OutP!vars)
<1>1. PoolInit => Init /\ OutP!Init
  BY OutSteps DEF PoolInit
<1>2. PoolInv /\ [PoolNext]_allVars => [Next]_vars
  BY InStep DEF PoolInv
<1>3. [PoolNext]_allVars => [OutP!Next]_(OutP!vars)
  BY OutStep
<1> QED
  BY <1>1, <1>2, <1>3, PoolInvariance, PTL DEF PoolSpec

\* In the pool too no wake-up of in_queue_ is lost: a worker does not sleep while
\* a request waits that nobody else is about to take.
THEOREM PoolWakeups == PoolSpec => []NoLostWakeup
<1>1. PoolInit => BrokenInv /\ NoLostWakeup
  <2> SUFFICES ASSUME PoolInit PROVE Waiting = {}
    BY DEF BrokenInv, NoLostWakeup
  <2> QED
    BY DEF PoolInit, Init, Waiting, Threads
<1>2. PoolInv /\ BrokenInv /\ NoLostWakeup /\ [PoolNext]_allVars
        => (BrokenInv /\ NoLostWakeup)'
  BY InStep, BrokenStep, WakeupStep DEF PoolInv, IInv
<1> QED
  BY <1>1, <1>2, PoolInvariance, PTL DEF PoolSpec

\* The IO thread, which runs the uthreads of a unit, never blocks in
\* PluckResponse, whatever the workers and the destructor do meanwhile.
THEOREM IOThreadIsNeverBlocked == PoolSpec => []IOThreadNeverWaits
<1>1. PoolInv => IOThreadNeverWaits
  BY QueueAssumption DEF PoolInv, OutP!IInv, OutP!PollInv, IOThreadNeverWaits,
     Out!SolePollerNeverWaits, Out!Waiting
<1> QED
  BY PoolInvariance, <1>1, PTL

\* Every request a worker has taken is answered exactly once or still in its
\* hands, in every interleaving with the destructor of the pool.
THEOREM RequestsAreAnsweredOnce == PoolSpec => []AnsweredOnce
<1>1. PoolInit => AnsweredOnce
  <2> SUFFICES ASSUME PoolInit, NEW v \in Value
               PROVE  Occurs(v, taken) = Occurs(v, out_taken) + Occurs(v, out_queue)
                                           + Cardinality(Holding(v))
    BY DEF AnsweredOnce, Holding
  <2>1. /\ {i \in DOMAIN taken : taken[i] = v} = {}
        /\ {i \in DOMAIN out_taken : out_taken[i] = v} = {}
        /\ {i \in DOMAIN out_queue : out_queue[i] = v} = {}
        /\ Holding(v) = {}
    BY DEF PoolInit, Init, Out!Init, Holding
  <2>2. /\ Occurs(v, taken) = 0 /\ Occurs(v, out_taken) = 0
        /\ Occurs(v, out_queue) = 0 /\ Cardinality(Holding(v)) = 0
    BY <2>1, FS_EmptySet DEF Occurs
  <2> QED
    BY <2>2
<1>2. PoolInv /\ AnsweredOnce /\ [PoolNext]_allVars => AnsweredOnce'
  BY AnsweredStep DEF PoolInv, IInv, OutP!IInv
<1> QED
  BY <1>1, <1>2, PoolInvariance, PTL DEF PoolSpec
=============================================================================
