-------------------------------- MODULE Timer --------------------------------
(***************************************************************************)
(* The timer heap of network/timer.cpp, driven as network/uthread_epoll.cpp*)
(* drives it.                                                              *)
(*                                                                         *)
(* timer_heap_ is a binary heap of (abs_time_, socket_) objects kept in a  *)
(* vector.  Each socket stores in timer_id the position of its object,     *)
(* counted from 1, and 0 when it has none; RemoveTimer finds the object to *)
(* remove by that number alone.  Positions are counted from 1 here too, so *)
(* timer_id is the index of the object in the sequence heap.               *)
(*                                                                         *)
(* Every iteration of the loops of heap_up and heap_down is a step.  The   *)
(* callers are the uthreads: the one that runs (owner) arms a timer when   *)
(* it waits (UThreadPoll, UThreadWait) and removes it when it is resumed,  *)
(* and no other uthread runs between those two calls.                      *)
(***************************************************************************)
EXTENDS Integers, Sequences

CONSTANTS
  Sockets,     \* the sockets, each used by one uthread
  Timeouts,    \* the finite timeouts, in ticks, a caller passes to AddTimer
  Infinity,    \* the deadline of a timeout of -1 (the largest uint64_t)
  IntRange,    \* GetNextTimeout narrows its result to int: 2^32 in the code
  MaxTime,     \* bound of the model: the clock stops here
  None         \* no socket

ASSUME TimerAssumption ==
  /\ None \notin Sockets
  /\ Timeouts \subseteq 0..(IntRange - 1)
  /\ Infinity \in Nat
  /\ IntRange \in Nat \ {0}
  /\ MaxTime \in Nat /\ MaxTime < Infinity
  /\ \A d \in Timeouts : MaxTime + d < Infinity

VARIABLES
  heap,        \* timer_heap_
  id,          \* timer_id of each socket
  pc,          \* the operation in progress: see below
  pos,         \* now_idx of that operation
  obj,         \* the object it moves (heap_up, heap_down)
  adding,      \* AddTimer: the object still to be pushed, or None
  waiting,     \* the sockets whose uthread is suspended in YieldTask
  owner,       \* the socket whose uthread is running, or None
  clock        \* GetSteadyClockMS()

vars == <<heap, id, pc, pos, obj, adding, waiting, owner, clock>>

\* idle: no operation; remove: RemoveTimer(pos); up, down: in a loop;
\* add: Timer::AddTimer(adding)
Phases == {"idle", "remove", "up", "down", "add"}

Object == [time : Nat, sock : Sockets]

NoObject == [time |-> 0, sock |-> None]

Init ==
  /\ heap = <<>>
  /\ id = [s \in Sockets |-> 0]
  /\ pc = "idle"
  /\ pos = 0
  /\ obj = NoObject
  /\ adding = NoObject
  /\ waiting = {}
  /\ owner = None
  /\ clock = 0

\* RemoveTimer or the loop is done: the scheduler's AddTimer goes on with the
\* push, every other operation returns.
EndOperation ==
  /\ pc' = IF adding = NoObject THEN "idle" ELSE "add"
  /\ pos' = 0
  /\ obj' = NoObject

-----------------------------------------------------------------------------
(* heap_up and heap_down: obj is lifted out at pos, the hole moves. *)

HeapUpMove ==
  LET parent == pos \div 2 IN
  /\ pc = "up"
  /\ pos > 1
  /\ obj.time < heap[parent].time
  /\ heap' = [heap EXCEPT ![pos] = heap[parent]]
  /\ id' = [id EXCEPT ![heap[parent].sock] = pos]
  /\ pos' = parent
  /\ UNCHANGED <<pc, obj, adding, waiting, owner, clock>>

\* The object is put down and its socket is told where it is.
PutDown ==
  /\ heap' = [heap EXCEPT ![pos] = obj]
  /\ id' = [id EXCEPT ![obj.sock] = pos]
  /\ EndOperation
  /\ UNCHANGED <<adding, waiting, owner, clock>>

\* Mutant of HeapUpEnd: the object is put down without a look at its parent.
HeapUpEndAtOnce ==
  /\ pc = "up"
  /\ PutDown

HeapUpEnd ==
  /\ pc = "up"
  /\ pos > 1 => heap[pos \div 2].time <= obj.time
  /\ PutDown

\* The child heap_down compares with: the left one only if it is alone or
\* strictly earlier.
Child ==
  IF 2 * pos = Len(heap) \/ heap[2 * pos].time < heap[2 * pos + 1].time
  THEN 2 * pos
  ELSE 2 * pos + 1

HeapDownMove ==
  /\ pc = "down"
  /\ 2 * pos <= Len(heap)
  /\ heap[Child].time < obj.time
  /\ heap' = [heap EXCEPT ![pos] = heap[Child]]
  /\ id' = [id EXCEPT ![heap[Child].sock] = pos]
  /\ pos' = Child
  /\ UNCHANGED <<pc, obj, adding, waiting, owner, clock>>

HeapDownEnd ==
  /\ pc = "down"
  /\ 2 * pos <= Len(heap) => obj.time <= heap[Child].time
  /\ PutDown

-----------------------------------------------------------------------------
(* RemoveTimer *)

\* if (timer_id == 0) return;  if (now_idx >= timer_heap_.size()) return;
RemoveNothing ==
  /\ pc = "remove"
  /\ pos \notin 1..Len(heap)
  /\ EndOperation
  /\ UNCHANGED <<heap, id, adding, waiting, owner, clock>>

\* The last object takes the removed one's place.
Popped(k) ==
  LET last == Len(heap)
  IN  SubSeq([heap EXCEPT ![k] = heap[last]], 1, last - 1)

\* Mutant of RemoveInside: the object from the end only ever moves down.
RemoveInsideDownOnly ==
  LET last == heap[Len(heap)] IN
  /\ pc = "remove"
  /\ pos \in 1..(Len(heap) - 1)
  /\ heap' = Popped(pos)
  /\ id' = [id EXCEPT ![heap[pos].sock] = 0]
  /\ pc' = "down"
  /\ obj' = last
  /\ UNCHANGED <<pos, adding, waiting, owner, clock>>

\* The removed object is not the last: the one that takes its place moves up,
\* stays, or moves down.
RemoveInside ==
  LET last == heap[Len(heap)] IN
  /\ pc = "remove"
  /\ pos \in 1..(Len(heap) - 1)
  /\ heap' = Popped(pos)
  /\ IF last.time = heap[pos].time
     THEN /\ id' = [id EXCEPT ![heap[pos].sock] = 0, ![last.sock] = pos]
          /\ EndOperation
     ELSE /\ id' = [id EXCEPT ![heap[pos].sock] = 0]
          /\ pc' = IF last.time < heap[pos].time THEN "up" ELSE "down"
          /\ obj' = last
          /\ UNCHANGED pos
  /\ UNCHANGED <<adding, waiting, owner, clock>>

\* The removed object is the last.  If it was the only one its id is 0.
\* Otherwise timer_heap_[now_idx], read one past the end of the shortened
\* vector, is still the removed object: it equals obj, and its socket gets the
\* old position back as its id.
RemoveLast ==
  /\ pc = "remove"
  /\ pos > 0
  /\ pos = Len(heap)
  /\ heap' = Popped(pos)
  /\ id' = [id EXCEPT ![heap[pos].sock] = IF Len(heap) = 1 THEN 0 ELSE pos]
  /\ EndOperation
  /\ UNCHANGED <<adding, waiting, owner, clock>>

-----------------------------------------------------------------------------
(* AddTimer and PopTimeout *)

\* push_back, then heap_up(size).
AddTimer ==
  /\ pc = "add"
  /\ heap' = Append(heap, adding)
  /\ obj' = adding
  /\ adding' = NoObject
  /\ pos' = Len(heap) + 1
  /\ pc' = "up"
  /\ UNCHANGED <<id, waiting, owner, clock>>

\* Mutant of NextTimeoutIsZero: the distance is rounded down to zero.
NextTimeoutIsSmall ==
  /\ heap # <<>>
  /\ heap[1].time - clock <= 1

\* GetNextTimeout() returns 0: the front is due, or the distance to it is a
\* multiple of the range of int.
NextTimeoutIsZero ==
  /\ heap # <<>>
  /\ LET left == heap[1].time - clock
     IN  left <= 0 \/ left % IntRange = 0

\* DealwithTimeout: the front is popped and its uthread runs.
PopTimeout ==
  LET front == heap[1].sock IN
  /\ pc = "idle"
  /\ owner = None
  /\ NextTimeoutIsZero
  /\ heap' = Popped(1)
  /\ id' = [id EXCEPT ![front] = 0]
  /\ IF Len(heap) > 1
     THEN pc' = "down" /\ pos' = 1 /\ obj' = heap[Len(heap)]
     ELSE UNCHANGED <<pc, pos, obj>>
  /\ owner' = front
  /\ waiting' = waiting \ {front}
  /\ UNCHANGED <<adding, clock>>

-----------------------------------------------------------------------------
(* The callers *)

\* A uthread starts on a socket fresh from CreateSocket (calloc: timer_id 0).
CreateSocket(s) ==
  /\ pc = "idle"
  /\ owner = None
  /\ s \notin waiting
  /\ owner' = s
  /\ id' = [id EXCEPT ![s] = 0]
  /\ UNCHANGED <<heap, pc, pos, obj, adding, waiting, clock>>

\* UThreadPoll or UThreadWait: RemoveTimer(socket->timer_id), Timer::AddTimer,
\* YieldTask.
Suspend(s, deadline) ==
  /\ pc = "idle"
  /\ owner = s
  /\ pc' = "remove"
  /\ pos' = id[s]
  /\ adding' = [time |-> deadline, sock |-> s]
  /\ owner' = None
  /\ waiting' = waiting \cup {s}
  /\ UNCHANGED <<heap, id, obj, clock>>

\* Mutant of ResumeByEvent: the resumed uthread leaves its timer in the heap.
ResumeKeepsTimer(s) ==
  /\ pc = "idle"
  /\ owner = None
  /\ s \in waiting
  /\ owner' = s
  /\ waiting' = waiting \ {s}
  /\ UNCHANGED <<heap, id, pc, pos, obj, adding, clock>>

\* An event, or the scheduler, resumes the uthread: RemoveTimer(timer_id).
ResumeByEvent(s) ==
  /\ pc = "idle"
  /\ owner = None
  /\ s \in waiting
  /\ owner' = s
  /\ waiting' = waiting \ {s}
  /\ pc' = "remove"
  /\ pos' = id[s]
  /\ UNCHANGED <<heap, id, obj, adding, clock>>

\* The uthread closes its socket and frees it.
CloseSocket(s) ==
  /\ pc = "idle"
  /\ owner = s
  /\ owner' = None
  /\ UNCHANGED <<heap, id, pc, pos, obj, adding, waiting, clock>>

Tick ==
  /\ pc = "idle"
  /\ clock < MaxTime
  /\ clock' = clock + 1
  /\ UNCHANGED <<heap, id, pc, pos, obj, adding, waiting, owner>>

Next ==
  \/ HeapUpMove
  \/ HeapUpEnd
  \/ HeapDownMove
  \/ HeapDownEnd
  \/ RemoveNothing
  \/ RemoveInside
  \/ RemoveLast
  \/ AddTimer
  \/ PopTimeout
  \/ \E s \in Sockets :
       \/ CreateSocket(s)
       \/ \E d \in Timeouts : Suspend(s, clock + d)
       \/ Suspend(s, Infinity)
       \/ ResumeByEvent(s)
       \/ CloseSocket(s)
  \/ Tick

Spec == Init /\ [][Next]_vars

-----------------------------------------------------------------------------
(* Properties *)

TypeOK ==
  /\ heap \in Seq(Object)
  /\ id \in [Sockets -> Nat]
  /\ pc \in Phases
  /\ pos \in Nat
  /\ IF pc \in {"up", "down"} THEN pos \in 1..Len(heap) /\ obj \in Object
                             ELSE obj = NoObject
  /\ adding \in Object \cup {NoObject}
  /\ pc = "add" => adding # NoObject
  /\ waiting \in SUBSET Sockets
  /\ owner \in (Sockets \ waiting) \cup {None}
  /\ clock \in 0..MaxTime

\* The heap with the object that is being moved put back into the hole.
Full == IF pc \in {"up", "down"} THEN [heap EXCEPT ![pos] = obj] ELSE heap

\* Outside the two loops no object is earlier than its parent, so the front is the
\* earliest deadline: DealwithTimeout looks at nothing else.
HeapOrdered ==
  pc \notin {"up", "down"} =>
    \A k \in 2..Len(heap) : heap[k \div 2].time <= heap[k].time

\* Every object in the heap, the moving one excepted, is at the position its
\* socket remembers, and no socket has two objects: RemoveTimer(timer_id) by a
\* socket that has a timer removes its own.
IdsExact ==
  /\ \A k \in 1..Len(heap) :
       ~(pc \in {"up", "down"} /\ k = pos) => id[heap[k].sock] = k
  /\ \A j, k \in 1..Len(Full) : Full[j].sock = Full[k].sock => j = k

\* The heap is a heap of what was put into it, with exact positions: the early
\* end of a loop or of a removal leaves nothing out of place.
HeapExact == TypeOK /\ HeapOrdered /\ IdsExact

\* A suspended uthread always has its timer, although a socket whose timer was
\* last in the heap keeps a stale timer_id after RemoveTimer: nothing that
\* another socket does takes the timer away.
WaitersArmed ==
  \A s \in waiting :
    \/ \E k \in 1..Len(Full) : Full[k].sock = s
    \/ adding.sock = s

\* The sockets that have a timer are the suspended ones: a socket that is
\* closed and freed is never left in the heap.
NoTimerOfFreedSocket ==
  pc = "idle" => \A k \in 1..Len(heap) : heap[k].sock \in waiting

\* The timers are those of the suspended uthreads: none is lost to another
\* socket's stale timer_id, and none outlives its socket.
TimersFollowSockets == WaitersArmed /\ NoTimerOfFreedSocket

\* No uthread is resumed by a finite timeout before its deadline, although the
\* distance to it is narrowed to int.
NeverEarly ==
  [][PopTimeout => heap[1].time <= clock \/ heap[1].time = Infinity]_vars

\* No timer at all expires before its deadline, as network/test_timer.cpp
\* demands of the timers it pops.  A timeout of -1 breaks it.
OnlyDueTimersExpire ==
  [][PopTimeout => heap[1].time <= clock]_vars

\* The heap implements the set of timers: whatever expires was the earliest of
\* all deadlines, and a uthread that an event resumes removes its own timer.
Timers == INSTANCE TimerSet WITH
  timers <- {Full[k] : k \in 1..Len(Full)}, running <- owner

ImplementsTimerSet == Timers!Init /\ [][Timers!Next]_(Timers!vars)
=============================================================================
