---------------------------- MODULE Timer_proofs ----------------------------
(***************************************************************************)
(* The heap of any number of timers: every position is known to its socket,*)
(* the front is the earliest deadline, the timers are those of the uthreads*)
(* that wait, and the heap implements the set of timers.                   *)
(***************************************************************************)
EXTENDS Timer, WellFoundedInduction, TLAPS

Moving == pc \in {"up", "down"}

Parent(k) == k \div 2

\* While an object moves up only it may be earlier than its parent; while it
\* moves down only its children may be earlier than it.  Either way the children
\* of the hole fit under the parent of the hole, so the hole can go on.
OrderInv ==
  /\ \A k \in 2..Len(Full) :
        \/ pc = "up" /\ k = pos
        \/ pc = "down" /\ Parent(k) = pos
        \/ Full[Parent(k)].time <= Full[k].time
  /\ Moving /\ pos > 1 =>
        \A k \in 2..Len(Full) : Parent(k) = pos => Full[Parent(pos)].time <= Full[k].time

\* Who has a timer, and what the operation in progress may rely on: AddTimer
\* begins with a timer_id that is stale or 0, and RemoveTimer, when a uthread is
\* resumed, with that of its own timer.  The timer_id of the uthread that runs is
\* no position in the heap, for as long as it runs.
SocketInv ==
  /\ adding # NoObject =>
        /\ pc \in {"remove", "add"}
        /\ owner = None
        /\ adding.sock \in waiting
        /\ pc = "remove" => pos \notin 1..Len(Full)
        /\ \A k \in 1..Len(Full) : Full[k].sock # adding.sock
  /\ pc = "remove" /\ adding = NoObject => pos \in 1..Len(Full) /\ Full[pos].sock = owner
  /\ owner # None /\ pc # "remove" => id[owner] \notin 1..Len(Full)
  /\ \A k \in 1..Len(Full) : Full[k].sock \in waiting \/ (pc = "remove" /\ Full[k].sock = owner)
  /\ WaitersArmed

\* A finite deadline is less than the range of int away.
Near(time) == time = Infinity \/ time < clock + IntRange

DeadlineInv ==
  /\ \A k \in 1..Len(Full) : Near(Full[k].time)
  /\ adding # NoObject => Near(adding.time) /\ adding.time >= clock

TInv == TypeOK /\ IdsExact /\ OrderInv /\ SocketInv /\ DeadlineInv

-----------------------------------------------------------------------------
(* Numbers and sequences *)

\* A set of naturals has a least element.
LEMMA LeastElement ==
  ASSUME NEW T \in SUBSET Nat, T # {}
  PROVE  \E m \in T : \A k \in T : m <= k
<1> DEFINE Less == {ss \in Nat \X Nat : ss[1] < ss[2]}
<1>1. IsWellFoundedOn(Less, Nat)
  BY NatLessThanWellFounded DEF OpToRel
<1>2. PICK m \in T : \A k \in T : <<k, m>> \notin Less
  BY <1>1, WFMin
<1>3. \A k \in T : ~(k < m)
  BY <1>2
<1> QED
  BY <1>2, <1>3

\* The parent of a position is a smaller position.
LEMMA ParentBelow ==
  \A k \in Nat : k > 1 => Parent(k) \in Nat /\ Parent(k) >= 1 /\ Parent(k) < k
BY DEF Parent

\* The children of a position.
LEMMA Children ==
  \A k, p \in Nat : k > 1 => (Parent(k) = p <=> k = 2 * p \/ k = 2 * p + 1)
BY DEF Parent

\* A positive number below r is no multiple of r.
LEMMA NoMultiple ==
  ASSUME NEW r \in Nat \ {0}, NEW n \in Nat, 0 < n, n < r
  PROVE  n % r # 0
OBVIOUS

\* An object put into a hole.
LEMMA PutInto ==
  ASSUME NEW h \in Seq(Object), NEW p \in 1..Len(h), NEW o \in Object
  PROVE  LET f == [h EXCEPT ![p] = o]
         IN  /\ f \in Seq(Object)
             /\ Len(f) = Len(h)
             /\ \A k \in 1..Len(h) : f[k] = IF k = p THEN o ELSE h[k]
OBVIOUS

\* Full is the heap with the object that moves in the hole.
FullOK ==
  /\ Full \in Seq(Object)
  /\ Len(Full) = Len(heap)
  /\ Len(heap) \in Nat
  /\ Moving => pos \in 1..Len(heap) /\ obj \in Object
  /\ \A k \in 1..Len(heap) : Full[k] = IF Moving /\ k = pos THEN obj ELSE heap[k]
  /\ ~Moving => Full = heap

\* So it is in every typed state.
LEMMA FullHeap == TypeOK => FullOK
<1> SUFFICES ASSUME TypeOK PROVE FullOK
  OBVIOUS
<1>1. CASE Moving
  <2>1. heap \in Seq(Object) /\ pos \in 1..Len(heap) /\ obj \in Object
    BY <1>1 DEF TypeOK, Moving
  <2> QED
    BY <1>1, <2>1, PutInto DEF Full, Moving, FullOK
<1>2. CASE ~Moving
  BY <1>2 DEF TypeOK, Full, Moving, FullOK
<1> QED
  BY <1>1, <1>2

\* What an object has.
LEMMA ObjectFields ==
  \A o \in Object : o.time \in Nat /\ o.sock \in Sockets
BY DEF Object

\* No object is NoObject: it has no socket.
LEMMA NoObjectApart == NoObject \notin Object
BY TimerAssumption DEF NoObject, Object

\* The last object takes the place of another.
LEMMA PoppedHeap ==
  ASSUME heap \in Seq(Object), NEW k \in 1..Len(heap)
  PROVE  /\ Popped(k) \in Seq(Object)
         /\ Len(Popped(k)) = Len(heap) - 1
         /\ \A i \in 1..(Len(heap) - 1) : Popped(k)[i] = IF i = k THEN heap[Len(heap)] ELSE heap[i]
<1> DEFINE h == [heap EXCEPT ![k] = heap[Len(heap)]]
<1>1. heap[Len(heap)] \in Object
  OBVIOUS
<1>2. h \in Seq(Object) /\ Len(h) = Len(heap)
      /\ \A i \in 1..Len(heap) : h[i] = IF i = k THEN heap[Len(heap)] ELSE heap[i]
  BY <1>1, PutInto
<1> HIDE DEF h
<1>3. SubSeq(h, 1, Len(heap) - 1) \in Seq(Object)
      /\ Len(SubSeq(h, 1, Len(heap) - 1)) = Len(heap) - 1
      /\ \A i \in 1..(Len(heap) - 1) : SubSeq(h, 1, Len(heap) - 1)[i] = h[i]
  BY <1>2
<1>4. Popped(k) = SubSeq(h, 1, Len(heap) - 1)
  BY DEF Popped, h
<1> QED
  BY <1>2, <1>3, <1>4

-----------------------------------------------------------------------------
(* Types *)

\* What the end of an operation leaves behind.
LEMMA EndTypes ==
  ASSUME TypeOK, EndOperation, UNCHANGED adding
  PROVE  /\ pc' \in {"idle", "add"}
         /\ pos' \in Nat
         /\ obj' = NoObject
         /\ adding' \in Object \cup {NoObject}
         /\ pc' = "add" => adding' # NoObject
         /\ pc' = "idle" => adding' = NoObject
BY DEF TypeOK, EndOperation

\* Every step keeps the types.
LEMMA TypeStep ==
  ASSUME TypeOK, [Next]_vars
  PROVE  TypeOK'
<1> USE DEF Phases
<1>0. /\ heap \in Seq(Object) /\ Len(heap) \in Nat /\ id \in [Sockets -> Nat] /\ pos \in Nat
      /\ \A k \in 1..Len(heap) : heap[k] \in Object /\ heap[k].sock \in Sockets
  BY ObjectFields DEF TypeOK
<1>1. CASE HeapUpMove
  <2>1. /\ pos \in 1..Len(heap) /\ pos > 1 /\ obj \in Object /\ pos' = Parent(pos)
        /\ heap' = [heap EXCEPT ![pos] = heap[Parent(pos)]]
        /\ id' = [id EXCEPT ![heap[Parent(pos)].sock] = pos]
        /\ pc = "up" /\ UNCHANGED <<pc, obj, adding, waiting, owner, clock>>
    BY <1>1 DEF HeapUpMove, TypeOK, Parent
  <2>2. Parent(pos) \in 1..Len(heap)
    BY <2>1, <1>0, ParentBelow
  <2>3. heap' \in Seq(Object) /\ Len(heap') = Len(heap)
    BY <2>1, <2>2, <1>0, PutInto
  <2>4. id' \in [Sockets -> Nat]
    BY <2>1, <2>2, <1>0
  <2> QED
    BY <2>1, <2>2, <2>3, <2>4, <1>0 DEF TypeOK
<1>2. ASSUME PutDown, pc \in {"up", "down"} PROVE TypeOK'
  <2>1. /\ pos \in 1..Len(heap) /\ obj \in Object
        /\ heap' = [heap EXCEPT ![pos] = obj]
        /\ id' = [id EXCEPT ![obj.sock] = pos]
        /\ EndOperation /\ UNCHANGED <<adding, waiting, owner, clock>>
    BY <1>2 DEF PutDown, TypeOK
  <2>2. heap' \in Seq(Object)
    BY <2>1, <1>0, PutInto
  <2>3. id' \in [Sockets -> Nat]
    BY <2>1, <1>0
  <2> QED
    BY <2>1, <2>2, <2>3, EndTypes DEF TypeOK
<1>3. CASE HeapDownMove
  <2>1. /\ pos \in 1..Len(heap) /\ 2 * pos <= Len(heap) /\ obj \in Object /\ pos' = Child
        /\ heap' = [heap EXCEPT ![pos] = heap[Child]]
        /\ id' = [id EXCEPT ![heap[Child].sock] = pos]
        /\ pc = "down" /\ UNCHANGED <<pc, obj, adding, waiting, owner, clock>>
    BY <1>3 DEF HeapDownMove, TypeOK
  <2>2. Child \in 1..Len(heap)
    BY <2>1, <1>0 DEF Child
  <2>3. heap' \in Seq(Object) /\ Len(heap') = Len(heap)
    BY <2>1, <2>2, <1>0, PutInto
  <2>4. id' \in [Sockets -> Nat]
    BY <2>1, <2>2, <1>0
  <2> QED
    BY <2>1, <2>2, <2>3, <2>4, <1>0 DEF TypeOK
<1>4. CASE RemoveNothing
  BY <1>4, EndTypes DEF RemoveNothing, TypeOK
<1>5. CASE RemoveInside
  <2> DEFINE last == heap[Len(heap)]
  <2>1. /\ pos \in 1..(Len(heap) - 1) /\ pos \in 1..Len(heap) /\ pc = "remove"
        /\ heap' = Popped(pos)
        /\ UNCHANGED <<adding, waiting, owner, clock>>
        /\ last \in Object /\ last.sock \in Sockets /\ heap[pos].sock \in Sockets
    BY <1>5, <1>0 DEF RemoveInside
  <2>2. heap' \in Seq(Object) /\ Len(heap') = Len(heap) - 1
    BY <2>1, <1>0, PoppedHeap
  <2>3. CASE last.time = heap[pos].time
    <3>1. id' = [id EXCEPT ![heap[pos].sock] = 0, ![last.sock] = pos] /\ EndOperation
      BY <1>5, <2>3 DEF RemoveInside
    <3>2. id' \in [Sockets -> Nat]
      BY <3>1, <2>1, <1>0
    <3> QED
      BY <3>1, <3>2, <2>1, <2>2, EndTypes DEF TypeOK
  <2>4. CASE last.time # heap[pos].time
    <3>1. /\ id' = [id EXCEPT ![heap[pos].sock] = 0]
          /\ pc' \in {"up", "down"} /\ obj' = last /\ pos' = pos
      BY <1>5, <2>4 DEF RemoveInside
    <3>2. id' \in [Sockets -> Nat]
      BY <3>1, <2>1, <1>0
    <3> QED
      BY <3>1, <3>2, <2>1, <2>2 DEF TypeOK
  <2> QED
    BY <2>3, <2>4
<1>6. CASE RemoveLast
  <2>1. /\ pos = Len(heap) /\ pos \in 1..Len(heap) /\ pc = "remove"
        /\ heap' = Popped(pos)
        /\ id' = [id EXCEPT ![heap[pos].sock] = IF Len(heap) = 1 THEN 0 ELSE pos]
        /\ EndOperation /\ UNCHANGED <<adding, waiting, owner, clock>>
    BY <1>6, <1>0 DEF RemoveLast
  <2>2. heap' \in Seq(Object)
    BY <2>1, <1>0, PoppedHeap
  <2>3. id' \in [Sockets -> Nat]
    BY <2>1, <1>0
  <2> QED
    BY <2>1, <2>2, <2>3, EndTypes DEF TypeOK
<1>7. CASE AddTimer
  <2>1. /\ adding \in Object
        /\ heap' = Append(heap, adding) /\ obj' = adding /\ adding' = NoObject
        /\ pos' = Len(heap) + 1 /\ pc' = "up"
        /\ UNCHANGED <<id, waiting, owner, clock>>
    BY <1>7 DEF AddTimer, TypeOK
  <2>2. heap' \in Seq(Object) /\ Len(heap') = Len(heap) + 1
    BY <2>1, <1>0
  <2> QED
    BY <2>1, <2>2, <1>0 DEF TypeOK
<1>8. CASE PopTimeout
  <2>1. /\ heap # <<>> /\ pc = "idle" /\ owner = None
        /\ heap' = Popped(1)
        /\ id' = [id EXCEPT ![heap[1].sock] = 0]
        /\ owner' = heap[1].sock /\ waiting' = waiting \ {heap[1].sock}
        /\ UNCHANGED <<adding, clock>>
    BY <1>8 DEF PopTimeout, NextTimeoutIsZero
  <2>2. 1 \in 1..Len(heap) /\ Len(heap) \in 1..Len(heap)
    BY <2>1, <1>0
  <2>3. heap' \in Seq(Object) /\ Len(heap') = Len(heap) - 1
    BY <2>1, <2>2, <1>0, PoppedHeap
  <2>4. id' \in [Sockets -> Nat]
    BY <2>1, <2>2, <1>0
  <2>5. owner' \in Sockets \ waiting'
    BY <2>1, <2>2, <1>0
  <2>6. CASE Len(heap) > 1
    <3>1. pc' = "down" /\ pos' = 1 /\ obj' = heap[Len(heap)]
      BY <1>8, <2>6 DEF PopTimeout
    <3> QED
      BY <3>1, <2>1, <2>2, <2>3, <2>4, <2>5, <2>6, <1>0 DEF TypeOK
  <2>7. CASE ~(Len(heap) > 1)
    <3>1. UNCHANGED <<pc, pos, obj>>
      BY <1>8, <2>7 DEF PopTimeout
    <3> QED
      BY <3>1, <2>1, <2>3, <2>4, <2>5 DEF TypeOK
  <2> QED
    BY <2>6, <2>7
<1>9. ASSUME NEW s \in Sockets, CreateSocket(s) PROVE TypeOK'
  BY <1>9 DEF CreateSocket, TypeOK
<1>10. ASSUME NEW s \in Sockets, NEW t \in Nat, Suspend(s, t) PROVE TypeOK'
  <2>1. [time |-> t, sock |-> s] \in Object
    BY DEF Object
  <2>2. id[s] \in Nat
    BY <1>0
  <2> QED
    BY <1>10, <2>1, <2>2 DEF Suspend, TypeOK
<1>11. ASSUME NEW s \in Sockets, ResumeByEvent(s) PROVE TypeOK'
  <2>1. id[s] \in Nat
    BY <1>0
  <2> QED
    BY <1>11, <2>1 DEF ResumeByEvent, TypeOK
<1>12. ASSUME NEW s \in Sockets, CloseSocket(s) PROVE TypeOK'
  BY <1>12 DEF CloseSocket, TypeOK
<1>13. CASE Tick
  BY <1>13, TimerAssumption DEF Tick, TypeOK
<1>14. CASE UNCHANGED vars
  BY <1>14 DEF vars, TypeOK
<1>15. \A d \in Timeouts : clock + d \in Nat
  BY TimerAssumption DEF TypeOK
<1>16. Infinity \in Nat
  BY TimerAssumption
<1> QED
  BY <1>1, <1>2, <1>3, <1>4, <1>5, <1>6, <1>7, <1>8, <1>9, <1>10, <1>11, <1>12, <1>13, <1>14,
     <1>15, <1>16 DEF Next, HeapUpEnd, HeapDownEnd

-----------------------------------------------------------------------------
(* The steps by what they do to the heap *)

\* The positions by the objects of Full.
IdsFull ==
  /\ \A k \in 1..Len(Full) : ~(Moving /\ k = pos) => id[Full[k].sock] = k
  /\ \A j, k \in 1..Len(Full) : Full[j].sock = Full[k].sock => j = k

\* It says the same as IdsExact.
LEMMA IdsByFull == TypeOK => (IdsExact <=> IdsFull)
<1> SUFFICES ASSUME TypeOK PROVE IdsExact <=> IdsFull
  OBVIOUS
<1>1. /\ Len(Full) = Len(heap)
      /\ \A k \in 1..Len(heap) : ~(Moving /\ k = pos) => Full[k] = heap[k]
  BY FullHeap DEF FullOK
<1> QED
  BY <1>1 DEF IdsExact, IdsFull, Moving

\* The object that moves changes places with a neighbour.
Swaps ==
  /\ Moving /\ pc' = pc
  /\ pos \in 1..Len(Full) /\ pos' \in 1..Len(Full) /\ pos' # pos
  /\ Len(Full') = Len(Full)
  /\ \A k \in 1..Len(Full) :
        Full'[k] = IF k = pos THEN Full[pos'] ELSE IF k = pos' THEN Full[pos] ELSE Full[k]
  /\ id' = [id EXCEPT ![Full[pos'].sock] = pos]
  /\ UNCHANGED <<adding, waiting, owner, clock>>

\* heap_up: it is earlier than its parent.
LEMMA UpSwaps ==
  ASSUME TypeOK, TypeOK', HeapUpMove
  PROVE  /\ Swaps /\ pc = "up"
         /\ pos > 1 /\ pos' = Parent(pos)
         /\ Full[pos].time < Full[pos'].time
<1>1. FullOK /\ FullOK'
  <2>1. (TypeOK => FullOK)'
    BY FullHeap, PTL
  <2> QED
    BY <2>1, FullHeap
<1>2. /\ pc = "up" /\ pc' = "up" /\ Moving /\ Moving' /\ pos > 1 /\ pos' = Parent(pos)
      /\ obj.time < heap[Parent(pos)].time /\ obj' = obj
      /\ heap' = [heap EXCEPT ![pos] = heap[Parent(pos)]]
      /\ id' = [id EXCEPT ![heap[Parent(pos)].sock] = pos]
      /\ UNCHANGED <<adding, waiting, owner, clock>>
  BY DEF HeapUpMove, Parent, Moving
<1>3. /\ pos \in 1..Len(heap) /\ Parent(pos) \in 1..Len(heap) /\ Parent(pos) # pos
      /\ Len(Full) = Len(heap) /\ Len(Full') = Len(heap') /\ Len(heap) \in Nat
      /\ heap \in Seq(Object)
  BY <1>1, <1>2, ParentBelow DEF FullOK, TypeOK
<1>4. /\ Len(heap') = Len(heap)
      /\ \A k \in 1..Len(heap) : heap'[k] = IF k = pos THEN heap[Parent(pos)] ELSE heap[k]
  BY <1>2, <1>3
<1>5. /\ Full[pos] = obj
      /\ \A k \in 1..Len(heap) : k # pos => Full[k] = heap[k]
  BY <1>1, <1>2, <1>3 DEF FullOK
<1>6. \A k \in 1..Len(heap) : Full'[k] = IF k = pos' THEN obj ELSE heap'[k]
  BY <1>1, <1>2, <1>4 DEF FullOK
<1>7. \A k \in 1..Len(Full) :
        Full'[k] = IF k = pos THEN Full[pos'] ELSE IF k = pos' THEN Full[pos] ELSE Full[k]
  BY <1>2, <1>3, <1>4, <1>5, <1>6
<1> QED
  BY <1>2, <1>3, <1>4, <1>5, <1>7 DEF Swaps

\* heap_down: one of its children is earlier, and it is the earlier of the two.
LEMMA EarlierChild ==
  ASSUME TypeOK, pc = "down", 2 * pos <= Len(heap)
  PROVE  /\ Child \in 1..Len(heap) /\ Child > 1 /\ Child # pos /\ Parent(Child) = pos
         /\ \A k \in 2..Len(Full) : Parent(k) = pos => heap[Child].time <= Full[k].time
<1>1. FullOK
  BY FullHeap
<1>2. pos \in 1..Len(heap) /\ Len(heap) \in Nat /\ Moving /\ Len(Full) = Len(heap)
  BY <1>1 DEF FullOK, Moving
<1>3. \A k \in 1..Len(heap) : heap[k].time \in Nat
  BY ObjectFields DEF TypeOK
<1>4. \A k \in 1..Len(heap) : k # pos => Full[k] = heap[k]
  BY <1>1 DEF FullOK
<1>5. Child \in {2 * pos, 2 * pos + 1} /\ Child \in 1..Len(heap)
  BY <1>2 DEF Child
<1>6. Parent(Child) = pos /\ Child > 1 /\ Child # pos
  BY <1>2, <1>5, Children
<1>7. ASSUME NEW k \in 2..Len(Full), Parent(k) = pos
      PROVE  heap[Child].time <= Full[k].time
  <2>1. k \in {2 * pos, 2 * pos + 1} /\ k # pos /\ k \in 1..Len(heap)
    BY <1>2, <1>7, Children
  <2>2. Full[k] = heap[k]
    BY <1>4, <2>1
  <2>3. heap[Child].time <= heap[k].time
    BY <1>2, <1>3, <1>5, <2>1 DEF Child
  <2> QED
    BY <2>2, <2>3
<1> QED
  BY <1>5, <1>6, <1>7

\* heap_down: they change places.
LEMMA DownSwaps ==
  ASSUME TypeOK, TypeOK', HeapDownMove
  PROVE  /\ Swaps /\ pc = "down"
         /\ pos' > 1 /\ Parent(pos') = pos
         /\ Full[pos'].time < Full[pos].time
         /\ \A k \in 2..Len(Full) : Parent(k) = pos => Full[pos'].time <= Full[k].time
<1>1. FullOK /\ FullOK'
  <2>1. (TypeOK => FullOK)'
    BY FullHeap, PTL
  <2> QED
    BY <2>1, FullHeap
<1>2. /\ pc = "down" /\ pc' = "down" /\ Moving /\ Moving' /\ 2 * pos <= Len(heap) /\ pos' = Child
      /\ heap[Child].time < obj.time /\ obj' = obj
      /\ heap' = [heap EXCEPT ![pos] = heap[Child]]
      /\ id' = [id EXCEPT ![heap[Child].sock] = pos]
      /\ UNCHANGED <<adding, waiting, owner, clock>>
  BY DEF HeapDownMove, Moving
<1>3. /\ pos \in 1..Len(heap) /\ Len(Full) = Len(heap) /\ Len(Full') = Len(heap')
      /\ Len(heap) \in Nat /\ heap \in Seq(Object)
  BY <1>1, <1>2 DEF FullOK, TypeOK
<1>4. /\ Child \in 1..Len(heap) /\ Child > 1 /\ Child # pos /\ Parent(Child) = pos
      /\ \A k \in 2..Len(Full) : Parent(k) = pos => heap[Child].time <= Full[k].time
  BY <1>2, EarlierChild
<1>5. /\ Len(heap') = Len(heap)
      /\ \A k \in 1..Len(heap) : heap'[k] = IF k = pos THEN heap[Child] ELSE heap[k]
  BY <1>2, <1>3
<1>6. /\ Full[pos] = obj
      /\ \A k \in 1..Len(heap) : k # pos => Full[k] = heap[k]
  BY <1>1, <1>2, <1>3 DEF FullOK
<1>7. \A k \in 1..Len(heap) : Full'[k] = IF k = pos' THEN obj ELSE heap'[k]
  BY <1>1, <1>2, <1>5 DEF FullOK
<1>8. \A k \in 1..Len(Full) :
        Full'[k] = IF k = pos THEN Full[pos'] ELSE IF k = pos' THEN Full[pos] ELSE Full[k]
  BY <1>2, <1>3, <1>4, <1>5, <1>6, <1>7
<1>9. Full[pos'] = heap[Child]
  BY <1>2, <1>4, <1>6
<1> QED
  BY <1>2, <1>3, <1>4, <1>5, <1>6, <1>8, <1>9 DEF Swaps

\* The object that moves is put down where it is.
PutsDown ==
  /\ Moving /\ pc' \in {"idle", "add"}
  /\ pos \in 1..Len(Full)
  /\ Full' = Full
  /\ id' = [id EXCEPT ![Full[pos].sock] = pos]
  /\ UNCHANGED <<adding, waiting, owner, clock>>

\* The end of either loop puts it down, and it fits there.
LEMMA EndPutsDown ==
  ASSUME TypeOK, TypeOK', HeapUpEnd \/ HeapDownEnd
  PROVE  /\ PutsDown
         /\ pc = "up" /\ pos > 1 => Full[Parent(pos)].time <= Full[pos].time
         /\ pc = "down" =>
              \A k \in 2..Len(Full) : Parent(k) = pos => Full[pos].time <= Full[k].time
<1>1. FullOK /\ FullOK'
  <2>1. (TypeOK => FullOK)'
    BY FullHeap, PTL
  <2> QED
    BY <2>1, FullHeap
<1>2. /\ Moving /\ pc' \in {"idle", "add"} /\ ~Moving'
      /\ heap' = [heap EXCEPT ![pos] = obj]
      /\ id' = [id EXCEPT ![obj.sock] = pos]
      /\ UNCHANGED <<adding, waiting, owner, clock>>
      /\ pc = "up" /\ pos > 1 => heap[Parent(pos)].time <= obj.time
      /\ pc = "down" /\ 2 * pos <= Len(heap) => obj.time <= heap[Child].time
  BY DEF HeapUpEnd, HeapDownEnd, PutDown, EndOperation, Moving, Parent
<1>3. /\ pos \in 1..Len(heap) /\ Len(Full) = Len(heap) /\ Len(heap) \in Nat
      /\ Full[pos] = obj /\ obj \in Object
      /\ \A k \in 1..Len(heap) : k # pos => Full[k] = heap[k]
  BY <1>1, <1>2 DEF FullOK
<1>4. Full' = Full
  BY <1>1, <1>2 DEF FullOK, Full, Moving
<1>5. pc = "up" /\ pos > 1 => Full[Parent(pos)].time <= Full[pos].time
  BY <1>2, <1>3, ParentBelow
<1>6. ASSUME pc = "down", NEW k \in 2..Len(Full), Parent(k) = pos
      PROVE  Full[pos].time <= Full[k].time
  <2>0. k \in Nat /\ k > 1 /\ k <= Len(heap) /\ pos \in Nat
    BY <1>3
  <2>1. 2 * pos <= Len(heap)
    BY <1>6, <2>0, Children
  <2>2. Child \in 1..Len(heap) /\ heap[Child].time <= Full[k].time
    BY <1>6, <2>1, EarlierChild
  <2>3. k \in 1..Len(heap) /\ Full[k] \in Object /\ heap[Child] \in Object
    BY <1>1, <1>3, <1>6, <2>2 DEF FullOK, TypeOK
  <2>4. obj.time <= heap[Child].time
    BY <1>2, <1>6, <2>1
  <2> QED
    BY <1>3, <2>2, <2>3, <2>4, ObjectFields
<1> QED
  BY <1>2, <1>3, <1>4, <1>5, <1>6 DEF PutsDown

\* The object at k is taken out, the last one takes its place and may have to
\* move.  It is that of the socket whose uthread runs next.
Takes(k) ==
  /\ ~Moving /\ adding = NoObject /\ adding' = NoObject
  /\ k \in 1..Len(Full)
  /\ pc = "remove" => owner = Full[k].sock
  /\ Len(Full') = Len(Full) - 1
  /\ \A i \in 1..(Len(Full) - 1) : Full'[i] = IF i = k THEN Full[Len(Full)] ELSE Full[i]
  /\ id'[Full[k].sock] \notin 1..(Len(Full) - 1)
  /\ \A s \in Sockets : s # Full[k].sock /\ s # Full[Len(Full)].sock => id'[s] = id[s]
  /\ \/ k = Len(Full) /\ pc' = "idle"
     \/ /\ k < Len(Full) /\ pc' = "idle"
        /\ id'[Full[Len(Full)].sock] = k
        /\ Full[Len(Full)].time = Full[k].time
     \/ /\ k < Len(Full) /\ pc' = "up" /\ pos' = k
        /\ Full[Len(Full)].time < Full[k].time
     \/ /\ k < Len(Full) /\ pc' = "down" /\ pos' = k
        /\ k = 1 \/ Full[k].time < Full[Len(Full)].time
  /\ owner' = Full[k].sock
  /\ waiting' = waiting \ {Full[k].sock}
  /\ UNCHANGED clock

\* The heap of Takes, from that of the code.
LEMMA TakenHeap ==
  ASSUME TypeOK, TypeOK', ~Moving, NEW k \in 1..Len(heap), heap' = Popped(k),
         Moving' => pos' = k /\ obj' = heap[Len(heap)]
  PROVE  /\ Full = heap /\ k \in 1..Len(Full) /\ Len(Full) \in Nat
         /\ Len(Full') = Len(Full) - 1
         /\ \A i \in 1..(Len(Full) - 1) : Full'[i] = IF i = k THEN Full[Len(Full)] ELSE Full[i]
         /\ \A i \in 1..Len(Full) : Full[i] \in Object /\ Full[i].sock \in Sockets
<1>1. FullOK /\ FullOK'
  <2>1. (TypeOK => FullOK)'
    BY FullHeap, PTL
  <2> QED
    BY <2>1, FullHeap
<1>2. Full = heap /\ Len(heap) \in Nat /\ heap \in Seq(Object)
  BY <1>1 DEF FullOK, TypeOK
<1>3. /\ Len(heap') = Len(heap) - 1
      /\ \A i \in 1..(Len(heap) - 1) : heap'[i] = IF i = k THEN heap[Len(heap)] ELSE heap[i]
  BY <1>2, PoppedHeap
<1>4. /\ Len(Full') = Len(heap')
      /\ \A i \in 1..Len(heap') : Full'[i] = IF Moving' /\ i = pos' THEN obj' ELSE heap'[i]
  BY <1>1 DEF FullOK
<1>5. \A i \in 1..(Len(Full) - 1) : Full'[i] = IF i = k THEN Full[Len(Full)] ELSE Full[i]
  BY <1>2, <1>3, <1>4
<1>6. \A i \in 1..Len(Full) : Full[i] \in Object /\ Full[i].sock \in Sockets
  BY <1>2, ObjectFields
<1> QED
  BY <1>2, <1>3, <1>4, <1>5, <1>6

\* RemoveTimer for a uthread that an event resumed.
LEMMA RemoveTakes ==
  ASSUME TypeOK, TypeOK', SocketInv, RemoveInside \/ RemoveLast
  PROVE  pc = "remove" /\ Takes(pos)
<1>1. /\ pc = "remove" /\ ~Moving /\ pos \in 1..Len(heap) /\ heap' = Popped(pos)
      /\ UNCHANGED <<adding, waiting, owner, clock>>
  BY DEF RemoveInside, RemoveLast, Moving, TypeOK
<1>2. Full = heap /\ id \in [Sockets -> Nat] /\ Len(heap) \in Nat
  BY <1>1, FullHeap DEF FullOK, TypeOK
<1>3. adding = NoObject /\ owner = heap[pos].sock /\ waiting = waiting \ {owner}
  <2>1. adding = NoObject
    BY <1>1, <1>2 DEF SocketInv
  <2>2. owner = heap[pos].sock
    BY <1>1, <1>2, <2>1 DEF SocketInv
  <2>3. owner \notin waiting
    <3>1. heap[pos] \in Object
      BY <1>1 DEF TypeOK
    <3>2. owner # None
      BY <2>2, <3>1, ObjectFields, TimerAssumption
    <3> QED
      BY <3>2 DEF TypeOK
  <2> QED
    BY <2>1, <2>2, <2>3
<1>4. CASE RemoveLast
  <2>1. /\ pos = Len(heap) /\ pc' = "idle"
        /\ id' = [id EXCEPT ![heap[pos].sock] = IF Len(heap) = 1 THEN 0 ELSE pos]
    BY <1>3, <1>4 DEF RemoveLast, EndOperation
  <2>2. ~Moving'
    BY <2>1 DEF Moving
  <2>3. /\ Len(Full') = Len(Full) - 1
        /\ \A i \in 1..(Len(Full) - 1) :
              Full'[i] = IF i = pos THEN Full[Len(Full)] ELSE Full[i]
        /\ \A i \in 1..Len(Full) : Full[i] \in Object /\ Full[i].sock \in Sockets
    BY <1>1, <2>2, TakenHeap
  <2>4. /\ id'[Full[pos].sock] \notin 1..(Len(Full) - 1)
        /\ \A s \in Sockets : s # Full[pos].sock => id'[s] = id[s]
    BY <1>1, <1>2, <2>1, <2>3
  <2> QED
    BY <1>1, <1>2, <1>3, <2>1, <2>3, <2>4 DEF Takes
<1>5. CASE RemoveInside
  <2> DEFINE last == heap[Len(heap)]
  <2>1. pos < Len(heap)
    BY <1>5, <1>2 DEF RemoveInside
  <2>2. CASE last.time = heap[pos].time
    <3>1. pc' = "idle" /\ id' = [id EXCEPT ![heap[pos].sock] = 0, ![last.sock] = pos]
      BY <1>3, <1>5, <2>2 DEF RemoveInside, EndOperation
    <3>2. ~Moving'
      BY <3>1 DEF Moving
    <3>3. /\ Len(Full') = Len(Full) - 1
          /\ \A i \in 1..(Len(Full) - 1) :
                Full'[i] = IF i = pos THEN Full[Len(Full)] ELSE Full[i]
          /\ \A i \in 1..Len(Full) : Full[i] \in Object /\ Full[i].sock \in Sockets
      BY <1>1, <3>2, TakenHeap
    <3> QED
      BY <1>1, <1>2, <1>3, <2>1, <2>2, <3>1, <3>3 DEF Takes
  <2>3. CASE last.time # heap[pos].time
    <3>1. /\ id' = [id EXCEPT ![heap[pos].sock] = 0]
          /\ pc' = IF last.time < heap[pos].time THEN "up" ELSE "down"
          /\ obj' = last /\ pos' = pos
      BY <1>5, <2>3 DEF RemoveInside
    <3>3. /\ Len(Full') = Len(Full) - 1
          /\ \A i \in 1..(Len(Full) - 1) :
                Full'[i] = IF i = pos THEN Full[Len(Full)] ELSE Full[i]
          /\ \A i \in 1..Len(Full) : Full[i] \in Object /\ Full[i].sock \in Sockets
      BY <1>1, <3>1, TakenHeap
    <3>4. last.time \in Nat /\ heap[pos].time \in Nat
      BY <1>1, <1>2, <3>3, ObjectFields
    <3> QED
      BY <1>1, <1>2, <1>3, <2>1, <2>3, <3>1, <3>3, <3>4 DEF Takes
  <2> QED
    BY <2>2, <2>3
<1> QED
  BY <1>1, <1>4, <1>5

\* PopTimeout.
LEMMA PopTakes ==
  ASSUME TypeOK, TypeOK', SocketInv, PopTimeout
  PROVE  pc = "idle" /\ owner = None /\ Takes(1)
<1>1. /\ pc = "idle" /\ owner = None /\ ~Moving /\ heap # <<>> /\ heap' = Popped(1)
      /\ id' = [id EXCEPT ![heap[1].sock] = 0]
      /\ owner' = heap[1].sock /\ waiting' = waiting \ {heap[1].sock}
      /\ UNCHANGED <<adding, clock>>
  BY DEF PopTimeout, NextTimeoutIsZero, Moving
<1>2. /\ Full = heap /\ id \in [Sockets -> Nat] /\ Len(heap) \in Nat
      /\ 1 \in 1..Len(heap) /\ adding = NoObject
  BY <1>1, FullHeap DEF FullOK, TypeOK, SocketInv
<1>3. CASE Len(heap) > 1
  <2>1. pc' = "down" /\ pos' = 1 /\ obj' = heap[Len(heap)]
    BY <1>3 DEF PopTimeout
  <2>2. /\ Len(Full') = Len(Full) - 1
        /\ \A i \in 1..(Len(Full) - 1) :
              Full'[i] = IF i = 1 THEN Full[Len(Full)] ELSE Full[i]
        /\ \A i \in 1..Len(Full) : Full[i] \in Object /\ Full[i].sock \in Sockets
    BY <1>1, <1>2, <2>1, TakenHeap
  <2> QED
    BY <1>1, <1>2, <1>3, <2>1, <2>2 DEF Takes
<1>4. CASE Len(heap) = 1
  <2>0. pc' = pc
    BY <1>4 DEF PopTimeout
  <2>1. Len(heap) = 1 /\ pc' = "idle"
    BY <1>1, <1>4, <2>0
  <2>2. ~Moving'
    BY <2>1 DEF Moving
  <2>3. /\ Len(Full') = Len(Full) - 1
        /\ \A i \in 1..(Len(Full) - 1) :
              Full'[i] = IF i = 1 THEN Full[Len(Full)] ELSE Full[i]
        /\ \A i \in 1..Len(Full) : Full[i] \in Object /\ Full[i].sock \in Sockets
    BY <1>1, <1>2, <2>2, TakenHeap
  <2> QED
    BY <1>1, <1>2, <2>1, <2>3 DEF Takes
<1>5. Len(heap) > 1 \/ Len(heap) = 1
  <2> DEFINE n == Len(heap)
  <2>1. n \in Nat /\ n >= 1
    BY <1>2
  <2> HIDE DEF n
  <2>2. n > 1 \/ n = 1
    BY <2>1
  <2> QED
    BY <2>2 DEF n
<1> QED
  BY <1>1, <1>3, <1>4, <1>5

\* An object is put at the end, from where it moves up.
Adds ==
  /\ pc = "add" /\ pc' = "up"
  /\ Len(Full') = Len(Full) + 1
  /\ pos' = Len(Full) + 1
  /\ \A i \in 1..(Len(Full) + 1) : Full'[i] = IF i = Len(Full) + 1 THEN adding ELSE Full[i]
  /\ adding \in Object /\ adding # NoObject /\ adding' = NoObject
  /\ UNCHANGED <<id, waiting, owner, clock>>

\* AddTimer is such a step.
LEMMA AddAdds ==
  ASSUME TypeOK, TypeOK', AddTimer
  PROVE  Adds
<1>1. /\ pc = "add" /\ pc' = "up" /\ ~Moving /\ Moving'
      /\ heap' = Append(heap, adding) /\ obj' = adding
      /\ pos' = Len(heap) + 1 /\ adding' = NoObject /\ adding # NoObject /\ adding \in Object
      /\ UNCHANGED <<id, waiting, owner, clock>>
  BY DEF AddTimer, Moving, TypeOK
<1>2. Full = heap /\ Len(heap) \in Nat /\ heap \in Seq(Object)
  BY <1>1, FullHeap DEF FullOK, TypeOK
<1>3. FullOK'
  <2>1. (TypeOK => FullOK)'
    BY FullHeap, PTL
  <2> QED
    BY <2>1
<1>4. /\ Len(heap') = Len(heap) + 1
      /\ \A i \in 1..Len(heap) : heap'[i] = heap[i]
  BY <1>1, <1>2
<1>5. /\ Len(Full') = Len(heap')
      /\ \A i \in 1..Len(heap') : Full'[i] = IF i = pos' THEN obj' ELSE heap'[i]
  BY <1>1, <1>3 DEF FullOK
<1>6. \A i \in 1..(Len(Full) + 1) : Full'[i] = IF i = Len(Full) + 1 THEN adding ELSE Full[i]
  BY <1>1, <1>2, <1>4, <1>5
<1> QED
  BY <1>1, <1>2, <1>4, <1>5, <1>6 DEF Adds

\* The heap and the timer_id of every socket in it stay as they are.
Stays ==
  /\ ~Moving /\ ~Moving'
  /\ Full' = Full
  /\ \A k \in 1..Len(Full) : id'[Full[k].sock] = id[Full[k].sock]

\* The callers, the clock and a RemoveTimer that finds nothing.
LEMMA OthersStay ==
  ASSUME TypeOK, SocketInv,
         \/ RemoveNothing
         \/ Tick
         \/ \E s \in Sockets :
              \/ CreateSocket(s)
              \/ \E t \in Nat : Suspend(s, t)
              \/ ResumeByEvent(s)
              \/ CloseSocket(s)
  PROVE  Stays
<1>1. /\ ~Moving /\ ~Moving' /\ heap' = heap
  BY DEF RemoveNothing, Tick, CreateSocket, Suspend, ResumeByEvent, CloseSocket, EndOperation,
         Moving
<1>2. Full' = Full
  BY <1>1 DEF Full, Moving
<1>3. CASE \E s \in Sockets : CreateSocket(s)
  <2>1. PICK s \in Sockets : CreateSocket(s)
    BY <1>3
  <2>2. pc = "idle" /\ s \notin waiting /\ id' = [id EXCEPT ![s] = 0] /\ id \in [Sockets -> Nat]
    BY <2>1 DEF CreateSocket, TypeOK
  <2>3. \A k \in 1..Len(Full) : Full[k].sock \in waiting
    BY <2>2 DEF SocketInv
  <2>4. waiting \in SUBSET Sockets
    BY DEF TypeOK
  <2>5. \A k \in 1..Len(Full) : id'[Full[k].sock] = id[Full[k].sock]
    BY <2>2, <2>3, <2>4
  <2> QED
    BY <1>1, <1>2, <2>5 DEF Stays
<1>4. CASE ~\E s \in Sockets : CreateSocket(s)
  <2>1. id' = id
    BY <1>4 DEF RemoveNothing, Tick, Suspend, ResumeByEvent, CloseSocket
  <2> QED
    BY <1>1, <1>2, <2>1 DEF Stays
<1> QED
  BY <1>3, <1>4

-----------------------------------------------------------------------------
(* The invariant, one kind of step after the other *)

\* The objects of Full.
LEMMA FullObjects ==
  TypeOK => /\ Len(Full) \in Nat
            /\ \A k \in 1..Len(Full) : /\ Full[k] \in Object
                                       /\ Full[k].time \in Nat
                                       /\ Full[k].sock \in Sockets
                                       /\ Full[k].sock # None
            /\ Moving => pos \in 1..Len(Full)
            /\ owner \notin waiting \/ owner = None
            /\ None \notin waiting
  BY FullHeap, ObjectFields, TimerAssumption DEF FullOK, TypeOK

\* What the two swaps share.
LEMMA SwapKeeps ==
  ASSUME TypeOK, TypeOK', IdsFull, SocketInv, DeadlineInv, Swaps
  PROVE  IdsFull' /\ SocketInv' /\ DeadlineInv'
<1>1. /\ Len(Full) \in Nat
      /\ \A k \in 1..Len(Full) : Full[k].sock \in Sockets /\ Full[k].sock \in waiting
      /\ id \in [Sockets -> Nat]
      /\ adding = NoObject
      /\ owner \notin waiting
  BY FullObjects DEF SocketInv, Swaps, Moving, TypeOK
<1>2. /\ pc' = pc /\ Moving /\ Moving' /\ pc # "remove" /\ pc' # "remove"
      /\ pos \in 1..Len(Full) /\ pos' \in 1..Len(Full) /\ pos' # pos
      /\ Len(Full') = Len(Full)
      /\ \A k \in 1..Len(Full) :
            Full'[k] = IF k = pos THEN Full[pos'] ELSE IF k = pos' THEN Full[pos] ELSE Full[k]
      /\ id' = [id EXCEPT ![Full[pos'].sock] = pos]
      /\ UNCHANGED <<adding, waiting, owner, clock>>
  BY DEF Swaps, Moving
<1>3. IdsFull'
  <2>1. \A j, k \in 1..Len(Full) : Full[j].sock = Full[k].sock => j = k
    BY DEF IdsFull
  <2>2. \A j, k \in 1..Len(Full) : Full'[j].sock = Full'[k].sock => j = k
    BY <1>2, <2>1
  <2>3. \A k \in 1..Len(Full) : k # pos' => id'[Full'[k].sock] = k
    <3> SUFFICES ASSUME NEW k \in 1..Len(Full), k # pos' PROVE id'[Full'[k].sock] = k
      OBVIOUS
    <3>1. CASE k = pos
      BY <1>1, <1>2, <3>1
    <3>2. CASE k # pos
      <4>1. Full'[k] = Full[k] /\ id[Full[k].sock] = k /\ Full[k].sock # Full[pos'].sock
        BY <1>2, <2>1, <3>2 DEF IdsFull
      <4> QED
        BY <1>1, <1>2, <4>1
    <3> QED
      BY <3>1, <3>2
  <2> QED
    BY <1>2, <2>2, <2>3 DEF IdsFull
<1>4. SocketInv'
  <2>1. \A k \in 1..Len(Full) : Full'[k].sock \in waiting
    BY <1>1, <1>2
  <2>2. owner # None => id'[owner] \notin 1..Len(Full)
    <3>1. owner # None => id[owner] \notin 1..Len(Full)
      BY <1>2 DEF SocketInv
    <3>2. owner # Full[pos'].sock
      BY <1>1, <1>2
    <3>3. owner # None => owner \in Sockets
      BY DEF TypeOK
    <3> QED
      BY <1>1, <1>2, <3>1, <3>2, <3>3
  <2>3. WaitersArmed'
    <3> SUFFICES ASSUME NEW s \in waiting
                 PROVE  (\E k \in 1..Len(Full) : Full'[k].sock = s) \/ adding.sock = s
      BY <1>2 DEF WaitersArmed
    <3>1. CASE adding.sock = s
      BY <3>1
    <3>2. CASE adding.sock # s
      <4>1. PICK k \in 1..Len(Full) : Full[k].sock = s
        BY <3>2 DEF SocketInv, WaitersArmed
      <4>2. CASE k = pos
        <5>1. Full'[pos'].sock = s
          BY <1>2, <4>1, <4>2
        <5> QED
          BY <1>2, <5>1
      <4>3. CASE k = pos'
        <5>1. Full'[pos].sock = s
          BY <1>2, <4>1, <4>3
        <5> QED
          BY <1>2, <5>1
      <4>4. CASE k # pos /\ k # pos'
        <5>1. Full'[k].sock = s
          BY <1>2, <4>1, <4>4
        <5> QED
          BY <5>1
      <4> QED
        BY <4>2, <4>3, <4>4
    <3> QED
      BY <3>1, <3>2
  <2> QED
    BY <1>1, <1>2, <2>1, <2>2, <2>3 DEF SocketInv
<1>5. DeadlineInv'
  BY <1>1, <1>2 DEF DeadlineInv, Near
<1> QED
  BY <1>3, <1>4, <1>5

\* An object that moves up leaves the heap as it should be behind it.
LEMMA UpOrder ==
  ASSUME TypeOK, OrderInv, Swaps, pc = "up", pos > 1, pos' = Parent(pos),
         Full[pos].time < Full[pos'].time
  PROVE  OrderInv'
<1> DEFINE P == Parent(pos)
<1>1. /\ Len(Full) \in Nat /\ pos \in 1..Len(Full) /\ P \in 1..Len(Full) /\ P < pos
      /\ \A k \in 1..Len(Full) : Full[k].time \in Nat
      /\ \A k \in 2..Len(Full) : Parent(k) \in 1..Len(Full) /\ Parent(k) < k
  BY FullObjects, ParentBelow DEF Swaps
<1>2. /\ Len(Full') = Len(Full) /\ pc' = "up" /\ pos' = P
      /\ Full'[pos] = Full[P] /\ Full'[P] = Full[pos]
      /\ \A k \in 1..Len(Full) : k # pos /\ k # P => Full'[k] = Full[k]
  BY <1>1 DEF Swaps
<1>3. /\ \A k \in 2..Len(Full) : k # pos => Full[Parent(k)].time <= Full[k].time
      /\ \A k \in 2..Len(Full) : Parent(k) = pos => Full[P].time <= Full[k].time
  BY DEF OrderInv, Moving
<1> HIDE DEF P
<1>4. ASSUME NEW k \in 2..Len(Full), k # P
      PROVE  Full'[Parent(k)].time <= Full'[k].time
  <2>1. CASE k = pos
    BY <1>1, <1>2, <2>1 DEF P
  <2>2. CASE k # pos /\ Parent(k) = pos
    BY <1>1, <1>2, <1>3, <1>4, <2>2
  <2>3. CASE k # pos /\ Parent(k) = P
    <3>1. Full[P].time <= Full[k].time
      BY <1>3, <2>3
    <3>2. Full'[k] = Full[k] /\ Full'[Parent(k)] = Full[pos] /\ k \in 1..Len(Full)
      BY <1>1, <1>2, <1>4, <2>3
    <3> QED
      BY <1>1, <1>2, <3>1, <3>2 DEF P
  <2>4. CASE k # pos /\ Parent(k) # pos /\ Parent(k) # P
    BY <1>1, <1>2, <1>3, <1>4, <2>4
  <2> QED
    BY <2>1, <2>2, <2>3, <2>4
<1>5. ASSUME P > 1, NEW k \in 2..Len(Full), Parent(k) = P
      PROVE  Full'[Parent(P)].time <= Full'[k].time
  <2>1. /\ P \in 2..Len(Full) /\ P # pos
        /\ Parent(P) \in 1..Len(Full) /\ Parent(P) # P /\ Parent(P) # pos
    BY <1>1, <1>5
  <2>2. Full'[Parent(P)] = Full[Parent(P)] /\ Full[Parent(P)].time <= Full[P].time
    BY <1>2, <1>3, <2>1
  <2>3. CASE k = pos
    BY <1>2, <2>2, <2>3
  <2>4. CASE k # pos
    <3>1. k # P /\ k \in 1..Len(Full)
      BY <1>1, <1>5
    <3>2. Full'[k] = Full[k] /\ Full[P].time <= Full[k].time
      BY <1>2, <1>3, <1>5, <2>4, <3>1
    <3> QED
      BY <1>1, <2>1, <2>2, <3>1, <3>2
  <2> QED
    BY <2>3, <2>4
<1> QED
  BY <1>2, <1>4, <1>5 DEF OrderInv, Moving

\* So does one that moves down.
LEMMA DownOrder ==
  ASSUME TypeOK, OrderInv, Swaps, pc = "down", pos' > 1, Parent(pos') = pos,
         Full[pos'].time < Full[pos].time,
         \A k \in 2..Len(Full) : Parent(k) = pos => Full[pos'].time <= Full[k].time
  PROVE  OrderInv'
<1>1. /\ Len(Full) \in Nat /\ pos \in 1..Len(Full) /\ pos' \in 2..Len(Full) /\ pos < pos'
      /\ \A k \in 1..Len(Full) : Full[k].time \in Nat
      /\ \A k \in 2..Len(Full) : Parent(k) \in 1..Len(Full) /\ Parent(k) < k
  BY FullObjects, ParentBelow DEF Swaps
<1>2. /\ Len(Full') = Len(Full) /\ pc' = "down"
      /\ Full'[pos] = Full[pos'] /\ Full'[pos'] = Full[pos]
      /\ \A k \in 1..Len(Full) : k # pos /\ k # pos' => Full'[k] = Full[k]
  BY <1>1 DEF Swaps
<1>3. /\ \A k \in 2..Len(Full) : Parent(k) # pos => Full[Parent(k)].time <= Full[k].time
      /\ pos > 1 => \A k \in 2..Len(Full) : Parent(k) = pos => Full[Parent(pos)].time <= Full[k].time
  BY DEF OrderInv, Moving
<1>4. ASSUME NEW k \in 2..Len(Full), Parent(k) # pos'
      PROVE  Full'[Parent(k)].time <= Full'[k].time
  <2>1. CASE k = pos
    <3>1. /\ Parent(k) # pos /\ Parent(k) # pos' /\ Parent(k) \in 1..Len(Full)
          /\ Full[Parent(pos)].time <= Full[pos'].time
      BY <1>1, <1>3, <1>4, <2>1
    <3>2. Full'[Parent(k)] = Full[Parent(k)] /\ Full'[k] = Full[pos']
      BY <1>2, <2>1, <3>1
    <3> QED
      BY <2>1, <3>1, <3>2
  <2>2. CASE k = pos'
    <3>1. Full'[Parent(k)] = Full[pos'] /\ Full'[k] = Full[pos]
      BY <1>2, <2>2
    <3> QED
      BY <1>1, <3>1
  <2>3. CASE k # pos /\ k # pos' /\ Parent(k) = pos
    <3>1. Full'[Parent(k)] = Full[pos'] /\ Full'[k] = Full[k]
      BY <1>1, <1>2, <2>3
    <3> QED
      BY <2>3, <3>1
  <2>4. CASE k # pos /\ k # pos' /\ Parent(k) # pos
    <3>1. Full'[Parent(k)] = Full[Parent(k)] /\ Full'[k] = Full[k]
      BY <1>1, <1>2, <1>4, <2>4
    <3> QED
      BY <1>3, <2>4, <3>1
  <2> QED
    BY <2>1, <2>2, <2>3, <2>4
<1>5. ASSUME NEW k \in 2..Len(Full), Parent(k) = pos'
      PROVE  Full'[Parent(pos')].time <= Full'[k].time
  <2>1. k # pos /\ k # pos' /\ Parent(k) # pos /\ k \in 1..Len(Full)
    BY <1>1, <1>5
  <2>2. Full'[k] = Full[k] /\ Full'[Parent(pos')] = Full[pos']
    BY <1>2, <2>1
  <2>3. Full[pos'].time <= Full[k].time
    BY <1>3, <1>5, <2>1
  <2> QED
    BY <2>2, <2>3
<1> QED
  BY <1>2, <1>4, <1>5 DEF OrderInv, Moving

\* Putting it down where it fits restores the heap.
LEMMA PutKeeps ==
  ASSUME TypeOK, TypeOK', IdsFull, OrderInv, SocketInv, DeadlineInv, PutsDown,
         pc = "up" /\ pos > 1 => Full[Parent(pos)].time <= Full[pos].time,
         pc = "down" =>
           \A k \in 2..Len(Full) : Parent(k) = pos => Full[pos].time <= Full[k].time
  PROVE  IdsFull' /\ OrderInv' /\ SocketInv' /\ DeadlineInv'
<1>1. /\ Len(Full) \in Nat
      /\ \A k \in 1..Len(Full) : Full[k].sock \in Sockets /\ Full[k].sock \in waiting
      /\ id \in [Sockets -> Nat]
      /\ adding = NoObject
      /\ owner \notin waiting
      /\ owner # None => owner \in Sockets
  BY FullObjects DEF SocketInv, PutsDown, Moving, TypeOK
<1>2. /\ pc' = "idle" /\ ~Moving' /\ Moving /\ pc # "remove"
      /\ pos \in 1..Len(Full)
      /\ Full' = Full
      /\ id' = [id EXCEPT ![Full[pos].sock] = pos]
      /\ UNCHANGED <<adding, waiting, owner, clock>>
  BY <1>1 DEF PutsDown, Moving, TypeOK
<1>3. IdsFull'
  <2>1. \A j, k \in 1..Len(Full) : Full[j].sock = Full[k].sock => j = k
    BY DEF IdsFull
  <2>2. \A k \in 1..Len(Full) : id'[Full[k].sock] = k
    <3> SUFFICES ASSUME NEW k \in 1..Len(Full) PROVE id'[Full[k].sock] = k
      OBVIOUS
    <3>1. CASE k = pos
      BY <1>1, <1>2, <3>1
    <3>2. CASE k # pos
      BY <1>1, <1>2, <2>1, <3>2 DEF IdsFull
    <3> QED
      BY <3>1, <3>2
  <2> QED
    BY <1>2, <2>1, <2>2 DEF IdsFull
<1>4. OrderInv'
  <2>1. \A k \in 2..Len(Full) : Full[Parent(k)].time <= Full[k].time
    <3> SUFFICES ASSUME NEW k \in 2..Len(Full) PROVE Full[Parent(k)].time <= Full[k].time
      OBVIOUS
    <3>1. CASE pc = "up" /\ k = pos
      BY <3>1
    <3>2. CASE pc = "down" /\ Parent(k) = pos
      BY <3>2
    <3> QED
      BY <3>1, <3>2 DEF OrderInv
  <2> QED
    BY <1>2, <2>1 DEF OrderInv
<1>5. SocketInv'
  <2>1. owner # None => id'[owner] \notin 1..Len(Full)
    <3>1. owner # None => id[owner] \notin 1..Len(Full)
      BY <1>2 DEF SocketInv
    <3>2. owner # Full[pos].sock
      BY <1>1, <1>2
    <3> QED
      BY <1>1, <1>2, <3>1, <3>2
  <2>2. WaitersArmed'
    BY <1>2 DEF SocketInv, WaitersArmed
  <2> QED
    BY <1>1, <1>2, <2>1, <2>2 DEF SocketInv
<1>6. DeadlineInv'
  BY <1>1, <1>2 DEF DeadlineInv, Near
<1> QED
  BY <1>3, <1>4, <1>5, <1>6

\* A removal: the hole is filled with the last object, which may have to move,
\* and the uthread whose timer it was runs.
LEMMA TakeKeeps ==
  ASSUME TypeOK, TypeOK', IdsFull, OrderInv, SocketInv, DeadlineInv, NEW k, Takes(k),
         pc' # "remove"
  PROVE  IdsFull' /\ OrderInv' /\ SocketInv' /\ DeadlineInv'
<1> DEFINE N == Len(Full)
           own == Full[k].sock
<1>1. /\ N \in Nat /\ k \in 1..N /\ N \in 1..N /\ ~Moving
      /\ \A i \in 1..N : /\ Full[i].sock \in Sockets
                         /\ Full[i].sock # None
                         /\ Full[i].time \in Nat
      /\ own \in Sockets /\ own # None
      /\ None \notin waiting
      /\ adding = NoObject /\ adding' = NoObject
  BY FullObjects DEF Takes
<1>2. /\ Len(Full') = N - 1
      /\ \A i \in 1..(N - 1) : Full'[i] = IF i = k THEN Full[N] ELSE Full[i]
      /\ id'[own] \notin 1..(N - 1)
      /\ \A s \in Sockets : s # own /\ s # Full[N].sock => id'[s] = id[s]
      /\ owner' = own /\ waiting' = waiting \ {own} /\ clock' = clock
  BY DEF Takes
<1>3. /\ \A i \in 1..N : id[Full[i].sock] = i
      /\ \A i, j \in 1..N : Full[j].sock = Full[i].sock => j = i
      /\ \A i \in 1..N : i # k => Full[i].sock # own
  BY <1>1 DEF IdsFull
<1>4. \/ k = N /\ pc' = "idle"
      \/ k < N /\ pc' = "idle" /\ id'[Full[N].sock] = k /\ Full[N].time = Full[k].time
      \/ k < N /\ pc' = "up" /\ pos' = k /\ Full[N].time < Full[k].time
      \/ k < N /\ pc' = "down" /\ pos' = k /\ (k = 1 \/ Full[k].time < Full[N].time)
  BY DEF Takes
<1>5. \A i \in 1..(N - 1) : i # k => i \in 1..N /\ Full'[i] = Full[i]
  BY <1>1, <1>2
<1>6. k < N => k \in 1..(N - 1) /\ Full'[k] = Full[N]
  BY <1>1, <1>2
<1> HIDE DEF N
<1>7. IdsFull'
  <2>1. ASSUME NEW i \in 1..(N - 1), ~(Moving' /\ i = pos')
        PROVE  id'[Full'[i].sock] = i
    <3>1. CASE i = k
      <4>1. k < N /\ pc' = "idle" /\ id'[Full[N].sock] = k
        BY <1>1, <1>4, <2>1, <3>1 DEF Moving
      <4> QED
        BY <1>6, <3>1, <4>1
    <3>2. CASE i # k
      <4>1. i \in 1..N /\ i # N /\ Full'[i] = Full[i]
        BY <1>1, <1>5, <3>2
      <4>2. Full[i].sock # own /\ Full[i].sock # Full[N].sock /\ Full[i].sock \in Sockets
        BY <1>1, <1>3, <3>2, <4>1
      <4> QED
        BY <1>2, <1>3, <4>1, <4>2
    <3> QED
      BY <3>1, <3>2
  <2>2. ASSUME NEW i \in 1..(N - 1), NEW j \in 1..(N - 1), Full'[i].sock = Full'[j].sock
        PROVE  i = j
    <3>1. CASE i = k /\ j # k
      BY <1>1, <1>3, <1>5, <1>6, <2>2, <3>1
    <3>2. CASE j = k /\ i # k
      BY <1>1, <1>3, <1>5, <1>6, <2>2, <3>2
    <3>3. CASE i # k /\ j # k
      BY <1>1, <1>3, <1>5, <2>2, <3>3
    <3> QED
      BY <3>1, <3>2, <3>3
  <2> QED
    BY <1>2, <2>1, <2>2 DEF IdsFull
<1>8. OrderInv'
  <2>1. /\ \A i \in 2..N : Full[Parent(i)].time <= Full[i].time
        /\ \A i \in 2..N : Parent(i) \in 1..N /\ Parent(i) < i
    BY <1>1, ParentBelow DEF OrderInv, Moving, N
  <2>2. ASSUME NEW i \in 2..(N - 1)
        PROVE  \/ pc' = "up" /\ i = pos'
               \/ pc' = "down" /\ Parent(i) = pos'
               \/ Full'[Parent(i)].time <= Full'[i].time
    <3>1. /\ i \in 1..(N - 1) /\ i \in 2..N /\ i # N
          /\ Parent(i) \in 1..(N - 1) /\ Parent(i) # i
          /\ Parent(i) \in 1..N
      BY <1>1, <2>1
    <3>2. /\ Full[Parent(i)].time <= Full[i].time
          /\ Full[Parent(i)].time \in Nat /\ Full[i].time \in Nat /\ Full[N].time \in Nat
          /\ Full[k].time \in Nat
      BY <1>1, <2>1, <3>1
    <3>3. CASE i = k
      <4>1. Full'[i] = Full[N] /\ Full'[Parent(i)] = Full[Parent(i)] /\ k < N /\ k # 1
        BY <1>1, <1>5, <1>6, <3>1, <3>3
      <4> QED
        BY <1>4, <3>2, <3>3, <4>1
    <3>4. CASE Parent(i) = k
      <4>1. Full'[i] = Full[i] /\ Full'[Parent(i)] = Full[N] /\ k < N
        BY <1>1, <1>5, <1>6, <3>1, <3>4
      <4> QED
        BY <1>4, <3>2, <3>4, <4>1
    <3>5. CASE i # k /\ Parent(i) # k
      BY <1>5, <3>1, <3>2, <3>5
    <3> QED
      BY <3>3, <3>4, <3>5
  <2>3. ASSUME Moving', pos' > 1, NEW i \in 2..(N - 1), Parent(i) = pos'
        PROVE  Full'[Parent(pos')].time <= Full'[i].time
    <3>1. pos' = k /\ k < N /\ k \in 2..N
      BY <1>1, <1>4, <2>3 DEF Moving
    <3>2. /\ i \in 1..(N - 1) /\ i \in 2..N /\ i # k /\ k \in 1..N /\ i \in 1..N
          /\ Parent(k) \in 1..(N - 1) /\ Parent(k) # k /\ Parent(k) \in 1..N
      BY <1>1, <2>1, <2>3, <3>1
    <3>3. Full'[i] = Full[i] /\ Full'[Parent(k)] = Full[Parent(k)]
      BY <1>5, <3>2
    <3>4. Full[Parent(k)].time <= Full[k].time /\ Full[k].time <= Full[i].time
      BY <2>1, <2>3, <3>1, <3>2
    <3>5. Full[Parent(k)].time \in Nat /\ Full[k].time \in Nat /\ Full[i].time \in Nat
      BY <1>1, <3>2
    <3> QED
      BY <3>1, <3>3, <3>4, <3>5
  <2> QED
    BY <1>2, <2>2, <2>3 DEF OrderInv
<1>9. SocketInv'
  <2>1. ASSUME NEW i \in 1..(N - 1) PROVE Full'[i].sock \in waiting'
    <3>1. PICK j \in 1..N : j # k /\ Full'[i] = Full[j]
      BY <1>1, <1>5, <1>6
    <3>2. Full[j].sock # own
      BY <1>3, <3>1
    <3>3. Full[j].sock \in waiting
      <4>1. Full[j].sock \in waiting \/ (pc = "remove" /\ Full[j].sock = owner)
        BY <3>1 DEF SocketInv, N
      <4>2. pc = "remove" => owner = own
        BY DEF Takes
      <4> QED
        BY <1>1, <3>2, <4>1, <4>2
    <3> QED
      BY <1>2, <3>1, <3>2, <3>3
  <2>2. WaitersArmed'
    <3> SUFFICES ASSUME NEW s \in waiting'
                 PROVE  \E i \in 1..(N - 1) : Full'[i].sock = s
      BY <1>2 DEF WaitersArmed
    <3>1. s \in waiting /\ s # own /\ s # None
      BY <1>1, <1>2
    <3>2. PICK j \in 1..N : Full[j].sock = s
      BY <1>1, <3>1 DEF SocketInv, WaitersArmed, NoObject, N
    <3>3. j # k
      BY <3>1, <3>2
    <3>4. CASE j = N
      <4>1. k < N
        BY <1>1, <3>3, <3>4
      <4> QED
        BY <1>6, <3>2, <3>4, <4>1
    <3>5. CASE j # N
      <4>1. j \in 1..(N - 1)
        BY <1>1, <3>5
      <4> QED
        BY <1>5, <3>2, <3>3, <4>1
    <3> QED
      BY <3>4, <3>5
  <2> QED
    BY <1>1, <1>2, <2>1, <2>2 DEF SocketInv
<1>10. DeadlineInv'
  <2>1. \A i \in 1..(N - 1) : \E j \in 1..N : Full'[i] = Full[j]
    BY <1>1, <1>5, <1>6
  <2>2. \A i \in 1..N : Near(Full[i].time)
    BY DEF DeadlineInv, N
  <2> QED
    BY <1>1, <1>2, <2>1, <2>2 DEF DeadlineInv, Near
<1> QED
  BY <1>7, <1>8, <1>9, <1>10

\* A timer is added.
LEMMA AddKeeps ==
  ASSUME TypeOK, TypeOK', IdsFull, OrderInv, SocketInv, DeadlineInv, Adds
  PROVE  IdsFull' /\ OrderInv' /\ SocketInv' /\ DeadlineInv'
<1> DEFINE N == Len(Full)
<1>1. /\ N \in Nat /\ ~Moving /\ Moving'
      /\ \A i \in 1..N : Full[i].sock \in Sockets /\ Full[i].time \in Nat
      /\ None \notin waiting
  BY FullObjects DEF Adds, Moving
<1>2. /\ pc = "add" /\ pc' = "up" /\ pos' = N + 1 /\ Len(Full') = N + 1
      /\ Full'[N + 1] = adding
      /\ \A i \in 1..N : Full'[i] = Full[i]
      /\ adding \in Object /\ adding # NoObject /\ adding' = NoObject
      /\ UNCHANGED <<id, waiting, owner, clock>>
  BY <1>1 DEF Adds
<1>3. /\ \A i \in 1..N : id[Full[i].sock] = i
      /\ \A i, j \in 1..N : Full[j].sock = Full[i].sock => j = i
      /\ \A i \in 1..N : Full[i].sock # adding.sock
      /\ \A i \in 1..N : Full[i].sock \in waiting
      /\ owner = None
      /\ adding.sock \in waiting
  BY <1>1, <1>2 DEF IdsFull, SocketInv
<1>4. \A i \in 1..(N + 1) : i # N + 1 => i \in 1..N
  BY <1>1
<1> HIDE DEF N
<1>5. IdsFull'
  <2>1. \A i \in 1..(N + 1) : i # N + 1 => id'[Full'[i].sock] = i
    BY <1>2, <1>3, <1>4
  <2>2. \A i, j \in 1..(N + 1) : Full'[j].sock = Full'[i].sock => j = i
    BY <1>2, <1>3, <1>4
  <2> QED
    BY <1>1, <1>2, <2>1, <2>2 DEF IdsFull
<1>6. OrderInv'
  <2>1. \A i \in 2..N : Full[Parent(i)].time <= Full[i].time
    BY <1>1 DEF OrderInv, Moving, N
  <2>2. \A i \in 2..(N + 1) : Parent(i) \in 1..N /\ Parent(i) < i
    BY <1>1, ParentBelow
  <2>3. \A i \in 2..(N + 1) : i = N + 1 \/ Full'[Parent(i)].time <= Full'[i].time
    <3> SUFFICES ASSUME NEW i \in 2..(N + 1), i # N + 1
                 PROVE  Full'[Parent(i)].time <= Full'[i].time
      OBVIOUS
    <3>1. i \in 2..N /\ i \in 1..N /\ Parent(i) \in 1..N
      BY <1>1, <2>2
    <3> QED
      BY <1>2, <2>1, <3>1
  <2>4. \A i \in 2..(N + 1) : Parent(i) # N + 1
    BY <1>1, <2>2
  <2> QED
    BY <1>2, <2>3, <2>4 DEF OrderInv
<1>7. SocketInv'
  <2>1. \A i \in 1..(N + 1) : Full'[i].sock \in waiting
    BY <1>2, <1>3, <1>4
  <2>2. WaitersArmed'
    <3> SUFFICES ASSUME NEW s \in waiting
                 PROVE  \E i \in 1..(N + 1) : Full'[i].sock = s
      BY <1>2 DEF WaitersArmed
    <3>1. CASE adding.sock = s
      <4>1. N + 1 \in 1..(N + 1) /\ Full'[N + 1].sock = s
        BY <1>1, <1>2, <3>1
      <4> QED
        BY <4>1
    <3>2. CASE adding.sock # s
      <4>1. PICK i \in 1..N : Full[i].sock = s
        BY <3>2 DEF SocketInv, WaitersArmed, N
      <4>2. i \in 1..(N + 1) /\ Full'[i].sock = s
        BY <1>1, <1>2, <4>1
      <4> QED
        BY <4>2
    <3> QED
      BY <3>1, <3>2
  <2> QED
    BY <1>2, <1>3, <2>1, <2>2 DEF SocketInv
<1>8. DeadlineInv'
  <2>1. Near(adding.time) /\ \A i \in 1..N : Near(Full[i].time)
    BY <1>2 DEF DeadlineInv, N
  <2>2. \A i \in 1..(N + 1) : Near(Full'[i].time)
    BY <1>2, <1>4, <2>1
  <2> QED
    BY <1>2, <2>2 DEF DeadlineInv, Near
<1> QED
  BY <1>5, <1>6, <1>7, <1>8

\* Positions and order of a heap that stays as it is.
LEMMA StayKeeps ==
  ASSUME TypeOK, IdsFull, OrderInv, Stays
  PROVE  IdsFull' /\ OrderInv'
<1>1. IdsFull'
  BY DEF IdsFull, Stays
<1>2. OrderInv'
  BY DEF OrderInv, Stays, Moving
<1> QED
  BY <1>1, <1>2

\* The callers, the clock and a RemoveTimer that finds nothing.
LEMMA OthersKeep ==
  ASSUME TypeOK, TypeOK', IdsFull, OrderInv, SocketInv, DeadlineInv,
         \/ RemoveNothing
         \/ Tick
         \/ \E s \in Sockets :
              \/ CreateSocket(s)
              \/ \E d \in Timeouts : Suspend(s, clock + d)
              \/ Suspend(s, Infinity)
              \/ ResumeByEvent(s)
              \/ CloseSocket(s)
  PROVE  IdsFull' /\ OrderInv' /\ SocketInv' /\ DeadlineInv'
<1>1. \A d \in Timeouts : clock + d \in Nat /\ Near(clock + d)
  BY TimerAssumption DEF TypeOK, Near
<1>2. Infinity \in Nat /\ Near(Infinity) /\ Infinity >= clock
  BY TimerAssumption DEF TypeOK, Near
<1>3. Stays
  BY <1>1, <1>2, OthersStay
<1>4. IdsFull' /\ OrderInv' /\ Full' = Full
  BY <1>3, StayKeeps DEF Stays
<1>5. /\ Len(Full) \in Nat
      /\ \A k \in 1..Len(Full) : Full[k].sock \in Sockets /\ Full[k].time \in Nat
      /\ Full = heap
      /\ None \notin waiting /\ waiting \in SUBSET Sockets
      /\ owner \notin waiting
      /\ clock \in Nat /\ IntRange \in Nat
      /\ id \in [Sockets -> Nat]
  BY <1>3, FullObjects, FullHeap, TimerAssumption DEF TypeOK, Stays, FullOK
<1>6. CASE RemoveNothing
  <2>1. /\ pc = "remove" /\ pos \notin 1..Len(Full)
        /\ UNCHANGED <<id, adding, waiting, owner, clock>>
    BY <1>5, <1>6 DEF RemoveNothing
  <2>2. adding # NoObject
    BY <2>1 DEF SocketInv
  <2>3. pc' = "add"
    BY <1>6, <2>2 DEF RemoveNothing, EndOperation
  <2>4. owner = None /\ adding.sock \in waiting /\ \A k \in 1..Len(Full) : Full[k].sock # adding.sock
    BY <2>2 DEF SocketInv
  <2>5. \A k \in 1..Len(Full) : Full[k].sock \in waiting
    BY <1>5, <2>4, TimerAssumption DEF SocketInv
  <2>6. SocketInv'
    BY <1>4, <2>1, <2>2, <2>3, <2>4, <2>5 DEF SocketInv, WaitersArmed
  <2>7. DeadlineInv'
    BY <1>4, <2>1 DEF DeadlineInv, Near
  <2> QED
    BY <1>4, <2>6, <2>7
<1>7. CASE Tick
  <2>1. pc = "idle" /\ clock' = clock + 1 /\ UNCHANGED <<heap, id, pc, pos, adding, waiting, owner>>
    BY <1>7 DEF Tick
  <2>2. adding = NoObject
    BY <2>1 DEF SocketInv
  <2>3. SocketInv'
    BY <1>4, <2>1 DEF SocketInv, WaitersArmed
  <2>4. DeadlineInv'
    BY <1>4, <1>5, <2>1, <2>2 DEF DeadlineInv, Near
  <2> QED
    BY <1>4, <2>3, <2>4
<1>8. ASSUME NEW s \in Sockets, CreateSocket(s)
      PROVE  SocketInv' /\ DeadlineInv'
  <2>1. /\ pc = "idle" /\ owner' = s /\ id' = [id EXCEPT ![s] = 0]
        /\ UNCHANGED <<pc, pos, adding, waiting, clock>>
    BY <1>8 DEF CreateSocket
  <2>2. adding = NoObject /\ \A k \in 1..Len(Full) : Full[k].sock \in waiting
    BY <2>1 DEF SocketInv
  <2>3. id'[s] \notin 1..Len(Full)
    BY <1>5, <2>1
  <2>4. SocketInv'
    BY <1>4, <2>1, <2>2, <2>3 DEF SocketInv, WaitersArmed
  <2>5. DeadlineInv'
    BY <1>4, <2>1 DEF DeadlineInv, Near
  <2> QED
    BY <2>4, <2>5
<1>9. ASSUME NEW s \in Sockets, NEW t \in Nat, Near(t), t >= clock, Suspend(s, t)
      PROVE  SocketInv' /\ DeadlineInv'
  <2>1. /\ pc = "idle" /\ owner = s /\ pc' = "remove" /\ pos' = id[s]
        /\ adding' = [time |-> t, sock |-> s]
        /\ owner' = None /\ waiting' = waiting \cup {s}
        /\ UNCHANGED <<heap, id, clock>>
    BY <1>9 DEF Suspend
  <2>2. adding = NoObject /\ \A k \in 1..Len(Full) : Full[k].sock \in waiting
    BY <2>1 DEF SocketInv
  <2>3. s # None
    BY TimerAssumption
  <2>4. pos' \notin 1..Len(Full)
    BY <2>1, <2>3 DEF SocketInv
  <2>5. adding' # NoObject /\ adding'.sock = s /\ adding'.time = t
    BY <2>1, <2>3 DEF NoObject
  <2>6. s \notin waiting
    BY <1>5, <2>1
  <2>7. WaitersArmed'
    <3> SUFFICES ASSUME NEW u \in waiting, u # s PROVE \E k \in 1..Len(Full) : Full[k].sock = u
      BY <1>4, <2>1, <2>5 DEF WaitersArmed
    <3>1. adding.sock # u
      BY <1>5, <2>2 DEF NoObject
    <3> QED
      BY <3>1 DEF SocketInv, WaitersArmed
  <2>8. SocketInv'
    BY <1>4, <2>1, <2>2, <2>4, <2>5, <2>6, <2>7 DEF SocketInv
  <2>9. DeadlineInv'
    BY <1>4, <1>9, <2>1, <2>5 DEF DeadlineInv, Near
  <2> QED
    BY <2>8, <2>9
<1>10. ASSUME NEW s \in Sockets, ResumeByEvent(s)
       PROVE  SocketInv' /\ DeadlineInv'
  <2>1. /\ pc = "idle" /\ owner = None /\ s \in waiting
        /\ owner' = s /\ waiting' = waiting \ {s}
        /\ pc' = "remove" /\ pos' = id[s]
        /\ UNCHANGED <<heap, id, adding, clock>>
    BY <1>10 DEF ResumeByEvent
  <2>2. adding = NoObject /\ \A k \in 1..Len(Full) : Full[k].sock \in waiting
    BY <2>1 DEF SocketInv
  <2>3. PICK k \in 1..Len(Full) : Full[k].sock = s
    BY <1>5, <2>1, <2>2 DEF SocketInv, WaitersArmed, NoObject
  <2>4. id[s] = k
    BY <1>3, <2>3 DEF IdsFull, Stays
  <2>5. pos' \in 1..Len(Full) /\ Full[pos'].sock = s
    BY <2>1, <2>3, <2>4
  <2>6. WaitersArmed'
    BY <1>4, <2>1 DEF SocketInv, WaitersArmed
  <2>7. SocketInv'
    BY <1>4, <2>1, <2>2, <2>5, <2>6 DEF SocketInv
  <2>8. DeadlineInv'
    BY <1>4, <2>1 DEF DeadlineInv, Near
  <2> QED
    BY <2>7, <2>8
<1>11. ASSUME NEW s \in Sockets, CloseSocket(s)
       PROVE  SocketInv' /\ DeadlineInv'
  <2>1. /\ pc = "idle" /\ owner' = None /\ UNCHANGED <<id, pc, pos, adding, waiting, clock>>
    BY <1>11 DEF CloseSocket
  <2>2. adding = NoObject /\ \A k \in 1..Len(Full) : Full[k].sock \in waiting
    BY <2>1 DEF SocketInv
  <2>3. SocketInv'
    BY <1>4, <2>1, <2>2 DEF SocketInv, WaitersArmed
  <2>4. DeadlineInv'
    BY <1>4, <2>1 DEF DeadlineInv, Near
  <2> QED
    BY <2>3, <2>4
<1>12. \A d \in Timeouts : clock + d >= clock
  BY <1>5, TimerAssumption
<1> QED
  BY <1>1, <1>2, <1>4, <1>6, <1>7, <1>8, <1>9, <1>10, <1>11, <1>12

-----------------------------------------------------------------------------
(* The theorems *)

\* The invariant holds at the start.
LEMMA InitTInv == Init => TInv
<1> SUFFICES ASSUME Init PROVE TInv
  OBVIOUS
<1>1. /\ heap = <<>> /\ pc = "idle" /\ adding = NoObject /\ waiting = {} /\ owner = None
      /\ ~Moving /\ Full = <<>> /\ Len(Full) = 0 /\ Len(heap) = 0
  BY DEF Init, Full, Moving
<1>2. TypeOK
  BY TimerAssumption DEF Init, TypeOK, Phases
<1>3. IdsExact
  BY <1>1 DEF IdsExact
<1>4. OrderInv
  BY <1>1 DEF OrderInv
<1>5. SocketInv
  BY <1>1 DEF SocketInv, WaitersArmed
<1>6. DeadlineInv
  BY <1>1 DEF DeadlineInv
<1> QED
  BY <1>2, <1>3, <1>4, <1>5, <1>6 DEF TInv

\* Every step keeps it.
LEMMA StepTInv == TInv /\ [Next]_vars => TInv'
<1> SUFFICES ASSUME TInv, [Next]_vars PROVE TInv'
  OBVIOUS
<1>1. TypeOK /\ TypeOK' /\ IdsFull /\ OrderInv /\ SocketInv /\ DeadlineInv
  BY TypeStep, IdsByFull DEF TInv
<1>2. SUFFICES IdsFull' /\ OrderInv' /\ SocketInv' /\ DeadlineInv'
  <2>1. (TypeOK => (IdsExact <=> IdsFull))'
    BY IdsByFull, PTL
  <2> QED
    BY <1>1, <1>2, <2>1 DEF TInv
<1>3. CASE HeapUpMove
  <2>1. /\ Swaps /\ pc = "up"
        /\ pos > 1 /\ pos' = Parent(pos)
        /\ Full[pos].time < Full[pos'].time
    BY <1>1, <1>3, UpSwaps
  <2> QED
    BY <1>1, <2>1, SwapKeeps, UpOrder
<1>4. CASE HeapDownMove
  <2>1. /\ Swaps /\ pc = "down"
        /\ pos' > 1 /\ Parent(pos') = pos
        /\ Full[pos'].time < Full[pos].time
        /\ \A k \in 2..Len(Full) : Parent(k) = pos => Full[pos'].time <= Full[k].time
    BY <1>1, <1>4, DownSwaps
  <2> QED
    BY <1>1, <2>1, SwapKeeps, DownOrder
<1>5. CASE HeapUpEnd \/ HeapDownEnd
  BY <1>1, <1>5, EndPutsDown, PutKeeps
<1>6. CASE RemoveInside \/ RemoveLast
  <2>1. pc = "remove" /\ Takes(pos)
    BY <1>1, <1>6, RemoveTakes
  <2>2. pc' # "remove"
    BY <2>1 DEF Takes
  <2> QED
    BY <1>1, <2>1, <2>2, TakeKeeps
<1>7. CASE PopTimeout
  <2>1. Takes(1)
    BY <1>1, <1>7, PopTakes
  <2>2. pc' # "remove"
    BY <2>1 DEF Takes
  <2> QED
    BY <1>1, <2>1, <2>2, TakeKeeps
<1>8. CASE AddTimer
  BY <1>1, <1>8, AddAdds, AddKeeps
<1>9. CASE \/ RemoveNothing
           \/ Tick
           \/ \E s \in Sockets :
                \/ CreateSocket(s)
                \/ \E d \in Timeouts : Suspend(s, clock + d)
                \/ Suspend(s, Infinity)
                \/ ResumeByEvent(s)
                \/ CloseSocket(s)
  BY <1>1, <1>9, OthersKeep
<1>10. CASE UNCHANGED vars
  <2>1. UNCHANGED <<heap, id, pc, pos, obj, adding, waiting, owner, clock>>
    BY <1>10 DEF vars
  <2>2. Full' = Full /\ Moving' = Moving
    BY <2>1 DEF Full, Moving
  <2>3. IdsFull'
    BY <1>1, <2>1, <2>2 DEF IdsFull
  <2>4. OrderInv'
    BY <1>1, <2>1, <2>2 DEF OrderInv
  <2>5. SocketInv'
    BY <1>1, <2>1, <2>2 DEF SocketInv, WaitersArmed
  <2>6. DeadlineInv'
    BY <1>1, <2>1, <2>2 DEF DeadlineInv, Near
  <2> QED
    BY <2>3, <2>4, <2>5, <2>6
<1> QED
  BY <1>3, <1>4, <1>5, <1>6, <1>7, <1>8, <1>9, <1>10 DEF Next

\* So it holds in every state.
LEMMA TInvHolds == Spec => []TInv
BY InitTInv, StepTInv, PTL DEF Spec

\* For any number of timers: outside the loops of heap_up and heap_down no object is
\* earlier than its parent, every object is at the position its socket remembers,
\* and no socket has two.
THEOREM HeapIsExact == Spec => []HeapExact
<1>1. TInv => HeapExact
  <2> SUFFICES ASSUME TInv PROVE HeapExact
    OBVIOUS
  <2>1. HeapOrdered
    BY FullHeap DEF TInv, HeapOrdered, OrderInv, Parent, Moving, FullOK
  <2> QED
    BY <2>1 DEF TInv, HeapExact
<1> QED
  BY <1>1, TInvHolds, PTL

\* The timers are those of the suspended uthreads: a stale timer_id never takes
\* another socket's timer away, and none outlives its socket.
THEOREM TimersAreTheWaiters == Spec => []TimersFollowSockets
<1>1. TInv => TimersFollowSockets
  BY FullHeap DEF TInv, SocketInv, TimersFollowSockets, NoTimerOfFreedSocket, FullOK, Moving
<1> QED
  BY <1>1, TInvHolds, PTL

\* What expires is due, unless it has no timeout.
LEMMA DueAtPop ==
  ASSUME TypeOK, DeadlineInv, PopTimeout
  PROVE  heap[1].time <= clock \/ heap[1].time = Infinity
<1>1. /\ pc = "idle" /\ heap # <<>>
      /\ heap[1].time - clock <= 0 \/ (heap[1].time - clock) % IntRange = 0
  BY DEF PopTimeout, NextTimeoutIsZero
<1>2. /\ Full = heap /\ 1 \in 1..Len(heap) /\ heap[1].time \in Nat /\ clock \in Nat
      /\ IntRange \in Nat \ {0}
  BY <1>1, FullHeap, ObjectFields, TimerAssumption DEF FullOK, Moving, TypeOK
<1>3. heap[1].time = Infinity \/ heap[1].time < clock + IntRange
  BY <1>2 DEF DeadlineInv, Near
<1>4. CASE heap[1].time # Infinity /\ heap[1].time > clock
  <2> DEFINE left == heap[1].time - clock
  <2>1. left \in Nat /\ 0 < left /\ left < IntRange /\ left % IntRange = 0
    BY <1>1, <1>2, <1>3, <1>4
  <2> HIDE DEF left
  <2> QED
    BY <1>2, <2>1, NoMultiple
<1> QED
  BY <1>2, <1>4

\* No uthread is resumed by a finite timeout before its deadline, although
\* GetNextTimeout narrows the distance to int.
THEOREM NothingExpiresEarly == Spec => NeverEarly
<1>1. TInv /\ [Next]_vars => [PopTimeout => heap[1].time <= clock \/ heap[1].time = Infinity]_vars
  BY DueAtPop DEF TInv
<1> QED
  BY <1>1, TInvHolds, PTL DEF Spec, NeverEarly

-----------------------------------------------------------------------------
(* The heap implements the set of timers. *)

\* The front of a heap is an earliest deadline: were there an earlier one, the first
\* such position would have a parent that is earlier too.
LEMMA FrontIsLeast ==
  ASSUME TypeOK, OrderInv, ~Moving
  PROVE  \A k \in 1..Len(Full) : Full[1].time <= Full[k].time
<1>1. /\ Len(Full) \in Nat
      /\ \A k \in 1..Len(Full) : Full[k].time \in Nat
      /\ \A k \in 2..Len(Full) : Full[Parent(k)].time <= Full[k].time
      /\ \A k \in 2..Len(Full) : Parent(k) \in 1..Len(Full) /\ Parent(k) < k
  BY FullObjects, ParentBelow DEF OrderInv, Moving
<1> DEFINE Earlier == {k \in 1..Len(Full) : Full[k].time < Full[1].time}
<1>2. ASSUME Earlier # {} PROVE FALSE
  <2>1. Earlier \in SUBSET Nat
    OBVIOUS
  <2>2. PICK m \in Earlier : \A k \in Earlier : m <= k
    BY <1>2, <2>1, LeastElement
  <2>3. m \in 2..Len(Full) /\ Full[m].time < Full[1].time /\ 1 \in 1..Len(Full)
    BY <1>1, <2>2
  <2>4. /\ Parent(m) \in 1..Len(Full) /\ Parent(m) < m
        /\ Full[Parent(m)].time <= Full[m].time
    BY <1>1, <2>3
  <2>5. Parent(m) \in Earlier
    BY <1>1, <2>3, <2>4
  <2> QED
    BY <2>2, <2>3, <2>4, <2>5
<1>3. ASSUME NEW k \in 1..Len(Full) PROVE Full[1].time <= Full[k].time
  <2>1. k \notin Earlier /\ 1 \in 1..Len(Full)
    BY <1>1, <1>2
  <2> QED
    BY <1>1, <2>1
<1> QED
  BY <1>3

Armed == {Full[k] : k \in 1..Len(Full)}

\* The initial state is one of TimerSet.
LEMMA InitRefines == Init => Timers!Init
<1> SUFFICES ASSUME Init PROVE Timers!Init
  OBVIOUS
<1>1. Full = <<>> /\ Len(Full) = 0 /\ owner = None /\ clock = 0
  BY DEF Init, Full
<1>2. Armed = {}
  BY <1>1 DEF Armed
<1> QED
  BY <1>1, <1>2 DEF Timers!Init, Armed

\* A removal takes one timer out of the set.
LEMMA TakeRefines ==
  ASSUME TypeOK, IdsFull, NEW k, Takes(k)
  PROVE  Full[k] \in Armed /\ Armed' = Armed \ {Full[k]}
<1> DEFINE N == Len(Full)
<1>1. /\ N \in Nat /\ k \in 1..N /\ Len(Full') = N - 1
      /\ \A i \in 1..(N - 1) : Full'[i] = IF i = k THEN Full[N] ELSE Full[i]
      /\ \A i, j \in 1..N : Full[i].sock = Full[j].sock => i = j
  BY FullObjects DEF Takes, IdsFull
<1>2. Armed = {Full[i] : i \in 1..N} /\ Armed' = {Full'[i] : i \in 1..(N - 1)}
  BY <1>1 DEF Armed
<1> HIDE DEF N
<1>3. ASSUME NEW i \in 1..(N - 1)
      PROVE  Full'[i] \in Armed \ {Full[k]}
  <2>1. PICK j \in 1..N : Full'[i] = Full[j] /\ j # k
    BY <1>1
  <2> QED
    BY <1>1, <1>2, <2>1
<1>4. ASSUME NEW j \in 1..N, j # k
      PROVE  Full[j] \in Armed'
  <2>1. PICK i \in 1..(N - 1) : Full'[i] = Full[j]
    <3>1. CASE j = N
      <4>1. k \in 1..(N - 1) /\ Full'[k] = Full[j]
        BY <1>1, <1>4, <3>1
      <4> QED
        BY <4>1
    <3>2. CASE j # N
      <4>1. j \in 1..(N - 1) /\ Full'[j] = Full[j]
        BY <1>1, <1>4, <3>2
      <4> QED
        BY <4>1
    <3> QED
      BY <3>1, <3>2
  <2> QED
    BY <1>2, <2>1
<1> QED
  BY <1>1, <1>2, <1>3, <1>4

\* Every step is one of TimerSet or leaves its variables alone.
LEMMA StepRefines ==
  ASSUME TInv, TInv', [Next]_vars
  PROVE  [Timers!Next]_(Timers!vars)
<1>1. TypeOK /\ TypeOK' /\ IdsFull /\ OrderInv /\ SocketInv /\ DeadlineInv
  BY IdsByFull DEF TInv
<1>2. ASSUME Armed' = Armed, owner' = owner, clock' = clock
      PROVE  [Timers!Next]_(Timers!vars)
  BY <1>2 DEF Timers!vars, Armed
<1>3. CASE HeapUpMove \/ HeapDownMove
  <2>1. Swaps
    BY <1>1, <1>3, UpSwaps, DownSwaps
  <2>2. /\ pos \in 1..Len(Full) /\ pos' \in 1..Len(Full) /\ pos' # pos
        /\ Len(Full') = Len(Full)
        /\ \A k \in 1..Len(Full) :
            Full'[k] = IF k = pos THEN Full[pos'] ELSE IF k = pos' THEN Full[pos] ELSE Full[k]
    BY <2>1 DEF Swaps
  <2>3. ASSUME NEW k \in 1..Len(Full) PROVE Full'[k] \in Armed /\ Full[k] \in Armed'
    <3>1. PICK j \in 1..Len(Full) : Full'[k] = Full[j]
      BY <2>2
    <3>2. PICK i \in 1..Len(Full) : Full[k] = Full'[i]
      <4>1. k = pos => Full'[pos'] = Full[k]
        BY <2>2
      <4>2. k = pos' => Full'[pos] = Full[k]
        BY <2>2
      <4>3. k # pos /\ k # pos' => Full'[k] = Full[k]
        BY <2>2
      <4> QED
        BY <2>2, <4>1, <4>2, <4>3
    <3> QED
      BY <2>2, <3>1, <3>2 DEF Armed
  <2>4. Armed' = Armed
    BY <2>2, <2>3 DEF Armed
  <2> QED
    BY <1>2, <2>1, <2>4 DEF Swaps
<1>4. CASE HeapUpEnd \/ HeapDownEnd
  <2>1. PutsDown
    BY <1>1, <1>4, EndPutsDown
  <2>2. Armed' = Armed
    BY <2>1 DEF PutsDown, Armed
  <2> QED
    BY <1>2, <2>1, <2>2 DEF PutsDown
<1>5. CASE RemoveInside \/ RemoveLast
  <2>1. pc = "remove" /\ Takes(pos)
    BY <1>1, <1>5, RemoveTakes
  <2>2. Full[pos] \in Armed /\ Armed' = Armed \ {Full[pos]}
    BY <1>1, <2>1, TakeRefines
  <2>3. owner = Full[pos].sock /\ owner' = owner /\ clock' = clock
    BY <2>1 DEF Takes
  <2>4. PICK t \in Armed : t = Full[pos]
    BY <2>2
  <2>5. Timers!Next
    <3>1. Timers!Disarm(t)
      BY <2>2, <2>3, <2>4 DEF Timers!Disarm, Armed
    <3> QED
      BY <3>1 DEF Timers!Next, Armed
  <2> QED
    BY <2>5
<1>6. CASE PopTimeout
  <2>1. owner = None /\ Takes(1) /\ pc = "idle"
    BY <1>1, <1>6, PopTakes
  <2>2. Full[1] \in Armed /\ Armed' = Armed \ {Full[1]}
    BY <1>1, <2>1, TakeRefines
  <2>3. owner' = Full[1].sock /\ clock' = clock
    BY <2>1 DEF Takes
  <2>4. Full[1].time <= clock \/ Full[1].time = Infinity
    BY <1>1, <1>6, <2>1, DueAtPop, FullHeap DEF FullOK, Moving
  <2>5. \A u \in Armed : Full[1].time <= u.time
    BY <1>1, <2>1, FrontIsLeast DEF Armed, Moving
  <2>6. PICK t \in Armed : t = Full[1]
    BY <2>2
  <2>7. Timers!Next
    <3>1. Timers!Expire(t)
      BY <2>1, <2>2, <2>3, <2>4, <2>5, <2>6 DEF Timers!Expire, Armed
    <3> QED
      BY <3>1 DEF Timers!Next, Armed
  <2> QED
    BY <2>7
<1>7. CASE AddTimer
  <2>1. Adds
    BY <1>1, <1>7, AddAdds
  <2>2. /\ Len(Full') = Len(Full) + 1 /\ Len(Full) \in Nat
        /\ \A i \in 1..(Len(Full) + 1) : Full'[i] = IF i = Len(Full) + 1 THEN adding ELSE Full[i]
    BY <1>1, <2>1, FullObjects DEF Adds
  <2>3. /\ owner = None /\ owner' = None /\ clock' = clock /\ adding.time >= clock
        /\ adding.sock \in Sockets
        /\ \A k \in 1..Len(Full) : Full[k].sock # adding.sock
    BY <1>1, <2>1, ObjectFields DEF Adds, SocketInv, DeadlineInv
  <2>4. Armed' = Armed \cup {adding}
    <3>1. Armed = {Full[i] : i \in 1..Len(Full)} /\ Armed' = {Full'[i] : i \in 1..(Len(Full) + 1)}
      BY <2>2 DEF Armed
    <3>2. Full'[Len(Full) + 1] = adding /\ Len(Full) + 1 \in 1..(Len(Full) + 1)
      BY <2>2
    <3>3. \A i \in 1..Len(Full) : i \in 1..(Len(Full) + 1) /\ Full'[i] = Full[i]
      BY <2>2
    <3>4. \A i \in 1..(Len(Full) + 1) : i = Len(Full) + 1 \/ i \in 1..Len(Full)
      BY <2>2
    <3> QED
      BY <3>1, <3>2, <3>3, <3>4
  <2>5. \A t \in Armed : t.sock # adding.sock
    BY <2>3 DEF Armed
  <2>6. PICK s \in Sockets : s = adding.sock
    BY <2>3
  <2>7. Timers!Next
    <3>1. Timers!Arm(s)
      BY <2>3, <2>4, <2>5, <2>6 DEF Timers!Arm, Armed
    <3> QED
      BY <3>1 DEF Timers!Next
  <2> QED
    BY <2>7
<1>8. CASE RemoveNothing \/ Tick \/ \E s \in Sockets :
              \/ CreateSocket(s)
              \/ \E d \in Timeouts : Suspend(s, clock + d)
              \/ Suspend(s, Infinity)
              \/ ResumeByEvent(s)
              \/ CloseSocket(s)
  <2>1. Armed' = Armed
    <3>1. \A d \in Timeouts : clock + d \in Nat
      BY <1>1, TimerAssumption DEF TypeOK
    <3>2. Infinity \in Nat
      BY TimerAssumption
    <3>3. Stays
      BY <1>1, <1>8, <3>1, <3>2, OthersStay
    <3> QED
      BY <3>3 DEF Stays, Armed
  <2>2. CASE RemoveNothing
    BY <1>2, <2>1, <2>2 DEF RemoveNothing
  <2>3. CASE Tick
    <3>1. clock' > clock /\ owner' = owner
      BY <1>1, <2>3 DEF Tick, TypeOK
    <3>2. Timers!Tick
      BY <2>1, <3>1 DEF Timers!Tick, Armed
    <3> QED
      BY <3>2 DEF Timers!Next
  <2>4. ASSUME NEW s \in Sockets, CreateSocket(s) \/ ResumeByEvent(s)
        PROVE  Timers!Next
    <3>1. Timers!Run(s)
      BY <2>1, <2>4 DEF CreateSocket, ResumeByEvent, Timers!Run, Armed
    <3> QED
      BY <3>1 DEF Timers!Next
  <2>5. ASSUME NEW s \in Sockets, NEW t \in Nat, Suspend(s, t) \/ CloseSocket(s)
        PROVE  Timers!Next
    <3>1. Timers!Leave
      BY <2>1, <2>5 DEF Suspend, CloseSocket, Timers!Leave, Armed
    <3> QED
      BY <3>1 DEF Timers!Next
  <2>6. \A d \in Timeouts : clock + d \in Nat
    BY <1>1, TimerAssumption DEF TypeOK
  <2>7. Infinity \in Nat
    BY TimerAssumption
  <2> QED
    BY <1>8, <2>2, <2>3, <2>4, <2>5, <2>6, <2>7
<1>9. CASE UNCHANGED vars
  <2>1. Armed' = Armed /\ owner' = owner /\ clock' = clock
    BY <1>9 DEF vars, Armed, Full
  <2> QED
    BY <1>2, <2>1
<1> QED
  BY <1>3, <1>4, <1>5, <1>6, <1>7, <1>8, <1>9 DEF Next

\* The heap of any number of sockets implements TimerSet: each uthread arms one
\* timer, one that an event resumes removes its own, and what expires is due and
\* the earliest of all.
THEOREM RefinesTimerSet == Spec => ImplementsTimerSet
<1>1. TInv /\ TInv' /\ [Next]_vars => [Timers!Next]_(Timers!vars)
  BY StepRefines
<1> QED
  BY <1>1, InitRefines, TInvHolds, PTL DEF Spec, ImplementsTimerSet
=============================================================================
