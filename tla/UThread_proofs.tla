--------------------------- MODULE UThread_proofs ---------------------------
(***************************************************************************)
(* Proofs about the uthreads, for any number of tasks, sockets and waits.  *)
(*                                                                         *)
(* The runtime (UThreadRuntime, for any order of calls): the linked list of*)
(* finished slots is compared with the stack finished, which Create takes  *)
(* the top off and UThreadDoneCallback puts one on.  The conjunction of the*)
(* three properties is inductive: only because the count is exact can it   *)
(* not become negative when a uthread finishes.                            *)
(*                                                                         *)
(* The scheduler (UThreadEpoll): it only does to the runtime what          *)
(* UThreadRuntime allows, so the invariant of the runtime holds; on top of *)
(* it EInv says which slot is whose, who may be in which list, and when.   *)
(*                                                                         *)
(* The calls of a client (ClientCalls): every step of a call is one of     *)
(* UThreadEpoll, so EInv carries over, also into the next MultiCall of the *)
(* same caller; on top of it CInv says where every call stands and what the*)
(* loops that end the waits have still to do.                              *)
(***************************************************************************)
EXTENDS ClientCalls, FiniteSetTheorems, TLAPS

-----------------------------------------------------------------------------
(* The slots of the runtime *)

RuntimeInv == RuntimeTypeOK /\ FreeListExact /\ UnfinishedExact

\* The slots of the uthreads that have not finished.
Unfinished == {index \in 1..Len(context_list_) :
                 context_list_[index].status = "suspend"}

\* The slots that are counted are finitely many.
LEMMA UnfinishedIsFinite ==
  ASSUME RuntimeTypeOK
  PROVE  IsFiniteSet(Unfinished)
<1>1. IsFiniteSet(1..Len(context_list_))
  BY FS_Interval DEF RuntimeTypeOK
<1> QED
  BY <1>1, FS_Subset DEF Unfinished

\* r is s with its first element taken off.
Popped(s, r) ==
  /\ Len(r) \in Nat
  /\ Len(s) = Len(r) + 1
  /\ r = <<>> <=> Len(r) = 0
  /\ \A k \in 1..Len(r) : k \in Nat /\ k + 1 \in 1..Len(s) /\ r[k] = s[k + 1]
  /\ \A k \in 2..Len(s) : k - 1 \in 1..Len(r) /\ r[k - 1] = s[k]

\* The tail of a stack, element by element.
LEMMA PopStack ==
  ASSUME NEW S, NEW s \in Seq(S), s # <<>>
  PROVE  Popped(s, Tail(s)) /\ Tail(s) \in Seq(S)
<1> DEFINE r == Tail(s)
<1>1. Len(s) \in Nat \ {0}
  OBVIOUS
<1>2. r \in Seq(S) /\ Len(r) = Len(s) - 1
  OBVIOUS
<1>3. \A k \in 1..Len(r) : r[k] = s[k + 1]
  OBVIOUS
<1> HIDE DEF r
<1>4. r = <<>> <=> Len(r) = 0
  <2>1. r = <<>> => Len(r) = 0
    OBVIOUS
  <2>2. Len(r) = 0 => r = <<>>
    BY <1>2
  <2> QED
    BY <2>1, <2>2
<1>5. \A k \in 1..Len(r) : k \in Nat /\ k + 1 \in 1..Len(s)
  BY <1>1, <1>2
<1>6. \A k \in 2..Len(s) : k - 1 \in 1..Len(r) /\ r[k - 1] = s[k]
  <2> TAKE k \in 2..Len(s)
  <2>1. k - 1 \in 1..Len(r) /\ (k - 1) + 1 = k
    BY <1>1, <1>2
  <2>2. r[k - 1] = s[(k - 1) + 1]
    BY <2>1, <1>3
  <2> QED
    BY <2>1, <2>2
<1>7. Len(r) \in Nat /\ Len(s) = Len(r) + 1
  BY <1>1, <1>2
<1>8. Popped(s, r)
  BY <1>3, <1>4, <1>5, <1>6, <1>7 DEF Popped
<1> QED
  BY <1>2, <1>8 DEF r

\* r is s with x put in front.
Pushed(s, x, r) ==
  /\ Len(s) \in Nat
  /\ Len(r) = Len(s) + 1
  /\ s = <<>> <=> Len(s) = 0
  /\ r[1] = x
  /\ r # <<>>
  /\ \A k \in 1..Len(s) : k \in Nat /\ k + 1 \in 1..Len(r) /\ r[k + 1] = s[k]
  /\ \A k \in 2..Len(r) : k \in Nat /\ k - 1 \in 1..Len(s) /\ r[k] = s[k - 1]

\* A stack with one more in front, element by element.
LEMMA PushStack ==
  ASSUME NEW S, NEW s \in Seq(S), NEW x \in S
  PROVE  Pushed(s, x, <<x>> \o s) /\ <<x>> \o s \in Seq(S)
<1> DEFINE r == <<x>> \o s
<1>1. Len(<<x>>) = 1 /\ <<x>>[1] = x /\ <<x>> \in Seq(S)
  OBVIOUS
<1>2. r \in Seq(S) /\ Len(r) = 1 + Len(s)
  BY <1>1
<1>3. \A k \in 1..Len(r) : r[k] = IF k <= 1 THEN <<x>>[k] ELSE s[k - 1]
  BY <1>1
<1> HIDE DEF r
<1>4. s = <<>> <=> Len(s) = 0
  OBVIOUS
<1>5. r # <<>>
  BY <1>2
<1>6. Pushed(s, x, r)
  BY <1>1, <1>2, <1>3, <1>4, <1>5 DEF Pushed
<1> QED
  BY <1>2, <1>6 DEF r

\* The links of the list, one property at a time.
Linked ==
  \A k \in 1..Len(finished) :
    context_list_[finished[k]].next_done_item =
      IF k = Len(finished) THEN 0 ELSE finished[k + 1]

Distinct == \A j, k \in 1..Len(finished) : finished[j] = finished[k] => j = k

Listed ==
  \A index \in 1..Len(context_list_) :
    context_list_[index].status = "done" <=> \E k \in 1..Len(finished) : finished[k] = index

\* FreeListExact is its four parts.
LEMMA ListParts ==
  FreeListExact <=> /\ first_done_item_ = IF finished = <<>> THEN 0 ELSE finished[1]
                    /\ Linked
                    /\ Distinct
                    /\ Listed
  BY DEF FreeListExact, Linked, Distinct, Listed

\* The invariant holds at the start.
LEMMA InitRuntimeInv == RuntimeInit => RuntimeInv
<1> SUFFICES ASSUME RuntimeInit PROVE RuntimeInv
  OBVIOUS
<1>1. RuntimeTypeOK /\ FreeListExact
  BY DEF RuntimeInit, RuntimeTypeOK, FreeListExact, Slot
<1>2. UnfinishedExact
  <2>1. {index \in 1..Len(context_list_) : context_list_[index].status = "suspend"} = {}
    BY DEF RuntimeInit
  <2> QED
    BY <2>1, FS_EmptySet DEF UnfinishedExact, RuntimeInit
<1> QED
  BY <1>1, <1>2 DEF RuntimeInv

-----------------------------------------------------------------------------
(* Create *)

\* A new slot is not one of the finished ones, which keep their links.
LEMMA AppendKeepsList ==
  ASSUME RuntimeInv, NEW t \in Tasks, Create(t), first_done_item_ = 0
  PROVE  RuntimeInv'
<1> DEFINE slot == [task |-> t, next_done_item |-> 0, status |-> "suspend"]
           n    == Len(context_list_)
<1>1. /\ context_list_' = Append(context_list_, slot)
      /\ UNCHANGED <<first_done_item_, finished, current_uthread_, on_cpu>>
      /\ unfinished_item_count_' = unfinished_item_count_ + 1
      /\ on_cpu = 0
  BY DEF Create, RuntimeInv, RuntimeTypeOK
<1>2. /\ context_list_ \in Seq(Slot)
      /\ slot \in Slot
      /\ n \in Nat
      /\ finished = <<>>
      /\ \A index \in 1..n : context_list_[index].status # "done"
  <2>1. finished = <<>>
    BY DEF RuntimeInv, RuntimeTypeOK, FreeListExact
  <2>2. \A index \in 1..n : context_list_[index].status # "done"
    BY <2>1 DEF RuntimeInv, FreeListExact
  <2> QED
    BY <2>1, <2>2 DEF RuntimeInv, RuntimeTypeOK, Slot
<1>3. /\ context_list_' \in Seq(Slot)
      /\ Len(context_list_') = n + 1
      /\ \A index \in 1..n : context_list_'[index] = context_list_[index]
      /\ context_list_'[n + 1] = slot
  BY <1>1, <1>2
<1>4. RuntimeTypeOK'
  BY <1>1, <1>2, <1>3 DEF RuntimeInv, RuntimeTypeOK
<1>5. FreeListExact'
  BY <1>1, <1>2, <1>3 DEF RuntimeInv, FreeListExact
<1>6. UnfinishedExact'
  <2>1. Unfinished' = Unfinished \cup {n + 1} /\ n + 1 \notin Unfinished
    BY <1>2, <1>3 DEF Unfinished
  <2>2. Cardinality(Unfinished') = Cardinality(Unfinished) + 1
    BY <2>1, UnfinishedIsFinite, FS_AddElement DEF RuntimeInv
  <2> QED
    BY <1>1, <2>2 DEF RuntimeInv, UnfinishedExact, Unfinished
<1> QED
  BY <1>4, <1>5, <1>6 DEF RuntimeInv

\* The first finished slot is used again; the others keep their links, because
\* none of them is that slot.
LEMMA ReuseKeepsList ==
  ASSUME RuntimeInv, NEW t \in Tasks, Create(t), first_done_item_ > 0
  PROVE  RuntimeInv'
<1> DEFINE slot == [task |-> t, next_done_item |-> 0, status |-> "suspend"]
           f    == first_done_item_
           n    == Len(context_list_)
<1>1. /\ context_list_' = [context_list_ EXCEPT ![f] = slot]
      /\ first_done_item_' = context_list_[f].next_done_item
      /\ finished' = Tail(finished)
      /\ unfinished_item_count_' = unfinished_item_count_ + 1
      /\ UNCHANGED <<current_uthread_, on_cpu>>
      /\ on_cpu = 0
  BY DEF Create
<1>2. /\ context_list_ \in Seq(Slot)
      /\ slot \in Slot
      /\ n \in Nat
      /\ f \in 1..n
      /\ finished \in Seq(1..n)
      /\ unfinished_item_count_ \in Nat
      /\ current_uthread_ = 0
  BY <1>1 DEF RuntimeInv, RuntimeTypeOK, Slot
<1>3. /\ finished # <<>>
      /\ finished[1] = f
  BY <1>2 DEF RuntimeInv, FreeListExact
<1>c. Popped(finished, finished') /\ finished' \in Seq(1..n)
  <2> HIDE DEF n
  <2>1. Popped(finished, Tail(finished)) /\ Tail(finished) \in Seq(1..n)
    BY <1>2, <1>3, PopStack
  <2> QED
    BY <1>1, <2>1
<1>4. /\ Len(finished') \in Nat
      /\ Len(finished) = Len(finished') + 1
      /\ finished' = <<>> <=> Len(finished') = 0
      /\ \A k \in 1..Len(finished') :
           k \in Nat /\ k + 1 \in 1..Len(finished) /\ finished'[k] = finished[k + 1]
      /\ \A k \in 2..Len(finished) :
           k - 1 \in 1..Len(finished') /\ finished'[k - 1] = finished[k]
      /\ \A k \in 1..Len(finished) : finished[k] \in 1..n
  <2>1. \A k \in 1..Len(finished) : finished[k] \in 1..n
    BY <1>2
  <2> QED
    BY <1>c, <2>1 DEF Popped
<1>5. /\ context_list_' \in Seq(Slot)
      /\ Len(context_list_') = n
      /\ context_list_'[f] = slot
      /\ \A index \in 1..n : index # f => context_list_'[index] = context_list_[index]
  BY <1>1, <1>2
<1>a. Linked /\ Distinct /\ Listed
  BY ListParts DEF RuntimeInv
<1>b. 1 \in 1..Len(finished)
  BY <1>4
<1>6. /\ context_list_[f].next_done_item = IF finished' = <<>> THEN 0 ELSE finished'[1]
      /\ \A k \in 2..Len(finished) : finished[k] # f
  <2>1. context_list_[f].next_done_item = IF 1 = Len(finished) THEN 0 ELSE finished[1 + 1]
    BY <1>3, <1>a, <1>b DEF Linked
  <2>2. \A k \in 2..Len(finished) : finished[k] # f
    BY <1>3, <1>4, <1>a, <1>b DEF Distinct
  <2> QED
    BY <1>4, <2>1, <2>2
<1>7. RuntimeTypeOK'
  <2> HIDE DEF n
  <2>1. ASSUME finished' = <<>> PROVE first_done_item_' \in 0..n
    BY <1>1, <1>2, <1>6, <2>1
  <2>2. ASSUME finished' # <<>> PROVE first_done_item_' \in 0..n
    <3>1. 1 \in 1..Len(finished')
      BY <1>4, <2>2
    <3>2. finished'[1] \in 1..n
      BY <1>4, <3>1
    <3> QED
      BY <1>1, <1>2, <1>6, <2>2, <3>2
  <2>3. first_done_item_' \in 0..n
    BY <2>1, <2>2
  <2> QED
    BY <1>1, <1>2, <1>c, <1>5, <2>3 DEF RuntimeTypeOK, n
<1>8. FreeListExact'
  <2>1. first_done_item_' = IF finished' = <<>> THEN 0 ELSE finished'[1]
    BY <1>1, <1>6
  <2>2. Linked'
    <3> SUFFICES ASSUME NEW k \in 1..Len(finished')
                 PROVE  context_list_'[finished'[k]].next_done_item =
                          IF k = Len(finished') THEN 0 ELSE finished'[k + 1]
      BY DEF Linked
    <3>1. /\ k \in Nat
          /\ k + 1 \in 1..Len(finished)
          /\ k + 1 \in 2..Len(finished)
          /\ finished'[k] = finished[k + 1]
      BY <1>4
    <3>2. context_list_'[finished'[k]] = context_list_[finished[k + 1]]
      BY <1>4, <1>5, <1>6, <3>1
    <3>3. context_list_[finished[k + 1]].next_done_item =
            IF k + 1 = Len(finished) THEN 0 ELSE finished[(k + 1) + 1]
      BY <3>1, <1>a DEF Linked
    <3>4. k # Len(finished') => finished'[k + 1] = finished[(k + 1) + 1]
      BY <1>4, <3>1
    <3> QED
      BY <1>4, <3>1, <3>2, <3>3, <3>4
  <2>3. Distinct'
    <3> SUFFICES ASSUME NEW j \in 1..Len(finished'), NEW k \in 1..Len(finished'),
                        finished'[j] = finished'[k]
                 PROVE  j = k
      BY DEF Distinct
    <3>1. /\ j \in Nat /\ j + 1 \in 1..Len(finished) /\ finished'[j] = finished[j + 1]
          /\ k \in Nat /\ k + 1 \in 1..Len(finished) /\ finished'[k] = finished[k + 1]
      BY <1>4
    <3>2. j + 1 = k + 1
      BY <3>1, <1>a DEF Distinct
    <3> QED
      BY <3>1, <3>2
  <2>4. Listed'
    <3> SUFFICES ASSUME NEW index \in 1..n
                 PROVE  context_list_'[index].status = "done" <=>
                          \E k \in 1..Len(finished') : finished'[k] = index
      BY <1>5 DEF Listed
    <3>1. CASE index = f
      <4>1. \A k \in 1..Len(finished') : finished'[k] # f
        BY <1>4, <1>6
      <4> QED
        BY <3>1, <4>1, <1>5
    <3>2. CASE index # f
      <4>1. context_list_[index].status = "done" <=>
              \E k \in 1..Len(finished) : finished[k] = index
        BY <1>a DEF Listed
      <4>2. ASSUME NEW k \in 1..Len(finished), finished[k] = index
            PROVE  \E j \in 1..Len(finished') : finished'[j] = index
        <5>1. k - 1 \in 1..Len(finished') /\ finished'[k - 1] = finished[k]
          BY <1>3, <1>4, <3>2, <4>2
        <5> QED
          BY <5>1, <4>2
      <4>3. ASSUME NEW k \in 1..Len(finished'), finished'[k] = index
            PROVE  \E j \in 1..Len(finished) : finished[j] = index
        <5>1. k + 1 \in 1..Len(finished) /\ finished'[k] = finished[k + 1]
          BY <1>4
        <5> QED
          BY <5>1, <4>3
      <4> QED
        BY <1>5, <3>2, <4>1, <4>2, <4>3
    <3> QED
      BY <3>1, <3>2
  <2> QED
    BY <2>1, <2>2, <2>3, <2>4 DEF FreeListExact, Linked, Distinct, Listed
<1>9. UnfinishedExact'
  <2>1. context_list_[f].status = "done"
    BY <1>2, <1>3, <1>a, <1>b DEF Listed
  <2>2. Unfinished' = Unfinished \cup {f} /\ f \notin Unfinished
    BY <1>2, <1>5, <2>1 DEF Unfinished
  <2>3. Cardinality(Unfinished') = Cardinality(Unfinished) + 1
    BY <2>2, UnfinishedIsFinite, FS_AddElement DEF RuntimeInv
  <2> QED
    BY <1>1, <2>3 DEF RuntimeInv, UnfinishedExact, Unfinished
<1> QED
  BY <1>7, <1>8, <1>9 DEF RuntimeInv

-----------------------------------------------------------------------------
(* UThreadDoneCallback *)

\* A slot that runs is not on the list, so putting it in front closes no cycle.
LEMMA DoneKeepsList ==
  ASSUME RuntimeInv, UThreadDoneCallback
  PROVE  RuntimeInv'
<1> DEFINE i == current_uthread_
           n == Len(context_list_)
<1>1. /\ context_list_ \in Seq(Slot)
      /\ n \in Nat
      /\ i \in 1..n
      /\ on_cpu = i
      /\ context_list_[i].status = "suspend"
      /\ finished \in Seq(1..n)
      /\ first_done_item_ \in 0..n
      /\ unfinished_item_count_ \in Nat
  BY DEF RuntimeInv, RuntimeTypeOK, UThreadDoneCallback
<1> DEFINE slot == [task |-> context_list_[i].task,
                    next_done_item |-> first_done_item_, status |-> "done"]
<1>2. /\ context_list_' = [context_list_ EXCEPT ![i] = slot]
      /\ first_done_item_' = i
      /\ unfinished_item_count_' = unfinished_item_count_ - 1
      /\ current_uthread_' = 0
      /\ finished' = <<i>> \o finished
      /\ on_cpu' = 0
  BY <1>1 DEF UThreadDoneCallback
<1>3. /\ slot \in Slot
      /\ context_list_' \in Seq(Slot)
      /\ Len(context_list_') = n
      /\ context_list_'[i] = slot
      /\ \A index \in 1..n : index # i => context_list_'[index] = context_list_[index]
  <2>1. context_list_[i] \in Slot
    BY <1>1
  <2>2. slot \in Slot
    BY <1>1, <2>1 DEF Slot
  <2> HIDE DEF slot
  <2> QED
    BY <1>1, <1>2, <2>2
<1>c. Pushed(finished, i, finished') /\ finished' \in Seq(1..n)
  <2> HIDE DEF i, n
  <2>1. Pushed(finished, i, <<i>> \o finished) /\ <<i>> \o finished \in Seq(1..n)
    BY <1>1, PushStack
  <2> QED
    BY <1>2, <2>1
<1>4. /\ Len(finished) \in Nat
      /\ Len(finished') = Len(finished) + 1
      /\ finished = <<>> <=> Len(finished) = 0
      /\ finished'[1] = i
      /\ finished' # <<>>
      /\ \A k \in 1..Len(finished) :
           k \in Nat /\ k + 1 \in 1..Len(finished') /\ finished'[k + 1] = finished[k]
      /\ \A k \in 2..Len(finished') :
           k \in Nat /\ k - 1 \in 1..Len(finished) /\ finished'[k] = finished[k - 1]
      /\ \A k \in 1..Len(finished) : finished[k] \in 1..n
  <2>1. \A k \in 1..Len(finished) : finished[k] \in 1..n
    BY <1>1
  <2> QED
    BY <1>c, <2>1 DEF Pushed
<1>a. Linked /\ Distinct /\ Listed
  BY ListParts DEF RuntimeInv
<1>5. slot.next_done_item = first_done_item_ /\ slot.status = "done"
  OBVIOUS
<1> HIDE DEF slot
<1>6. \A k \in 1..Len(finished) : finished[k] # i
  BY <1>1, <1>a DEF Listed
<1>7. Unfinished' = Unfinished \ {i} /\ i \in Unfinished
  BY <1>1, <1>3, <1>5 DEF Unfinished
<1>8. /\ Cardinality(Unfinished') = Cardinality(Unfinished) - 1
      /\ Cardinality(Unfinished') \in Nat
  <2>1. IsFiniteSet(Unfinished)
    BY UnfinishedIsFinite DEF RuntimeInv
  <2>2. IsFiniteSet(Unfinished')
    BY <1>7, <2>1, FS_Subset
  <2> QED
    BY <1>7, <2>1, <2>2, FS_RemoveElement, FS_CardinalityType
<1>9. unfinished_item_count_' = Cardinality(Unfinished')
  BY <1>2, <1>8 DEF RuntimeInv, UnfinishedExact, Unfinished
<1>10. RuntimeTypeOK'
  BY <1>1, <1>2, <1>3, <1>c, <1>8, <1>9 DEF RuntimeTypeOK
<1>11. FreeListExact'
  <2>1. first_done_item_' = IF finished' = <<>> THEN 0 ELSE finished'[1]
    BY <1>2, <1>4
  <2>2. Linked'
    <3> SUFFICES ASSUME NEW k \in 1..Len(finished')
                 PROVE  context_list_'[finished'[k]].next_done_item =
                          IF k = Len(finished') THEN 0 ELSE finished'[k + 1]
      BY DEF Linked
    <3>1. CASE k = 1
      <4>1. context_list_'[finished'[1]].next_done_item = first_done_item_
        BY <1>3, <1>4, <1>5
      <4>2. first_done_item_ = IF finished = <<>> THEN 0 ELSE finished[1]
        BY ListParts DEF RuntimeInv
      <4>3. finished # <<>> => finished'[1 + 1] = finished[1]
        BY <1>4
      <4> QED
        BY <1>4, <3>1, <4>1, <4>2, <4>3
    <3>2. CASE k # 1
      <4>1. /\ k \in Nat
            /\ k - 1 \in 1..Len(finished)
            /\ finished'[k] = finished[k - 1]
        BY <1>4, <3>2
      <4>2. context_list_'[finished'[k]] = context_list_[finished[k - 1]]
        BY <1>3, <1>4, <1>6, <4>1
      <4>3. context_list_[finished[k - 1]].next_done_item =
              IF k - 1 = Len(finished) THEN 0 ELSE finished[(k - 1) + 1]
        BY <4>1, <1>a DEF Linked
      <4>4. k # Len(finished') => finished'[k + 1] = finished[(k - 1) + 1]
        BY <1>4, <4>1
      <4> QED
        BY <1>4, <4>1, <4>2, <4>3, <4>4
    <3> QED
      BY <3>1, <3>2
  <2>3. Distinct'
    <3> SUFFICES ASSUME NEW j \in 1..Len(finished'), NEW k \in 1..Len(finished'),
                        finished'[j] = finished'[k]
                 PROVE  j = k
      BY DEF Distinct
    <3>1. \A m \in 2..Len(finished') : finished'[m] # finished'[1]
      BY <1>4, <1>6
    <3>2. CASE j = 1 \/ k = 1
      BY <1>4, <3>1, <3>2
    <3>3. CASE j # 1 /\ k # 1
      <4>1. /\ j \in Nat /\ j - 1 \in 1..Len(finished) /\ finished'[j] = finished[j - 1]
            /\ k \in Nat /\ k - 1 \in 1..Len(finished) /\ finished'[k] = finished[k - 1]
        BY <1>4, <3>3
      <4>2. j - 1 = k - 1
        BY <4>1, <1>a DEF Distinct
      <4> QED
        BY <4>1, <4>2
    <3> QED
      BY <3>2, <3>3
  <2>4. Listed'
    <3> SUFFICES ASSUME NEW index \in 1..n
                 PROVE  context_list_'[index].status = "done" <=>
                          \E k \in 1..Len(finished') : finished'[k] = index
      BY <1>3 DEF Listed
    <3>1. CASE index = i
      BY <1>3, <1>4, <1>5, <3>1
    <3>2. CASE index # i
      <4>1. context_list_[index].status = "done" <=>
              \E k \in 1..Len(finished) : finished[k] = index
        BY <1>a DEF Listed
      <4>2. ASSUME NEW k \in 1..Len(finished), finished[k] = index
            PROVE  \E j \in 1..Len(finished') : finished'[j] = index
        <5>1. k + 1 \in 1..Len(finished') /\ finished'[k + 1] = finished[k]
          BY <1>4
        <5> QED
          BY <5>1, <4>2
      <4>3. ASSUME NEW k \in 1..Len(finished'), finished'[k] = index
            PROVE  \E j \in 1..Len(finished) : finished[j] = index
        <5>1. k - 1 \in 1..Len(finished) /\ finished'[k] = finished[k - 1]
          BY <1>4, <3>2, <4>3
        <5> QED
          BY <5>1, <4>3
      <4> QED
        BY <1>3, <3>2, <4>1, <4>2, <4>3
    <3> QED
      BY <3>1, <3>2
  <2> QED
    BY <2>1, <2>2, <2>3, <2>4 DEF FreeListExact, Linked, Distinct, Listed
<1>12. UnfinishedExact'
  BY <1>9 DEF UnfinishedExact, Unfinished
<1> QED
  BY <1>10, <1>11, <1>12 DEF RuntimeInv

-----------------------------------------------------------------------------
(* The invariant *)

\* Every step keeps the invariant.
LEMMA StepRuntimeInv == RuntimeInv /\ [RuntimeNext]_runtimeVars => RuntimeInv'
<1> SUFFICES ASSUME RuntimeInv, [RuntimeNext]_runtimeVars PROVE RuntimeInv'
  OBVIOUS
<1>1. ASSUME NEW t \in Tasks, Create(t) PROVE RuntimeInv'
  <2>1. first_done_item_ = 0 \/ first_done_item_ > 0
    BY DEF RuntimeInv, RuntimeTypeOK
  <2> QED
    BY <1>1, <2>1, AppendKeepsList, ReuseKeepsList
<1>2. ASSUME NEW index \in Nat, Resume(index) PROVE RuntimeInv'
  <2>1. RuntimeTypeOK'
    BY <1>2 DEF RuntimeInv, RuntimeTypeOK, Resume, CanResume
  <2> QED
    BY <1>2, <2>1 DEF RuntimeInv, FreeListExact, UnfinishedExact, Resume
<1>3. CASE Yield
  <2>1. RuntimeTypeOK'
    BY <1>3 DEF RuntimeInv, RuntimeTypeOK, Yield
  <2> QED
    BY <1>3, <2>1 DEF RuntimeInv, FreeListExact, UnfinishedExact, Yield
<1>4. CASE UThreadDoneCallback
  BY <1>4, DoneKeepsList
<1>5. CASE UNCHANGED runtimeVars
  BY <1>5 DEF runtimeVars, RuntimeInv, RuntimeTypeOK, FreeListExact, UnfinishedExact
<1> QED
  BY <1>1, <1>2, <1>3, <1>4, <1>5 DEF RuntimeNext

\* The three properties are an inductive invariant of the runtime.
THEOREM RuntimeInvariance == RuntimeSpec => []RuntimeInv
  BY InitRuntimeInv, StepRuntimeInv, PTL DEF RuntimeSpec

\* The index that runs is the one current_uthread_ says, and belongs to a uthread
\* that has not finished; unfinished_item_count_ never becomes negative.
THEOREM TypeCorrect == RuntimeSpec => []RuntimeTypeOK
<1>1. RuntimeInv => RuntimeTypeOK
  BY DEF RuntimeInv
<1> QED
  BY <1>1, RuntimeInvariance, PTL

\* Create takes only slots whose uthread has finished, and each of them once.
THEOREM FreeList == RuntimeSpec => []FreeListExact
<1>1. RuntimeInv => FreeListExact
  BY DEF RuntimeInv
<1> QED
  BY <1>1, RuntimeInvariance, PTL

\* IsAllDone is true exactly when every uthread has finished.
THEOREM Count == RuntimeSpec => []UnfinishedExact
<1>1. RuntimeInv => UnfinishedExact
  BY DEF RuntimeInv
<1> QED
  BY <1>1, RuntimeInvariance, PTL

-----------------------------------------------------------------------------
(* The invariant of the scheduler *)

\* What a task does that has a uthread.
Active == {"start", "run", "poll", "poll_list"}

Slots == 1..Len(context_list_)

\* Every task that was started and has not finished has one slot, and every
\* slot in use belongs to such a task.
SlotInv ==
  /\ \A i \in Slots : context_list_[i].status = "suspend" =>
       /\ context_list_[i].next_done_item = 0
       /\ task_pc[context_list_[i].task] \in Active
  /\ \A i, j \in Slots :
       /\ context_list_[i].status = "suspend" /\ context_list_[j].status = "suspend"
       /\ context_list_[i].task = context_list_[j].task
       => i = j
  /\ \A t \in Tasks : task_pc[t] \in Active =>
       \E i \in Slots : context_list_[i].status = "suspend" /\ context_list_[i].task = t

\* A task is queued at most once, and before it is started.
TodoInv ==
  /\ \A k \in 1..Len(todo_list_) : task_pc[todo_list_[k]] = "todo"
  /\ \A j, k \in 1..Len(todo_list_) : todo_list_[j] = todo_list_[k] => j = k

\* Only the two loops over copied sockets have a batch, and the uthread that
\* runs is no longer in it; nothing runs while the scheduler looks at the count
\* or waits; ResumeAll needs Close or an error.
PhaseInv ==
  /\ phase \notin {"events", "resume_all"} => batch = {}
  /\ on_cpu > 0 => context_list_[on_cpu].task \notin batch
  /\ phase \in {"test", "wait", "returned"} => on_cpu = 0
  /\ created > 0 => phase \in {"consume0", "consume"}
  /\ phase = "resume_all" => closed_ \/ errors > 0

\* The sockets that may be resumed name their waiter; a wait for a list has no
\* timer to leave behind.
WaitInv ==
  /\ \A s \in registered \cup Armed \cup batch : NamesItsWaiter(s)
  /\ \A t \in Tasks : task_pc[t] = "poll_list" => t \notin Armed
  /\ WaitersReachable

EInv == /\ TypeOK /\ FreeListExact /\ UnfinishedExact
        /\ SlotInv /\ TodoInv /\ PhaseInv /\ WaitInv /\ ReturnsWhenAllDone

-----------------------------------------------------------------------------
(* What the calls of the runtime do to the slots *)

\* Create gives the task a slot that was free or is new, and changes no other.
LEMMA CreateEffect ==
  ASSUME RuntimeTypeOK, FreeListExact, NEW t \in Tasks, Create(t)
  PROVE  /\ NewIndex \in 1..Len(context_list_')
         /\ Len(context_list_) \in Nat /\ Len(context_list_') \in Nat
         /\ Len(context_list_') >= Len(context_list_)
         /\ context_list_'[NewIndex] =
              [task |-> t, next_done_item |-> 0, status |-> "suspend"]
         /\ \A i \in 1..Len(context_list_') \ {NewIndex} :
              i \in Slots /\ context_list_'[i] = context_list_[i]
         /\ NewIndex \in Slots => context_list_[NewIndex].status = "done"
         /\ on_cpu = 0 /\ on_cpu' = 0
<1> DEFINE slot == [task |-> t, next_done_item |-> 0, status |-> "suspend"]
<1> USE DEF Slots
<1>0. slot \in Slot /\ context_list_ \in Seq(Slot) /\ Len(context_list_) \in Nat
  BY DEF Slot, RuntimeTypeOK
<1>1. CASE first_done_item_ > 0
  <2>1. /\ NewIndex = first_done_item_ /\ NewIndex \in Slots
        /\ context_list_' = [context_list_ EXCEPT ![NewIndex] = slot]
        /\ on_cpu = 0 /\ on_cpu' = 0
    BY <1>1 DEF RuntimeTypeOK, Create, NewIndex
  <2>2. /\ Len(context_list_') = Len(context_list_)
        /\ context_list_'[NewIndex] = slot
        /\ \A i \in Slots \ {NewIndex} : context_list_'[i] = context_list_[i]
    BY <1>0, <2>1
  <2>3. context_list_[NewIndex].status = "done"
    <3>1. finished # <<>> /\ finished[1] = first_done_item_
      BY <1>1 DEF FreeListExact
    <3>2. 1 \in 1..Len(finished)
      BY <3>1 DEF RuntimeTypeOK
    <3> QED
      BY <2>1, <3>1, <3>2 DEF FreeListExact
  <2> QED
    BY <1>0, <2>1, <2>2, <2>3
<1>2. CASE ~(first_done_item_ > 0)
  <2>1. /\ NewIndex = Len(context_list_) + 1
        /\ context_list_' = Append(context_list_, slot)
        /\ on_cpu = 0 /\ on_cpu' = 0
    BY <1>2 DEF Create, NewIndex
  <2>2. /\ Len(context_list_') = Len(context_list_) + 1
        /\ context_list_'[NewIndex] = slot
        /\ \A i \in Slots : context_list_'[i] = context_list_[i]
    BY <1>0, <2>1
  <2> QED
    BY <1>0, <2>1, <2>2
<1> QED
  BY <1>1, <1>2

\* UThreadDoneCallback marks the slot that runs, and changes no other.
LEMMA DoneEffect ==
  ASSUME RuntimeTypeOK, on_cpu > 0, UThreadDoneCallback
  PROVE  /\ on_cpu \in Slots
         /\ Len(context_list_') = Len(context_list_) /\ Len(context_list_) \in Nat
         /\ context_list_'[on_cpu].status = "done"
         /\ \A i \in Slots \ {on_cpu} : context_list_'[i] = context_list_[i]
         /\ on_cpu' = 0
BY DEF Slots, RuntimeTypeOK, UThreadDoneCallback

\* Every step of the scheduler and of its uthreads is one of the runtime or
\* leaves the runtime alone.
LEMMA RuntimeStep ==
  ASSUME TypeOK, [Next]_vars
  PROVE  [RuntimeNext]_runtimeVars
<1> USE DEF RuntimeNext
<1>1. CASE CreateTask
  <2>1. Head(todo_list_) \in Tasks
    BY <1>1 DEF TypeOK, CreateTask
  <2> QED
    BY <1>1, <2>1 DEF CreateTask
<1>2. CASE ResumeCreated
  BY <1>2 DEF ResumeCreated, TypeOK
<1>3. ASSUME NEW s \in Tasks, ResumeNextOf(s) \/ PopTimeout(s)
      PROVE  [RuntimeNext]_runtimeVars
  BY <1>3 DEF ResumeNextOf, PopTimeout, TypeOK
<1>4. CASE \/ ConsumeDone \/ TestAllDone \/ EpollWait \/ EpollError \/ EventsDone
           \/ EventsDoneClosed \/ ResumeAllDone \/ TimeoutsDone
  BY <1>4 DEF ConsumeDone, TestAllDone, EpollWait, EpollError, StartResumeAll,
     EventsDone, EventsDoneClosed, ResumeAllDone, TimeoutsDone
<1>5. ASSUME NEW t \in Tasks, UThreadStep(t) PROVE [RuntimeNext]_runtimeVars
  BY <1>5 DEF UThreadStep, Start, UThreadPoll, UThreadPollReturns, UThreadPollList,
     UThreadPollListReturns, AddTask, Close, Finish
<1>6. CASE UNCHANGED vars
  BY <1>6 DEF vars
<1> QED
  BY <1>1, <1>2, <1>3, <1>4, <1>5, <1>6 DEF Next, SchedulerStep

-----------------------------------------------------------------------------
(* Steps that leave slots, tasks and sockets alone *)

\* What SlotInv and TodoInv look at.
LEMMA SameTasks ==
  ASSUME SlotInv, TodoInv, UNCHANGED <<context_list_, todo_list_, task_pc>>
  PROVE  SlotInv' /\ TodoInv'
BY DEF SlotInv, TodoInv, Slots

\* The function in a slot is one of the tasks.
LEMMA SlotTask ==
  ASSUME RuntimeTypeOK
  PROVE  \A i \in Slots : context_list_[i].task \in Tasks
<1>1. \A i \in 1..Len(context_list_) : context_list_[i] \in Slot
  BY DEF RuntimeTypeOK
<1> QED
  BY <1>1 DEF Slot, Slots

\* The scheduler resumes the uthread that waits on s: its index is good.
LEMMA ResumeEffect ==
  ASSUME TypeOK, NEW s \in Tasks, NamesItsWaiter(s), Resume(uthread_id[s])
  PROVE  /\ on_cpu = 0 /\ on_cpu' = uthread_id[s] /\ on_cpu' > 0
         /\ context_list_' = context_list_
         /\ context_list_[on_cpu'].task = s
         /\ OnCpu(s)'
<1>1. uthread_id[s] \in 1..Len(context_list_)
  BY DEF TypeOK, NamesItsWaiter
<1>2. CanResume(uthread_id[s])
  BY <1>1 DEF CanResume, NamesItsWaiter
<1> QED
  BY <1>1, <1>2 DEF Resume, OnCpu, NamesItsWaiter, TypeOK

\* The invariant without what the runtime's own gives.
SInv == /\ TypeOK
        /\ SlotInv /\ TodoInv /\ PhaseInv /\ WaitInv /\ ReturnsWhenAllDone

-----------------------------------------------------------------------------
(* The scheduler's steps *)

\* The steps that only move Run from one phase to another.
LEMMA PhaseStep ==
  ASSUME SInv, UnfinishedExact, RuntimeTypeOK',
         \/ ConsumeDone \/ TestAllDone \/ EpollWait \/ EpollError \/ EventsDone
         \/ EventsDoneClosed \/ ResumeAllDone \/ TimeoutsDone
  PROVE  SInv'
<1> USE DEF SInv
<1>1. /\ UNCHANGED <<runtimeVars, todo_list_, taskVars, waitVars, created, closed_>>
      /\ batch' \subseteq batch \cup registered \cup Armed
      /\ errors' \in {errors, errors + 1} /\ (errors' # errors => errors < MaxErrors)
      /\ phase' \in Phases
      /\ on_cpu = 0 \/ batch' = batch
  BY DEF ConsumeDone, TestAllDone, EpollWait, EpollError, StartResumeAll, EventsDone,
     EventsDoneClosed, ResumeAllDone, TimeoutsDone, Phases, PhaseInv
<1>2. /\ UNCHANGED <<context_list_, on_cpu, current_uthread_, unfinished_item_count_>>
      /\ UNCHANGED <<task_pc, uthread_id, registered, timed, untimed>>
  BY <1>1 DEF runtimeVars, taskVars, waitVars
<1>3. TypeOK'
  BY <1>1, <1>2, EpollAssumption DEF TypeOK, Armed
<1>4. SlotInv' /\ TodoInv'
  BY <1>1, <1>2, SameTasks
<1>5. PhaseInv'
  BY <1>2 DEF PhaseInv, ConsumeDone, TestAllDone, EpollWait, EpollError, StartResumeAll,
     EventsDone, EventsDoneClosed, ResumeAllDone, TimeoutsDone, TypeOK
<1>6. WaitInv'
  BY <1>1, <1>2 DEF WaitInv, NamesItsWaiter, Armed, WaitersReachable, OnCpu
<1>7. ReturnsWhenAllDone'
  <2>1. CASE TestAllDone
    <3>1. CASE unfinished_item_count_ = 0
      <4>1. Unfinished = {}
        BY <3>1, UnfinishedIsFinite, FS_EmptySet DEF TypeOK, UnfinishedExact, Unfinished
      <4>2. \A t \in Tasks : task_pc[t] \notin Active
        BY <4>1 DEF SlotInv, Slots, Unfinished
      <4> QED
        BY <4>2, <1>2 DEF ReturnsWhenAllDone, Active, TypeOK, TaskPC
    <3>2. CASE unfinished_item_count_ # 0
      BY <2>1, <3>2 DEF TestAllDone, ReturnsWhenAllDone
    <3> QED
      BY <3>1, <3>2
  <2>2. CASE ResumeAllDone
    BY <2>2 DEF ResumeAllDone, ReturnsWhenAllDone, PhaseInv
  <2>3. CASE \/ ConsumeDone \/ EpollWait \/ EpollError \/ EventsDone
             \/ EventsDoneClosed \/ TimeoutsDone
    <3>1. phase' # "returned"
      BY <2>3 DEF ConsumeDone, EpollWait, EpollError, StartResumeAll, EventsDone,
         EventsDoneClosed, TimeoutsDone
    <3> QED
      BY <3>1 DEF ReturnsWhenAllDone
  <2> QED
    BY <2>1, <2>2, <2>3
<1> QED
  BY <1>3, <1>4, <1>5, <1>6, <1>7

\* A task that is taken off the queue gets a slot of its own: no other slot in
\* use has it, and no socket names the slot it gets.
LEMMA CreateTaskStep ==
  ASSUME SInv, FreeListExact, RuntimeTypeOK', CreateTask
  PROVE  SInv'
<1> DEFINE t == Head(todo_list_)
           n == NewIndex
<1> USE DEF SInv
<1>1. /\ todo_list_ \in Seq(Tasks) /\ todo_list_ # <<>> /\ t \in Tasks
      /\ t = todo_list_[1] /\ 1 \in 1..Len(todo_list_) /\ Len(todo_list_) \in Nat
      /\ Create(t)
      /\ todo_list_' = Tail(todo_list_)
      /\ task_pc' = [task_pc EXCEPT ![t] = "start"]
      /\ created' = n
      /\ UNCHANGED <<uthread_id, registered, timed, untimed, phase, batch, errors,
                     closed_>>
      /\ phase \in {"consume0", "consume"} /\ created = 0
  BY DEF CreateTask, TypeOK, waitVars
<1>2. task_pc[t] = "todo"
  BY <1>1 DEF TodoInv
<1>3. /\ n \in 1..Len(context_list_')
      /\ Len(context_list_) \in Nat /\ Len(context_list_') \in Nat
      /\ Len(context_list_') >= Len(context_list_)
      /\ context_list_'[n] = [task |-> t, next_done_item |-> 0, status |-> "suspend"]
      /\ \A i \in 1..Len(context_list_') \ {n} :
           i \in Slots /\ context_list_'[i] = context_list_[i]
      /\ n \in Slots => context_list_[n].status = "done"
      /\ on_cpu = 0 /\ on_cpu' = 0
  BY <1>1, CreateEffect DEF TypeOK
<1> HIDE DEF t, n
<1>4. \A i \in Slots : i \in 1..Len(context_list_')
  BY <1>3 DEF Slots
<1>5. \A i \in Slots : context_list_[i].status = "suspend" =>
        i # n /\ context_list_'[i] = context_list_[i] /\ context_list_[i].task # t
  BY <1>2, <1>3, <1>4 DEF SlotInv, Active
<1>6. TypeOK'
  <2>1. todo_list_' \in Seq(Tasks)
    BY <1>1
  <2>2. task_pc' \in [Tasks -> TaskPC]
    BY <1>1 DEF TypeOK, TaskPC
  <2>3. uthread_id' \in [Tasks -> 0..Len(context_list_')] /\ created' \in 0..Len(context_list_')
    BY <1>1, <1>3 DEF TypeOK
  <2> QED
    BY <1>1, <2>1, <2>2, <2>3 DEF TypeOK
<1>7. SlotInv'
  <2>1. ASSUME NEW i \in Slots', context_list_'[i].status = "suspend", i # n
        PROVE  i \in Slots /\ context_list_'[i] = context_list_[i]
    BY <1>3, <2>1 DEF Slots
  <2>2. ASSUME NEW i \in Slots', context_list_'[i].status = "suspend"
        PROVE  context_list_'[i].next_done_item = 0 /\ task_pc'[context_list_'[i].task] \in Active
    <3>1. CASE i = n
      BY <1>1, <1>3, <3>1 DEF Active, TypeOK
    <3>2. CASE i # n
      <4>1. /\ i \in Slots /\ context_list_'[i] = context_list_[i]
            /\ context_list_[i].task # t /\ context_list_[i].task \in Tasks
        BY <1>5, <2>1, <2>2, <3>2, SlotTask DEF TypeOK
      <4> QED
        BY <1>1, <2>2, <4>1 DEF SlotInv, TypeOK
    <3> QED
      BY <3>1, <3>2
  <2>3. ASSUME NEW i \in Slots', NEW j \in Slots', context_list_'[i].status = "suspend",
               context_list_'[j].status = "suspend",
               context_list_'[i].task = context_list_'[j].task
        PROVE  i = j
    <3>1. CASE i = n \/ j = n
      BY <1>3, <1>5, <2>1, <2>3, <3>1
    <3>2. CASE i # n /\ j # n
      BY <2>1, <2>3, <3>2 DEF SlotInv
    <3> QED
      BY <3>1, <3>2
  <2>4. ASSUME NEW u \in Tasks, task_pc'[u] \in Active
        PROVE  \E i \in Slots' : context_list_'[i].status = "suspend" /\ context_list_'[i].task = u
    <3>1. CASE u = t
      BY <1>3, <3>1 DEF Slots
    <3>2. CASE u # t
      <4>1. task_pc[u] \in Active
        BY <1>1, <2>4, <3>2 DEF TypeOK
      <4> QED
        BY <1>4, <1>5, <4>1 DEF SlotInv, Slots
    <3> QED
      BY <3>1, <3>2
  <2> QED
    BY <2>2, <2>3, <2>4 DEF SlotInv
<1>8. TodoInv'
  <2>1. Popped(todo_list_, todo_list_')
    BY <1>1, PopStack
  <2>2. \A k \in 1..Len(todo_list_') : /\ k + 1 \in 1..Len(todo_list_) /\ k + 1 # 1
                                       /\ todo_list_'[k] = todo_list_[k + 1]
    BY <2>1 DEF Popped
  <2>3. \A k \in 1..Len(todo_list_') : todo_list_'[k] # t /\ task_pc'[todo_list_'[k]] = "todo"
    BY <1>1, <2>2 DEF TodoInv, TypeOK
  <2>4. \A j, k \in 1..Len(todo_list_') : todo_list_'[j] = todo_list_'[k] => j = k
    <3> TAKE j, k \in 1..Len(todo_list_')
    <3>1. todo_list_'[j] = todo_list_'[k] => j + 1 = k + 1
      BY <2>2 DEF TodoInv
    <3> QED
      BY <3>1
  <2> QED
    BY <2>3, <2>4 DEF TodoInv
<1>9. PhaseInv'
  BY <1>1, <1>3 DEF PhaseInv
<1>10. WaitInv'
  <2>1. \A s \in registered \cup Armed \cup batch : NamesItsWaiter(s)'
    <3> TAKE s \in registered \cup Armed \cup batch
    <3>1. NamesItsWaiter(s) /\ s \in Tasks /\ s # t
      BY <1>2 DEF WaitInv, TypeOK, Armed, NamesItsWaiter
    <3>2. uthread_id[s] \in Slots /\ context_list_[uthread_id[s]].status = "suspend"
      BY <3>1 DEF NamesItsWaiter, TypeOK, Slots
    <3> QED
      BY <1>1, <1>5, <3>1, <3>2 DEF NamesItsWaiter, TypeOK
  <2> QED
    BY <1>1, <1>2, <1>3, <2>1 DEF WaitInv, WaitersReachable, Armed, OnCpu, TypeOK
<1>11. ReturnsWhenAllDone'
  BY <1>1 DEF ReturnsWhenAllDone
<1> QED
  BY <1>6, <1>7, <1>8, <1>9, <1>10, <1>11

\* A socket in one of the three lists is resumed: it leaves the list it was
\* taken from, and its own uthread runs.
LEMMA ResumeStep ==
  ASSUME SInv, RuntimeTypeOK', NEW s \in Tasks, ResumeNextOf(s) \/ PopTimeout(s)
  PROVE  SInv'
<1> USE DEF SInv
<1>1. NamesItsWaiter(s) /\ Resume(uthread_id[s])
  BY DEF ResumeNextOf, PopTimeout, WaitInv
<1>2. /\ on_cpu = 0 /\ on_cpu' > 0 /\ OnCpu(s)'
      /\ context_list_' = context_list_ /\ context_list_'[on_cpu'].task = s
  BY <1>1, ResumeEffect
<1>3. /\ UNCHANGED <<todo_list_, task_pc, uthread_id, registered, phase, created,
                     errors, closed_>>
      /\ s \notin batch' /\ batch' \subseteq batch
      /\ timed' \subseteq timed /\ untimed' \subseteq untimed
      /\ Armed \ {s} \subseteq Armed' /\ Armed' \subseteq Armed
      /\ phase \in {"events", "resume_all", "timeouts"}
  BY DEF ResumeNextOf, PopTimeout, taskVars, waitVars, runVars, Armed, PhaseInv
<1>4. TypeOK'
  BY <1>2, <1>3 DEF TypeOK
<1>5. SlotInv' /\ TodoInv'
  BY <1>2, <1>3, SameTasks
<1>6. PhaseInv'
  BY <1>2, <1>3 DEF PhaseInv
<1>7. WaitInv'
  <2>1. \A u \in registered' \cup Armed' \cup batch' : NamesItsWaiter(u)'
    BY <1>2, <1>3 DEF WaitInv, NamesItsWaiter
  <2>2. \A t \in Tasks : task_pc'[t] = "poll_list" => t \notin Armed'
    BY <1>3 DEF WaitInv
  <2>3. WaitersReachable'
    <3>1. \A t \in Tasks : ~OnCpu(t)
      BY <1>2 DEF OnCpu
    <3> QED
      BY <1>2, <1>3, <3>1 DEF WaitInv, WaitersReachable
  <2> QED
    BY <2>1, <2>2, <2>3 DEF WaitInv
<1>8. ReturnsWhenAllDone'
  BY <1>3 DEF ReturnsWhenAllDone
<1> QED
  BY <1>4, <1>5, <1>6, <1>7, <1>8

\* The uthread that was created is resumed.
LEMMA ResumeCreatedStep ==
  ASSUME SInv, RuntimeTypeOK', ResumeCreated
  PROVE  SInv'
<1> USE DEF SInv
<1>1. /\ created > 0 /\ Resume(created) /\ on_cpu = 0 /\ created' = 0
      /\ UNCHANGED <<context_list_, todo_list_, task_pc, uthread_id, registered,
                     timed, untimed, phase, batch, errors, closed_>>
  BY DEF ResumeCreated, Resume, taskVars, waitVars
<1>2. batch = {} /\ phase \in {"consume0", "consume"}
  BY <1>1 DEF PhaseInv
<1>3. TypeOK'
  BY <1>1 DEF TypeOK
<1>4. SlotInv' /\ TodoInv'
  BY <1>1, SameTasks
<1>5. PhaseInv'
  BY <1>1, <1>2 DEF PhaseInv
<1>6. WaitInv'
  BY <1>1 DEF WaitInv, NamesItsWaiter, WaitersReachable, Armed, OnCpu
<1>7. ReturnsWhenAllDone'
  BY <1>1, <1>2 DEF ReturnsWhenAllDone
<1> QED
  BY <1>3, <1>4, <1>5, <1>6, <1>7

-----------------------------------------------------------------------------
(* The uthreads' steps *)

\* The uthread that runs has the slot that is on the thread, and is in no list
\* that is still to be resumed; Run is not in a phase that looks at the tasks.
LEMMA Running ==
  ASSUME SInv, NEW t \in Tasks, OnCpu(t)
  PROVE  /\ on_cpu \in Slots /\ current_uthread_ = on_cpu
         /\ context_list_[on_cpu].status = "suspend" /\ context_list_[on_cpu].task = t
         /\ context_list_[on_cpu].next_done_item = 0
         /\ context_list_[on_cpu] \in Slot
         /\ t \notin batch
         /\ phase # "returned" /\ phase \notin {"test", "wait"}
         /\ \A u \in Tasks \ {t} : ~OnCpu(u)
         /\ task_pc[t] = "run" => t \notin registered \cup Armed
<1> USE DEF SInv
<1>1. /\ on_cpu \in Slots /\ current_uthread_ = on_cpu
      /\ context_list_[on_cpu].status = "suspend" /\ context_list_[on_cpu].task = t
      /\ context_list_[on_cpu] \in Slot
  BY DEF OnCpu, TypeOK, RuntimeTypeOK, Slots
<1>2. context_list_[on_cpu].next_done_item = 0
  BY <1>1 DEF SlotInv
<1>3. t \notin batch /\ phase # "returned" /\ phase \notin {"test", "wait"}
  BY <1>1 DEF OnCpu, PhaseInv
<1>4. \A u \in Tasks \ {t} : ~OnCpu(u)
  BY <1>1 DEF OnCpu
<1>5. task_pc[t] = "run" => t \notin registered \cup Armed
  BY DEF WaitInv, NamesItsWaiter
<1> QED
  BY <1>1, <1>2, <1>3, <1>4, <1>5

\* The slots and the queue when a task only goes from one active state to another.
LEMMA ActiveStep ==
  ASSUME SInv, NEW t \in Tasks, task_pc[t] \in Active, NEW to \in Active,
         task_pc' = [task_pc EXCEPT ![t] = to],
         UNCHANGED <<context_list_, todo_list_>>
  PROVE  /\ SlotInv' /\ TodoInv'
         /\ \A u \in Tasks \ {t} : task_pc'[u] = task_pc[u]
         /\ task_pc'[t] = to
         /\ task_pc' \in [Tasks -> TaskPC]
<1> USE DEF SInv
<1>1. /\ \A u \in Tasks \ {t} : task_pc'[u] = task_pc[u]
      /\ task_pc'[t] = to
      /\ task_pc' \in [Tasks -> TaskPC]
  BY DEF TypeOK, Active, TaskPC
<1>2. \A u \in Tasks : task_pc'[u] \in Active <=> task_pc[u] \in Active
  BY <1>1
<1>3. SlotInv'
  BY <1>2, SlotTask DEF SlotInv, Slots, TypeOK
<1>4. TodoInv'
  BY <1>1 DEF TodoInv, Active, TypeOK
<1> QED
  BY <1>1, <1>3, <1>4

\* A uthread begins, or its wait is over: it is in no list any more.
LEMMA RunStep ==
  ASSUME SInv, RuntimeTypeOK', NEW t \in Tasks,
         Start(t) \/ UThreadPollReturns(t) \/ UThreadPollListReturns(t)
  PROVE  SInv'
<1> USE DEF SInv
<1>1. /\ OnCpu(t) /\ task_pc[t] \in Active
      /\ task_pc' = [task_pc EXCEPT ![t] = "run"]
      /\ UNCHANGED <<context_list_, on_cpu, current_uthread_, todo_list_, uthread_id,
                     phase, created, batch, errors, closed_>>
  BY DEF Start, UThreadPollReturns, UThreadPollListReturns, runtimeVars, runVars, Active,
     waitVars
<1>2. /\ t \notin registered' \cup Armed' \cup batch
      /\ registered' \subseteq registered /\ registered \ {t} \subseteq registered'
      /\ Armed' \subseteq Armed /\ Armed \ {t} \subseteq Armed'
      /\ timed' \subseteq timed /\ untimed' \subseteq untimed
  <2>1. CASE Start(t)
    BY <1>1, <2>1, Running DEF Start, waitVars, WaitInv, NamesItsWaiter, Armed
  <2>2. CASE UThreadPollReturns(t)
    BY <1>1, <2>2, Running DEF UThreadPollReturns, Armed
  <2>3. CASE UThreadPollListReturns(t)
    BY <1>1, <2>3, Running DEF UThreadPollListReturns, Armed, WaitInv
  <2> QED
    BY <2>1, <2>2, <2>3
<1>3. /\ SlotInv' /\ TodoInv'
      /\ \A u \in Tasks \ {t} : task_pc'[u] = task_pc[u]
      /\ task_pc'[t] = "run" /\ task_pc' \in [Tasks -> TaskPC]
  BY <1>1, ActiveStep DEF Active
<1>4. TypeOK'
  BY <1>1, <1>2, <1>3 DEF TypeOK
<1>5. PhaseInv'
  BY <1>1 DEF PhaseInv
<1>6. WaitInv'
  <2>1. \A s \in registered' \cup Armed' \cup batch' : NamesItsWaiter(s)'
    <3> TAKE s \in registered' \cup Armed' \cup batch'
    <3>1. s \in Tasks \ {t} /\ NamesItsWaiter(s)
      BY <1>1, <1>2 DEF WaitInv, TypeOK, Armed
    <3> QED
      BY <1>1, <1>3, <3>1 DEF NamesItsWaiter
  <2>2. \A u \in Tasks : task_pc'[u] = "poll_list" => u \notin Armed'
    BY <1>2, <1>3 DEF WaitInv
  <2>3. WaitersReachable'
    BY <1>1, <1>2, <1>3 DEF WaitInv, WaitersReachable, OnCpu
  <2> QED
    BY <2>1, <2>2, <2>3 DEF WaitInv
<1>7. ReturnsWhenAllDone'
  BY <1>1, Running DEF ReturnsWhenAllDone
<1> QED
  BY <1>3, <1>4, <1>5, <1>6, <1>7

\* A uthread waits: its socket is in the epoll set, with its own index.
LEMMA PollStep ==
  ASSUME SInv, RuntimeTypeOK', NEW t \in Tasks,
         (\E finite \in BOOLEAN : UThreadPoll(t, finite)) \/ UThreadPollList(t)
  PROVE  SInv'
<1> USE DEF SInv
<1>1. /\ OnCpu(t) /\ task_pc[t] = "run"
      /\ uthread_id' = [uthread_id EXCEPT ![t] = current_uthread_]
      /\ registered' = registered \cup {t}
      /\ Yield
      /\ UNCHANGED <<todo_list_, phase, created, batch, errors, closed_>>
  BY DEF UThreadPoll, UThreadPollList, runVars
<1>2. /\ on_cpu \in Slots /\ current_uthread_ = on_cpu
      /\ context_list_[on_cpu] = [task |-> t, next_done_item |-> 0, status |-> "suspend"]
      /\ t \notin batch /\ t \notin registered \cup Armed
      /\ \A u \in Tasks \ {t} : ~OnCpu(u)
  <2>1. /\ on_cpu \in Slots /\ current_uthread_ = on_cpu
        /\ context_list_[on_cpu].status = "suspend" /\ context_list_[on_cpu].task = t
        /\ context_list_[on_cpu].next_done_item = 0
        /\ context_list_[on_cpu] \in Slot
        /\ t \notin batch /\ t \notin registered \cup Armed
        /\ \A u \in Tasks \ {t} : ~OnCpu(u)
    BY <1>1, Running
  <2> QED
    BY <2>1 DEF Slot
<1>3. context_list_' = context_list_ /\ on_cpu' = 0
  BY <1>1, <1>2 DEF Yield, Slots
<1>4. PICK to \in {"poll", "poll_list"} : task_pc' = [task_pc EXCEPT ![t] = to]
  BY DEF UThreadPoll, UThreadPollList
<1>5. /\ to = "poll" => t \in Armed' /\ Armed' = Armed \cup {t}
      /\ to = "poll_list" => Armed' = Armed
      /\ timed' \cup untimed' \subseteq Armed \cup {t}
      /\ timed' \in SUBSET Tasks /\ untimed' \in SUBSET Tasks
      /\ timed' \cap untimed' = {}
  <2>1. ASSUME NEW finite \in BOOLEAN, UThreadPoll(t, finite)
        PROVE  /\ task_pc'[t] = "poll" /\ Armed' = Armed \cup {t}
               /\ timed' \in SUBSET Tasks /\ untimed' \in SUBSET Tasks
               /\ timed' \cap untimed' = {}
    BY <2>1 DEF UThreadPoll, TypeOK, Armed
  <2>2. ASSUME UThreadPollList(t)
        PROVE  /\ task_pc'[t] = "poll_list" /\ Armed' = Armed
               /\ timed' \in SUBSET Tasks /\ untimed' \in SUBSET Tasks
               /\ timed' \cap untimed' = {}
    BY <2>2 DEF UThreadPollList, TypeOK, Armed
  <2>3. task_pc'[t] = to
    BY <1>4 DEF TypeOK
  <2> QED
    BY <2>1, <2>2, <2>3 DEF Armed
<1>6. /\ SlotInv' /\ TodoInv'
      /\ \A u \in Tasks \ {t} : task_pc'[u] = task_pc[u]
      /\ task_pc'[t] = to /\ task_pc' \in [Tasks -> TaskPC]
  <2>1. task_pc[t] \in Active /\ to \in Active
    BY <1>1 DEF Active
  <2> QED
    BY <1>1, <1>3, <1>4, <2>1, ActiveStep
<1>7. /\ uthread_id'[t] = on_cpu
      /\ \A u \in Tasks \ {t} : uthread_id'[u] = uthread_id[u]
  BY <1>1, <1>2 DEF TypeOK
<1>8. TypeOK'
  <2>1. uthread_id' \in [Tasks -> 0..Len(context_list_')]
    BY <1>1, <1>2, <1>3 DEF TypeOK, Slots
  <2> QED
    BY <1>1, <1>3, <1>5, <1>6, <2>1 DEF TypeOK
<1>9. PhaseInv'
  BY <1>1, <1>3 DEF PhaseInv
<1>10. WaitInv'
  <2>1. \A s \in registered' \cup Armed' \cup batch' : NamesItsWaiter(s)'
    <3> TAKE s \in registered' \cup Armed' \cup batch'
    <3>1. CASE s = t
      BY <1>2, <1>3, <1>6, <1>7, <3>1 DEF NamesItsWaiter, Slots
    <3>2. CASE s # t
      <4>1. s \in Tasks /\ NamesItsWaiter(s)
        BY <1>1, <1>5, <3>2 DEF WaitInv, TypeOK, Armed
      <4> QED
        BY <1>3, <1>6, <1>7, <3>2, <4>1 DEF NamesItsWaiter
    <3> QED
      BY <3>1, <3>2
  <2>2. \A u \in Tasks : task_pc'[u] = "poll_list" => u \notin Armed'
    BY <1>2, <1>5, <1>6 DEF WaitInv
  <2>3. WaitersReachable'
    BY <1>1, <1>2, <1>5, <1>6 DEF WaitInv, WaitersReachable
  <2> QED
    BY <2>1, <2>2, <2>3 DEF WaitInv
<1>11. ReturnsWhenAllDone'
  BY <1>1, Running DEF ReturnsWhenAllDone
<1> QED
  BY <1>6, <1>8, <1>9, <1>10, <1>11

\* A task that was not queued is queued.
LEMMA AddTaskStep ==
  ASSUME SInv, RuntimeTypeOK', NEW t \in Tasks, NEW u \in Tasks, AddTask(t, u)
  PROVE  SInv'
<1> USE DEF SInv
<1>1. /\ OnCpu(t) /\ task_pc[u] = "none"
      /\ todo_list_' = Append(todo_list_, u) /\ todo_list_ \in Seq(Tasks)
      /\ task_pc' = [task_pc EXCEPT ![u] = "todo"]
      /\ UNCHANGED <<context_list_, on_cpu, current_uthread_, uthread_id,
                     registered, timed, untimed, phase, created, batch, errors, closed_>>
  BY DEF AddTask, runtimeVars, waitVars, runVars, TypeOK
<1>2. /\ \A v \in Tasks \ {u} : task_pc'[v] = task_pc[v]
      /\ task_pc'[u] = "todo" /\ task_pc' \in [Tasks -> TaskPC]
  BY <1>1 DEF TypeOK, TaskPC
<1>3. TypeOK'
  BY <1>1, <1>2 DEF TypeOK
<1>4. SlotInv'
  BY <1>1, <1>2, SlotTask DEF SlotInv, Active, Slots, TypeOK
<1>5. TodoInv'
  <2>1. /\ Len(todo_list_) \in Nat /\ Len(todo_list_') = Len(todo_list_) + 1
        /\ todo_list_'[Len(todo_list_) + 1] = u
        /\ \A k \in 1..Len(todo_list_) : todo_list_'[k] = todo_list_[k]
    BY <1>1
  <2>2. \A k \in 1..Len(todo_list_) : todo_list_[k] # u /\ todo_list_[k] \in Tasks
    BY <1>1 DEF TodoInv
  <2>3. \A k \in 1..Len(todo_list_') : k \in 1..Len(todo_list_) \/ k = Len(todo_list_) + 1
    BY <2>1
  <2> QED
    BY <1>2, <2>1, <2>2, <2>3 DEF TodoInv
<1>6. PhaseInv'
  BY <1>1 DEF PhaseInv
<1>7. WaitInv'
  BY <1>1, <1>2 DEF WaitInv, NamesItsWaiter, WaitersReachable, Armed, OnCpu, TypeOK
<1>8. ReturnsWhenAllDone'
  BY <1>1, Running DEF ReturnsWhenAllDone
<1> QED
  BY <1>3, <1>4, <1>5, <1>6, <1>7, <1>8

\* Close only sets the flag.
LEMMA CloseStep ==
  ASSUME SInv, RuntimeTypeOK', NEW t \in Tasks, Close(t)
  PROVE  SInv'
<1> USE DEF SInv
<1>1. /\ closed_' = TRUE
      /\ UNCHANGED <<context_list_, on_cpu, current_uthread_, todo_list_, task_pc,
                     uthread_id, registered, timed, untimed, phase, created, batch,
                     errors>>
  BY DEF Close, runtimeVars, taskVars, waitVars, runVars
<1> QED
  BY <1>1 DEF TypeOK, SlotInv, TodoInv, PhaseInv, WaitInv, NamesItsWaiter,
     WaitersReachable, Armed, OnCpu, ReturnsWhenAllDone, Slots

\* A uthread ends: its slot becomes free, and no socket has its index.
LEMMA FinishStep ==
  ASSUME SInv, RuntimeTypeOK', NEW t \in Tasks, Finish(t)
  PROVE  SInv'
<1> USE DEF SInv
<1>1. /\ OnCpu(t) /\ task_pc[t] = "run" /\ on_cpu > 0
      /\ task_pc' = [task_pc EXCEPT ![t] = "done"]
      /\ UThreadDoneCallback
      /\ UNCHANGED <<todo_list_, uthread_id, registered, timed, untimed, phase,
                     created, batch, errors, closed_>>
  BY DEF Finish, OnCpu, waitVars, runVars
<1>2. /\ on_cpu \in Slots /\ on_cpu' = 0
      /\ Len(context_list_') = Len(context_list_) /\ Len(context_list_) \in Nat
      /\ context_list_'[on_cpu].status = "done"
      /\ \A i \in Slots \ {on_cpu} : context_list_'[i] = context_list_[i]
  BY <1>1, DoneEffect DEF TypeOK
<1>3. /\ context_list_[on_cpu].status = "suspend" /\ context_list_[on_cpu].task = t
      /\ \A u \in Tasks \ {t} : ~OnCpu(u)
      /\ t \notin registered \cup Armed \cup batch
  BY <1>1, Running
<1>4. /\ \A v \in Tasks \ {t} : task_pc'[v] = task_pc[v]
      /\ task_pc'[t] = "done" /\ task_pc' \in [Tasks -> TaskPC]
  BY <1>1 DEF TypeOK, TaskPC
<1>5. TypeOK'
  BY <1>1, <1>2, <1>4 DEF TypeOK
<1>6. SlotInv'
  <2>1. Slots' = Slots
    BY <1>2 DEF Slots
  <2>2. ASSUME NEW i \in Slots, context_list_'[i].status = "suspend"
        PROVE  /\ i # on_cpu /\ context_list_'[i] = context_list_[i]
               /\ context_list_[i].task # t /\ context_list_[i].task \in Tasks
    <3>1. i # on_cpu /\ context_list_'[i] = context_list_[i]
      BY <1>2, <2>2
    <3> QED
      BY <1>2, <1>3, <2>2, <3>1, SlotTask DEF SlotInv, TypeOK
  <2>3. \A i \in Slots : context_list_'[i].status = "suspend" =>
          /\ context_list_'[i].next_done_item = 0
          /\ task_pc'[context_list_'[i].task] \in Active
    BY <1>4, <2>2 DEF SlotInv
  <2>4. \A i, j \in Slots :
          /\ context_list_'[i].status = "suspend" /\ context_list_'[j].status = "suspend"
          /\ context_list_'[i].task = context_list_'[j].task
          => i = j
    BY <2>2 DEF SlotInv
  <2>5. ASSUME NEW u \in Tasks, task_pc'[u] \in Active
        PROVE  \E i \in Slots : context_list_'[i].status = "suspend" /\ context_list_'[i].task = u
    <3>1. u # t /\ task_pc[u] \in Active
      BY <1>4, <2>5 DEF Active
    <3>2. PICK i \in Slots : context_list_[i].status = "suspend" /\ context_list_[i].task = u
      BY <3>1 DEF SlotInv
    <3> QED
      BY <1>2, <1>3, <3>1, <3>2
  <2> QED
    BY <2>1, <2>3, <2>4, <2>5 DEF SlotInv
<1>7. TodoInv'
  <2>1. \A k \in 1..Len(todo_list_) : todo_list_[k] \in Tasks
    BY DEF TypeOK
  <2> QED
    BY <1>1, <1>4, <2>1 DEF TodoInv
<1>8. PhaseInv'
  BY <1>1, <1>2 DEF PhaseInv
<1>9. WaitInv'
  <2>1. \A s \in registered \cup Armed \cup batch : NamesItsWaiter(s)'
    <3> TAKE s \in registered \cup Armed \cup batch
    <3>1. NamesItsWaiter(s) /\ s \in Tasks /\ s # t
      BY <1>3 DEF WaitInv, TypeOK, Armed
    <3>2. uthread_id[s] \in Slots /\ uthread_id[s] # on_cpu
      BY <1>3, <3>1 DEF NamesItsWaiter, TypeOK, Slots
    <3> QED
      BY <1>1, <1>2, <1>4, <3>1, <3>2 DEF NamesItsWaiter
  <2>2. WaitersReachable'
    BY <1>1, <1>3, <1>4 DEF WaitInv, WaitersReachable, Armed
  <2> QED
    BY <1>1, <1>4, <2>1, <2>2 DEF WaitInv, Armed
<1>10. ReturnsWhenAllDone'
  BY <1>1, Running DEF ReturnsWhenAllDone
<1> QED
  BY <1>5, <1>6, <1>7, <1>8, <1>9, <1>10

-----------------------------------------------------------------------------
(* The invariant *)

\* A step that changes nothing keeps the invariant.
LEMMA StutterStep ==
  ASSUME SInv, UNCHANGED vars
  PROVE  SInv'
<1>1. /\ UNCHANGED <<context_list_, first_done_item_, current_uthread_,
                     unfinished_item_count_, on_cpu, finished>>
      /\ UNCHANGED <<todo_list_, task_pc, uthread_id, registered, timed, untimed>>
      /\ UNCHANGED <<phase, created, batch, errors, closed_>>
  BY DEF vars, runtimeVars, taskVars, waitVars, runVars
<1>2. TypeOK'
  BY <1>1 DEF SInv, TypeOK, RuntimeTypeOK
<1>3. SlotInv' /\ TodoInv' /\ PhaseInv'
  BY <1>1, SameTasks DEF SInv, PhaseInv
<1>4. WaitInv'
  BY <1>1 DEF SInv, WaitInv, NamesItsWaiter, WaitersReachable, Armed, OnCpu
<1>5. ReturnsWhenAllDone'
  BY <1>1 DEF SInv, ReturnsWhenAllDone
<1> QED
  BY <1>2, <1>3, <1>4, <1>5 DEF SInv

\* Every step keeps EInv.
LEMMA StepEInv ==
  ASSUME EInv, [Next]_vars
  PROVE  EInv'
<1>1. RuntimeInv /\ SInv
  BY DEF EInv, RuntimeInv, SInv, TypeOK
<1>2. RuntimeInv'
  BY <1>1, RuntimeStep, StepRuntimeInv DEF SInv
<1>3. FreeListExact /\ UnfinishedExact /\ RuntimeTypeOK'
  BY <1>1, <1>2 DEF RuntimeInv
<1>4. CASE SchedulerStep \/ \E s \in Tasks : PopTimeout(s)
  <2>1. SInv'
    BY <1>1, <1>3, <1>4, CreateTaskStep, ResumeCreatedStep, PhaseStep, ResumeStep
       DEF SchedulerStep
  <2> QED
    BY <1>2, <2>1 DEF EInv, RuntimeInv, SInv
<1>5. ASSUME NEW t \in Tasks, UThreadStep(t) PROVE EInv'
  <2>1. SInv'
    BY <1>1, <1>3, <1>5, RunStep, PollStep, AddTaskStep, CloseStep, FinishStep
       DEF UThreadStep
  <2> QED
    BY <1>2, <2>1 DEF EInv, RuntimeInv, SInv
<1>6. CASE UNCHANGED vars
  BY <1>1, <1>2, <1>6, StutterStep DEF EInv, RuntimeInv, SInv
<1> QED
  BY <1>4, <1>5, <1>6 DEF Next

\* EInv holds in every first state.
LEMMA InitEInv == Init => EInv
<1> SUFFICES ASSUME Init PROVE EInv
  OBVIOUS
<1>1. RuntimeInv
  BY InitRuntimeInv DEF Init
<1>2. PICK initial \in {s \in SUBSET Tasks : s # {} /\ IsFiniteSet(s)} :
        /\ todo_list_ \in {q \in [1..Cardinality(initial) -> initial] :
                             \A j, k \in DOMAIN q : q[j] = q[k] => j = k}
        /\ task_pc = [t \in Tasks |-> IF t \in initial THEN "todo" ELSE "none"]
  BY DEF Init
<1>3. /\ todo_list_ \in Seq(Tasks) /\ DOMAIN todo_list_ = 1..Len(todo_list_)
      /\ \A k \in 1..Len(todo_list_) : todo_list_[k] \in initial
      /\ \A j, k \in 1..Len(todo_list_) : todo_list_[j] = todo_list_[k] => j = k
  <2>1. Cardinality(initial) \in Nat
    BY FS_CardinalityType
  <2>2. todo_list_ \in [1..Cardinality(initial) -> initial]
    BY <1>2
  <2>3. todo_list_ \in Seq(initial)
    BY <2>1, <2>2
  <2> QED
    BY <1>2, <2>1, <2>2, <2>3
<1>4. /\ context_list_ = <<>> /\ on_cpu = 0 /\ registered = {} /\ timed = {} /\ untimed = {}
      /\ batch = {} /\ phase = "consume0" /\ created = 0 /\ closed_ = FALSE /\ errors = 0
      /\ uthread_id = [t \in Tasks |-> 0]
      /\ Len(context_list_) = 0
  BY DEF Init, RuntimeInit
<1>5. \A t \in Tasks : task_pc[t] \in {"todo", "none"}
  BY <1>2
<1>6. TypeOK
  <2>1. task_pc \in [Tasks -> TaskPC]
    BY <1>2 DEF TaskPC
  <2>2. /\ uthread_id \in [Tasks -> 0..Len(context_list_)]
        /\ errors \in 0..MaxErrors
        /\ created \in 0..Len(context_list_)
    BY <1>4, EpollAssumption
  <2>3. /\ registered \in SUBSET Tasks /\ timed \in SUBSET Tasks
        /\ untimed \in SUBSET Tasks /\ batch \in SUBSET Tasks
        /\ timed \cap untimed = {} /\ phase \in Phases /\ closed_ \in BOOLEAN
    BY <1>4 DEF Phases
  <2> QED
    BY <1>1, <1>3, <2>1, <2>2, <2>3 DEF TypeOK, RuntimeInv
<1>7. SlotInv
  BY <1>4, <1>5 DEF SlotInv, Slots, Active
<1>8. TodoInv
  BY <1>2, <1>3 DEF TodoInv
<1>9. PhaseInv
  BY <1>4 DEF PhaseInv
<1>10. WaitInv
  BY <1>4, <1>5 DEF WaitInv, Armed, WaitersReachable
<1>11. ReturnsWhenAllDone
  BY <1>4 DEF ReturnsWhenAllDone
<1> QED
  BY <1>1, <1>6, <1>7, <1>8, <1>9, <1>10, <1>11 DEF EInv, RuntimeInv

-----------------------------------------------------------------------------
(* Theorems *)

\* EInv holds in every reachable state of the scheduler.
LEMMA EpollInvariance == Spec => []EInv
  BY InitEInv, StepEInv, PTL DEF Spec

\* The scheduler and the uthreads on it call the runtime as UThreadRuntime
\* allows, so what is proved of the runtime holds under the scheduler.
THEOREM SchedulerUsesTheRuntime == Spec => RuntimeSpec
<1>1. Init => RuntimeInit
  BY DEF Init
<1>2. EInv /\ [Next]_vars => [RuntimeNext]_runtimeVars
  BY RuntimeStep DEF EInv
<1> QED
  BY <1>1, <1>2, EpollInvariance, PTL DEF Spec, RuntimeSpec

\* An index of a finished uthread is used again and nothing checks it, yet every
\* socket the scheduler may resume, from an event, a copied list or a timer,
\* names the uthread that waits on it.
THEOREM TheWaiterIsResumed == Spec => []ResumesTheWaiter
<1>1. EInv => ResumesTheWaiter
  BY DEF EInv, WaitInv, ResumesTheWaiter
<1> QED
  BY <1>1, EpollInvariance, PTL

\* No uthread waits where nothing can resume it.
THEOREM NoWaiterIsForgotten == Spec => []WaitersReachable
<1>1. EInv => WaitersReachable
  BY DEF EInv, WaitInv
<1> QED
  BY <1>1, EpollInvariance, PTL

\* Unless Close was called or epoll_wait failed, Run returns only after every
\* uthread it started has finished.
THEOREM RunReturnsWhenAllDone == Spec => []ReturnsWhenAllDone
<1>1. EInv => ReturnsWhenAllDone
  BY DEF EInv
<1> QED
  BY <1>1, EpollInvariance, PTL

-----------------------------------------------------------------------------
(* The calls of a client *)

CallPC == {"open", "connecting", "send", "sending", "recv", "receiving", "rest",
           "receiving_rest", "flush", "flushing", "callback", "finish"}

\* Where a call waits in UThreadPoll.
AtWait == {"connecting", "sending", "receiving", "receiving_rest", "flushing"}

Causes == {"none", "open", "syscall", "peer", "flush", "answer", "ready", "hup", "error",
           "close", "timeout"}

CallTypeOK ==
  /\ call_pc \in [Tasks -> CallPC]
  /\ waited_events \in [Tasks -> {"none", "ready", "hup", "error", "close", "timeout"}]
  /\ flag \in {"none", "error", "close"}
  /\ errno \in {"zero", "timedout", "other"}
  /\ cause \in [Tasks -> Causes]
  /\ call_ret \in [Tasks -> {-303, -202, -1, 0}]
  /\ callbacks \in [Tasks -> 0..1]

\* Where a call in cp may be whose task is in tp, and how often it was called back.
InPlace(t, tp, cp, cb) ==
  /\ tp # "poll_list"
  /\ tp \in {"none", "todo", "start"} => cp = "open"
  /\ tp = "poll" <=> cp \in AtWait
  /\ tp = "done" => cp = "finish"
  /\ t \notin endpoints => cp \in {"open", "finish"}
  /\ cb = IF cp = "finish" /\ t \in endpoints THEN 1 ELSE 0

PlaceInv == \A t \in Tasks : InPlace(t, task_pc[t], call_pc[t], callbacks[t])

\* A call that does not wait is on the thread; calls are only started by
\* ConsumeTodoList before the loop, since none adds a task.
CpuInv ==
  /\ \A t \in Tasks :
       /\ task_pc[t] = "run" => OnCpu(t)
       /\ task_pc[t] = "start" => OnCpu(t) \/ (created > 0 /\ context_list_[created].task = t)
       /\ task_pc[t] = "todo" => \E k \in 1..Len(todo_list_) : todo_list_[k] = t
  /\ phase # "consume0" => todo_list_ = <<>> /\ created = 0
  /\ created > 0 => on_cpu = 0 /\ context_list_[created].status = "suspend"
  /\ phase = "consume" => on_cpu = 0

\* The call was resumed without the event it waited for, or has failed after
\* that: it reads no more of an answer.
Failing(t) ==
  \/ task_pc[t] = "poll" /\ waited_events[t] # "ready"
  \/ task_pc[t] = "run" /\ call_pc[t] \in {"flush", "callback", "finish"}

Over(t) == task_pc[t] \in {"none", "done"}

\* A call resumed by ResumeAll or by its timer is failing; ResumeAll leaves
\* behind only calls that ended or wait for their second flush.
FailInv ==
  /\ phase \in {"resume_all", "timeouts"} => \A t \in Tasks : OnCpu(t) => Failing(t)
  /\ phase = "resume_all" =>
       /\ flag \in {"error", "close"}
       /\ \A t \in Tasks : Over(t) \/ t \in batch \/ OnCpu(t) \/ call_pc[t] = "flushing"
  /\ phase = "returned" =>
       \A t \in Tasks : Over(t) \/ (call_pc[t] = "flushing" /\ (closed_ \/ errors > 0))
  /\ flag = "close" => closed_
  /\ \A t \in Tasks : waited_events[t] = "close" => closed_

CInv == /\ EInv
        /\ CallTypeOK /\ PlaceInv /\ CpuInv /\ FailInv /\ ResultTellsTheCause

-----------------------------------------------------------------------------
(* The scheduler under the calls *)

\* Every step of the calls is one of UThreadEpoll, but the next MultiCall.
LEMMA SchedulerView ==
  ASSUME [CallsNext]_<<vars, callVars>>
  PROVE  [Next]_vars \/ MultiCallAgain
<1>1. CASE SchedulerGoesOn
  BY <1>1 DEF SchedulerGoesOn, Next, SchedulerStep
<1>2. CASE ResumesAll
  BY <1>2 DEF ResumesAll, Next, SchedulerStep
<1>3. ASSUME NEW s \in Tasks, ResumeWaiter(s) \/ ResumeTimedOut(s) PROVE Next
  BY <1>3 DEF ResumeWaiter, ResumeTimedOut, Next, SchedulerStep
<1>4. ASSUME NEW t \in Tasks, CallStep(t) PROVE Next \/ UNCHANGED vars
  <2>1. \/ Start(t) \/ UThreadPoll(t, TRUE) \/ UThreadPollReturns(t) \/ Close(t) \/ Finish(t)
        \/ UNCHANGED vars
    BY <1>4 DEF CallStep, StartCall, NoEndpoint, Open, Connected, Send, Sent, Flush, Flushed,
       Recv, Received, RecvRest, ReceivedRest, Callback, CallReturns, Waits
  <2>2. TRUE \in BOOLEAN
    OBVIOUS
  <2> QED
    BY <2>1, <2>2 DEF Next, UThreadStep
<1> QED
  BY <1>1, <1>2, <1>3, <1>4 DEF CallsNext, SchedulerSteps

\* AddCaller and MultiCall begin where Run has returned: the queue has one new
\* call, and nothing runs.
LEMMA AgainEInv ==
  ASSUME EInv, todo_list_ = <<>>, MultiCallAgain
  PROVE  EInv'
<1> USE DEF EInv
<1>1. PICK t \in Tasks : /\ task_pc[t] = "none" /\ todo_list_' = <<t>>
                         /\ task_pc' = [task_pc EXCEPT ![t] = "todo"]
  BY DEF MultiCallAgain
<1>2. /\ phase = "returned" /\ phase' = "consume0"
      /\ UNCHANGED <<context_list_, first_done_item_, current_uthread_,
                     unfinished_item_count_, on_cpu, finished>>
      /\ UNCHANGED <<uthread_id, registered, timed, untimed, created, batch, errors,
                     closed_>>
  BY DEF MultiCallAgain, runtimeVars, waitVars
<1>3. /\ \A u \in Tasks \ {t} : task_pc'[u] = task_pc[u]
      /\ task_pc'[t] = "todo" /\ task_pc' \in [Tasks -> TaskPC]
  BY <1>1 DEF TypeOK, TaskPC
<1>4. /\ todo_list_' \in Seq(Tasks) /\ Len(todo_list_') = 1 /\ todo_list_'[1] = t
  BY <1>1
<1>5. TypeOK'
  BY <1>2, <1>3, <1>4 DEF TypeOK, Phases, RuntimeTypeOK
<1>6. FreeListExact' /\ UnfinishedExact'
  BY <1>2 DEF FreeListExact, UnfinishedExact, Unfinished
<1>7. SlotInv'
  BY <1>1, <1>2, <1>3, SlotTask DEF SlotInv, Active, Slots, TypeOK
<1>8. TodoInv'
  BY <1>3, <1>4 DEF TodoInv
<1>9. PhaseInv'
  BY <1>2 DEF PhaseInv
<1>10. WaitInv'
  BY <1>1, <1>2, <1>3 DEF WaitInv, NamesItsWaiter, WaitersReachable, Armed, OnCpu
<1>11. ReturnsWhenAllDone'
  BY <1>2 DEF ReturnsWhenAllDone
<1> QED
  BY <1>5, <1>6, <1>7, <1>8, <1>9, <1>10, <1>11

-----------------------------------------------------------------------------
(* The scheduler's steps *)

\* What CInv adds to the invariant of the scheduler.
CallsOK == CallTypeOK /\ PlaceInv /\ CpuInv /\ FailInv /\ ResultTellsTheCause

\* The thread is on the scheduler's stack: no call runs.
LEMMA NoCallRuns ==
  ASSUME CInv, on_cpu = 0
  PROVE  \A t \in Tasks :
           /\ ~OnCpu(t) /\ task_pc[t] # "run" /\ task_pc[t] # "poll_list"
           /\ task_pc[t] \in Active =>
                \/ task_pc[t] = "poll" /\ t \in Armed
                \/ task_pc[t] = "start" /\ created > 0 /\ context_list_[created].task = t
BY DEF CInv, CpuInv, PlaceInv, InPlace, OnCpu, EInv, WaitInv, WaitersReachable, Active

\* Run goes from one phase to the next.
LEMMA PhaseOfCalls ==
  ASSUME CInv,
         \/ UNCHANGED callVars /\ (ConsumeDone \/ TestAllDone \/ EpollWait \/ EventsDone
                                     \/ ResumeAllDone \/ TimeoutsDone)
         \/ ResumesAll
  PROVE  CallsOK'
<1> USE DEF CInv, CallsOK
<1>1. /\ UNCHANGED <<context_list_, on_cpu, todo_list_, task_pc, uthread_id, registered,
                     timed, untimed, created, closed_>>
      /\ UNCHANGED <<endpoints, call_pc, waited_events, errno, cause, call_ret, callbacks>>
      /\ flag' = flag \/ (phase' = "resume_all" /\ flag' \in {"error", "close"})
      /\ flag' = "close" => closed_
      /\ on_cpu = 0 /\ phase # "returned"
  BY DEF ConsumeDone, TestAllDone, EpollWait, EpollError, StartResumeAll, EventsDone,
     EventsDoneClosed, ResumeAllDone, TimeoutsDone, ResumesAll, callVars, runtimeVars,
     taskVars, waitVars, FailInv, EInv, PhaseInv
<1>2. CallTypeOK'
  BY <1>1 DEF CallTypeOK
<1>3. PlaceInv'
  BY <1>1 DEF PlaceInv, InPlace
<1>4. /\ phase' = "consume" => phase = "events" \/ phase = "consume"
      /\ phase' = "consume0" => phase = "consume0"
      /\ phase' # "consume0" => todo_list_ = <<>> /\ created = 0
  BY DEF ConsumeDone, TestAllDone, EpollWait, EpollError, StartResumeAll, EventsDone,
     EventsDoneClosed, ResumeAllDone, TimeoutsDone, ResumesAll, CpuInv
<1>5. CpuInv'
  BY <1>1, <1>4 DEF CpuInv, OnCpu
<1>6. FailInv'
  <2>1. \A t \in Tasks : ~OnCpu(t) /\ ~OnCpu(t)'
    BY <1>1 DEF OnCpu
  <2>2. \A t \in Tasks : waited_events'[t] = "close" => closed_'
    BY <1>1 DEF FailInv
  <2>3. \A t \in Tasks : phase' # "consume0" => task_pc[t] \notin {"start", "todo"}
    BY <1>1, <1>4, NoCallRuns DEF CpuInv, Active, PlaceInv
  <2>4. ASSUME phase' = "resume_all"
        PROVE  /\ flag' \in {"error", "close"}
               /\ \A t \in Tasks : Over(t)' \/ t \in batch'
    <3>1. ResumesAll
      BY <2>4, <1>4 DEF ConsumeDone, TestAllDone, EpollWait, EventsDone, ResumeAllDone,
         TimeoutsDone
    <3>2. flag' \in {"error", "close"} /\ batch' = Armed
      BY <3>1 DEF ResumesAll, EpollError, EventsDoneClosed, StartResumeAll
    <3>3. \A t \in Tasks : Over(t) \/ t \in Armed
      <4> TAKE t \in Tasks
      <4>1. task_pc[t] \in TaskPC
        BY DEF EInv, TypeOK
      <4> QED
        BY <1>1, <2>3, <2>4, <4>1, NoCallRuns DEF Over, Active, TaskPC
    <3> QED
      BY <1>1, <3>2, <3>3 DEF Over
  <2>5. ASSUME phase' = "returned"
        PROVE  \A t \in Tasks : Over(t)' \/ (call_pc'[t] = "flushing" /\ (closed_' \/ errors' > 0))
    <3>1. CASE TestAllDone
      <4>1. unfinished_item_count_ = 0
        BY <2>5, <3>1 DEF TestAllDone
      <4>2. Unfinished = {}
        BY <4>1, UnfinishedIsFinite, FS_EmptySet DEF EInv, TypeOK, UnfinishedExact, Unfinished
      <4>3. \A t \in Tasks : task_pc[t] \notin Active
        BY <4>2 DEF EInv, SlotInv, Slots, Unfinished
      <4> QED
        BY <1>1, <2>3, <2>5, <4>3 DEF EInv, Active, TypeOK, TaskPC, Over
    <3>2. CASE ResumeAllDone
      <4>1. /\ closed_ \/ errors > 0
            /\ errors' = errors
            /\ \A t \in Tasks : Over(t) \/ call_pc[t] = "flushing"
        BY <2>1, <3>2 DEF ResumeAllDone, EInv, PhaseInv, FailInv
      <4> QED
        BY <1>1, <4>1 DEF Over
    <3> QED
      BY <2>5, <3>1, <3>2 DEF ConsumeDone, EpollWait, EpollError, StartResumeAll, EventsDone,
         EventsDoneClosed, TimeoutsDone, ResumesAll
  <2> QED
    BY <1>1, <2>1, <2>2, <2>4, <2>5 DEF FailInv
<1>7. ResultTellsTheCause'
  BY <1>1 DEF ResultTellsTheCause
<1> QED
  BY <1>2, <1>3, <1>5, <1>6, <1>7

\* ConsumeTodoList starts a call.
LEMMA CreateCall ==
  ASSUME CInv, CreateTask, UNCHANGED callVars
  PROVE  CallsOK'
<1> USE DEF CInv, CallsOK
<1>1. PICK t \in Tasks : /\ t = Head(todo_list_) /\ t = todo_list_[1] /\ 1 \in 1..Len(todo_list_)
  BY DEF CreateTask, EInv, TypeOK
<1>2. /\ Create(t) /\ todo_list_ # <<>> /\ created' = NewIndex
      /\ task_pc' = [task_pc EXCEPT ![t] = "start"]
      /\ UNCHANGED <<phase, batch, errors, closed_>>
      /\ UNCHANGED <<endpoints, call_pc, waited_events, flag, errno, cause, call_ret, callbacks>>
      /\ created = 0
  BY <1>1 DEF CreateTask, callVars
<1>3. task_pc[t] = "todo"
  BY <1>1 DEF EInv, TodoInv
<1>4. /\ NewIndex \in 1..Len(context_list_') /\ NewIndex > 0
      /\ context_list_'[NewIndex].task = t /\ context_list_'[NewIndex].status = "suspend"
      /\ on_cpu = 0 /\ on_cpu' = 0
  <2>1. /\ NewIndex \in 1..Len(context_list_') /\ Len(context_list_') \in Nat
        /\ context_list_'[NewIndex] = [task |-> t, next_done_item |-> 0, status |-> "suspend"]
        /\ on_cpu = 0 /\ on_cpu' = 0
    BY <1>1, <1>2, CreateEffect DEF EInv, TypeOK
  <2> QED
    BY <2>1
<1>5. /\ \A u \in Tasks \ {t} : task_pc'[u] = task_pc[u]
      /\ task_pc'[t] = "start"
  BY <1>2 DEF EInv, TypeOK
<1>6. phase = "consume0"
  BY <1>2 DEF CpuInv
<1>7. CallTypeOK'
  BY <1>2 DEF CallTypeOK
<1>8. PlaceInv'
  BY <1>2, <1>3, <1>5 DEF PlaceInv, InPlace, AtWait
<1>9. CpuInv'
  <2>1. ASSUME NEW u \in Tasks
        PROVE  /\ task_pc'[u] # "run"
               /\ task_pc'[u] = "start" => u = t
               /\ task_pc'[u] = "todo" => \E k \in 1..Len(todo_list_') : todo_list_'[k] = u
    <3>1. task_pc[u] # "run" /\ task_pc[u] # "start"
      BY <1>2, <1>4 DEF CpuInv, OnCpu
    <3>2. ASSUME u # t, task_pc[u] = "todo"
          PROVE  \E k \in 1..Len(todo_list_') : todo_list_'[k] = u
      <4>1. PICK k \in 1..Len(todo_list_) : todo_list_[k] = u
        BY <3>2 DEF CpuInv
      <4>2. k # 1 /\ todo_list_ \in Seq(Tasks) /\ todo_list_' = Tail(todo_list_)
        BY <1>1, <3>2, <4>1 DEF EInv, TypeOK, CreateTask
      <4>3. k - 1 \in 1..Len(todo_list_') /\ todo_list_'[k - 1] = u
        BY <1>2, <4>1, <4>2
      <4> QED
        BY <4>3
    <3> QED
      BY <1>5, <3>1, <3>2
  <2> QED
    BY <1>2, <1>4, <1>6, <2>1 DEF CpuInv
<1>10. FailInv'
  BY <1>2, <1>6 DEF FailInv
<1>11. ResultTellsTheCause'
  BY <1>2 DEF ResultTellsTheCause
<1> QED
  BY <1>7, <1>8, <1>9, <1>10, <1>11

\* The call that was started runs.
LEMMA ResumeCreatedCall ==
  ASSUME CInv, ResumeCreated, UNCHANGED callVars
  PROVE  CallsOK'
<1> USE DEF CInv, CallsOK
<1>1. /\ created > 0 /\ on_cpu = 0 /\ on_cpu' = created /\ created' = 0
      /\ UNCHANGED <<context_list_, todo_list_, task_pc, phase, batch, errors, closed_>>
      /\ UNCHANGED <<endpoints, call_pc, waited_events, flag, errno, cause, call_ret, callbacks>>
  <2>1. created > 0 /\ on_cpu = 0 /\ CanResume(created)
    BY DEF ResumeCreated, CpuInv, CanResume, EInv, TypeOK, RuntimeTypeOK
  <2> QED
    BY <2>1 DEF ResumeCreated, Resume, taskVars, callVars
<1>2. phase = "consume0"
  BY <1>1 DEF CpuInv
<1>3. CallTypeOK' /\ PlaceInv' /\ ResultTellsTheCause'
  BY <1>1 DEF CallTypeOK, PlaceInv, InPlace, ResultTellsTheCause
<1>4. CpuInv'
  BY <1>1, <1>2 DEF CpuInv, OnCpu
<1>5. FailInv'
  BY <1>1, <1>2 DEF FailInv
<1> QED
  BY <1>3, <1>4, <1>5

\* A call that waits is resumed, with what it finds in its socket.
LEMMA ResumeCall ==
  ASSUME CInv, NEW s \in Tasks, ResumeWaiter(s) \/ ResumeTimedOut(s)
  PROVE  CallsOK'
<1> USE DEF CInv, CallsOK
<1>1. NamesItsWaiter(s) /\ Resume(uthread_id[s]) /\ TypeOK
  BY DEF ResumeWaiter, ResumeTimedOut, ResumeNextOf, PopTimeout, EInv, WaitInv
<1>2. /\ on_cpu = 0 /\ on_cpu' > 0 /\ OnCpu(s)'
      /\ context_list_' = context_list_ /\ context_list_'[on_cpu'].task = s
  BY <1>1, ResumeEffect
<1>3. PICK e \in {"ready", "hup", "none", "error", "close", "timeout"} :
        /\ waited_events' = [waited_events EXCEPT ![s] = e]
        /\ phase \in {"resume_all", "timeouts"} => e # "ready"
        /\ e = "close" => closed_
  <2>1. CASE ResumeWaiter(s)
    BY <2>1 DEF ResumeWaiter, ResumeNextOf, CallTypeOK, FailInv
  <2>2. CASE ResumeTimedOut(s)
    BY <2>2 DEF ResumeTimedOut, PopTimeout
  <2> QED
    BY <2>1, <2>2
<1>4. /\ UNCHANGED <<todo_list_, task_pc, phase, created, errors, closed_>>
      /\ UNCHANGED <<endpoints, call_pc, flag, errno, cause, call_ret, callbacks>>
      /\ batch' \subseteq batch /\ batch \ {s} \subseteq batch'
      /\ phase \in {"events", "resume_all", "timeouts"}
  BY DEF ResumeWaiter, ResumeTimedOut, ResumeNextOf, PopTimeout, taskVars, runVars
<1>5. task_pc[s] = "poll"
  BY <1>1 DEF NamesItsWaiter, PlaceInv, InPlace
<1>6. \A t \in Tasks \ {s} : ~OnCpu(t)'
  BY <1>2 DEF OnCpu
<1>7. /\ waited_events'[s] = e
      /\ \A t \in Tasks \ {s} : waited_events'[t] = waited_events[t]
      /\ CallTypeOK'
  BY <1>3, <1>4 DEF CallTypeOK
<1>8. PlaceInv' /\ ResultTellsTheCause'
  BY <1>4 DEF PlaceInv, InPlace, ResultTellsTheCause
<1>9. CpuInv'
  BY <1>4, <1>2, <1>5 DEF CpuInv, OnCpu
<1>10. FailInv'
  <2>1. phase \in {"resume_all", "timeouts"} => \A t \in Tasks : OnCpu(t)' => Failing(t)'
    BY <1>3, <1>4, <1>5, <1>6, <1>7 DEF Failing
  <2>2. phase = "resume_all" =>
          \A t \in Tasks : Over(t)' \/ t \in batch' \/ OnCpu(t)' \/ call_pc'[t] = "flushing"
    BY <1>2, <1>4, NoCallRuns DEF FailInv, Over
  <2>3. \A t \in Tasks : waited_events'[t] = "close" => closed_'
    BY <1>3, <1>4, <1>7 DEF FailInv
  <2> QED
    BY <1>4, <2>1, <2>2, <2>3 DEF FailInv
<1> QED
  BY <1>7, <1>8, <1>9, <1>10

\* The caller begins again with one more call.
LEMMA AgainCall ==
  ASSUME CInv, MultiCallAgain
  PROVE  CallsOK'
<1> USE DEF CInv, CallsOK
<1>1. PICK t \in Tasks : /\ task_pc[t] = "none" /\ todo_list_' = <<t>>
                         /\ task_pc' = [task_pc EXCEPT ![t] = "todo"]
  BY DEF MultiCallAgain
<1>2. /\ phase = "returned" /\ phase' = "consume0"
      /\ UNCHANGED <<context_list_, on_cpu, created, batch, errors, closed_>>
      /\ UNCHANGED <<endpoints, call_pc, waited_events, flag, errno, cause, call_ret, callbacks>>
      /\ created = 0
  BY DEF MultiCallAgain, runtimeVars, callVars, CpuInv
<1>3. /\ \A u \in Tasks \ {t} : task_pc'[u] = task_pc[u]
      /\ task_pc'[t] = "todo" /\ Len(todo_list_') = 1 /\ todo_list_'[1] = t
  BY <1>1 DEF EInv, TypeOK
<1>4. CallTypeOK' /\ ResultTellsTheCause'
  BY <1>2 DEF CallTypeOK, ResultTellsTheCause
<1>5. PlaceInv'
  BY <1>1, <1>2, <1>3 DEF PlaceInv, InPlace, AtWait
<1>6. CpuInv'
  <2>1. \A u \in Tasks : task_pc[u] # "todo" /\ task_pc[u] # "start"
    BY <1>2 DEF FailInv, Over, PlaceInv, InPlace, AtWait
  <2> QED
    BY <1>2, <1>3, <2>1 DEF CpuInv, OnCpu
<1>7. FailInv'
  BY <1>2 DEF FailInv
<1> QED
  BY <1>4, <1>5, <1>6, <1>7

-----------------------------------------------------------------------------
(* The steps of a call *)

\* Where a step takes a call: its task to tp, itself to cp, its callbacks to
\* cb.  Only a wait and the end leave the thread, and a call that fails goes on
\* failing, or waits for its second flush, or ends.
Moves(t, tp, cp, cb) ==
  /\ task_pc' = [task_pc EXCEPT ![t] = tp]
  /\ call_pc' = [call_pc EXCEPT ![t] = cp]
  /\ callbacks' = [callbacks EXCEPT ![t] = cb]
  /\ InPlace(t, tp, cp, cb)
  /\ \/ tp = "run" /\ UNCHANGED <<on_cpu, context_list_>>
     \/ tp \in {"poll", "done"} /\ on_cpu' = 0
  /\ Failing(t) => \/ tp = "run" /\ cp \in {"flush", "callback", "finish"}
                   \/ tp = "poll" /\ cp = "flushing"
                   \/ tp = "done"

\* The result a call may have with a cause.
Tells(ret, why, closed) ==
  /\ why = "timeout" => ret = -202
  /\ why = "close" => ret = -303 /\ closed
  /\ why \notin {"peer", "flush", "answer", "timeout", "close"} => ret \notin {-202, -303}

\* A step after which the call goes on running.
LEMMA RunMove ==
  ASSUME CInv, NEW t \in Tasks, OnCpu(t),
         \/ UThreadPollReturns(t)
         \/ task_pc[t] = "run" /\ (Close(t) \/ UNCHANGED vars),
         NEW cp \in CallPC \ AtWait, call_pc' = [call_pc EXCEPT ![t] = cp],
         NEW cb, callbacks' = [callbacks EXCEPT ![t] = cb],
         t \notin endpoints => cp = "finish",
         cb = IF cp = "finish" /\ t \in endpoints THEN 1 ELSE 0,
         Failing(t) => cp \in {"flush", "callback", "finish"}
  PROVE  /\ UNCHANGED <<todo_list_, phase, created, batch, errors>>
         /\ closed_ => closed_'
         /\ Moves(t, "run", cp, cb)
<1>1. /\ UNCHANGED <<todo_list_, phase, created, batch, errors, on_cpu, context_list_>>
      /\ closed_ => closed_'
  BY DEF UThreadPollReturns, Close, vars, runtimeVars, runVars
<1>2. task_pc \in [Tasks -> TaskPC]
  BY DEF CInv, EInv, TypeOK
<1>3. task_pc' = [task_pc EXCEPT ![t] = "run"]
  <2>1. CASE UThreadPollReturns(t)
    BY <2>1 DEF UThreadPollReturns
  <2>2. CASE task_pc[t] = "run" /\ (Close(t) \/ UNCHANGED vars)
    <3>1. task_pc' = task_pc
      BY <2>2 DEF Close, vars, taskVars
    <3> QED
      BY <1>2, <2>2, <3>1
  <2> QED
    BY <2>1, <2>2
<1>4. InPlace(t, "run", cp, cb)
  BY DEF InPlace
<1> QED
  BY <1>1, <1>3, <1>4 DEF Moves

\* A step of a call is one move of that call, and touches nothing of another.  A
\* call that fails leaves the responses alone, unless it has the header of its
\* answer and reads the rest.
LEMMA CallMoves ==
  ASSUME CInv, NEW t \in Tasks, CallStep(t)
  PROVE  /\ OnCpu(t)
         /\ UNCHANGED <<todo_list_, phase, created, batch, errors, flag, waited_events, endpoints>>
         /\ closed_ => closed_'
         /\ \E tp \in {"run", "poll", "done"}, cp \in CallPC, cb \in 0..1 : Moves(t, tp, cp, cb)
         /\ Failing(t) /\ call_pc[t] # "receiving_rest" => response' = response
<1> USE DEF CInv, CallsOK
<1>1. /\ task_pc \in [Tasks -> TaskPC] /\ call_pc \in [Tasks -> CallPC]
      /\ callbacks \in [Tasks -> 0..1]
      /\ InPlace(t, task_pc[t], call_pc[t], callbacks[t])
  BY DEF EInv, TypeOK, CallTypeOK, PlaceInv
<1>2. /\ on_cpu > 0 => on_cpu \in Slots /\ current_uthread_ = on_cpu
      /\ 0 \in 0..1
  BY DEF EInv, TypeOK, RuntimeTypeOK, Slots
<1>3. CASE StartCall(t)
  BY <1>1, <1>3 DEF StartCall, Start, callVars, runtimeVars, runVars, Moves, InPlace, Failing,
     CallPC, AtWait
<1>4. CASE CallReturns(t)
  BY <1>1, <1>4 DEF CallReturns, Finish, UThreadDoneCallback, callVars, runVars, Moves, InPlace,
     AtWait
<1>5. CASE Callback(t)
  <2>1. /\ OnCpu(t) /\ task_pc[t] = "run" /\ call_pc[t] = "callback"
        /\ Close(t) \/ UNCHANGED vars
        /\ call_pc' = [call_pc EXCEPT ![t] = "finish"]
        /\ callbacks' = [callbacks EXCEPT ![t] = callbacks[t] + 1]
        /\ UNCHANGED <<flag, waited_events, endpoints, response>>
    BY <1>5 DEF Callback, CalledBack, OnCpuAt
  <2>2. t \in endpoints /\ callbacks[t] + 1 = 1 /\ "finish" \in CallPC \ AtWait
    BY <1>1, <2>1 DEF InPlace, CallPC, AtWait
  <2>3. /\ UNCHANGED <<todo_list_, phase, created, batch, errors>>
        /\ closed_ => closed_'
        /\ Moves(t, "run", "finish", 1)
    BY <2>1, <2>2, RunMove
  <2> QED
    BY <2>1, <2>2, <2>3
<1>6. ASSUME NEW at \in AtWait, Waits(t, at), NEW from \in {"open", "send", "recv", "rest", "flush"},
             OnCpuAt(t, from), t \in endpoints, from = "flush" => at = "flushing"
      PROVE  /\ OnCpu(t)
             /\ UNCHANGED <<todo_list_, phase, created, batch, errors, flag, waited_events,
                            endpoints, closed_, response>>
             /\ Moves(t, "poll", at, 0)
  <2>1. /\ OnCpu(t) /\ task_pc[t] = "run" /\ call_pc[t] = from /\ on_cpu > 0
        /\ task_pc' = [task_pc EXCEPT ![t] = "poll"]
        /\ Yield
        /\ UNCHANGED <<todo_list_, phase, created, batch, errors, closed_>>
        /\ call_pc' = [call_pc EXCEPT ![t] = at]
        /\ UNCHANGED <<flag, waited_events, endpoints, callbacks, response>>
    BY <1>6 DEF OnCpuAt, OnCpu, Waits, UThreadPoll, runVars
  <2>2. on_cpu' = 0
    BY <1>2, <2>1 DEF Yield, Slots
  <2>3. InPlace(t, "poll", at, 0)
    BY <1>6 DEF InPlace, AtWait
  <2>4. callbacks' = [callbacks EXCEPT ![t] = 0]
    BY <1>1, <2>1 DEF InPlace
  <2>5. Failing(t) => at = "flushing"
    BY <1>6, <2>1 DEF Failing
  <2> QED
    BY <2>1, <2>2, <2>3, <2>4, <2>5 DEF Moves
<1>7. ASSUME NEW cp \in CallPC \ AtWait, call_pc' = [call_pc EXCEPT ![t] = cp],
             UNCHANGED <<flag, waited_events, endpoints, callbacks>>,
             OnCpu(t), call_pc[t] # "finish",
             UThreadPollReturns(t) \/ (task_pc[t] = "run" /\ UNCHANGED vars),
             cp = "finish" <=> t \notin endpoints,
             Failing(t) => cp \in {"flush", "callback", "finish"}
      PROVE  /\ OnCpu(t)
             /\ UNCHANGED <<todo_list_, phase, created, batch, errors, flag, waited_events, endpoints>>
             /\ closed_ => closed_'
             /\ Moves(t, "run", cp, 0)
  <2>1. callbacks' = [callbacks EXCEPT ![t] = 0]
    BY <1>1, <1>7 DEF InPlace
  <2> QED
    BY <1>7, <2>1, RunMove
<1>8. CASE NoEndpoint(t)
  <2>1. /\ OnCpu(t) /\ task_pc[t] = "run" /\ call_pc[t] = "open" /\ t \notin endpoints
        /\ UNCHANGED vars /\ call_pc' = [call_pc EXCEPT ![t] = "finish"]
        /\ UNCHANGED <<flag, waited_events, endpoints, callbacks, response>>
    BY <1>8 DEF NoEndpoint, OnCpuAt, Goes, MovesTo
  <2>2. "finish" \in CallPC \ AtWait
    BY DEF CallPC, AtWait
  <2>3. /\ UNCHANGED <<todo_list_, phase, created, batch, errors>>
        /\ closed_ => closed_'
        /\ Moves(t, "run", "finish", 0)
    BY <1>7, <2>1, <2>2
  <2>4. ~Failing(t)
    BY <2>1 DEF Failing
  <2> QED
    BY <1>2, <2>1, <2>2, <2>3, <2>4
<1>9. CASE Open(t) \/ Send(t) \/ Recv(t) \/ RecvRest(t) \/ Flush(t)
  <2>1. PICK from \in {"open", "send", "recv", "rest", "flush"} :
          /\ OnCpuAt(t, from) /\ (from = "open" => t \in endpoints)
          /\ \/ \E at \in AtWait : Waits(t, at) /\ (from = "flush" => at = "flushing")
             \/ /\ UNCHANGED vars
                /\ UNCHANGED <<flag, waited_events, endpoints, callbacks>>
                /\ \E cp \in {"send", "recv", "rest", "flush", "callback"} :
                     /\ call_pc' = [call_pc EXCEPT ![t] = cp]
                     /\ from = "flush" => cp = "callback" /\ response' = response
    BY <1>9 DEF Open, Send, Recv, RecvRest, Flush, AtWait, Goes, MovesTo, SyscallFails, SendFails,
       Receives, RestEnds, PeerFails, Answered, Result
  <2>2. t \in endpoints
    BY <1>1, <2>1 DEF InPlace, OnCpuAt
  <2>3. CASE \E at \in AtWait : Waits(t, at) /\ (from = "flush" => at = "flushing")
    <3>1. PICK at \in AtWait : Waits(t, at) /\ (from = "flush" => at = "flushing")
      BY <2>3
    <3>2. at \in CallPC
      BY DEF CallPC, AtWait
    <3> QED
      BY <1>6, <2>1, <2>2, <3>1, <3>2
  <2>4. CASE /\ UNCHANGED vars
             /\ UNCHANGED <<flag, waited_events, endpoints, callbacks>>
             /\ \E cp \in {"send", "recv", "rest", "flush", "callback"} :
                  /\ call_pc' = [call_pc EXCEPT ![t] = cp]
                  /\ from = "flush" => cp = "callback" /\ response' = response
    <3>1. PICK cp \in {"send", "recv", "rest", "flush", "callback"} :
            /\ call_pc' = [call_pc EXCEPT ![t] = cp]
            /\ from = "flush" => cp = "callback" /\ response' = response
      BY <2>4
    <3>2. cp \in CallPC \ AtWait /\ cp # "finish"
      BY DEF CallPC, AtWait
    <3>3. OnCpu(t) /\ task_pc[t] = "run" /\ call_pc[t] = from
      BY <2>1 DEF OnCpuAt
    <3>4. Failing(t) => from = "flush"
      BY <3>3 DEF Failing
    <3>5. /\ UNCHANGED <<todo_list_, phase, created, batch, errors>>
          /\ closed_ => closed_'
          /\ Moves(t, "run", cp, 0)
      BY <1>7, <2>2, <2>4, <3>1, <3>2, <3>3, <3>4
    <3> QED
      BY <1>2, <2>4, <3>1, <3>2, <3>3, <3>4, <3>5
  <2> QED
    BY <2>1, <2>3, <2>4
<1>10. CASE Connected(t) \/ Sent(t) \/ Received(t) \/ ReceivedRest(t) \/ Flushed(t)
  <2>1. /\ UThreadPollReturns(t) /\ OnCpu(t) /\ task_pc[t] = "poll"
        /\ call_pc[t] \in AtWait
        /\ UNCHANGED <<flag, waited_events, endpoints, callbacks>>
        /\ \E cp \in {"send", "recv", "rest", "flush", "callback"} :
             /\ call_pc' = [call_pc EXCEPT ![t] = cp]
             /\ ~PollReady(t) =>
                  /\ cp \in {"flush", "callback"}
                  /\ call_pc[t] # "receiving_rest" => response' = response
    BY <1>10 DEF Connected, Sent, Received, ReceivedRest, Flushed, UThreadPollReturns, AtWait,
       Goes, MovesTo, SyscallFails, SendFails, SendsMore, Receives, RestEnds, PeerFails, Answered,
       Result
  <2>2. PICK cp \in {"send", "recv", "rest", "flush", "callback"} :
          /\ call_pc' = [call_pc EXCEPT ![t] = cp]
          /\ ~PollReady(t) => /\ cp \in {"flush", "callback"}
                              /\ call_pc[t] # "receiving_rest" => response' = response
    BY <2>1
  <2>3. cp \in CallPC \ AtWait /\ cp # "finish"
    BY DEF CallPC, AtWait
  <2>4. t \in endpoints /\ call_pc[t] # "finish"
    BY <1>1, <2>1 DEF InPlace, AtWait
  <2>5. Failing(t) => /\ cp \in {"flush", "callback", "finish"}
                      /\ call_pc[t] # "receiving_rest" => response' = response
    <3>1. Failing(t) => ~PollReady(t)
      BY <2>1 DEF Failing, PollReady
    <3> QED
      BY <2>2, <3>1
  <2>6. /\ UNCHANGED <<todo_list_, phase, created, batch, errors>>
        /\ closed_ => closed_'
        /\ Moves(t, "run", cp, 0)
    <3>1. call_pc' = [call_pc EXCEPT ![t] = cp] /\ (cp = "finish" <=> t \notin endpoints)
      BY <2>2, <2>3, <2>4
    <3>2. /\ UNCHANGED <<flag, waited_events, endpoints, callbacks>>
          /\ OnCpu(t) /\ UThreadPollReturns(t)
      BY <2>1
    <3>3. callbacks' = [callbacks EXCEPT ![t] = 0]
      BY <1>1, <2>4, <3>2 DEF InPlace
    <3> HIDE DEF CInv, CallsOK
    <3> QED
      BY <2>3, <2>4, <2>5, <3>1, <3>2, <3>3, RunMove
  <2> QED
    BY <1>2, <2>1, <2>2, <2>3, <2>5, <2>6
<1> QED
  BY <1>3, <1>4, <1>5, <1>8, <1>9, <1>10 DEF CallStep

\* The result of call t, and of no other, may have changed, and tells its cause.
Told(t) == \E why \in Causes, ret \in {-303, -202, -1, 0} :
  /\ cause' = [cause EXCEPT ![t] = why]
  /\ call_ret' = [call_ret EXCEPT ![t] = ret]
  /\ Tells(ret, why, closed_)

\* How a step comes to be Told: it gives a result, or none.
LEMMA ResultIsTold ==
  ASSUME NEW t \in Tasks, NEW why \in Causes, NEW ret \in {-303, -202, -1, 0},
         Result(t, ret, why), Tells(ret, why, closed_)
  PROVE  Told(t)
BY DEF Result, Told

\* A step that ends no call and tells no cause.
LEMMA NoResultIsTold ==
  ASSUME CInv, NEW t \in Tasks, UNCHANGED <<cause, call_ret>>
  PROVE  Told(t)
<1>1. /\ cause' = [cause EXCEPT ![t] = cause[t]]
      /\ call_ret' = [call_ret EXCEPT ![t] = call_ret[t]]
      /\ cause[t] \in Causes /\ call_ret[t] \in {-303, -202, -1, 0}
  BY DEF CInv, CallTypeOK
<1>2. Tells(call_ret[t], cause[t], closed_)
  BY DEF CInv, ResultTellsTheCause, Tells
<1> QED
  BY <1>1, <1>2 DEF Told

\* A failure to send: a result, or the flush is still to come.
LEMMA SendFailsTold ==
  ASSUME CInv, NEW t \in Tasks, NEW error \in {"zero", "timedout", "other"}, NEW why \in Causes,
         SendFails(t, error, why), Tells(LastError(error), why, closed_)
  PROVE  errno' \in {"zero", "timedout", "other"} /\ Told(t)
<1>1. errno' = error
  BY DEF SendFails
<1>2. LastError(error) \in {-303, -202, -1, 0}
  BY DEF LastError
<1>3. CASE Result(t, LastError(error), why)
  BY <1>1, <1>2, <1>3, ResultIsTold
<1>4. CASE UNCHANGED <<cause, call_ret>>
  BY <1>1, <1>4, NoResultIsTold
<1> QED
  BY <1>3, <1>4 DEF SendFails, MovesTo

\* The ways a call ends that are not a failure of its wait.
LEMMA EndsTold ==
  ASSUME CInv, NEW t \in Tasks,
         \/ SyscallFails(t) \/ PeerFails(t) \/ UNCHANGED <<errno, cause, call_ret>>
         \/ Answered(t) /\ errno' \in {errno, "zero", "timedout", "other"}
  PROVE  errno' \in {"zero", "timedout", "other"} /\ Told(t)
<1>1. errno \in {"zero", "timedout", "other"} /\ LastError(errno) \in {-303, -202, -1, 0}
  BY DEF CInv, CallTypeOK, LastError
<1>2. {"syscall", "peer", "answer"} \subseteq Causes
  BY DEF Causes
<1>3. CASE SyscallFails(t)
  BY <1>2, <1>3, ResultIsTold DEF SyscallFails, Tells
<1>4. CASE PeerFails(t)
  BY <1>1, <1>2, <1>4, ResultIsTold DEF PeerFails, Tells
<1>5. CASE Answered(t) /\ errno' \in {errno, "zero", "timedout", "other"}
  <2>1. PICK ret \in {-303, -202, -1, 0} : Result(t, ret, "answer")
    BY <1>5 DEF Answered, Results
  <2>2. Tells(ret, "answer", closed_)
    BY DEF Tells
  <2> QED
    BY <1>1, <1>2, <1>5, <2>1, <2>2, ResultIsTold
<1>6. CASE UNCHANGED <<errno, cause, call_ret>>
  BY <1>1, <1>6, NoResultIsTold
<1> QED
  BY <1>3, <1>4, <1>5, <1>6

\* Only the call that makes the step gets a result, and one that tells its cause.
LEMMA CallResult ==
  ASSUME CInv, NEW t \in Tasks, CallStep(t)
  PROVE  /\ CallTypeOK' /\ ResultTellsTheCause'
<1> USE DEF CInv, CallsOK
<1>1. PICK tp \in {"run", "poll", "done"}, cp \in CallPC, cb \in 0..1 : Moves(t, tp, cp, cb)
  BY CallMoves
<1>2. /\ call_pc' \in [Tasks -> CallPC] /\ callbacks' \in [Tasks -> 0..1]
      /\ UNCHANGED <<flag, waited_events>>
      /\ closed_ => closed_'
  BY <1>1, CallMoves DEF Moves, CallTypeOK
<1>3. /\ errno' \in {"zero", "timedout", "other"}
      /\ Told(t)
  <2>1. /\ waited_events[t] \in {"none", "ready", "hup", "error", "close", "timeout"}
        /\ waited_events[t] \in Causes
        /\ waited_events[t] = "close" => closed_
    BY DEF CallTypeOK, FailInv, Causes
  <2>2. /\ LastError(errno) \in {-303, -202, -1, 0} /\ "other" \in {"zero", "timedout", "other"}
        /\ {"syscall", "open", "flush"} \subseteq Causes
        /\ \A why \in {"flush", "syscall", "open"} : Tells(-1, why, closed_)
        /\ \A ret \in {-303, -202, -1} : Tells(ret, "flush", closed_)
        /\ LastError("other") = -1
    BY DEF LastError, CallTypeOK, Causes, Tells
  <2>3. ASSUME ~PollReady(t)
        PROVE  /\ PollErrno(waited_events[t]) \in {"zero", "timedout", "other"}
               /\ Tells(LastError(PollErrno(waited_events[t])), waited_events[t], closed_)
    <3>1. CASE waited_events[t] = "timeout"
      BY <3>1 DEF PollErrno, LastError, Tells
    <3>2. CASE waited_events[t] = "close"
      BY <2>1, <3>2 DEF PollErrno, LastError, Tells
    <3>3. CASE waited_events[t] \notin {"timeout", "close"}
      BY <3>3 DEF PollErrno, LastError, Tells
    <3> QED
      BY <3>1, <3>2, <3>3
  <2>4. CASE \/ StartCall(t) \/ NoEndpoint(t) \/ Callback(t) \/ CallReturns(t)
    BY <2>4, EndsTold DEF StartCall, NoEndpoint, Callback, CallReturns, Goes, MovesTo,
       CalledBack, callVars
  <2>5. ASSUME NEW at, Waits(t, at) PROVE errno' \in {"zero", "timedout", "other"} /\ Told(t)
    BY <2>5, NoResultIsTold DEF Waits
  <2>6. CASE Open(t)
    BY <2>5, <2>6, EndsTold DEF Open, Goes, MovesTo
  <2>7. CASE Send(t)
    BY <2>2, <2>5, <2>7, EndsTold, SendFailsTold DEF Send, Goes, MovesTo
  <2>8. CASE Recv(t)
    BY <2>5, <2>8, EndsTold DEF Recv, Receives, Goes, MovesTo
  <2>9. ASSUME NEW e \in {"zero", "timedout", "other"}, errno' = e,
               Result(t, LastError(e), "flush")
        PROVE  errno' \in {"zero", "timedout", "other"} /\ Told(t)
    <3>1. LastError(e) \in {-303, -202, -1}
      BY DEF LastError
    <3> QED
      BY <2>2, <2>9, <3>1, ResultIsTold
  <2>10. CASE Flush(t)
    BY <2>5, <2>9, <2>10, EndsTold DEF Flush, CallTypeOK
  <2>11. CASE Connected(t)
    <3>1. CASE PollReady(t)
      BY <2>11, <3>1, EndsTold DEF Connected, Goes, MovesTo
    <3>2. CASE ~PollReady(t)
      <4>1. Result(t, -1, "open") /\ errno' = PollErrno(waited_events[t])
        BY <2>11, <3>2 DEF Connected
      <4> QED
        BY <2>2, <2>3, <3>2, <4>1, ResultIsTold
    <3> QED
      BY <3>1, <3>2
  <2>12. CASE Sent(t)
    <3>1. CASE PollReady(t)
      BY <2>2, <2>12, <3>1, EndsTold, SendFailsTold DEF Sent, Goes, MovesTo, SendsMore
    <3>2. CASE ~PollReady(t)
      BY <2>1, <2>3, <2>12, <3>2, SendFailsTold DEF Sent
    <3> QED
      BY <3>1, <3>2
  <2>13. CASE Received(t)
    <3>1. CASE PollReady(t)
      BY <2>13, <3>1, EndsTold DEF Received, Receives, Goes, MovesTo
    <3>2. CASE ~PollReady(t)
      <4>1. PICK e \in {"zero", "timedout", "other"} :
              e = PollErrno(waited_events[t]) /\ errno' = e
        BY <2>3, <2>13, <3>2 DEF Received
      <4>2. Result(t, LastError(e), waited_events[t]) /\ LastError(e) \in {-303, -202, -1, 0}
        BY <2>13, <3>2, <4>1 DEF Received, LastError
      <4> QED
        BY <2>1, <2>3, <3>2, <4>1, <4>2, ResultIsTold
    <3> QED
      BY <3>1, <3>2
  <2>14. CASE Flushed(t)
    <3>1. \/ SendsMore(t, "flush") \/ SyscallFails(t)
          \/ \E e \in {"zero", "timedout", "other"} : errno' = e /\ Result(t, LastError(e), "flush")
      BY <2>3, <2>14 DEF Flushed, CallTypeOK
    <3> QED
      BY <2>9, <3>1, EndsTold DEF SendsMore, MovesTo
  <2>15. CASE RecvRest(t)
    BY <2>5, <2>15, EndsTold DEF RecvRest, RestEnds
  <2>16. CASE ReceivedRest(t)
    BY <2>3, <2>16, EndsTold DEF ReceivedRest, RestEnds, Goes, MovesTo
  <2> QED
    BY <2>4, <2>6, <2>7, <2>8, <2>10, <2>11, <2>12, <2>13, <2>14, <2>15, <2>16 DEF CallStep
<1>4. CallTypeOK'
  BY <1>2, <1>3 DEF CallTypeOK, Told
<1>5. ResultTellsTheCause'
  BY <1>2, <1>3 DEF ResultTellsTheCause, Told, Tells, CallTypeOK
<1> QED
  BY <1>4, <1>5

\* A step of a call keeps the invariant.
LEMMA CallStepOK ==
  ASSUME CInv, NEW t \in Tasks, CallStep(t)
  PROVE  CallsOK'
<1> USE DEF CInv, CallsOK
<1>1. PICK tp \in {"run", "poll", "done"}, cp \in CallPC, cb \in 0..1 : Moves(t, tp, cp, cb)
  BY CallMoves
<1>2. /\ OnCpu(t) /\ on_cpu > 0
      /\ UNCHANGED <<todo_list_, phase, created, batch, errors, flag, waited_events, endpoints>>
      /\ closed_ => closed_'
  BY CallMoves DEF OnCpu
<1>3. CallTypeOK' /\ ResultTellsTheCause'
  BY CallResult
<1>4. /\ task_pc'[t] = tp /\ call_pc'[t] = cp /\ callbacks'[t] = cb
      /\ \A u \in Tasks \ {t} : /\ task_pc'[u] = task_pc[u] /\ call_pc'[u] = call_pc[u]
                                /\ callbacks'[u] = callbacks[u]
                                /\ ~OnCpu(u) /\ ~OnCpu(u)'
      /\ tp = "run" => OnCpu(t)'
      /\ OnCpu(t)' => tp = "run"
  BY <1>1, <1>2 DEF Moves, OnCpu, EInv, TypeOK, CallTypeOK
<1>5. PlaceInv'
  BY <1>1, <1>2, <1>4 DEF PlaceInv, InPlace, Moves
<1>6. created = 0 /\ phase # "returned"
  BY <1>2 DEF CpuInv, EInv, TypeOK, PhaseInv
<1>7. CpuInv'
  BY <1>2, <1>4, <1>6 DEF CpuInv
<1>8. FailInv'
  <2>1. phase \in {"resume_all", "timeouts"} =>
          /\ OnCpu(t)' => Failing(t)'
          /\ Over(t)' \/ OnCpu(t)' \/ cp = "flushing"
    BY <1>1, <1>2, <1>4 DEF FailInv, Moves, Failing, Over
  <2>2. phase = "resume_all" => \A u \in Tasks \ {t} :
          Over(u)' \/ u \in batch' \/ OnCpu(u)' \/ call_pc'[u] = "flushing"
    BY <1>2, <1>4 DEF FailInv, Over
  <2> QED
    BY <1>2, <1>4, <1>6, <2>1, <2>2 DEF FailInv
<1> QED
  BY <1>3, <1>5, <1>7, <1>8

-----------------------------------------------------------------------------
(* The invariant *)

\* CInv holds in the first states.
LEMMA InitCInv == CallsInit => CInv
<1> SUFFICES ASSUME CallsInit PROVE CInv
  OBVIOUS
<1>1. EInv
  BY InitEInv DEF CallsInit
<1>2. /\ call_pc = [t \in Tasks |-> "open"] /\ waited_events = [t \in Tasks |-> "none"]
      /\ flag = "none" /\ errno = "zero" /\ cause = [t \in Tasks |-> "none"]
      /\ call_ret = [t \in Tasks |-> -1] /\ callbacks = [t \in Tasks |-> 0]
  BY DEF CallsInit
<1>3. /\ phase = "consume0" /\ created = 0 /\ closed_ = FALSE
      /\ \A t \in Tasks : task_pc[t] \in {"todo", "none"}
  BY DEF CallsInit, Init
<1>4. CallTypeOK
  BY <1>2 DEF CallTypeOK, CallPC, Causes
<1>5. PlaceInv
  BY <1>2, <1>3 DEF PlaceInv, InPlace, AtWait
<1>6. CpuInv
  <2>1. ASSUME NEW t \in Tasks, task_pc[t] = "todo"
        PROVE  \E k \in 1..Len(todo_list_) : todo_list_[k] = t
    <3>1. PICK initial \in {s \in SUBSET Tasks : s # {} /\ IsFiniteSet(s)} :
            /\ todo_list_ \in {q \in [1..Cardinality(initial) -> initial] :
                                 \A j, k \in DOMAIN q : q[j] = q[k] => j = k}
            /\ task_pc = [u \in Tasks |-> IF u \in initial THEN "todo" ELSE "none"]
      BY DEF CallsInit, Init
    <3> DEFINE n == Cardinality(initial)
    <3>2. n \in Nat /\ IsFiniteSet(1..n) /\ Cardinality(1..n) = n
      BY FS_CardinalityType, FS_Interval
    <3>3. todo_list_ \in [1..n -> initial] /\ \A j, k \in 1..n : todo_list_[j] = todo_list_[k] => j = k
      BY <3>1
    <3>4. todo_list_ \in Injection(1..n, initial)
      BY <3>3 DEF Injection, IsInjective
    <3>5. todo_list_ \in Surjection(1..n, initial)
      BY <3>1, <3>2, <3>4, FS_Injection
    <3>6. t \in initial
      BY <2>1, <3>1
    <3>7. PICK k \in 1..n : todo_list_[k] = t
      BY <3>5, <3>6 DEF Surjection
    <3>8. todo_list_ \in Seq(initial) /\ Len(todo_list_) = n
      BY <3>2, <3>3
    <3> QED
      BY <3>7, <3>8
  <2> QED
    BY <1>3, <2>1 DEF CpuInv
<1>7. FailInv /\ ResultTellsTheCause
  BY <1>2, <1>3 DEF FailInv, ResultTellsTheCause
<1> QED
  BY <1>1, <1>4, <1>5, <1>6, <1>7 DEF CInv

\* Every step keeps CInv.
LEMMA StepCInv ==
  ASSUME CInv, [CallsNext]_<<vars, callVars>>
  PROVE  CInv'
<1>1. EInv'
  <2>1. CASE [Next]_vars
    BY <2>1, StepEInv DEF CInv
  <2>2. CASE MultiCallAgain
    BY <2>2, AgainEInv DEF CInv, CpuInv, MultiCallAgain
  <2> QED
    BY <2>1, <2>2, SchedulerView
<1> SUFFICES CallsOK'
  BY <1>1 DEF CInv, CallsOK
<1>2. CASE SchedulerGoesOn \/ ResumesAll
  <2>1. CASE CreateTask /\ UNCHANGED callVars
    BY <2>1, CreateCall
  <2>2. CASE ResumeCreated /\ UNCHANGED callVars
    BY <2>2, ResumeCreatedCall
  <2>3. CASE \/ UNCHANGED callVars /\ (ConsumeDone \/ TestAllDone \/ EpollWait \/ EventsDone
                                          \/ ResumeAllDone \/ TimeoutsDone)
             \/ ResumesAll
    BY <2>3, PhaseOfCalls
  <2> QED
    BY <1>2, <2>1, <2>2, <2>3 DEF SchedulerGoesOn
<1>3. ASSUME NEW s \in Tasks, ResumeWaiter(s) \/ ResumeTimedOut(s) PROVE CallsOK'
  BY <1>3, ResumeCall
<1>4. ASSUME NEW t \in Tasks, CallStep(t) PROVE CallsOK'
  BY <1>4, CallStepOK
<1>5. CASE UNCHANGED <<vars, callVars>>
  <2>1. /\ UNCHANGED <<context_list_, on_cpu, todo_list_, task_pc, phase, created, batch, errors,
                       closed_>>
        /\ UNCHANGED <<endpoints, call_pc, waited_events, flag, errno, cause, call_ret, callbacks>>
    BY <1>5 DEF vars, runtimeVars, taskVars, runVars, callVars
  <2>2. CallTypeOK' /\ PlaceInv' /\ ResultTellsTheCause'
    BY <2>1 DEF CInv, CallTypeOK, PlaceInv, InPlace, ResultTellsTheCause
  <2>3. CpuInv'
    BY <2>1 DEF CInv, CpuInv, OnCpu
  <2>4. FailInv'
    BY <2>1 DEF CInv, FailInv, OnCpu, Failing, Over
  <2> QED
    BY <2>2, <2>3, <2>4 DEF CallsOK
<1>6. CASE MultiCallAgain
  BY <1>6, AgainCall
<1> QED
  BY <1>2, <1>3, <1>4, <1>5, <1>6 DEF CallsNext, SchedulerSteps

\* CInv holds in every reachable state of the calls.
LEMMA CallsInvariance == CallsSpec => []CInv
  BY InitCInv, StepCInv, PTL DEF CallsSpec

-----------------------------------------------------------------------------
(* Theorems *)

\* When MultiCall or PhxBatchEcho returns, every call has ended with exactly
\* one callback; only ResumeAll may leave one behind, in its second flush.
THEOREM EveryCallIsCalledBack == CallsSpec => []CalledBackOnce
<1>1. CInv => CalledBackOnce
  BY DEF CInv, FailInv, PlaceInv, InPlace, Over, CalledBackOnce
<1> QED
  BY <1>1, CallsInvariance, PTL

\* Although all calls share errno, a call that a timeout or Close has failed says
\* so, and no other does, but one whose result comes from an answer, from a peer
\* that broke the protocol or from the second flush.
THEOREM ErrnoTellsTheCause == CallsSpec => []ResultTellsTheCause
<1>1. CInv => ResultTellsTheCause
  BY DEF CInv
<1> QED
  BY <1>1, CallsInvariance, PTL

\* The calls that Close or a timer ends do not touch the response message they
\* share with a good answer, but for one that was reading the rest of an answer
\* without Content-Length.
THEOREM TheEchoIsKept == CallsSpec => EchoAnswerKept
<1>1. CInv /\ [CallsNext]_<<vars, callVars>> =>
        [batch_echo /\ closed_ /\ response' # response =>
           \/ phase \in {"consume0", "events"}
           \/ \E t \in Tasks : OnCpu(t) /\ call_pc[t] = "receiving_rest"]_<<vars, callVars>>
  <2> SUFFICES ASSUME CInv, [CallsNext]_<<vars, callVars>>, response' # response,
                      ~\E t \in Tasks : OnCpu(t) /\ call_pc[t] = "receiving_rest"
               PROVE  phase \in {"consume0", "events"}
    OBVIOUS
  <2>1. PICK t \in Tasks : CallStep(t)
    BY DEF CallsNext, SchedulerSteps, SchedulerGoesOn, ResumesAll, ResumeWaiter, ResumeTimedOut,
       MultiCallAgain, callVars
  <2>2. OnCpu(t) /\ ~Failing(t)
    BY <2>1, CallMoves
  <2>3. on_cpu > 0 /\ phase \notin {"resume_all", "timeouts"}
    BY <2>2 DEF OnCpu, CInv, FailInv
  <2> QED
    BY <2>3 DEF CInv, EInv, TypeOK, Phases, PhaseInv, CpuInv
<1> QED
  BY <1>1, CallsInvariance, PTL DEF CallsSpec, EchoAnswerKept
=============================================================================
