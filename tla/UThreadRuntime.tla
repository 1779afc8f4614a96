--------------------------- MODULE UThreadRuntime ---------------------------
(***************************************************************************)
(* UThreadRuntime of network/uthread_runtime.cpp: the slots of the uthreads*)
(* of one thread.  A slot whose uthread has finished is kept, with its     *)
(* stack, on a list linked through next_done_item, and given to the next   *)
(* uthread that is created.  Whoever has stored the index of a finished    *)
(* uthread holds the index of a stranger from then on.                     *)
(*                                                                         *)
(* Indices are counted from 1 here, so that the -1 of the code is 0 and an *)
(* index is a position of the sequence context_list_.  Resume and Yield    *)
(* work on a copy of the slot: the statuses RUNNING and SUSPEND they set   *)
(* are lost, and only Create and UThreadDoneCallback change a slot.        *)
(***************************************************************************)
EXTENDS Integers, Sequences, FiniteSets

CONSTANT Tasks        \* the functions, with their arguments, that uthreads run

VARIABLES
  context_list_,           \* the slots
  first_done_item_,        \* head of the list of finished slots, or 0
  current_uthread_,        \* index of the uthread that runs, or 0
  unfinished_item_count_,
  on_cpu,                  \* index of the slot whose stack the thread is on, or 0
  finished                 \* history: the finished slots, the latest first

runtimeVars == <<context_list_, first_done_item_, current_uthread_,
                 unfinished_item_count_, on_cpu, finished>>

Slot == [task : Tasks, next_done_item : Nat, status : {"suspend", "done"}]

RuntimeInit ==
  /\ context_list_ = <<>>
  /\ first_done_item_ = 0
  /\ current_uthread_ = 0
  /\ unfinished_item_count_ = 0
  /\ on_cpu = 0
  /\ finished = <<>>

-----------------------------------------------------------------------------
(* The scheduler's calls *)

\* The index Create returns.
NewIndex == IF first_done_item_ > 0 THEN first_done_item_
                                    ELSE Len(context_list_) + 1

\* Mutant of Create: next_done_item is reset before the list is advanced.
CreateLosesList(t) ==
  LET slot == [task |-> t, next_done_item |-> 0, status |-> "suspend"] IN
  /\ on_cpu = 0
  /\ IF first_done_item_ > 0
     THEN /\ context_list_' = [context_list_ EXCEPT ![first_done_item_] = slot]
          /\ first_done_item_' = 0
          /\ finished' = Tail(finished)
     ELSE /\ context_list_' = Append(context_list_, slot)
          /\ UNCHANGED <<first_done_item_, finished>>
  /\ unfinished_item_count_' = unfinished_item_count_ + 1
  /\ UNCHANGED <<current_uthread_, on_cpu>>

Create(t) ==
  LET slot == [task |-> t, next_done_item |-> 0, status |-> "suspend"] IN
  /\ on_cpu = 0
  /\ IF first_done_item_ > 0
     THEN /\ context_list_' = [context_list_ EXCEPT ![first_done_item_] = slot]
          /\ first_done_item_' = context_list_[first_done_item_].next_done_item
          /\ finished' = Tail(finished)
     ELSE /\ context_list_' = Append(context_list_, slot)
          /\ UNCHANGED <<first_done_item_, finished>>
  /\ unfinished_item_count_' = unfinished_item_count_ + 1
  /\ UNCHANGED <<current_uthread_, on_cpu>>

\* Resume returns TRUE: the uthread runs.
CanResume(index) ==
  /\ index \in 1..Len(context_list_)
  /\ context_list_[index].status = "suspend"

Resume(index) ==
  /\ on_cpu = 0
  /\ IF CanResume(index)
     THEN current_uthread_' = index /\ on_cpu' = index
     ELSE UNCHANGED <<current_uthread_, on_cpu>>
  /\ UNCHANGED <<context_list_, first_done_item_, unfinished_item_count_, finished>>

-----------------------------------------------------------------------------
(* The uthread's calls *)

\* Without a current uthread Yield returns at once.
Yield ==
  /\ on_cpu > 0
  /\ IF current_uthread_ > 0
     THEN current_uthread_' = 0 /\ on_cpu' = 0
     ELSE UNCHANGED <<current_uthread_, on_cpu>>
  /\ UNCHANGED <<context_list_, first_done_item_, unfinished_item_count_, finished>>

\* Mutant of UThreadDoneCallback: unfinished_item_count_-- is missing.
DoneUncounted ==
  LET index == current_uthread_ IN
  /\ on_cpu > 0
  /\ context_list_' = [context_list_ EXCEPT
                         ![index] = [task |-> @.task,
                                     next_done_item |-> first_done_item_,
                                     status |-> "done"]]
  /\ first_done_item_' = index
  /\ current_uthread_' = 0
  /\ finished' = <<index>> \o finished
  /\ on_cpu' = 0
  /\ UNCHANGED unfinished_item_count_

\* The function of the uthread returns; after the callback the thread is back
\* on the stack of the scheduler.
UThreadDoneCallback ==
  LET index == current_uthread_ IN
  /\ on_cpu > 0
  /\ IF index > 0
     THEN /\ context_list_' = [context_list_ EXCEPT
                                 ![index] = [task |-> @.task,
                                             next_done_item |-> first_done_item_,
                                             status |-> "done"]]
          /\ first_done_item_' = index
          /\ unfinished_item_count_' = unfinished_item_count_ - 1
          /\ current_uthread_' = 0
          /\ finished' = <<index>> \o finished
     ELSE UNCHANGED <<context_list_, first_done_item_, unfinished_item_count_,
                      current_uthread_, finished>>
  /\ on_cpu' = 0

RuntimeNext ==
  \/ \E t \in Tasks : Create(t)
  \/ \E index \in Nat : Resume(index)
  \/ Yield
  \/ UThreadDoneCallback

RuntimeSpec == RuntimeInit /\ [][RuntimeNext]_runtimeVars

-----------------------------------------------------------------------------
(* Properties *)

RuntimeTypeOK ==
  /\ context_list_ \in Seq(Slot)
  /\ first_done_item_ \in 0..Len(context_list_)
  /\ unfinished_item_count_ \in Nat
  /\ finished \in Seq(1..Len(context_list_))
  /\ on_cpu \in 0..Len(context_list_)
  /\ current_uthread_ = on_cpu
  /\ on_cpu > 0 => context_list_[on_cpu].status = "suspend"

\* The linked list is the stack of the finished slots: it has every one of them
\* once and no other.  So no slot is given away while its uthread, and its stack,
\* are in use, and none is lost.
FreeListExact ==
  /\ first_done_item_ = IF finished = <<>> THEN 0 ELSE finished[1]
  /\ \A k \in 1..Len(finished) :
       context_list_[finished[k]].next_done_item =
         IF k = Len(finished) THEN 0 ELSE finished[k + 1]
  /\ \A j, k \in 1..Len(finished) : finished[j] = finished[k] => j = k
  /\ \A index \in 1..Len(context_list_) :
       context_list_[index].status = "done" <=>
         \E k \in 1..Len(finished) : finished[k] = index

\* unfinished_item_count_ counts the uthreads that have not finished, so IsAllDone
\* says what its name says.
UnfinishedExact ==
  unfinished_item_count_ =
    Cardinality({index \in 1..Len(context_list_) :
                   context_list_[index].status = "suspend"})
=============================================================================
