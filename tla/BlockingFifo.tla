---------------------------- MODULE BlockingFifo ----------------------------
(***************************************************************************)
(* What a ThdQueue promises to the threads that share it, with no mutex,   *)
(* no condition variable and no counter: values come out once each, in the *)
(* order they went in, and nothing comes out after the queue is closed.    *)
(* ThdQueue is shown to implement this module; HshaUnit builds on it.      *)
(***************************************************************************)
EXTENDS Sequences

CONSTANT Value          \* the values threads put into the queue

VARIABLES
  items,                \* the values in the queue, oldest first
  closed,               \* TRUE after break_out
  received              \* every value taken so far, in the order it was taken

vars == <<items, closed, received>>

Init ==
  /\ items = <<>>
  /\ closed = FALSE
  /\ received = <<>>

Put(v) ==
  /\ items' = Append(items, v)
  /\ UNCHANGED <<closed, received>>

Take ==
  /\ ~closed
  /\ items # <<>>
  /\ received' = Append(received, Head(items))
  /\ items' = Tail(items)
  /\ UNCHANGED closed

Close ==
  /\ closed' = TRUE
  /\ UNCHANGED <<items, received>>

Next ==
  \/ \E v \in Value : Put(v)
  \/ Take
  \/ Close

\* An open queue with a value in it is eventually taken from.
Spec == Init /\ [][Next]_vars /\ WF_vars(Take)
=============================================================================
