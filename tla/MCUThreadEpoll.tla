--------------------------- MODULE MCUThreadEpoll ---------------------------
(* UThreadEpoll on a few tasks that can be exchanged for one another.        *)
EXTENDS UThreadEpoll, TLC

Symmetry == Permutations(Tasks)
=============================================================================
