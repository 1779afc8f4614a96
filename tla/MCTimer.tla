------------------------------- MODULE MCTimer -------------------------------
(* Timer on enough sockets for RemoveTimer to move an object up: six.        *)
EXTENDS Timer, TLC

Symmetry == Permutations(Sockets)
=============================================================================
