----------------------------- MODULE MCHshaUnit -----------------------------
(* Safety instance of HshaUnit: three connections, of which two may be       *)
(* served at a time, so that cells are freed and used again.                 *)
EXTENDS HshaUnit, TLC

\* Which connection, cell or worker is which makes no difference.
Symmetry == Permutations(Conns) \cup Permutations(Cells) \cup Permutations(Workers)
=============================================================================
