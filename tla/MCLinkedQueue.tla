--------------------------- MODULE MCLinkedQueue ---------------------------
(* A small queue for TLC. *)
EXTENDS LinkedQueue, TLC

CONSTANTS b1, b2, b3, c1, c2, c3, c4

\* Neither the balconies nor the cells of the memory differ.
Symmetry == Permutations({b1, b2, b3}) \cup Permutations({c1, c2, c3, c4})

=============================================================================
