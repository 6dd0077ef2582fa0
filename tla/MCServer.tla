----------------------------- MODULE MCServer -----------------------------
(* A small server for TLC. *)
EXTENDS Server, TLC

CONSTANTS u1, u2, u3, u4, b1, b2

\* The balconies are alike, and so are the users that ask for a shutdown.
Symmetry == Permutations({b1, b2}) \cup Permutations({u1, u2})

=============================================================================
