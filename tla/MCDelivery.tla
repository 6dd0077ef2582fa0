---------------------------- MODULE MCDelivery ----------------------------
(* A small server and its users for TLC. *)
EXTENDS Delivery

CONSTANTS u1, u2, u3, b1, b2

=============================================================================
