---------------------------- MODULE MCCoprocess ----------------------------
(* Three balconies that hash at the same time, and short salts. *)
EXTENDS Coprocess, Salt

CONSTANTS c1, c2, c3

ASSUME SaltsEnd == \A digits \in DigitCounts : LengthIsThatOfFirstGap(digits)

=============================================================================
