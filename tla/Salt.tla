-------------------------------- MODULE Salt --------------------------------
(***************************************************************************)
(* gen_salt of src/shared/crypto.c: random numbers are printed in          *)
(* hexadecimal one after the other into a buffer, INT_SIZE bytes apart,    *)
(* though each has up to 2 * INT_SIZE digits, so that a print overwrites   *)
(* the second half of the one before it.  sprintf ends each number with a  *)
(* terminator, which a short number leaves in the middle of the salt.      *)
(*                                                                         *)
(* Of a random number only the count of its digits matters.                *)
(***************************************************************************)
EXTENDS Integers, FiniteSetsExt

CONSTANTS
    INT_SIZE,   \* sizeof(int)
    SALT_LEN    \* length of the field, without its terminator

ASSUME SaltAssumption ==
    /\ INT_SIZE \in Nat \ {0}
    /\ SALT_LEN \in Nat /\ SALT_LEN >= 2 * INT_SIZE

iters == (SALT_LEN \div INT_SIZE) - 1
Prints == 0 .. iters - 1

\* How many digits the numbers of one salt may have.
DigitCounts == [Prints -> 1 .. 2 * INT_SIZE]

\* The positions that print i writes, its terminator last.
First(i) == i * INT_SIZE
Final(digits, i) == i * INT_SIZE + digits[i]

\* What is at position p after print i: the prints behind it do not reach p.
IsLastAt(digits, p, i) ==
    /\ p \in First(i) .. Final(digits, i)
    /\ \A j \in Prints : j > i => p \notin First(j) .. Final(digits, j)

Terminators(digits) ==
    {p \in 0 .. SALT_LEN : \E i \in Prints : IsLastAt(digits, p, i) /\ p = Final(digits, i)}

\* strlen of the salt.  The terminator that gen_salt itself writes comes one
\* byte behind the field, so it is not one of these.
salt_length(digits) == Min(Terminators(digits))

\* The salt ends with the first number that does not reach the next one.
LengthIsThatOfFirstGap(digits) ==
    \E i \in Prints :
        /\ salt_length(digits) = Final(digits, i)
        /\ i = iters - 1 \/ digits[i] < INT_SIZE
        /\ \A j \in Prints : j < i => digits[j] >= INT_SIZE

=============================================================================
