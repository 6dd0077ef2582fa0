----------------------------- MODULE SaltProofs -----------------------------
(***************************************************************************)
(* A salt always ends inside its field, whatever numbers are drawn.        *)
(***************************************************************************)
EXTENDS Salt, TLAPS

\* There is a print, and the last one ends inside the field.
LEMMA LastPrint ==
    /\ iters \in Nat \ {0}
    /\ (iters + 1) * INT_SIZE <= SALT_LEN
<1>1. SALT_LEN \div INT_SIZE \in Nat /\ (SALT_LEN \div INT_SIZE) * INT_SIZE <= SALT_LEN
  BY SaltAssumption
<1>2. SALT_LEN \div INT_SIZE >= 2
  BY SaltAssumption
<1> QED
  BY <1>1, <1>2 DEF iters

\* gen_salt (crypto.c:24-34) leaves a terminator within the field of the account
\* record, though its own one is written a byte behind it (crypto.c:32) and the
\* record is not cleared before: strcat in gen_hash never reads past the salt.
THEOREM SaltTerminated ==
    ASSUME NEW digits \in DigitCounts
    PROVE  Terminators(digits) # {}
<1> DEFINE i == iters - 1
           p == Final(digits, i)
<1>1. iters \in Nat \ {0} /\ INT_SIZE \in Nat \ {0} /\ SALT_LEN \in Nat
  BY LastPrint, SaltAssumption
<1>2. i \in Prints /\ i \in Nat
  BY <1>1 DEF Prints
<1>3. digits[i] \in 1 .. 2 * INT_SIZE
  BY <1>2 DEF DigitCounts
<1>4. i * INT_SIZE + 2 * INT_SIZE = (iters + 1) * INT_SIZE
  BY <1>1
<1>5. i * INT_SIZE \in Nat
  BY <1>1, <1>2
<1>6. p \in 0 .. SALT_LEN
  BY <1>1, <1>3, <1>4, <1>5, LastPrint DEF Final
<1>7. p \in First(i) .. Final(digits, i)
  BY <1>1, <1>3, <1>5 DEF First, Final
<1>8. \A j \in Prints : ~(j > i)
  BY <1>1 DEF Prints
<1>9. IsLastAt(digits, p, i)
  BY <1>7, <1>8 DEF IsLastAt
<1> QED
  BY <1>2, <1>6, <1>9 DEF Terminators

=============================================================================
