-------------------------- MODULE AccountsProofs --------------------------
(***************************************************************************)
(* Proofs about Accounts, for any number of balconies, accounts and        *)
(* passwords and any bounds on the balances.                               *)
(***************************************************************************)
EXTENDS Accounts, WellFoundedInduction, TLAPS

USE DEF ADMIN_ACCOUNT_ID, NoBalance, Handler

-----------------------------------------------------------------------------
(* Facts about the vocabulary.                                             *)

\* The fields of a request have the types that user_parse.c checks.
LEMMA RequestFields ==
    ASSUME NEW r \in LegalRequests
    PROVE  /\ r.orig \in AccountIds
           /\ r.password \in Passwords
           /\ r \in CreateRequests =>
                r.account_id \in AccountIds /\ r.balance \in Amounts
                    /\ r.new_password \in Passwords
           /\ r \in TransferRequests =>
                r.account_id \in AccountIds /\ r.amount \in Amounts
           /\ r.type = "OP_CREATE_ACCOUNT" => r \in CreateRequests
           /\ r.type = "OP_BALANCE" => r \in BalanceRequests
           /\ r.type = "OP_TRANSFER" => r \in TransferRequests
           /\ r.type \in {"OP_CREATE_ACCOUNT", "OP_BALANCE", "OP_TRANSFER"}
BY DEF LegalRequests, CreateRequests, BalanceRequests, TransferRequests,
       UserAccountIds

\* The smallest and the largest account of a pair are the pair.
LEMMA MinMax ==
    ASSUME NEW x \in AccountIds, NEW y \in AccountIds
    PROVE  /\ min(x, y) \in AccountIds
           /\ max(x, y) \in AccountIds
           /\ {min(x, y), max(x, y)} = {x, y}
           /\ min(x, y) = max(x, y) <=> x = y
BY DEF min, max, AccountIds

\* uint32_t arithmetic stays in uint32_t, and is exact when nothing wraps.
LEMMA Arithmetic32 ==
    ASSUME NEW x \in UInt32, NEW y \in UInt32
    PROVE  /\ Add32(x, y) \in UInt32
           /\ Sub32(x, y) \in UInt32
           /\ x + y <= UINT32_MAX => Add32(x, y) = x + y
           /\ y <= x => Sub32(x, y) = x - y
BY WidthAssumption DEF UInt32, Add32, Sub32

\* Amounts and opening balances are uint32_t values.
LEMMA AmountsFit ==
    /\ Amounts \subseteq 1 .. MAX_BALANCE
    /\ Amounts \subseteq UInt32
    /\ 0 \in UInt32
BY BalanceAssumption, WidthAssumption DEF Amounts, UInt32

\* The administrator has an account, and an empty record has the id of none.
LEMMA IdsAreNumbers ==
    /\ ADMIN_ACCOUNT_ID \in AccountIds
    /\ EMPTY_ACCOUNT_ID \notin AccountIds
BY AccountsAssumption DEF AccountIds, EMPTY_ACCOUNT_ID

\* The return codes of the handlers are codes of types.h.
LEMMA Codes ==
    {"RC_OK", "RC_LOGIN_FAIL", "RC_OP_NALLOW", "RC_ID_IN_USE", "RC_ID_NOT_FOUND",
     "RC_SAME_ID", "RC_NO_FUNDS", "RC_TOO_HIGH", "RC_OTHER"} \subseteq RetCodes
<1>1. /\ ret_code_t[1] = "RC_OK"
      /\ ret_code_t[5] = "RC_LOGIN_FAIL"
      /\ ret_code_t[6] = "RC_OP_NALLOW"
      /\ ret_code_t[7] = "RC_ID_IN_USE"
      /\ ret_code_t[8] = "RC_ID_NOT_FOUND"
      /\ ret_code_t[9] = "RC_SAME_ID"
      /\ ret_code_t[10] = "RC_NO_FUNDS"
      /\ ret_code_t[11] = "RC_TOO_HIGH"
      /\ ret_code_t[12] = "RC_OTHER"
  BY DEF ret_code_t
<1>2. QED
  BY <1>1 DEF RetCodes

-----------------------------------------------------------------------------
(* Types.                                                                  *)

\* The sets of points are what their names say.
LEMMA PcFacts ==
    /\ TransferPcs = {"lock_first", "same_id", "lock_second", "login", "validate",
                      "debit_load", "debit_store", "credit_load", "credit_store",
                      "read_balance", "unlock_second", "unlock_first"}
    /\ PcValues = CreatePcs \cup BalancePcs \cup TransferPcs \cup {"idle", "reply"}
BY DEF PcValues, CreatePcs, BalancePcs, TransferPcs

\* The types of the operands at each point of the handlers.
LEMMA Operands ==
    ASSUME TypeOK, NEW b \in Balconies
    PROVE  /\ pc[b] \in CreatePcs =>
                /\ req[b] \in LegalRequests
                /\ Orig(b) \in AccountIds /\ Target(b) \in AccountIds
                /\ req[b].balance \in Amounts /\ req[b].new_password \in Passwords
           /\ pc[b] \in BalancePcs =>
                req[b] \in LegalRequests /\ Orig(b) \in AccountIds
           /\ pc[b] \in TransferPcs =>
                /\ req[b] \in LegalRequests
                /\ Orig(b) \in AccountIds /\ Target(b) \in AccountIds
                /\ First(b) \in AccountIds /\ Second(b) \in AccountIds
                /\ {First(b), Second(b)} = {Orig(b), Target(b)}
                /\ First(b) = Second(b) <=> Orig(b) = Target(b)
                /\ Amount(b) \in Amounts /\ Amount(b) \in UInt32
<1>1. CASE pc[b] \in CreatePcs
  <2>1. req[b] \in CreateRequests /\ req[b] \in LegalRequests
    BY <1>1 DEF TypeOK, LegalRequests
  <2>2. pc[b] \notin BalancePcs /\ pc[b] \notin TransferPcs
    BY <1>1, PcFacts DEF CreatePcs, BalancePcs
  <2>3. QED
    BY <2>1, <2>2, RequestFields DEF Orig, Target
<1>2. CASE pc[b] \in BalancePcs
  <2>1. req[b] \in BalanceRequests /\ req[b] \in LegalRequests
    BY <1>2 DEF TypeOK, LegalRequests
  <2>2. pc[b] \notin CreatePcs /\ pc[b] \notin TransferPcs
    BY <1>2, PcFacts DEF CreatePcs, BalancePcs
  <2>3. QED
    BY <2>1, <2>2, RequestFields DEF Orig
<1>3. CASE pc[b] \in TransferPcs
  <2>1. req[b] \in TransferRequests /\ req[b] \in LegalRequests
    BY <1>3 DEF TypeOK, LegalRequests
  <2>2. pc[b] \notin CreatePcs /\ pc[b] \notin BalancePcs
    BY <1>3, PcFacts DEF CreatePcs, BalancePcs
  <2>3. /\ Orig(b) \in AccountIds /\ Target(b) \in AccountIds
        /\ Amount(b) \in Amounts /\ Amount(b) \in UInt32
    BY <2>1, RequestFields, AmountsFit DEF Orig, Target, Amount
  <2>4. QED
    BY <2>1, <2>2, <2>3, MinMax DEF First, Second, LockOrder
<1>4. QED
  BY <1>1, <1>2, <1>3

\* The validity checks return codes of types.h.
LEMMA CheckCodes ==
    ASSUME NEW b \in Balconies
    PROVE  /\ IsValidCreateRequest(b) \in RetCodes
           /\ IsValidBalanceRequest(b) \in RetCodes
           /\ IsValidTransferRequest(b) \in RetCodes
BY Codes DEF IsValidCreateRequest, IsValidBalanceRequest, IsValidTransferRequest

\* The types at the start.
LEMMA TypeInit == Init => TypeOK
<1>1. 0 \in UInt32 /\ Garbage \subseteq UInt32
  BY WidthAssumption, GarbageAssumption DEF UInt32
<1>2. QED
  BY <1>1, Codes, AdminAssumption
     DEF Init, TypeOK, PcValues, CreatePcs, BalancePcs, TransferPcs

\* Every step keeps the types.
LEMMA TypeNext == TypeOK /\ [Next]_vars => TypeOK'
<1> SUFFICES ASSUME TypeOK, [Next]_vars PROVE TypeOK'
  OBVIOUS
<1> USE DEF Goto, database
<1>1. ASSUME NEW b \in Balconies, NEW r \in Requests, Begin(b, r) PROVE TypeOK'
  <2>1. r \in LegalRequests
    BY RequestsAssumption
  <2>2. QED
    BY <1>1, <2>1, RequestFields, PcFacts DEF TypeOK, Begin, CreatePcs, BalancePcs
<1>2. ASSUME NEW b \in Balconies, CreateLock(b) PROVE TypeOK'
  BY <1>2, PcFacts, Operands
     DEF TypeOK, CreateLock, CreatePcs, BalancePcs, Lock
<1>3. ASSUME NEW b \in Balconies, CreateCheck(b) PROVE TypeOK'
  BY <1>3, PcFacts, Operands, Codes, CheckCodes
     DEF TypeOK, CreateCheck, CreatePcs, BalancePcs, Return
<1>4. ASSUME NEW b \in Balconies, CreateHash(b) PROVE TypeOK'
  BY <1>4, PcFacts, Operands
     DEF TypeOK, CreateHash, CreatePcs, BalancePcs
<1>5. ASSUME NEW b \in Balconies, CreateHashFails(b) PROVE TypeOK'
  BY <1>5, PcFacts, Operands, Codes
     DEF TypeOK, CreateHashFails, CreatePcs, BalancePcs, Return
<1>6. ASSUME NEW b \in Balconies, CreateId(b) PROVE TypeOK'
  BY <1>6, PcFacts, Operands
     DEF TypeOK, CreateId, CreatePcs, BalancePcs
<1>7. ASSUME NEW b \in Balconies, CreateBalance(b) PROVE TypeOK'
  BY <1>7, PcFacts, Operands, AmountsFit
     DEF TypeOK, CreateBalance, CreatePcs, BalancePcs
<1>8. ASSUME NEW b \in Balconies, CreateUnlock(b) PROVE TypeOK'
  BY <1>8, PcFacts, Operands
     DEF TypeOK, CreateUnlock, CreatePcs, BalancePcs, Unlock
<1>9. ASSUME NEW b \in Balconies, BalanceLock(b) PROVE TypeOK'
  BY <1>9, PcFacts, Operands
     DEF TypeOK, BalanceLock, CreatePcs, BalancePcs, Lock
<1>10. ASSUME NEW b \in Balconies, BalanceCheck(b) PROVE TypeOK'
  BY <1>10, PcFacts, Operands, Codes, CheckCodes
     DEF TypeOK, BalanceCheck, CreatePcs, BalancePcs, Return
<1>11. ASSUME NEW b \in Balconies, BalanceRead(b) PROVE TypeOK'
  BY <1>11, PcFacts, Operands
     DEF TypeOK, BalanceRead, CreatePcs, BalancePcs
<1>12. ASSUME NEW b \in Balconies, BalanceUnlock(b) PROVE TypeOK'
  BY <1>12, PcFacts, Operands
     DEF TypeOK, BalanceUnlock, CreatePcs, BalancePcs, Unlock
<1>13. ASSUME NEW b \in Balconies, TransferLockFirst(b) PROVE TypeOK'
  BY <1>13, PcFacts, Operands
     DEF TypeOK, TransferLockFirst, CreatePcs, BalancePcs, Lock
<1>14. ASSUME NEW b \in Balconies, TransferSameId(b) PROVE TypeOK'
  BY <1>14, PcFacts, Operands, Codes, CheckCodes
     DEF TypeOK, TransferSameId, CreatePcs, BalancePcs, Return
<1>15. ASSUME NEW b \in Balconies, TransferLockSecond(b) PROVE TypeOK'
  BY <1>15, PcFacts, Operands
     DEF TypeOK, TransferLockSecond, CreatePcs, BalancePcs, Lock
<1>16. ASSUME NEW b \in Balconies, TransferLogin(b) PROVE TypeOK'
  BY <1>16, PcFacts, Operands, Codes
     DEF TypeOK, TransferLogin, CreatePcs, BalancePcs, Return
<1>17. ASSUME NEW b \in Balconies, TransferValidate(b) PROVE TypeOK'
  BY <1>17, PcFacts, Operands, Codes, CheckCodes
     DEF TypeOK, TransferValidate, CreatePcs, BalancePcs, Return
<1>18. ASSUME NEW b \in Balconies, DebitLoad(b) PROVE TypeOK'
  BY <1>18, PcFacts, Operands
     DEF TypeOK, DebitLoad, CreatePcs, BalancePcs
<1>19. ASSUME NEW b \in Balconies, DebitStore(b) PROVE TypeOK'
  BY <1>19, PcFacts, Operands, Arithmetic32, AmountsFit
     DEF TypeOK, DebitStore, CreatePcs, BalancePcs
<1>20. ASSUME NEW b \in Balconies, CreditLoad(b) PROVE TypeOK'
  BY <1>20, PcFacts, Operands
     DEF TypeOK, CreditLoad, CreatePcs, BalancePcs
<1>21. ASSUME NEW b \in Balconies, CreditStore(b) PROVE TypeOK'
  BY <1>21, PcFacts, Operands, Arithmetic32, AmountsFit
     DEF TypeOK, CreditStore, CreatePcs, BalancePcs
<1>22. ASSUME NEW b \in Balconies, TransferReadBalance(b) PROVE TypeOK'
  BY <1>22, PcFacts, Operands
     DEF TypeOK, TransferReadBalance, CreatePcs, BalancePcs
<1>23. ASSUME NEW b \in Balconies, TransferUnlockSecond(b) PROVE TypeOK'
  BY <1>23, PcFacts, Operands
     DEF TypeOK, TransferUnlockSecond, CreatePcs, BalancePcs, Unlock
<1>24. ASSUME NEW b \in Balconies, TransferUnlockFirst(b) PROVE TypeOK'
  BY <1>24, PcFacts, Operands
     DEF TypeOK, TransferUnlockFirst, CreatePcs, BalancePcs, Unlock
<1>25. ASSUME NEW b \in Balconies, Reply(b) PROVE TypeOK'
  BY <1>25, PcFacts, Operands, Codes
     DEF TypeOK, Reply, CreatePcs, BalancePcs, Return
<1>26. CASE UNCHANGED vars
  BY <1>26 DEF TypeOK, vars
<1>27. QED
  BY <1>1, <1>2, <1>3, <1>4, <1>5, <1>6, <1>7, <1>8, <1>9, <1>10, <1>11, <1>12, <1>13, <1>14, <1>15, <1>16, <1>17, <1>18, <1>19, <1>20, <1>21, <1>22, <1>23, <1>24, <1>25, <1>26
     DEF Next, Step

\* The variables always have their types, and every point of the code serves a
\* request of its kind: no handler reads a field that its request lacks.
THEOREM TypeCorrect == Spec => []TypeOK
<1>1. Init => TypeOK
  BY TypeInit
<1>2. TypeOK /\ [Next]_vars => TypeOK'
  BY TypeNext
<1>3. QED
  BY <1>1, <1>2, PTL DEF Spec

-----------------------------------------------------------------------------
(* Mutual exclusion.                                                       *)

\* The operands depend on the request alone.
LEMMA SameOperands ==
    ASSUME NEW c \in Balconies, req'[c] = req[c]
    PROVE  /\ Orig(c)' = Orig(c) /\ Target(c)' = Target(c)
           /\ Amount(c)' = Amount(c)
           /\ First(c)' = First(c) /\ Second(c)' = Second(c)
BY DEF Orig, Target, Amount, First, Second, LockOrder

\* A balcony that stays where it is keeps the mutexes it needs.
LEMMA SameHeld ==
    ASSUME NEW c \in Balconies, req'[c] = req[c], pc'[c] = pc[c]
    PROVE  Held(c)' = Held(c)
BY SameOperands DEF Held

\* The three ways in which a step changes the owners of the mutexes.
LEMMA LockStep ==
    ASSUME TypeOK, LockOwnership, NEW b \in Balconies, NEW a \in AccountIds,
           Lock(b, a), Held(b)' = Held(b) \cup {a},
           \A c \in Balconies \ {b} : Held(c)' = Held(c)
    PROVE  LockOwnership'
BY NobodyAssumption DEF TypeOK, LockOwnership, Lock

\* A balcony that unlocks a mutex owns it no more, and no other balcony is concerned.
LEMMA UnlockStep ==
    ASSUME TypeOK, LockOwnership, NEW b \in Balconies, NEW a \in Held(b),
           Unlock(b, a), Held(b)' = Held(b) \ {a},
           \A c \in Balconies \ {b} : Held(c)' = Held(c)
    PROVE  LockOwnership'
BY NobodyAssumption DEF TypeOK, LockOwnership, Unlock

\* A step that touches no mutex keeps them with the points that call for them.
LEMMA KeepStep ==
    ASSUME LockOwnership, NEW b \in Balconies, mutex' = mutex, Held(b)' = Held(b),
           \A c \in Balconies \ {b} : Held(c)' = Held(c)
    PROVE  LockOwnership'
BY DEF LockOwnership

\* The branch of transfer_request on equal accounts keeps to one mutex.
LEMMA DistinctInit == Init => DistinctAccounts
BY DEF Init, DistinctAccounts, TransferPcs

\* A transfer past its checks has two different accounts, and keeps them.
LEMMA DistinctNext == TypeOK /\ DistinctAccounts /\ [Next]_vars => DistinctAccounts'
<1> SUFFICES ASSUME TypeOK, DistinctAccounts, [Next]_vars, NEW c \in Balconies,
                    pc'[c] \in TransferPcs \ {"lock_first", "same_id", "unlock_first"}
             PROVE  First(c)' # Second(c)'
  BY DEF DistinctAccounts
<1> USE DEF Goto, database
<1>1. ASSUME req'[c] = req[c],
             pc[c] \in TransferPcs \ {"lock_first", "same_id", "unlock_first"}
      PROVE  First(c)' # Second(c)'
  BY <1>1, SameOperands DEF DistinctAccounts
<1>2. CASE UNCHANGED vars
  BY <1>1, <1>2 DEF vars
<1>3. ASSUME NEW b \in Balconies, NEW r \in Requests, Begin(b, r)
      PROVE  First(c)' # Second(c)'
  <2>1. r.type \in {"OP_CREATE_ACCOUNT", "OP_BALANCE", "OP_TRANSFER"}
    BY RequestsAssumption, RequestFields
  <2>2. pc'[b] \in {"create_lock", "balance_lock", "lock_first"}
    BY <1>3, <2>1 DEF Begin, TypeOK
  <2>3. c # b
    BY <2>2, PcFacts
  <2>4. pc'[c] = pc[c] /\ req'[c] = req[c]
    BY <1>3, <2>3 DEF Begin, TypeOK
  <2>5. QED
    BY <1>1, <2>4
<1>4. ASSUME NEW b \in Balconies, Step(b) PROVE First(c)' # Second(c)'
  <2>1. CASE c # b
    <3>1. pc'[c] = pc[c] /\ req'[c] = req[c]
      BY <1>4, <2>1
         DEF Step, TypeOK, CreateLock, CreateCheck, CreateHash, CreateHashFails,
             CreateId, CreateBalance, CreateUnlock, BalanceLock, BalanceCheck,
             BalanceRead, BalanceUnlock, TransferLockFirst, TransferSameId,
             TransferLockSecond, TransferLogin, TransferValidate, DebitLoad,
             DebitStore, CreditLoad, CreditStore, TransferReadBalance,
             TransferUnlockSecond, TransferUnlockFirst, Reply
    <3>2. QED
      BY <1>1, <3>1
  <2>2. CASE c = b /\ TransferLockFirst(b)
    <3>1. pc'[c] = IF First(c) = Second(c) THEN "same_id" ELSE "lock_second"
      BY <2>2 DEF TransferLockFirst, TypeOK
    <3>2. req'[c] = req[c]
      BY <2>2 DEF TransferLockFirst
    <3>3. QED
      BY <3>1, <3>2, SameOperands
  <2>3. CASE c = b /\ ~TransferLockFirst(b)
    <3>1. /\ req'[c] = req[c]
          /\ pc[c] \in TransferPcs \ {"lock_first", "same_id", "unlock_first"}
      BY <1>4, <2>3, PcFacts
         DEF Step, TypeOK, CreateLock, CreateCheck, CreateHash, CreateHashFails,
             CreateId, CreateBalance, CreateUnlock, BalanceLock, BalanceCheck,
             BalanceRead, BalanceUnlock, TransferSameId,
             TransferLockSecond, TransferLogin, TransferValidate, DebitLoad,
             DebitStore, CreditLoad, CreditStore, TransferReadBalance,
             TransferUnlockSecond, TransferUnlockFirst, Reply
    <3>2. QED
      BY <1>1, <3>1
  <2>4. QED
    BY <2>1, <2>2, <2>3
<1>5. QED
  BY <1>2, <1>3, <1>4 DEF Next

\* No mutex is owned at the start.
LEMMA LockInit == Init => LockOwnership
BY NobodyAssumption DEF Init, LockOwnership, Held, CreatePcs, BalancePcs,
                        TransferPcs

\* A balcony takes and gives back mutexes exactly where its code says so.
LEMMA LockNext ==
    TypeOK /\ DistinctAccounts /\ LockOwnership /\ [Next]_vars => LockOwnership'
<1> SUFFICES ASSUME TypeOK, DistinctAccounts, LockOwnership, [Next]_vars
             PROVE  LockOwnership'
  OBVIOUS
<1> USE DEF Goto, database
<1>0. ASSUME NEW b \in Balconies, NEW l, Goto(b, l),
             \A c \in Balconies \ {b} : req'[c] = req[c]
      PROVE  /\ pc'[b] = l
             /\ \A c \in Balconies \ {b} : Held(c)' = Held(c)
  <2>1. pc'[b] = l /\ \A c \in Balconies \ {b} : pc'[c] = pc[c]
    BY <1>0 DEF TypeOK
  <2>2. QED
    BY <1>0, <2>1, SameHeld
<1>1. ASSUME NEW b \in Balconies, NEW r \in Requests, Begin(b, r)
      PROVE  LockOwnership'
  <2>1. \A c \in Balconies \ {b} : req'[c] = req[c] /\ pc'[c] = pc[c]
    BY <1>1 DEF Begin, TypeOK
  <2>2. r.type \in {"OP_CREATE_ACCOUNT", "OP_BALANCE", "OP_TRANSFER"}
    BY RequestsAssumption, RequestFields
  <2>3. pc'[b] \in {"create_lock", "balance_lock", "lock_first"}
    BY <1>1, <2>2 DEF Begin, TypeOK
  <2>4. Held(b)' = {}
    BY <2>3, PcFacts DEF Held, CreatePcs, BalancePcs
  <2>5. Held(b) = {}
    BY <1>1, PcFacts DEF Begin, Held, CreatePcs, BalancePcs
  <2>6. QED
    BY <1>1, <2>1, <2>4, <2>5, SameHeld, KeepStep DEF Begin
<1>2. ASSUME NEW b \in Balconies, CreateLock(b) PROVE LockOwnership'
  <2>1. \A c \in Balconies \ {b} : Held(c)' = Held(c)
    BY <1>2, <1>0 DEF CreateLock
  <2>2. Held(b)' = Held(b) \cup {Target(b)}
    BY <1>2, SameOperands, PcFacts
       DEF CreateLock, TypeOK, Held, CreatePcs, BalancePcs
  <2>3. QED
    BY <1>2, <2>1, <2>2, LockStep, PcFacts, Operands DEF CreateLock, CreatePcs, BalancePcs
<1>3. ASSUME NEW b \in Balconies, CreateCheck(b) PROVE LockOwnership'
  <2>1. \A c \in Balconies \ {b} : Held(c)' = Held(c)
    BY <1>3, <1>0 DEF CreateCheck
  <2>2. Held(b)' = Held(b)
    BY <1>3, SameOperands, PcFacts
       DEF CreateCheck, TypeOK, Held, CreatePcs, BalancePcs
  <2>3. QED
    BY <1>3, <2>1, <2>2, KeepStep DEF CreateCheck
<1>4. ASSUME NEW b \in Balconies, CreateHash(b) PROVE LockOwnership'
  <2>1. \A c \in Balconies \ {b} : Held(c)' = Held(c)
    BY <1>4, <1>0 DEF CreateHash
  <2>2. Held(b)' = Held(b)
    BY <1>4, SameOperands, PcFacts
       DEF CreateHash, TypeOK, Held, CreatePcs, BalancePcs
  <2>3. QED
    BY <1>4, <2>1, <2>2, KeepStep DEF CreateHash
<1>5. ASSUME NEW b \in Balconies, CreateHashFails(b) PROVE LockOwnership'
  <2>1. \A c \in Balconies \ {b} : Held(c)' = Held(c)
    BY <1>5, <1>0 DEF CreateHashFails
  <2>2. Held(b)' = Held(b)
    BY <1>5, SameOperands, PcFacts
       DEF CreateHashFails, TypeOK, Held, CreatePcs, BalancePcs
  <2>3. QED
    BY <1>5, <2>1, <2>2, KeepStep DEF CreateHashFails
<1>6. ASSUME NEW b \in Balconies, CreateId(b) PROVE LockOwnership'
  <2>1. \A c \in Balconies \ {b} : Held(c)' = Held(c)
    BY <1>6, <1>0 DEF CreateId
  <2>2. Held(b)' = Held(b)
    BY <1>6, SameOperands, PcFacts
       DEF CreateId, TypeOK, Held, CreatePcs, BalancePcs
  <2>3. QED
    BY <1>6, <2>1, <2>2, KeepStep DEF CreateId
<1>7. ASSUME NEW b \in Balconies, CreateBalance(b) PROVE LockOwnership'
  <2>1. \A c \in Balconies \ {b} : Held(c)' = Held(c)
    BY <1>7, <1>0 DEF CreateBalance
  <2>2. Held(b)' = Held(b)
    BY <1>7, SameOperands, PcFacts
       DEF CreateBalance, TypeOK, Held, CreatePcs, BalancePcs
  <2>3. QED
    BY <1>7, <2>1, <2>2, KeepStep DEF CreateBalance
<1>8. ASSUME NEW b \in Balconies, CreateUnlock(b) PROVE LockOwnership'
  <2>1. \A c \in Balconies \ {b} : Held(c)' = Held(c)
    BY <1>8, <1>0 DEF CreateUnlock
  <2>2. Target(b) \in Held(b) /\ Held(b)' = Held(b) \ {Target(b)}
    BY <1>8, SameOperands, PcFacts
       DEF CreateUnlock, TypeOK, Held, CreatePcs, BalancePcs
  <2>3. QED
    BY <1>8, <2>1, <2>2, UnlockStep DEF CreateUnlock
<1>9. ASSUME NEW b \in Balconies, BalanceLock(b) PROVE LockOwnership'
  <2>1. \A c \in Balconies \ {b} : Held(c)' = Held(c)
    BY <1>9, <1>0 DEF BalanceLock
  <2>2. Held(b)' = Held(b) \cup {Orig(b)}
    BY <1>9, SameOperands, PcFacts
       DEF BalanceLock, TypeOK, Held, CreatePcs, BalancePcs
  <2>3. QED
    BY <1>9, <2>1, <2>2, LockStep, PcFacts, Operands DEF BalanceLock, CreatePcs, BalancePcs
<1>10. ASSUME NEW b \in Balconies, BalanceCheck(b) PROVE LockOwnership'
  <2>1. \A c \in Balconies \ {b} : Held(c)' = Held(c)
    BY <1>10, <1>0 DEF BalanceCheck
  <2>2. Held(b)' = Held(b)
    BY <1>10, SameOperands, PcFacts
       DEF BalanceCheck, TypeOK, Held, CreatePcs, BalancePcs
  <2>3. QED
    BY <1>10, <2>1, <2>2, KeepStep DEF BalanceCheck
<1>11. ASSUME NEW b \in Balconies, BalanceRead(b) PROVE LockOwnership'
  <2>1. \A c \in Balconies \ {b} : Held(c)' = Held(c)
    BY <1>11, <1>0 DEF BalanceRead
  <2>2. Held(b)' = Held(b)
    BY <1>11, SameOperands, PcFacts
       DEF BalanceRead, TypeOK, Held, CreatePcs, BalancePcs
  <2>3. QED
    BY <1>11, <2>1, <2>2, KeepStep DEF BalanceRead
<1>12. ASSUME NEW b \in Balconies, BalanceUnlock(b) PROVE LockOwnership'
  <2>1. \A c \in Balconies \ {b} : Held(c)' = Held(c)
    BY <1>12, <1>0 DEF BalanceUnlock
  <2>2. Orig(b) \in Held(b) /\ Held(b)' = Held(b) \ {Orig(b)}
    BY <1>12, SameOperands, PcFacts
       DEF BalanceUnlock, TypeOK, Held, CreatePcs, BalancePcs
  <2>3. QED
    BY <1>12, <2>1, <2>2, UnlockStep DEF BalanceUnlock
<1>13. ASSUME NEW b \in Balconies, TransferLockFirst(b) PROVE LockOwnership'
  <2>1. \A c \in Balconies \ {b} : Held(c)' = Held(c)
    BY <1>13, <1>0 DEF TransferLockFirst
  <2>2. Held(b)' = Held(b) \cup {First(b)}
    BY <1>13, SameOperands, PcFacts
       DEF TransferLockFirst, TypeOK, Held, CreatePcs, BalancePcs
  <2>3. QED
    BY <1>13, <2>1, <2>2, LockStep, PcFacts, Operands DEF TransferLockFirst, CreatePcs, BalancePcs
<1>14. ASSUME NEW b \in Balconies, TransferSameId(b) PROVE LockOwnership'
  <2>1. \A c \in Balconies \ {b} : Held(c)' = Held(c)
    BY <1>14, <1>0 DEF TransferSameId
  <2>2. Held(b)' = Held(b)
    BY <1>14, SameOperands, PcFacts
       DEF TransferSameId, TypeOK, Held, CreatePcs, BalancePcs
  <2>3. QED
    BY <1>14, <2>1, <2>2, KeepStep DEF TransferSameId
<1>15. ASSUME NEW b \in Balconies, TransferLockSecond(b) PROVE LockOwnership'
  <2>1. \A c \in Balconies \ {b} : Held(c)' = Held(c)
    BY <1>15, <1>0 DEF TransferLockSecond
  <2>2. Held(b)' = Held(b) \cup {Second(b)}
    BY <1>15, SameOperands, PcFacts
       DEF TransferLockSecond, TypeOK, Held, CreatePcs, BalancePcs
  <2>3. QED
    BY <1>15, <2>1, <2>2, LockStep, PcFacts, Operands DEF TransferLockSecond, CreatePcs, BalancePcs
<1>16. ASSUME NEW b \in Balconies, TransferLogin(b) PROVE LockOwnership'
  <2>1. \A c \in Balconies \ {b} : Held(c)' = Held(c)
    BY <1>16, <1>0 DEF TransferLogin
  <2>2. Held(b)' = Held(b)
    BY <1>16, SameOperands, PcFacts
       DEF TransferLogin, TypeOK, Held, CreatePcs, BalancePcs
  <2>3. QED
    BY <1>16, <2>1, <2>2, KeepStep DEF TransferLogin
<1>17. ASSUME NEW b \in Balconies, TransferValidate(b) PROVE LockOwnership'
  <2>1. \A c \in Balconies \ {b} : Held(c)' = Held(c)
    BY <1>17, <1>0 DEF TransferValidate
  <2>2. Held(b)' = Held(b)
    BY <1>17, SameOperands, PcFacts
       DEF TransferValidate, TypeOK, Held, CreatePcs, BalancePcs
  <2>3. QED
    BY <1>17, <2>1, <2>2, KeepStep DEF TransferValidate
<1>18. ASSUME NEW b \in Balconies, DebitLoad(b) PROVE LockOwnership'
  <2>1. \A c \in Balconies \ {b} : Held(c)' = Held(c)
    BY <1>18, <1>0 DEF DebitLoad
  <2>2. Held(b)' = Held(b)
    BY <1>18, SameOperands, PcFacts
       DEF DebitLoad, TypeOK, Held, CreatePcs, BalancePcs
  <2>3. QED
    BY <1>18, <2>1, <2>2, KeepStep DEF DebitLoad
<1>19. ASSUME NEW b \in Balconies, DebitStore(b) PROVE LockOwnership'
  <2>1. \A c \in Balconies \ {b} : Held(c)' = Held(c)
    BY <1>19, <1>0 DEF DebitStore
  <2>2. Held(b)' = Held(b)
    BY <1>19, SameOperands, PcFacts
       DEF DebitStore, TypeOK, Held, CreatePcs, BalancePcs
  <2>3. QED
    BY <1>19, <2>1, <2>2, KeepStep DEF DebitStore
<1>20. ASSUME NEW b \in Balconies, CreditLoad(b) PROVE LockOwnership'
  <2>1. \A c \in Balconies \ {b} : Held(c)' = Held(c)
    BY <1>20, <1>0 DEF CreditLoad
  <2>2. Held(b)' = Held(b)
    BY <1>20, SameOperands, PcFacts
       DEF CreditLoad, TypeOK, Held, CreatePcs, BalancePcs
  <2>3. QED
    BY <1>20, <2>1, <2>2, KeepStep DEF CreditLoad
<1>21. ASSUME NEW b \in Balconies, CreditStore(b) PROVE LockOwnership'
  <2>1. \A c \in Balconies \ {b} : Held(c)' = Held(c)
    BY <1>21, <1>0 DEF CreditStore
  <2>2. Held(b)' = Held(b)
    BY <1>21, SameOperands, PcFacts
       DEF CreditStore, TypeOK, Held, CreatePcs, BalancePcs
  <2>3. QED
    BY <1>21, <2>1, <2>2, KeepStep DEF CreditStore
<1>22. ASSUME NEW b \in Balconies, TransferReadBalance(b) PROVE LockOwnership'
  <2>1. \A c \in Balconies \ {b} : Held(c)' = Held(c)
    BY <1>22, <1>0 DEF TransferReadBalance
  <2>2. Held(b)' = Held(b)
    BY <1>22, SameOperands, PcFacts
       DEF TransferReadBalance, TypeOK, Held, CreatePcs, BalancePcs
  <2>3. QED
    BY <1>22, <2>1, <2>2, KeepStep DEF TransferReadBalance
<1>23. ASSUME NEW b \in Balconies, TransferUnlockSecond(b) PROVE LockOwnership'
  <2>1. \A c \in Balconies \ {b} : Held(c)' = Held(c)
    BY <1>23, <1>0 DEF TransferUnlockSecond
  <2>2. Second(b) \in Held(b) /\ Held(b)' = Held(b) \ {Second(b)}
    BY <1>23, SameOperands, PcFacts
       DEF TransferUnlockSecond, TypeOK, Held, CreatePcs, BalancePcs, DistinctAccounts
  <2>3. QED
    BY <1>23, <2>1, <2>2, UnlockStep DEF TransferUnlockSecond
<1>24. ASSUME NEW b \in Balconies, TransferUnlockFirst(b) PROVE LockOwnership'
  <2>1. \A c \in Balconies \ {b} : Held(c)' = Held(c)
    BY <1>24, <1>0 DEF TransferUnlockFirst
  <2>2. First(b) \in Held(b) /\ Held(b)' = Held(b) \ {First(b)}
    BY <1>24, SameOperands, PcFacts
       DEF TransferUnlockFirst, TypeOK, Held, CreatePcs, BalancePcs
  <2>3. QED
    BY <1>24, <2>1, <2>2, UnlockStep DEF TransferUnlockFirst
<1>25. ASSUME NEW b \in Balconies, Reply(b) PROVE LockOwnership'
  <2>1. \A c \in Balconies \ {b} : Held(c)' = Held(c)
    BY <1>25, <1>0 DEF Reply, TypeOK
  <2>2. pc'[b] = "idle"
    BY <1>25 DEF Reply, TypeOK
  <2>3. Held(b) = {} /\ Held(b)' = {}
    BY <1>25, <2>2, PcFacts DEF Reply, Held, CreatePcs, BalancePcs
  <2>4. QED
    BY <1>25, <2>1, <2>3, KeepStep DEF Reply
<1>26. CASE UNCHANGED vars
  BY <1>26, SameHeld DEF LockOwnership, vars
<1>27. QED
  BY <1>1, <1>2, <1>3, <1>4, <1>5, <1>6, <1>7, <1>8, <1>9, <1>10, <1>11, <1>12, <1>13, <1>14, <1>15, <1>16, <1>17, <1>18, <1>19, <1>20, <1>21, <1>22, <1>23, <1>24, <1>25, <1>26
     DEF Next, Step

\* No two balconies ever work on an account at once, and none keeps a mutex
\* after it replied: each return path of requests.c unlocks what it locked.
THEOREM LocksOwned == Spec => []LockOwnership
<1>1. Init => TypeOK /\ DistinctAccounts /\ LockOwnership
  BY TypeInit, DistinctInit, LockInit
<1>2. TypeOK /\ DistinctAccounts /\ LockOwnership /\ [Next]_vars
        => (TypeOK /\ DistinctAccounts /\ LockOwnership)'
  BY TypeNext, DistinctNext, LockNext
<1>3. QED
  BY <1>1, <1>2, PTL DEF Spec

-----------------------------------------------------------------------------
(* Balances.                                                               *)

\* What a step of b leaves alone: the other balconies, and the accounts whose
\* mutexes b does not own.  No step removes an account.
LEMMA StepFrame ==
    ASSUME TypeOK, NEW b \in Balconies, Step(b)
    PROVE  /\ \A c \in Balconies \ {b} :
                pc'[c] = pc[c] /\ req'[c] = req[c] /\ reg'[c] = reg[c]
           /\ \A a \in AccountIds \ Held(b) :
                balance'[a] = balance[a] /\ account_id'[a] = account_id[a]
           /\ \A a \in AccountIds :
                account_id[a] # EMPTY_ACCOUNT_ID => account_id'[a] # EMPTY_ACCOUNT_ID
<1> USE DEF Goto, database
<1>1. \A c \in Balconies \ {b} :
         pc'[c] = pc[c] /\ req'[c] = req[c] /\ reg'[c] = reg[c]
  BY DEF Step, TypeOK, CreateLock, CreateCheck, CreateHash, CreateHashFails,
         CreateId, CreateBalance, CreateUnlock, BalanceLock,
         BalanceCheck, BalanceRead, BalanceUnlock, TransferLockFirst,
         TransferSameId, TransferLockSecond, TransferLogin,
         TransferValidate, DebitLoad, DebitStore, CreditLoad,
         CreditStore, TransferReadBalance, TransferUnlockSecond,
         TransferUnlockFirst, Reply
<1>2. CASE UNCHANGED <<account_id, balance>>
  BY <1>1, <1>2
<1>3. CASE CreateId(b)
  <2>1. Held(b) = {Target(b)} /\ Target(b) \in AccountIds
    BY <1>3, Operands DEF CreateId, Held, CreatePcs
  <2>2. QED
    BY <1>1, <1>3, <2>1, IdsAreNumbers DEF CreateId, TypeOK
<1>4. CASE CreateBalance(b)
  <2>1. Held(b) = {Target(b)} /\ Target(b) \in AccountIds
    BY <1>4, Operands DEF CreateBalance, Held, CreatePcs
  <2>2. QED
    BY <1>1, <1>4, <2>1 DEF CreateBalance, TypeOK
<1>5. CASE DebitStore(b)
  <2>1. Orig(b) \in Held(b) /\ Orig(b) \in AccountIds
    BY <1>5, Operands, PcFacts DEF DebitStore, Held, CreatePcs, BalancePcs
  <2>2. QED
    BY <1>1, <1>5, <2>1 DEF DebitStore, TypeOK
<1>6. CASE CreditStore(b)
  <2>1. Target(b) \in Held(b) /\ Target(b) \in AccountIds
    BY <1>6, Operands, PcFacts DEF CreditStore, Held, CreatePcs, BalancePcs
  <2>2. QED
    BY <1>1, <1>6, <2>1 DEF CreditStore, TypeOK
<1>7. QED
  BY <1>2, <1>3, <1>4, <1>5, <1>6
     DEF Step, CreateLock, CreateCheck, CreateHash, CreateHashFails,
         CreateUnlock, BalanceLock, BalanceCheck, BalanceRead,
         BalanceUnlock, TransferLockFirst, TransferSameId,
         TransferLockSecond, TransferLogin, TransferValidate,
         DebitLoad, CreditLoad, TransferReadBalance,
         TransferUnlockSecond, TransferUnlockFirst, Reply

\* The accounts of a transfer that has locked both are its own.
LEMMA TransferHolds ==
    ASSUME TypeOK, NEW b \in Balconies,
           pc[b] \in {"login", "validate", "debit_load", "debit_store",
                     "credit_load", "credit_store"}
    PROVE  /\ Held(b) = {Orig(b), Target(b)}
           /\ Orig(b) \in AccountIds /\ Target(b) \in AccountIds
           /\ Amount(b) \in Amounts /\ Amount(b) \in UInt32
BY Operands, PcFacts DEF Held, CreatePcs, BalancePcs

\* Two balconies never own the same mutex.
LEMMA Exclusion ==
    ASSUME LockOwnership, NEW b \in Balconies, NEW c \in Balconies, b # c,
           NEW a \in AccountIds, a \in Held(b)
    PROVE  a \notin Held(c)
BY DEF LockOwnership

\* A balcony that opens an account owns its mutex.
LEMMA OpeningHolds ==
    ASSUME NEW b \in Balconies, NEW a \in AccountIds, Opening(a, b)
    PROVE  a \in Held(b)
BY DEF Opening, Held, CreatePcs

\* A balcony that owns the mutex of an account, and is not opening it, finds
\* a legal balance in it.
LEMMA OwnedInRange ==
    ASSUME IInv, NEW b \in Balconies, NEW a \in AccountIds, a \in Held(b),
           pc[b] # "create_balance", account_id[a] # EMPTY_ACCOUNT_ID
    PROVE  balance[a] <= MAX_BALANCE
<1>1. \A c \in Balconies : ~Opening(a, c)
  BY Exclusion, OpeningHolds DEF IInv, Opening
<1>2. QED
  BY <1>1 DEF IInv, BalanceInRange

\* What the other transfers have established survives a step of b.
LEMMA OthersEstablished ==
    ASSUME IInv, NEW b \in Balconies, Step(b), NEW c \in Balconies \ {b}
    PROVE  Established(c)'
<1>1. TypeOK /\ LockOwnership /\ Established(c)
  BY DEF IInv, TransferFacts
<1>2. pc'[c] = pc[c] /\ req'[c] = req[c] /\ reg'[c] = reg[c]
  BY <1>1, StepFrame
<1>3. CASE pc[c] \in {"validate", "debit_load", "debit_store", "credit_load",
                     "credit_store"}
  <2>1. /\ Orig(c) \in AccountIds /\ Orig(c) \notin Held(b)
        /\ Target(c) \in AccountIds /\ Target(c) \notin Held(b)
    BY <1>1, <1>3, TransferHolds, Exclusion
  <2>2. /\ balance'[Orig(c)] = balance[Orig(c)]
        /\ balance'[Target(c)] = balance[Target(c)]
        /\ account_id'[Orig(c)] = account_id[Orig(c)]
        /\ account_id'[Target(c)] = account_id[Target(c)]
    BY <1>1, <2>1, StepFrame
  <2>3. QED
    BY <1>1, <1>2, <2>2, SameOperands DEF Established
<1>4. CASE pc[c] \notin {"validate", "debit_load", "debit_store", "credit_load",
                        "credit_store"}
  BY <1>2, <1>4 DEF Established
<1>5. QED
  BY <1>3, <1>4

\* Each point of a transfer establishes what the next one relies on.
LEMMA OwnEstablished ==
    ASSUME IInv, NEW b \in Balconies, Step(b)
    PROVE  Established(b)'
<1> USE DEF Goto, database
<1>0. TypeOK /\ DistinctAccounts /\ Established(b)
  BY DEF IInv, TransferFacts
<1>1. CASE TransferLogin(b)
  <2>1. account_id'[Orig(b)'] # EMPTY_ACCOUNT_ID \/ pc'[b] = "unlock_second"
    BY <1>0, <1>1, SameOperands DEF TransferLogin, TypeOK, Authenticate
  <2>2. pc'[b] \in {"validate", "unlock_second"}
    BY <1>0, <1>1 DEF TransferLogin, TypeOK
  <2>3. QED
    BY <2>1, <2>2 DEF Established
<1>2. CASE TransferValidate(b)
  <2>1. CASE IsValidTransferRequest(b) = "RC_OK"
    <3>1. /\ account_id[Target(b)] # EMPTY_ACCOUNT_ID
          /\ Amount(b) <= balance[Orig(b)]
          /\ Add32(balance[Target(b)], Amount(b)) <= MAX_BALANCE
      <4>1. /\ account_id[Target(b)] # EMPTY_ACCOUNT_ID
            /\ ~(balance[Orig(b)] < Amount(b))
            /\ ~(Add32(balance[Target(b)], Amount(b)) > MAX_BALANCE)
        BY <2>1 DEF IsValidTransferRequest
      <4>2. /\ balance[Orig(b)] \in UInt32 /\ Amount(b) \in UInt32
            /\ Add32(balance[Target(b)], Amount(b)) \in UInt32
        BY <1>0, <1>2, TransferHolds, Arithmetic32 DEF TransferValidate, TypeOK
      <4>3. QED
        BY <4>1, <4>2, BalanceAssumption, WidthAssumption DEF UInt32
    <3>2. /\ balance[Target(b)] <= MAX_BALANCE
          /\ balance[Target(b)] \in UInt32
          /\ Amount(b) \in 1 .. MAX_BALANCE
      BY <1>0, <1>2, <3>1, TransferHolds, OwnedInRange, AmountsFit
         DEF TransferValidate, TypeOK
    <3>3. balance[Target(b)] + Amount(b) <= MAX_BALANCE
      <4>1. balance[Target(b)] + Amount(b) <= UINT32_MAX
        BY <3>2, BalanceAssumption, WidthAssumption DEF UInt32
      <4>2. Add32(balance[Target(b)], Amount(b)) = balance[Target(b)] + Amount(b)
        BY <1>0, <1>2, <3>2, <4>1, TransferHolds, Arithmetic32 DEF TransferValidate
      <4>3. QED
        BY <3>1, <4>2
    <3>4. pc'[b] = "debit_load" /\ UNCHANGED <<account_id, balance, req>>
      BY <1>0, <1>2, <2>1 DEF TransferValidate, TypeOK
    <3>5. account_id[Orig(b)] # EMPTY_ACCOUNT_ID
      BY <1>0, <1>2 DEF TransferValidate, Established
    <3>6. QED
      BY <3>1, <3>3, <3>4, <3>5, SameOperands DEF Established
  <2>2. CASE IsValidTransferRequest(b) # "RC_OK"
    <3>1. pc'[b] = "read_balance"
      BY <1>0, <1>2, <2>2 DEF TransferValidate, TypeOK
    <3>2. QED
      BY <3>1 DEF Established
  <2>3. QED
    BY <2>1, <2>2
<1>3. CASE DebitLoad(b)
  <2>1. /\ pc'[b] = "debit_store" /\ reg'[b] = balance[Orig(b)]
        /\ UNCHANGED <<account_id, balance, req>>
    BY <1>0, <1>3 DEF DebitLoad, TypeOK
  <2>2. QED
    BY <1>0, <1>3, <2>1, SameOperands DEF DebitLoad, Established
<1>4. CASE DebitStore(b)
  <2>1. /\ pc'[b] = "credit_load" /\ UNCHANGED <<account_id, req>>
    BY <1>0, <1>4 DEF DebitStore, TypeOK
  <2>2. Orig(b) # Target(b) /\ Orig(b) \in AccountIds /\ Target(b) \in AccountIds
    BY <1>0, <1>4, Operands, PcFacts DEF DebitStore, DistinctAccounts
  <2>3. balance'[Target(b)] = balance[Target(b)]
    BY <1>0, <1>4, <2>2 DEF DebitStore, TypeOK
  <2>4. QED
    BY <1>0, <1>4, <2>1, <2>3, SameOperands DEF DebitStore, Established
<1>5. CASE CreditLoad(b)
  <2>1. /\ pc'[b] = "credit_store" /\ reg'[b] = balance[Target(b)]
        /\ UNCHANGED <<account_id, balance, req>>
    BY <1>0, <1>5 DEF CreditLoad, TypeOK
  <2>2. QED
    BY <1>0, <1>5, <2>1, SameOperands DEF CreditLoad, Established
<1>6. CASE ~(\/ TransferLogin(b) \/ TransferValidate(b) \/ DebitLoad(b)
             \/ DebitStore(b) \/ CreditLoad(b))
  <2>1. pc'[b] \notin {"validate", "debit_load", "debit_store", "credit_load",
                      "credit_store"}
    BY <1>0, <1>6
       DEF Step, TypeOK, CreateLock, CreateCheck, CreateHash, CreateHashFails,
           CreateId, CreateBalance, CreateUnlock, BalanceLock,
           BalanceCheck, BalanceRead, BalanceUnlock, TransferLockFirst,
           TransferSameId, TransferLockSecond, CreditStore,
           TransferReadBalance, TransferUnlockSecond,
           TransferUnlockFirst, Reply
  <2>2. QED
    BY <2>1 DEF Established
<1>7. QED
  BY <1>1, <1>2, <1>3, <1>4, <1>5, <1>6

\* The inductive invariant at the start.
LEMMA RangeInit == Init => IInv
<1> SUFFICES ASSUME Init PROVE IInv
  OBVIOUS
<1>1. TypeOK /\ DistinctAccounts /\ LockOwnership
  BY TypeInit, DistinctInit, LockInit
<1>2. TransferFacts
  BY DEF Init, TransferFacts, Established
<1>3. BalanceInRange
  BY BalanceAssumption, IdsAreNumbers DEF Init, BalanceInRange
<1>4. QED
  BY <1>1, <1>2, <1>3 DEF IInv

\* An account that b does not own is as legal after the step as before it.
LEMMA ForeignInRange ==
    ASSUME IInv, NEW b \in Balconies, Step(b),
           NEW a \in AccountIds \ Held(b), account_id'[a] # EMPTY_ACCOUNT_ID,
           \A c \in Balconies : ~Opening(a, c)'
    PROVE  balance'[a] <= MAX_BALANCE
<1>1. TypeOK /\ BalanceInRange
  BY DEF IInv
<1>2. balance'[a] = balance[a] /\ account_id'[a] = account_id[a]
  BY <1>1, StepFrame
<1>3. ASSUME NEW c \in Balconies PROVE ~Opening(a, c)
  <2>1. CASE c = b
    BY <2>1, OpeningHolds
  <2>2. CASE c # b
    <3>1. pc'[c] = pc[c] /\ req'[c] = req[c]
      BY <1>1, <2>2, StepFrame
    <3>2. QED
      BY <3>1, SameOperands DEF Opening
  <2>3. QED
    BY <2>1, <2>2
<1>4. QED
  BY <1>1, <1>2, <1>3 DEF BalanceInRange

\* Whatever b stores in an account it owns is a legal balance.
LEMMA OwnInRange ==
    ASSUME IInv, NEW b \in Balconies, Step(b),
           NEW a \in AccountIds, a \in Held(b), account_id'[a] # EMPTY_ACCOUNT_ID,
           ~Opening(a, b)'
    PROVE  balance'[a] <= MAX_BALANCE
<1> USE DEF Goto, database
<1>0. TypeOK /\ DistinctAccounts /\ Established(b)
  BY DEF IInv, TransferFacts
<1>1. CASE CreateId(b)
  <2>1. a = Target(b)
    BY <1>1 DEF CreateId, Held, CreatePcs
  <2>2. pc'[b] = "create_balance" /\ req'[b] = req[b]
    BY <1>0, <1>1 DEF CreateId, TypeOK
  <2>3. QED
    BY <2>1, <2>2, SameOperands DEF Opening
<1>2. CASE CreateBalance(b)
  <2>1. a = Target(b)
    BY <1>2 DEF CreateBalance, Held, CreatePcs
  <2>2. balance'[a] = req[b].balance
    BY <1>0, <1>2, <2>1 DEF CreateBalance, TypeOK
  <2>3. req[b].balance \in 1 .. MAX_BALANCE
    BY <1>0, <1>2, Operands, AmountsFit DEF CreateBalance, CreatePcs
  <2>4. QED
    BY <2>2, <2>3, BalanceAssumption
<1>3. CASE DebitStore(b)
  <2>1. /\ Held(b) = {Orig(b), Target(b)} /\ Orig(b) \in AccountIds
        /\ Amount(b) \in 1 .. MAX_BALANCE /\ Amount(b) \in UInt32
    BY <1>0, <1>3, TransferHolds, AmountsFit DEF DebitStore
  <2>2. account_id[a] # EMPTY_ACCOUNT_ID
    BY <1>3 DEF DebitStore
  <2>3. balance[a] <= MAX_BALANCE /\ balance[a] \in UInt32
    BY <1>0, <1>3, <2>2, OwnedInRange DEF DebitStore, TypeOK
  <2>4. CASE a = Orig(b)
    <3>1. reg[b] = balance[a] /\ Amount(b) <= balance[a]
      BY <1>0, <1>3, <2>4 DEF DebitStore, Established
    <3>2. balance'[a] = balance[a] - Amount(b)
      BY <1>0, <1>3, <2>1, <2>3, <2>4, <3>1, Arithmetic32 DEF DebitStore, TypeOK
    <3>3. QED
      BY <2>1, <2>3, <3>2, BalanceAssumption, WidthAssumption DEF UInt32
  <2>5. CASE a # Orig(b)
    BY <1>0, <1>3, <2>3, <2>5 DEF DebitStore, TypeOK
  <2>6. QED
    BY <2>4, <2>5
<1>4. CASE CreditStore(b)
  <2>1. /\ Held(b) = {Orig(b), Target(b)} /\ Target(b) \in AccountIds
        /\ Amount(b) \in 1 .. MAX_BALANCE /\ Amount(b) \in UInt32
    BY <1>0, <1>4, TransferHolds, AmountsFit DEF CreditStore
  <2>2. account_id[a] # EMPTY_ACCOUNT_ID
    BY <1>4 DEF CreditStore
  <2>3. balance[a] <= MAX_BALANCE /\ balance[a] \in UInt32
    BY <1>0, <1>4, <2>2, OwnedInRange DEF CreditStore, TypeOK
  <2>4. CASE a = Target(b)
    <3>1. reg[b] = balance[a] /\ balance[a] + Amount(b) <= MAX_BALANCE
      BY <1>0, <1>4, <2>4 DEF CreditStore, Established
    <3>2. balance[a] + Amount(b) <= UINT32_MAX
      BY <2>1, <2>3, <3>1, BalanceAssumption, WidthAssumption DEF UInt32
    <3>3. balance'[a] = balance[a] + Amount(b)
      BY <1>0, <1>4, <2>1, <2>3, <2>4, <3>1, <3>2, Arithmetic32
         DEF CreditStore, TypeOK
    <3>4. QED
      BY <3>1, <3>3
  <2>5. CASE a # Target(b)
    BY <1>0, <1>4, <2>3, <2>5 DEF CreditStore, TypeOK
  <2>6. QED
    BY <2>4, <2>5
<1>5. CASE ~(\/ CreateId(b) \/ CreateBalance(b) \/ DebitStore(b) \/ CreditStore(b))
  <2>1. UNCHANGED <<account_id, balance>> /\ pc[b] # "create_balance"
    BY <1>5
       DEF Step, CreateLock, CreateCheck, CreateHash, CreateHashFails,
           CreateUnlock, BalanceLock, BalanceCheck, BalanceRead, BalanceUnlock,
           TransferLockFirst, TransferSameId, TransferLockSecond, TransferLogin,
           TransferValidate, DebitLoad, CreditLoad, TransferReadBalance,
           TransferUnlockSecond, TransferUnlockFirst, Reply
  <2>2. QED
    BY <2>1, OwnedInRange
<1>6. QED
  BY <1>1, <1>2, <1>3, <1>4, <1>5

\* The invariant is inductive.
LEMMA InvariantNext == IInv /\ [Next]_vars => IInv'
<1> SUFFICES ASSUME IInv, [Next]_vars PROVE IInv'
  OBVIOUS
<1>1. (TypeOK /\ DistinctAccounts /\ LockOwnership)'
  BY TypeNext, DistinctNext, LockNext DEF IInv
<1>2. ASSUME NEW b \in Balconies, NEW r \in Requests, Begin(b, r)
      PROVE  TransferFacts' /\ BalanceInRange'
  <2>1. UNCHANGED <<account_id, balance, reg>>
    BY <1>2 DEF Begin, database
  <2>2. /\ pc[b] = "idle"
        /\ pc'[b] \in {"create_lock", "balance_lock", "lock_first"}
        /\ \A c \in Balconies \ {b} : pc'[c] = pc[c] /\ req'[c] = req[c]
    BY <1>2, RequestsAssumption, RequestFields DEF IInv, TypeOK, Begin, Goto
  <2>3. ASSUME NEW c \in Balconies \ {b} PROVE Established(c)'
    BY <2>1, <2>2, SameOperands DEF IInv, TransferFacts, Established
  <2>4. Established(b)'
    BY <2>2 DEF Established
  <2>5. ASSUME NEW a \in AccountIds, NEW c \in Balconies
        PROVE  Opening(a, c)' <=> Opening(a, c)
    BY <2>2, SameOperands DEF Opening
  <2>6. BalanceInRange'
    BY <2>1, <2>5 DEF IInv, BalanceInRange
  <2>7. QED
    BY <2>3, <2>4, <2>6 DEF TransferFacts
<1>3. ASSUME NEW b \in Balconies, Step(b)
      PROVE  TransferFacts' /\ BalanceInRange'
  <2>1. TransferFacts'
    BY <1>3, OthersEstablished, OwnEstablished DEF TransferFacts
  <2>2. ASSUME NEW a \in AccountIds, account_id'[a] # EMPTY_ACCOUNT_ID,
               \A c \in Balconies : ~Opening(a, c)'
        PROVE  balance'[a] <= MAX_BALANCE
    BY <1>3, <2>2, ForeignInRange, OwnInRange
  <2>3. BalanceInRange'
    BY <2>2 DEF BalanceInRange
  <2>4. QED
    BY <2>1, <2>3
<1>4. ASSUME UNCHANGED vars PROVE TransferFacts' /\ BalanceInRange'
  <2>1. TransferFacts'
    BY <1>4, SameOperands DEF IInv, TransferFacts, Established, vars
  <2>2. ASSUME NEW a \in AccountIds, NEW c \in Balconies
        PROVE  Opening(a, c)' <=> Opening(a, c)
    BY <1>4, SameOperands DEF Opening, vars
  <2>3. UNCHANGED <<account_id, balance>>
    BY <1>4 DEF vars
  <2>4. BalanceInRange'
    BY <2>2, <2>3 DEF IInv, BalanceInRange
  <2>5. QED
    BY <2>1, <2>4
<1>5. TransferFacts' /\ BalanceInRange'
  BY <1>2, <1>3, <1>4 DEF Next
<1>6. QED
  BY <1>1, <1>5 DEF IInv

\* The inductive invariant holds in every state of every bank.
THEOREM Invariant == Spec => []IInv
<1>1. Init => IInv
  BY RangeInit
<1>2. IInv /\ [Next]_vars => IInv'
  BY InvariantNext
<1>3. QED
  BY <1>1, <1>2, PTL DEF Spec

\* No interleaving of the handlers overdraws an account below zero or takes it
\* over MAX_BALANCE: the uint32_t arithmetic of requests.c:107-108 never wraps.
THEOREM BalancesStayInRange == Spec => []BalanceInRange
<1>1. IInv => BalanceInRange
  BY DEF IInv
<1>2. QED
  BY <1>1, Invariant, PTL

-----------------------------------------------------------------------------
(* Why the handlers cannot block each other: each one locks its mutexes in *)
(* ascending order, so that in every group of balconies the one that waits *)
(* for the highest account waits for nobody of the group.                  *)

\* A non-empty set of accounts has a highest one.
LEMMA HighestAccount ==
    ASSUME NEW S, S \subseteq AccountIds, S # {}
    PROVE  \E a \in S : \A c \in S : c <= a
<1> DEFINE Below(a) == MAX_BANK_ACCOUNTS - a
           T == {n \in Nat : \E a \in S : n = Below(a)}
<1>1. \A a \in S : a \in Nat /\ Below(a) \in Nat
  BY AccountsAssumption DEF AccountIds
<1>2. T \subseteq Nat /\ T # {}
  BY <1>1
<1>3. \E n \in T : \A m \in T : ~ (<<m, n>> \in OpToRel(<, Nat))
  BY <1>2, NatLessThanWellFounded, WFMin
<1>4. PICK n \in T : \A m \in T : ~ (m < n)
  BY <1>2, <1>3 DEF OpToRel
<1>5. PICK a \in S : n = Below(a)
  OBVIOUS
<1>6. \A c \in S : c <= a
  BY <1>1, <1>4, <1>5, AccountsAssumption
<1>7. QED
  BY <1>6

\* A balcony that owns a mutex while it waits for another one waits for a
\* higher account.
LEMMA WaitsUpwards ==
    ASSUME IInv, NEW b \in Balconies, NEW held \in AccountIds, mutex[held] = b,
           NEW wanted \in Wanted(b)
    PROVE  /\ wanted \in AccountIds
           /\ held < wanted
<1>1. held \in Held(b)
  BY DEF IInv, LockOwnership
<1>2. pc[b] \in {"create_lock", "balance_lock", "lock_first"} => Held(b) = {}
  BY PcFacts DEF Held, CreatePcs, BalancePcs
<1>3. pc[b] = "lock_second" /\ wanted = Second(b)
  BY <1>1, <1>2 DEF Wanted
<1>4. held = First(b)
  BY <1>1, <1>3 DEF Held, CreatePcs, BalancePcs
<1>5. /\ First(b) \in AccountIds /\ Second(b) \in AccountIds
      /\ Orig(b) \in AccountIds /\ Target(b) \in AccountIds
      /\ First(b) # Second(b)
  BY <1>3, Operands, PcFacts DEF IInv, DistinctAccounts
<1>6. First(b) < Second(b)
  BY <1>5 DEF First, Second, LockOrder, min, max, AccountIds
<1>7. QED
  BY <1>3, <1>4, <1>5, <1>6

\* Every mutex that a balcony waits for is that of an account.
LEMMA WantedAccounts ==
    ASSUME IInv, NEW b \in Balconies
    PROVE  Wanted(b) \subseteq AccountIds
<1>1. CASE pc[b] = "create_lock"
  BY <1>1, Operands DEF IInv, Wanted, CreatePcs
<1>2. CASE pc[b] = "balance_lock"
  BY <1>2, Operands DEF IInv, Wanted, BalancePcs
<1>3. CASE pc[b] = "lock_first"
  BY <1>3, Operands, PcFacts DEF IInv, Wanted
<1>4. CASE pc[b] = "lock_second"
  BY <1>4, Operands, PcFacts DEF IInv, Wanted
<1>5. CASE pc[b] \notin {"create_lock", "balance_lock", "lock_first", "lock_second"}
  BY <1>5 DEF Wanted
<1>6. QED
  BY <1>1, <1>2, <1>3, <1>4, <1>5

\* In every state of the invariant every group has a member that can go on.
LEMMA SomebodyGoesOn == IInv => NoDeadlockedGroup
<1> SUFFICES ASSUME IInv, NEW group \in (SUBSET Balconies) \ {{}},
                    \A b \in group : \E a \in Wanted(b) : mutex[a] \in group
             PROVE  FALSE
  BY DEF NoDeadlockedGroup
<1> DEFINE Awaited == {a \in AccountIds : \E b \in group : a \in Wanted(b)
                                                           /\ mutex[a] \in group}
<1>1. Awaited # {}
  BY WantedAccounts
<1>2. PICK a \in Awaited : \A c \in Awaited : c <= a
  BY <1>1, HighestAccount
<1>3. PICK c \in AccountIds : c \in Wanted(mutex[a]) /\ mutex[c] \in group
  BY WantedAccounts
<1>4. a < c
  BY <1>3, WaitsUpwards
<1>5. c <= a
  BY <1>2, <1>3
<1>6. QED
  BY <1>4, <1>5 DEF AccountIds

\* No group of balconies is ever deadlocked, however many balconies, accounts
\* and requests there are: requests.c:48-52 and 82 lock the lower account first.
THEOREM NoDeadlock == Spec => []NoDeadlockedGroup
BY SomebodyGoesOn, Invariant, PTL

=============================================================================
