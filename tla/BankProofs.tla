---------------------------- MODULE BankProofs ----------------------------
(***************************************************************************)
(* The handlers of Accounts keep the money together and implement the bank *)
(* of module Bank, for any number of balconies, accounts and requests.     *)
(***************************************************************************)
EXTENDS AccountsProofs, FiniteSetTheorems

-----------------------------------------------------------------------------
(* Sums of functions over finite sets: what the fold of the community      *)
(* modules computes.                                                       *)

\* Induction over the subsets of a finite set S: P contains S if it contains
\* every subset whose proper subsets it contains.
LEMMA SubsetInduction ==
    ASSUME NEW S, IsFiniteSet(S), NEW P,
           \A T \in SUBSET S : (\A U \in SUBSET T : U # T => U \in P) => T \in P
    PROVE  S \in P
<1> DEFINE Bad == {T \in SUBSET S : T \notin P}
           R == StrictSubsetOrdering(S)
<1>1. SUFFICES ASSUME S \notin P PROVE FALSE
  OBVIOUS
<1>2. Bad \subseteq FiniteSubsetsOf(S) /\ Bad # {}
  BY <1>1, FS_FiniteSubsetsOfFinite
<1>3. PICK T \in Bad : \A U \in Bad : <<U, T>> \notin R
  <2>1. IsWellFoundedOn(R, FiniteSubsetsOf(S))
    BY FS_StrictSubsetOrderingWellFounded
  <2> HIDE DEF Bad, R
  <2>2. QED
    BY <1>2, <2>1, WFMin
<1>4. ASSUME NEW U \in SUBSET T, U # T PROVE U \in P
  <2>1. U \in SUBSET S /\ T \in SUBSET S
    OBVIOUS
  <2>2. <<U, T>> \in R
    BY <1>4, <2>1 DEF StrictSubsetOrdering
  <2>3. QED
    BY <1>3, <2>1, <2>2
<1>5. QED
  BY <1>4

\* The element that the fold takes next, and the function that it builds.
Pick(s) == CHOOSE x \in s : TRUE
Adds(f, S, g) ==
    g = [s \in SUBSET S |-> IF s = {} THEN 0 ELSE f[Pick(s)] + g[s \ {Pick(s)}]]

\* The choice is from the set.
LEMMA Picked == \A s : s # {} => Pick(s) \in s
BY DEF Pick

\* There is at most one such function, and it serves for the subsets too.
LEMMA AddsUnique ==
    ASSUME NEW S, IsFiniteSet(S), NEW f, NEW g, NEW h, Adds(f, S, g), Adds(f, S, h)
    PROVE  g = h
<1> DEFINE P == {T \in SUBSET S : g[T] = h[T]}
<1>1. ASSUME NEW T \in SUBSET S, \A U \in SUBSET T : U # T => U \in P
      PROVE  T \in P
  <2>1. CASE T = {}
    BY <2>1 DEF Adds
  <2>2. CASE T # {}
    <3>1. Pick(T) \in T /\ T \ {Pick(T)} \in P
      BY <1>1, <2>2, Picked
    <3>2. /\ g[T] = f[Pick(T)] + g[T \ {Pick(T)}]
          /\ h[T] = f[Pick(T)] + h[T \ {Pick(T)}]
      BY <2>2 DEF Adds
    <3>3. QED
      BY <3>1, <3>2
  <2>3. QED
    BY <2>1, <2>2
<1>2. ASSUME NEW T \in SUBSET S PROVE T \in P
  <2>1. IsFiniteSet(T)
    BY FS_Subset
  <2>2. \A V \in SUBSET T : (\A U \in SUBSET V : U # V => U \in P) => V \in P
    BY <1>1
  <2> HIDE DEF P
  <2>3. QED
    BY <2>1, <2>2, SubsetInduction
<1>3. QED
  BY <1>2 DEF Adds

\* The function of a set, restricted to the subsets of a subset, is that of the subset.
LEMMA AddsBelow ==
    ASSUME NEW S, NEW f, NEW g, Adds(f, S, g), NEW T \in SUBSET S
    PROVE  Adds(f, T, [s \in SUBSET T |-> g[s]])
<1> DEFINE h == [s \in SUBSET T |-> g[s]]
<1>1. ASSUME NEW s \in SUBSET T
      PROVE  h[s] = IF s = {} THEN 0 ELSE f[Pick(s)] + h[s \ {Pick(s)}]
  BY DEF Adds
<1>2. QED
  BY <1>1 DEF Adds

\* There is such a function for every finite set.
LEMMA AddsExists ==
    ASSUME NEW S, IsFiniteSet(S), NEW f
    PROVE  \E g : Adds(f, S, g)
<1> DEFINE P == {T \in SUBSET S : \E g : Adds(f, T, g)}
<1>1. ASSUME NEW T \in SUBSET S, \A U \in SUBSET T : U # T => U \in P
      PROVE  T \in P
  <2> DEFINE G(s) == CHOOSE g : Adds(f, s, g)
             V(s) == IF s = {} THEN 0 ELSE f[Pick(s)] + G(s \ {Pick(s)})[s \ {Pick(s)}]
             h == [s \in SUBSET T |-> V(s)]
  <2>1. \A U \in SUBSET T : U # T => Adds(f, U, G(U))
    BY <1>1
  <2>2. ASSUME NEW U \in SUBSET T, U # T PROVE G(U)[U] = V(U)
    <3>0. Adds(f, U, G(U))
      BY <2>1, <2>2
    <3>1. CASE U = {}
      <4> HIDE DEF G
      <4>1. G(U)[U] = 0
        BY <3>0, <3>1 DEF Adds
      <4>2. QED
        BY <3>1, <4>1
    <3>2. CASE U # {}
      <4> DEFINE W == U \ {Pick(U)}
      <4>1. W \in SUBSET U /\ W \in SUBSET T /\ W # T /\ IsFiniteSet(W)
        BY <3>2, Picked, FS_Subset
      <4>2. Adds(f, W, G(W)) /\ Adds(f, W, [s \in SUBSET W |-> G(U)[s]])
        <5> HIDE DEF G, W
        <5>1. QED
          BY <2>1, <3>0, <4>1, AddsBelow
      <4>3. G(W)[W] = G(U)[W]
        <5> HIDE DEF G, W
        <5>1. G(W) = [s \in SUBSET W |-> G(U)[s]]
          BY <4>1, <4>2, AddsUnique
        <5>2. QED
          BY <5>1
      <4>4. G(U)[U] = f[Pick(U)] + G(U)[W]
        <5> HIDE DEF G
        <5>1. QED
          BY <3>0, <3>2 DEF Adds
      <4>5. QED
        BY <3>2, <4>3, <4>4
    <3>3. QED
      BY <3>1, <3>2
  <2>3. ASSUME NEW s \in SUBSET T, s # {}
        PROVE  h[s] = f[Pick(s)] + h[s \ {Pick(s)}]
    <3>1. s \ {Pick(s)} \in SUBSET T /\ s \ {Pick(s)} # T
      BY <2>3, Picked
    <3> HIDE DEF G
    <3>2. h[s \ {Pick(s)}] = G(s \ {Pick(s)})[s \ {Pick(s)}]
      BY <2>2, <3>1
    <3>3. QED
      BY <2>3, <3>2
  <2>4. h[{}] = 0
    OBVIOUS
  <2>5. Adds(f, T, h)
    <3>1. h = [s \in SUBSET T |-> h[s]]
      OBVIOUS
    <3> HIDE DEF h
    <3>2. QED
      BY <2>3, <2>4, <3>1 DEF Adds
  <2>6. QED
    BY <2>5
<1> HIDE DEF P
<1>2. S \in P
  BY <1>1, SubsetInduction
<1>3. QED
  BY <1>2 DEF P

\* The sum of f over S, when one element is taken out of it.
LEMMA SumSplit ==
    ASSUME NEW S, IsFiniteSet(S), NEW f, \A x \in S : f[x] \in Int
    PROVE  /\ SumFunctionOnSet(f, S) \in Int
           /\ S = {} => SumFunctionOnSet(f, S) = 0
           /\ \A x \in S : SumFunctionOnSet(f, S) = f[x] + SumFunctionOnSet(f, S \ {x})
<1> DEFINE Sum(T) == SumFunctionOnSet(f, T)
           P == {T \in SUBSET S : /\ Sum(T) \in Int
                                 /\ \A x \in T : Sum(T) = f[x] + Sum(T \ {x})}
<1>1. ASSUME NEW T \in SUBSET S
      PROVE  Sum(T) = IF T = {} THEN 0 ELSE f[Pick(T)] + Sum(T \ {Pick(T)})
  <2> DEFINE G(U) == CHOOSE g : Adds(f, U, g)
             W == T \ {Pick(T)}
  <2>1. Sum(T) = G(T)[T] /\ Sum(W) = G(W)[W]
    BY DEF SumFunctionOnSet, FoldFunctionOnSet, MapThenFoldSet, Adds, Pick
  <2>2. IsFiniteSet(T) /\ IsFiniteSet(W) /\ W \in SUBSET T
    BY FS_Subset
  <2>3. Adds(f, T, G(T)) /\ Adds(f, W, G(W))
    BY <2>2, AddsExists
  <2> HIDE DEF G, W
  <2> DEFINE H == [s \in SUBSET W |-> G(T)[s]]
  <2>4. G(W) = H
    <3>1. Adds(f, W, H)
      BY <2>2, <2>3, AddsBelow
    <3> HIDE DEF H
    <3>2. QED
      BY <2>2, <2>3, <3>1, AddsUnique
  <2>5. G(W)[W] = G(T)[W]
    BY <2>4
  <2>6. G(T)[T] = IF T = {} THEN 0 ELSE f[Pick(T)] + G(T)[W]
    BY <2>3 DEF Adds, W
  <2>7. QED
    BY <2>1, <2>5, <2>6 DEF W
<1> HIDE DEF Sum
<1>2. ASSUME NEW T \in SUBSET S, \A U \in SUBSET T : U # T => U \in P
      PROVE  T \in P
  <2>1. CASE T = {}
    BY <1>1, <2>1
  <2>2. CASE T # {}
    <3> DEFINE p == Pick(T)
    <3>1. p \in T /\ T \ {p} \in P
      BY <1>2, <2>2, Picked
    <3>2. Sum(T) = f[p] + Sum(T \ {p}) /\ f[p] \in Int
      BY <1>1, <2>2, <3>1
    <3> HIDE DEF p
    <3>3. ASSUME NEW x \in T, x # p PROVE Sum(T) = f[x] + Sum(T \ {x})
      <4>1. T \ {x} \in P /\ p \in T \ {x} /\ x \in T \ {p}
        BY <1>2, <3>1, <3>3
      <4>2. /\ Sum(T \ {p}) = f[x] + Sum((T \ {p}) \ {x})
            /\ Sum(T \ {x}) = f[p] + Sum((T \ {x}) \ {p})
        BY <3>1, <4>1
      <4>3. (T \ {p}) \ {x} = (T \ {x}) \ {p} /\ (T \ {p}) \ {x} \in P
        BY <1>2, <3>1
      <4>4. f[x] \in Int /\ Sum((T \ {p}) \ {x}) \in Int
        BY <4>3
      <4> DEFINE rest == Sum((T \ {p}) \ {x})
      <4>5. /\ Sum(T) = f[p] + (f[x] + rest)
            /\ Sum(T \ {x}) = f[p] + rest
        BY <3>2, <4>2, <4>3
      <4> HIDE DEF rest
      <4>6. f[p] \in Int /\ f[x] \in Int /\ rest \in Int
        BY <3>2, <4>4 DEF rest
      <4>7. QED
        BY <4>5, <4>6
    <3>4. QED
      BY <3>1, <3>2, <3>3
  <2>3. QED
    BY <2>1, <2>2
<1>3. S \in P
  <2> HIDE DEF P
  <2>1. QED
    BY <1>2, SubsetInduction
<1>4. S = {} => Sum(S) = 0
  BY <1>1
<1>5. QED
  BY <1>3, <1>4 DEF Sum

-----------------------------------------------------------------------------
(* What the handlers have decided.                                         *)

\* The hash of every account that exists is one of a password.
KnownHashes ==
    \A a \in AccountIds : account_id[a] # EMPTY_ACCOUNT_ID => hash[a] \in Passwords

\* What the handler that b runs knows at each of its points.
Decided(b) ==
    /\ pc[b] \in {"create_hash", "create_id"} =>
        /\ Authenticate(req[b].password, Orig(b))
        /\ Orig(b) = ADMIN_ACCOUNT_ID
        /\ account_id[Target(b)] = EMPTY_ACCOUNT_ID
        /\ ret_code[b] = "RC_OK"
    /\ pc[b] = "create_id" => hash[Target(b)] = req[b].new_password
    /\ pc[b] = "create_balance" => account_id[Target(b)] # EMPTY_ACCOUNT_ID
    /\ pc[b] = "balance_read" =>
        account_id[Orig(b)] # EMPTY_ACCOUNT_ID /\ ret_code[b] = "RC_OK"
    /\ pc[b] = "same_id" => Orig(b) = Target(b)
    /\ pc[b] \in {"validate", "debit_load", "debit_store"} =>
        Authenticate(req[b].password, Orig(b))
    /\ pc[b] \in {"debit_load", "debit_store"} =>
        Orig(b) # ADMIN_ACCOUNT_ID /\ ret_code[b] = "RC_OK"

BankInv == IInv /\ KnownHashes /\ \A b \in Balconies : Decided(b)

\* What else a step of b leaves alone: the codes and the balances that the other
\* balconies will reply with, the hashes of the accounts that it does not own, and
\* those of every account that exists.
LEMMA HashFrame ==
    ASSUME TypeOK, NEW b \in Balconies, Step(b), Decided(b)
    PROVE  /\ \A c \in Balconies \ {b} :
                ret_code'[c] = ret_code[c] /\ final_balance'[c] = final_balance[c]
           /\ \A a \in AccountIds \ Held(b) : hash'[a] = hash[a]
           /\ \A a \in AccountIds :
                account_id[a] # EMPTY_ACCOUNT_ID =>
                    hash'[a] = hash[a] /\ account_id'[a] = account_id[a]
<1> USE DEF Goto, Return, database
<1>1. \A c \in Balconies \ {b} :
         ret_code'[c] = ret_code[c] /\ final_balance'[c] = final_balance[c]
  BY DEF Step, TypeOK, CreateLock, CreateCheck, CreateHash, CreateHashFails,
         CreateId, CreateBalance, CreateUnlock, BalanceLock,
         BalanceCheck, BalanceRead, BalanceUnlock, TransferLockFirst,
         TransferSameId, TransferLockSecond, TransferLogin,
         TransferValidate, DebitLoad, DebitStore, CreditLoad,
         CreditStore, TransferReadBalance, TransferUnlockSecond,
         TransferUnlockFirst, Reply
<1>2. CASE CreateHash(b) \/ CreateId(b)
  <2>1. /\ Held(b) = {Target(b)} /\ Target(b) \in AccountIds
        /\ account_id[Target(b)] = EMPTY_ACCOUNT_ID
    BY <1>2, Operands DEF CreateHash, CreateId, Held, CreatePcs, Decided
  <2>2. /\ \A a \in AccountIds \ {Target(b)} : hash'[a] = hash[a]
        /\ \A a \in AccountIds \ {Target(b)} : account_id'[a] = account_id[a]
    BY <1>2, <2>1 DEF CreateHash, CreateId, TypeOK
  <2>3. QED
    BY <1>1, <2>1, <2>2
<1>3. CASE ~CreateHash(b) /\ ~CreateId(b)
  <2>1. UNCHANGED <<hash, account_id>>
    BY <1>3
       DEF Step, CreateLock, CreateCheck, CreateHashFails, CreateBalance,
           CreateUnlock, BalanceLock, BalanceCheck, BalanceRead, BalanceUnlock,
           TransferLockFirst, TransferSameId, TransferLockSecond, TransferLogin,
           TransferValidate, DebitLoad, DebitStore, CreditLoad, CreditStore,
           TransferReadBalance, TransferUnlockSecond, TransferUnlockFirst, Reply
  <2>2. QED
    BY <1>1, <2>1
<1>4. QED
  BY <1>2, <1>3

\* A password that opens an account goes on doing so.
LEMMA AuthenticateKept ==
    ASSUME TypeOK, NEW b \in Balconies, Step(b), Decided(b),
           NEW pwd, NEW a \in AccountIds, Authenticate(pwd, a)
    PROVE  account_id'[a] # EMPTY_ACCOUNT_ID /\ hash'[a] = pwd
BY HashFrame DEF Authenticate

\* What the other balconies decided survives a step of b.
LEMMA OthersDecided ==
    ASSUME BankInv, NEW b \in Balconies, Step(b), NEW c \in Balconies \ {b}
    PROVE  Decided(c)'
<1>1. TypeOK /\ LockOwnership /\ Decided(b) /\ Decided(c)
  BY DEF BankInv, IInv
<1>2. pc'[c] = pc[c] /\ req'[c] = req[c] /\ ret_code'[c] = ret_code[c]
  BY <1>1, StepFrame, HashFrame
<1>3. CASE pc[c] \in {"create_hash", "create_id", "create_balance"}
  <2>1. /\ Target(c) \in AccountIds /\ Orig(c) \in AccountIds
        /\ Target(c) \in Held(c)
    BY <1>1, <1>3, Operands DEF Held, CreatePcs
  <2>2. /\ account_id'[Target(c)] = account_id[Target(c)]
        /\ hash'[Target(c)] = hash[Target(c)]
    BY <1>1, <2>1, Exclusion, StepFrame, HashFrame
  <2>3. Authenticate(req[c].password, Orig(c)) =>
          account_id'[Orig(c)] # EMPTY_ACCOUNT_ID /\ hash'[Orig(c)] = req[c].password
    BY <1>1, <2>1, AuthenticateKept
  <2>4. QED
    BY <1>1, <1>2, <1>3, <2>2, <2>3, SameOperands DEF Decided, Authenticate
<1>4. CASE pc[c] = "balance_read"
  <2>1. Orig(c) \in AccountIds
    BY <1>1, <1>4, Operands DEF BalancePcs
  <2>2. account_id'[Orig(c)] # EMPTY_ACCOUNT_ID
    BY <1>1, <1>4, <2>1, StepFrame DEF Decided
  <2>3. QED
    BY <1>1, <1>2, <1>4, <2>2, SameOperands DEF Decided
<1>5. CASE pc[c] \in {"validate", "debit_load", "debit_store"}
  <2>1. Orig(c) \in AccountIds
    BY <1>1, <1>5, Operands, PcFacts
  <2>2. account_id'[Orig(c)] # EMPTY_ACCOUNT_ID /\ hash'[Orig(c)] = req[c].password
    BY <1>1, <1>5, <2>1, AuthenticateKept DEF Decided
  <2>3. QED
    BY <1>1, <1>2, <1>5, <2>2, SameOperands DEF Decided, Authenticate
<1>6. CASE pc[c] \notin {"create_hash", "create_id", "create_balance", "balance_read",
                        "validate", "debit_load", "debit_store"}
  BY <1>1, <1>2, <1>6, SameOperands DEF Decided
<1>7. QED
  BY <1>3, <1>4, <1>5, <1>6

\* Each handler decides what its next point relies on.
LEMMA OwnDecided ==
    ASSUME BankInv, NEW b \in Balconies, Step(b)
    PROVE  Decided(b)'
<1> USE DEF Goto, Return, database
<1>0. TypeOK /\ Decided(b)
  BY DEF BankInv, IInv
<1>1. CASE CreateCheck(b)
  <2>1. /\ Orig(b) \in AccountIds /\ Target(b) \in AccountIds
        /\ req'[b] = req[b] /\ UNCHANGED <<account_id, hash>>
    BY <1>0, <1>1, Operands DEF CreateCheck, CreatePcs
  <2>2. pc'[b] \in {"create_hash", "create_unlock"}
    BY <1>0, <1>1 DEF CreateCheck, TypeOK
  <2>3. CASE pc'[b] = "create_hash"
    <3>1. IsValidCreateRequest(b) = "RC_OK" /\ ret_code'[b] = "RC_OK"
      BY <1>0, <1>1, <2>3 DEF CreateCheck, TypeOK
    <3>2. QED
      BY <2>1, <2>3, <3>1, SameOperands DEF IsValidCreateRequest, Decided, Authenticate
  <2>4. QED
    BY <2>2, <2>3 DEF Decided
<1>2. CASE CreateHash(b)
  <2>1. /\ Orig(b) \in AccountIds /\ Target(b) \in AccountIds
        /\ req'[b] = req[b] /\ UNCHANGED <<account_id, ret_code>>
        /\ pc'[b] = "create_id"
    BY <1>0, <1>2, Operands DEF CreateHash, CreatePcs, TypeOK
  <2>2. /\ Authenticate(req[b].password, Orig(b))
        /\ account_id[Target(b)] = EMPTY_ACCOUNT_ID
    BY <1>0, <1>2 DEF CreateHash, Decided
  <2>3. /\ hash'[Target(b)] = req[b].new_password
        /\ hash'[Orig(b)] = req[b].password
    BY <1>0, <1>2, <2>1, <2>2 DEF CreateHash, TypeOK, Authenticate
  <2>4. QED
    BY <1>0, <1>2, <2>1, <2>2, <2>3, SameOperands DEF CreateHash, Decided, Authenticate
<1>3. CASE CreateId(b)
  <2>1. Target(b) \in AccountIds /\ req'[b] = req[b] /\ pc'[b] = "create_balance"
    BY <1>0, <1>3, Operands DEF CreateId, CreatePcs, TypeOK
  <2>2. account_id'[Target(b)] # EMPTY_ACCOUNT_ID
    BY <1>0, <1>3, <2>1, IdsAreNumbers DEF CreateId, TypeOK
  <2>3. QED
    BY <2>1, <2>2, SameOperands DEF Decided
<1>4. CASE BalanceCheck(b)
  <2>1. pc'[b] \in {"balance_read", "balance_unlock"}
    BY <1>0, <1>4 DEF BalanceCheck, TypeOK
  <2>2. CASE pc'[b] = "balance_read"
    <3>1. /\ IsValidBalanceRequest(b) = "RC_OK" /\ ret_code'[b] = "RC_OK"
          /\ req'[b] = req[b] /\ UNCHANGED <<account_id, hash>>
      BY <1>0, <1>4, <2>2 DEF BalanceCheck, TypeOK
    <3>2. QED
      BY <2>2, <3>1, SameOperands DEF IsValidBalanceRequest, Decided, Authenticate
  <2>3. QED
    BY <2>1, <2>2 DEF Decided
<1>5. CASE TransferLogin(b)
  <2>1. pc'[b] \in {"validate", "unlock_second"}
    BY <1>0, <1>5 DEF TransferLogin, TypeOK
  <2>2. CASE pc'[b] = "validate"
    <3>1. /\ Authenticate(req[b].password, Orig(b))
          /\ req'[b] = req[b] /\ UNCHANGED <<account_id, hash>>
      BY <1>0, <1>5, <2>2 DEF TransferLogin, TypeOK
    <3>2. QED
      BY <2>2, <3>1, SameOperands DEF Decided, Authenticate
  <2>3. QED
    BY <2>1, <2>2 DEF Decided
<1>6. CASE TransferValidate(b)
  <2>1. pc'[b] \in {"debit_load", "read_balance"}
    BY <1>0, <1>6 DEF TransferValidate, TypeOK
  <2>2. CASE pc'[b] = "debit_load"
    <3>1. /\ IsValidTransferRequest(b) = "RC_OK" /\ ret_code'[b] = "RC_OK"
          /\ req'[b] = req[b] /\ UNCHANGED <<account_id, hash>>
      BY <1>0, <1>6, <2>2 DEF TransferValidate, TypeOK
    <3>2. Orig(b) # ADMIN_ACCOUNT_ID
      BY <3>1 DEF IsValidTransferRequest
    <3>3. QED
      BY <1>0, <1>6, <2>2, <3>1, <3>2, SameOperands
         DEF TransferValidate, Decided, Authenticate
  <2>3. QED
    BY <2>1, <2>2 DEF Decided
<1>7. CASE DebitLoad(b)
  <2>1. /\ pc'[b] = "debit_store" /\ req'[b] = req[b]
        /\ UNCHANGED <<account_id, hash, ret_code>>
    BY <1>0, <1>7 DEF DebitLoad, TypeOK
  <2>2. QED
    BY <1>0, <1>7, <2>1, SameOperands DEF DebitLoad, Decided, Authenticate
<1>8. CASE TransferLockFirst(b)
  <2>1. /\ req'[b] = req[b]
        /\ pc'[b] = IF First(b) = Second(b) THEN "same_id" ELSE "lock_second"
    BY <1>0, <1>8 DEF TransferLockFirst, TypeOK
  <2>2. First(b) = Second(b) <=> Orig(b) = Target(b)
    BY <1>0, <1>8, Operands, PcFacts DEF TransferLockFirst
  <2>3. QED
    BY <2>1, <2>2, SameOperands DEF Decided
<1>9. CASE ~(\/ CreateCheck(b) \/ CreateHash(b) \/ CreateId(b) \/ BalanceCheck(b)
             \/ TransferLogin(b) \/ TransferValidate(b) \/ DebitLoad(b)
             \/ TransferLockFirst(b))
  <2>1. pc'[b] \notin {"create_hash", "create_id", "create_balance", "balance_read",
                      "same_id", "validate", "debit_load", "debit_store"}
    BY <1>0, <1>9
       DEF Step, TypeOK, CreateLock, CreateHashFails, CreateBalance, CreateUnlock,
           BalanceLock, BalanceRead, BalanceUnlock,
           TransferSameId, TransferLockSecond, DebitStore, CreditLoad, CreditStore,
           TransferReadBalance, TransferUnlockSecond, TransferUnlockFirst, Reply
  <2>2. QED
    BY <2>1 DEF Decided
<1>10. QED
  BY <1>1, <1>2, <1>3, <1>4, <1>5, <1>6, <1>7, <1>8, <1>9

\* What the start on a request changes.
LEMMA BeginFrame ==
    ASSUME TypeOK, NEW b \in Balconies, NEW r \in Requests, Begin(b, r)
    PROVE  /\ pc[b] = "idle"
           /\ pc'[b] \in {"create_lock", "balance_lock", "lock_first"}
           /\ req'[b] = r
           /\ \A c \in Balconies \ {b} : pc'[c] = pc[c] /\ req'[c] = req[c]
           /\ UNCHANGED <<account_id, hash, balance, mutex, ret_code, final_balance, reg>>
<1>1. r.type \in {"OP_CREATE_ACCOUNT", "OP_BALANCE", "OP_TRANSFER"}
  BY RequestsAssumption, RequestFields
<1>2. pc' = [pc EXCEPT ![b] = Handler(r)] /\ pc[b] = "idle"
  BY DEF Begin, Goto
<1>3. Handler(r) \in {"create_lock", "balance_lock", "lock_first"}
  BY <1>1 DEF Handler
<1>4. pc'[b] = Handler(r) /\ \A c \in Balconies \ {b} : pc'[c] = pc[c]
  BY <1>2 DEF TypeOK
<1>5. req'[b] = r /\ \A c \in Balconies \ {b} : req'[c] = req[c]
  BY DEF Begin, TypeOK
<1>6. UNCHANGED <<account_id, hash, balance, mutex, ret_code, final_balance, reg>>
  BY DEF Begin, database
<1>7. QED
  BY <1>2, <1>3, <1>4, <1>5, <1>6

\* What the handlers decided, at the start: nothing.
LEMMA BankInvInit == Init => BankInv
<1> SUFFICES ASSUME Init PROVE BankInv
  OBVIOUS
<1>1. IInv
  BY RangeInit
<1>2. KnownHashes
  BY AdminAssumption DEF Init, KnownHashes
<1>3. \A b \in Balconies : Decided(b)
  BY DEF Init, Decided
<1>4. QED
  BY <1>1, <1>2, <1>3 DEF BankInv

\* What a handler decided survives its own steps and those of all others.
LEMMA BankInvNext == BankInv /\ [Next]_vars => BankInv'
<1> SUFFICES ASSUME BankInv, [Next]_vars PROVE BankInv'
  OBVIOUS
<1>1. IInv'
  BY InvariantNext DEF BankInv
<1>2. ASSUME NEW b \in Balconies, Step(b)
      PROVE  KnownHashes' /\ \A c \in Balconies : Decided(c)'
  <2>1. TypeOK /\ KnownHashes /\ Decided(b)
    BY DEF BankInv, IInv
  <2>2. ASSUME NEW a \in AccountIds, account_id'[a] # EMPTY_ACCOUNT_ID
        PROVE  hash'[a] \in Passwords
    <3>1. CASE account_id[a] # EMPTY_ACCOUNT_ID
      BY <1>2, <2>1, <3>1, HashFrame DEF KnownHashes
    <3>2. CASE account_id[a] = EMPTY_ACCOUNT_ID
      <4>1. CreateId(b)
        BY <1>2, <2>2, <3>2
           DEF Step, database, CreateLock, CreateCheck, CreateHash, CreateHashFails,
               CreateBalance, CreateUnlock, BalanceLock, BalanceCheck,
               BalanceRead, BalanceUnlock, TransferLockFirst, TransferSameId,
               TransferLockSecond, TransferLogin, TransferValidate, DebitLoad,
               DebitStore, CreditLoad, CreditStore, TransferReadBalance,
               TransferUnlockSecond, TransferUnlockFirst, Reply
      <4>2. a = Target(b)
        BY <2>1, <2>2, <3>2, <4>1 DEF CreateId, TypeOK
      <4>3. hash[Target(b)] = req[b].new_password /\ req[b].new_password \in Passwords
        BY <2>1, <4>1, Operands DEF CreateId, CreatePcs, Decided
      <4>4. QED
        BY <4>1, <4>2, <4>3 DEF CreateId
    <3>3. QED
      BY <3>1, <3>2
  <2>3. \A c \in Balconies : Decided(c)'
    BY <1>2, OwnDecided, OthersDecided
  <2>4. QED
    BY <2>2, <2>3 DEF KnownHashes
<1>3. ASSUME NEW b \in Balconies, NEW r \in Requests, Begin(b, r)
      PROVE  KnownHashes' /\ \A c \in Balconies : Decided(c)'
  <2>1. /\ UNCHANGED <<account_id, hash, ret_code>>
        /\ pc'[b] \in {"create_lock", "balance_lock", "lock_first"}
        /\ \A c \in Balconies \ {b} : pc'[c] = pc[c] /\ req'[c] = req[c]
    BY <1>3, BeginFrame DEF BankInv, IInv
  <2>2. KnownHashes'
    BY <2>1 DEF BankInv, KnownHashes
  <2>3. Decided(b)'
    BY <2>1 DEF Decided
  <2>4. ASSUME NEW c \in Balconies \ {b} PROVE Decided(c)'
    BY <2>1, SameOperands DEF BankInv, Decided, Authenticate
  <2>5. QED
    BY <2>2, <2>3, <2>4
<1>4. ASSUME UNCHANGED vars
      PROVE  KnownHashes' /\ \A c \in Balconies : Decided(c)'
  <2>1. KnownHashes'
    BY <1>4 DEF BankInv, KnownHashes, vars, database
  <2>2. ASSUME NEW c \in Balconies PROVE Decided(c)'
    BY <1>4, SameOperands DEF BankInv, Decided, Authenticate, vars, database
  <2>3. QED
    BY <2>1, <2>2
<1>5. KnownHashes' /\ \A c \in Balconies : Decided(c)'
  BY <1>2, <1>3, <1>4 DEF Next
<1>6. QED
  BY <1>1, <1>5 DEF BankInv

\* What each handler decided holds until it acts on it, in every bank.
THEOREM BankInvariant == Spec => []BankInv
<1>1. QED
  BY BankInvInit, BankInvNext, PTL DEF Spec

-----------------------------------------------------------------------------
(* The money in an account, when one balcony makes a step.                 *)

\* A balcony that works on the balance of an account owns its mutex, and is the
\* only one to do so.
LEMMA OneWorks ==
    ASSUME IInv, NEW a \in AccountIds, NEW b \in Balconies,
           Opening(a, b) \/ Crediting(a, b)
    PROVE  /\ a \in Held(b)
           /\ \A c \in Balconies : Opening(a, c) \/ Crediting(a, c) => c = b
<1>1. \A c \in Balconies : Opening(a, c) \/ Crediting(a, c) => a \in Held(c)
  BY OpeningHolds, TransferHolds DEF IInv, Crediting
<1>2. QED
  BY <1>1, Exclusion DEF IInv

\* The money in account a, in a state of the invariant.
MoneyIs(a) ==
    /\ account_id[a] = EMPTY_ACCOUNT_ID => Money(a) = 0
    /\ account_id[a] # EMPTY_ACCOUNT_ID =>
        /\ \A b \in Balconies : Opening(a, b) => Money(a) = req[b].balance
        /\ \A b \in Balconies : Crediting(a, b) => Money(a) = balance[a] + Amount(b)
        /\ (\A b \in Balconies : ~Opening(a, b) /\ ~Crediting(a, b))
                => Money(a) = balance[a]
MoneyKnown == \A a \in AccountIds : MoneyIs(a) /\ Money(a) \in Int

\* The money of each account is known from its record and its owner.
LEMMA MoneyOf == IInv => MoneyKnown
<1> SUFFICES ASSUME IInv, NEW a \in AccountIds PROVE MoneyIs(a) /\ Money(a) \in Int
  BY DEF MoneyKnown
<1> DEFINE S == {c \in Balconies : Crediting(a, c)}
           f == [b \in S |-> Amount(b)]
<1>1. TypeOK /\ balance[a] \in Int
  BY DEF IInv, TypeOK, UInt32
<1>2. OnItsWay(a) = SumFunctionOnSet(f, S)
  <2>1. DOMAIN f = S
    OBVIOUS
  <2>2. QED
    BY <2>1 DEF OnItsWay, SumFunction
<1>3. \A b \in S : Amount(b) \in Int
  BY <1>1, TransferHolds DEF Crediting, UInt32
<1>4. CASE account_id[a] = EMPTY_ACCOUNT_ID
  BY <1>4 DEF Money, MoneyIs
<1>5. CASE account_id[a] # EMPTY_ACCOUNT_ID /\ \E b \in Balconies : Opening(a, b)
  <2>1. PICK b \in Balconies : Opening(a, b)
    BY <1>5
  <2>2. \A c \in Balconies : Opening(a, c) \/ Crediting(a, c) => c = b /\ Opening(a, c)
    BY <2>1, OneWorks DEF Opening, Crediting
  <2>3. (CHOOSE c \in Balconies : Opening(a, c)) = b
    BY <2>1, <2>2
  <2>4. Money(a) = req[b].balance
    BY <1>5, <2>1, <2>3 DEF Money
  <2>5. req[b].balance \in Int
    <3>1. req[b].balance \in 1 .. MAX_BALANCE
      BY <1>1, <2>1, Operands, AmountsFit DEF Opening, CreatePcs
    <3>2. QED
      BY <3>1, BalanceAssumption
  <2>6. ~Crediting(a, b)
    BY <2>1 DEF Opening, Crediting
  <2>7. QED
    BY <1>5, <2>1, <2>2, <2>4, <2>5, <2>6 DEF MoneyIs
<1>6. CASE account_id[a] # EMPTY_ACCOUNT_ID /\ \A b \in Balconies : ~Opening(a, b)
  <2>1. Money(a) = balance[a] + OnItsWay(a)
    BY <1>6 DEF Money
  <2>2. CASE S = {}
    <3>1. OnItsWay(a) = 0
      BY <1>2, <2>2, SumSplit, FS_EmptySet
    <3>2. QED
      BY <1>1, <1>6, <2>1, <2>2, <3>1 DEF MoneyIs
  <2>3. CASE S # {}
    <3>1. PICK b \in Balconies : Crediting(a, b)
      BY <2>3
    <3>2. S = {b}
      BY <3>1, OneWorks
    <3>3. IsFiniteSet(S) /\ b \in S /\ S \ {b} = {} /\ IsFiniteSet({})
      BY <3>2, FS_Singleton, FS_EmptySet
    <3>4. f[b] = Amount(b) /\ \A x \in S : f[x] \in Int
      BY <1>3, <3>3
    <3> HIDE DEF f, S
    <3>5. /\ SumFunctionOnSet(f, S) = f[b] + SumFunctionOnSet(f, S \ {b})
          /\ SumFunctionOnSet(f, {}) = 0
      BY <3>3, <3>4, SumSplit
    <3>6. OnItsWay(a) = Amount(b) /\ Amount(b) \in Int
      <4>1. Amount(b) \in Int
        BY <1>3, <3>3
      <4>2. OnItsWay(a) = Amount(b) + 0
        BY <1>2, <3>3, <3>4, <3>5
      <4>3. QED
        BY <4>1, <4>2
    <3>7. \A c \in Balconies : Crediting(a, c) => c = b
      BY <3>1, OneWorks
    <3>8. QED
      BY <1>1, <1>6, <2>1, <3>1, <3>6, <3>7 DEF MoneyIs
  <2>4. QED
    BY <2>2, <2>3
<1>7. QED
  BY <1>4, <1>5, <1>6

\* The same in the next state.
LEMMA MoneyOfNext == IInv' => MoneyKnown'
BY MoneyOf, PTL

\* A balcony only comes to work on an account whose mutex it owns.
LEMMA WorksOwn ==
    ASSUME BankInv, NEW b \in Balconies, Step(b), NEW a \in AccountIds,
           Opening(a, b)' \/ Crediting(a, b)'
    PROVE  a \in Held(b)
<1>1. TypeOK
  BY DEF BankInv, IInv
<1>2. CreateId(b) \/ DebitStore(b) \/ CreditLoad(b)
  BY <1>1
     DEF Step, TypeOK, Goto, Opening, Crediting, CreateLock, CreateCheck, CreateHash,
         CreateHashFails, CreateBalance, CreateUnlock, BalanceLock,
         BalanceCheck, BalanceRead, BalanceUnlock, TransferLockFirst,
         TransferSameId, TransferLockSecond, TransferLogin,
         TransferValidate, DebitLoad, CreditStore, TransferReadBalance,
         TransferUnlockSecond, TransferUnlockFirst, Reply
<1>3. a = Target(b)
  BY <1>2, SameOperands DEF CreateId, DebitStore, CreditLoad, Opening, Crediting
<1>4. CASE CreateId(b)
  BY <1>3, <1>4 DEF CreateId, Held, CreatePcs
<1>5. CASE DebitStore(b) \/ CreditLoad(b)
  BY <1>1, <1>3, <1>5, TransferHolds DEF DebitStore, CreditLoad
<1>6. QED
  BY <1>2, <1>4, <1>5

\* A balcony that is not b does the same work before and after a step of b.
LEMMA OthersWork ==
    ASSUME BankInv, NEW b \in Balconies, Step(b), NEW a \in AccountIds,
           NEW c \in Balconies \ {b}
    PROVE  /\ Opening(a, c)' <=> Opening(a, c)
           /\ Crediting(a, c)' <=> Crediting(a, c)
           /\ Amount(c)' = Amount(c) /\ req'[c] = req[c]
<1>1. pc'[c] = pc[c] /\ req'[c] = req[c]
  BY StepFrame DEF BankInv, IInv
<1>2. QED
  BY <1>1, SameOperands DEF Opening, Crediting

\* The money in an account that b does not own stays as it is.
LEMMA MoneyForeign ==
    ASSUME BankInv, NEW b \in Balconies, Step(b), BankInv',
           NEW a \in AccountIds \ Held(b)
    PROVE  Money(a)' = Money(a)
<1>1. MoneyIs(a) /\ MoneyIs(a)'
  BY MoneyOf, MoneyOfNext DEF BankInv, MoneyKnown
<1>2. balance'[a] = balance[a] /\ account_id'[a] = account_id[a]
  BY StepFrame DEF BankInv, IInv
<1>3. ~Opening(a, b) /\ ~Crediting(a, b) /\ ~Opening(a, b)' /\ ~Crediting(a, b)'
  BY WorksOwn, OneWorks DEF BankInv
<1>4. CASE account_id[a] = EMPTY_ACCOUNT_ID
  BY <1>1, <1>2, <1>4 DEF MoneyIs
<1>5. CASE account_id[a] # EMPTY_ACCOUNT_ID /\ \E c \in Balconies : Opening(a, c)
  <2>1. PICK c \in Balconies : Opening(a, c)
    BY <1>5
  <2>2. c # b
    BY <1>3, <2>1
  <2>3. Opening(a, c)' /\ req'[c] = req[c]
    BY <2>1, <2>2, OthersWork
  <2>4. QED
    BY <1>1, <1>2, <1>5, <2>1, <2>3 DEF MoneyIs
<1>6. CASE account_id[a] # EMPTY_ACCOUNT_ID /\ \E c \in Balconies : Crediting(a, c)
  <2>1. PICK c \in Balconies : Crediting(a, c)
    BY <1>6
  <2>2. c # b
    BY <1>3, <2>1
  <2>3. Crediting(a, c)' /\ Amount(c)' = Amount(c)
    BY <2>1, <2>2, OthersWork
  <2>4. QED
    BY <1>1, <1>2, <1>6, <2>1, <2>3 DEF MoneyIs
<1>7. CASE /\ account_id[a] # EMPTY_ACCOUNT_ID
           /\ \A c \in Balconies : ~Opening(a, c) /\ ~Crediting(a, c)
  <2>1. \A c \in Balconies : ~Opening(a, c)' /\ ~Crediting(a, c)'
    BY <1>3, <1>7, OthersWork
  <2>2. QED
    BY <1>1, <1>2, <1>7, <2>1 DEF MoneyIs
<1>8. QED
  BY <1>4, <1>5, <1>6, <1>7

\* The money in an account that b owns is what the work of b makes it.
OwnMoney(a, b) ==
    IF account_id[a] = EMPTY_ACCOUNT_ID THEN 0
    ELSE IF Opening(a, b) THEN req[b].balance
    ELSE IF Crediting(a, b) THEN balance[a] + Amount(b)
    ELSE balance[a]

\* The money of an account that b owns, before and after a step of b.
LEMMA OwnedMoney ==
    ASSUME BankInv, NEW b \in Balconies, Step(b), BankInv',
           NEW a \in AccountIds, a \in Held(b)
    PROVE  /\ Money(a) = OwnMoney(a, b)
           /\ Money(a)' = OwnMoney(a, b)'
<1>1. MoneyIs(a) /\ MoneyIs(a)'
  BY MoneyOf, MoneyOfNext DEF BankInv, MoneyKnown
<1>2. ASSUME NEW c \in Balconies, c # b
      PROVE  ~Opening(a, c) /\ ~Crediting(a, c)
  BY <1>2, OneWorks, Exclusion DEF BankInv, IInv
<1>3. ASSUME NEW c \in Balconies, c # b
      PROVE  ~Opening(a, c)' /\ ~Crediting(a, c)'
  BY <1>2, <1>3, OthersWork
<1>4. Money(a) = OwnMoney(a, b)
  BY <1>1, <1>2 DEF MoneyIs, OwnMoney
<1>5. Money(a)' = OwnMoney(a, b)'
  BY <1>1, <1>3 DEF MoneyIs, OwnMoney
<1>6. QED
  BY <1>4, <1>5

\* A creation deposits the opening balance when it publishes the account.
LEMMA MoneyOfCreation ==
    ASSUME BankInv, NEW b \in Balconies, BankInv', CreateId(b)
    PROVE  /\ Target(b) \in AccountIds
           /\ Money(Target(b)) = 0
           /\ \A a \in AccountIds :
                Money(a)' = IF a = Target(b) THEN req[b].balance ELSE Money(a)
<1>1. TypeOK /\ Decided(b) /\ Step(b)
  BY DEF BankInv, IInv, Step
<1>2. Held(b) = {Target(b)} /\ Target(b) \in AccountIds
  BY <1>1, Operands DEF CreateId, Held, CreatePcs
<1>3. account_id[Target(b)] = EMPTY_ACCOUNT_ID
  BY <1>1 DEF CreateId, Decided
<1>4. Money(Target(b)) = 0
  BY <1>1, <1>2, <1>3, OwnedMoney DEF OwnMoney
<1>5. /\ account_id'[Target(b)] # EMPTY_ACCOUNT_ID
      /\ pc'[b] = "create_balance" /\ req'[b] = req[b]
  BY <1>1, <1>2, IdsAreNumbers DEF CreateId, Goto, TypeOK
<1>6. ASSUME NEW a \in AccountIds, a = Target(b) PROVE Money(a)' = req[b].balance
  <2>1. Money(a)' = OwnMoney(a, b)'
    BY <1>1, <1>2, <1>6, OwnedMoney
  <2>2. QED
    BY <1>5, <1>6, <2>1, SameOperands DEF OwnMoney, Opening
<1>7. ASSUME NEW a \in AccountIds, a # Target(b) PROVE Money(a)' = Money(a)
  BY <1>1, <1>2, <1>7, MoneyForeign
<1>8. QED
  BY <1>2, <1>4, <1>6, <1>7

\* A transfer moves its amount when it debits the account of origin.
LEMMA MoneyOfTransfer ==
    ASSUME BankInv, NEW b \in Balconies, BankInv', DebitStore(b)
    PROVE  /\ Orig(b) \in AccountIds /\ Target(b) \in AccountIds
           /\ Orig(b) # Target(b) /\ Amount(b) \in Int
           /\ Money(Orig(b)) = balance[Orig(b)]
           /\ Money(Target(b)) = balance[Target(b)]
           /\ \A a \in AccountIds :
                Money(a)' = IF a = Orig(b) THEN Money(a) - Amount(b)
                            ELSE IF a = Target(b) THEN Money(a) + Amount(b)
                            ELSE Money(a)
<1>1. TypeOK /\ Established(b) /\ Step(b) /\ pc[b] = "debit_store"
  BY DEF BankInv, IInv, TransferFacts, Step, DebitStore
<1>2. /\ Held(b) = {Orig(b), Target(b)}
      /\ Orig(b) \in AccountIds /\ Target(b) \in AccountIds
      /\ Amount(b) \in UInt32 /\ Amount(b) \in Int
  BY <1>1, TransferHolds DEF UInt32
<1>3. Orig(b) # Target(b)
  BY <1>1, <1>2, Operands, PcFacts DEF BankInv, IInv, DistinctAccounts
<1>4. ASSUME NEW a \in AccountIds, a \in {Orig(b), Target(b)}
      PROVE  /\ account_id[a] # EMPTY_ACCOUNT_ID
             /\ Money(a) = balance[a] /\ Money(a)' = OwnMoney(a, b)'
  <2>1. account_id[a] # EMPTY_ACCOUNT_ID
    BY <1>1, <1>4 DEF Established
  <2>2. Money(a) = OwnMoney(a, b) /\ Money(a)' = OwnMoney(a, b)'
    BY <1>1, <1>2, <1>4, OwnedMoney
  <2>3. QED
    BY <1>1, <2>1, <2>2 DEF OwnMoney, Opening, Crediting
<1>5. /\ pc'[b] = "credit_load" /\ req'[b] = req[b] /\ UNCHANGED account_id
      /\ balance'[Target(b)] = balance[Target(b)]
      /\ balance'[Orig(b)] = balance[Orig(b)] - Amount(b)
  <2>1. reg[b] = balance[Orig(b)] /\ Amount(b) <= balance[Orig(b)]
    BY <1>1 DEF Established
  <2>2. balance[Orig(b)] \in UInt32
    BY <1>1, <1>2 DEF TypeOK
  <2>3. Sub32(reg[b], Amount(b)) = balance[Orig(b)] - Amount(b)
    BY <1>2, <2>1, <2>2, Arithmetic32
  <2>4. QED
    BY <1>1, <1>2, <1>3, <2>3 DEF DebitStore, Goto, TypeOK
<1>6. ASSUME NEW a \in AccountIds, a = Orig(b)
      PROVE  Money(a)' = Money(a) - Amount(b)
  <2>1. ~Opening(a, b)' /\ ~Crediting(a, b)'
    BY <1>3, <1>5, <1>6, SameOperands DEF Opening, Crediting
  <2>2. QED
    BY <1>4, <1>5, <1>6, <2>1 DEF OwnMoney
<1>7. ASSUME NEW a \in AccountIds, a = Target(b)
      PROVE  Money(a)' = Money(a) + Amount(b)
  <2>1. ~Opening(a, b)' /\ Crediting(a, b)' /\ Amount(b)' = Amount(b)
    BY <1>5, <1>7, SameOperands DEF Opening, Crediting
  <2>2. QED
    BY <1>4, <1>5, <1>7, <2>1 DEF OwnMoney
<1>8. ASSUME NEW a \in AccountIds, a \notin {Orig(b), Target(b)}
      PROVE  Money(a)' = Money(a)
  BY <1>1, <1>2, <1>8, MoneyForeign
<1>9. QED
  BY <1>2, <1>3, <1>4, <1>6, <1>7, <1>8

\* No other step of a handler changes the money in any account.
LEMMA MoneyKept ==
    ASSUME BankInv, NEW b \in Balconies, BankInv', Step(b),
           ~CreateId(b), ~DebitStore(b), NEW a \in AccountIds
    PROVE  Money(a)' = Money(a)
<1>1. TypeOK /\ Established(b) /\ Decided(b)
  BY DEF BankInv, IInv, TransferFacts
<1>2. CASE a \notin Held(b)
  BY <1>2, MoneyForeign
<1>3. CASE a \in Held(b)
  <2>1. Money(a) = OwnMoney(a, b) /\ Money(a)' = OwnMoney(a, b)'
    BY <1>3, OwnedMoney
  <2>2. CASE CreateBalance(b)
    <3>1. a = Target(b) /\ pc[b] = "create_balance" /\ Opening(a, b)
      BY <1>3, <2>2 DEF CreateBalance, Held, CreatePcs, Opening
    <3>2. account_id[a] # EMPTY_ACCOUNT_ID
      BY <1>1, <3>1 DEF Decided
    <3>3. /\ balance'[a] = req[b].balance /\ account_id'[a] = account_id[a]
          /\ pc'[b] = "create_unlock"
      BY <1>1, <2>2, <3>1 DEF CreateBalance, Goto, TypeOK
    <3>4. ~Opening(a, b)' /\ ~Crediting(a, b)'
      BY <3>3 DEF Opening, Crediting
    <3>5. QED
      BY <2>1, <3>1, <3>2, <3>3, <3>4 DEF OwnMoney
  <2>3. CASE CreditStore(b)
    <3>1. /\ pc[b] = "credit_store" /\ Held(b) = {Orig(b), Target(b)}
          /\ Target(b) \in AccountIds /\ Amount(b) \in UInt32
          /\ Amount(b) \in 1 .. MAX_BALANCE
      BY <1>1, <2>3, TransferHolds, AmountsFit DEF CreditStore
    <3>2. /\ account_id[Target(b)] # EMPTY_ACCOUNT_ID
          /\ balance[Target(b)] + Amount(b) <= MAX_BALANCE
          /\ reg[b] = balance[Target(b)] /\ balance[Target(b)] \in UInt32
      BY <1>1, <3>1 DEF Established, TypeOK
    <3>3. Add32(reg[b], Amount(b)) = balance[Target(b)] + Amount(b)
      <4>1. balance[Target(b)] + Amount(b) <= UINT32_MAX
        BY <3>1, <3>2, BalanceAssumption, WidthAssumption DEF UInt32
      <4>2. QED
        BY <3>1, <3>2, <4>1, Arithmetic32
    <3>4. /\ balance' = [balance EXCEPT ![Target(b)] = balance[Target(b)] + Amount(b)]
          /\ pc'[b] = "read_balance" /\ UNCHANGED account_id
      BY <1>1, <2>3, <3>3 DEF CreditStore, Goto, TypeOK
    <3>5. ~Opening(a, b)' /\ ~Crediting(a, b)' /\ ~Opening(a, b)
      BY <3>1, <3>4 DEF Opening, Crediting
    <3>6. CASE a = Target(b)
      <4>1. balance'[a] = balance[a] + Amount(b) /\ Crediting(a, b)
        BY <1>1, <3>1, <3>4, <3>6 DEF TypeOK, Crediting
      <4>2. QED
        BY <2>1, <3>4, <3>5, <4>1 DEF OwnMoney
    <3>7. CASE a # Target(b)
      <4>1. balance'[a] = balance[a] /\ ~Crediting(a, b)
        BY <1>1, <3>4, <3>7 DEF TypeOK, Crediting
      <4>2. QED
        BY <2>1, <3>4, <3>5, <4>1 DEF OwnMoney
    <3>8. QED
      BY <3>6, <3>7
  <2>4. CASE ~CreateBalance(b) /\ ~CreditStore(b)
    <3>1. UNCHANGED <<account_id, balance>>
      BY <2>4
         DEF Step, database, CreateLock, CreateCheck, CreateHash, CreateHashFails,
             CreateUnlock, BalanceLock, BalanceCheck, BalanceRead, BalanceUnlock,
             TransferLockFirst, TransferSameId, TransferLockSecond, TransferLogin,
             TransferValidate, DebitLoad, CreditLoad, TransferReadBalance,
             TransferUnlockSecond, TransferUnlockFirst, Reply
    <3>2. /\ pc[b] # "create_balance" /\ pc'[b] # "create_balance"
          /\ pc[b] \in {"credit_load", "credit_store"}
               <=> pc'[b] \in {"credit_load", "credit_store"}
      BY <1>1, <2>4
         DEF Step, TypeOK, Goto, CreateLock, CreateCheck, CreateHash, CreateHashFails,
             CreateUnlock, BalanceLock, BalanceCheck, BalanceRead, BalanceUnlock,
             TransferLockFirst, TransferSameId, TransferLockSecond, TransferLogin,
             TransferValidate, DebitLoad, CreditLoad, TransferReadBalance,
             TransferUnlockSecond, TransferUnlockFirst, Reply
    <3>3. pc[b] \in {"credit_load", "credit_store"} => req'[b] = req[b]
      BY <2>4
         DEF Step, CreateLock, CreateCheck, CreateHash, CreateHashFails,
             CreateUnlock, BalanceLock, BalanceCheck, BalanceRead, BalanceUnlock,
             TransferLockFirst, TransferSameId, TransferLockSecond, TransferLogin,
             TransferValidate, DebitLoad, CreditLoad, TransferReadBalance,
             TransferUnlockSecond, TransferUnlockFirst, Reply
    <3>4. QED
      BY <2>1, <3>1, <3>2, <3>3, SameOperands DEF OwnMoney, Opening, Crediting
  <2>5. QED
    BY <2>2, <2>3, <2>4
<1>4. QED
  BY <1>2, <1>3

\* A balcony that takes a request leaves the money alone.
LEMMA MoneyBegin ==
    ASSUME BankInv, NEW b \in Balconies, BankInv', NEW r \in Requests, Begin(b, r),
           NEW a \in AccountIds
    PROVE  Money(a)' = Money(a)
<1>1. MoneyIs(a) /\ MoneyIs(a)'
  BY MoneyOf, MoneyOfNext DEF BankInv, MoneyKnown
<1>2. /\ pc[b] = "idle" /\ pc'[b] \in {"create_lock", "balance_lock", "lock_first"}
      /\ \A c \in Balconies \ {b} : pc'[c] = pc[c] /\ req'[c] = req[c]
      /\ UNCHANGED <<account_id, balance>>
  BY BeginFrame DEF BankInv, IInv
<1>3. ASSUME NEW c \in Balconies
      PROVE  /\ Opening(a, c)' <=> Opening(a, c)
             /\ Crediting(a, c)' <=> Crediting(a, c)
             /\ Opening(a, c) \/ Crediting(a, c) =>
                    Amount(c)' = Amount(c) /\ req'[c] = req[c]
  BY <1>2, SameOperands DEF Opening, Crediting
<1>4. QED
  BY <1>1, <1>2, <1>3 DEF MoneyIs

\* The money when nothing changes.
LEMMA MoneyStutter ==
    ASSUME BankInv, BankInv', UNCHANGED vars, NEW a \in AccountIds
    PROVE  Money(a)' = Money(a)
<1>1. MoneyIs(a) /\ MoneyIs(a)'
  BY MoneyOf, MoneyOfNext DEF BankInv, MoneyKnown
<1>2. ASSUME NEW c \in Balconies
      PROVE  /\ Opening(a, c)' <=> Opening(a, c)
             /\ Crediting(a, c)' <=> Crediting(a, c)
             /\ Amount(c)' = Amount(c) /\ req'[c] = req[c]
  BY SameOperands DEF Opening, Crediting, vars
<1>3. UNCHANGED <<account_id, balance>>
  BY DEF vars, database
<1>4. QED
  BY <1>1, <1>2, <1>3 DEF MoneyIs

-----------------------------------------------------------------------------
(* Conservation of money.                                                  *)

\* Sums of functions that agree, but for one element.
LEMMA SumSame ==
    ASSUME NEW S, IsFiniteSet(S), NEW f, NEW g,
           \A x \in S : f[x] \in Int /\ f[x] = g[x]
    PROVE  SumFunctionOnSet(f, S) = SumFunctionOnSet(g, S)
<1> DEFINE P == {T \in SUBSET S : SumFunctionOnSet(f, T) = SumFunctionOnSet(g, T)}
<1>1. ASSUME NEW T \in SUBSET S, \A U \in SUBSET T : U # T => U \in P
      PROVE  T \in P
  <2>1. IsFiniteSet(T) /\ \A x \in T : f[x] \in Int /\ g[x] \in Int
    BY FS_Subset
  <2>2. CASE T = {}
    BY <2>1, <2>2, SumSplit
  <2>3. CASE T # {}
    <3>1. PICK x \in T : TRUE
      BY <2>3
    <3>2. T \ {x} \in P
      BY <1>1
    <3>3. /\ SumFunctionOnSet(f, T) = f[x] + SumFunctionOnSet(f, T \ {x})
          /\ SumFunctionOnSet(g, T) = g[x] + SumFunctionOnSet(g, T \ {x})
      BY <2>1, SumSplit
    <3>4. QED
      BY <3>2, <3>3
  <2>4. QED
    BY <2>2, <2>3
<1>2. S \in P
  <2> HIDE DEF P
  <2>1. QED
    BY <1>1, SubsetInduction
<1>3. QED
  BY <1>2

\* A sum of which one term changes.
LEMMA SumChange ==
    ASSUME NEW S, IsFiniteSet(S), NEW f, NEW g, NEW x \in S,
           \A y \in S : f[y] \in Int /\ g[y] \in Int,
           \A y \in S \ {x} : f[y] = g[y]
    PROVE  SumFunctionOnSet(g, S) = SumFunctionOnSet(f, S) + (g[x] - f[x])
<1> DEFINE R == S \ {x}
<1>1. IsFiniteSet(R)
  BY FS_Subset
<1>2. SumFunctionOnSet(f, R) = SumFunctionOnSet(g, R)
  BY <1>1, SumSame
<1>3. SumFunctionOnSet(f, R) \in Int
  BY <1>1, SumSplit
<1>4. /\ SumFunctionOnSet(f, S) = f[x] + SumFunctionOnSet(f, R)
      /\ SumFunctionOnSet(g, S) = g[x] + SumFunctionOnSet(g, R)
  BY SumSplit
<1>5. f[x] \in Int /\ g[x] \in Int
  OBVIOUS
<1> HIDE DEF R
<1>6. QED
  BY <1>2, <1>3, <1>4, <1>5

\* The total of the accounts, as a sum over all of them.
LEMMA Totals ==
    ASSUME BankInv, BankInv'
    PROVE  /\ IsFiniteSet(AccountIds)
           /\ \A a \in AccountIds : BankFunds[a] = Money(a) /\ BankFunds[a] \in Int
           /\ \A a \in AccountIds : BankFunds'[a] = Money(a)' /\ BankFunds'[a] \in Int
           /\ TotalMoney = SumFunctionOnSet(BankFunds, AccountIds)
           /\ TotalMoney' = SumFunctionOnSet(BankFunds', AccountIds)
           /\ TotalMoney \in Int
<1>1. IsFiniteSet(AccountIds)
  BY AccountsAssumption, FS_Interval DEF AccountIds
<1>2. MoneyKnown /\ MoneyKnown'
  BY MoneyOf, MoneyOfNext DEF BankInv
<1>3. \A a \in AccountIds : BankFunds[a] = Money(a) /\ BankFunds[a] \in Int
  BY <1>2 DEF BankFunds, MoneyKnown
<1>4. \A a \in AccountIds : BankFunds'[a] = Money(a)' /\ BankFunds'[a] \in Int
  BY <1>2 DEF BankFunds, MoneyKnown
<1>5. TotalMoney = SumFunctionOnSet(BankFunds, AccountIds)
  BY DEF TotalMoney, SumFunction, BankFunds
<1>6. TotalMoney' = SumFunctionOnSet(BankFunds', AccountIds)
  BY DEF TotalMoney, SumFunction, BankFunds
<1>7. TotalMoney \in Int
  BY <1>1, <1>3, <1>5, SumSplit
<1>8. QED
  BY <1>1, <1>3, <1>4, <1>5, <1>6, <1>7

\* A step deposits the opening balance of the account that it creates, if any.
LEMMA DepositOfOne ==
    ASSUME NEW b, Creating = {b}, req[b].balance \in Int
    PROVE  Deposited = req[b].balance
<1> DEFINE f == [c \in Creating |-> req[c].balance]
<1>1. Deposited = SumFunctionOnSet(f, {b})
  BY DEF Deposited, SumFunction
<1>2. f[b] = req[b].balance
  OBVIOUS
<1> HIDE DEF f
<1>3. IsFiniteSet({b}) /\ {b} \ {b} = {} /\ IsFiniteSet({})
  BY FS_Singleton, FS_EmptySet
<1>4. /\ SumFunctionOnSet(f, {b}) = f[b] + SumFunctionOnSet(f, {b} \ {b})
      /\ SumFunctionOnSet(f, {}) = 0
  BY <1>2, <1>3, SumSplit
<1>5. QED
  BY <1>1, <1>2, <1>3, <1>4

\* Nothing is deposited when no account is being created.
LEMMA DepositOfNone ==
    ASSUME Creating = {}
    PROVE  Deposited = 0
<1> DEFINE f == [c \in Creating |-> req[c].balance]
<1>1. Deposited = SumFunctionOnSet(f, {})
  BY DEF Deposited, SumFunction
<1> HIDE DEF f
<1>2. QED
  BY <1>1, FS_EmptySet, SumSplit

\* Every step keeps the total, but for the opening balance of a creation.
LEMMA Conservation ==
    BankInv /\ BankInv' /\ [Next]_vars => TotalMoney' = TotalMoney + Deposited
<1> SUFFICES ASSUME BankInv, BankInv', [Next]_vars
             PROVE  TotalMoney' = TotalMoney + Deposited
  OBVIOUS
<1> DEFINE f == BankFunds
           g == BankFunds'
<1>1. /\ IsFiniteSet(AccountIds)
      /\ \A a \in AccountIds : f[a] = Money(a) /\ f[a] \in Int
      /\ \A a \in AccountIds : g[a] = Money(a)' /\ g[a] \in Int
      /\ TotalMoney = SumFunctionOnSet(f, AccountIds)
      /\ TotalMoney' = SumFunctionOnSet(g, AccountIds)
      /\ TotalMoney \in Int
  BY Totals
<1> HIDE DEF f, g
<1>2. ASSUME \A a \in AccountIds : Money(a)' = Money(a), Creating = {}
      PROVE  TotalMoney' = TotalMoney + Deposited
  <2>1. TotalMoney' = TotalMoney
    BY <1>1, <1>2, SumSame
  <2>2. QED
    BY <1>1, <1>2, <2>1, DepositOfNone
<1>3. ASSUME UNCHANGED vars PROVE TotalMoney' = TotalMoney + Deposited
  <2>1. Creating = {}
    BY <1>3 DEF vars, Creating
  <2>2. QED
    BY <1>2, <1>3, <2>1, MoneyStutter
<1>4. ASSUME NEW b \in Balconies, NEW r \in Requests, Begin(b, r)
      PROVE  TotalMoney' = TotalMoney + Deposited
  <2>1. Creating = {}
    BY <1>4, BeginFrame DEF BankInv, IInv, Creating
  <2>2. QED
    BY <1>2, <1>4, <2>1, MoneyBegin
<1>5. ASSUME NEW b \in Balconies, CreateId(b)
      PROVE  TotalMoney' = TotalMoney + Deposited
  <2>1. TypeOK /\ Step(b)
    BY <1>5 DEF BankInv, IInv, Step
  <2>2. Creating = {b}
    <3>1. pc[b] = "create_id" /\ pc'[b] # pc[b]
      BY <1>5, <2>1 DEF CreateId, Goto, TypeOK
    <3>2. \A c \in Balconies \ {b} : pc'[c] = pc[c]
      BY <2>1, StepFrame
    <3>3. QED
      BY <3>1, <3>2 DEF Creating
  <2>3. req[b].balance \in 1 .. MAX_BALANCE
    BY <1>5, <2>1, Operands, AmountsFit DEF CreateId, CreatePcs
  <2>4. Deposited = req[b].balance /\ req[b].balance \in Int
    BY <2>2, <2>3, DepositOfOne, BalanceAssumption
  <2>5. /\ Target(b) \in AccountIds
        /\ f[Target(b)] = 0 /\ g[Target(b)] = req[b].balance
        /\ \A a \in AccountIds \ {Target(b)} : f[a] = g[a]
    BY <1>1, <1>5, MoneyOfCreation
  <2>6. TotalMoney' = TotalMoney + (g[Target(b)] - f[Target(b)])
    <3>1. \A a \in AccountIds : f[a] \in Int /\ g[a] \in Int
      BY <1>1
    <3>2. SumFunctionOnSet(g, AccountIds)
              = SumFunctionOnSet(f, AccountIds) + (g[Target(b)] - f[Target(b)])
      BY <1>1, <2>5, <3>1, SumChange
    <3>3. QED
      BY <1>1, <3>2
  <2>7. QED
    BY <1>1, <2>4, <2>5, <2>6
<1>6. ASSUME NEW b \in Balconies, DebitStore(b)
      PROVE  TotalMoney' = TotalMoney + Deposited
  <2>1. TypeOK /\ Step(b) /\ pc[b] = "debit_store"
    BY <1>6 DEF BankInv, IInv, Step, DebitStore
  <2>2. Creating = {}
    <3>1. \A c \in Balconies \ {b} : pc'[c] = pc[c]
      BY <2>1, StepFrame
    <3>2. QED
      BY <2>1, <3>1 DEF Creating
  <2> DEFINE o == Orig(b)
             t == Target(b)
             h == [f EXCEPT ![o] = f[o] - Amount(b)]
  <2>3. /\ o \in AccountIds /\ t \in AccountIds /\ o # t /\ Amount(b) \in Int
        /\ g[o] = f[o] - Amount(b) /\ g[t] = f[t] + Amount(b)
        /\ \A a \in AccountIds \ {o, t} : f[a] = g[a]
    BY <1>1, <1>6, MoneyOfTransfer
  <2>4. DOMAIN f = AccountIds
    BY DEF f, BankFunds
  <2>5. /\ h[o] = f[o] - Amount(b)
        /\ \A a \in AccountIds \ {o} : h[a] = f[a]
    BY <2>3, <2>4
  <2> HIDE DEF h, o, t
  <2>6. /\ \A a \in AccountIds : h[a] \in Int
        /\ \A a \in AccountIds \ {t} : h[a] = g[a]
    BY <1>1, <2>3, <2>5
  <2>7. SumFunctionOnSet(h, AccountIds)
            = SumFunctionOnSet(f, AccountIds) + (h[o] - f[o])
    BY <1>1, <2>3, <2>5, <2>6, SumChange
  <2>8. SumFunctionOnSet(g, AccountIds)
            = SumFunctionOnSet(h, AccountIds) + (g[t] - h[t])
    <3>1. \A a \in AccountIds : h[a] \in Int /\ g[a] \in Int
      BY <1>1, <2>6
    <3>2. \A a \in AccountIds \ {t} : h[a] = g[a]
      BY <2>6
    <3>3. IsFiniteSet(AccountIds) /\ t \in AccountIds
      BY <1>1, <2>3
    <3>4. QED
      BY <3>1, <3>2, <3>3, SumChange
  <2>9. /\ f[o] \in Int /\ f[t] \in Int /\ h[t] = f[t]
        /\ SumFunctionOnSet(f, AccountIds) \in Int
    BY <1>1, <2>3, <2>5
  <2>10. TotalMoney' = TotalMoney
    BY <1>1, <2>3, <2>5, <2>7, <2>8, <2>9
  <2>11. QED
    BY <1>1, <2>2, <2>10, DepositOfNone
<1>7. ASSUME NEW b \in Balconies, Step(b), ~CreateId(b), ~DebitStore(b)
      PROVE  TotalMoney' = TotalMoney + Deposited
  <2>1. TypeOK
    BY DEF BankInv, IInv
  <2>2. \A c \in Balconies \ {b} : pc'[c] = pc[c]
    BY <1>7, <2>1, StepFrame
  <2>3. pc[b] # "create_id"
    BY <1>7
       DEF Step, CreateLock, CreateCheck, CreateHash, CreateHashFails, CreateBalance,
           CreateUnlock, BalanceLock, BalanceCheck, BalanceRead, BalanceUnlock,
           TransferLockFirst, TransferSameId, TransferLockSecond, TransferLogin,
           TransferValidate, DebitLoad, CreditLoad, CreditStore,
           TransferReadBalance, TransferUnlockSecond, TransferUnlockFirst, Reply
  <2>4. Creating = {}
    BY <2>2, <2>3 DEF Creating
  <2>5. QED
    BY <1>2, <1>7, <2>4, MoneyKept
<1>8. QED
  BY <1>3, <1>4, <1>5, <1>6, <1>7 DEF Next

\* Money is neither lost nor made, whatever the balconies do at once: the total of
\* the accounts only grows, by the opening balance of an account, in the step that
\* creates it (requests.c:106-109, account_utilities.c:37-38).
THEOREM MoneyIsConserved == Spec => MoneyConserved
<1>1. BankInv /\ BankInv' /\ [Next]_vars => [TotalMoney' = TotalMoney + Deposited]_vars
  BY Conservation
<1>2. QED
  BY <1>1, BankInvariant, PTL DEF Spec, MoneyConserved

-----------------------------------------------------------------------------
(* The codes: the order of the checks in requests.c is that of types.h.    *)

\* The errors that the bank knows, in the order of the enumeration.
BankErrors == {"RC_LOGIN_FAIL", "RC_OP_NALLOW", "RC_ID_IN_USE", "RC_ID_NOT_FOUND",
               "RC_SAME_ID", "RC_NO_FUNDS", "RC_TOO_HIGH"}

\* The first error of a set is the one that no earlier return code precedes.
LEMMA FirstErrorIs ==
    ASSUME NEW E, NEW i \in 1 .. 12, ret_code_t[i] \in E,
           \A j \in 1 .. i - 1 : ret_code_t[j] \notin E
    PROVE  B!FirstError(E) = ret_code_t[i]
<1> DEFINE OK(k) == ret_code_t[k] \in E /\ \A j \in 1 .. k - 1 : ret_code_t[j] \notin E
           c == CHOOSE k \in 1 .. 12 : OK(k)
<1>1. c \in 1 .. 12 /\ OK(c)
  OBVIOUS
<1> HIDE DEF c
<1>2. c = i
  <2>1. ~(c < i)
    BY <1>1
  <2>2. ~(i < c)
    BY <1>1
  <2>3. QED
    BY <1>1, <2>1, <2>2
<1>3. E # {}
  OBVIOUS
<1>4. QED
  BY <1>2, <1>3 DEF B!FirstError, B!ret_code_t, ret_code_t, c

\* The first of some of these errors.
LEMMA FirstOf ==
    ASSUME NEW E, E \subseteq BankErrors
    PROVE  /\ E = {} => B!FirstError(E) = "RC_OK"
           /\ "RC_LOGIN_FAIL" \in E => B!FirstError(E) = "RC_LOGIN_FAIL"
           /\ "RC_LOGIN_FAIL" \notin E =>
              /\ "RC_OP_NALLOW" \in E => B!FirstError(E) = "RC_OP_NALLOW"
              /\ "RC_OP_NALLOW" \notin E =>
                 /\ "RC_ID_IN_USE" \in E => B!FirstError(E) = "RC_ID_IN_USE"
                 /\ "RC_ID_IN_USE" \notin E =>
                    /\ "RC_ID_NOT_FOUND" \in E => B!FirstError(E) = "RC_ID_NOT_FOUND"
                    /\ "RC_ID_NOT_FOUND" \notin E =>
                       /\ "RC_SAME_ID" \in E => B!FirstError(E) = "RC_SAME_ID"
                       /\ "RC_SAME_ID" \notin E =>
                          /\ "RC_NO_FUNDS" \in E => B!FirstError(E) = "RC_NO_FUNDS"
                          /\ "RC_NO_FUNDS" \notin E /\ "RC_TOO_HIGH" \in E
                                => B!FirstError(E) = "RC_TOO_HIGH"
<1>1. /\ ret_code_t[1] = "RC_OK" /\ ret_code_t[2] = "RC_SRV_DOWN"
      /\ ret_code_t[3] = "RC_SRV_TIMEOUT" /\ ret_code_t[4] = "RC_USR_DOWN"
      /\ ret_code_t[5] = "RC_LOGIN_FAIL" /\ ret_code_t[6] = "RC_OP_NALLOW"
      /\ ret_code_t[7] = "RC_ID_IN_USE" /\ ret_code_t[8] = "RC_ID_NOT_FOUND"
      /\ ret_code_t[9] = "RC_SAME_ID" /\ ret_code_t[10] = "RC_NO_FUNDS"
      /\ ret_code_t[11] = "RC_TOO_HIGH"
  BY DEF ret_code_t
<1>2. \A j \in 1 .. 4 : ret_code_t[j] \notin E
  BY <1>1 DEF BankErrors
<1>3. E = {} => B!FirstError(E) = "RC_OK"
  BY DEF B!FirstError
<1>4. ASSUME "RC_LOGIN_FAIL" \in E PROVE B!FirstError(E) = "RC_LOGIN_FAIL"
  BY <1>1, <1>2, <1>4, FirstErrorIs, 5 \in 1 .. 12, 5 - 1 = 4
<1>5. ASSUME "RC_LOGIN_FAIL" \notin E PROVE \A j \in 1 .. 5 : ret_code_t[j] \notin E
  BY <1>1, <1>2, <1>5
<1>6. ASSUME "RC_LOGIN_FAIL" \notin E, "RC_OP_NALLOW" \in E
      PROVE  B!FirstError(E) = "RC_OP_NALLOW"
  BY <1>1, <1>5, <1>6, FirstErrorIs, 6 \in 1 .. 12, 6 - 1 = 5
<1>7. ASSUME "RC_LOGIN_FAIL" \notin E, "RC_OP_NALLOW" \notin E
      PROVE  \A j \in 1 .. 6 : ret_code_t[j] \notin E
  BY <1>1, <1>5, <1>7
<1>8. ASSUME "RC_LOGIN_FAIL" \notin E, "RC_OP_NALLOW" \notin E, "RC_ID_IN_USE" \in E
      PROVE  B!FirstError(E) = "RC_ID_IN_USE"
  BY <1>1, <1>7, <1>8, FirstErrorIs, 7 \in 1 .. 12, 7 - 1 = 6
<1>9. ASSUME "RC_LOGIN_FAIL" \notin E, "RC_OP_NALLOW" \notin E, "RC_ID_IN_USE" \notin E
      PROVE  \A j \in 1 .. 7 : ret_code_t[j] \notin E
  BY <1>1, <1>7, <1>9
<1>10. ASSUME "RC_LOGIN_FAIL" \notin E, "RC_OP_NALLOW" \notin E, "RC_ID_IN_USE" \notin E,
              "RC_ID_NOT_FOUND" \in E
       PROVE  B!FirstError(E) = "RC_ID_NOT_FOUND"
  BY <1>1, <1>9, <1>10, FirstErrorIs, 8 \in 1 .. 12, 8 - 1 = 7
<1>11. ASSUME "RC_LOGIN_FAIL" \notin E, "RC_OP_NALLOW" \notin E, "RC_ID_IN_USE" \notin E,
              "RC_ID_NOT_FOUND" \notin E
       PROVE  \A j \in 1 .. 8 : ret_code_t[j] \notin E
  BY <1>1, <1>9, <1>11
<1>12. ASSUME "RC_LOGIN_FAIL" \notin E, "RC_OP_NALLOW" \notin E, "RC_ID_IN_USE" \notin E,
              "RC_ID_NOT_FOUND" \notin E, "RC_SAME_ID" \in E
       PROVE  B!FirstError(E) = "RC_SAME_ID"
  BY <1>1, <1>11, <1>12, FirstErrorIs, 9 \in 1 .. 12, 9 - 1 = 8
<1>13. ASSUME "RC_LOGIN_FAIL" \notin E, "RC_OP_NALLOW" \notin E, "RC_ID_IN_USE" \notin E,
              "RC_ID_NOT_FOUND" \notin E, "RC_SAME_ID" \notin E
       PROVE  \A j \in 1 .. 9 : ret_code_t[j] \notin E
  BY <1>1, <1>11, <1>13
<1>14. ASSUME "RC_LOGIN_FAIL" \notin E, "RC_OP_NALLOW" \notin E, "RC_ID_IN_USE" \notin E,
              "RC_ID_NOT_FOUND" \notin E, "RC_SAME_ID" \notin E, "RC_NO_FUNDS" \in E
       PROVE  B!FirstError(E) = "RC_NO_FUNDS"
  BY <1>1, <1>13, <1>14, FirstErrorIs, 10 \in 1 .. 12, 10 - 1 = 9
<1>15. ASSUME "RC_LOGIN_FAIL" \notin E, "RC_OP_NALLOW" \notin E, "RC_ID_IN_USE" \notin E,
              "RC_ID_NOT_FOUND" \notin E, "RC_SAME_ID" \notin E, "RC_NO_FUNDS" \notin E,
              "RC_TOO_HIGH" \in E
       PROVE  B!FirstError(E) = "RC_TOO_HIGH"
  <2>1. \A j \in 1 .. 10 : ret_code_t[j] \notin E
    BY <1>1, <1>13, <1>15
  <2>2. QED
    BY <1>1, <2>1, <1>15, FirstErrorIs, 11 \in 1 .. 12, 11 - 1 = 10
<1>16. QED
  BY <1>3, <1>4, <1>6, <1>8, <1>10, <1>12, <1>14, <1>15

\* Which errors the bank sees in a request.
LEMMA BankErrorsOf ==
    ASSUME NEW r
    PROVE  /\ B!Errors(r) \subseteq BankErrors
           /\ "RC_LOGIN_FAIL" \in B!Errors(r) <=> BankPassword[r.orig] # r.password
           /\ "RC_OP_NALLOW" \in B!Errors(r) <=>
                (r.type = "OP_CREATE_ACCOUNT") # (r.orig = ADMIN_ACCOUNT_ID)
           /\ "RC_ID_IN_USE" \in B!Errors(r) <=>
                r.type = "OP_CREATE_ACCOUNT" /\ BankPassword[r.account_id] # NoPassword
           /\ "RC_ID_NOT_FOUND" \in B!Errors(r) <=>
                r.type = "OP_TRANSFER" /\ BankPassword[r.account_id] = NoPassword
           /\ "RC_SAME_ID" \in B!Errors(r) <=>
                r.type = "OP_TRANSFER" /\ r.orig = r.account_id
           /\ "RC_NO_FUNDS" \in B!Errors(r) <=>
                r.type = "OP_TRANSFER" /\ BankFunds[r.orig] < r.amount
           /\ "RC_TOO_HIGH" \in B!Errors(r) <=>
                r.type = "OP_TRANSFER" /\ BankFunds[r.account_id] + r.amount > MAX_BALANCE
<1>1. BankErrors \subseteq B!RetCodes
  <2>1. BankErrors \subseteq RetCodes
    BY Codes DEF BankErrors
  <2>2. QED
    BY <2>1 DEF B!RetCodes, B!ret_code_t, RetCodes, ret_code_t
<1>2. QED
  BY <1>1 DEF B!Errors, B!Exists, B!NoPassword, NoPassword,
              B!ADMIN_ACCOUNT_ID, ADMIN_ACCOUNT_ID, BankErrors

\* What the bank knows of the accounts.
LEMMA BankKnows ==
    ASSUME BankInv, NEW a \in AccountIds
    PROVE  /\ BankPassword[a] = NoPassword <=> account_id[a] = EMPTY_ACCOUNT_ID
           /\ \A pwd \in Passwords : Authenticate(pwd, a) <=> BankPassword[a] = pwd
           /\ BankFunds[a] = Money(a)
<1>1. KnownHashes
  BY DEF BankInv
<1>2. QED
  BY <1>1, PasswordAssumption DEF KnownHashes, BankPassword, BankFunds, Authenticate

\* The fund of an account that a balcony owns, and is not working on, is its balance.
LEMMA OwnedFunds ==
    ASSUME BankInv, NEW b \in Balconies, NEW a \in AccountIds, a \in Held(b),
           account_id[a] # EMPTY_ACCOUNT_ID,
           pc[b] \notin {"create_balance", "credit_load", "credit_store"}
    PROVE  BankFunds[a] = balance[a]
<1>1. MoneyIs(a)
  BY MoneyOf DEF BankInv, MoneyKnown
<1>2. ASSUME NEW c \in Balconies PROVE ~Opening(a, c) /\ ~Crediting(a, c)
  <2>1. CASE c = b
    BY <2>1 DEF Opening, Crediting
  <2>2. CASE c # b
    BY <2>2, OneWorks, Exclusion DEF BankInv, IInv
  <2>3. QED
    BY <2>1, <2>2
<1>3. QED
  BY <1>1, <1>2, BankKnows DEF MoneyIs

\* The checks of the three handlers answer what the bank answers.
LEMMA CreateAnswers ==
    ASSUME BankInv, NEW b \in Balconies, pc[b] \in CreatePcs
    PROVE  /\ IsValidCreateRequest(b) = B!FirstError(B!Errors(req[b]))
           /\ IsValidCreateRequest(b) = "RC_OK" <=> B!Errors(req[b]) = {}
<1> DEFINE r == req[b]
           E == B!Errors(req[b])
<1>1. /\ r.type = "OP_CREATE_ACCOUNT" /\ r.password \in Passwords
      /\ Orig(b) = r.orig /\ r.orig \in AccountIds
      /\ Target(b) = r.account_id /\ r.account_id \in AccountIds
  <2>1. r \in CreateRequests
    BY DEF BankInv, IInv, TypeOK
  <2>2. QED
    BY <2>1 DEF CreateRequests, UserAccountIds, Orig, Target
<1>2. /\ "RC_LOGIN_FAIL" \in E <=> ~Authenticate(r.password, Orig(b))
      /\ "RC_OP_NALLOW" \in E <=> Orig(b) # ADMIN_ACCOUNT_ID
      /\ "RC_ID_IN_USE" \in E <=> account_id[Target(b)] # EMPTY_ACCOUNT_ID
      /\ "RC_ID_NOT_FOUND" \notin E /\ "RC_SAME_ID" \notin E
      /\ "RC_NO_FUNDS" \notin E /\ "RC_TOO_HIGH" \notin E
      /\ E \subseteq BankErrors
  BY <1>1, BankErrorsOf, BankKnows
<1> HIDE DEF E
<1>3. QED
  BY <1>2, FirstOf DEF IsValidCreateRequest, BankErrors, E

\* The checks of a balance request find the error that the bank finds.
LEMMA BalanceAnswers ==
    ASSUME BankInv, NEW b \in Balconies, pc[b] \in BalancePcs
    PROVE  /\ IsValidBalanceRequest(b) = B!FirstError(B!Errors(req[b]))
           /\ IsValidBalanceRequest(b) = "RC_OK" <=> B!Errors(req[b]) = {}
<1> DEFINE r == req[b]
           E == B!Errors(req[b])
<1>1. /\ r.type = "OP_BALANCE" /\ r.password \in Passwords
      /\ Orig(b) = r.orig /\ r.orig \in AccountIds
  <2>1. r \in BalanceRequests
    BY DEF BankInv, IInv, TypeOK
  <2>2. QED
    BY <2>1 DEF BalanceRequests, Orig
<1>2. /\ "RC_LOGIN_FAIL" \in E <=> ~Authenticate(r.password, Orig(b))
      /\ "RC_OP_NALLOW" \in E <=> Orig(b) = ADMIN_ACCOUNT_ID
      /\ "RC_ID_IN_USE" \notin E
      /\ "RC_ID_NOT_FOUND" \notin E /\ "RC_SAME_ID" \notin E
      /\ "RC_NO_FUNDS" \notin E /\ "RC_TOO_HIGH" \notin E
      /\ E \subseteq BankErrors
  BY <1>1, BankErrorsOf, BankKnows
<1> HIDE DEF E
<1>3. QED
  BY <1>2, FirstOf DEF IsValidBalanceRequest, BankErrors, E

\* A wrong password is the first error of any request.
LEMMA LoginFails ==
    ASSUME BankInv, NEW r, r.orig \in AccountIds, r.password \in Passwords,
           ~Authenticate(r.password, r.orig)
    PROVE  B!FirstError(B!Errors(r)) = "RC_LOGIN_FAIL" /\ B!Errors(r) # {}
<1> DEFINE E == B!Errors(r)
<1>1. "RC_LOGIN_FAIL" \in E /\ E \subseteq BankErrors
  BY BankErrorsOf, BankKnows
<1> HIDE DEF E
<1>2. QED
  BY <1>1, FirstOf DEF E

\* The fields of a transfer that has both mutexes, or the one of both accounts.
LEMMA TransferOwns ==
    ASSUME BankInv, NEW b \in Balconies,
           pc[b] \in {"same_id", "login", "validate", "debit_load", "debit_store"}
    PROVE  /\ req[b].type = "OP_TRANSFER" /\ req[b].password \in Passwords
           /\ Orig(b) = req[b].orig /\ Orig(b) \in AccountIds
           /\ Target(b) = req[b].account_id /\ Target(b) \in UserAccountIds
           /\ Amount(b) = req[b].amount /\ Amount(b) \in 1 .. MAX_BALANCE
           /\ Orig(b) \in Held(b) /\ Target(b) \in Held(b)
           /\ Target(b) \in AccountIds
<1>1. TypeOK /\ Decided(b)
  BY DEF BankInv, IInv
<1>2. req[b] \in TransferRequests
  BY <1>1, PcFacts DEF TypeOK
<1>3. /\ req[b].type = "OP_TRANSFER" /\ req[b].password \in Passwords
      /\ Orig(b) = req[b].orig /\ Orig(b) \in AccountIds
      /\ Target(b) = req[b].account_id /\ Target(b) \in UserAccountIds
      /\ Amount(b) = req[b].amount /\ Amount(b) \in Amounts
      /\ Target(b) \in AccountIds
  BY <1>2 DEF TransferRequests, Orig, Target, Amount, UserAccountIds
<1>4. Orig(b) \in Held(b) /\ Target(b) \in Held(b)
  <2>1. CASE pc[b] = "same_id"
    <3>1. Orig(b) = Target(b) /\ {First(b), Second(b)} = {Orig(b), Target(b)}
      BY <1>1, <2>1, Operands, PcFacts DEF Decided
    <3>2. Held(b) = {First(b)}
      BY <2>1, PcFacts DEF Held, CreatePcs, BalancePcs
    <3>3. QED
      BY <3>1, <3>2
  <2>2. CASE pc[b] # "same_id"
    BY <1>1, <2>2, TransferHolds
  <2>3. QED
    BY <2>1, <2>2
<1>5. QED
  BY <1>3, <1>4, AmountsFit

\* What the bank finds wrong with such a transfer.
LEMMA TransferErrors ==
    ASSUME BankInv, NEW b \in Balconies,
           pc[b] \in {"same_id", "validate", "debit_load", "debit_store"},
           Authenticate(req[b].password, Orig(b))
    PROVE  /\ B!Errors(req[b]) \subseteq BankErrors \ {"RC_LOGIN_FAIL", "RC_ID_IN_USE"}
           /\ "RC_OP_NALLOW" \in B!Errors(req[b]) <=> Orig(b) = ADMIN_ACCOUNT_ID
           /\ "RC_ID_NOT_FOUND" \in B!Errors(req[b]) <=>
                account_id[Target(b)] = EMPTY_ACCOUNT_ID
           /\ "RC_SAME_ID" \in B!Errors(req[b]) <=> Orig(b) = Target(b)
           /\ "RC_NO_FUNDS" \in B!Errors(req[b]) <=> balance[Orig(b)] < Amount(b)
           /\ account_id[Target(b)] # EMPTY_ACCOUNT_ID =>
                ("RC_TOO_HIGH" \in B!Errors(req[b]) <=>
                    Add32(balance[Target(b)], Amount(b)) > MAX_BALANCE)
           /\ account_id[Target(b)] # EMPTY_ACCOUNT_ID =>
                Add32(balance[Target(b)], Amount(b)) = balance[Target(b)] + Amount(b)
<1> DEFINE r == req[b]
           E == B!Errors(req[b])
<1>1. /\ r.type = "OP_TRANSFER" /\ r.password \in Passwords
      /\ Orig(b) = r.orig /\ Orig(b) \in AccountIds
      /\ Target(b) = r.account_id /\ Target(b) \in UserAccountIds
      /\ Amount(b) = r.amount /\ Amount(b) \in 1 .. MAX_BALANCE
      /\ Orig(b) \in Held(b) /\ Target(b) \in Held(b)
      /\ Target(b) \in AccountIds
  BY TransferOwns
<1>2. account_id[Orig(b)] # EMPTY_ACCOUNT_ID
  BY DEF Authenticate
<1>3. BankFunds[Orig(b)] = balance[Orig(b)]
  BY <1>1, <1>2, OwnedFunds
<1>4. ASSUME account_id[Target(b)] # EMPTY_ACCOUNT_ID
      PROVE  /\ BankFunds[Target(b)] = balance[Target(b)]
             /\ Add32(balance[Target(b)], Amount(b)) = balance[Target(b)] + Amount(b)
  <2>1. BankFunds[Target(b)] = balance[Target(b)]
    BY <1>1, <1>4, OwnedFunds
  <2>2. balance[Target(b)] <= MAX_BALANCE /\ balance[Target(b)] \in UInt32
    BY <1>1, <1>4, OwnedInRange DEF BankInv, IInv, TypeOK
  <2>3. Amount(b) \in UInt32 /\ balance[Target(b)] + Amount(b) <= UINT32_MAX
    BY <1>1, <2>2, BalanceAssumption, WidthAssumption DEF UInt32
  <2>4. QED
    BY <2>1, <2>2, <2>3, Arithmetic32
<1>5. /\ E \subseteq BankErrors
      /\ "RC_LOGIN_FAIL" \notin E /\ "RC_ID_IN_USE" \notin E
      /\ "RC_OP_NALLOW" \in E <=> Orig(b) = ADMIN_ACCOUNT_ID
      /\ "RC_ID_NOT_FOUND" \in E <=> account_id[Target(b)] = EMPTY_ACCOUNT_ID
      /\ "RC_SAME_ID" \in E <=> Orig(b) = Target(b)
      /\ "RC_NO_FUNDS" \in E <=> BankFunds[Orig(b)] < Amount(b)
      /\ "RC_TOO_HIGH" \in E <=> BankFunds[Target(b)] + Amount(b) > MAX_BALANCE
  BY <1>1, BankErrorsOf, BankKnows
<1> HIDE DEF E
<1>6. QED
  BY <1>3, <1>4, <1>5 DEF E

\* The checks of a transfer find the error that the bank finds.
LEMMA TransferAnswers ==
    ASSUME BankInv, NEW b \in Balconies, pc[b] \in {"same_id", "validate"},
           Authenticate(req[b].password, Orig(b))
    PROVE  /\ IsValidTransferRequest(b) = B!FirstError(B!Errors(req[b]))
           /\ IsValidTransferRequest(b) = "RC_OK" <=> B!Errors(req[b]) = {}
<1> DEFINE E == B!Errors(req[b])
<1>1. Target(b) # ADMIN_ACCOUNT_ID
  BY TransferOwns DEF UserAccountIds
<1>2. /\ E \subseteq BankErrors \ {"RC_LOGIN_FAIL", "RC_ID_IN_USE"}
      /\ "RC_OP_NALLOW" \in E <=> Orig(b) = ADMIN_ACCOUNT_ID
      /\ "RC_ID_NOT_FOUND" \in E <=> account_id[Target(b)] = EMPTY_ACCOUNT_ID
      /\ "RC_SAME_ID" \in E <=> Orig(b) = Target(b)
      /\ "RC_NO_FUNDS" \in E <=> balance[Orig(b)] < Amount(b)
      /\ account_id[Target(b)] # EMPTY_ACCOUNT_ID =>
           ("RC_TOO_HIGH" \in E <=> Add32(balance[Target(b)], Amount(b)) > MAX_BALANCE)
  BY TransferErrors
<1> HIDE DEF E
<1>3. QED
  BY <1>1, <1>2, FirstOf DEF IsValidTransferRequest, BankErrors, E

-----------------------------------------------------------------------------
(* The calls of the bank, when one balcony makes a step.                   *)

\* The points at which the request that b serves has not taken effect yet.
CalledPcs == {"create_lock", "create_check", "create_hash", "create_id",
              "balance_lock", "balance_check", "lock_first", "same_id",
              "lock_second", "login", "validate", "debit_load", "debit_store"}

\* The call of a balcony in the bank, before and after a step.
LEMMA CallIs ==
    ASSUME NEW b \in Balconies
    PROVE  /\ pc[b] = "idle" => BankCall(b) = B!Idle
           /\ pc[b] \in CalledPcs => BankCall(b) = B!Called(req[b])
           /\ TookEffect(b) =>
                BankCall(b) = B!Answered(req[b], ret_code[b], AnsweredBalance(b))
           /\ pc'[b] = "idle" => BankCall(b)' = B!Idle
           /\ pc'[b] \in CalledPcs => BankCall(b)' = B!Called(req'[b])
           /\ TookEffect(b)' =>
                BankCall(b)' = B!Answered(req'[b], ret_code'[b], AnsweredBalance(b)')
<1>1. /\ pc[b] = "idle" => ~TookEffect(b)
      /\ pc[b] \in CalledPcs => pc[b] # "idle" /\ ~TookEffect(b)
      /\ TookEffect(b) => pc[b] # "idle"
  BY DEF TookEffect, CalledPcs
<1>2. /\ pc'[b] = "idle" => ~TookEffect(b)'
      /\ pc'[b] \in CalledPcs => pc'[b] # "idle" /\ ~TookEffect(b)'
      /\ TookEffect(b)' => pc'[b] # "idle"
  BY DEF TookEffect, CalledPcs
<1>3. /\ pc[b] = "idle" => BankCall(b) = B!Idle
      /\ pc[b] \in CalledPcs => BankCall(b) = B!Called(req[b])
      /\ TookEffect(b) =>
           BankCall(b) = B!Answered(req[b], ret_code[b], AnsweredBalance(b))
  BY <1>1 DEF BankCall, B!Idle, B!Called, B!Answered
<1>4. /\ pc'[b] = "idle" => BankCall(b)' = B!Idle
      /\ pc'[b] \in CalledPcs => BankCall(b)' = B!Called(req'[b])
      /\ TookEffect(b)' =>
           BankCall(b)' = B!Answered(req'[b], ret_code'[b], AnsweredBalance(b)')
  BY <1>2 DEF BankCall, B!Idle, B!Called, B!Answered
<1>5. QED
  BY <1>3, <1>4

\* A step of b leaves the calls of the other balconies as they are: what a handler
\* has still to disclose is in an account that it owns.
LEMMA CallsKept ==
    ASSUME BankInv, NEW b \in Balconies, Step(b), NEW c \in Balconies \ {b}
    PROVE  BankCall(c)' = BankCall(c)
<1>1. TypeOK /\ LockOwnership /\ Decided(b)
  BY DEF BankInv, IInv
<1>2. /\ pc'[c] = pc[c] /\ req'[c] = req[c]
      /\ ret_code'[c] = ret_code[c] /\ final_balance'[c] = final_balance[c]
  BY <1>1, StepFrame, HashFrame
<1>3. ReplyBalance(c)' = ReplyBalance(c)
  BY <1>2 DEF ReplyBalance
<1>4. CASE pc[c] \in {"balance_read", "credit_load", "credit_store", "read_balance"}
  <2>1. Orig(c) \in AccountIds /\ Orig(c) \in Held(c)
    BY <1>1, <1>4, Operands, PcFacts DEF Held, CreatePcs, BalancePcs
  <2>2. balance'[Orig(c)] = balance[Orig(c)] /\ Orig(c)' = Orig(c)
    BY <1>1, <1>2, <2>1, Exclusion, StepFrame, SameOperands
  <2>3. AnsweredBalance(c)' = AnsweredBalance(c)
    BY <1>2, <1>3, <2>2 DEF AnsweredBalance
  <2>4. QED
    BY <1>2, <2>3 DEF BankCall, TookEffect
<1>5. CASE pc[c] \notin {"balance_read", "credit_load", "credit_store", "read_balance"}
  <2>1. AnsweredBalance(c)' = AnsweredBalance(c)
    BY <1>2, <1>3, <1>5 DEF AnsweredBalance
  <2>2. QED
    BY <1>2, <2>1 DEF BankCall, TookEffect
<1>6. QED
  BY <1>4, <1>5

\* A step of a balcony changes no call of the bank but its own.
LEMMA CallsStep ==
    ASSUME BankInv, NEW b \in Balconies, Step(b)
    PROVE  BankCalls' = [BankCalls EXCEPT ![b] = BankCall(b)']
<1>1. \A c \in Balconies \ {b} : BankCall(c)' = BankCall(c)
  BY CallsKept
<1>2. QED
  BY <1>1 DEF BankCalls

\* The call that a balcony begins.
LEMMA CallsBegin ==
    ASSUME BankInv, NEW b \in Balconies, NEW r \in Requests, Begin(b, r)
    PROVE  BankCalls' = [BankCalls EXCEPT ![b] = B!Called(r)]
<1>1. /\ pc'[b] \in {"create_lock", "balance_lock", "lock_first"}
      /\ req'[b] = r
      /\ \A c \in Balconies \ {b} : pc'[c] = pc[c] /\ req'[c] = req[c]
      /\ UNCHANGED <<balance, ret_code, final_balance>>
  BY BeginFrame DEF BankInv, IInv
<1>2. BankCall(b)' = B!Called(r)
  BY <1>1, CallIs DEF CalledPcs
<1>3. ASSUME NEW c \in Balconies \ {b} PROVE BankCall(c)' = BankCall(c)
  <2>1. ReplyBalance(c)' = ReplyBalance(c) /\ Orig(c)' = Orig(c)
    BY <1>1, SameOperands DEF ReplyBalance
  <2>2. AnsweredBalance(c)' = AnsweredBalance(c)
    BY <1>1, <2>1 DEF AnsweredBalance
  <2>3. QED
    BY <1>1, <2>2 DEF BankCall, TookEffect
<1>4. QED
  BY <1>2, <1>3 DEF BankCalls

\* The passwords that the bank knows change when an account is published, and at no
\* other step: the hash of an account that exists is never written again.
LEMMA PasswordsKept ==
    ASSUME BankInv, NEW b \in Balconies, Step(b), ~CreateId(b)
    PROVE  BankPassword' = BankPassword
<1>1. TypeOK /\ Decided(b)
  BY DEF BankInv, IInv
<1>2. account_id' = account_id
  BY DEF Step, database, CreateLock, CreateCheck, CreateHash, CreateHashFails,
         CreateBalance, CreateUnlock, BalanceLock, BalanceCheck,
         BalanceRead, BalanceUnlock, TransferLockFirst, TransferSameId,
         TransferLockSecond, TransferLogin, TransferValidate, DebitLoad,
         DebitStore, CreditLoad, CreditStore, TransferReadBalance,
         TransferUnlockSecond, TransferUnlockFirst, Reply
<1>3. \A a \in AccountIds : account_id[a] # EMPTY_ACCOUNT_ID => hash'[a] = hash[a]
  BY <1>1, HashFrame
<1>4. QED
  BY <1>2, <1>3 DEF BankPassword

\* A creation gives its account a password, in the bank too.
LEMMA PasswordsOfCreation ==
    ASSUME BankInv, NEW b \in Balconies, CreateId(b)
    PROVE  BankPassword' = [BankPassword EXCEPT ![Target(b)] = req[b].new_password]
<1>1. TypeOK /\ Decided(b) /\ pc[b] = "create_id"
  BY DEF BankInv, IInv, CreateId
<1>2. Target(b) \in AccountIds /\ Target(b) # EMPTY_ACCOUNT_ID
  BY <1>1, Operands, IdsAreNumbers DEF CreatePcs
<1>3. hash[Target(b)] = req[b].new_password
  BY <1>1 DEF Decided
<1>4. /\ account_id'[Target(b)] # EMPTY_ACCOUNT_ID
      /\ \A a \in AccountIds \ {Target(b)} : account_id'[a] = account_id[a]
      /\ hash' = hash
  BY <1>1, <1>2 DEF CreateId, TypeOK
<1>5. QED
  BY <1>3, <1>4 DEF BankPassword

-----------------------------------------------------------------------------
(* Every step of a balcony is a step of the bank, or none.                 *)

\* Only a creation and a debit move money in the bank.
LEMMA FundsKept ==
    ASSUME BankInv, BankInv', NEW b \in Balconies, Step(b),
           ~CreateId(b), ~DebitStore(b)
    PROVE  BankFunds' = BankFunds
<1>1. \A a \in AccountIds : Money(a)' = Money(a)
  BY MoneyKept
<1>2. QED
  BY <1>1 DEF BankFunds

\* A step that changes neither the accounts of the bank nor the call of b.
LEMMA Stutters ==
    ASSUME BankInv, BankInv', NEW b \in Balconies, Step(b),
           ~CreateId(b), ~DebitStore(b), BankCall(b)' = BankCall(b)
    PROVE  UNCHANGED B!vars
<1>1. BankCalls' = [BankCalls EXCEPT ![b] = BankCall(b)]
  BY CallsStep
<1>2. BankCalls' = BankCalls
  BY <1>1 DEF BankCalls
<1>3. QED
  BY <1>2, FundsKept, PasswordsKept DEF B!vars

\* A step that answers the request of b with the first of its errors.
LEMMA Refuses ==
    ASSUME BankInv, BankInv', NEW b \in Balconies, Step(b),
           ~CreateId(b), ~DebitStore(b), pc[b] \in CalledPcs,
           B!Errors(req[b]) # {}, NEW ret, ret = B!FirstError(B!Errors(req[b])),
           BankCall(b)' = B!Answered(req[b], ret,
                                     B!Disclosed(req[b], ret, BankFunds[req[b].orig]))
    PROVE  B!Refuse(b)
<1>1. BankCalls[b] = B!Called(req[b])
  BY CallIs DEF BankCalls
<1>2. BankCalls[b].state = "called" /\ BankCalls[b].req = req[b]
  BY <1>1 DEF B!Called
<1>3. BankCalls' = [BankCalls EXCEPT ![b] = BankCall(b)']
  BY CallsStep
<1>4. B!Answer(b, ret, BankFunds[req[b].orig])
  BY <1>2, <1>3 DEF B!Answer
<1>5. QED
  BY <1>2, <1>4, FundsKept, PasswordsKept DEF B!Refuse

\* The steps up to the one that decides, and those after it.
LEMMA CalledSteps ==
    ASSUME BankInv, BankInv', NEW b \in Balconies, Step(b),
           pc[b] \in CalledPcs, pc'[b] \in CalledPcs
    PROVE  UNCHANGED B!vars
<1> USE DEF Goto
<1>1. TypeOK
  BY DEF BankInv, IInv
<1>2. ~CreateId(b) /\ ~DebitStore(b)
  BY <1>1 DEF CreateId, DebitStore, TypeOK, CalledPcs
<1>3. ~Reply(b)
  BY DEF Reply, CalledPcs
<1>4. req'[b] = req[b]
  BY <1>3
     DEF Step, CreateLock, CreateCheck, CreateHash, CreateHashFails, CreateId,
         CreateBalance, CreateUnlock, BalanceLock, BalanceCheck,
         BalanceRead, BalanceUnlock, TransferLockFirst, TransferSameId,
         TransferLockSecond, TransferLogin, TransferValidate, DebitLoad,
         DebitStore, CreditLoad, CreditStore, TransferReadBalance,
         TransferUnlockSecond, TransferUnlockFirst
<1>5. BankCall(b)' = BankCall(b)
  BY <1>4, CallIs
<1>6. QED
  BY <1>2, <1>5, Stutters

\* A handler whose request has taken effect goes on unseen.
LEMMA AnsweredSteps ==
    ASSUME BankInv, BankInv', NEW b \in Balconies, Step(b), TookEffect(b), ~Reply(b)
    PROVE  UNCHANGED B!vars
<1> USE DEF Goto, database
<1>1. TypeOK /\ Decided(b) /\ DistinctAccounts
  BY DEF BankInv, IInv
<1>2. ~CreateId(b) /\ ~DebitStore(b)
  BY DEF CreateId, DebitStore, TookEffect
<1>3. req'[b] = req[b] /\ ret_code'[b] = ret_code[b] /\ TookEffect(b)'
  BY <1>1
     DEF Step, TypeOK, TookEffect, CreateLock, CreateCheck, CreateHash,
         CreateHashFails, CreateId, CreateBalance, CreateUnlock, BalanceLock,
         BalanceCheck, BalanceRead, BalanceUnlock, TransferLockFirst, TransferSameId,
         TransferLockSecond, TransferLogin, TransferValidate, DebitLoad,
         DebitStore, CreditLoad, CreditStore, TransferReadBalance,
         TransferUnlockSecond, TransferUnlockFirst
<1>4. AnsweredBalance(b)' = AnsweredBalance(b)
  <2>1. CASE CreateBalance(b)
    <3>1. req[b].type = "OP_CREATE_ACCOUNT"
      BY <1>1, <2>1 DEF CreateBalance, TypeOK, CreatePcs, CreateRequests
    <3>2. pc[b] = "create_balance" /\ pc'[b] = "create_unlock"
      BY <1>1, <2>1 DEF CreateBalance, TypeOK
    <3>3. QED
      BY <1>3, <3>1, <3>2 DEF AnsweredBalance, ReplyBalance
  <2>2. CASE CreateUnlock(b) \/ BalanceUnlock(b) \/ TransferUnlockSecond(b)
               \/ TransferUnlockFirst(b)
    <3>1. /\ pc[b] \notin {"balance_read", "credit_load", "credit_store", "read_balance"}
          /\ pc'[b] \notin {"balance_read", "credit_load", "credit_store", "read_balance"}
          /\ final_balance' = final_balance
      BY <1>1, <2>2
         DEF CreateUnlock, BalanceUnlock, TransferUnlockSecond, TransferUnlockFirst,
             TypeOK
    <3>2. ReplyBalance(b)' = ReplyBalance(b)
      BY <1>3, <3>1 DEF ReplyBalance
    <3>3. QED
      BY <1>3, <3>1, <3>2 DEF AnsweredBalance
  <2>3. CASE BalanceRead(b)
    <3>1. req[b].type = "OP_BALANCE"
      BY <1>1, <2>3 DEF BalanceRead, TypeOK, BalancePcs, BalanceRequests
    <3>2. /\ pc[b] = "balance_read" /\ pc'[b] = "balance_unlock"
          /\ ret_code[b] = "RC_OK" /\ final_balance'[b] = balance[Orig(b)]
      BY <1>1, <2>3 DEF BalanceRead, TypeOK, Decided
    <3>3. QED
      BY <1>3, <3>1, <3>2 DEF AnsweredBalance, ReplyBalance
  <2>4. CASE CreditLoad(b)
    <3>1. /\ pc[b] = "credit_load" /\ pc'[b] = "credit_store"
          /\ balance' = balance /\ Orig(b)' = Orig(b)
      BY <1>1, <1>3, <2>4, SameOperands DEF CreditLoad, TypeOK
    <3>2. QED
      BY <1>3, <3>1 DEF AnsweredBalance
  <2>5. CASE CreditStore(b)
    <3>1. pc[b] = "credit_store" /\ pc'[b] = "read_balance"
      BY <1>1, <2>5 DEF CreditStore, TypeOK
    <3>2. /\ Orig(b) # Target(b) /\ Orig(b) \in AccountIds /\ Target(b) \in AccountIds
      BY <1>1, <3>1, Operands, PcFacts DEF DistinctAccounts
    <3>3. balance'[Orig(b)] = balance[Orig(b)] /\ Orig(b)' = Orig(b)
      BY <1>1, <1>3, <2>5, <3>2, SameOperands DEF CreditStore, TypeOK
    <3>4. QED
      BY <1>3, <3>1, <3>3 DEF AnsweredBalance
  <2>6. CASE TransferReadBalance(b)
    <3>1. pc[b] = "read_balance" /\ pc'[b] = "unlock_second"
      BY <1>1, <2>6 DEF TransferReadBalance, TypeOK
    <3>2. req[b].type = "OP_TRANSFER"
      BY <1>1, <3>1, PcFacts DEF TypeOK, TransferRequests
    <3>3. final_balance'[b] = balance[Orig(b)]
      BY <1>1, <2>6 DEF TransferReadBalance, TypeOK
    <3>4. QED
      BY <1>3, <3>1, <3>2, <3>3 DEF AnsweredBalance, ReplyBalance
  <2>7. QED
    BY <2>1, <2>2, <2>3, <2>4, <2>5, <2>6
       DEF Step, TookEffect, CreateLock, CreateCheck, CreateHash,
           CreateHashFails, CreateId, BalanceLock,
           BalanceCheck, TransferLockFirst, TransferSameId,
           TransferLockSecond, TransferLogin, TransferValidate, DebitLoad, DebitStore
<1>5. BankCall(b)' = BankCall(b)
  BY <1>3, <1>4, CallIs
<1>6. QED
  BY <1>2, <1>5, Stutters

\* The validity check of a creation answers the bank's first error, or goes on.
LEMMA CreateCheckSteps ==
    ASSUME BankInv, BankInv', NEW b \in Balconies, CreateCheck(b)
    PROVE  B!Refuse(b) \/ UNCHANGED B!vars
<1> USE DEF Goto, Return, database
<1>1. TypeOK /\ Step(b) /\ pc[b] = "create_check" /\ pc[b] \in CalledPcs
      /\ pc[b] \in CreatePcs
  BY DEF BankInv, IInv, Step, CreateCheck, CalledPcs, CreatePcs
<1>2. CASE IsValidCreateRequest(b) = "RC_OK"
  <2>1. pc'[b] \in CalledPcs
    BY <1>1, <1>2 DEF CreateCheck, TypeOK, CalledPcs
  <2>2. QED
    BY <1>1, <2>1, CalledSteps
<1>3. CASE IsValidCreateRequest(b) # "RC_OK"
  <2> DEFINE ret == IsValidCreateRequest(b)
  <2>1. /\ pc'[b] = "create_unlock" /\ req'[b] = req[b] /\ ret_code'[b] = ret
        /\ TookEffect(b)'
    BY <1>1, <1>3 DEF CreateCheck, TypeOK, TookEffect
  <2>2. B!Errors(req[b]) # {} /\ ret = B!FirstError(B!Errors(req[b]))
    BY <1>1, <1>3, CreateAnswers
  <2>3. req[b].type = "OP_CREATE_ACCOUNT"
    BY <1>1 DEF TypeOK, CreateRequests
  <2> HIDE DEF ret
  <2>4. B!Disclosed(req[b], ret, BankFunds[req[b].orig]) = NoBalance
    BY <2>3 DEF B!Disclosed, B!NoBalance, NoBalance
  <2>5. AnsweredBalance(b)' = NoBalance
    BY <2>1, <2>3 DEF AnsweredBalance, ReplyBalance
  <2>6. BankCall(b)' = B!Answered(req[b], ret,
                                  B!Disclosed(req[b], ret, BankFunds[req[b].orig]))
    BY <2>1, <2>4, <2>5, CallIs
  <2>7. ~CreateId(b) /\ ~DebitStore(b)
    BY <1>1 DEF CreateId, DebitStore
  <2>8. B!Refuse(b)
    BY <1>1, <2>2, <2>6, <2>7, Refuses
  <2>9. QED
    BY <2>8
<1>4. QED
  BY <1>2, <1>3

\* That of a balance check answers the bank's first error, or the balance, which
\* the handler has still to read from the account that it owns.
LEMMA BalanceCheckSteps ==
    ASSUME BankInv, BankInv', NEW b \in Balconies, BalanceCheck(b)
    PROVE  B!Refuse(b) \/ B!CheckBalance(b)
<1> USE DEF Goto, Return, database
<1> DEFINE ret == IsValidBalanceRequest(b)
<1>1. TypeOK /\ Step(b) /\ pc[b] = "balance_check" /\ pc[b] \in CalledPcs
      /\ pc[b] \in BalancePcs
  BY DEF BankInv, IInv, Step, BalanceCheck, CalledPcs, BalancePcs
<1>2. /\ pc'[b] = IF ret = "RC_OK" THEN "balance_read" ELSE "balance_unlock"
      /\ req'[b] = req[b] /\ ret_code'[b] = ret /\ balance' = balance
  BY <1>1 DEF BalanceCheck, TypeOK
<1>3. TookEffect(b)'
  BY <1>2 DEF TookEffect
<1>4. req[b].type = "OP_BALANCE" /\ Orig(b) = req[b].orig /\ Orig(b)' = req[b].orig
  BY <1>1, <1>2 DEF TypeOK, BalanceRequests, Orig
<1>5. ~CreateId(b) /\ ~DebitStore(b)
  BY <1>1 DEF CreateId, DebitStore
<1>6. CASE ret # "RC_OK"
  <2>2. B!Errors(req[b]) # {} /\ ret = B!FirstError(B!Errors(req[b]))
    BY <1>1, <1>6, BalanceAnswers
  <2> HIDE DEF ret
  <2>4. B!Disclosed(req[b], ret, BankFunds[req[b].orig]) = NoBalance
    BY <1>4, <1>6 DEF B!Disclosed, B!NoBalance, NoBalance
  <2>5. AnsweredBalance(b)' = NoBalance
    BY <1>2, <1>4, <1>6 DEF AnsweredBalance, ReplyBalance
  <2>6. BankCall(b)' = B!Answered(req[b], ret,
                                  B!Disclosed(req[b], ret, BankFunds[req[b].orig]))
    BY <1>2, <1>3, <2>4, <2>5, CallIs
  <2>7. B!Refuse(b)
    BY <1>1, <1>5, <2>2, <2>6, Refuses
  <2>8. QED
    BY <2>7
<1>7. CASE ret = "RC_OK"
  <2>1. B!Errors(req[b]) = {}
    BY <1>1, <1>7, BalanceAnswers
  <2>2. Orig(b) \in AccountIds /\ Orig(b) \in Held(b)
    BY <1>1, Operands DEF Held, BalancePcs, CreatePcs
  <2>3. account_id[Orig(b)] # EMPTY_ACCOUNT_ID
    BY <1>7 DEF IsValidBalanceRequest, Authenticate
  <2>4. BankFunds[req[b].orig] = balance[Orig(b)]
    BY <1>1, <1>4, <2>2, <2>3, OwnedFunds
  <2>5. AnsweredBalance(b)' = balance[Orig(b)]
    BY <1>2, <1>4, <1>7 DEF AnsweredBalance
  <2>6. B!Disclosed(req[b], "RC_OK", BankFunds[req[b].orig]) = balance[Orig(b)]
    BY <1>4, <2>4 DEF B!Disclosed
  <2>7. BankCall(b)' = B!Answered(req[b], "RC_OK",
                                  B!Disclosed(req[b], "RC_OK", BankFunds[req[b].orig]))
    BY <1>2, <1>3, <1>7, <2>5, <2>6, CallIs
  <2>8. BankCalls[b].state = "called" /\ BankCalls[b].req = req[b]
    BY <1>1, CallIs DEF BankCalls, B!Called
  <2>9. B!Answer(b, "RC_OK", BankFunds[req[b].orig])
    BY <1>1, <2>7, <2>8, CallsStep DEF B!Answer
  <2>10. B!CheckBalance(b)
    BY <1>1, <1>4, <1>5, <2>1, <2>8, <2>9, FundsKept, PasswordsKept DEF B!CheckBalance
  <2>11. QED
    BY <2>10
<1>8. QED
  BY <1>6, <1>7

\* The three places where a transfer can be refused.
LEMMA LoginSteps ==
    ASSUME BankInv, BankInv', NEW b \in Balconies, TransferLogin(b)
    PROVE  B!Refuse(b) \/ UNCHANGED B!vars
<1> USE DEF Goto, Return, database
<1>1. TypeOK /\ Step(b) /\ pc[b] = "login" /\ pc[b] \in CalledPcs
  BY DEF BankInv, IInv, Step, TransferLogin, CalledPcs
<1>2. CASE Authenticate(req[b].password, Orig(b))
  <2>1. pc'[b] \in CalledPcs
    BY <1>1, <1>2 DEF TransferLogin, TypeOK, CalledPcs
  <2>2. QED
    BY <1>1, <2>1, CalledSteps
<1>3. CASE ~Authenticate(req[b].password, Orig(b))
  <2>1. /\ pc'[b] = "unlock_second" /\ req'[b] = req[b]
        /\ ret_code'[b] = "RC_LOGIN_FAIL" /\ TookEffect(b)'
    BY <1>1, <1>3, Codes DEF TransferLogin, TypeOK, TookEffect
  <2>2. req[b].password \in Passwords /\ Orig(b) = req[b].orig /\ Orig(b) \in AccountIds
        /\ req[b].type = "OP_TRANSFER"
    BY <1>1, TransferOwns
  <2>3. /\ B!Errors(req[b]) # {}
        /\ "RC_LOGIN_FAIL" = B!FirstError(B!Errors(req[b]))
    BY <1>3, <2>2, LoginFails
  <2>4. B!Disclosed(req[b], "RC_LOGIN_FAIL", BankFunds[req[b].orig]) = NoBalance
    BY <2>2 DEF B!Disclosed, B!NoBalance, NoBalance
  <2>5. AnsweredBalance(b)' = NoBalance
    BY <2>1 DEF AnsweredBalance
  <2>6. BankCall(b)' = B!Answered(req[b], "RC_LOGIN_FAIL",
            B!Disclosed(req[b], "RC_LOGIN_FAIL", BankFunds[req[b].orig]))
    BY <2>1, <2>4, <2>5, CallIs
  <2>7. ~CreateId(b) /\ ~DebitStore(b)
    BY <1>1 DEF CreateId, DebitStore
  <2>8. B!Refuse(b)
    BY <1>1, <2>3, <2>6, <2>7, Refuses
  <2>9. QED
    BY <2>8
<1>4. QED
  BY <1>2, <1>3

\* The validation of a transfer refuses it, or is not seen.
LEMMA ValidateSteps ==
    ASSUME BankInv, BankInv', NEW b \in Balconies, TransferValidate(b)
    PROVE  B!Refuse(b) \/ UNCHANGED B!vars
<1> USE DEF Goto, Return, database
<1> DEFINE ret == IsValidTransferRequest(b)
<1>1. TypeOK /\ Step(b) /\ pc[b] = "validate" /\ pc[b] \in CalledPcs
      /\ Authenticate(req[b].password, Orig(b))
  BY DEF BankInv, IInv, Decided, Step, TransferValidate, CalledPcs
<1>2. CASE ret = "RC_OK"
  <2>1. pc'[b] \in CalledPcs
    BY <1>1, <1>2 DEF TransferValidate, TypeOK, CalledPcs
  <2>2. QED
    BY <1>1, <2>1, CalledSteps
<1>3. CASE ret # "RC_OK"
  <2>1. /\ pc'[b] = "read_balance" /\ req'[b] = req[b] /\ ret_code'[b] = ret
        /\ balance' = balance /\ TookEffect(b)'
    BY <1>1, <1>3 DEF TransferValidate, TypeOK, TookEffect
  <2>2. B!Errors(req[b]) # {} /\ ret = B!FirstError(B!Errors(req[b]))
    BY <1>1, <1>3, TransferAnswers
  <2>3. ret # "RC_LOGIN_FAIL"
    BY DEF IsValidTransferRequest
  <2>4. /\ Orig(b) = req[b].orig /\ Orig(b) \in AccountIds /\ Orig(b) \in Held(b)
        /\ req[b].type = "OP_TRANSFER"
    BY <1>1, TransferOwns
  <2>5. BankFunds[req[b].orig] = balance[Orig(b)]
    BY <1>1, <2>4, OwnedFunds DEF Authenticate
  <2> HIDE DEF ret
  <2>6. B!Disclosed(req[b], ret, BankFunds[req[b].orig]) = balance[Orig(b)]
    BY <2>3, <2>4, <2>5 DEF B!Disclosed
  <2>7. AnsweredBalance(b)' = balance[Orig(b)]
    BY <2>1, <2>3, SameOperands DEF AnsweredBalance
  <2>8. BankCall(b)' = B!Answered(req[b], ret,
                                  B!Disclosed(req[b], ret, BankFunds[req[b].orig]))
    BY <2>1, <2>6, <2>7, CallIs
  <2>9. ~CreateId(b) /\ ~DebitStore(b)
    BY <1>1 DEF CreateId, DebitStore
  <2>10. B!Refuse(b)
    BY <1>1, <2>2, <2>8, <2>9, Refuses
  <2>11. QED
    BY <2>10
<1>4. QED
  BY <1>2, <1>3

\* A transfer to its own account is refused.
LEMMA SameIdSteps ==
    ASSUME BankInv, BankInv', NEW b \in Balconies, TransferSameId(b)
    PROVE  B!Refuse(b)
<1> USE DEF Goto, Return, database
<1>1. TypeOK /\ Step(b) /\ pc[b] = "same_id" /\ pc[b] \in CalledPcs
      /\ Orig(b) = Target(b)
  BY DEF BankInv, IInv, Decided, Step, TransferSameId, CalledPcs
<1>2. /\ Orig(b) = req[b].orig /\ Orig(b) \in AccountIds /\ Orig(b) \in Held(b)
      /\ req[b].type = "OP_TRANSFER" /\ req[b].password \in Passwords
  BY <1>1, TransferOwns
<1>3. /\ pc'[b] = "unlock_first" /\ req'[b] = req[b] /\ TookEffect(b)'
  BY <1>1 DEF TransferSameId, TypeOK, TookEffect
<1>4. ~CreateId(b) /\ ~DebitStore(b)
  BY <1>1 DEF CreateId, DebitStore
<1>5. CASE Authenticate(req[b].password, Orig(b))
  <2> DEFINE ret == IsValidTransferRequest(b)
  <2>1. ret_code'[b] = ret /\ final_balance'[b] = balance[Orig(b)]
    BY <1>1, <1>5 DEF TransferSameId, TypeOK
  <2>2. ret # "RC_LOGIN_FAIL" /\ ret # "RC_OK"
    BY <1>1 DEF IsValidTransferRequest
  <2>3. B!Errors(req[b]) # {} /\ ret = B!FirstError(B!Errors(req[b]))
    BY <1>1, <1>5, <2>2, TransferAnswers
  <2>4. BankFunds[req[b].orig] = balance[Orig(b)]
    BY <1>1, <1>2, <1>5, OwnedFunds DEF Authenticate
  <2> HIDE DEF ret
  <2>5. B!Disclosed(req[b], ret, BankFunds[req[b].orig]) = balance[Orig(b)]
    BY <1>2, <2>2, <2>4 DEF B!Disclosed
  <2>6. AnsweredBalance(b)' = balance[Orig(b)]
    BY <1>2, <1>3, <2>1, <2>2 DEF AnsweredBalance, ReplyBalance
  <2>7. BankCall(b)' = B!Answered(req[b], ret,
                                  B!Disclosed(req[b], ret, BankFunds[req[b].orig]))
    BY <1>3, <2>1, <2>5, <2>6, CallIs
  <2>8. QED
    BY <1>1, <1>4, <2>3, <2>7, Refuses
<1>6. CASE ~Authenticate(req[b].password, Orig(b))
  <2>1. ret_code'[b] = "RC_LOGIN_FAIL"
    BY <1>1, <1>6, Codes DEF TransferSameId, TypeOK
  <2>2. /\ B!Errors(req[b]) # {}
        /\ "RC_LOGIN_FAIL" = B!FirstError(B!Errors(req[b]))
    BY <1>2, <1>6, LoginFails
  <2>3. B!Disclosed(req[b], "RC_LOGIN_FAIL", BankFunds[req[b].orig]) = NoBalance
    BY <1>2 DEF B!Disclosed, B!NoBalance, NoBalance
  <2>4. AnsweredBalance(b)' = NoBalance
    BY <2>1 DEF AnsweredBalance
  <2>5. BankCall(b)' = B!Answered(req[b], "RC_LOGIN_FAIL",
            B!Disclosed(req[b], "RC_LOGIN_FAIL", BankFunds[req[b].orig]))
    BY <1>3, <2>1, <2>3, <2>4, CallIs
  <2>6. QED
    BY <1>1, <1>4, <2>2, <2>5, Refuses
<1>7. QED
  BY <1>5, <1>6

\* A creation takes effect when the account is published, or fails with its hash.
LEMMA HashFailsSteps ==
    ASSUME BankInv, BankInv', NEW b \in Balconies, CreateHashFails(b)
    PROVE  B!FailCreation(b)
<1> USE DEF Goto, Return, database
<1>1. TypeOK /\ Step(b) /\ pc[b] = "create_hash" /\ pc[b] \in CalledPcs
      /\ pc[b] \in CreatePcs /\ Decided(b)
  BY DEF BankInv, IInv, Step, CreateHashFails, CalledPcs, CreatePcs
<1>2. req[b].type = "OP_CREATE_ACCOUNT"
  BY <1>1 DEF TypeOK, CreateRequests
<1>3. IsValidCreateRequest(b) = "RC_OK"
  BY <1>1 DEF Decided, IsValidCreateRequest
<1>4. B!Errors(req[b]) = {}
  BY <1>1, <1>3, CreateAnswers
<1>5. /\ pc'[b] = "create_unlock" /\ req'[b] = req[b]
      /\ ret_code'[b] = "RC_OTHER" /\ TookEffect(b)'
  BY <1>1 DEF CreateHashFails, TypeOK, TookEffect
<1>6. B!Disclosed(req[b], "RC_OTHER", B!NoBalance) = NoBalance
  BY <1>2 DEF B!Disclosed, B!NoBalance, NoBalance
<1>7. AnsweredBalance(b)' = NoBalance
  BY <1>2, <1>5 DEF AnsweredBalance, ReplyBalance
<1>8. BankCall(b)' = B!Answered(req[b], "RC_OTHER",
                                B!Disclosed(req[b], "RC_OTHER", B!NoBalance))
  BY <1>5, <1>6, <1>7, CallIs
<1>9. BankCalls[b].state = "called" /\ BankCalls[b].req = req[b]
  BY <1>1, CallIs DEF BankCalls, B!Called
<1>10. B!Answer(b, "RC_OTHER", B!NoBalance)
  BY <1>1, <1>8, <1>9, CallsStep DEF B!Answer
<1>11. ~CreateId(b) /\ ~DebitStore(b)
  BY <1>1 DEF CreateId, DebitStore
<1>12. QED
  BY <1>1, <1>2, <1>4, <1>9, <1>10, <1>11, FundsKept, PasswordsKept DEF B!FailCreation

\* An account exists for the bank when its id is written.
LEMMA CreateIdSteps ==
    ASSUME BankInv, BankInv', NEW b \in Balconies, CreateId(b)
    PROVE  B!CreateAccount(b)
<1> USE DEF Goto, database
<1>1. TypeOK /\ Step(b) /\ pc[b] = "create_id" /\ pc[b] \in CalledPcs
      /\ pc[b] \in CreatePcs /\ Decided(b)
  BY DEF BankInv, IInv, Step, CreateId, CalledPcs, CreatePcs
<1>2. req[b].type = "OP_CREATE_ACCOUNT" /\ Target(b) = req[b].account_id
  BY <1>1 DEF TypeOK, CreateRequests, Target
<1>3. IsValidCreateRequest(b) = "RC_OK" /\ ret_code[b] = "RC_OK"
  BY <1>1 DEF Decided, IsValidCreateRequest
<1>4. B!Errors(req[b]) = {}
  BY <1>1, <1>3, CreateAnswers
<1>5. /\ pc'[b] = "create_balance" /\ req'[b] = req[b]
      /\ ret_code'[b] = "RC_OK" /\ TookEffect(b)'
  BY <1>1, <1>3 DEF CreateId, TypeOK, TookEffect
<1>6. B!Disclosed(req[b], "RC_OK", B!NoBalance) = NoBalance
  BY <1>2 DEF B!Disclosed, B!NoBalance, NoBalance
<1>7. AnsweredBalance(b)' = NoBalance
  BY <1>2, <1>5 DEF AnsweredBalance, ReplyBalance
<1>8. BankCall(b)' = B!Answered(req[b], "RC_OK",
                                B!Disclosed(req[b], "RC_OK", B!NoBalance))
  BY <1>5, <1>6, <1>7, CallIs
<1>9. BankCalls[b].state = "called" /\ BankCalls[b].req = req[b]
  BY <1>1, CallIs DEF BankCalls, B!Called
<1>10. B!Answer(b, "RC_OK", B!NoBalance)
  BY <1>1, <1>8, <1>9, CallsStep DEF B!Answer
<1>11. BankPassword' = [BankPassword EXCEPT ![req[b].account_id] = req[b].new_password]
  BY <1>2, PasswordsOfCreation
<1>12. BankFunds' = [BankFunds EXCEPT ![req[b].account_id] = req[b].balance]
  <2>1. \A a \in AccountIds :
           Money(a)' = IF a = Target(b) THEN req[b].balance ELSE Money(a)
    BY MoneyOfCreation
  <2>2. QED
    BY <1>2, <2>1 DEF BankFunds
<1>13. QED
  BY <1>1, <1>2, <1>4, <1>9, <1>10, <1>11, <1>12 DEF B!CreateAccount

\* A transfer takes effect when the origin account is debited: what it credits
\* later is money on its way.
LEMMA DebitSteps ==
    ASSUME BankInv, BankInv', NEW b \in Balconies, DebitStore(b)
    PROVE  B!Transfer(b)
<1> USE DEF Goto, database
<1>1. TypeOK /\ Step(b) /\ pc[b] = "debit_store" /\ pc[b] \in CalledPcs
      /\ Decided(b) /\ Established(b)
      /\ Authenticate(req[b].password, Orig(b))
  BY DEF BankInv, IInv, TransferFacts, Decided, Step, DebitStore, CalledPcs
<1>2. /\ req[b].type = "OP_TRANSFER"
      /\ Orig(b) = req[b].orig /\ Target(b) = req[b].account_id
      /\ Amount(b) = req[b].amount /\ Amount(b) \in 1 .. MAX_BALANCE
      /\ Orig(b) \in AccountIds /\ Target(b) \in AccountIds
  BY <1>1, TransferOwns
<1>3. /\ \A a \in AccountIds :
            Money(a)' = IF a = Orig(b) THEN Money(a) - Amount(b)
                        ELSE IF a = Target(b) THEN Money(a) + Amount(b)
                        ELSE Money(a)
      /\ Orig(b) # Target(b)
      /\ Money(Orig(b)) = balance[Orig(b)]
  BY MoneyOfTransfer
<1>4. B!Errors(req[b]) = {}
  <2>1. /\ account_id[Target(b)] # EMPTY_ACCOUNT_ID
        /\ balance[Target(b)] + Amount(b) <= MAX_BALANCE
        /\ Amount(b) <= balance[Orig(b)]
        /\ Orig(b) # ADMIN_ACCOUNT_ID
    BY <1>1 DEF Established, Decided
  <2>2. balance[Orig(b)] \in Int /\ Amount(b) \in Int
    BY <1>1, <1>2, BalanceAssumption DEF TypeOK, UInt32
  <2>3. ~(balance[Orig(b)] < Amount(b))
    BY <2>1, <2>2
  <2>4. ~(balance[Target(b)] + Amount(b) > MAX_BALANCE)
    <3>1. balance[Target(b)] \in Int /\ MAX_BALANCE \in Int
      BY <1>1, <1>2, BalanceAssumption DEF TypeOK, UInt32
    <3>2. QED
      BY <2>1, <2>2, <3>1
  <2>5. /\ B!Errors(req[b]) \subseteq BankErrors \ {"RC_LOGIN_FAIL", "RC_ID_IN_USE"}
        /\ "RC_OP_NALLOW" \notin B!Errors(req[b])
        /\ "RC_ID_NOT_FOUND" \notin B!Errors(req[b])
        /\ "RC_SAME_ID" \notin B!Errors(req[b])
        /\ "RC_NO_FUNDS" \notin B!Errors(req[b])
        /\ "RC_TOO_HIGH" \notin B!Errors(req[b])
    BY <1>1, <1>3, <2>1, <2>3, <2>4, TransferErrors
  <2>6. QED
    BY <2>5 DEF BankErrors
<1>5. /\ pc'[b] = "credit_load" /\ req'[b] = req[b]
      /\ ret_code'[b] = "RC_OK" /\ TookEffect(b)'
  BY <1>1 DEF DebitStore, TypeOK, TookEffect, Decided
<1>6. BankFunds' = [BankFunds EXCEPT ![req[b].orig] = @ - req[b].amount,
                                     ![req[b].account_id] = @ + req[b].amount]
  <2>1. \A a \in AccountIds :
           BankFunds'[a] = [BankFunds EXCEPT ![req[b].orig] = @ - req[b].amount,
                                    ![req[b].account_id] = @ + req[b].amount][a]
    BY <1>2, <1>3 DEF BankFunds
  <2>2. QED
    BY <2>1 DEF BankFunds
<1>7. BankFunds'[req[b].orig] = balance'[Orig(b)]
  <2>1. Amount(b) \in UInt32 /\ balance[Orig(b)] \in UInt32 /\ Amount(b) <= balance[Orig(b)]
        /\ reg[b] = balance[Orig(b)]
    BY <1>1, <1>2, Operands, PcFacts DEF Established, TypeOK
  <2>2. Sub32(reg[b], Amount(b)) = balance[Orig(b)] - Amount(b)
    BY <2>1, Arithmetic32
  <2>3. balance'[Orig(b)] = balance[Orig(b)] - Amount(b)
    BY <1>1, <1>2, <2>2 DEF DebitStore, TypeOK
  <2>4. BankFunds'[req[b].orig] = Money(Orig(b)) - Amount(b)
    BY <1>2, <1>3 DEF BankFunds
  <2>5. QED
    BY <1>3, <2>3, <2>4
<1>8. B!Disclosed(req[b], "RC_OK", BankFunds'[req[b].orig]) = balance'[Orig(b)]
  BY <1>2, <1>7 DEF B!Disclosed
<1>9. AnsweredBalance(b)' = balance'[Orig(b)]
  BY <1>5, SameOperands DEF AnsweredBalance
<1>10. BankCall(b)' = B!Answered(req[b], "RC_OK",
                            B!Disclosed(req[b], "RC_OK", BankFunds'[req[b].orig]))
  BY <1>5, <1>8, <1>9, CallIs
<1>11. BankCalls[b].state = "called" /\ BankCalls[b].req = req[b]
  BY <1>1, CallIs DEF BankCalls, B!Called
<1>12. B!Answer(b, "RC_OK", BankFunds'[req[b].orig])
  BY <1>1, <1>10, <1>11, CallsStep DEF B!Answer
<1>13. ~CreateId(b)
  BY <1>1 DEF CreateId
<1>14. QED
  BY <1>1, <1>2, <1>4, <1>6, <1>11, <1>12, <1>13, PasswordsKept DEF B!Transfer

\* A balcony takes a request when it is idle, and is idle again after the reply.
LEMMA BeginSteps ==
    ASSUME BankInv, BankInv', NEW b \in Balconies, NEW r \in Requests, Begin(b, r)
    PROVE  B!Call(b, r)
<1>1. pc[b] = "idle" /\ UNCHANGED <<account_id, hash>>
  BY BeginFrame DEF BankInv, IInv
<1>2. BankCalls[b] = B!Idle
  BY <1>1, CallIs DEF BankCalls
<1>3. BankPassword' = BankPassword
  BY <1>1 DEF BankPassword
<1>4. BankFunds' = BankFunds
  <2>1. \A a \in AccountIds : Money(a)' = Money(a)
    BY MoneyBegin
  <2>2. QED
    BY <2>1 DEF BankFunds
<1>5. QED
  BY <1>2, <1>3, <1>4, CallsBegin DEF B!Call

\* A reply returns the call, with the balance of the instant at which it took effect.
LEMMA ReplySteps ==
    ASSUME BankInv, BankInv', NEW b \in Balconies, Reply(b)
    PROVE  B!Return(b)
<1>1. Step(b) /\ pc[b] = "reply" /\ pc'[b] = "idle" /\ TookEffect(b)
  BY DEF BankInv, IInv, TypeOK, Step, Reply, Goto, TookEffect
<1>2. BankCalls[b].state = "answered"
  BY <1>1, CallIs DEF BankCalls, B!Answered
<1>3. BankCalls' = [BankCalls EXCEPT ![b] = B!Idle]
  BY <1>1, CallIs, CallsStep
<1>4. ~CreateId(b) /\ ~DebitStore(b)
  BY <1>1 DEF CreateId, DebitStore
<1>5. QED
  BY <1>1, <1>2, <1>3, <1>4, FundsKept, PasswordsKept DEF B!Return

-----------------------------------------------------------------------------
(* The refinement.                                                         *)

\* The bank at the start.
LEMMA BankInit == Init => B!Init
<1> SUFFICES ASSUME Init PROVE B!Init
  OBVIOUS
<1>1. BankPassword = [a \in AccountIds |->
                         IF a = B!ADMIN_ACCOUNT_ID THEN AdminPassword ELSE B!NoPassword]
  BY IdsAreNumbers
     DEF Init, BankPassword, B!ADMIN_ACCOUNT_ID, ADMIN_ACCOUNT_ID, B!NoPassword,
         NoPassword
<1>2. BankFunds = [a \in AccountIds |-> 0]
  <2>1. ASSUME NEW a \in AccountIds PROVE Money(a) = 0
    <3>1. MoneyIs(a)
      BY RangeInit, MoneyOf DEF MoneyKnown
    <3>2. \A b \in Balconies : ~Opening(a, b) /\ ~Crediting(a, b)
      BY DEF Init, Opening, Crediting
    <3>3. account_id[a] # EMPTY_ACCOUNT_ID => balance[a] = 0
      BY DEF Init
    <3>4. QED
      BY <3>1, <3>2, <3>3 DEF MoneyIs
  <2>2. QED
    BY <2>1 DEF BankFunds
<1>3. BankCalls = [b \in Balconies |-> B!Idle]
  BY CallIs DEF Init, BankCalls
<1>4. QED
  BY <1>1, <1>2, <1>3 DEF B!Init, B!AccountIds, AccountIds

\* Every step of the handlers is one of the bank, or not seen by it.
LEMMA BankNext == BankInv /\ BankInv' /\ [Next]_vars => [B!Next]_(B!vars)
<1> SUFFICES ASSUME BankInv, BankInv', [Next]_vars
             PROVE  B!Next \/ UNCHANGED B!vars
  OBVIOUS
<1>1. ASSUME NEW b \in Balconies, NEW r \in Requests, Begin(b, r)
      PROVE  B!Next
  BY <1>1, BeginSteps DEF B!Next
<1>2. ASSUME NEW b \in Balconies, Step(b)
      PROVE  B!Next \/ UNCHANGED B!vars
  <2>1. TypeOK
    BY DEF BankInv, IInv
  <2>2. CASE CreateCheck(b)
    BY <2>2, CreateCheckSteps DEF B!Next
  <2>3. CASE BalanceCheck(b)
    BY <2>3, BalanceCheckSteps DEF B!Next
  <2>4. CASE TransferLogin(b)
    BY <2>4, LoginSteps DEF B!Next
  <2>5. CASE TransferValidate(b)
    BY <2>5, ValidateSteps DEF B!Next
  <2>6. CASE TransferSameId(b)
    BY <2>6, SameIdSteps DEF B!Next
  <2>7. CASE CreateHashFails(b)
    BY <2>7, HashFailsSteps DEF B!Next
  <2>8. CASE CreateId(b)
    BY <2>8, CreateIdSteps DEF B!Next
  <2>9. CASE DebitStore(b)
    BY <2>9, DebitSteps DEF B!Next
  <2>10. CASE Reply(b)
    BY <2>10, ReplySteps DEF B!Next
  <2>11. CASE \/ CreateLock(b) \/ CreateHash(b) \/ BalanceLock(b)
              \/ TransferLockFirst(b) \/ TransferLockSecond(b) \/ DebitLoad(b)
    <3>1. pc[b] \in CalledPcs /\ pc'[b] \in CalledPcs
      BY <2>1, <2>11
         DEF TypeOK, Goto, CalledPcs, CreateLock, CreateHash, BalanceLock,
             TransferLockFirst, TransferLockSecond, DebitLoad
    <3>2. QED
      BY <1>2, <3>1, CalledSteps
  <2>12. CASE \/ CreateBalance(b) \/ CreateUnlock(b) \/ BalanceRead(b)
              \/ BalanceUnlock(b) \/ CreditLoad(b) \/ CreditStore(b)
              \/ TransferReadBalance(b) \/ TransferUnlockSecond(b)
              \/ TransferUnlockFirst(b)
    <3>1. TookEffect(b) /\ ~Reply(b)
      BY <2>12
         DEF TookEffect, Reply, CreateBalance, CreateUnlock, BalanceRead, BalanceUnlock,
             CreditLoad, CreditStore, TransferReadBalance, TransferUnlockSecond,
             TransferUnlockFirst
    <3>2. QED
      BY <1>2, <3>1, AnsweredSteps
  <2>13. QED
    BY <1>2, <2>2, <2>3, <2>4, <2>5, <2>6, <2>7, <2>8, <2>9, <2>10, <2>11, <2>12
       DEF Step
<1>3. ASSUME UNCHANGED vars
      PROVE  UNCHANGED B!vars
  <2>1. BankPassword' = BankPassword
    BY <1>3 DEF BankPassword, vars, database
  <2>2. BankFunds' = BankFunds
    <3>1. \A a \in AccountIds : Money(a)' = Money(a)
      BY <1>3, MoneyStutter
    <3>2. QED
      BY <3>1 DEF BankFunds
  <2>3. BankCalls' = BankCalls
    <3>1. ASSUME NEW b \in Balconies PROVE BankCall(b)' = BankCall(b)
      BY <1>3 DEF BankCall, TookEffect, AnsweredBalance, ReplyBalance, Orig, vars, database
    <3>2. QED
      BY <3>1 DEF BankCalls
  <2>4. QED
    BY <2>1, <2>2, <2>3 DEF B!vars
<1>4. QED
  BY <1>1, <1>2, <1>3 DEF Next

\* The handlers implement the bank of module Bank, whatever the number of balconies
\* and accounts: each request takes effect at one instant, with the first applicable
\* error of types.h or none, and its reply discloses the balance of that instant.
THEOREM BankIsImplemented == Spec => BankSpec
<1>1. Init => B!Init
  BY BankInit
<1>2. BankInv /\ BankInv' /\ [Next]_vars => [B!Next]_(B!vars)
  BY BankNext
<1>3. QED
  BY <1>1, <1>2, BankInvariant, PTL DEF Spec, BankSpec, B!Spec

=============================================================================
