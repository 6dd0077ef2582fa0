----------------------------- MODULE Accounts -----------------------------
(***************************************************************************)
(* accounts_database and the request handlers of src/server_f/requests.c,  *)
(* run by several balconies at once.  There is one action per stretch of   *)
(* code that other threads can observe: a mutex operation, or an access to *)
(* a field of an account.  Between two steps of a balcony any number of    *)
(* steps of the others can happen.                                         *)
(*                                                                         *)
(* A salted hash is abstracted to the password it was computed from.  The  *)
(* delays, the log and the failures of pthread calls on valid mutexes are  *)
(* left out.  OP_SHUTDOWN does not touch the accounts: see Server.         *)
(***************************************************************************)
EXTENDS BankTypes, FiniteSetsExt

CONSTANTS
    Balconies,      \* the threads that serve requests
    Requests,       \* the requests that may reach a balcony
    AdminPassword,  \* second argument of the server
    Garbage,        \* what malloc may leave in the balance of an account
    Nobody          \* owner of a free mutex

ASSUME RequestsAssumption == Requests \subseteq LegalRequests
ASSUME AdminAssumption == AdminPassword \in Passwords
ASSUME GarbageAssumption == Garbage \subseteq UInt32
ASSUME NobodyAssumption == Nobody \notin Balconies

VARIABLES
    account_id,     \* accounts_database[a]->account_id
    hash,           \* accounts_database[a]->hash, with its salt
    balance,        \* accounts_database[a]->balance
    mutex,          \* accounts_db_mutex[a]: its owner or Nobody
    pc,             \* where each balcony is
    req,            \* the request it serves
    ret_code,       \* the code it will reply with
    final_balance,  \* its local variable balance (server.c:323)
    reg             \* the operand of += or -= between its load and its store

database == <<account_id, hash, balance>>
vars == <<account_id, hash, balance, mutex, pc, req, ret_code, final_balance, reg>>

\* The local variable balance before any handler wrote it.
NoBalance == -1

-----------------------------------------------------------------------------
(* Operands of the request that balcony b serves.                          *)

Orig(b) == req[b].orig
Target(b) == req[b].account_id
Amount(b) == req[b].amount

\* Mutant: the mutexes are locked as the request names the accounts.
LockOrder_asGiven(b) == [first |-> Orig(b), second |-> Target(b)]

\* The mutexes of a transfer are locked in the order of the account numbers.
LockOrder(b) == [first |-> min(Orig(b), Target(b)), second |-> max(Orig(b), Target(b))]
First(b) == LockOrder(b).first
Second(b) == LockOrder(b).second

\* authenticate of account_utilities.c: does pwd open account a?
Authenticate(pwd, a) == account_id[a] # EMPTY_ACCOUNT_ID /\ hash[a] = pwd

\* Mutant: looks for the account before it looks at who asks.
IsValidCreateRequest_existsFirst(b) ==
    IF ~Authenticate(req[b].password, Orig(b)) THEN "RC_LOGIN_FAIL"
    ELSE IF account_id[Target(b)] # EMPTY_ACCOUNT_ID THEN "RC_ID_IN_USE"
    ELSE IF Orig(b) # ADMIN_ACCOUNT_ID THEN "RC_OP_NALLOW"
    ELSE "RC_OK"

IsValidCreateRequest(b) ==
    IF ~Authenticate(req[b].password, Orig(b)) THEN "RC_LOGIN_FAIL"
    ELSE IF Orig(b) # ADMIN_ACCOUNT_ID THEN "RC_OP_NALLOW"
    ELSE IF account_id[Target(b)] # EMPTY_ACCOUNT_ID THEN "RC_ID_IN_USE"
    ELSE "RC_OK"

IsValidBalanceRequest(b) ==
    IF ~Authenticate(req[b].password, Orig(b)) THEN "RC_LOGIN_FAIL"
    ELSE IF Orig(b) = ADMIN_ACCOUNT_ID THEN "RC_OP_NALLOW"
    ELSE "RC_OK"

\* Mutants: the last two checks, one forgotten and one on the amount alone.
IsValidTransferRequest_noFundsCheck(b) ==
    IF Orig(b) = ADMIN_ACCOUNT_ID \/ Target(b) = ADMIN_ACCOUNT_ID
        THEN "RC_OP_NALLOW"
    ELSE IF account_id[Target(b)] = EMPTY_ACCOUNT_ID THEN "RC_ID_NOT_FOUND"
    ELSE IF Orig(b) = Target(b) THEN "RC_SAME_ID"
    ELSE IF Add32(balance[Target(b)], Amount(b)) > MAX_BALANCE THEN "RC_TOO_HIGH"
    ELSE "RC_OK"

IsValidTransferRequest_amountTooHigh(b) ==
    IF Orig(b) = ADMIN_ACCOUNT_ID \/ Target(b) = ADMIN_ACCOUNT_ID
        THEN "RC_OP_NALLOW"
    ELSE IF account_id[Target(b)] = EMPTY_ACCOUNT_ID THEN "RC_ID_NOT_FOUND"
    ELSE IF Orig(b) = Target(b) THEN "RC_SAME_ID"
    ELSE IF balance[Orig(b)] < Amount(b) THEN "RC_NO_FUNDS"
    ELSE IF Amount(b) > MAX_BALANCE THEN "RC_TOO_HIGH"
    ELSE "RC_OK"

IsValidTransferRequest(b) ==
    IF Orig(b) = ADMIN_ACCOUNT_ID \/ Target(b) = ADMIN_ACCOUNT_ID
        THEN "RC_OP_NALLOW"
    ELSE IF account_id[Target(b)] = EMPTY_ACCOUNT_ID THEN "RC_ID_NOT_FOUND"
    ELSE IF Orig(b) = Target(b) THEN "RC_SAME_ID"
    ELSE IF balance[Orig(b)] < Amount(b) THEN "RC_NO_FUNDS"
    ELSE IF Add32(balance[Target(b)], Amount(b)) > MAX_BALANCE THEN "RC_TOO_HIGH"
    ELSE "RC_OK"

-----------------------------------------------------------------------------
(* Building blocks of the steps.                                           *)

Goto(b, l) == pc' = [pc EXCEPT ![b] = l]
Return(b, code) == ret_code' = [ret_code EXCEPT ![b] = code]
Lock(b, a) == mutex[a] = Nobody /\ mutex' = [mutex EXCEPT ![a] = b]
Unlock(b, a) == mutex' = [mutex EXCEPT ![a] = Nobody]

Init ==
    /\ account_id = [a \in AccountIds |->
                        IF a = ADMIN_ACCOUNT_ID THEN a ELSE EMPTY_ACCOUNT_ID]
    /\ hash = [a \in AccountIds |->
                        IF a = ADMIN_ACCOUNT_ID THEN AdminPassword ELSE NoPassword]
    /\ balance \in [AccountIds -> Garbage \cup {0}]
    /\ balance[ADMIN_ACCOUNT_ID] = 0
    /\ mutex = [a \in AccountIds |-> Nobody]
    /\ pc = [b \in Balconies |-> "idle"]
    /\ req = [b \in Balconies |-> NoRequest]
    /\ ret_code = [b \in Balconies |-> "RC_OK"]
    /\ final_balance = [b \in Balconies |-> NoBalance]
    /\ reg = [b \in Balconies |-> 0]

\* Mutant: the case of OP_BALANCE falls into the one of OP_TRANSFER.
Handler_fallsThrough(r) ==
    IF r.type = "OP_CREATE_ACCOUNT" THEN "create_lock" ELSE "lock_first"

\* The switch of balconies.
Handler(r) ==
    CASE r.type = "OP_CREATE_ACCOUNT" -> "create_lock"
      [] r.type = "OP_BALANCE" -> "balance_lock"
      [] r.type = "OP_TRANSFER" -> "lock_first"

\* Balcony b starts on request r; final_balance keeps what the last one left.
Begin(b, r) ==
    /\ pc[b] = "idle"
    /\ req' = [req EXCEPT ![b] = r]
    /\ Goto(b, Handler(r))
    /\ UNCHANGED <<database, mutex, ret_code, final_balance, reg>>

-----------------------------------------------------------------------------
(* create_request and create_account.                                      *)

CreateLock(b) ==
    /\ pc[b] = "create_lock"
    /\ Lock(b, Target(b))
    /\ Goto(b, "create_check")
    /\ UNCHANGED <<database, req, ret_code, final_balance, reg>>

\* The origin account is read without its mutex.
CreateCheck(b) ==
    /\ pc[b] = "create_check"
    /\ Return(b, IsValidCreateRequest(b))
    /\ Goto(b, IF IsValidCreateRequest(b) = "RC_OK"
               THEN "create_hash" ELSE "create_unlock")
    /\ UNCHANGED <<database, mutex, req, final_balance, reg>>

CreateHash(b) ==
    /\ pc[b] = "create_hash"
    /\ hash' = [hash EXCEPT ![Target(b)] = req[b].new_password]
    /\ Goto(b, "create_id")
    /\ UNCHANGED <<account_id, balance, mutex, req, ret_code, final_balance, reg>>

\* gen_hash fails (pipe, fork or read): the account stays empty.
CreateHashFails(b) ==
    /\ pc[b] = "create_hash"
    /\ Return(b, "RC_OTHER")
    /\ Goto(b, "create_unlock")
    /\ UNCHANGED <<database, mutex, req, final_balance, reg>>

\* From here on the account exists, though its balance is not set yet.
CreateId(b) ==
    /\ pc[b] = "create_id"
    /\ account_id' = [account_id EXCEPT ![Target(b)] = Target(b)]
    /\ Goto(b, "create_balance")
    /\ UNCHANGED <<hash, balance, mutex, req, ret_code, final_balance, reg>>

CreateBalance(b) ==
    /\ pc[b] = "create_balance"
    /\ balance' = [balance EXCEPT ![Target(b)] = req[b].balance]
    /\ Goto(b, "create_unlock")
    /\ UNCHANGED <<account_id, hash, mutex, req, ret_code, final_balance, reg>>

CreateUnlock(b) ==
    /\ pc[b] = "create_unlock"
    /\ Unlock(b, Target(b))
    /\ Goto(b, "reply")
    /\ UNCHANGED <<database, req, ret_code, final_balance, reg>>

-----------------------------------------------------------------------------
(* balance_request.                                                        *)

BalanceLock(b) ==
    /\ pc[b] = "balance_lock"
    /\ Lock(b, Orig(b))
    /\ Goto(b, "balance_check")
    /\ UNCHANGED <<database, req, ret_code, final_balance, reg>>

BalanceCheck(b) ==
    /\ pc[b] = "balance_check"
    /\ Return(b, IsValidBalanceRequest(b))
    /\ Goto(b, IF IsValidBalanceRequest(b) = "RC_OK"
               THEN "balance_read" ELSE "balance_unlock")
    /\ UNCHANGED <<database, mutex, req, final_balance, reg>>

BalanceRead(b) ==
    /\ pc[b] = "balance_read"
    /\ final_balance' = [final_balance EXCEPT ![b] = balance[Orig(b)]]
    /\ Goto(b, "balance_unlock")
    /\ UNCHANGED <<database, mutex, req, ret_code, reg>>

BalanceUnlock(b) ==
    /\ pc[b] = "balance_unlock"
    /\ Unlock(b, Orig(b))
    /\ Goto(b, "reply")
    /\ UNCHANGED <<database, req, ret_code, final_balance, reg>>

-----------------------------------------------------------------------------
(* transfer_request.                                                       *)

TransferLockFirst(b) ==
    /\ pc[b] = "lock_first"
    /\ Lock(b, First(b))
    /\ Goto(b, IF First(b) = Second(b) THEN "same_id" ELSE "lock_second")
    /\ UNCHANGED <<database, req, ret_code, final_balance, reg>>

TransferSameId(b) ==
    /\ pc[b] = "same_id"
    /\ IF Authenticate(req[b].password, Orig(b))
       THEN /\ final_balance' = [final_balance EXCEPT ![b] = balance[Orig(b)]]
            /\ Return(b, IsValidTransferRequest(b))
       ELSE /\ Return(b, "RC_LOGIN_FAIL")
            /\ UNCHANGED final_balance
    /\ Goto(b, "unlock_first")
    /\ UNCHANGED <<database, mutex, req, reg>>

\* Mutant: goes on without the second mutex.
TransferLockSecond_skips(b) ==
    /\ pc[b] = "lock_second"
    /\ Goto(b, "login")
    /\ UNCHANGED <<database, mutex, req, ret_code, final_balance, reg>>

TransferLockSecond(b) ==
    /\ pc[b] = "lock_second"
    /\ Lock(b, Second(b))
    /\ Goto(b, "login")
    /\ UNCHANGED <<database, req, ret_code, final_balance, reg>>

\* Mutant: the early return forgets the second mutex.
TransferLogin_keepsSecond(b) ==
    /\ pc[b] = "login"
    /\ IF Authenticate(req[b].password, Orig(b))
       THEN Goto(b, "validate") /\ UNCHANGED ret_code
       ELSE Goto(b, "unlock_first") /\ Return(b, "RC_LOGIN_FAIL")
    /\ UNCHANGED <<database, mutex, req, final_balance, reg>>

TransferLogin(b) ==
    /\ pc[b] = "login"
    /\ IF Authenticate(req[b].password, Orig(b))
       THEN Goto(b, "validate") /\ UNCHANGED ret_code
       ELSE Goto(b, "unlock_second") /\ Return(b, "RC_LOGIN_FAIL")
    /\ UNCHANGED <<database, mutex, req, final_balance, reg>>

TransferValidate(b) ==
    /\ pc[b] = "validate"
    /\ Return(b, IsValidTransferRequest(b))
    /\ Goto(b, IF IsValidTransferRequest(b) = "RC_OK"
               THEN "debit_load" ELSE "read_balance")
    /\ UNCHANGED <<database, mutex, req, final_balance, reg>>

\* -= and += each load the field, compute, and store it.
DebitLoad(b) ==
    /\ pc[b] = "debit_load"
    /\ reg' = [reg EXCEPT ![b] = balance[Orig(b)]]
    /\ Goto(b, "debit_store")
    /\ UNCHANGED <<database, mutex, req, ret_code, final_balance>>

DebitStore(b) ==
    /\ pc[b] = "debit_store"
    /\ balance' = [balance EXCEPT ![Orig(b)] = Sub32(reg[b], Amount(b))]
    /\ reg' = [reg EXCEPT ![b] = 0]
    /\ Goto(b, "credit_load")
    /\ UNCHANGED <<account_id, hash, mutex, req, ret_code, final_balance>>

CreditLoad(b) ==
    /\ pc[b] = "credit_load"
    /\ reg' = [reg EXCEPT ![b] = balance[Target(b)]]
    /\ Goto(b, "credit_store")
    /\ UNCHANGED <<database, mutex, req, ret_code, final_balance>>

CreditStore(b) ==
    /\ pc[b] = "credit_store"
    /\ balance' = [balance EXCEPT ![Target(b)] = Add32(reg[b], Amount(b))]
    /\ reg' = [reg EXCEPT ![b] = 0]
    /\ Goto(b, "read_balance")
    /\ UNCHANGED <<account_id, hash, mutex, req, ret_code, final_balance>>

TransferReadBalance(b) ==
    /\ pc[b] = "read_balance"
    /\ final_balance' = [final_balance EXCEPT ![b] = balance[Orig(b)]]
    /\ Goto(b, "unlock_second")
    /\ UNCHANGED <<database, mutex, req, ret_code, reg>>

TransferUnlockSecond(b) ==
    /\ pc[b] = "unlock_second"
    /\ Unlock(b, Second(b))
    /\ Goto(b, "unlock_first")
    /\ UNCHANGED <<database, req, ret_code, final_balance, reg>>

TransferUnlockFirst(b) ==
    /\ pc[b] = "unlock_first"
    /\ Unlock(b, First(b))
    /\ Goto(b, "reply")
    /\ UNCHANGED <<database, req, ret_code, final_balance, reg>>

-----------------------------------------------------------------------------

\* init_reply and free(first_request); the codes left behind are dead.
Reply(b) ==
    /\ pc[b] = "reply"
    /\ req' = [req EXCEPT ![b] = NoRequest]
    /\ Return(b, "RC_OK")
    /\ Goto(b, "idle")
    /\ UNCHANGED <<database, mutex, final_balance, reg>>

\* A step of the handler that balcony b is in.
Step(b) ==
    \/ CreateLock(b)
    \/ CreateCheck(b)
    \/ CreateHash(b)
    \/ CreateHashFails(b)
    \/ CreateId(b)
    \/ CreateBalance(b)
    \/ CreateUnlock(b)
    \/ BalanceLock(b)
    \/ BalanceCheck(b)
    \/ BalanceRead(b)
    \/ BalanceUnlock(b)
    \/ TransferLockFirst(b)
    \/ TransferSameId(b)
    \/ TransferLockSecond(b)
    \/ TransferLogin(b)
    \/ TransferValidate(b)
    \/ DebitLoad(b)
    \/ DebitStore(b)
    \/ CreditLoad(b)
    \/ CreditStore(b)
    \/ TransferReadBalance(b)
    \/ TransferUnlockSecond(b)
    \/ TransferUnlockFirst(b)
    \/ Reply(b)

Next == \E b \in Balconies : Step(b) \/ \E r \in Requests : Begin(b, r)

Spec == Init /\ [][Next]_vars

\* Each balcony is a thread that the scheduler keeps running.  The mutexes are
\* not fair: nothing is assumed about who gets a contended one.
Fairness == \A b \in Balconies : WF_vars(Step(b))

FairSpec == Spec /\ Fairness

-----------------------------------------------------------------------------
(* Properties.                                                             *)

PcValues ==
    {"idle", "create_lock", "create_check", "create_hash", "create_id",
     "create_balance", "create_unlock", "balance_lock", "balance_check",
     "balance_read", "balance_unlock", "lock_first", "same_id", "lock_second",
     "login", "validate", "debit_load", "debit_store", "credit_load",
     "credit_store", "read_balance", "unlock_second", "unlock_first", "reply"}

\* The points of each handler, by the kind of request they serve.
CreatePcs == {"create_lock", "create_check", "create_hash", "create_id",
              "create_balance", "create_unlock"}
BalancePcs == {"balance_lock", "balance_check", "balance_read", "balance_unlock"}
TransferPcs == PcValues \ (CreatePcs \cup BalancePcs \cup {"idle", "reply"})

\* Types of the variables, and the request that each point of the code serves.
TypeOK ==
    /\ account_id \in [AccountIds -> AccountIds \cup {EMPTY_ACCOUNT_ID}]
    /\ hash \in [AccountIds -> Passwords \cup {NoPassword}]
    /\ balance \in [AccountIds -> UInt32]
    /\ mutex \in [AccountIds -> Balconies \cup {Nobody}]
    /\ pc \in [Balconies -> PcValues]
    /\ req \in [Balconies -> LegalRequests \cup {NoRequest}]
    /\ ret_code \in [Balconies -> RetCodes]
    /\ final_balance \in [Balconies -> UInt32 \cup {NoBalance}]
    /\ reg \in [Balconies -> UInt32]
    /\ \A b \in Balconies :
        /\ pc[b] \in CreatePcs => req[b] \in CreateRequests
        /\ pc[b] \in BalancePcs => req[b] \in BalanceRequests
        /\ pc[b] \in TransferPcs => req[b] \in TransferRequests
        /\ pc[b] = "reply" => req[b] \in LegalRequests

\* The mutexes that balcony b must own at the point of the code where it is.
Held(b) ==
    IF pc[b] \in CreatePcs \ {"create_lock"} THEN {Target(b)}
    ELSE IF pc[b] \in BalancePcs \ {"balance_lock"} THEN {Orig(b)}
    ELSE IF pc[b] \in {"same_id", "lock_second", "unlock_first"} THEN {First(b)}
    ELSE IF pc[b] \in TransferPcs \ {"lock_first"} THEN {First(b), Second(b)}
    ELSE {}

\* Every handler owns the mutexes of the accounts that it is working on, and
\* gives all of them back on each of its return paths, the early ones included
\* (requests.c:35-42, 61-80, 93-104): a balcony that is idle, replying or
\* about to lock holds none, and no mutex has two users.
LockOwnership ==
    \A a \in AccountIds, b \in Balconies : mutex[a] = b <=> a \in Held(b)

\* b has published a new account whose balance field it has not set yet.
Opening(a, b) == pc[b] = "create_balance" /\ Target(b) = a

\* b has debited its origin account and not yet credited account a.
Crediting(a, b) == pc[b] \in {"credit_load", "credit_store"} /\ Target(b) = a

\* No account ever holds more than MAX_BALANCE, whatever the transfers that run
\* at once: the checks of is_valid_transfer_request (requests.c:217-222) still
\* hold when the balances are stored, the subtraction never wraps below zero,
\* and what malloc left in the field of a new account is never taken for money.
BalanceInRange ==
    \A a \in AccountIds :
        account_id[a] # EMPTY_ACCOUNT_ID /\ (\A b \in Balconies : ~Opening(a, b))
            => balance[a] <= MAX_BALANCE

\* A transfer that locks two mutexes works on two accounts.
DistinctAccounts ==
    \A b \in Balconies :
        pc[b] \in TransferPcs \ {"lock_first", "same_id", "unlock_first"}
            => First(b) # Second(b)

\* What the transfer of b has established at each of its points.
Established(b) ==
    /\ pc[b] \in {"validate", "debit_load", "debit_store", "credit_load",
                  "credit_store"} =>
        account_id[Orig(b)] # EMPTY_ACCOUNT_ID
    /\ pc[b] \in {"debit_load", "debit_store", "credit_load", "credit_store"} =>
        /\ account_id[Target(b)] # EMPTY_ACCOUNT_ID
        /\ balance[Target(b)] + Amount(b) <= MAX_BALANCE
    /\ pc[b] \in {"debit_load", "debit_store"} => Amount(b) <= balance[Orig(b)]
    /\ pc[b] = "debit_store" => reg[b] = balance[Orig(b)]
    /\ pc[b] = "credit_store" => reg[b] = balance[Target(b)]

\* It still holds at the last store, whatever other balconies do meanwhile.
TransferFacts == \A b \in Balconies : Established(b)

\* The inductive invariant: what a step of any balcony may rely on and keeps.
IInv ==
    /\ TypeOK
    /\ DistinctAccounts
    /\ LockOwnership
    /\ TransferFacts
    /\ BalanceInRange

\* What is still on its way to account a.
OnItsWay(a) ==
    SumFunction([b \in {c \in Balconies : Crediting(a, c)} |-> Amount(b)])

\* The money in account a, with what is on its way to it.
Money(a) ==
    IF account_id[a] = EMPTY_ACCOUNT_ID THEN 0
    ELSE IF \E b \in Balconies : Opening(a, b)
         THEN req[CHOOSE b \in Balconies : Opening(a, b)].balance
         ELSE balance[a] + OnItsWay(a)

TotalMoney == SumFunction([a \in AccountIds |-> Money(a)])

\* The balances that the accounts created by this step start with.
Creating == {b \in Balconies : pc[b] = "create_id" /\ pc'[b] # pc[b]}
Deposited == SumFunction([b \in Creating |-> req[b].balance])

\* Money is neither lost nor made by any interleaving of transfers, balance
\* checks and account creations: the only deposit is the opening balance of a
\* new account (requests.c:106-109, account_utilities.c:37-38).
MoneyConserved == [][TotalMoney' = TotalMoney + Deposited]_vars

\* The mutex that balcony b is about to lock, if any.
Wanted(b) ==
    CASE pc[b] = "create_lock" -> {Target(b)}
      [] pc[b] = "balance_lock" -> {Orig(b)}
      [] pc[b] = "lock_first" -> {First(b)}
      [] pc[b] = "lock_second" -> {Second(b)}
      [] OTHER -> {}

\* No group of balconies waits for mutexes that only the group itself owns:
\* locking the smaller account first (requests.c:48-52, 82) rules out the cycle
\* of transfers 1 -> 2, 2 -> 3 and 3 -> 1, while other balconies go on.
NoDeadlockedGroup ==
    \A group \in (SUBSET Balconies) \ {{}} :
        \E b \in group : \A a \in Wanted(b) : mutex[a] \notin group

\* When no more requests arrive, every request that a balcony took is answered.
AllServed ==
    (<>[][\A b \in Balconies : pc[b] = "idle" => pc'[b] = "idle"]_vars)
        => <>[](\A b \in Balconies : pc[b] = "idle")

-----------------------------------------------------------------------------
(* A statement of comments in the code that the handlers do not keep.      *)

\* What init_reply (com_protocol.c:63-83) puts in the balance field.
ReplyBalance(b) ==
    IF \/ req[b].type = "OP_BALANCE" /\ ret_code[b] = "RC_OK"
       \/ req[b].type = "OP_TRANSFER"
    THEN final_balance[b] ELSE NoBalance

\* requests.c:62 and :92: a wrong password "must not give access to the balance".
NoBalanceOnLoginFail ==
    \A b \in Balconies :
        pc[b] = "reply" /\ ret_code[b] = "RC_LOGIN_FAIL"
            => ReplyBalance(b) = NoBalance

-----------------------------------------------------------------------------
(* Refinement: the handlers implement the bank of module Bank.             *)

\* A request has taken effect once its return code is decided; a creation when
\* the account is published, a transfer when the origin account is debited.
TookEffect(b) ==
    pc[b] \in {"create_balance", "create_unlock", "balance_read",
               "balance_unlock", "credit_load", "credit_store", "read_balance",
               "unlock_second", "unlock_first", "reply"}

\* The balance that the answer of b discloses: the handler may not have read it
\* yet, but the account is locked until it does.
AnsweredBalance(b) ==
    IF ret_code[b] = "RC_LOGIN_FAIL" THEN NoBalance
    ELSE IF pc[b] \in {"balance_read", "credit_load", "credit_store", "read_balance"}
         THEN balance[Orig(b)]
    ELSE ReplyBalance(b)

BankCall(b) ==
    CASE pc[b] = "idle" -> [state |-> "idle"]
      [] TookEffect(b) -> [state |-> "answered", req |-> req[b],
                           ret |-> ret_code[b], balance |-> AnsweredBalance(b)]
      [] OTHER -> [state |-> "called", req |-> req[b]]

BankPassword ==
    [a \in AccountIds |->
        IF account_id[a] = EMPTY_ACCOUNT_ID THEN NoPassword ELSE hash[a]]
BankFunds == [a \in AccountIds |-> Money(a)]
BankCalls == [b \in Balconies |-> BankCall(b)]

B == INSTANCE Bank WITH
        password <- BankPassword, funds <- BankFunds, call <- BankCalls

\* Whatever the interleaving, the requests that run at once have the effects
\* and the answers they would have had one at a time: the handlers implement
\* the bank (the shared unlocked reads of requests.c:182 included).
BankSpec == B!Spec

=============================================================================
