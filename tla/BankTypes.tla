----------------------------- MODULE BankTypes -----------------------------
(***************************************************************************)
(* The vocabulary shared by the modules about the accounts: identifiers,   *)
(* balances, the requests that a user process can send, the return codes   *)
(* in the order in which src/shared/types.h lists them, and the arithmetic *)
(* of the uint32_t balance field.                                          *)
(***************************************************************************)
EXTENDS Integers

CONSTANTS
    MAX_BANK_ACCOUNTS,  \* length of accounts_database
    MIN_BALANCE,        \* smallest opening balance and smallest amount
    MAX_BALANCE,        \* largest balance an account may hold
    UINT32_MAX,         \* largest value of a uint32_t
    Passwords           \* the passwords that users type

ASSUME AccountsAssumption == MAX_BANK_ACCOUNTS \in Nat \ {0}

ASSUME BalanceAssumption ==
    /\ MIN_BALANCE \in Nat \ {0}
    /\ MAX_BALANCE \in Nat
    /\ MIN_BALANCE <= MAX_BALANCE

\* The sum of two legal balances fits in a uint32_t: 2 * 10^9 < 2^32.
ASSUME WidthAssumption ==
    /\ UINT32_MAX \in Nat
    /\ MAX_BALANCE + MAX_BALANCE <= UINT32_MAX

ADMIN_ACCOUNT_ID == 0
EMPTY_ACCOUNT_ID == MAX_BANK_ACCOUNTS + 1

AccountIds == 0 .. MAX_BANK_ACCOUNTS - 1
UserAccountIds == AccountIds \ {ADMIN_ACCOUNT_ID}
UInt32 == 0 .. UINT32_MAX
Amounts == MIN_BALANCE .. MAX_BALANCE

NoPassword == "no password"
ASSUME PasswordAssumption == NoPassword \notin Passwords

-----------------------------------------------------------------------------
(* Requests, as user_parse.c lets them through.                            *)

CreateRequests ==
    [type : {"OP_CREATE_ACCOUNT"}, orig : AccountIds, password : Passwords,
     account_id : UserAccountIds, balance : Amounts, new_password : Passwords]

BalanceRequests ==
    [type : {"OP_BALANCE"}, orig : AccountIds, password : Passwords]

TransferRequests ==
    [type : {"OP_TRANSFER"}, orig : AccountIds, password : Passwords,
     account_id : UserAccountIds, amount : Amounts]

\* Not one of those that reach the accounts: see module Server.
ShutdownRequests ==
    [type : {"OP_SHUTDOWN"}, orig : AccountIds, password : Passwords]

LegalRequests == CreateRequests \cup BalanceRequests \cup TransferRequests

NoRequest == [type |-> "OP_NONE"]

-----------------------------------------------------------------------------
(* Return codes.                                                           *)

ret_code_t ==
    << "RC_OK", "RC_SRV_DOWN", "RC_SRV_TIMEOUT", "RC_USR_DOWN",
       "RC_LOGIN_FAIL", "RC_OP_NALLOW", "RC_ID_IN_USE", "RC_ID_NOT_FOUND",
       "RC_SAME_ID", "RC_NO_FUNDS", "RC_TOO_HIGH", "RC_OTHER" >>

RetCodes == {ret_code_t[i] : i \in 1 .. 12}

-----------------------------------------------------------------------------
(* uint32_t addition and subtraction wrap around.                          *)

Add32(x, y) == IF x + y <= UINT32_MAX THEN x + y ELSE x + y - (UINT32_MAX + 1)
Sub32(x, y) == IF y <= x THEN x - y ELSE x - y + (UINT32_MAX + 1)

min(x, y) == IF x < y THEN x ELSE y
max(x, y) == IF x > y THEN x ELSE y

=============================================================================
