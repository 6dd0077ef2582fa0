------------------------------- MODULE Bank -------------------------------
(***************************************************************************)
(* What the bank promises its users, whatever the number of balconies that *)
(* serve them: every request takes effect at one instant between the       *)
(* moment a balcony takes it and the moment its reply is ready, and its    *)
(* return code is the first applicable error in the order of               *)
(* src/shared/types.h:17 ("if there is more than one error, the first      *)
(* within this list must be returned"), or RC_OK when there is none.       *)
(***************************************************************************)
EXTENDS BankTypes

CONSTANTS Balconies, Requests, AdminPassword

VARIABLES
    password,   \* password[a]: NoPassword when account a does not exist
    funds,      \* funds[a]: the money in account a
    call        \* call[b]: the request that balcony b serves and its answer

vars == <<password, funds, call>>

NoBalance == -1
Idle == [state |-> "idle"]
Called(r) == [state |-> "called", req |-> r]
Answered(r, ret, bal) ==
    [state |-> "answered", req |-> r, ret |-> ret, balance |-> bal]

-----------------------------------------------------------------------------

Exists(a) == password[a] # NoPassword

\* Every error that applies to r in the current state of the accounts.
Errors(r) ==
    {e \in RetCodes :
        \/ /\ e = "RC_LOGIN_FAIL"
           /\ password[r.orig] # r.password
        \/ /\ e = "RC_OP_NALLOW"
           /\ (r.type = "OP_CREATE_ACCOUNT") # (r.orig = ADMIN_ACCOUNT_ID)
        \/ /\ e = "RC_ID_IN_USE"
           /\ r.type = "OP_CREATE_ACCOUNT"
           /\ Exists(r.account_id)
        \/ /\ r.type = "OP_TRANSFER"
           /\ \/ e = "RC_ID_NOT_FOUND" /\ ~Exists(r.account_id)
              \/ e = "RC_SAME_ID" /\ r.orig = r.account_id
              \/ e = "RC_NO_FUNDS" /\ funds[r.orig] < r.amount
              \/ e = "RC_TOO_HIGH" /\ funds[r.account_id] + r.amount > MAX_BALANCE}

\* The code to answer: the error that the enumeration lists first.
FirstError(errors) ==
    IF errors = {} THEN "RC_OK"
    ELSE ret_code_t[CHOOSE i \in 1 .. 12 :
                        /\ ret_code_t[i] \in errors
                        /\ \A j \in 1 .. i - 1 : ret_code_t[j] \notin errors]

\* A balance is disclosed by a successful balance check, and by a transfer
\* whatever its outcome, unless the login failed.
Disclosed(r, ret, bal) ==
    IF \/ r.type = "OP_BALANCE" /\ ret = "RC_OK"
       \/ r.type = "OP_TRANSFER" /\ ret # "RC_LOGIN_FAIL"
    THEN bal ELSE NoBalance

-----------------------------------------------------------------------------

Init ==
    /\ password = [a \in AccountIds |->
                       IF a = ADMIN_ACCOUNT_ID THEN AdminPassword ELSE NoPassword]
    /\ funds = [a \in AccountIds |-> 0]
    /\ call = [b \in Balconies |-> Idle]

\* Balcony b takes request r.
Call(b, r) ==
    /\ call[b] = Idle
    /\ call' = [call EXCEPT ![b] = Called(r)]
    /\ UNCHANGED <<password, funds>>

Answer(b, ret, bal) ==
    call' = [call EXCEPT ![b] = Answered(@.req, ret, Disclosed(@.req, ret, bal))]

\* The request of b is refused and changes nothing.
Refuse(b) ==
    /\ call[b].state = "called"
    /\ Errors(call[b].req) # {}
    /\ Answer(b, FirstError(Errors(call[b].req)), funds[call[b].req.orig])
    /\ UNCHANGED <<password, funds>>

CreateAccount(b) ==
    /\ call[b].state = "called"
    /\ LET r == call[b].req IN
        /\ r.type = "OP_CREATE_ACCOUNT"
        /\ Errors(r) = {}
        /\ password' = [password EXCEPT ![r.account_id] = r.new_password]
        /\ funds' = [funds EXCEPT ![r.account_id] = r.balance]
        /\ Answer(b, "RC_OK", NoBalance)

\* The hash of the new password could not be computed: nothing is created.
FailCreation(b) ==
    /\ call[b].state = "called"
    /\ call[b].req.type = "OP_CREATE_ACCOUNT"
    /\ Errors(call[b].req) = {}
    /\ Answer(b, "RC_OTHER", NoBalance)
    /\ UNCHANGED <<password, funds>>

CheckBalance(b) ==
    /\ call[b].state = "called"
    /\ call[b].req.type = "OP_BALANCE"
    /\ Errors(call[b].req) = {}
    /\ Answer(b, "RC_OK", funds[call[b].req.orig])
    /\ UNCHANGED <<password, funds>>

Transfer(b) ==
    /\ call[b].state = "called"
    /\ LET r == call[b].req IN
        /\ r.type = "OP_TRANSFER"
        /\ Errors(r) = {}
        /\ funds' = [funds EXCEPT ![r.orig] = @ - r.amount,
                                  ![r.account_id] = @ + r.amount]
        /\ Answer(b, "RC_OK", funds'[r.orig])
        /\ UNCHANGED password

\* The reply has left: b is free for the next request.
Return(b) ==
    /\ call[b].state = "answered"
    /\ call' = [call EXCEPT ![b] = Idle]
    /\ UNCHANGED <<password, funds>>

Next ==
    \E b \in Balconies :
        \/ \E r \in Requests : Call(b, r)
        \/ Refuse(b)
        \/ CreateAccount(b)
        \/ FailCreation(b)
        \/ CheckBalance(b)
        \/ Transfer(b)
        \/ Return(b)

Spec == Init /\ [][Next]_vars

=============================================================================
