---------------------------- MODULE MCAccounts ----------------------------
(***************************************************************************)
(* A small bank for TLC: the administrator, two clients, the requests that *)
(* reach every branch of the handlers, and the command lines that make     *)
(* users send them.                                                        *)
(***************************************************************************)
EXTENDS Accounts, UserParse

CONSTANTS pwAdmin, pw1, pw2, b1, b2

MCPasswords == {pwAdmin, pw1, pw2}
MCGarbage == {UINT32_MAX}

Create(orig, pwd, id, opening, new) ==
    [type |-> "OP_CREATE_ACCOUNT", orig |-> orig, password |-> pwd,
     account_id |-> id, balance |-> opening, new_password |-> new]
Check(orig, pwd) == [type |-> "OP_BALANCE", orig |-> orig, password |-> pwd]
Transfer(orig, pwd, id, amount) ==
    [type |-> "OP_TRANSFER", orig |-> orig, password |-> pwd,
     account_id |-> id, amount |-> amount]

\* Every kind of request and every return code.
MCRequests ==
    { Create(0, pwAdmin, 1, 3, pw1), Create(0, pwAdmin, 1, 1, pw1),
      Create(0, pwAdmin, 2, 1, pw2), Create(1, pw1, 2, 1, pw2),
      Check(1, pw1), Check(0, pwAdmin),
      Transfer(1, pw1, 2, 1), Transfer(2, pw2, 1, 1), Transfer(2, pw1, 1, 1),
      Transfer(1, pw1, 1, 1), Transfer(0, pwAdmin, 1, 1) }

Num(n) == [number |-> n, text_follows |-> FALSE, password |-> NoPassword]
Word(pwd) == [number |-> 0, text_follows |-> TRUE, password |-> pwd]
Line(orig, pwd, operation, req_args) ==
    [account_id |-> Num(orig), pwd |-> Word(pwd), delay |-> Num(0),
     operation |-> Num(operation), req_args |-> req_args]
CreateLine(orig, pwd, id, opening, new) ==
    Line(orig, pwd, OP_CREATE_ACCOUNT, <<Num(id), Num(opening), Word(new)>>)
TransferLine(orig, pwd, id, amount) ==
    Line(orig, pwd, OP_TRANSFER, <<Num(id), Num(amount)>>)

\* One number of these wraps to an account, and one to an amount.
GoodLines ==
    { CreateLine(0, pwAdmin, 1, 3, pw1), CreateLine(0, pwAdmin, 1, 1, pw1),
      CreateLine(0, pwAdmin, 2, 1, pw2), CreateLine(1, pw1, 2, 1, pw2),
      Line(1, pw1, OP_BALANCE, <<>>), Line(0, pwAdmin, OP_BALANCE, <<>>),
      TransferLine(1, pw1, 2 + 2 * (INT_MAX + 1), 1),
      TransferLine(2, pw2, 1, -ULONG_MAX), TransferLine(2, pw1, 1, 1),
      TransferLine(1, pw1, 1, 1), TransferLine(0, pwAdmin, 1, 1) }

\* One of each kind that the user process refuses.
BadLines ==
    { Line(MAX_BANK_ACCOUNTS, pw1, OP_BALANCE, <<>>),
      Line(-1 - 2 * (INT_MAX + 1), pw1, OP_BALANCE, <<>>),
      Line(1, NoPassword, OP_BALANCE, <<>>), Line(1, pw1, OP_SHUTDOWN + 1, <<>>),
      Line(1, pw1, OP_BALANCE, <<Num(1)>>),
      CreateLine(0, pwAdmin, 0, 1, pw1), CreateLine(0, pwAdmin, 1, 0, pw1),
      CreateLine(0, pwAdmin, 1, MAX_BALANCE + 1, pw1),
      CreateLine(0, pwAdmin, 1, UINT32_MAX + 2, pw1),
      CreateLine(0, pwAdmin, 1, ULONG_MAX + 1, pw1),
      CreateLine(0, pwAdmin, 1, 1, NoPassword),
      TransferLine(1, pw1, 2, -1), TransferLine(1, pw1, LONG_MAX + 1, 1),
      Line(1, pw1, OP_TRANSFER, <<Num(2), Word(pw1)>>),
      Line(1, pw1, OP_TRANSFER, <<Num(2), Num(1), Num(1), Num(1)>>) }

ASSUME LinesMakeTheRequests ==
    /\ Sent(GoodLines) = MCRequests
    /\ Sent(BadLines) = {}
    /\ AcceptsServer(Num(Cardinality(Balconies)), Word(AdminPassword))

=============================================================================
