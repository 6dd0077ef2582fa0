----------------------------- MODULE UserParse -----------------------------
(***************************************************************************)
(* From the words of a command line to a request: the conversions of       *)
(* src/shared/utilities.c, the checks of src/user_f/user_parse.c in the    *)
(* order in which main of user.c makes them, and init_request of           *)
(* src/shared/com_protocol.c; the same for the arguments of the server.    *)
(*                                                                         *)
(* A word is what the two kinds of readers make of it: the number that     *)
(* strtol and strtoul find at its start (0 if none, as in an empty word),  *)
(* whether text follows that number, and the password that it is, or       *)
(* NoPassword if its length is not that of one.                            *)
(***************************************************************************)
EXTENDS BankTypes, Sequences

CONSTANTS
    INT_MAX, LONG_MAX, ULONG_MAX,  \* the widths of the C types
    MAX_OP_DELAY_MS,
    MAX_BANK_OFFICES

ASSUME LimitsAssumption ==
    /\ {INT_MAX, LONG_MAX, ULONG_MAX} \subseteq Nat
    /\ {MAX_OP_DELAY_MS, MAX_BANK_OFFICES} \subseteq Nat

Words == [number : Int, text_follows : BOOLEAN, password : Passwords \cup {NoPassword}]
CommandLines == [account_id : Words, pwd : Words, delay : Words, operation : Words,
                 req_args : Seq(Words)]

INVALID_BALANCE == MAX_BALANCE + 1

\* Two's complement: the int that is left of a long.
ToInt(x) == ((x + INT_MAX + 1) % (2 * (INT_MAX + 1))) - INT_MAX - 1

\* strtol stops at the bounds of a long; the int takes its lower half.
strtol(word) == max(-LONG_MAX - 1, min(word.number, LONG_MAX))
str_to_int(word) == IF word.text_follows THEN -1 ELSE ToInt(strtol(word))

\* strtoul accepts a minus sign and negates modulo ULONG_MAX + 1.
strtoul(word) ==
    IF word.number \in -ULONG_MAX .. ULONG_MAX
    THEN word.number % (ULONG_MAX + 1) ELSE ULONG_MAX
str_to_lu(word) == IF word.text_follows THEN INVALID_BALANCE ELSE strtoul(word)

valid_account_id(id) == id >= 0 /\ id < MAX_BANK_ACCOUNTS
valid_user_account_id(id) == valid_account_id(id) /\ id # 0
valid_pwd(word) == word.password # NoPassword
valid_balance(balance) == balance >= MIN_BALANCE /\ balance <= MAX_BALANCE
valid_delay(delay) == delay >= 0 /\ delay <= MAX_OP_DELAY_MS

\* op_type_t
OP_CREATE_ACCOUNT == 0
OP_BALANCE == 1
OP_TRANSFER == 2
OP_SHUTDOWN == 3

valid_args(line) ==
    /\ valid_account_id(str_to_int(line.account_id))
    /\ valid_pwd(line.pwd)
    /\ valid_delay(str_to_int(line.delay))
    /\ str_to_int(line.operation) \in OP_CREATE_ACCOUNT .. OP_SHUTDOWN

\* An account and an amount of a creation or a transfer.
valid_account_and_amount(id, balance) ==
    /\ str_to_int(id) # -1
    /\ str_to_lu(balance) # INVALID_BALANCE
    /\ valid_user_account_id(str_to_int(id))
    /\ valid_balance(str_to_lu(balance))

valid_req_args(operation, req_args) ==
    CASE operation = OP_CREATE_ACCOUNT ->
            /\ Len(req_args) = 3
            /\ valid_account_and_amount(req_args[1], req_args[2])
            /\ valid_pwd(req_args[3])
      [] operation = OP_TRANSFER ->
            Len(req_args) = 2 /\ valid_account_and_amount(req_args[1], req_args[2])
      [] OTHER -> req_args = <<>>

\* More words than req_args has room for are refused.
parse_req_args(req_args) == Len(req_args) <= 3

\* main of user.c gets as far as the request.
Accepts(line) ==
    /\ -1 \notin {str_to_int(line.account_id), str_to_int(line.delay),
                  str_to_int(line.operation)}
    /\ valid_args(line)
    /\ parse_req_args(line.req_args)
    /\ valid_req_args(str_to_int(line.operation), line.req_args)

\* The balance and the amount of a request are uint32_t.
ToUInt32(x) == x % (UINT32_MAX + 1)

create_of(line) ==
    [type |-> "OP_CREATE_ACCOUNT",
     orig |-> str_to_int(line.account_id), password |-> line.pwd.password,
     account_id |-> str_to_int(line.req_args[1]),
     balance |-> ToUInt32(str_to_lu(line.req_args[2])),
     new_password |-> line.req_args[3].password]

transfer_of(line) ==
    [type |-> "OP_TRANSFER",
     orig |-> str_to_int(line.account_id), password |-> line.pwd.password,
     account_id |-> str_to_int(line.req_args[1]),
     amount |-> ToUInt32(str_to_lu(line.req_args[2]))]

plain_of(type, line) ==
    [type |-> type, orig |-> str_to_int(line.account_id), password |-> line.pwd.password]

init_request(line) ==
    CASE str_to_int(line.operation) = OP_CREATE_ACCOUNT -> create_of(line)
      [] str_to_int(line.operation) = OP_TRANSFER -> transfer_of(line)
      [] str_to_int(line.operation) = OP_BALANCE -> plain_of("OP_BALANCE", line)
      [] OTHER -> plain_of("OP_SHUTDOWN", line)

\* The requests that these command lines make users send.
Sent(lines) == {init_request(line) : line \in {l \in lines : Accepts(l)}}

\* valid_args of server_parse.c
valid_server_args(n_threads, pwd) ==
    n_threads > 0 /\ n_threads <= MAX_BANK_OFFICES /\ valid_pwd(pwd)

\* main of server.c: a number of threads that strtol cuts to a long is refused.
AcceptsServer(n_threads, pwd) ==
    /\ n_threads.number \in -LONG_MAX - 1 .. LONG_MAX
    /\ ~n_threads.text_follows
    /\ valid_server_args(ToInt(strtol(n_threads)), pwd)

=============================================================================
