-------------------------- MODULE UserParseProofs --------------------------
(***************************************************************************)
(* What the checks of the user process are for: whatever its command line, *)
(* a request that it sends is one that the handlers of the server expect,  *)
(* though the conversions cut numbers to the width of a C type.            *)
(***************************************************************************)
EXTENDS UserParse, TLAPS

\* The conversion to int gives a number.
LEMMA ToIntIsInt ==
    ASSUME NEW x \in Int
    PROVE  ToInt(x) \in Int
BY LimitsAssumption DEF ToInt

\* Numbers of any length become numbers.
LEMMA ConversionsAreInt ==
    ASSUME NEW word \in Words
    PROVE  /\ str_to_int(word) \in Int
           /\ str_to_lu(word) \in Nat
<1>1. word.number \in Int /\ word.text_follows \in BOOLEAN
  BY DEF Words
<1>2. strtol(word) \in Int
  BY <1>1, LimitsAssumption DEF strtol, min, max
<1>3. strtoul(word) \in Nat
  BY <1>1, LimitsAssumption DEF strtoul
<1>4. INVALID_BALANCE \in Nat
  BY BalanceAssumption DEF INVALID_BALANCE
<1>5. ToInt(strtol(word)) \in Int
  BY <1>2, ToIntIsInt
<1> QED
  BY <1>3, <1>4, <1>5 DEF str_to_int, str_to_lu

\* A valid account id is that of an account.
LEMMA ValidAccount ==
    ASSUME NEW id \in Int, valid_account_id(id)
    PROVE  id \in AccountIds
BY AccountsAssumption DEF valid_account_id, AccountIds

\* A balance or an amount that is valid fits in a uint32_t.
LEMMA ValidBalance ==
    ASSUME NEW balance \in Nat, valid_balance(balance)
    PROVE  ToUInt32(balance) = balance /\ balance \in Amounts
<1>1. balance <= UINT32_MAX
  BY BalanceAssumption, WidthAssumption DEF valid_balance
<1> QED
  BY <1>1, BalanceAssumption, WidthAssumption DEF valid_balance, ToUInt32, Amounts

\* A valid amount still fits after its last conversion.
LEMMA ValidAccountAndAmount ==
    ASSUME NEW id \in Words, NEW balance \in Words,
           valid_account_and_amount(id, balance)
    PROVE  /\ str_to_int(id) \in UserAccountIds
           /\ ToUInt32(str_to_lu(balance)) \in Amounts
<1>1. str_to_int(id) \in Int /\ str_to_lu(balance) \in Nat
  BY ConversionsAreInt
<1>2. valid_user_account_id(str_to_int(id)) /\ valid_balance(str_to_lu(balance))
  BY DEF valid_account_and_amount
<1>3. str_to_int(id) \in UserAccountIds
  BY <1>1, <1>2, ValidAccount DEF valid_user_account_id, UserAccountIds, ADMIN_ACCOUNT_ID
<1>4. ToUInt32(str_to_lu(balance)) \in Amounts
  BY <1>1, <1>2, ValidBalance
<1> QED
  BY <1>3, <1>4

\* Every request that main of user.c lets through (user.c:54-101) is legal: the
\* accounts exist, no amount was changed by the width of its field, and a
\* creation, a transfer or a payment of nothing never leaves the user process.
THEOREM SentAreLegal ==
    ASSUME NEW line \in CommandLines, Accepts(line)
    PROVE  init_request(line) \in LegalRequests \cup ShutdownRequests
<1> DEFINE operation == str_to_int(line.operation)
           args == line.req_args
<1>1. /\ line.account_id \in Words /\ line.pwd \in Words
      /\ line.operation \in Words /\ args \in Seq(Words)
  BY DEF CommandLines
<1>2. /\ valid_account_id(str_to_int(line.account_id))
      /\ line.pwd.password # NoPassword
      /\ operation \in OP_CREATE_ACCOUNT .. OP_SHUTDOWN
  BY DEF Accepts, valid_args, valid_pwd
<1>3. str_to_int(line.account_id) \in AccountIds
  BY <1>1, <1>2, ConversionsAreInt, ValidAccount
<1>4. line.pwd.password \in Passwords
  BY <1>1, <1>2 DEF Words
<1>5. valid_req_args(operation, args)
  BY DEF Accepts
<1>6. CASE operation = OP_CREATE_ACCOUNT
  <2>1. Len(args) = 3 /\ valid_account_and_amount(args[1], args[2]) /\ valid_pwd(args[3])
    BY <1>5, <1>6 DEF valid_req_args, OP_CREATE_ACCOUNT, OP_TRANSFER
  <2>2. args[1] \in Words /\ args[2] \in Words /\ args[3] \in Words
    BY <1>1, <2>1
  <2>3. /\ str_to_int(args[1]) \in UserAccountIds
        /\ ToUInt32(str_to_lu(args[2])) \in Amounts
    BY <2>1, <2>2, ValidAccountAndAmount
  <2>4. args[3].password \in Passwords
    BY <2>1, <2>2 DEF valid_pwd, Words
  <2>5. create_of(line) \in CreateRequests
    BY <1>3, <1>4, <2>3, <2>4 DEF create_of, CreateRequests
  <2>6. init_request(line) = create_of(line)
    BY <1>6 DEF init_request, OP_CREATE_ACCOUNT, OP_TRANSFER, OP_BALANCE
  <2> QED
    BY <2>5, <2>6 DEF LegalRequests
<1>7. CASE operation = OP_TRANSFER
  <2>1. Len(args) = 2 /\ valid_account_and_amount(args[1], args[2])
    BY <1>5, <1>7 DEF valid_req_args, OP_CREATE_ACCOUNT, OP_TRANSFER
  <2>2. args[1] \in Words /\ args[2] \in Words
    BY <1>1, <2>1
  <2>3. /\ str_to_int(args[1]) \in UserAccountIds
        /\ ToUInt32(str_to_lu(args[2])) \in Amounts
    BY <2>1, <2>2, ValidAccountAndAmount
  <2>4. transfer_of(line) \in TransferRequests
    BY <1>3, <1>4, <2>3 DEF transfer_of, TransferRequests
  <2>5. init_request(line) = transfer_of(line)
    BY <1>7 DEF init_request, OP_CREATE_ACCOUNT, OP_TRANSFER, OP_BALANCE
  <2> QED
    BY <2>4, <2>5 DEF LegalRequests
<1>8. CASE operation = OP_BALANCE
  <2>1. init_request(line) \in BalanceRequests
    BY <1>3, <1>4, <1>8
       DEF init_request, plain_of, BalanceRequests, OP_CREATE_ACCOUNT, OP_TRANSFER, OP_BALANCE
  <2> QED
    BY <2>1 DEF LegalRequests
<1>9. CASE operation = OP_SHUTDOWN
  <2>1. init_request(line) \in ShutdownRequests
    BY <1>3, <1>4, <1>9
       DEF init_request, plain_of, ShutdownRequests, OP_CREATE_ACCOUNT, OP_TRANSFER, OP_BALANCE,
           OP_SHUTDOWN
  <2> QED
    BY <2>1
<1> QED
  BY <1>2, <1>6, <1>7, <1>8, <1>9
     DEF OP_CREATE_ACCOUNT, OP_BALANCE, OP_TRANSFER, OP_SHUTDOWN

=============================================================================
