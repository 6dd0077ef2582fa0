SPECIFICATION Spec
CONSTANTS
    MAX_BANK_ACCOUNTS = 3
    MIN_BALANCE = 1
    MAX_BALANCE = 3
    UINT32_MAX = 7
    INT_MAX = 15
    LONG_MAX = 127
    ULONG_MAX = 255
    MAX_OP_DELAY_MS = 9
    MAX_BANK_OFFICES = 2
    pwAdmin = pwAdmin
    pw1 = pw1
    pw2 = pw2
    b1 = b1
    b2 = b2
    Nobody = Nobody
    Balconies = {b1, b2}
    Passwords <- MCPasswords
    Requests <- MCRequests
    AdminPassword = pwAdmin
    Garbage <- MCGarbage
INVARIANTS
    NoBalanceOnLoginFail
