SPECIFICATION Spec
CONSTANTS
    u1 = u1
    u2 = u2
    u3 = u3
    b1 = b1
    b2 = b2
    Nobody = Nobody
    Users = {u1, u2}
    Balconies = {b1, b2}
    Results = {"RC_OK", "RC_LOGIN_FAIL"}
CHECK_DEADLOCK FALSE
INVARIANTS
    UserDownIsRecorded
