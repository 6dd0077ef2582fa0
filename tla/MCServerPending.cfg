SPECIFICATION Spec
CONSTANTS
    u1 = u1
    u2 = u2
    u3 = u3
    u4 = u4
    b1 = b1
    b2 = b2
    Main = Main
    Nobody = Nobody
    NoRequest = NoRequest
    Users = {u1, u2, u3, u4}
    Shutdowns = {u1, u2}
    Balconies = {b1, b2}
CHECK_DEADLOCK FALSE
SYMMETRY Symmetry
INVARIANTS
    PendingAreServed
