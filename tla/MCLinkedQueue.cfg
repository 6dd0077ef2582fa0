SPECIFICATION Spec
CONSTANTS
    b1 = b1
    b2 = b2
    b3 = b3
    c1 = c1
    c2 = c2
    c3 = c3
    c4 = c4
    Main = Main
    Nobody = Nobody
    NULL = NULL
    Balconies = {b1, b2, b3}
    Arrivals = 5
    Shutdowns = {2, 4}
    Cells = {c1, c2, c3, c4}
CHECK_DEADLOCK FALSE
SYMMETRY Symmetry
INVARIANTS
    TypeOK
    NoUseAfterFree
    NoLeak
PROPERTIES
    QueueSpec
