SPECIFICATION FairSpec
CONSTANTS
    INT_SIZE = 4
    SALT_LEN = 20
    c1 = c1
    c2 = c2
    c3 = c3
    Calls = {c1, c2}
CHECK_DEADLOCK FALSE
PROPERTIES
    HashEnds
