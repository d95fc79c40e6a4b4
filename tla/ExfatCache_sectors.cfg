CONSTANTS
    b1 = b1
    b2 = b2
    b3 = b3
    Array <- MCArray
    HashSize = 2
    SectorsPerClu = 2
    Sectors = {0, 1, 2, 3, 4}
    Outside = {4}
    None = None
SPECIFICATION Spec
INVARIANTS SearchesFind LocksAreHeld
PROPERTY KeepsLastUsed
CHECK_DEADLOCK FALSE
