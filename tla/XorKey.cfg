SPECIFICATION Spec
CONSTANTS
    Keys = {"k1", "k2"}
    HeapBytes = {"h1", "h2"}
    LastBytes = {0, 1, 16, 17, 255}
    Word = 1000000000
    Setups <- MCSetups
    Lengths = {0, 33, 34, 1400}
INVARIANTS
    XorDecrypts
CHECK_DEADLOCK FALSE
