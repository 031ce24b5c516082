SPECIFICATION Spec
CONSTANTS
    Keys = {"k1", "k2"}
    HeapBytes = {"h1", "h2"}
    LastBytes = {0, 1, 16, 17, 255}
    Word = 1000000000
    Setups <- MCSetups
    Lengths = {0, 1, 15, 16, 32, 33, 34, 1400, 20447, 20448, 20463, 20464, 20480, 20481, 65507}
INVARIANTS
    TunnelTransparent
    SizesSound
PROPERTIES
    DecryptionNeverGrows
CHECK_DEADLOCK FALSE
