SPECIFICATION PipeFairSpec
CONSTANTS
    Procs = {p1, p2, p3}
    Ports = {1, 2}
    None = None
INVARIANTS
    PipeJoinsOwnThreads
PROPERTIES
    PipeComes
CHECK_DEADLOCK FALSE
