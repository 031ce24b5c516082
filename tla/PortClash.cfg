SPECIFICATION PipeFairSpec
CONSTANTS
    Procs = {p1, p2}
    Ports = {1, 2}
    None = None
PROPERTIES
    IpcPipeInitialized
CHECK_DEADLOCK FALSE
