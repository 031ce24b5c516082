SPECIFICATION Spec
CONSTANTS
    Clients = {c1}
    Junk = {j1, j2}
    Fds = {f1, f2}
    Sizes = {1}
    PadLayers = {}
    Faults = {}
    MaxSent = 2
    MaxReplies = 1
    ListenCap = 2
    ConnCap = 2
    PipeCap = 2
    MaxEvents = 2
INVARIANT
    OneIdPerClient
CHECK_DEADLOCK FALSE
