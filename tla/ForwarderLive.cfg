SPECIFICATION FairSpec
CONSTANTS
    Clients = {c1, c2}
    Junk = {j1}
    Fds = {f1, f2}
    Sizes = {0, 1}
    PadLayers = {1}
    Faults = {}
    MaxSent = 2
    MaxReplies = 2
    ListenCap = 2
    ConnCap = 2
    PipeCap = 2
    MaxEvents = 2
INVARIANTS
    NeverTerminates
    NoMutualBlock
PROPERTIES
    RequestsDelivered
    AnswersDelivered
CHECK_DEADLOCK FALSE
