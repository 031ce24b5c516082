SPECIFICATION FairSpec
CONSTANTS
    Clients = {c1}
    Junk = {j1}
    Fds = {f1}
    Sizes = {1}
    PadLayers = {}
    Faults = {}
    MaxSent = 3
    MaxReplies = 2
    ListenCap = 2
    ConnCap = 2
    PipeCap = 2
    MaxEvents = 2
PROPERTY
    ForwardedAnswerDelivered
CHECK_DEADLOCK FALSE
