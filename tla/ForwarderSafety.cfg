SPECIFICATION Spec
CONSTANTS
    Clients = {c1, c2}
    Junk = {j1, j2}
    Fds = {f1, f2, f3}
    Sizes = {0, 1}
    PadLayers = {}
    Faults = {"mkpipe", "bind", "epoll", "recvfrom", "sendto", "connect", "send", "icmp"}
    MaxSent = 3
    MaxReplies = 2
    ListenCap = 2
    ConnCap = 2
    PipeCap = 2
    MaxEvents = 2
SYMMETRY Symmetry
INVARIANTS
    TypeOK
    ConnectionMapSound
    FramesAligned
    ConnectionsRouted
    AnswersReachTheirClient
    ConnectionsNotShared
PROPERTIES
    ConnectionsSticky
    ImplementsRelay
CHECK_DEADLOCK FALSE
