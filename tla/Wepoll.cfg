SPECIFICATION WepollFairSpec
CONSTANTS
    Callers = {t1, t2, t3}
    Ports = {p1, p2}
    Handles = {h1}
    Null = Null
    GroupSize = 1
    MaxSocks = 1
    Threads = {u1, u2}
    Cells = {"c1", "c2"}
    Socks = {"s1", "s2"}
    Wants = {{"IN"}, {"IN", "ONESHOT"}, {"IN", "OUT", "ONESHOT"}}
    Happens = {"RECEIVE", "SEND"}
    None = None
    MaxEvents = 1
    MayFail = TRUE
    MayTimeOut = TRUE
    MaxCtl = 2
    PlacesPerGroup = 2
    Groups = {1, 2, 3, 4}
    Head0 = 0
    AddedSocks = {1, 2, 3}
    Depth = 3
    MaxGroups = 2
    MaxRuns = 3
INVARIANTS
    PortLifeSound
    CellsSound
    TreeSound
    AdditionSound
    GroupsSound
    GlobalInitSound
PROPERTIES
    CloseReturns
    ImplementsEpollSet
    EventsReachWaiters
    EveryDueIsReported
    DeletedIsFreed
CHECK_DEADLOCK FALSE
