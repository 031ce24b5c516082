SPECIFICATION FairSpec
CONSTANTS
    Messages <- MCMessages
    Magic <- MCMagic
    MsgLimit = 4
    BufSize = 3
    MayFail = TRUE
    MaxMsgs = 3
INVARIANTS
    FramesSound
PROPERTIES
    ImplementsChannel
    EveryMessageArrives
CHECK_DEADLOCK FALSE
