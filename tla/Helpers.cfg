SPECIFICATION HelpersFairSpec
CONSTANTS
    Threads = {t1, t2, t3, t4}
    Objects = {o1, o2}
    Clients = {"c1", "c2", "c3", "c4"}
    Servers = {5, 6, 7, 8}
    Nodes = {1, 2, 3, 4, 5}
    Nil = 0
    MaxAddrs = 3
    BufferSizes = {1, 2, 5, 6}
    StreamLen = 8
    kStateSize = 3
    Base = 4
    encrypt_state <- MCCipher
    decrypt_state <- MCDecipher
    xor_byte <- MCXor
    Messages <- MCMessages
    Ivs <- MCIvs
    Nonces <- MCNonces
    MaxBlocks = 3
    Room = 3
    CommandLines <- MCCommandLines
    Platforms = {"linux", "windows"}
    Plain = {"plain1", "plain2"}
    Dynport = {"dynport"}
    Filters = {"aes", "xor"}
    LogLevels = {"info", "debug"}
    HoleTexts = {"{}"}
INVARIANTS
    PoolSound
    CipherSound
    ModesSound
    TextSound
    StartsAsAsked
    SocketsSound
PROPERTIES
    ImplementsInjection
    ImplementsSeqList
    CallsEnd
CHECK_DEADLOCK FALSE
