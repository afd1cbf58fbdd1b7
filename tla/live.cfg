SPECIFICATION FairSpec
CONSTANTS
    None = None
    A = A
    B = B
    Me = Me
    Everyone = Everyone
    R1 = R1
    R2 = R2
    R3 = R3
    Broadcast = Everyone
    Own = Me
    Addresses = {A, Me}
    Requests = {R1, R2, R3}
    Dst <- MixedDst
    Silent = {R2}
    RxPoolSize = 2
    RxQueueCap = 1
    TxPoolSize = 2
    TxQueueCap = 1
    ConfigPeers <- OnePeer
    AutoAddPeer = TRUE
    EnableOnBoot = FALSE
    OutOfMemory = FALSE
    UserOps = {"enable", "disable", "add", "del", "channel", "wifi"}
    MaxFrames = 2
INVARIANTS
    PeerTables
PROPERTIES
    DeletedPeerForgotten
    SendsComplete
    PacketsReturn
\* An empty send callback stops the program, and with it everything.
CHECK_DEADLOCK FALSE
