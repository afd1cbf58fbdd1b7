SPECIFICATION Spec
CONSTANTS
    None = None
    A = A
    B = B
    Me = Me
    Everyone = Everyone
    R1 = R1
    R2 = R2
    R3 = R3
    Broadcast = Everyone
    Own = Me
    Addresses = {A, Me}
    Requests = {R1, R2}
    Dst <- SamePeerDst
    Silent = {R1}
    RxPoolSize = 2
    RxQueueCap = 2
    TxPoolSize = 2
    TxQueueCap = 2
    ConfigPeers <- OnePeer
    AutoAddPeer = FALSE
    EnableOnBoot = TRUE
    OutOfMemory = FALSE
    UserOps = {}
    MaxFrames = 0
INVARIANTS
    NoEmptyCallback
\* A component marked failed is not called any more.
CHECK_DEADLOCK FALSE
