SPECIFICATION Spec
CONSTANTS
    None = None
    A = A
    B = B
    Me = Me
    Everyone = Everyone
    R1 = R1
    R2 = R2
    R3 = R3
    Broadcast = Everyone
    Own = Me
    Addresses = {A, B, Me}
    Requests = {R1, R2, R3}
    Dst <- BusyDst
    Silent = {}
    RxPoolSize = 2
    RxQueueCap = 1
    TxPoolSize = 3
    TxQueueCap = 2
    ConfigPeers <- TwoPeers
    AutoAddPeer = FALSE
    EnableOnBoot = TRUE
    OutOfMemory = TRUE
    UserOps = {"enable", "disable"}
    MaxFrames = 2
INVARIANTS
    TypeOK
    RxConservation
    TxConservation
    ReportsAreCurrent
    CurrentAccounted
    AcceptedRequests
    LeaksBounded
PROPERTIES
    ImplementsService
    ToldInOrder
