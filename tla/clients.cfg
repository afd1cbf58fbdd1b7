SPECIFICATION Spec
CONSTANTS
    Sources = {"device"}
    Switches = {"lamp"}
    SwitchChannel <- OneSwitch
    ConfigChannel = 1
    Tunable = {1}
    UserChannels = {13}
    Commands = {"?"}
    PoolSize = 2
    QueueCap = 2
    AutoAddPeer = TRUE
    EnableOnBoot = TRUE
    ConfigPeers = {"broadcast"}
    Broadcast = "broadcast"
    PeerAddress = "device"
    UsesWifi = TRUE
    MaxReceived = 1
INVARIANTS
    TypeOK
    FramesOnTheirChannel
    NewestSays
PROPERTIES
    AcceptedArePaired
