SPECIFICATION Spec
CONSTANTS
    Sources = {"device", "other"}
    AutoAddPeer = TRUE
    Triggers = {"stranger", "any", "from_device", "bcast"}
    TriggerChain <- Some
    TriggerFilter <- Filters
    AnySource = "*"
    Texts <- SomeTexts
    MaxRegistered = 2
INVARIANTS
    TypeOK
    AutomationsSeeAll
    TransportSees
