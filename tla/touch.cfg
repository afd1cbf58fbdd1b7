SPECIFICATION Spec
CONSTANTS
    Word = 8
    Timeout = 3
    MaxGap = 2
    PublishSwipe = TRUE
    ReadsFail = TRUE
    Fingers = {1, 3, 4}
INVARIANTS
    TypeOK
    PendingInv
    AloneInv
PROPERTIES
    SwipesAreGenuine
    SwipesAreReported
