SPECIFICATION FairSpec
CONSTANTS
    Runs = {r1, r2, r3}
    WaitForSent = TRUE
    ContinueOnError = FALSE
    OnSent = TRUE
    OnError = TRUE
    MayStop = TRUE
INVARIANTS
    TypeOK
    ContinuesOnce
    RunningCounts
PROPERTIES
    RunsEnd
\* All runs of the automation may have ended.
CHECK_DEADLOCK FALSE
