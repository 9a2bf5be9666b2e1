\* Work, lost deliveries, control, restart, waits and children, with fairness.
SPECIFICATION FairSpec
CONSTANTS
    Null = Null
    Apps <- Scenes
    MaxGeneration = 1
    MaxRevision = 7
CHECK_DEADLOCK FALSE
INVARIANTS
    FrontierInHand VerdictReachable  SignalsConserved
PROPERTIES
    HistoryKept RunProgresses LoneSignalWakes
