\* A run with a compensator to run, and one cancel, with fairness.
SPECIFICATION FairSpec
CONSTANTS
    Null = Null
    Apps <- Aborted
    MaxGeneration = 0
    MaxRevision = 7
CHECK_DEADLOCK FALSE
PROPERTIES
    CancelAborts
