\* A signal beside an unfinished child.
SPECIFICATION FairSpec
CONSTANTS
    Null = Null
    Apps <- Lost
    MaxGeneration = 0
    MaxRevision = 7
PROPERTIES
    SignalWakes
CHECK_DEADLOCK FALSE
