\* Both kinds of producer, every failure of either side.
SPECIFICATION PipelineFairSpec
CONSTANTS
    u1 = u1  u2 = u2  x1 = x1  x2 = x2
    Null = Null
    Units = {u1, u2}
    MaxRetained = 1
    MaxFaults = 2
    Foreign <- MCForeign
    ForeignKind <- MCForeignKind
    BatchMax = 2
    Failing = {"transient", "rejected", "commit", "evicted", "crash"}
    MaxFailures = 2
CONSTRAINT Scenes
CHECK_DEADLOCK FALSE
INVARIANTS
    UsageConserved
PROPERTIES
    BilledAtMostOnce UsageBilled
