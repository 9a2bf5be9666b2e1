\* A cycle that fails after its poll.
SPECIFICATION PipelineSpec
CONSTANTS
    u1 = u1  u2 = u2  x1 = x1  x2 = x2
    Null = Null
    Units = {u1, u2}
    MaxRetained = 1
    MaxFaults = 0
    Foreign <- MCForeign
    ForeignKind <- MCForeignKind
    BatchMax = 2
    Failing = {"transient"}
    MaxFailures = 1
CONSTRAINT Scenes
INVARIANTS
    SettledBeforeCommit
CHECK_DEADLOCK FALSE
