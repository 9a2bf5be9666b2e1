\* Replacement, removal, disable and restore during a rolling upgrade.
SPECIFICATION FairSpec
CONSTANTS
    d1 = d1
    d2 = d2
    n1 = n1
    n2 = n2
    i1 = i1
    i2 = i2
    Null = Null
    Deployments = {d1, d2}
    Names = {n1, n2}
    Interpretations = {i1, i2}
    Replicas <- Rolling
    Definition <- Replacing
    CronFires <- ModelFires
    MaxRevision = 3
    MaxTime = 4
CHECK_DEADLOCK FALSE
INVARIANTS
    CalendarConsistent InstantsOnce CatchUpComposes
PROPERTIES
    DueServed
