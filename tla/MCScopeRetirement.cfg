\* The handshake with a host and a publisher, and maintenance across two attempts.
SPECIFICATION FairSpec
CONSTANTS
    adv1 = adv1
    act1 = act1
    cron1 = cron1
    close1 = close1
    close2 = close2
    rec1 = rec1
    rec2 = rec2
    h1 = h1
    NoJob = NoJob
    Jobs = {adv1, act1, cron1, close1, close2, rec1, rec2}
    OperationKind <- ModelKinds
    Hosts = {h1}
    MaxEpoch = 3
    MaxOrder = 5
CONSTRAINT Scenes
INVARIANTS
    DutiesCoverIntents
PROPERTIES
    ScopeConsistent ClosingEnds
