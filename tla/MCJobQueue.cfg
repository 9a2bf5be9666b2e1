\* One job at length, two jobs that compete, and a run with its commands.
SPECIFICATION Spec
CONSTANTS
    w1 = w1  w2 = w2  m1 = m1
    a1 = a1  a2 = a2  c1 = c1  c2 = c2
    r1 = r1  d1 = d1
    NoWorker = NoWorker  NoRun = NoRun  NoDeployment = NoDeployment  NoJob = NoJob
    Jobs = {a1, a2, c1, c2}
    Runs = {r1}
    Deployments = {d1}
    Workers <- MCWorkers
    Claimant <- MCClaimant
    OperationKind <- MCKind
    RunOf <- MCRun
    DeploymentOf <- MCDeployment
    ActivationOf <- MCActivation
    BlocksExecution <- MCBlocks
    AvailableAt <- MCAvailableAt
    Lease = 1
    MaxAttempt = 2
    DeferBackoff = 1
    DeferBackoffMax = 1
    MaxDeliveryAttempts = 2
    MaxRunning = 1
    MaxPendingManagement = 2
    Instants = {1}
    Pauses = {1}
    MaxTime = 3
    AttemptBound = 3
CONSTRAINT Scenes
SYMMETRY Symmetry
VIEW QueueView
CHECK_DEADLOCK FALSE
INVARIANTS
    RowsAgree ExclusiveExecution DeliveryBudget BarrierFollowsDeliveries
PROPERTIES
    SettledStands ClaimsInOrder
