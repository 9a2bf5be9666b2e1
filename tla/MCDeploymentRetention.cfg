\* Two activations and two generations of holds, with fairness.
SPECIFICATION FairRetention
CONSTANTS
    job1 = job1  run1 = run1  release1 = release1  release2 = release2
    NoJob = NoJob
    LifecycleRevisions = {1, 2}
    Jobs = {job1}
    Runs = {run1}
    ReleaseJobs <- MCReleaseJobs
    GenerationBound = 2
CONSTRAINT InTurn
CHECK_DEADLOCK FALSE
INVARIANTS
    HoldsHonoured
PROPERTIES
    CodeOutlivesWork IntentsSettle
