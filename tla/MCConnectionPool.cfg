\* A crowded pool, one whose borrowers leave things behind, one that is closed.
SPECIFICATION Live
CONSTANTS
    c1 = c1
    c2 = c2
    c3 = c3
    c4 = c4
    k1 = k1
    k2 = k2
    Null = Null
    Callers = {c1, c2, c3, c4}
    Closers = {k1, k2}
    Pools <- Scenes
CHECK_DEADLOCK FALSE
INVARIANTS
    PoolConsistent HeadAwake SessionsComeClean
PROPERTIES
    ServedInOrder CloseDrains
