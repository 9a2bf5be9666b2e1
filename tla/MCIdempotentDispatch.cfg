\* Retries, shared and reused keys, and an anonymous procedure at its cap.
SPECIFICATION Live
CONSTANTS
    r1 = r1
    r2 = r2
    r3 = r3
    u1 = u1
    u2 = u2
    k1 = k1
    k2 = k2
    b1 = b1
    b2 = b2
    Anon = Anon
    NoKey = NoKey
    Null = Null
    Requests = {r1, r2, r3}
    Procedures <- Scenes
INVARIANTS
    LocksMatchHolders OwnOutcomesReplayed LiveKeysCapped
PROPERTIES
    EveryRequestAnswered
