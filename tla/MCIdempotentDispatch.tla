------------------------ MODULE MCIdempotentDispatch ------------------------
(* Small instances of IdempotentDispatch for TLC.                            *)
EXTENDS IdempotentDispatch

CONSTANTS r1, r2, r3, u1, u2, k1, k2, b1, b2

\* A call and its retry; a dispatch may outlive its lock or be dropped, and a
\* store call may fail.
Retried ==
    [calls |-> {r1, r2}, open |-> FALSE, strong |-> {k1, k2},
     principal |-> [r \in Requests |-> u1],
     key |-> [r \in Requests |-> k1],
     body |-> [r \in Requests |-> b1],
     entry_ttl |-> 2, lock_ttl |-> 2, inflight_wait |-> 1, max_live |-> 2,
     max_hold |-> 3, stalls |-> FALSE, store_faults |-> 1, vanish |-> 1]

\* Two callers under one key, a dispatch may outlive its lock.
Shared ==
    [Retried EXCEPT !.calls = {r1, r3}, !.principal[r3] = u2, !.lock_ttl = 1, !.max_hold = 2,
                    !.store_faults = 0, !.vanish = 0]

\* A call, its retry and another input under their key; no dispatch outlives
\* its lock.
Reused ==
    [Retried EXCEPT !.calls = {r1, r2, r3}, !.body[r3] = b2, !.max_hold = 1, !.store_faults = 0]

\* An anonymous procedure with room for the outcome of one key; one call of a
\* key of its own and one without a key.
Anonymous ==
    [Retried EXCEPT !.calls = {r1, r2, r3}, !.open = TRUE,
                    !.principal = [r \in Requests |-> Anon],
                    !.key = [Retried.key EXCEPT ![r3] = k2, ![r2] = NoKey],
                    !.entry_ttl = 1, !.lock_ttl = 1, !.max_live = 1, !.max_hold = 1,
                    !.store_faults = 0, !.vanish = 0]

\* A call and its retry, and a worker that may stall on either.
Stalling == [Retried EXCEPT !.stalls = TRUE, !.max_hold = 1]

Scenes == {Retried, Shared, Reused, Anonymous, Stalling}
=============================================================================
