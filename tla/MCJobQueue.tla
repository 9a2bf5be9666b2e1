----------------------------- MODULE MCJobQueue -----------------------------
(***************************************************************************)
(* JobQueue with two workers and a maintenance host.  The constraint keeps *)
(* TLC to three scenes that share the constants: one job for a long time,  *)
(* two creator jobs that compete for one slot, and one run with its        *)
(* commands.                                                               *)
(***************************************************************************)
EXTENDS JobQueue, FiniteSetsExt, TLC

CONSTANTS w1, w2, m1, a1, a2, c1, c2, r1, d1

MCWorkers == {w1, w2, m1}
MCClaimant == [w \in Workers |-> IF w = m1 THEN "maintenance" ELSE "worker"]
MCKind == [j \in Jobs |-> IF j \in {c1, c2} THEN "management" ELSE "advance"]
MCRun == [j \in Jobs |-> r1]
MCDeployment == [j \in Jobs |-> IF j = a1 THEN d1 ELSE NoDeployment]
MCActivation == [j \in Jobs |-> NoJob]
\* c1 is a command that blocks execution, c2 a Resume, which does not.
MCBlocks == [j \in Jobs |-> j = c1]
MCAvailableAt == [j \in Jobs |-> 0]

Symmetry == Permutations({w1, w2})

InPlay == {j \in Jobs : jobs[j].state # "absent"}

Untouched(w) == w \in enrolled /\ \A j \in Jobs : jobs[j].worker_id # w

\* Deliveries made so far.
Delivered == FoldSet(LAMBDA j, n : n + jobs[j].attempt, 0, Jobs)

Alone == InPlay \subseteq {a1} /\ Untouched(m1)
Competing == InPlay \subseteq {a1, a2} /\ Untouched(m1) /\ now <= 2 /\ Delivered <= 4
Commanded ==
    /\ InPlay \subseteq {a2, c1, c2} /\ held = {} /\ now <= 2
    /\ Untouched(w1) \/ Untouched(w2)
    /\ Delivered <= 4 /\ \A j \in Jobs : jobs[j].attempt <= 2 /\ jobs[j].deferred_until = NoTime

Scenes == Alone \/ Competing \/ Commanded

\* With more than one job in play, what workers hold and were told is left out
\* (no guard reads it), orders of dispatch are replaced by their ranks (they
\* are only ever compared), and of a settled row and a settled command only
\* that they are settled is seen.  The back-off is constant and there is no
\* activation, so no guard reads deferrals or outcomes either.  The properties
\* that read what is left out are about one job, and are checked on it in full.
Rank(j) == Cardinality({k \in Jobs : jobs[k].dispatch_order <= jobs[j].dispatch_order})

SeenRow(j) ==
    IF jobs[j].state = "settled" THEN <<"settled", Rank(j)>>
    ELSE [jobs[j] EXCEPT !.dispatch_order = Rank(j), !.deferrals = 0]

QueueView ==
    IF Alone THEN vars
    ELSE <<now, orders, enrolled, held,
           [j \in Jobs |-> <<commands[j].revision, CommandPending(j), SeenRow(j)>>],
           \A j \in Jobs : jobs[j].dispatch_order <= dispatch_cursor>>
=============================================================================
