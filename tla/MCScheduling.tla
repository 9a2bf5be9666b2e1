---------------------------- MODULE MCScheduling ----------------------------
(* Small instances of Scheduling for TLC.                                    *)
EXTENDS Scheduling, TLC

CONSTANTS d1, d2, n1, n2, i1, i2

Cron(expr, backfill) == [timing |-> [kind |-> "cron", expr |-> expr], backfill |-> backfill]

Every(period, anchor, backfill) ==
    [timing |-> [kind |-> "interval", period |-> period, anchor |-> anchor],
     backfill |-> backfill]

\* One schedule whose calendar moved between two interpretations.
ModelFires ==
    [hourly |-> [i \in Interpretations |-> IF i = i1 THEN {1, 2, 3, 5, 6, 7, 8}
                                                     ELSE {1, 3, 4, 5, 6, 8}]]

\* d1 declares two schedules; d2 removes one of them and turns the other into
\* an interval from its deploy.
Replacing ==
    (d1 :> ((n1 :> Cron("hourly", 2)) @@ (n2 :> Every(1, "epoch", 0))))
    @@ (d2 :> (n1 :> Every(2, "deploy", 0)))

Replica(interpretation, page_size, max_backfill) ==
    [interpretation |-> interpretation, page_size |-> page_size,
     max_backfill |-> max_backfill]

\* A rolling upgrade: processes of both interpretations with unlike pages, and
\* one whose ceiling is below a declaration.
Rolling == {Replica(i1, 1, 2), Replica(i1, 2, 1), Replica(i2, 2, 2)}
=============================================================================
