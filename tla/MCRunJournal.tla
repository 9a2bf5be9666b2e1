---------------------------- MODULE MCRunJournal ----------------------------
(* Small instances of RunJournal for TLC: each app aims at one family of     *)
(* hazards and keeps the others out of its way.                              *)
EXTENDS RunJournal

Plain ==
    [batches |-> {<<"run">>}, ops |-> {}, lease |-> 1, retry_delay |-> 1,
     max_step_attempts |-> 2, max_stuck_dispatches |-> 2, max_delivery_attempts |-> 4,
     steps |-> 2, revisions |-> 7, faults |-> 1, commands |-> 0, signals |-> 0]

\* Steps that fail, for good or to be retried, beside one to undo.
Working ==
    [Plain EXCEPT !.batches = {<<"compensable", "failing">>, <<"fatal">>},
                  !.revisions = 5, !.max_delivery_attempts = 3]

\* Several compensators, discharged after a failure.
Undone ==
    [Plain EXCEPT !.batches = {<<"run">>, <<"compensable", "compensable">>, <<"failing">>},
                  !.steps = 3, !.faults = 0]

\* Every way a delivery is lost, with leases of two units.
Redelivered ==
    [Plain EXCEPT !.lease = 2, !.steps = 1, !.revisions = 3, !.max_delivery_attempts = 3,
                  !.faults = 2]

\* Dispatches lost again and again, up to the budget of either side.
Stuck ==
    [Plain EXCEPT !.steps = 1, !.revisions = 2, !.max_delivery_attempts = 3, !.faults = 3]

\* Requests that follow one another while the run works, waits or rolls back.
Controlled ==
    [Plain EXCEPT !.batches = {<<"compensable">>, <<"signal">>},
                  !.ops = {"pause", "resume", "cancel"}, !.steps = 1,
                  !.max_step_attempts = 1, !.max_stuck_dispatches = 1, !.faults = 0,
                  !.revisions = 5, !.commands = 2]

\* A pause and its end beside a lost delivery.
Raced ==
    [Controlled EXCEPT !.batches = {<<"compensable">>}, !.ops = {"pause", "resume"},
                       !.revisions = 3, !.faults = 1]

\* Whole and partial restarts of a run that consumed a signal.
RestartedOnce ==
    [Plain EXCEPT !.batches = {<<"signal">>}, !.ops = {"restart"}, !.revisions = 5,
                  !.max_step_attempts = 1, !.max_stuck_dispatches = 1,
                  !.max_delivery_attempts = 3, !.faults = 0, !.commands = 1, !.signals = 1]

\* A restart beside a lost delivery.
RestartedLate == [RestartedOnce EXCEPT !.steps = 1, !.revisions = 2, !.faults = 1]

\* A child, waited for as long as it takes or for a time, beside a retry.
Parent ==
    [Plain EXCEPT !.batches = {<<"failing", "child">>, <<"timedChild">>},
                  !.max_stuck_dispatches = 1, !.faults = 0]

\* The same beside a lost delivery.
Bereft ==
    [Parent EXCEPT !.batches = {<<"child">>, <<"timedChild">>}, !.steps = 1, !.faults = 1]

\* A child beside a signal; the apps around it add the lost deliveries.
Waiting ==
    [Plain EXCEPT !.batches = {<<"child", "signal">>}, !.faults = 0, !.signals = 1]

\* Waits the clock or a signal ends.
Signalled ==
    [Plain EXCEPT !.batches = {<<"signal">>, <<"sleep">>, <<"failing", "signal">>},
                  !.signals = 1]

\* A run that is cancelled while it works, waits or rolls back.
Cancelled ==
    [Plain EXCEPT !.batches = {<<"compensable">>, <<"signal">>}, !.ops = {"cancel"},
                  !.steps = 1, !.revisions = 4, !.max_step_attempts = 1, !.max_stuck_dispatches = 1,
                  !.commands = 1]

Scenes ==
    {Working, Undone, Redelivered, Stuck, Controlled, Raced, RestartedOnce, RestartedLate,
     Parent, Bereft, Waiting, Signalled, Cancelled}
Lost == {[Waiting EXCEPT !.faults = 1]}
Aborted == {[Cancelled EXCEPT !.faults = 0]}
=============================================================================
