----------------------------- MODULE RunJournal -----------------------------
(***************************************************************************)
(* One workflow run in the creator journal, and the delivery of its        *)
(* frontiers by the manager's queue.                                       *)
(*                                                                         *)
(* The journal row of the run, its steps, its tasks, its job receipts and  *)
(* its publication intents change only in transactions that hold the app   *)
(* lock, so each transaction is one action.  Publication, claim,           *)
(* acceptance, renewal, report, settlement and the loss of any of them     *)
(* interleave.                                                             *)
(*                                                                         *)
(* A job is the frontier it advances: <<generation, frontier revision>>.   *)
(* Instants are kept as the time left until them, 0 once reached; Tick     *)
(* lets one unit of time pass everywhere at once.                          *)
(***************************************************************************)
EXTENDS Integers, Sequences, FiniteSets

CONSTANTS
    Null,
    Apps,               \* the apps whose run is looked at, as App describes them
    MaxGeneration,      \* bound on restarts
    MaxRevision         \* bound on frontier revisions

\* The operations a batch may open; "failing" fails at its first execution,
\* "fatal" with an error that declares itself not retryable, and a "timedChild"
\* is waited for until its time.
Kinds == {"run", "compensable", "failing", "fatal", "sleep", "signal", "child", "timedChild"}

\* An app: the three budgets and the delay of its AppPolicy, the length of a
\* delivery lease and of its task, the batches of new operations its body may
\* open, the requests made to its run, and bounds on the operations and
\* frontiers of one generation, on crashes and lost exchanges, on pause, resume,
\* cancel and restart requests, and on the signals sent.
App(a) ==
    /\ \A k \in {"max_step_attempts", "max_stuck_dispatches", "max_delivery_attempts",
                 "retry_delay", "lease", "steps", "revisions"} : a[k] \in Nat \ {0}
    /\ \A k \in {"faults", "commands", "signals"} : a[k] \in Nat
    /\ a.ops \subseteq {"pause", "resume", "cancel", "restart"}
    /\ a.batches \subseteq Seq(Kinds) \ {<<>>}

\* AppPolicy::validate keeps the liveness budget below the delivery ceiling.
PolicyValid(a) == a.max_stuck_dispatches < a.max_delivery_attempts

\* A sleep or a signal wait is the last entry of its batch: the body goes on
\* when it is over.
BatchesWellFormed(a) ==
    \A b \in a.batches : \A i \in DOMAIN b : b[i] \in {"sleep", "signal"} => i = Len(b)

ASSUME AppsAssumption ==
    /\ MaxGeneration \in Nat /\ MaxRevision \in Nat /\ Null \notin Nat \cup {"failed", "cancelled"}
    /\ \A a \in Apps : App(a) /\ PolicyValid(a) /\ BatchesWellFormed(a) /\ a.revisions <= MaxRevision

VARIABLES
    app,       \* the app the run belongs to; never changes
    run,       \* the run's row
    steps,     \* the journal of the current generation, by ordinal
    tasks,     \* every task ever assigned; the index is the lease epoch
    receipts,  \* job -> what the journal decided of it
    intents,   \* job -> time left to its due time, Null while not recorded
    pending,   \* recorded intents not yet confirmed
    queue,     \* job -> the manager's row
    holding,   \* tasks whose worker is still alive and executing
    mail,      \* signals delivered to the run and not consumed
    notices,   \* children that ended and whose parent page is not applied
    budget     \* what is left of the faults, commands and signals

vars == <<app, run, steps, tasks, receipts, intents, pending, queue, holding, mail,
          notices, budget>>

Jobs == (0..MaxGeneration) \X (1..MaxRevision)
Terminal == {"completed", "failed", "cancelled", "stalled", "continuedAsNew"}
Decided == {"completed", "waiting", "rejected"}

TimeLeft == Nat \cup {Null}
StepRecord == [kind : {"run", "sleep", "signal", "child"},
               state : {"completed", "failed", "running", "retrying"},
               wake_at : TimeLeft, attempts : Nat,
               child : {"none", "live", "completed", "failed"},
               compensation : {"none", "pending", "completed", "failed", "abandoned"},
               compensation_attempts : Nat, compensation_due_at : TimeLeft]
TaskRecord == [job : Jobs, journal_revision : Nat, deadline : Nat,
               state : {"leased", "released", "expired", "completed"}]
QueueRecord == [state : {"absent", "ready", "claimed", "leased", "settled"},
                due : Nat, deadline : Nat, task : Nat \cup {Null},
                counted : BOOLEAN, executions : Nat]

Absent == [state |-> "absent", due |-> 0, deadline |-> 0, task |-> Null,
           counted |-> FALSE, executions |-> 0]

TypeOK ==
    /\ app \in Apps
    /\ run \in [state : {"queued", "running", "sleeping", "waiting", "paused",
                         "compensating"} \cup Terminal,
                control : {"none", "pause", "cancel"},
                generation : 0..MaxGeneration, frontier_revision : 1..MaxRevision,
                journal_revision : Nat, due_at : TimeLeft,
                task_id : Nat \cup {Null},
                compensation_target : {Null, "failed", "cancelled"}]
    /\ steps \in Seq(StepRecord)
    /\ tasks \in Seq(TaskRecord)
    /\ receipts \in [Jobs -> {"none", "open"} \cup Decided]
    /\ intents \in [Jobs -> TimeLeft]
    /\ pending \subseteq Jobs
    /\ queue \in [Jobs -> QueueRecord]
    /\ holding \subseteq DOMAIN tasks
    /\ mail \in Nat
    /\ notices \subseteq DOMAIN steps
    /\ budget \in [faults : 0..app.faults, commands : 0..app.commands,
                   signals : 0..app.signals]

-----------------------------------------------------------------------------
(* The journal of steps.                                                   *)

Ordinals(s, state) == {i \in DOMAIN s : s[i].state = state}

\* settle_attempt: a failed execution with attempts left holds its ordinal
\* until the next one; the last, and one declared final, records the failure.
AttemptFailed(step, retryable) ==
    LET spent == step.attempts + 1
        again == retryable /\ spent < app.max_step_attempts
    IN  [step EXCEPT !.state = IF again THEN "retrying" ELSE "failed",
                     !.wake_at = IF again THEN app.retry_delay ELSE Null,
                     !.attempts = spent]

AttemptCompleted(step) ==
    [step EXCEPT !.state = "completed", !.wake_at = Null, !.attempts = @ + 1]

\* fold_outcomes: the checkpoint one new outcome of a batch becomes.
Opened(kind) ==
    LET new == [kind |-> "run", state |-> "running", wake_at |-> Null, attempts |-> 0,
                child |-> "none", compensation |-> "none", compensation_attempts |-> 0,
                compensation_due_at |-> Null]
    IN  CASE kind = "run" -> AttemptCompleted(new)
          [] kind = "compensable" ->
               [AttemptCompleted(new) EXCEPT !.compensation = "pending"]
          [] kind = "failing" -> AttemptFailed(new, TRUE)
          [] kind = "fatal" -> AttemptFailed(new, FALSE)
          [] kind = "sleep" -> [new EXCEPT !.kind = "sleep", !.wake_at = 1]
          [] kind = "signal" -> [new EXCEPT !.kind = "signal"]
          [] kind = "child" -> [new EXCEPT !.kind = "child", !.child = "live"]
          [] kind = "timedChild" -> [new EXCEPT !.kind = "child", !.child = "live", !.wake_at = 1]

\* journal::append: the outcomes of held ordinals replace their rows, waits
\* that are reported again keep theirs, new operations follow.
Appended(s, tries, new) ==
    [i \in DOMAIN s |->
        IF i \notin DOMAIN tries THEN s[i]
        ELSE IF tries[i] = "completed" THEN AttemptCompleted(s[i])
        ELSE AttemptFailed(s[i], tries[i] = "failed")]
    \o [i \in DOMAIN new |-> Opened(new[i])]

\* The waits journal::resolve settles: a sleep at its time, a child that ended
\* or whose time is over, a signal wait while the mailbox lasts, in the order of
\* ordinals.
SignalWaits(s) == {i \in Ordinals(s, "running") : s[i].kind = "signal"}

Resolvable(s, m) ==
    {i \in Ordinals(s, "running") :
        \/ s[i].kind = "sleep" /\ s[i].wake_at = 0
        \/ s[i].kind = "child" /\ (s[i].child # "live" \/ s[i].wake_at = 0)
        \/ s[i].kind = "signal" /\ Cardinality({k \in SignalWaits(s) : k < i}) < m}

\* journal::resolve with save_checkpoint; a child still live was waited for
\* long enough.
Resolved(s, m) ==
    [i \in DOMAIN s |->
        IF i \notin Resolvable(s, m) THEN s[i]
        ELSE [s[i] EXCEPT !.state = IF s[i].child \in {"failed", "live"} THEN "failed" ELSE "completed",
                          !.wake_at = Null]]

MailAfter(s, m) == m - Cardinality(Resolvable(s, m) \cap SignalWaits(s))

Obligations(s) == {i \in DOMAIN s : s[i].compensation = "pending"}

\* Fault: compensators run in the order their steps did.
Oldest(S) == CHOOSE i \in S : \A k \in S : k >= i

Newest(S) == CHOOSE i \in S : \A k \in S : k <= i
Soonest(S) == CHOOSE t \in S : \A u \in S : t <= u

-----------------------------------------------------------------------------
(* What a transaction makes of the run's row.                              *)

Job(r) == <<r.generation, r.frontier_revision>>

\* finish_run.
Finish(r, state) ==
    [r EXCEPT !.state = state, !.control = "none", !.task_id = Null, !.due_at = Null]

Park(r) == [r EXCEPT !.state = "paused", !.due_at = Null, !.task_id = Null]

\* Fault: a verdict ends the run with its compensators still owed.
SettleAtOnce(r, s, target) == Finish(r, target)

\* Fault: the rollback does not know what it ends in.
SettleUntargeted(r, s, target) ==
    IF Obligations(s) = {} THEN Finish(r, target)
    ELSE [r EXCEPT !.state = "compensating", !.control = "none", !.due_at = 0,
                   !.task_id = Null]

\* settle: a verdict of the run's own first discharges what it must undo.
SettleRun(r, s, target) ==
    IF Obligations(s) = {} THEN Finish(r, target)
    ELSE [r EXCEPT !.state = "compensating", !.compensation_target = target,
                   !.control = "none", !.due_at = 0, !.task_id = Null]

\* Fault: a run that waits on a clock forgets it.
SuspendUntimed(r, s, progressed) ==
    [r EXCEPT !.state = "waiting", !.due_at = Null, !.task_id = Null]

\* suspend: what the run waits for, and the clock that ends the wait.
Suspend(r, s, progressed) ==
    LET waits == Ordinals(s, "running")
        retries == {s[i].wake_at : i \in Ordinals(s, "retrying")}
        timers == {s[i].wake_at : i \in waits} \ {Null}
        state == IF retries # {} \/ waits = {} \/ progressed THEN "queued"
                 ELSE IF \A i \in waits : s[i].kind = "sleep" THEN "sleeping"
                 ELSE "waiting"
        due == IF retries # {} THEN Soonest(retries)
               ELSE IF state = "queued" THEN 0
               ELSE IF timers = {} THEN Null
               ELSE Soonest(timers)
    IN  [r EXCEPT !.state = state, !.due_at = due, !.task_id = Null]

\* Fault: a reclaimed dispatch leaves no strike.
StrikesForgotten(r, ts) == 0

\* stuck_dispatches: the reclaimed tasks of this frontier and journal state.
Strikes(r, ts) ==
    Cardinality({t \in DOMAIN ts :
        /\ ts[t].state = "expired"
        /\ ts[t].job = Job(r)
        /\ ts[t].journal_revision = r.journal_revision})

\* abandon: what nobody reported on is named and given up.
Abandoned(s) ==
    [i \in DOMAIN s |->
        IF i \in Obligations(s) THEN [s[i] EXCEPT !.compensation = "abandoned"] ELSE s[i]]

\* compensation_ready: the newest obligation is due, or the run waits for it.
Rollback(r, s) ==
    LET due == s[Newest(Obligations(s))].compensation_due_at
    IN  IF due = Null \/ due = 0 THEN [ready |-> TRUE, run |-> r]
        ELSE [ready |-> FALSE, run |-> [r EXCEPT !.due_at = due]]

\* frontier::prepare.  The run is handed to an executor when ready.
Prepare(r, ts) ==
    LET plan(ready, row, s, m) == [ready |-> ready, run |-> row, steps |-> s, mail |-> m]
        settled == SettleRun(r, steps, "cancelled")
        found == Resolvable(steps, mail)
        resolved == Resolved(steps, mail)
        moved == [r EXCEPT !.journal_revision = @ + Cardinality(found)]
        attempt_due == \E i \in Ordinals(resolved, "retrying") : resolved[i].wake_at = 0
    IN  IF r.control = "cancel" THEN
            IF Obligations(steps) = {} THEN plan(FALSE, settled, steps, mail)
            ELSE LET rollback == Rollback(settled, steps)
                 IN  plan(rollback.ready, rollback.run, steps, mail)
        ELSE IF r.control = "pause" THEN plan(FALSE, Park(r), steps, mail)
        ELSE IF Strikes(r, ts) >= app.max_stuck_dispatches THEN
            IF r.state = "compensating"
            THEN plan(FALSE, Finish(r, "failed"), Abandoned(steps), mail)
            ELSE plan(FALSE, Finish(r, "stalled"), steps, mail)
        ELSE IF r.state = "compensating" THEN
            LET rollback == Rollback(r, steps)
            IN  plan(rollback.ready, rollback.run, steps, mail)
        ELSE IF Ordinals(resolved, "running") # {} /\ found = {} /\ ~attempt_due
            THEN plan(FALSE, Suspend(r, steps, FALSE), steps, mail)
        ELSE plan(TRUE, moved, resolved, MailAfter(steps, mail))

\* publication::record: a runnable row publishes its frontier.
Record(r) ==
    IF r.due_at # Null /\ r.task_id = Null /\ r.state \notin Terminal
    THEN /\ intents' = [intents EXCEPT ![Job(r)] = r.due_at]
         /\ pending' = pending \cup {Job(r)}
    ELSE UNCHANGED <<intents, pending>>

\* Fault: a transition of an idle run is not published.
AdvanceUnpublished(r) ==
    /\ r.frontier_revision < app.revisions
    /\ run' = [r EXCEPT !.frontier_revision = @ + 1]
    /\ UNCHANGED <<intents, pending>>

\* publication::advance: the next frontier, published with its cause.
Advance(r) ==
    LET next == [r EXCEPT !.frontier_revision = @ + 1]
    IN  /\ r.frontier_revision < app.revisions
        /\ run' = next
        /\ Record(next)

Verdict(r) == IF r.state \in Terminal THEN "completed" ELSE "waiting"

-----------------------------------------------------------------------------
(* The manager's queue, as far as a delivery sees it.                      *)

Spend(kind) ==
    /\ budget[kind] > 0
    /\ budget' = [budget EXCEPT ![kind] = @ - 1]

\* publish_job: submission is idempotent and an intent whose confirmation was
\* lost is submitted again.
Publish(j, confirmed) ==
    /\ j \in pending
    /\ IF confirmed THEN UNCHANGED budget ELSE Spend("faults")
    /\ queue' = IF queue[j].state = "absent"
                THEN [queue EXCEPT ![j].state = "ready", ![j].due = intents[j]]
                ELSE queue
    /\ pending' = IF confirmed THEN pending \ {j} ELSE pending
    /\ UNCHANGED <<app, run, steps, tasks, receipts, intents, holding, mail, notices>>

\* claim: a due row, or one whose lease lapsed, while its executions are
\* below the ceiling.
Claim(j) ==
    /\ \/ queue[j].state = "ready" /\ queue[j].due = 0
       \/ queue[j].state \in {"claimed", "leased"} /\ queue[j].deadline = 0
    /\ queue[j].executions < app.max_delivery_attempts
    /\ queue' = [queue EXCEPT ![j] = [@ EXCEPT !.state = "claimed", !.due = 0,
                     !.deadline = app.lease, !.task = Null, !.counted = FALSE]]
    /\ UNCHANGED <<app, run, steps, tasks, receipts, intents, pending, holding, mail,
                   notices, budget>>

GivenBack(row, due) ==
    [row EXCEPT !.state = "ready", !.due = due, !.deadline = 0, !.task = Null]

Counted(row) ==
    IF row.counted THEN row
    ELSE [row EXCEPT !.counted = TRUE, !.executions = @ + 1]

\* Fault: the acknowledgement does not wait for the journal.
SettleEarly(j) ==
    /\ queue[j].state = "leased"
    /\ queue[j].deadline > 0
    /\ queue' = [queue EXCEPT ![j] = [Absent EXCEPT !.state = "settled"]]
    /\ UNCHANGED <<app, run, steps, tasks, receipts, intents, pending, holding, mail,
                   notices, budget>>

\* settle: the manager is told what the journal decided, under a live lease.
Settle(j) ==
    /\ queue[j].state = "leased"
    /\ queue[j].deadline > 0
    /\ receipts[j] \in Decided
    /\ queue' = [queue EXCEPT ![j] = [Absent EXCEPT !.state = "settled"]]
    /\ UNCHANGED <<app, run, steps, tasks, receipts, intents, pending, holding, mail,
                   notices, budget>>

-----------------------------------------------------------------------------
(* accept_job, one action for each answer.                                 *)

Delivered(j) == queue[j].state = "claimed" /\ queue[j].deadline > 0

\* current_frontier.
Current(j) == Job(run) = j /\ run.state \notin Terminal

\* A task that is over; its deadline is not read again.
Over(task, state) == [task EXCEPT !.state = state, !.deadline = 0]

TaskLive(t) == tasks[t].state = "leased" /\ tasks[t].deadline > 0

Answered(j) == queue' = [queue EXCEPT ![j].state = "leased"]
Deferred(j, due) == queue' = [queue EXCEPT ![j] = GivenBack(@, due)]

\* The journal had already decided: the receipt is replayed.
AcceptReplay(j) ==
    /\ Delivered(j)
    /\ receipts[j] \in Decided
    /\ Answered(j)
    /\ UNCHANGED <<app, run, steps, tasks, receipts, intents, pending, holding, mail,
                   notices, budget>>

\* The run moved past the frontier this job names.
AcceptStale(j) ==
    /\ Delivered(j)
    /\ receipts[j] \notin Decided
    /\ ~Current(j)
    /\ receipts' = [receipts EXCEPT ![j] = "rejected"]
    /\ Answered(j)
    /\ UNCHANGED <<app, run, steps, tasks, intents, pending, holding, mail,
                   notices, budget>>

\* A live task keeps its claim, whoever was delivered the job again.
AcceptBusy(j) ==
    /\ Delivered(j)
    /\ receipts[j] \notin Decided
    /\ Current(j)
    /\ run.task_id # Null /\ TaskLive(run.task_id)
    /\ receipts' = [receipts EXCEPT ![j] = "open"]
    /\ Deferred(j, 1)
    /\ UNCHANGED <<app, run, steps, tasks, intents, pending, holding, mail,
                   notices, budget>>

\* reclaim: a spent or released task is replaced and leaves the run due.
Reclaim(ts) ==
    IF run.task_id = Null THEN ts
    ELSE [ts EXCEPT ![run.task_id] = Over(@, "expired")]

ReclaimedRun ==
    IF run.task_id = Null THEN run ELSE [run EXCEPT !.task_id = Null, !.due_at = 0]

\* What every answer after the reclaim has in common.
Reclaiming(j) ==
    /\ Delivered(j)
    /\ receipts[j] \notin Decided
    /\ Current(j)
    /\ run.task_id # Null => ~TaskLive(run.task_id)

\* The frontier waits for a clock that has not come.
AcceptNotDue(j) ==
    /\ Reclaiming(j)
    /\ ReclaimedRun.due_at # Null /\ ReclaimedRun.due_at > 0
    /\ receipts' = [receipts EXCEPT ![j] = "open"]
    /\ Deferred(j, ReclaimedRun.due_at)
    /\ UNCHANGED <<app, run, steps, tasks, intents, pending, holding, mail,
                   notices, budget>>

Due(r) == r.due_at = Null \/ r.due_at = 0

\* prepare needed no executor: the job is decided with the next frontier.
AcceptSettles(j) ==
    LET plan == Prepare(ReclaimedRun, Reclaim(tasks))
    IN  /\ Reclaiming(j)
        /\ Due(ReclaimedRun)
        /\ ~plan.ready
        /\ steps' = plan.steps
        /\ mail' = plan.mail
        /\ tasks' = Reclaim(tasks)
        /\ Advance(plan.run)
        /\ receipts' = [receipts EXCEPT ![j] = Verdict(plan.run)]
        /\ Answered(j)
        /\ UNCHANGED <<app, holding, notices, budget>>

\* The app is at its cap, its policy is off or its code is missing: what
\* prepare resolved is committed and the job is delivered later.
AcceptDefers(j) ==
    LET plan == Prepare(ReclaimedRun, Reclaim(tasks))
    IN  /\ Reclaiming(j)
        /\ Due(ReclaimedRun)
        /\ plan.ready
        /\ Spend("faults")
        /\ steps' = plan.steps
        /\ mail' = plan.mail
        /\ tasks' = Reclaim(tasks)
        /\ run' = plan.run
        /\ receipts' = [receipts EXCEPT ![j] = "open"]
        /\ Deferred(j, 1)
        /\ UNCHANGED <<app, intents, pending, holding, notices>>

\* tasks::assign: a new task under a new epoch, for this delivery.
AcceptExecutes(j) ==
    LET reclaimed == Reclaim(tasks)
        plan == Prepare(ReclaimedRun, reclaimed)
        task == Len(tasks) + 1
    IN  /\ Reclaiming(j)
        /\ Due(ReclaimedRun)
        /\ plan.ready
        /\ steps' = plan.steps
        /\ mail' = plan.mail
        /\ tasks' = Append(reclaimed,
               [job |-> j, journal_revision |-> plan.run.journal_revision,
                deadline |-> queue[j].deadline, state |-> "leased"])
        /\ run' = [plan.run EXCEPT !.task_id = task, !.due_at = queue[j].deadline,
                      !.state = IF @ = "compensating" THEN @ ELSE "running"]
        /\ receipts' = [receipts EXCEPT ![j] = "open"]
        /\ queue' = [queue EXCEPT ![j].state = "leased", ![j].task = task]
        /\ holding' = holding \cup {task}
        /\ UNCHANGED <<app, intents, pending, notices, budget>>

Accept(j) ==
    \/ AcceptReplay(j)
    \/ AcceptStale(j)
    \/ AcceptBusy(j)
    \/ AcceptNotDue(j)
    \/ AcceptSettles(j)
    \/ AcceptExecutes(j)

-----------------------------------------------------------------------------
(* What the holder of a task may still do.                                 *)

\* Fault: the holder's own lease is believed.
ValidUnchecked(t) == TRUE

\* validate_live: the stored task is live, its run still holds it, and the run
\* stands at the frontier it was assigned for.  Whether the holder thinks its
\* lease has lapsed is a matter of its own clock, so nothing rests on it here.
Valid(t) ==
    /\ TaskLive(t)
    /\ run.task_id = t
    /\ tasks[t].job = Job(run)

\* The delivery the holder works under, in the manager's row.
Granted(t) == queue[tasks[t].job].task = t /\ queue[tasks[t].job].deadline > 0

\* heartbeat: the manager renews and counts the attempt, then the journal
\* extends the task, unless its half failed or policy withholds it.
Heartbeat(t, extended) ==
    /\ t \in holding
    /\ Granted(t)
    /\ queue' = [queue EXCEPT ![tasks[t].job] = [Counted(@) EXCEPT !.deadline = app.lease]]
    /\ IF extended
       THEN /\ Valid(t)
            /\ tasks' = [tasks EXCEPT ![t].deadline = app.lease]
            /\ run' = [run EXCEPT !.due_at = app.lease]
       ELSE UNCHANGED <<run, tasks>>
    /\ UNCHANGED <<app, steps, receipts, intents, pending, holding, mail,
                   notices, budget>>

\* The tail of complete_job: the task and its job are decided by the row the
\* report leaves, and the next frontier is published.
Commit(t, r) ==
    /\ Advance(r)
    /\ tasks' = [tasks EXCEPT ![t] = Over(@, "completed")]
    /\ receipts' = [receipts EXCEPT ![tasks[t].job] = Verdict(r)]
    /\ holding' = holding \ {t}
    /\ UNCHANGED <<app, queue, notices, budget>>

\* Fault: an outcome is accepted for an operation that is already settled.
ReportsAnyRow ==
    {[end |-> "continue", tries |-> f, new |-> b] :
        f \in [{i \in DOMAIN steps : steps[i].kind = "run"} -> {"completed", "failed"}],
        b \in {c \in app.batches : Len(steps) + Len(c) <= app.steps}}

\* A report of the body: the executions of held ordinals, the batch it
\* opens, and how it ended.
Reports ==
    LET tries == [Ordinals(steps, "retrying") -> {"completed", "failed", "fatal"}]
        idle == Ordinals(steps, "running") = {}
        none == [i \in {} |-> "completed"]
    IN  {[end |-> "continue", tries |-> f, new |-> <<>>] :
            f \in {g \in tries : DOMAIN g # {} \/ ~idle}}
        \cup {[end |-> "continue", tries |-> f, new |-> b] :
            f \in {g \in tries : idle /\ \A i \in DOMAIN g : g[i] = "completed"},
            b \in {c \in app.batches : Len(steps) + Len(c) <= app.steps}}
        \cup {[end |-> "failed", tries |-> none, new |-> <<>>]}
        \cup {[end |-> e, tries |-> none, new |-> <<>>] :
            e \in IF idle /\ Ordinals(steps, "retrying") = {}
                  THEN {"completed", "continuedAsNew"} ELSE {}}

\* frontier::apply on a forward run.  A recorded cancellation outranks what
\* the body reports, and a pause outranks only its suspension.
Report(t, report) ==
    LET appended == Appended(steps, report.tries, report.new)
        written == [run EXCEPT !.journal_revision = @ + Cardinality(DOMAIN report.tries)]
        suspends == /\ report.end = "continue" /\ run.control = "none"
        found == IF suspends THEN Resolvable(appended, mail) ELSE {}
        row == IF run.control = "cancel" THEN SettleRun(written, appended, "cancelled")
               ELSE IF report.end = "failed" THEN SettleRun(written, appended, "failed")
               ELSE IF report.end = "completed" THEN Finish(written, "completed")
               ELSE IF report.end = "continuedAsNew" THEN
                    IF Obligations(appended) # {} THEN SettleRun(written, appended, "failed")
                    ELSE Finish(written, "continuedAsNew")
               ELSE IF run.control = "pause" THEN Park(written)
               ELSE Suspend([written EXCEPT !.journal_revision = @ + Cardinality(found)],
                            Resolved(appended, mail), found # {})
    IN  /\ t \in holding
        /\ Valid(t)
        /\ run.state # "compensating"
        /\ steps' = IF suspends THEN Resolved(appended, mail) ELSE appended
        /\ mail' = IF suspends THEN MailAfter(appended, mail) ELSE mail
        /\ Commit(t, row)

\* compensate: one compensator, the newest obligation, per dispatch.
ReportCompensation(t, succeeded) ==
    LET i == Newest(Obligations(steps))
        spent == steps[i].compensation_attempts + 1
        again == ~succeeded /\ spent < app.max_step_attempts
        undone == [steps EXCEPT ![i] = [@ EXCEPT
            !.compensation = IF again THEN "pending"
                             ELSE IF succeeded THEN "completed" ELSE "failed",
            !.compensation_attempts = spent,
            !.compensation_due_at = IF again THEN app.retry_delay ELSE Null]]
        written == [run EXCEPT !.journal_revision = @ + 1]
        row == IF Obligations(undone) = {}
               THEN Finish(written, IF \E k \in DOMAIN undone : undone[k].compensation = "failed"
                                    THEN "failed" ELSE run.compensation_target)
               ELSE IF run.control = "pause" THEN Park(written)
               ELSE [written EXCEPT !.task_id = Null,
                                    !.due_at = IF again THEN app.retry_delay ELSE 0]
    IN  /\ t \in holding
        /\ Valid(t)
        /\ run.state = "compensating"
        /\ steps' = undone
        /\ Commit(t, row)
        /\ UNCHANGED mail

\* release_job and the interrupted give-back, which counts the attempt; the
\* manager's half may be lost.  A worker stops because the run's control says
\* so, or because its execution failed or was drained.
Release(t, returned) ==
    /\ t \in holding
    /\ Valid(t)
    /\ returned => Granted(t)
    /\ tasks' = [tasks EXCEPT ![t] = Over(@, "released")]
    /\ run' = [run EXCEPT !.due_at = 0]
    /\ queue' = IF returned
                THEN [queue EXCEPT ![tasks[t].job] = GivenBack(Counted(@), 0)]
                ELSE queue
    /\ holding' = holding \ {t}
    /\ IF run.control = "none" THEN Spend("faults") ELSE UNCHANGED budget
    /\ UNCHANGED <<app, steps, receipts, intents, pending, mail, notices>>

\* The worker dies: nothing is reported and its leases lapse.
Crash(t) ==
    /\ t \in holding
    /\ TaskLive(t) \/ Granted(t)
    /\ holding' = holding \ {t}
    /\ Spend("faults")
    /\ UNCHANGED <<app, run, steps, tasks, receipts, intents, pending, queue,
                   mail, notices>>

\* renew and execute: whoever no longer has the task is refused at its next
\* renewal or report, or finds its lease over, and stops with nothing written.
Refused(t) ==
    /\ t \in holding
    /\ ~Valid(t)
    /\ holding' = holding \ {t}
    /\ UNCHANGED <<app, run, steps, tasks, receipts, intents, pending, queue,
                   mail, notices, budget>>

-----------------------------------------------------------------------------
(* Requests and events from outside the run.                               *)

\* Fault: a cancelled run waits for what it waited for.
CancelledInPlace(op) == [run EXCEPT !.control = "cancel"]

\* prepare_transition: the row a pause, a resume or a cancel leaves.
Transitioned(op) ==
    LET leased == run.task_id # Null
        phase == IF run.compensation_target # Null THEN "compensating" ELSE "queued"
    IN  CASE op = "pause" -> IF leased THEN [run EXCEPT !.control = "pause"]
                             ELSE [Park(run) EXCEPT !.control = "pause"]
          [] op = "resume" -> IF leased THEN [run EXCEPT !.control = "none"]
                              ELSE [run EXCEPT !.control = "none", !.state = phase,
                                               !.due_at = 0]
          [] op = "cancel" -> IF leased THEN [run EXCEPT !.control = "cancel"]
                              ELSE [run EXCEPT !.control = "cancel", !.due_at = 0]

\* TransitionPlan::apply: an idle run moves to a new frontier; a leased one
\* shows the intent to its holder.
Transition(op) ==
    /\ op \in app.ops \cap {"pause", "resume", "cancel"}
    /\ run.state \notin Terminal
    /\ Spend("commands")
    /\ IF run.task_id = Null THEN Advance(Transitioned(op))
       ELSE run' = Transitioned(op) /\ UNCHANGED <<intents, pending>>
    /\ UNCHANGED <<app, steps, tasks, receipts, queue, holding, mail, notices>>

\* RestartSafety and the rest of prepare_draft: what forbids a restart that
\* keeps the first operations of the journal.
Restartable(kept) ==
    /\ "restart" \in app.ops
    /\ \A t \in DOMAIN tasks : tasks[t].job[1] = run.generation => ~TaskLive(t)
    /\ \A i \in DOMAIN steps : steps[i].child # "live"
    /\ run.compensation_target = Null \/ Obligations(steps) = {}
    /\ \A i \in DOMAIN kept : /\ kept[i].compensation \in {"none", "pending"}
                              /\ kept[i].state \in {"completed", "failed"}

\* Fault: every signal the generation consumed is given back.
RefundedAll(prefix) ==
    Cardinality({i \in Ordinals(steps, "completed") : steps[i].kind = "signal"})

\* Signals consumed by the operations a restart drops.
Refunded(prefix) ==
    Cardinality({i \in Ordinals(steps, "completed") : i > prefix /\ steps[i].kind = "signal"})

\* The row of the run at the start of a generation.
Restarted(generation) ==
    [run EXCEPT !.generation = generation, !.frontier_revision = 1, !.state = "queued",
                !.control = "none", !.due_at = 0, !.task_id = Null,
                !.compensation_target = Null]

\* RestartPlan::apply: a new generation that starts from the kept operations.
Restart(prefix) ==
    LET row == Restarted(run.generation + 1)
        kept == SubSeq(steps, 1, prefix)
    IN  /\ run.generation < MaxGeneration
        /\ Restartable(kept)
        /\ Spend("commands")
        /\ tasks' = [t \in DOMAIN tasks |->
               IF tasks[t].state = "leased" /\ tasks[t].job[1] = run.generation
               THEN Over(tasks[t], "expired") ELSE tasks[t]]
        /\ mail' = mail + Refunded(prefix)
        /\ steps' = kept
        /\ notices' = {}
        /\ run' = row
        /\ Record(row)
        /\ UNCHANGED <<app, receipts, queue, holding>>

\* Fault: the mailbox fills and nobody is woken.
SignalUnheard ==
    /\ run.state \notin Terminal
    /\ Spend("signals")
    /\ mail' = mail + 1
    /\ UNCHANGED <<app, run, intents, pending, steps, tasks, receipts, queue,
                   holding, notices>>

\* signals::deliver: the mailbox keeps the signal; only a run idle in a wait
\* it answers is woken.
Signal ==
    /\ run.state \notin Terminal
    /\ Spend("signals")
    /\ mail' = mail + 1
    /\ IF /\ run.task_id = Null /\ run.control = "none" /\ run.state = "waiting"
          /\ SignalWaits(steps) # {}
       THEN Advance([run EXCEPT !.due_at = 0])
       ELSE UNCHANGED <<run, intents, pending>>
    /\ UNCHANGED <<app, steps, tasks, receipts, queue, holding, notices>>

\* A child run ends and owes its parent a notification page.
ChildEnds(i, how) ==
    /\ i \in DOMAIN steps
    /\ steps[i].child = "live"
    /\ steps' = [steps EXCEPT ![i].child = how]
    /\ notices' = IF steps[i].state = "running" /\ run.state \notin Terminal
                  THEN notices \cup {i} ELSE notices
    /\ UNCHANGED <<app, run, tasks, receipts, intents, pending, queue, holding,
                   mail, budget>>

\* propagation's notify page: an idle parent still waiting is made due.
Notify(i) ==
    /\ i \in notices
    /\ notices' = notices \ {i}
    /\ IF /\ steps[i].state = "running"
          /\ run.task_id = Null /\ run.control = "none"
          /\ run.state \in {"waiting", "sleeping", "queued"}
       THEN Advance([run EXCEPT !.due_at = 0])
       ELSE UNCHANGED <<run, intents, pending>>
    /\ UNCHANGED <<app, steps, tasks, receipts, queue, holding, mail, budget>>

-----------------------------------------------------------------------------
Elapsed(left) == IF left = Null \/ left = 0 THEN left ELSE left - 1

\* Deliveries that lapse with the next unit of time although somebody alive
\* still works under them: a renewal or an exchange came too late.
Overrun ==
    {j \in Jobs : /\ queue[j].deadline = 1
                  /\ \/ queue[j].state = "claimed"
                     \/ queue[j].state = "leased" /\ receipts[j] \in Decided
                     \/ queue[j].state = "leased" /\ queue[j].task \in holding}

Clocks ==
    {run.due_at} \cup {steps[i].wake_at : i \in DOMAIN steps}
    \cup {steps[i].compensation_due_at : i \in DOMAIN steps}
    \cup {tasks[t].deadline : t \in DOMAIN tasks}
    \cup {queue[j].due : j \in Jobs} \cup {queue[j].deadline : j \in Jobs}

Tick ==
    /\ Clocks \ {Null, 0} # {}
    /\ IF Overrun = {} THEN UNCHANGED budget ELSE Spend("faults")
    /\ run' = [run EXCEPT !.due_at = Elapsed(@)]
    /\ steps' = [i \in DOMAIN steps |->
           [steps[i] EXCEPT !.wake_at = Elapsed(@), !.compensation_due_at = Elapsed(@)]]
    /\ tasks' = [t \in DOMAIN tasks |-> [tasks[t] EXCEPT !.deadline = Elapsed(@)]]
    /\ intents' = [j \in Jobs |-> Elapsed(intents[j])]
    /\ queue' = [j \in Jobs |->
           [queue[j] EXCEPT !.due = Elapsed(@), !.deadline = Elapsed(@)]]
    /\ UNCHANGED <<app, receipts, pending, holding, mail, notices>>

\* External: the manager's database clock gains a unit on the creator's, so a
\* job is claimed before its time or with its task still live.
Drift ==
    /\ \E j \in Jobs : queue[j].due > 0 \/ queue[j].deadline > 0
    /\ Spend("faults")
    /\ queue' = [j \in Jobs |->
           [queue[j] EXCEPT !.due = Elapsed(@), !.deadline = Elapsed(@)]]
    /\ UNCHANGED <<app, run, steps, tasks, receipts, intents, pending, holding, mail, notices>>

Init ==
    /\ app \in Apps
    /\ run = [state |-> "queued", control |-> "none", generation |-> 0,
              frontier_revision |-> 1, journal_revision |-> 0, due_at |-> 0,
              task_id |-> Null, compensation_target |-> Null]
    /\ steps = <<>>
    /\ tasks = <<>>
    /\ receipts = [j \in Jobs |-> "none"]
    /\ intents = [j \in Jobs |-> IF j = <<0, 1>> THEN 0 ELSE Null]
    /\ pending = {<<0, 1>>}
    /\ queue = [j \in Jobs |-> Absent]
    /\ holding = {}
    /\ mail = 0
    /\ notices = {}
    /\ budget = [faults |-> app.faults, commands |-> app.commands,
                 signals |-> app.signals]

Next ==
    \/ \E j \in Jobs :
        \/ \E confirmed \in BOOLEAN : Publish(j, confirmed)
        \/ Claim(j)
        \/ Accept(j)
        \/ AcceptDefers(j)
        \/ Settle(j)
    \/ \E t \in holding :
        \/ \E extended \in BOOLEAN : Heartbeat(t, extended)
        \/ \E report \in Reports : Report(t, report)
        \/ \E succeeded \in BOOLEAN : ReportCompensation(t, succeeded)
        \/ \E returned \in BOOLEAN : Release(t, returned)
        \/ Refused(t)
        \/ Crash(t)
    \/ \E op \in app.ops : Transition(op)
    \/ \E prefix \in 0..(Len(steps) - 1) \cup {0} : Restart(prefix)
    \/ Signal
    \/ \E i \in DOMAIN steps :
        \/ \E how \in {"completed", "failed"} : ChildEnds(i, how)
        \/ Notify(i)
    \/ Tick
    \/ Drift

Spec == Init /\ [][Next]_vars

\* What the system does by itself: the driver publishes and redelivers, an
\* execution reports within its hard budget or is refused, and a page of the
\* propagation queue is delivered.
Worked ==
    \/ \E j \in Jobs : Publish(j, TRUE) \/ Claim(j) \/ Accept(j) \/ Settle(j)
    \/ \E t \in holding :
        \/ \E report \in Reports : Report(t, report)
        \/ \E succeeded \in BOOLEAN : ReportCompensation(t, succeeded)
        \/ Refused(t)
    \/ \E i \in DOMAIN steps : Notify(i)

\* Some of it is done, in whatever order, and the clock runs.  Nobody owes the
\* run a renewal, a signal, a command or the end of a child.
Fairness == WF_vars(Worked) /\ WF_vars(Tick)

FairSpec == Spec /\ Fairness

-----------------------------------------------------------------------------
(* Safety.                                                                 *)

\* A frontier that must be advanced is in the hands of the queue: while no
\* task is assigned its intent is recorded, and its job is neither decided by
\* the journal nor settled by the manager; while one is, the run still stands
\* at the frontier the task was assigned for (publication::advance,
\* tasks::assign).
FrontierPublished ==
    LET j == Job(run)
    IN  /\ run.state \notin Terminal /\ run.due_at # Null =>
              /\ intents[j] # Null
              /\ j \in pending \/ queue[j].state # "absent"
              /\ receipts[j] \notin Decided
              /\ queue[j].state # "settled"
        /\ run.task_id # Null => tasks[run.task_id].job = j

\* The manager only forgets a job the journal decided: whatever answer or
\* acknowledgement is lost, the receipt comes first (accept_job, settle).
JournalDecidesFirst ==
    \A j \in Jobs : queue[j].state = "settled" => receipts[j] \in Decided

\* At most one execution of a frontier is committed, though the job may be
\* delivered, executed and reclaimed many times (validate_live).
OneCommitPerFrontier ==
    \A t, u \in DOMAIN tasks :
        /\ tasks[t].state = "completed" /\ tasks[u].state = "completed"
        /\ tasks[t].job = tasks[u].job
        => t = u

\* Every verdict the run itself reaches, a cancellation included, finds its
\* compensators discharged or named as abandoned; a completed run and a stalled
\* one keep theirs (settle, abandon).
RollbackDischarged ==
    run.state \in {"failed", "cancelled"} => Obligations(steps) = {}

\* No signal is lost or used twice: each one sent is in the mailbox or was
\* consumed by a wait of the current generation, restarts included
\* (journal::resolve, restart).
SignalsConserved ==
    mail + Cardinality({i \in Ordinals(steps, "completed") : steps[i].kind = "signal"})
        = app.signals - budget.signals

\* The journal gives up before the queue does: while no wait ended between the
\* dispatches of the run's frontier and no cancellation turned it to a rollback,
\* the manager's ceiling is not spent on it with the run still live
\* (stuck_dispatches, max_delivery_attempts).
VerdictReachable ==
    LET j == Job(run)
        exhausted == /\ queue[j].state \in {"ready", "claimed", "leased"}
                     /\ queue[j].deadline = 0
                     /\ queue[j].executions >= app.max_delivery_attempts
        same == \A t \in DOMAIN tasks :
                    tasks[t].job = j => tasks[t].journal_revision = run.journal_revision
    IN  same /\ run.compensation_target # "cancelled" /\ exhausted => run.state \in Terminal

-----------------------------------------------------------------------------
(* What a step may never do.                                               *)

\* What a replay was handed stays as it was: a settled operation is not
\* rewritten while its generation lasts (save_checkpoint).
HistoryImmutable ==
    [][run'.generation = run.generation =>
        \A i \in DOMAIN steps :
            /\ i \in DOMAIN steps'
            /\ steps[i].state \in {"completed", "failed"} =>
                  steps'[i].state = steps[i].state /\ steps'[i].attempts = steps[i].attempts]_vars

\* A run at rest for good stays there until it is restarted in a new
\* generation, and no receipt is ever rewritten: neither a late report, a stale
\* delivery nor a late notification moves either.
VerdictsStand ==
    [][/\ run.state \in Terminal /\ run'.generation = run.generation => run' = run
       /\ \A j \in Jobs : receipts[j] \in Decided => receipts'[j] = receipts[j]]_vars

\* Compensators run newest first: no obligation is discharged while a later
\* one is pending (compensate).
UndoneInReverse ==
    [][\A i \in DOMAIN steps \cap DOMAIN steps' :
        /\ run'.generation = run.generation
        /\ steps[i].compensation = "pending"
        /\ steps'[i].compensation \in {"completed", "failed"}
        => \A k \in DOMAIN steps : k > i => steps[k].compensation # "pending"]_vars

-----------------------------------------------------------------------------
(* Progress.                                                               *)

\* A run nobody owes a delivery: ended, paused, or waiting for somebody else.
Resting ==
    \/ run.state \in Terminal
    \/ run.state = "paused" /\ run.due_at = Null
    \/ /\ run.state = "waiting" /\ run.due_at = Null
       /\ Ordinals(steps, "retrying") = {}
       /\ \E i \in Ordinals(steps, "running") : steps[i].kind # "sleep"
       /\ Resolvable(steps, mail) = {}

\* The bound on frontiers: the run stands at the last one its app has.
OutOfFrontiers == run.frontier_revision = app.revisions

\* Whatever crashes, lapses and is lost, the run comes to a verdict, to a pause
\* or to a wait that only somebody else can end.
RunComesToRest == []<>(Resting \/ OutOfFrontiers)

\* A run whose last request was a cancel ends, whatever was asked of it before
\* (prepare_transition, prepare).
CancelEnds ==
    run.control = "cancel" /\ budget.commands = 0 ~> run.state \in Terminal \/ OutOfFrontiers

\* An accepted cancel is answered by the run's end as cancelled and by nothing
\* before it, as cancel() is described; no rollback comes between, and no later
\* request takes its place.
CancelAborts ==
    [][run.control = "cancel" /\ run'.control # "cancel" => run'.state = "cancelled"]_vars

\* Every wait but a signal's.
OtherWaits(s) == Ordinals(s, "running") \ SignalWaits(s)

\* Somebody who executes, cancels, pauses or ends the run has it in hand.
InHand ==
    \/ run.state \in Terminal \cup {"running", "compensating", "paused"}
    \/ run.control # "none"

\* A signal to a run that waits for one leads to a dispatch: the run does not
\* rest with the signal in its mailbox or already consumed (signals::deliver,
\* prepare).
SignalWakes ==
    (mail > 0 /\ SignalWaits(steps) # {} /\ run.control = "none") ~> InHand

\* The same of a run that waits for nothing beside a signal but a clock.
LoneSignalWakes ==
    (/\ mail > 0 /\ SignalWaits(steps) # {} /\ run.control = "none"
     /\ \A i \in OtherWaits(steps) : steps[i].kind = "sleep") ~> InHand \/ OutOfFrontiers

\* A frontier is handed over without loss or repetition: published until it is
\* decided, forgotten by the manager only then, committed at most once
\* (publication::advance, accept_job, validate_live).
FrontierInHand == TypeOK /\ FrontierPublished /\ JournalDecidesFirst /\ OneCommitPerFrontier

\* What was decided is kept: operations of a generation, verdicts and receipts,
\* and the order in which compensators undo them (save_checkpoint, compensate).
HistoryKept == HistoryImmutable /\ VerdictsStand /\ UndoneInReverse

\* The run makes progress: it ends or rests in a wait that is not the system's,
\* and it ends once it is cancelled (prepare, redelivery).
RunProgresses == RunComesToRest /\ CancelEnds
=============================================================================
