# Verification of zeroship's durable core

TLA+ modules that model the parts of zeroship in which state must survive
concurrency and failure: the workflow manager's job queue, the retention protocol
that keeps an app deployment's code, the handshake that retires an idle app, the
calendar of schedules, the journal of a workflow run, the usage pipeline from a
producer to the billing provider, the gateway's idempotent dispatch, the
connection pool of the PostgreSQL client and the executor of schema migrations.
They are checked with TLC on small instances, and their safety properties are proved
with TLAPS for every value of the constants.

## 1. The system

zeroship hosts apps: a control plane accepts bundles and routes, gateways and
workers run them in V8, and a family of crates gives them durable workflows,
metered billing and migrated databases. Its parts and their state, as far as the
project looks at them:

| Part | Code | State | Operations |
| --- | --- | --- | --- |
| Job queue | `zeroship-workflow-manager/src/queue.rs` | `jobs`, `queue_scopes` rows per app: state, attempt, lease, deferral, budget, outcome, dispatch order | submit, claim, heartbeat, settle, give back |
| Candidate query | `scheduling.rs` (claimable_rows .. management_eligibility) | none of its own | picks the row of a claim |
| Command acceptance | `management.rs`, `management/validation.rs`, `coordinator/management.rs` | `management`, `management_scopes`: revisions of commands per run | manage, settle of a command, integrity checks |
| Queue retention | `retention.rs` | `deployment_holds`: the manager's hold intent and its duty to have the journal's hold released | ensure, release, maintain, reconcile |
| Hold ledger | `deployments/mod.rs` (runs in Control) | `app_deploy_holds`, `app_deploys.retention_state` | acquire, release, fence and finish a reclamation |
| Catalog and publisher | `zeroship-control/src/publication/` | app pointer, deployments, lifecycle intents | accept, archive, restore, publish, confirm |
| Collector | `zeroship-control/src/cron/deploy_retention.rs` | none of its own | fences and deletes unused deployments |
| Journal retention | `zeroship-workflow/src/service/deployment_retention.rs`, `hold_release.rs`, `activation.rs`, `deploys.rs` | the creator journal's hold intents, deployments, runs | acquire, register, select, park, release |
| Recovery scopes | `recovery.rs`, `recovery/duties.rs` | `recovery_scopes`, `recovery_duties`: responsibility of the platform for an app, its epoch, closing attempt and duty pair | ensure, establish, note ingress, dispatch, close, expire, settle, abandon |
| Closure and publication | `zeroship-workflow/src/service/closure.rs`, `app.rs`, `publication.rs` | the journal's `closed_epoch`, Close receipts and publication intents | fence and drain, accept ingress, publish, confirm |
| Hosts' epochs | `zeroship-workflow-server/src/runs.rs` | the ingress epoch each host holds | establish and install an epoch after a refusal |
| Schedules | `scheduling.rs` (prepare .. occurrence), `zeroship-workflow-calendar/src/timing.rs` | `schedule_deployments`, `schedule_scopes`, `schedule_activations`, `schedule_disables`, `schedules`, `schedule_occurrences`: projections, the selection, one frontier per schedule | prepare, activate (replace or restore), disable, dispatch |
| Run journal | `zeroship-workflow/src/service/` (`frontier.rs`, `journal.rs`, `delivery.rs`, `tasks.rs`, `publication.rs`, `control.rs`, `restart.rs`, `signals.rs`, `propagation.rs`) | a run's row, its steps, tasks, receipts and intents, its mailbox | accept a delivery, prepare, report, settle, advance, suspend, signal, pause, resume, cancel, restart, notify a parent |
| Usage outbox | `zeroship-metering/src/outbox.rs` and the producers that use it | counters, the retry buffer, the write-ahead log of usage events | count, drain, append, publish, trim |
| Event forwarder | `zeroship-control/src/cron/event_forwarder.rs`, `zeroship-stream/src/adapters/redpanda.rs` | the consumer's position, the committed offset, quarantined events | poll, attribute, ingest, quarantine, commit |
| Idempotent dispatch | `zeroship-gateway/src/idempotency.rs`, `router/dispatch.rs`, `proxy.rs` | stored responses, in-flight locks, the eviction queue, requests under way | decide, wait, forward, capture, release |
| Connection pool | `libs/compio-postgres/src/pool.rs` | the shelf, the queue of waiters, two counters, the housekeeper | check out, hand over, return, cancel, refill, close |
| Migration executor | `zeroship-migrate-core/src/apply/executor.rs`, `ops/squash.rs`, `zeroship-migrate-postgres/src/backend/` (`session.rs`, `journal_sql.rs`) | the migration journal, in-flight markers, supersession edges, the project lock, session settings | apply, recover, roll back, squash |
| Zone claims | `coordinator/jobs.rs` | laps over the apps of a zone | claim for a worker |
| Capacity | `capacity.rs`, `policy.rs` | fleet plans | reconcile |
| Runner | `zeroship-workflow-runner/src` | deliveries in progress | consume, heartbeat, settle |

The components that are not modelled are listed in `PROJECT.json` with the reason.

How they interact. Every queue operation is one database transaction that
begins by locking the app's scope row, so operations of one app are serial; the
world between two transactions is not. A worker executes a delivery while
other workers claim; its lease is a deadline of the database clock and an
instant of the worker's own clock; replies are lost and calls repeated. The
queue calls the retention protocol before it publishes a job that names a
deployment. Retention spans three databases (Control's, the manager's, the
creator's journal) that share no transaction: each holder writes an intent,
calls the ledger, and applies the acknowledgement in another transaction. A run
advances through both of the last two: its journal publishes the next frontier as
a job of the manager, which delivers it until the journal has decided it.
Producers of usage and the forwarder share a partition of the broker and nothing
else. The gateway's threads share a dedupe store, with nothing that spans two of
its calls. The pool is one thread's, with an await wherever a caller may be
cancelled. Deploys of migrations meet at an advisory lock that belongs to a
session, not to a deployer.

What is hard: stale grants, late settlements, budgets counted over mixtures of
lapses and give-backs; the barrier of a blocking command against deliveries
already out; holds acquired again while messages about the previous hold are in
flight; a collector that looks at the ledger in the window between an accepted
activation and the hold taken for it; an app that retires while a job, a host or
a late commit can still write an intent only its duties would republish; a
calendar that is replaced, disabled and restored by commands in any order while
replicas of two builds publish from it page by page; a run whose execution,
report or settlement is lost at any point while signals, children and commands
reach it; an event whose publish is cut off and lands later; a lock that lapses
under a dispatch; a session handed to a caller who has just given up; a deployer
that dies between an `up` that commits by itself and the row that records it.
`PROJECT.json` lists the hazards at their lines, each with the properties that
would show it going wrong.

## 2. Modules

| Module | What it is |
| --- | --- |
| `JobQueue`, `JobQueueProofs`, `MCJobQueue` | the queue of one app, the candidate query and the command order |
| `CodeCustody` | the promise of retention: code outlives the work that depends on it |
| `DeploymentRetention`, `DeploymentProofs`, `MCDeploymentRetention` | catalog, ledger, collector, manager and journal for one deployment; implements `CodeCustody` |
| `ScopeRetirement`, `ScopeRetirementProofs`, `MCScopeRetirement` | one app's responsibility across the manager, the journal and the hosts |
| `Scheduling`, `DeploymentProofs`, `MCScheduling` | one app's calendar: selection, frontiers and published occurrences |
| `RunJournal`, `RunJournalProofs`, `MCRunJournal` | one run in the journal and the delivery of its frontiers by the queue |
| `UsageOutbox` | a producer of usage and its write-ahead log |
| `EventForwarder` | the consumer that bills a partition |
| `UsageBilling` | the promise of metering: usage is invoiced at most once |
| `Metering`, `MeteringProofs`, `MCMetering` | `UsageOutbox` and `EventForwarder` composed over one partition; implements `UsageBilling` |
| `IdempotentDispatch`, `IdempotentDispatchProofs`, `MCIdempotentDispatch` | the gateway's dispatch of idempotent procedures |
| `ConnectionPool`, `ConnectionPoolProofs`, `MCConnectionPool` | the connection pool of compio-postgres |
| `MigrationExecutor`, `MigrationExecutorProofs`, `MCMigrationExecutor` | apply, rollback and squash of a project's migrations |

The `...Proofs` modules hold theorems, the `MC...` modules instances for TLC. Where a
component is configured (a policy, a pool's sizes, a catalogue of migrations), the
configuration is a record in a variable that `Init` chooses from a CONSTANT set and no
step changes (`app`, `proc`, `pool`, `project`); one run then checks every configuration
of the set, each chosen for one family of hazards.

### JobQueue

One action per transaction. `Submit`, `Manage`, `ClaimWithin`, `Heartbeat`,
`Settle`, `SettleReplay` and `GiveBack` are the operations of `queue.rs` and
`coordinator/management.rs`; `Abandon`, `EnsureDeployment` and
`ReleaseDeployment` are the parts of `recovery.rs` and `retention.rs` that touch
the queue's rows; `Revoke` and `Tick` are the environment. The patches an
operation writes are operators on rows (`Inserted`, `Leased`, `Counted`,
`Renewed`, `Settled`, `Returned`, `Deferred`).

* A call names a worker, a job and an attempt. The model lets every worker name
  every attempt a job ever had at any time, which covers delayed, repeated and
  reordered calls without a network. A call the code refuses changes nothing
  and is not an action.
* `delivered = FALSE` is a committed operation whose reply was lost.
* `executing` is what workers believe: a grant enters it with a delivered claim
  and leaves it when its deadline passes, because `local_deadline` charges the
  worker's clock with every wait since the database clock was read. `receipts`
  is what workers were told. No guard of the code reads either.
* The clock is the database's. It is monotone, as the manager's `Clock` makes
  it; a transaction reads it once. Milliseconds are abstracted to ticks, the
  exponent cap of the back-off (2^62) lies outside every admissible ceiling.
* `AttemptBound` is where attempt numbering ends (`Error::Capacity` in the code
  at the end of i64); `MaxTime` bounds the clock for TLC.
* The cap and the ceiling that policy gives a claim change freely between
  claims, up to `MaxRunning` and `MaxDeliveryAttempts`.
* `Abandon` may happen more than once, which the code does not do; that only
  adds behaviours. Its other half, the recovery scope, is in `ScopeRetirement`.
* Payloads, digests of payloads and the descendants of a Cancel are abstracted:
  a settlement digest is the triple that determines it.

### DeploymentRetention

One deployment of one app; its other deployments matter only through the pointer
and the newest activation (`AcceptOther`, `Deselect`). Its steps are the
transactions of the three databases. Ledger requests and replies are sets that
only grow, so every message may be lost, repeated, delayed and overtaken for
ever. A crash needs no action: an intent is all a holder remembers, so a process
that dies between two transactions is a behaviour in which the later steps are
taken by a sweep instead.

* `Change` is `DeploymentHolds::change`; `Reconcile` and `Confirm` are the two
  transactions of `reconcile_for` (queue) and `reconcile_deployment_hold_checked`
  (journal), which have the same logic except that the queue checks again that
  nothing depends on what it releases.
* `unsettled` are the queue's jobs that name the deployment and the live
  schedules on it, the set `require_unused` looks at.
* The journal takes a hold only for delivered activation, cron and restart jobs.
  Such a job is unsettled while it executes: its authority ends before its lease
  does, and `Abandon` leaves those kinds alone.
* A release job's verdict is recorded when its execution ends and settled at any
  later time (`Verdict`, `SettleRelease`): the interval in which the deployment
  may be acquired again. A verdict "waiting" stands for every refusal.
* Abstracted: hashes, manifests and holder identities; the age cutoff of the
  collector, the release grace and the calendar selection, which only delay the
  steps they guard; the artifact I/O between a hold and its registration.
* `GenerationBound` is where hold generations end (`Error::Capacity`).

### ScopeRetirement

An app's responsibility is a row of the manager that is open, closing, retired or
abandoned, with an epoch. While it is open its two duties (reconcile, collect)
are dispatched; reconcile is what republishes an intent whose publisher died. To
retire, the manager publishes a Close job under a watermark of the dispatch
cursor; the Close fences the epoch in the journal and reports in the same
transaction whether the journal owes anything; its settlement retires the scope
only if nothing was claimed after the watermark.

* Manager actions are queue transactions: `Activate`, `Ensure`, `Disable`,
  `Occurrence`, `Dispatch`, `NoteIngress`, `BeginClose`, `ClosingTurn`,
  `ExpireClose`, `Abandon`; `Claim`, `GiveBack`, `SettleWork`, `SettlePage` and
  `SettleClose` are the deliveries as far as the responsibility sees them.
* `BeginWrite` and the commits (`CommitWork`, `CommitClose`, `Rollback`) are the
  two ends of a delivered job's journal transaction. The lease is checked at the
  first and not at the second, so it may lapse, and the job be claimed again or
  the scope start closing, in between.
* A host holds an epoch (`ingress_epoch`), accepts under it (`Accept`), is told
  which epoch to exceed (`Fenced`), and asks for one (`Establish`); the reply waits in
  `answered` until the host installs it or finds it lost (`Install`), and anything may
  happen to the scope in between.
* Instants are kept as what they have made true: lapsed, idle, over, timed out,
  due. Each turns by its own step, so the result covers every value and every
  ratio of the options, and every skew between them.
* A rejected establishment, a rejected Close and a page of candidates change
  nothing and are not actions. Job payloads, activation provenance (the subject
  of `DeploymentRetention`) and the delivery budget (of `JobQueue`) are left out.
* `MaxEpoch` and `MaxOrder` bound the epoch and the dispatch cursor.

### Scheduling

A deployment's projection declares schedules by name. Activating it selects it
under Control's revision and gives each schedule a frontier, `next_at`, strictly
after now; dispatch publishes the instants that are due, a page at a time, and
moves the frontier behind them. The first page freezes an observation, a boundary
and an allowance, that later pages keep until the frontier leaves it.

* One action per transaction: `Prepare`, `Disable`, `Activate` and `Dispatch` are
  the methods of `Scheduler` of the same names; `Activate` has the two branches of
  the code, `Restored` (the disabled deployment is selected again and its rows are
  kept) and `Replaced`. `Tick` is the database clock, assumed monotone as in
  `JobQueue`.
* An action names the replica that runs it: its calendar interpretation (semantics
  and timezone database), its page size and its backfill ceiling. A rolling upgrade
  is a set of unlike replicas.
* Any revision may be asked for at any time, which covers repeated and reordered
  commands. A request that is refused, or that replays an accepted one, changes
  nothing. The checks under which the code answers `Storage` are guards
  (`ScopeReads`, `RestoreReads`, `Readable`, `CatchUpReads`), and `CalendarReads`
  says that they never fail.
* The loop of `dispatch` is one step: the page is the first instants of `Walk`, as
  many as page size and allowance admit (`IsPage`), and `Cursor` is what the loop
  and the code after it leave.
* Interval timings are computed as in the code. The search for a cron expression's
  next local time is left to its contract: `CronFires` gives the instants of an
  expression under each interpretation, and `NextAfter` is the first one after.
* The code mints ids, and keeps one row per app and schedule name and one activation
  per revision: a schedule is known by its name and an activation by its revision.
  Digests and job payloads are left out.
* `window` is history: the observation a page belongs to, for `CatchUpComposes`.
* `MaxRevision` and `MaxTime` bound revisions and the clock.

### RunJournal

One run of one app. A transaction of the journal holds the app lock, so it is one
action; the claim, acceptance, report and settlement of a delivery are separate and
anything may come between them or be lost.

* A job is the frontier it advances, `<<generation, frontier revision>>`. `Publish`,
  `Claim` and `Settle` are the manager's side, as small as a delivery sees it
  (`JobQueue` has the whole of it).
* `Accept` has one action per answer of `accept_job`: `AcceptReplay`, `AcceptStale`,
  `AcceptBusy`, `AcceptNotDue`, `AcceptSettles`, `AcceptExecutes`, and `AcceptDefers`
  for an acceptance that commits what `frontier::prepare` resolved and then finds no
  executor. `Prepare` is `frontier::prepare`, branch by branch.
* `Report` and `ReportCompensation` are the reports of an execution, `Heartbeat`,
  `Release`, `Refused` (a holder who learns that the task is not its own any more) and
  `Crash` what else a holder may do; `Transition` is pause, resume and
  cancel, `Restart` a restart from a prefix of the journal, `Signal`, `ChildEnds` and
  `Notify` what reaches the run from outside.
* The body of a workflow is what batches of operations it may open next: a step that
  succeeds, owes a compensator, fails or fails for good, a sleep, a signal wait, a child
  waited for as long as it takes or for a time. A report with new operations beside a
  terminal outcome, or beside a wait that is still pending after a retry, has the effect
  of two reports in a row and is not a report of its own.
* Instants are kept as the time left until them, so that `Tick` is the only clock. A
  tick that lapses a delivery somebody alive holds spends a fault of the budget, since
  such a holder renews in time.
* The manager's database and the creator's have clocks of their own. `Drift` lets the
  manager's gain a unit, at the price of a fault, so that a job may be claimed before
  the run is due or while its task is still live: the cases `AcceptNotDue` and
  `AcceptBusy` are there for.
* `steps`, `revisions`, `faults`, `commands` and `signals` of an app, `MaxGeneration`
  and `MaxRevision` are bounds.

### UsageOutbox, EventForwarder, Metering

A unit of usage is counted, drained into an event, appended to a log file, published,
acknowledged and trimmed; the forwarder polls the partition, hands a batch to the
provider and commits behind it. An event is the set of its units: a fresh id under
which exactly those units were drained.

* `BeginCycle` (with `AppendFails` and `ReadFails` for the two ways it fails), `Send`,
  `Land`, `Acknowledge`, `TrimFails` and the stall of a publish are the steps of a cycle
  of `outbox.rs`. A publish that was given up may land at any later time
  (`abandoned`). `Crash` loses memory and may start a build that cannot decode rows; a
  publish on the wire at that moment has landed before it or is lost.
* `direct` tells Control's producer, which appends each delta at once and publishes on
  every cycle, from the worker's and the gateway's, which drain counters.
* A cycle of the forwarder is `Poll`, `Sort`, `Ingest` or `Reject`, and `Commit`, each
  with its failure; `Evict` and `Restart` take the position back to the committed offset.
* `Metering` composes the two and lets others append to the partition. `billed` is a
  set because the provider removes duplicate event ids.
* `MaxFaults` and `MaxFailures` bound failures of either side.

### IdempotentDispatch

A request is admitted, reads the entry of its key, takes the in-flight lock or waits
behind it, is forwarded over a fresh or a pooled connection, and its response is
captured, stored or not, and the lock released. Each call of the store is one step.

* `entry_key`, `TryAcquireLock`, `PutEntry`, `Poll`, `Release` and `ClosedUnread` are
  the code's; `Storable` is what may be replayed. A lock names no owner.
* A request in flight is connected, written (`Send`, `Written`), waits for the response,
  and has its body buffered if that is chunked (`Streams`, `BodyEnds`). Connecting and
  waiting have deadlines in the code; writing and a chunked body have none
  (`NoDeadline`), so where a procedure `stalls` nobody need ever end them.
* A worker may run the handler and close before its first byte (`ClosedUnread`), cut a
  body short, or answer with a fault; a store call may fail, a release included
  (`ReleaseFails`); a task may be dropped (`Vanish`). After the last two only time frees
  the lock; `left` are the requests that went this way.
* `max_hold` bounds how long a dispatch that does not stall may hold its lock: above
  `lock_ttl` it may outlive it, as the timeouts of the code permit.

### ConnectionPool

The pool lives on one thread, so what runs between two awaits is one step; a caller may
be polled once its waker was taken, and polled or dropped at any other time.

* `Arrive`, `Poll`, `CheckPasses`, `CheckRejects`, `Connected`, `AcquireFails` are the
  checkout; `Return` and `ReturnClosed` the drop of a lease; `CancelParked`,
  `CancelHandoff` and `CancelClaim` the drop of a checkout at each of its awaits;
  `Housekeep` with `Refill`, `KeeperConnected` and `KeeperFails` the housekeeper; `Close`,
  `CloseReturns` and `CancelClose` the graceful close.
* `total` and `active` are the counters the code keeps by hand; the places of sessions
  are what they should add up to.
* A session is abstracted to what decides whether the next borrower may have it: may it
  be reused, is a transaction open once all that was queued has run, has the driver seen
  the end of that, does it owe a barrier, is a cancel token still about.
* `Kept` is what is left of a sequence at a set of positions: the queue without a caller
  who leaves it, the shelf without its unusable sessions.

### MigrationExecutor

A deploy takes the project's advisory lock on its session, plans against the journal,
runs what is pending in order, each migration transactional or in two phases (arm a
marker, run, finalize), and restores and hands back the session.

* `Apply`, `Rollback` and `Squash` begin an operation; `TakeProjectLock`,
  `SettleLockStatement`, `RestoreSession`, `ReleaseProjectLock` and `HandBack` are the
  lock bracket, each of whose statements may fail; `PlanApply`, `PlanRepeatables`,
  `SkipOne`, `HaltOne`, `ApplyTransactional`, `RecordStarted`, `RunUp`,
  `FinalizeNonTxn`, `RecoverNonTransactional`, `PlanRollback`, `RollbackOne` and
  `SquashLocked` the work inside it. `Crash` ends a deployer between any two of them.
  `EditFile` and `ClearInflight` are the author and the operator.
* The schema has one object per version, absent, built or INVALID; a squash builds what
  it supersedes. A checksum is the edition of a file.
* Planning reads are one step: they run under the lock and on its journal.
* `max_edits`, `max_rollbacks` and `max_faults` of a project are bounds.
* `Orderly` says of a project what the proofs about journal and schema need: what its
  squashes may be and fold, and where a version that may be skipped may not stand. The
  executor checks none of it; section 3 says what it does without each condition.
  `ScenesOrderly` has TLC check that the six projects of the run are such.

## 3. Runs

| Run | Instances | Shows |
| --- | --- | --- |
| `queue` | one job with two workers, three attempts and a clock past three leases; two creator jobs, one slot, one deployment; a run with a creator job, a blocking command and a Resume | exclusive execution, receipts that stay true, the delivery budget, settled rows that never change, the running cap, unique dispatch orders, round robin, holds that cover unsettled work, commands in revision order, the barrier |
| `retention` | two activations, a job, a run, two release jobs, two hold generations, fairness | holders agree with the ledger, pending activations keep their code, the journal duty is truthful, `CodeCustody` is implemented, unfinished intents are finished |
| `retirement` | a host, an intent, a calendar job and a Close; two pages of a duty beside two Closes or an activation; three epochs, five tickets; fairness | no unpublished intent loses its duties, retired scopes are fenced, epochs are issued by the manager and move on, rows read back, maintenance never doubles, every closing attempt ends |
| `schedules` | two schedules, one turned from cron to interval and one removed by the second deployment, three revisions, four instants, three replicas of two interpretations, fairness | an instant is published once, catch-up pages compose, the stored calendar reads back, only declared instants are published, the highest revision decides, due schedules are served |
| `metering` | two units, one undecodable or unowned event of others, a retry buffer of one, two failures of each side, both kinds of producer, fairness | usage is accounted for, retries are verbatim, an event is owned once, only failed cycles pass records over, `UsageBilling` is implemented, what Control recorded is billed in the end |
| `metering_transient` | one transient failure | violation: a batch is passed over (below) |
| `journal` | thirteen apps: steps that fail, for good or to be retried, and are undone; deliveries lost in every way under leases of two units; dispatches lost until the budget of either side is spent; pause, resume and cancel following one another over a run that works, waits or rolls back, and racing a lost delivery; restarts of a run that consumed a signal; a child, with and without a time, beside a retry, a lost delivery or a signal; signals alone or beside a sleep; fairness | the queue forgets only what the journal decided, one commit per frontier, a frontier to be advanced is published, verdicts find their compensators discharged in reverse order, signals are conserved, history is immutable, the stall verdict is reachable, the run comes to rest, a run whose last request was a cancel ends, a lone signal wakes it |
| `journal_signal_lost` | a child beside a signal, one fault, fairness | violation: a consumed signal wakes nobody (below) |
| `journal_cancel` | a run with a compensator, one cancel, fairness | violation: a cancelled run rolls back (below) |
| `dispatch` | five procedures: a call and its retry that may outlive their lock; two callers under one key; another input under a key; an anonymous procedure at its cap; a worker that may stall; fairness | only the caller's own outcomes are replayed, no lock outlasts its holder, one request in flight, the cap of live keys, every request answered that no worker stalls |
| `pool` | four pools: four callers of two sessions; borrowers that leave things behind; two closers; a refill to two of three while a closer comes; fairness | counters tell the truth, no wake-up is lost, nobody overtakes, sessions come clean, a closed pool only drains and empties, parked callers are served, close ends |
| `migrate` | six projects: recovery of two-phase ups with an edited file on two sessions, the same with two failures, the lock bracket with three failing statements, rollback to every target, chained squashes, a set deployed until it lands; fairness | the journal tells the truth, nothing is built twice or left untracked, a deploy that ends well has landed, sessions are handed back clean, dependents stand, everything lands |

Why the bounds are enough for the question: a stale grant needs a second attempt
and a second worker; a stale message needs a second generation and a stale
release verdict a second release job. A retirement that is overtaken needs one job
to be claimed, commit and settle between a Close's evidence and its settlement
(three tickets with the Close's own two); five leave room for the intent it writes,
and three epochs for a second retirement. A restored calendar needs an activation, a
disable and another activation, and three revisions are those; four instants let a
removed schedule fall due and an allowance of two be spent inside an observation by
pages of one. A usage event is doubled by a publish that lands late and a replay, which
one failure of the producer makes, and lost past a commit by one of the forwarder. A
late report needs a lost delivery, a second one and a lease that ends between them;
a strike verdict needs as many lost dispatches as the budget; a pending cancel that is
overwritten needs a second request. The frontiers of an app are bounded
(`OutOfFrontiers`): where one is at its last, the liveness properties of the run ask
nothing more of it. An
overtaken lock needs two requests and a hold longer than the lock. A lost wake-up needs a free session, a parked caller and a caller who cancels;
the fourth caller is the one behind it. A second crash inside a recovery needs two
faults, and an orphaned grant of the lock a failing statement beside them.

Several instances share a run. In `queue`, `retirement`, `metering` and `retention` the
instances are sets of states named by `CONSTRAINT` (`Alone`, `Competing`, `Commanded`;
`Handshake`, `Maintenance`; one event of others at a time; release jobs minted in one
order): TLC explores every behaviour that stays in one of them and also checks the
states just outside. The liveness properties of those runs concern steps that the
constraint does not cut (a sweep, a lane, a clock, a publish cycle). In the other runs
they are the members of the CONSTANT set `Init` chooses from. `Symmetry` exchanges
workers that no definition tells apart; it is used only in `queue`, which checks no
liveness. `QueueView` forgets variables no guard
reads, replaces dispatch orders by their ranks, and sees of a settled row only that
it is settled and of a settled command only that it is not pending; the properties that
read more are about one job, on which the view is the whole state.
`CHECK_DEADLOCK FALSE` where the system may rest: every job is settled and the clock,
attempts, generations or revisions end; a run has ended; a pool is closed and empty;
the usage is billed.

Properties that belong together are stated by parts and checked as one conjunction:

| Run | Property | Parts |
| --- | --- | --- |
| `queue` | `RowsAgree` | `TypeOK`, `DispatchOrdersUnique`, `HoldsCoverWork` |
| | `SettledStands` | `ReceiptsHold`, `SettledForever` |
| | `ClaimsInOrder` | `RunningCap`, `CommandsInOrder`, `RoundRobin` |
| `retention` | `HoldsHonoured` | `RetentionTypeOK`, `HeldIsLedgered`, `PendingActivationsKeepCode`, `JournalDutyTruthful` |
| | `IntentsSettle` | `ReleasesSettle`, `AcquisitionsSettle` |
| `retirement` | `ScopeConsistent` | `TypeOK`, `RetiredScopeIsFenced`, `ManagerIssuesEpochs`, `ResponsibilityReads`, `OneMaintenanceJob`, `EpochsMoveOn` |
| `schedules` | `CalendarConsistent` | `TypeOK`, `CalendarReads`, `LatestCommandDecides`, `InstantsDeclared` |
| `metering` | `UsageConserved` | `PipelineTypeOK`, `UsageAccounted`, `StableIdentity`, `OwnedOnce`, `OnlyDroppedPassedOver` |
| `journal` | `FrontierInHand` | `TypeOK`, `FrontierPublished`, `JournalDecidesFirst`, `OneCommitPerFrontier` |
| | `HistoryKept` | `HistoryImmutable`, `VerdictsStand`, `UndoneInReverse` |
| | `RunProgresses` | `RunComesToRest`, `CancelEnds` |
| `dispatch` | `LocksMatchHolders` | `TypeOK`, `LocksHeld`, `OneInFlight` |
| `pool` | `PoolConsistent` | `TypeOK`, `SlotsAccounted`, `ParkedOnce` |
| | `ServedInOrder` | `NoOvertaking`, `CallersServed` |
| | `CloseDrains` | `ClosedOnlyDrains`, `CloseEnds`, `ClosedPoolEmpties` |
| `migrate` | `SchemaAgrees` | `TypeOK`, `JournalTruthful`, `NothingUntracked`, `BuiltOnce` |
| | `DependenciesStand` | `DependentsStand`, `NeverBlind` |
| | `GreenDeploys` | `GreenMeansLanded`, `GreenLeavesNoMarker` |

Each property, and nearly every part of one, has a mutant in `PROJECT.json`: an operator
next to the definition it replaces, marked "Fault", that changes it the way a plausible
bug would, and under which TLC finds the property violated.

### Fairness

* `retention`: weak fairness of `Reconcile`, `Change` and
  `Confirm`. The manager's driver visits every unfinished intent on each lap of its
  retention lane (`maintain_deployment` resumes it), the journal's reconcile job
  pages over its pending holds, and a call that is repeated for ever is answered in
  the end. No fairness is assumed of activations, settlements, the collector or the
  release jobs.
* `retirement`: weak fairness of `ExpireClose`, because the
  driver's closing lane visits every closing scope on each lap, and of
  `AttemptTimesOut`, because the database clock advances. None is assumed of
  workers, hosts or the journal.
* `schedules`: weak fairness of each schedule's
  `Dispatch` by some replica, because the driver's sweep visits every due schedule on
  each lap and the run has replicas of the interpretation that prepared it; a fleet
  without one refuses the schedule until one returns, which is not modelled there.
* `metering`: the producer's timer fires again and again and the forwarder polls after
  every cycle. Failures are bounded, that is, they come to an end.
* `journal`: the system goes on working (`Worked`: the driver publishes and redelivers,
  an execution reports within its hard budget or is refused, a page of the propagation
  queue is delivered), in whatever order, and the clock runs. Nobody owes the run a
  renewal, a signal, a command or the end of a child.
* `dispatch`: a request that arrived is polled, the call of the worker goes on where a
  deadline bounds it, and time passes. `write_all` (`proxy.rs:326`, `:334`) and the
  buffering of a chunked body (`proxy.rs:431`, `router/dispatch.rs:1336`) have no
  deadline, so nothing is assumed of them where a worker may stall, and
  `EveryRequestAnswered` excepts the one request it stalls on: a retry behind it is
  answered all the same.
* `pool`: a woken task is polled, awaited input and output completes and borrowers give
  back. The poll of a woken caller is strongly fair: the housekeeper may take the slot
  it was woken for, but runs once an interval and not before every poll.
* `migrate`: statements end one way or the other, callers take their sessions back, the
  whole set is deployed again, and a refused recovery is repaired by hand between two
  deploys (strong fairness of `ClearInflight`, since deploys go on meanwhile).

### Where code and documents disagree

Three disagreements have a run and a finding:

* `metering_transient`. A transient provider failure ends a cycle of the forwarder with
  its batch already polled; the next cycle reads on and its cumulative commit passes over
  records that were neither billed nor quarantined. `UsageBilled` and
  `OnlyDroppedPassedOver` say what holds all the same: nothing else is passed over.
* `journal_signal_lost`. An acceptance that commits what it resolved and then finds no
  executor, or a worker that dies, leaves a consumed signal; the next delivery finds
  nothing newly resolved and goes back to wait for the unfinished child.
  `LoneSignalWakes` is what holds: beside nothing but a clock, the signal wakes the run.
* `journal_cancel`. `docs/reference/workflows.md:625` and `:908` say that a cancel aborts a
  run without its compensators. `frontier.rs:567` turns a run that owes some to a rollback
  towards `cancelled`. `RollbackDischarged` says what the code does, and holds of cancelled
  runs as of failed ones; `CancelAborts` says what the document does.

Others were met while modelling. The properties below are stated with the condition
under which they hold, or hold on instances without the shape in question:

| Code | What it does | What is said of it |
| --- | --- | --- |
| `queue.rs:368` | `submit` does not touch the responsibility | `recovery.rs:102` lists a worker's publication among an epoch's activities; the claim of the job counts, and `DutiesCoverIntents` holds all the same |
| `outbox.rs:852` | a producer that counted nothing new skips its cycle, and a backlog waits with it | `outbox.rs:4`, `:821`; `UsageBilled` is about Control's producer, which publishes on every cycle |
| `outbox.rs:614` | a publish that is given up and lands later overtakes later events | `redpanda.rs:460` |
| `frontier.rs:117`, `:230` | a wait that ends between two dispatches of a frontier resets its strikes, and a cancellation is answered before they are looked at, so the manager's ceiling may be spent first | `workflow_policy.rs:141`, `frontier.rs:218`; `VerdictReachable` excludes both |
| `control.rs:254` | a pause or resume accepted while a cancel is pending is written over it, and the run goes on | `docs/reference/workflows.md:622`; `CancelEnds` is about the last request |
| `idempotency.rs:500` | the entry is read before the lock is taken and not again under it, so a handler may run again and replace the stored outcome | `docs/reference/rpc.md:434` |
| `idempotency.rs:500` | a dispatch may outlive its lock, which a second request then takes | `idempotency.rs:496`; `OneInFlight` is about holds shorter than the lock |
| `router/dispatch.rs:1448` | a 5xx of the worker is never handed to the store, so a retry executes again | the test `error_response_is_replayed` (`idempotency.rs:1004`) stores one through `capture_response` alone and has it replayed; `OwnOutcomesReplayed` is about the whole dispatch |
| `router/dispatch.rs:1340` | a body cut short is taken for whole, stored and replayed | `proxy.rs:396`; `OwnOutcomesReplayed` says whose answer is replayed, not that it is whole |
| `idempotency.rs:256` | a request behind an original that stored nothing waits and is told that one is in flight | `router/dispatch.rs:1293` |
| `proxy.rs:342` | a request is sent again when a pooled connection closed without a byte, though the handler may have run | `proxy.rs:1422` |
| `zeroship-migrate-backend/src/executor.rs:1405` | a dependent with a lower version than a pending squash of its dependency runs first | `squash.rs:20` |
| `executor.rs:1670` | rolling back a squash recorded over an existing schema leaves its versions applied | `journal_sql.rs:1439` |
| `executor.rs:487` | a squash joins over a version that half ran | `executor.rs:657` |
| `executor.rs:995` | a contract whose expand was built by a squash is refused | `docs/architecture/zeroship-migrate-engine.md:1414` |
| `executor.rs:1690` | a forced rollback tears down a squash under a dependent it skipped | `executor.rs:1668` |
| `zeroship-migrate-backend/src/executor.rs:1552` | a squash counts as covering its versions before its precondition is evaluated; when it is then skipped, they neither run nor are reported | `squash.rs:17` |
| `journal_sql.rs:1450` | supersession is one edge deep: once a squash of a squash is recorded, what only the inner one superseded is pending again | `journal_sql.rs:1436`: never run again |
| `executor.rs:1099` | a two-phase squash that half ran is not looked at when a set without it is deployed, and the versions it supersedes run over its work | `executor.rs:1073` |
| `squash.rs:233` | a squash is recorded without a look at what it depends on | `executor.rs:646` |
| `executor.rs:670` | a version with an armed marker runs although what it depends on was rolled back meanwhile and is now skipped | `executor.rs:646`: it "cannot run this batch" |
| `session.rs:953` | an edited repeatable whose existence guard still matches is recorded under its new checksum without being run | `executor.rs:757`, the checksum as oracle of a re-run |
| `executor.rs:745` | a repeatable runs although a repeatable it depends on was passed over by its precondition | `executor.rs:646` |

Each condition of `Orderly` excludes one of the rows about squashes, markers and repeatables,
and each is needed: TLC finds a property of `migrate` violated on a project of three or four
versions that breaks this condition and no other.
`SchemaAgrees`, `DependenciesStand` and `GreenDeploys` are checked and proved for orderly
projects; `SessionsHandedBackClean` is proved for all. Squashes reach the executor through
its native interface only: the lowering of the IR refuses `supersedes` and `depends_on`
(`render/lower.rs:8859`).

## 4. Proofs

`JobQueueProofs` proves, for every set of jobs, workers, runs and deployments and
every option the queue accepts (`JobQueueAssumption`, `OptionsAssumption`):
`TypeCorrect`, `Exclusive`, `Receipts`, `Budget`, `UniqueOrders`, `HoldsCover`,
`SettledStays`, `Rotation` (`RoundRobin`) and `Barrier`
(`BarrierFollowsDeliveries`), and from these `Agreement` (`RowsAgree`) and `Settlements`
(`SettledStands`). The inductive invariant `QueueInv` adds to these what
they need: a lease ends within one lease of now and within its attempt
(`LeaseInv`), so a renewal never shortens it; an attempt still to be counted has
room in the budget (`BudgetInv`); a believed grant is the row's latest delivery,
with a deadline no later than the row's (`BeliefInv`). `Barrier` has an invariant
of its own, `BarrierInv`: only management jobs have revisions. So has `Admission`
(`ClaimsInOrder`: the running cap, the order of commands, the rotation), because it
counts rows: `AdmissionInv` says that the live creator deliveries are finitely many and
that a run's pending commands are as `Dense` describes, one for each revision between
the last settled and the last accepted one. That density is why settling the lowest
pending revision is settling the next.

`DeploymentProofs` is about two specifications that share no variable, the retention of a
deployment and the calendar of its schedules. Of `DeploymentRetention` it proves
`RetentionTypeCorrect`, `HoldersAgree`, `ActivationsKeepCode`, `DutyTruthful`, together
`HoldsHonouredAlways`, and `Implements`
(the refinement of `CodeCustody`). Its invariant has four parts, each preserved separately:

* `HoldsInv`: the ledger is level with the intent or, while acquiring, one
  generation behind; no message is ahead of its holder; a release of the current
  generation exists only once its holder is past using it; a reply that could
  still be confirmed is still what the ledger says.
* `CoverInv`: unsettled jobs imply the queue's hold; runs, the active mark or an
  available registration imply the journal's.
* `ReclaimInv`: a deployment that is not available has no holder in the ledger
  and no pending activation.
* `DutyInv`: a duty past "pending" pins the queue's hold as released, so nothing
  can make the journal acquire; a completed verdict of the current job implies
  the journal's hold is gone.

The refinement follows: dependents imply a hold, a hold implies a ledger row, and
a ledger row implies that the code is there.

`ScopeRetirementProofs` proves `TypeCorrect`, `IntentsCovered`, `RetiredFenced`,
`EpochsIssued`, `ScopeReads`, `MaintenanceUnique` and `EpochsAdvance`, together `Consistent`
(`ScopeConsistent`), for every set
of jobs and hosts, every assignment of operations to jobs and every bound
(`RetirementAssumption`). None of the safety properties is inductive. The argument
is about when evidence may be trusted, and `RetirementInv` states it:

* `AttemptInv`: no delivery that was live when an attempt began is live during it,
  so whoever can write the journal was claimed above the watermark.
* `EvidenceInv`: until such a claim, an attempt's drained evidence stays true: the
  journal owes nothing, no producer's transaction is open, every epoch issued so
  far is fenced.
* `RestInv`: the same of a retired scope, in which no producer's lease is live.
* `JobEpochs`, `OrderInv`, `FreshJobs`, `IntentKinds`, `AbsentInv`: what the
  manager's rows and the journal's agree on.
* `DutyInv`: an unsettled duty job is the one its duty names, which makes
  `pending_maintenance` see it.

The steps are proved through what they do to the rows (`JobsMove`) and to the
responsibility (`ScopeKept`, `ScopeOpens`); dispatch, a started attempt, a
retirement, an abandonment and the journal's transactions have proofs of their own.

Of `Scheduling`, `DeploymentProofs` proves `TypeCorrect`, `OncePerInstant` (`InstantsOnce`),
`HighestRevisionDecides` (`LatestCommandDecides`), `CalendarReadsBack`
(`CalendarReads`) and `OnlyDeclaredInstants` (`InstantsDeclared`), the last three with the
types as `Consistent` (`CalendarConsistent`), and `PagesCompose` (`CatchUpComposes`), for
every set of
deployments, timings, interpretations and replicas, from the options' ranges
(`SchedulingAssumption`), well-formed declarations (`DefinitionAssumption`) and the
contract of the cron search: a first instant after every time up to
the bound of the clock (`CalendarAssumption`). `SchedulingInv` adds:

* `FrontierInv`: a live row belongs to the retained selection and was installed and
  observed no later than now.
* `AheadInv`: whatever a schedule has published lies before its frontier if it is
  live, and never after now. This is why a replacement, which searches from now,
  cannot publish an instant again, whatever timing it brings.
* `FiresInv`: a live frontier is itself an instant of its timing under the prepared
  calendar. Dispatch publishes the frontier without asking again, so declared
  instants need this.

The arithmetic is in three lemmas: `NextAfterIsLeast` (the interval formula and the
contract agree on what a next instant is), `WalkFacts` and `DispatchPages` (a page is
a nonempty prefix of what is due, the cursor is after all of it and, when the
observation stays open, inside it with allowance left).

`PagesCompose` is about observations, which take several pages. `CatchUpInv` relates what
an observation has published to what it had to walk through (`Composed`): while it is
open that is exactly the part of the walk behind the frontier, and together with the
allowance left it makes the whole allowance; once it is closed, it is the first instants
of the walk, as many as allowance and walk both have. `FirstPage` and `NextPage` are the
two steps of the induction.

`RunJournalProofs` proves `FrontiersHandedOver` (`FrontierInHand`), `RollbacksDischarged`
(`RollbackDischarged`), `NoSignalLost` (`SignalsConserved`), `JournalGivesUpFirst`
(`VerdictReachable`) and `HistoryIsKept` (`HistoryKept`) for every set of apps with
admissible policies (`AppsAssumption`; `PolicyValid` is the code's validation) and any
budget of faults, requests and signals. The parts of its invariant `IInv`:

* `StepsInv`, `RowInv`: how a run's row and its steps go together. A run that ended has
  no clock, no task and, if it failed or was cancelled, no compensator left; a run that
  has a rollback target is rolling back or paused and still owes one.
* `AheadInv`: a frontier the run has not come to has no receipt, no intent, no task and
  no row in the queue. This lets a restart or an advance begin on clean ground.
* `JobsInv`: the current frontier of a live run is undecided, and published or about to
  be if it is due; the queue forgets a job only after the journal decided it.
* `TasksInv`: of the tasks of the current frontier all but the one the run holds were
  reclaimed, and a task that committed decided its job.
* `CountInv`, `StrikesInv`: what the manager counts is at most the tasks of a frontier,
  and these are within the journal's strikes while the journal stands still. Neither
  side reads the other's counter, so the comparison goes through the tasks.

The invariant is proved in two halves, `RunPart` about the run and its steps and
`JobPart` about tasks, receipts, intents and queue. A step either leaves the run at its
frontier (`Steady`) or moves it to a new one (`Moving`), and each class has one proof
of `JobPart`; the branches of `frontier::prepare` are proved once, in lemmas about
`Prepare`, and used by every acceptance.

`MeteringProofs` proves `PipelineInvariant`, from it `UsageIsConserved`
(`UsageConserved`) and `BillsAtMostOnce`, the refinement of `UsageBilling`, for every
finite set of units, size of buffer and batch, foreign traffic and number of failures
(`OutboxAssumption`, `MeteringAssumption`). What the checked properties lack to be
inductive: a row that does not decode any more is on no way to the broker
(`PoisonInv`), a publish that was given up belongs to a row or has landed (`PublishInv`),
what is lost is nowhere (`LostInv`), and behind the forwarder's position everything is
settled or dropped but for the batch in hand (`PositionInv`). The producer's half and
the forwarder's are preserved separately: they share only the partition, which grows.

`IdempotentDispatchProofs` proves `LocksAgree` (`LocksMatchHolders`),
`ReplaysOwnOutcomes` (`OwnOutcomesReplayed`) and `CapHolds` (`LiveKeysCapped`) for every
set of requests, callers, keys and inputs and all limits (`DispatchAssumption`). The
invariant adds that an entry is a definitive outcome of a request of its own key
(`EntriesInv`), that the eviction queue is within the cap and knows every live key
(`QueueInv`), what a request in each place has been through (`RequestsInv`), and, where
dispatches are shorter than locks, that the lock of a request in flight has at least as
much time left as the request (`HoldInv`), which is what `OneInFlight` rests on. That a
stored response is the one its own request is given (`GivenInv`) needs the request to be
past its capture or dropped.

`ConnectionPoolProofs` proves `BooksAgree` (`PoolConsistent`), `NoLostWakeUp`
(`HeadAwake`), `CleanOnOffer` (`SessionsComeClean`), `InOrder` (`NoOvertaking`) and
`Drains` (`ClosedOnlyDrains`) for pools of every size and every finite set of callers
(`PoolAssumption`). The invariant says where sessions may be and in which condition
(`Shape`), that queued and served callers partition the parked ones (`QueueInv`), that a
closed pool keeps nothing to offer (`ClosedInv`), and that the counters add up over the
shelf, the hand-offs, the callers and the housekeeper's reservation (`Accounts`). The
lemmas on `Kept` (`RankFacts`, `RanksTaken`, `KeptFacts`) say that leaving out positions
keeps the order and loses nobody who was not left out.

`MigrationExecutorProofs` proves `SessionsClean` (`SessionsHandedBackClean`) and
`LockExcludes` (one operation at a time between the grant of the lock and its release) for
every project, and `JournalTellsTheSchema` (`SchemaAgrees`), `DependenciesHold`
(`DependenciesStand`) and `GreenIsDone` (`GreenDeploys`) for every project that is
`Orderly`, from `CatalogueAssumption`: any finite set of versions with any dependencies (a
cycle is refused by the plan), any sessions and any budget of edits, rollbacks and failures.
The argument goes in four layers:

* The order of a plan. `TopoOrder` is a recursive function over sets of versions, and the
  library's induction theorems cannot be instantiated here; `TopoFacts` (each version once,
  after what it depends on) is shown instead on a set of least size for which the function
  would not exist or not order, which well-foundedness of the naturals provides.
* `Typed` and `BracketInv`: what a session in each place of the lock bracket holds, carries
  and has still to report. All that `SessionsClean` and `LockExcludes` need is here.
* `RecordsInv`: journal against schema. Edges are those a squash declared and complete if it
  counts (`JournalInv`); what is applied came after its dependencies (`OrderInv`); a marker
  is a two-phase version's that is not applied (`MarkerInv`); an object is built by the body
  the journal names, absent if neither journal nor marker knows it, and the marker's own work
  if it half ran (`SchemaInv`).
* `DutyInv`: what the operation with the lock owes. Of a deploy's versions (`VersionedDuty`),
  those to run are not there yet, have their dependencies met, skipped or before them, and
  every file it was given has landed or is still to run; a two-phase version past its
  recovery has the marker its next statement assumes (`ArmedDuty`); `RepeatableDuty` and
  `RollbackDuty` are the same of the other two phases. Whoever is without the lock owes
  nothing, which is why a step of one session cannot disturb the duty of another.

`GreenIsDone` shows why the duty is needed: that everything landed is known at the end only
because each step either landed its version or recorded the skip, and no other session
could take it back in between.

Model-checked only: liveness (`ReleasesSettle`, `AcquisitionsSettle`, `ClosingEnds`,
`DueServed`, `UsageBilled`, `RunComesToRest`, `CancelEnds`, `LoneSignalWakes`,
`EveryRequestAnswered`, `EverythingLands`, and of `ServedInOrder` and `CloseDrains` the
parts `CallersServed`, `CloseEnds`, `ClosedPoolEmpties`), which is outside what the
prover handles. Every invariant and every action property of the passing runs is proved.

## 5. Plan

1. The journal's acceptance of cron occurrences (`service/cron.rs`: deduplication,
   the overlap policy, readiness), composed with `Scheduling`.
2. The cron search of `calendar.rs` with its gaps and overlaps of local time, as an
   operator checked against the contract `Scheduling` uses.
3. Zone claims: laps over apps, the deadline split, the give-back of a late claim.
4. Capacity: the reconciliation of fleet plans.

### Not modelled

* Four hazards of the manager have no property. A management command that exhausts its
  budget keeps its run behind the barrier until an operator abandons it (`queue.rs:407`):
  nothing in the code lifts it, so there is nothing to guarantee. A forward jump of the
  database clock ends leases a worker still believes in (`queue.rs:1402`): a jump is a
  run of ticks, and such a worker is the stale grant of `ExclusiveExecution`. An
  acquisition of a reclaimed deployment is refused on every retry and its intent stays
  (`deployments/mod.rs:200`): nothing depends on it, and `AcquisitionsSettle` asks that an
  acquisition end in a hold unless the deployment is not available. A Reconcile published before an app was abandoned may publish an intent
  afterwards (`recovery.rs:642`): the code promises only to reject the rows it finds.
* Journal: payloads, topics and the age and timeout of signals, cascades of commands to
  children, the successor of a continued run.
* Dispatch: the loss of the in-memory store with its gateway, header filtering, and the
  `x-zs-idempotent-stored` header, which is stamped also when the capture failed.
* Pool: metrics, configuration, panics of hooks, wakers that reenter the pool, the order
  of the shelf after `swap_remove`.
* Migrations: approval, the SQL guard, adoption of a baseline, structured inverses,
  pending rename contracts, the MySQL and SQLite backends, and the compilation and
  rendering of schemas, by far the largest part of those crates: it is translation of
  data, without state of its own.
* V8 embedding, request routing, protocol clients and the TypeScript packages, which are
  I/O, code generation or third-party. These are most of the repository's lines; what
  the map covers is a small part of them by count.
