------------------------------ MODULE JobQueue ------------------------------
(***************************************************************************)
(* The delivery queue of one app (zeroship-workflow-manager, queue.rs, the *)
(* candidate query of scheduling.rs and the command ordering of            *)
(* management.rs).                                                         *)
(*                                                                         *)
(* Every operation of the queue is one database transaction that first     *)
(* takes the app's scope lock (lock_scope), so each is one atomic action   *)
(* here; apps share no state and one is enough.  What is NOT atomic is     *)
(* everything around a transaction: a worker holds a delivery while other  *)
(* workers claim, a lease lapses, a reply is lost after its commit, a call *)
(* is repeated late.  A call names a worker, a job and an attempt, and any *)
(* worker may make any call at any time: the model lets it name every      *)
(* attempt the job ever had.                                               *)
(*                                                                         *)
(* A call the code refuses changes nothing and is not an action.           *)
(*                                                                         *)
(* The calls into recovery.rs that a claim and a settlement make in the    *)
(* same transaction change only the recovery scope.                        *)
(***************************************************************************)
EXTENDS Integers, FiniteSets

CONSTANTS
    Jobs,               \* job identities, of every operation kind
    Workers,            \* enrolled hosts that claim
    Runs,
    Deployments,
    NoWorker, NoRun, NoDeployment, NoJob,
    OperationKind,      \* [Jobs -> Kinds]
    RunOf,              \* [Jobs -> Runs \cup {NoRun}]
    DeploymentOf,       \* [Jobs -> Deployments \cup {NoDeployment}]
    ActivationOf,       \* a cron occurrence's activation job, or NoJob
    BlocksExecution,    \* [Jobs -> BOOLEAN], for management commands
    AvailableAt,        \* [Jobs -> Nat]
    Claimant,           \* [Workers -> {"worker", "maintenance"}]
    Lease, MaxAttempt,  \* Options::lease, Options::max_attempt
    DeferBackoff, DeferBackoffMax,
    MaxDeliveryAttempts,    \* the largest ceiling policy gives
    MaxRunning,             \* the largest concurrency cap policy gives
    MaxPendingManagement,
    Instants, Pauses,   \* the instants a host defers to and the lengths it defers by
    MaxTime,            \* bound: the clock
    AttemptBound        \* bound: where attempt numbering is exhausted

Kinds == {"activate", "advance", "cron", "management", "fanout", "propagate",
          "release_hold", "close", "reconcile", "collect"}

Outcomes == {"completed", "waiting", "rejected", "drained", "undrained"}

NoOutcome == "none"

NoTime == -1     \* SQL NULL in a column of instants

ASSUME JobQueueAssumption ==
    /\ NoWorker \notin Workers /\ NoRun \notin Runs
    /\ NoDeployment \notin Deployments /\ NoJob \notin Jobs
    /\ OperationKind \in [Jobs -> Kinds]
    /\ RunOf \in [Jobs -> Runs \cup {NoRun}]
    /\ \A j \in Jobs : OperationKind[j] = "management" => RunOf[j] \in Runs
    /\ DeploymentOf \in [Jobs -> Deployments \cup {NoDeployment}]
    /\ ActivationOf \in [Jobs -> Jobs \cup {NoJob}]
    /\ BlocksExecution \in [Jobs -> BOOLEAN]
    /\ AvailableAt \in [Jobs -> Nat]
    /\ Claimant \in [Workers -> {"worker", "maintenance"}]
    /\ MaxPendingManagement \in Nat /\ Instants \subseteq Nat /\ Pauses \subseteq Nat
    /\ MaxTime \in Nat /\ AttemptBound \in Nat
    /\ MaxDeliveryAttempts \in Nat /\ MaxRunning \in Nat

\* What Options::validate accepts.
ASSUME OptionsAssumption ==
    /\ Lease \in Nat \ {0} /\ MaxAttempt \in Nat /\ MaxAttempt >= Lease
    /\ DeferBackoff \in Nat \ {0} /\ DeferBackoffMax \in Nat
    /\ DeferBackoffMax >= DeferBackoff

VARIABLES
    now,              \* the database clock
    jobs,             \* the jobs table, a row per identity
    dispatch_cursor,  \* queue_scopes.dispatch_cursor
    commands,         \* the management table, a row per management job
    orders,           \* management_scopes, a row per run
    enrolled,         \* workers whose enrollment authorize() finds
    held,             \* deployments whose hold intent is "held"
    executing,        \* the deliveries workers believe they hold
    receipts          \* the settlement receipts workers received

vars == <<now, jobs, dispatch_cursor, commands, orders, enrolled, held,
          executing, receipts>>

-----------------------------------------------------------------------------
(* Rows.                                                                   *)

Digests == [worker : Workers \cup {NoWorker}, attempt : Nat,
            outcome : Outcomes \cup {NoOutcome}]

NoDigest == [worker |-> NoWorker, attempt |-> 0, outcome |-> NoOutcome]

\* models::Job.  "absent" is a row not inserted yet.
Rows == [state : {"absent", "ready", "leased", "settled"},
         attempt : Nat, worker_id : Workers \cup {NoWorker},
         lease_deadline : Int, leased_at : Int, deferred_until : Int,
         deferrals : Nat, execution_attempts : Nat, executed_attempt : Nat,
         dispatch_order : Nat, outcome : Outcomes \cup {NoOutcome},
         settlement_digest : Digests]

AbsentRow == [state |-> "absent", attempt |-> 0, worker_id |-> NoWorker,
              lease_deadline |-> NoTime, leased_at |-> NoTime,
              deferred_until |-> NoTime, deferrals |-> 0,
              execution_attempts |-> 0, executed_attempt |-> 0,
              dispatch_order |-> 0, outcome |-> NoOutcome,
              settlement_digest |-> NoDigest]

(* The patches that the operations write, as functions of a row.           *)

\* insert's row.
Inserted(row, order) == [row EXCEPT !.state = "ready", !.dispatch_order = order]

\* claim_within's patch.
Leased(row, attempt, w, deadline, at, order) ==
    [row EXCEPT !.state = "leased", !.attempt = attempt, !.worker_id = w,
                !.lease_deadline = deadline, !.leased_at = at,
                !.deferred_until = NoTime, !.dispatch_order = order]

\* counted's patch for an attempt not yet counted.
Executed(row, a, n) ==
    [row EXCEPT !.deferrals = 0, !.executed_attempt = a, !.execution_attempts = n]

\* Fault: every renewal counts.
CountedEachTime(row, a) == Executed(row, a, row.execution_attempts + 1)

\* counted: an attempt counts once toward the delivery budget.
Counted(row, a) ==
    IF row.executed_attempt = a THEN [row EXCEPT !.deferrals = 0]
                                ELSE Executed(row, a, row.execution_attempts + 1)

\* renewal's deadline.
Renewed(row, deadline) == [row EXCEPT !.lease_deadline = deadline]

\* settle_authorized's patch.  The row keeps its worker and its attempt.
Settled(row, o, digest) ==
    [row EXCEPT !.state = "settled", !.outcome = o, !.settlement_digest = digest]

\* Fault: a return that also takes one back-off off the count.
ReturnedForgiving(row) == [row EXCEPT !.state = "ready", !.worker_id = NoWorker,
                                      !.lease_deadline = NoTime, !.leased_at = NoTime,
                                      !.deferred_until = NoTime, !.deferrals = @ - 1]

\* A give-back clears the holder.
Returned(row) == [row EXCEPT !.state = "ready", !.worker_id = NoWorker,
                             !.lease_deadline = NoTime, !.leased_at = NoTime,
                             !.deferred_until = NoTime]

\* deferral's patch.
Deferred(row, until, deferrals) ==
    [row EXCEPT !.deferred_until = until, !.deferrals = deferrals]

-----------------------------------------------------------------------------
Init ==
    /\ now = 0
    /\ jobs = [j \in Jobs |-> AbsentRow]
    /\ dispatch_cursor = 0
    /\ commands = [j \in Jobs |-> [revision |-> 0, outcome |-> NoOutcome]]
    /\ orders = [r \in Runs |-> [accepted |-> 0, settled |-> 0]]
    /\ enrolled = Workers
    /\ held = {}
    /\ executing = {}
    /\ receipts = {}

Unsettled(j) == jobs[j].state \in {"ready", "leased"}

\* Fault: live without its test of the state.
LiveByDeadlineAlone(row) == row.lease_deadline > now

\* live: a lease the clock has not passed.
Live(row) == row.state = "leased" /\ row.lease_deadline > now

\* Fault: matches_delivery without the attempt.
MatchesWorkerAlone(j, w, a) == jobs[j].worker_id = w

\* matches_delivery: the delivery the latest claim of the job made.
MatchesDelivery(j, w, a) == jobs[j].worker_id = w /\ jobs[j].attempt = a

\* deadline: one lease from now, never past the attempt's own end.
Deadline(leased_at) ==
    IF now + Lease < leased_at + MaxAttempt THEN now + Lease
                                            ELSE leased_at + MaxAttempt

\* retention::require_held.
RequireHeld(j) ==
    DeploymentOf[j] # NoDeployment => DeploymentOf[j] \in held

\* valid_outcome.  The outcomes of a management command and of a closure are
\* families of their own; a management result is abstracted to two answers.
ValidOutcome(j, o) ==
    CASE OperationKind[j] = "activate" -> o = "completed"
      [] OperationKind[j] = "advance" -> o \in {"completed", "waiting", "rejected"}
      [] OperationKind[j] \in {"cron", "management"} -> o \in {"completed", "rejected"}
      [] OperationKind[j] = "close" -> o \in {"drained", "undrained"}
      [] OTHER -> o \in {"completed", "waiting"}

-----------------------------------------------------------------------------
(* Management commands: their order and the integrity checks on it.        *)

CommandPending(c) == commands[c].revision > 0 /\ commands[c].outcome = NoOutcome

PendingOf(r) == {c \in Jobs : RunOf[c] = r /\ CommandPending(c)}

\* management::validation::validate_pending: every pending command has an
\* unsettled job, and every unsettled command job is a pending command; the
\* pending revisions of a run are distinct, lie above its settled revision
\* and number accepted - settled.
ValidatePending ==
    /\ \A c \in Jobs : OperationKind[c] = "management" =>
          (CommandPending(c) <=> Unsettled(c))
    /\ \A r \in Runs :
          /\ \A c \in PendingOf(r) :
                commands[c].revision \in (orders[r].settled + 1)..orders[r].accepted
          /\ \A c, d \in PendingOf(r) :
                commands[c].revision = commands[d].revision => c = d
          /\ Cardinality(PendingOf(r)) = orders[r].accepted - orders[r].settled

\* management::validate_job with next: the run's next command to settle.
NextCommand(j) ==
    OperationKind[j] = "management" =>
        /\ CommandPending(j)
        /\ commands[j].revision = orders[RunOf[j]].settled + 1

\* Fault: management_eligibility without the barrier join.
EligibleWithoutBarrier(j) ==
    OperationKind[j] = "management" =>
        /\ CommandPending(j)
        /\ \A c \in PendingOf(RunOf[j]) : commands[c].revision >= commands[j].revision

\* scheduling::management_eligibility: a command waits for the earlier
\* commands of its run, an advance for every blocking command of its run.
ManagementEligible(j) ==
    /\ OperationKind[j] = "management" =>
          /\ CommandPending(j)
          /\ \A c \in PendingOf(RunOf[j]) : commands[c].revision >= commands[j].revision
    /\ OperationKind[j] = "advance" =>
          \A c \in PendingOf(RunOf[j]) : ~BlocksExecution[c]

-----------------------------------------------------------------------------
(* The candidate query.                                                    *)

\* Claimant::admits: creator code for workers, every sweep for maintenance.
Admits(claimant, kind) == (claimant = "worker") <=> (kind = "advance")

\* scheduling::claimable_rows.
ClaimableRow(j, claimant) ==
    /\ \/ jobs[j].state = "ready" /\ AvailableAt[j] <= now
       \/ jobs[j].state = "leased" /\ jobs[j].lease_deadline <= now
    /\ Admits(claimant, OperationKind[j])
    /\ jobs[j].deferred_until <= now

\* scheduling::candidates: a cron occurrence also waits for its activation.
Candidates(claimant, ceiling) ==
    {j \in Jobs :
        /\ ClaimableRow(j, claimant)
        /\ jobs[j].execution_attempts < ceiling
        /\ ActivationOf[j] # NoJob =>
              /\ jobs[ActivationOf[j]].state = "settled"
              /\ jobs[ActivationOf[j]].outcome = "completed"
        /\ ManagementEligible(j)}

\* Fault: candidate without its ordering.
AnyCandidate(j, claimant, ceiling) == j \in Candidates(claimant, ceiling)

\* scheduling::candidate: the lowest dispatch order.  Orders are unique
\* (DispatchOrdersUnique), so the query's tie-break on the id never decides.
Candidate(j, claimant, ceiling) ==
    /\ j \in Candidates(claimant, ceiling)
    /\ \A k \in Candidates(claimant, ceiling) :
          jobs[j].dispatch_order <= jobs[k].dispatch_order

\* scheduling::live_advance_count.
LiveAdvances == {j \in Jobs : OperationKind[j] = "advance" /\ Live(jobs[j])}

-----------------------------------------------------------------------------
(* Publication.                                                            *)

\* Fault: a dispatch order taken without advancing the cursor.
InsertKeepingCursor(j) ==
    /\ jobs[j].state = "absent"
    /\ RequireHeld(j)
    /\ jobs' = [jobs EXCEPT ![j] = Inserted(@, dispatch_cursor + 1)]
    /\ UNCHANGED dispatch_cursor

\* insert: an existing identity is left alone (a replay changes nothing), a
\* new one goes to the tail of the dispatch order.
Insert(j) ==
    /\ jobs[j].state = "absent"
    /\ RequireHeld(j)
    /\ jobs' = [jobs EXCEPT ![j] = Inserted(@, dispatch_cursor + 1)]
    /\ dispatch_cursor' = dispatch_cursor + 1

\* submit, and the platform lanes that insert their own jobs.  When the hold
\* is missing submit leaves its transaction and acquires it (EnsureDeployment)
\* before it tries again.
Submit(j) ==
    /\ OperationKind[j] # "management"
    /\ Insert(j)
    /\ UNCHANGED <<now, commands, orders, enrolled, held, executing, receipts>>

\* Coordinator::manage, accept and insert_command: the command takes the next
\* revision of its run.  A repeated request returns the stored receipt.
Manage(c) ==
    /\ OperationKind[c] = "management"
    /\ commands[c].revision = 0
    /\ ValidatePending
    /\ Cardinality({d \in Jobs : CommandPending(d)}) < MaxPendingManagement
    /\ Insert(c)
    /\ LET r == RunOf[c]
           revision == orders[r].accepted + 1
       IN  /\ commands' = [commands EXCEPT ![c] = [@ EXCEPT !.revision = revision]]
           /\ orders' = [orders EXCEPT ![r] = [@ EXCEPT !.accepted = revision]]
    /\ UNCHANGED <<now, enrolled, held, executing, receipts>>

-----------------------------------------------------------------------------
(* Deliveries.                                                             *)

Held(j, w, a) == {e \in executing : e.job = j /\ e.worker = w /\ e.attempt = a}

\* claim_within.  A worker's zone claim passes its concurrency cap, which is
\* counted under the lock; the maintenance lane has none.  The policy that
\* gives cap and ceiling may change between claims.  When the reply is lost
\* (delivered is FALSE) the row stays leased and nobody executes it.
ClaimWithin(w, j, ceiling, cap, delivered) ==
    /\ w \in enrolled
    /\ ValidatePending
    /\ Claimant[w] = "worker" => Cardinality(LiveAdvances) < cap
    /\ Candidate(j, Claimant[w], ceiling)
    /\ RequireHeld(j)
    /\ NextCommand(j)
    /\ jobs[j].attempt < AttemptBound
    /\ LET attempt == jobs[j].attempt + 1
       IN  /\ jobs' = [jobs EXCEPT ![j] =
                 Leased(@, attempt, w, Deadline(now), now, dispatch_cursor + 1)]
           /\ executing' = IF delivered
                 THEN executing \cup {[job |-> j, worker |-> w, attempt |-> attempt,
                                       deadline |-> Deadline(now)]}
                 ELSE executing
    /\ dispatch_cursor' = dispatch_cursor + 1
    /\ UNCHANGED <<now, commands, orders, enrolled, held, receipts>>

\* Fault: a renewal of a lapsed lease.
HeartbeatAfterLapse(w, j, a, delivered) ==
    /\ w \in enrolled
    /\ MatchesDelivery(j, w, a)
    /\ jobs[j].state = "leased"
    /\ Deadline(jobs[j].leased_at) > now
    /\ jobs' = [jobs EXCEPT ![j] =
          Renewed(Counted(@, a), Deadline(jobs[j].leased_at))]
    /\ UNCHANGED <<now, dispatch_cursor, commands, orders, enrolled, held, executing,
                   receipts>>

\* heartbeat_authorized: a live lease is renewed, within its attempt.
Heartbeat(w, j, a, delivered) ==
    /\ w \in enrolled
    /\ MatchesDelivery(j, w, a)
    /\ NextCommand(j)
    /\ RequireHeld(j)
    /\ Live(jobs[j])
    /\ LET deadline == Deadline(jobs[j].leased_at)
       IN  /\ deadline > now
           /\ jobs' = [jobs EXCEPT ![j] = Renewed(Counted(@, a), deadline)]
           /\ executing' = IF delivered
                 THEN (executing \ Held(j, w, a))
                        \cup {[job |-> j, worker |-> w, attempt |-> a, deadline |-> deadline]}
                 ELSE executing
    /\ UNCHANGED <<now, dispatch_cursor, commands, orders, enrolled, held, receipts>>

Receipt(j, w, a, o) == [job |-> j, worker |-> w, attempt |-> a, outcome |-> o]

\* settle_authorized, first time, with management::settle.
Settle(w, j, a, o, delivered) ==
    /\ ValidOutcome(j, o)
    /\ MatchesDelivery(j, w, a)
    /\ w \in enrolled
    /\ Live(jobs[j])
    /\ NextCommand(j)
    /\ RequireHeld(j)
    /\ jobs' = [jobs EXCEPT ![j] =
          Settled(@, o, [worker |-> w, attempt |-> a, outcome |-> o])]
    /\ IF OperationKind[j] = "management"
       THEN /\ commands' = [commands EXCEPT ![j] = [@ EXCEPT !.outcome = o]]
            /\ orders' = [orders EXCEPT ![RunOf[j]] =
                             [@ EXCEPT !.settled = commands[j].revision]]
       ELSE UNCHANGED <<commands, orders>>
    /\ executing' = executing \ Held(j, w, a)
    /\ receipts' = IF delivered THEN receipts \cup {Receipt(j, w, a, o)} ELSE receipts
    /\ UNCHANGED <<now, dispatch_cursor, enrolled, held>>

\* Fault: a replay answered without comparing the settlement.
SettleReplayUnchecked(w, j, a, o) ==
    /\ ValidOutcome(j, o)
    /\ MatchesDelivery(j, w, a)
    /\ jobs[j].state = "settled"
    /\ receipts' = receipts \cup {Receipt(j, w, a, o)}
    /\ UNCHANGED <<now, jobs, dispatch_cursor, commands, orders, enrolled, held,
                   executing>>

\* settle_authorized on a settled row: only the exact settlement is answered,
\* whatever the clock says by then.
SettleReplay(w, j, a, o) ==
    /\ ValidOutcome(j, o)
    /\ MatchesDelivery(j, w, a)
    /\ jobs[j].state = "settled"
    /\ jobs[j].settlement_digest = [worker |-> w, attempt |-> a, outcome |-> o]
    /\ jobs[j].outcome = o
    /\ w \in enrolled
    /\ receipts' = receipts \cup {Receipt(j, w, a, o)}
    /\ UNCHANGED <<now, jobs, dispatch_cursor, commands, orders, enrolled, held,
                   executing>>

-----------------------------------------------------------------------------
(* Give-backs.                                                             *)

GiveBacks == [kind : {"interrupted", "unsent", "backoff"}, at : {0}]
               \cup [kind : {"exact"}, at : Instants]
               \cup [kind : {"after"}, at : Pauses]

\* The back-off doubles with each consecutive one, up to its ceiling.  The
\* shift is capped at 62, out of reach of a ceiling below 2^62 milliseconds.
BackoffDelay(deferrals) ==
    LET delay == DeferBackoff * 2^deferrals
    IN  IF delay \in 0..DeferBackoffMax THEN delay ELSE DeferBackoffMax

\* deferral: an instant already past leaves the row claimable now.
Deferral(row, until, deferrals) ==
    Deferred(Returned(row), IF until > now THEN until ELSE NoTime, deferrals)

GivenBack(row, a, defer) ==
    CASE defer.kind = "interrupted" -> Returned(Counted(row, a))
      [] defer.kind = "unsent" -> Returned(row)
      [] defer.kind = "exact" -> Deferral(row, defer.at, row.deferrals)
      [] defer.kind = "after" -> Deferral(row, now + defer.at, row.deferrals)
      [] defer.kind = "backoff" ->
            Deferral(row, now + BackoffDelay(row.deferrals), row.deferrals + 1)

\* give_back_within: the holder stopped executing before it called.
GiveBack(w, j, a, defer) ==
    /\ w \in enrolled
    /\ MatchesDelivery(j, w, a)
    /\ Live(jobs[j])
    /\ jobs' = [jobs EXCEPT ![j] = GivenBack(@, a, defer)]
    /\ executing' = executing \ Held(j, w, a)
    /\ UNCHANGED <<now, dispatch_cursor, commands, orders, enrolled, held, receipts>>

-----------------------------------------------------------------------------
(* The rest of the system, as the queue sees it.                           *)

\* Fault: abandonment of every kind of job.
AbandonEveryKind ==
    /\ \E j \in Jobs : Unsettled(j)
    /\ jobs' = [j \in Jobs |->
          IF Unsettled(j) THEN Settled(jobs[j], "rejected", jobs[j].settlement_digest)
                          ELSE jobs[j]]
    /\ UNCHANGED <<now, dispatch_cursor, commands, orders, enrolled, held, executing,
                   receipts>>

\* recovery::abandon: the app was deleted, and its unsettled creator work is
\* rejected in place, under whoever holds it.  No digest is written, so no
\* settlement of those rows is ever replayed.
Abandon ==
    /\ \E j \in Jobs : OperationKind[j] = "advance" /\ Unsettled(j)
    /\ jobs' = [j \in Jobs |->
          IF OperationKind[j] = "advance" /\ Unsettled(j)
          THEN Settled(jobs[j], "rejected", jobs[j].settlement_digest)
          ELSE jobs[j]]
    /\ UNCHANGED <<now, dispatch_cursor, commands, orders, enrolled, held, executing,
                   receipts>>

\* retention::ensure_deployment_for, once the ledger answered.
EnsureDeployment(d) ==
    /\ held' = held \cup {d}
    /\ UNCHANGED <<now, jobs, dispatch_cursor, commands, orders, enrolled, executing,
                   receipts>>

\* Fault: only undelivered jobs keep a deployment in use.
UnusedByReadyJobs(d) ==
    \A j \in Jobs : DeploymentOf[j] = d => jobs[j].state # "ready"

\* retention::require_unused, for the jobs of the queue.
Unused(d) == \A j \in Jobs : DeploymentOf[j] = d => ~Unsettled(j)

\* retention::release_deployment, up to its "releasing" commit.
ReleaseDeployment(d) ==
    /\ d \in held
    /\ Unused(d)
    /\ held' = held \ {d}
    /\ UNCHANGED <<now, jobs, dispatch_cursor, commands, orders, enrolled, executing,
                   receipts>>

\* Control withdraws a worker's enrollment: authorize() refuses it from now on.
Revoke(w) ==
    /\ enrolled' = enrolled \ {w}
    /\ UNCHANGED <<now, jobs, dispatch_cursor, commands, orders, held, executing,
                   receipts>>

\* The clock.  A grant carries the lease's remaining time, charged with every
\* wait since the clock was read (local_deadline, DeliveryGrant::cap), so a
\* holder stops no later than the queue's clock reaches the deadline.
Tick ==
    /\ now < MaxTime
    /\ now' = now + 1
    /\ executing' = {e \in executing : e.deadline > now + 1}
    /\ UNCHANGED <<jobs, dispatch_cursor, commands, orders, enrolled, held, receipts>>

Attempts(j) == 1..jobs[j].attempt

WorkerStep(w, j) ==
    \/ \E ceiling \in 1..MaxDeliveryAttempts, cap \in 1..MaxRunning,
          delivered \in BOOLEAN : ClaimWithin(w, j, ceiling, cap, delivered)
    \/ \E a \in Attempts(j), delivered \in BOOLEAN : Heartbeat(w, j, a, delivered)
    \/ \E a \in Attempts(j), o \in Outcomes, delivered \in BOOLEAN :
          Settle(w, j, a, o, delivered)
    \/ \E a \in Attempts(j), o \in Outcomes : SettleReplay(w, j, a, o)
    \/ \E a \in Attempts(j), defer \in GiveBacks : GiveBack(w, j, a, defer)

Next ==
    \/ \E j \in Jobs : Submit(j) \/ Manage(j)
    \/ \E w \in Workers, j \in Jobs : WorkerStep(w, j)
    \/ \E d \in Deployments : EnsureDeployment(d) \/ ReleaseDeployment(d)
    \/ \E w \in Workers : Revoke(w)
    \/ Abandon
    \/ Tick

Spec == Init /\ [][Next]_vars

-----------------------------------------------------------------------------
(* Properties.                                                             *)

Deliveries == [job : Jobs, worker : Workers, attempt : Nat, deadline : Int]

\* The tables hold what their columns admit.
TypeOK ==
    /\ now \in Nat
    /\ jobs \in [Jobs -> Rows]
    /\ dispatch_cursor \in Nat
    /\ commands \in [Jobs -> [revision : Nat, outcome : Outcomes \cup {NoOutcome}]]
    /\ orders \in [Runs -> [accepted : Nat, settled : Nat]]
    /\ enrolled \subseteq Workers
    /\ held \subseteq Deployments
    /\ executing \subseteq Deliveries
    /\ receipts \subseteq [job : Jobs, worker : Workers, attempt : Nat, outcome : Outcomes]

\* Two deliveries of one job are never executing at once: whoever still
\* believes its lease is the holder of the job's latest attempt, through
\* lapses, re-claims, renewals whose reply was lost and late give-backs
\* (claim_within, heartbeat_authorized, give_back_within, local_deadline).
ExclusiveExecution ==
    \A e, f \in executing : e.job = f.job => e.worker = f.worker /\ e.attempt = f.attempt

\* A settled row never changes again: no late heartbeat, give-back, second
\* settlement, re-claim or abandonment touches it (fence, live).
SettledForever ==
    [][\A j \in Jobs : jobs[j].state = "settled" => jobs'[j] = jobs[j]]_vars

\* A receipt stays true: whatever a worker was told of a settlement, first or
\* replayed, is what the row says now (settle_authorized).
ReceiptsHold ==
    \A r \in receipts :
        /\ jobs[r.job].state = "settled" /\ jobs[r.job].outcome = r.outcome
        /\ jobs[r.job].worker_id = r.worker /\ jobs[r.job].attempt = r.attempt

\* The executions a row has counted stay within the largest ceiling policy ever
\* gave, however its attempts are renewed, interrupted and lapsed; an attempt
\* that lapses before its first renewal, or is given back unsent, is not counted
\* (execution_attempts, counted).
DeliveryBudget ==
    \A j \in Jobs : jobs[j].execution_attempts <= MaxDeliveryAttempts

\* Never more live creator deliveries than policy's largest cap: a claim
\* counts under the lock, and nothing revives a lapsed lease beside it
\* (live_advance_count, heartbeat_authorized).
RunningCap == Cardinality(LiveAdvances) <= MaxRunning

\* The integrity checks of management.rs never fail on the queue's own data:
\* pending revisions are dense above the settled one, and a command out for
\* delivery is the next of its run (validate_pending, validate_job).
CommandsInOrder ==
    /\ ValidatePending
    /\ \A c \in Jobs : jobs[c].state = "leased" => NextCommand(c)

\* Every delivery of a run still out while a blocking command is pending was
\* dispatched before that command was accepted; dispatch orders are the
\* queue's logical clock (management_eligibility).
BarrierFollowsDeliveries ==
    \A j, c \in Jobs :
        (/\ OperationKind[j] = "advance" /\ jobs[j].state = "leased"
         /\ c \in PendingOf(RunOf[j]) /\ BlocksExecution[c])
        => jobs[j].dispatch_order < jobs[c].dispatch_order

\* Dispatch orders identify rows, at most the cursor (next_dispatch_order).
DispatchOrdersUnique ==
    \A j, k \in Jobs :
        jobs[j].state # "absent" =>
            /\ jobs[j].dispatch_order \in 1..dispatch_cursor
            /\ (jobs[k].state # "absent" /\ jobs[j].dispatch_order = jobs[k].dispatch_order)
                  => j = k

\* No starvation within an app: a claim that passes a waiting candidate k by
\* goes behind it, so it passes k at most once per turn (candidate,
\* next_dispatch_order).
RoundRobin ==
    [][\A w \in Workers, j, k \in Jobs :
          (/\ jobs'[j].attempt > jobs[j].attempt /\ jobs'[j].worker_id = w
           /\ k # j /\ k \in Candidates(Claimant[w], 1))
          => /\ jobs[j].dispatch_order < jobs[k].dispatch_order
             /\ jobs'[k].dispatch_order < jobs'[j].dispatch_order]_vars

\* Unsettled work always has the deployment it executes from: the hold is
\* acquired before publication and not released under it (require_held,
\* require_unused).
HoldsCoverWork == \A j \in Jobs : Unsettled(j) => RequireHeld(j)

-----------------------------------------------------------------------------
(* The invariants a run checks together.                                    *)

\* The rows of an app agree with each other, with the dispatch cursor and with
\* the holds: orders identify them, and unsettled work keeps its deployment
\* (next_dispatch_order, require_held, require_unused).
RowsAgree == TypeOK /\ DispatchOrdersUnique /\ HoldsCoverWork

\* A settlement stands: whatever calls arrive late or again, a settled row does
\* not change, and every receipt a worker was given is the outcome it keeps
\* (live, settle_authorized).
SettledStands == []ReceiptsHold /\ SettledForever

\* Claims are admitted in order: within the running cap, commands of a run by
\* revision, jobs of an app in rotation (candidates, management_eligibility).
ClaimsInOrder == [](RunningCap /\ CommandsInOrder) /\ RoundRobin
=============================================================================
