--------------------------- MODULE ScopeRetirement ---------------------------
(* How one app's recovery responsibility opens, closes, retires and reopens. *)
(*                                                                           *)
(* Three parties take part and share no transaction: the manager, which      *)
(* keeps the responsibility, its two periodic duties and the app's queue     *)
(* under one row lock (recovery.rs, recovery/duties.rs, queue.rs); the       *)
(* creator journal, which keeps the publication intents, the closed epoch    *)
(* and the evidence of each Close under a lock of its own (closure.rs,       *)
(* app.rs, publication.rs); and the hosts, each with the ingress epoch it    *)
(* last installed (runs.rs).  The duties are what republishes an intent      *)
(* whose publisher died, so they may go only when the journal owes nothing   *)
(* and no host can make it owe anything again.                               *)
(*                                                                           *)
(* An action on the manager is one queue transaction.  A delivered job       *)
(* writes the journal in two steps, so that its lease may lapse, and the     *)
(* manager act, between the authority check and the commit.                  *)
(*                                                                           *)
(* Time is kept as what it has made true: a lease is live or lapsed, a       *)
(* scope active or idle, a backoff running or over, an attempt young or      *)
(* timed out, a duty due or not.  Each turns by a step of its own, in any    *)
(* order, so no option's value is assumed.                                   *)
EXTENDS Integers, FiniteSets

CONSTANTS
    Jobs,               \* the job identities that may be minted
    NoJob,              \* SQL NULL in a column of job identities
    OperationKind,      \* the operation each identity is minted for
    Hosts,              \* the processes that accept ingress for the app
    MaxEpoch,           \* bound on the ingress epoch
    MaxOrder            \* bound on the dispatch cursor

DutyKinds == {"reconcile", "collect"}

\* JobSpec::produces_intents, for the kinds that are kept apart here: advance
\* jobs come from the journal's intents, activate and cron jobs from the
\* manager's calendar.
IntentProducers == {"advance", "activate", "cron"}

NoWatermark == -1       \* SQL NULL in closing_watermark

NotRefused == -1

ASSUME RetirementAssumption ==
    /\ OperationKind \in [Jobs -> IntentProducers \cup DutyKinds \cup {"close"}]
    /\ NoJob \notin Jobs
    /\ MaxEpoch \in Nat /\ MaxOrder \in Nat

VARIABLES
    scope,              \* recovery_scopes: the app's responsibility
    duties,             \* recovery_duties: the app's duty pair
    jobs,               \* the app's rows of the queue
    dispatch_cursor,    \* queue_scopes.dispatch_cursor
    calendar,           \* schedule_scopes: enabled, or archived by Control
    closed_epoch,       \* journal app_state.closed_epoch
    intents,            \* journal job_publications, by job identity
    evidence,           \* journal job_receipts of Close jobs
    writer,             \* the delivered job whose transaction holds the app state lock
    ingress_epoch,      \* the epoch each host's policy binding holds; 0 is none
    refused,            \* the epoch each host was told to exceed, if it was
    answered            \* the epoch the manager's answer to each host carries; 0 is none

manager == <<scope, duties, jobs, dispatch_cursor, calendar>>
journal == <<closed_epoch, intents, evidence, writer>>
hosts == <<ingress_epoch, refused, answered>>
vars == <<manager, journal, hosts>>

-----------------------------------------------------------------------------
(* Rows and the patches the manager applies to them.                       *)

States == {"absent", "open", "closing", "retired", "abandoned"}

\* close_after: NULL, ahead of the clock or behind it.  It is set and cleared
\* together with close_attempts.
Pacings == {"none", "running", "over"}

Scopes == [state : States, epoch : Nat, watermark : Int, close_job : Jobs \cup {NoJob},
           activity : {"active", "idle"}, pacing : Pacings,
           attempt : {"none", "young", "timed_out"}]

Duties == [state : {"absent", "due", "waiting"}, pending : Jobs \cup {NoJob}]

\* A lapsed row is a leased one whose deadline has passed.
Rows == [state : {"absent", "ready", "leased", "lapsed", "settled"}, order : Nat,
         epoch : Nat]

AbsentRow == [state |-> "absent", order |-> 0, epoch |-> 0]

AbsentScope == [state |-> "absent", epoch |-> 0, watermark |-> NoWatermark,
                close_job |-> NoJob, activity |-> "idle", pacing |-> "none",
                attempt |-> "none"]

AbsentDuty == [state |-> "absent", pending |-> NoJob]

\* The row ensure_in inserts and reopen leaves: an epoch without an attempt.
Opened(epoch) ==
    [state |-> "open", epoch |-> epoch, watermark |-> NoWatermark, close_job |-> NoJob,
     activity |-> "active", pacing |-> "none", attempt |-> "none"]

\* create_pair: both duties due at once.
CreatedPair == [k \in DutyKinds |-> [state |-> "due", pending |-> NoJob]]

NoPair == [k \in DutyKinds |-> AbsentDuty]

\* A started attempt.
Attempted(row, watermark, job) ==
    [row EXCEPT !.state = "closing", !.watermark = watermark, !.close_job = job,
                !.pacing = "running", !.attempt = "young"]

\* Fault: the attempt's Close job stays named.
ReopenedKeepingClose(row) ==
    [row EXCEPT !.state = "open", !.watermark = NoWatermark, !.attempt = "none"]

\* reopened_attempt: open again, the pacing kept.
ReopenedAttempt(row) ==
    [row EXCEPT !.state = "open", !.watermark = NoWatermark, !.close_job = NoJob,
                !.attempt = "none"]

\* settled: retired or abandoned, the epoch kept as the tombstone.
SettledAs(row, state) ==
    [row EXCEPT !.state = state, !.watermark = NoWatermark, !.close_job = NoJob,
                !.pacing = "none", !.attempt = "none"]

\* touch: only an open or closing epoch has activity to record.
Touched(row) ==
    IF row.state \in {"open", "closing"} THEN [row EXCEPT !.activity = "active"]
                                         ELSE row

Init ==
    /\ scope = AbsentScope
    /\ duties = NoPair
    /\ jobs = [j \in Jobs |-> AbsentRow]
    /\ dispatch_cursor = 0
    /\ calendar = "enabled"
    /\ closed_epoch = 0
    /\ intents = [j \in Jobs |-> "none"]
    /\ evidence = [j \in Jobs |-> "none"]
    /\ writer = NoJob
    /\ ingress_epoch = [h \in Hosts |-> 0]
    /\ refused = [h \in Hosts |-> NotRefused]
    /\ answered = [h \in Hosts |-> 0]

-----------------------------------------------------------------------------
(* What the transactions read.                                             *)

Unsettled(j) == jobs[j].state \in {"ready", "leased", "lapsed"}

Live(j) == jobs[j].state = "leased"

Produces(j) == OperationKind[j] \in IntentProducers

\* Duty::pending: the duty's job while it is unsettled.
DutyPending(k) == duties[k].pending # NoJob /\ Unsettled(duties[k].pending)

\* Fault: only the duties' own jobs are looked at.
PendingDutiesOnly(settling) == \E k \in DutyKinds : DutyPending(k)

\* pending_maintenance: a pending duty job, or an unsettled Close of any
\* attempt.  settling is the job this transaction already marked settled.
PendingMaintenance(settling) ==
    \/ \E k \in DutyKinds : DutyPending(k)
    \/ \E j \in Jobs \ {settling} : OperationKind[j] = "close" /\ Unsettled(j)

Leased(except) == \E j \in Jobs \ {except} : Live(j)

\* Fault: only jobs still unsettled count as claimed.
ClaimedUnsettledAfter(watermark, close) ==
    \E j \in Jobs \ {close} : Unsettled(j) /\ jobs[j].order > watermark

\* claimed_after: a job published or claimed above the watermark, settled or not.
ClaimedAfter(watermark, close) ==
    \E j \in Jobs \ {close} : jobs[j].state # "absent" /\ jobs[j].order > watermark

-----------------------------------------------------------------------------
(* Pieces of the manager's transactions.                                   *)

\* Queue::insert of a freshly minted job.
Insert(j, epoch) ==
    /\ jobs[j].state = "absent"
    /\ dispatch_cursor < MaxOrder
    /\ jobs' = [jobs EXCEPT ![j] =
          [state |-> "ready", order |-> dispatch_cursor + 1, epoch |-> epoch]]
    /\ dispatch_cursor' = dispatch_cursor + 1

\* Fault: a retired scope opens again at the epoch it closed.
ReopenSameEpoch ==
    /\ scope' = Opened(scope.epoch)
    /\ duties' = IF scope.state = "retired" THEN CreatedPair ELSE duties

\* reopen: the next epoch; a retired scope gets its duty pair back.
Reopen ==
    /\ scope.epoch < MaxEpoch
    /\ scope' = Opened(scope.epoch + 1)
    /\ duties' = IF scope.state = "retired" THEN CreatedPair ELSE duties

\* ensure_in, under the activation's transaction.  Which deployment the
\* activation named is left to DeploymentRetention.
EnsureIn ==
    \/ /\ scope.state = "absent"
       /\ scope' = Opened(1)
       /\ duties' = CreatedPair
    \/ scope.state = "retired" /\ Reopen
    \/ scope.state \in {"open", "closing"} /\ UNCHANGED <<scope, duties>>

\* activity_in: a retired scope reopens before the claimed job executes.
Activity ==
    \/ scope.state = "retired" /\ Reopen
    \/ scope.state # "retired" /\ scope' = Touched(scope) /\ UNCHANGED duties

\* begin_in, with the Close job j it mints.  Live or pending work refuses the
\* attempt, which is paced all the same.
BeginIn(j) ==
    /\ OperationKind[j] = "close"
    /\ \/ /\ Leased(NoJob) \/ PendingMaintenance(NoJob)
          /\ scope' = [scope EXCEPT !.pacing = "running"]
          /\ UNCHANGED <<jobs, dispatch_cursor>>
       \/ /\ ~(Leased(NoJob) \/ PendingMaintenance(NoJob))
          /\ Insert(j, scope.epoch)
          /\ scope' = Attempted(scope, dispatch_cursor, j)
    /\ UNCHANGED duties

-----------------------------------------------------------------------------
(* The manager's operations.                                               *)

\* Scheduler::activate: publication, calendar and responsibility together.
Activate(j) ==
    /\ OperationKind[j] = "activate"
    /\ Insert(j, 0)
    /\ EnsureIn
    /\ calendar' = "enabled"
    /\ UNCHANGED <<journal, hosts>>

\* Recovery::ensure, the local host's registration.
Ensure ==
    /\ EnsureIn
    /\ UNCHANGED <<jobs, dispatch_cursor, calendar, journal, hosts>>

\* Scheduler::disable.
Disable ==
    /\ calendar' = "archived"
    /\ UNCHANGED <<scope, duties, jobs, dispatch_cursor, journal, hosts>>

\* Scheduler::dispatch: an occurrence of an enabled calendar.
Occurrence(j) ==
    /\ OperationKind[j] = "cron"
    /\ scope.state # "absent" /\ calendar = "enabled"
    /\ Insert(j, 0)
    /\ UNCHANGED <<scope, duties, calendar, journal, hosts>>

\* Recovery::dispatch, with the job j it mints for a due duty of an open scope.
Dispatch(k, j) ==
    /\ OperationKind[j] = k
    /\ scope.state = "open"
    /\ ~DutyPending(k)
    /\ duties[k].state = "due"
    /\ Insert(j, 0)
    /\ duties' = [duties EXCEPT ![k] = [state |-> "waiting", pending |-> j]]
    /\ UNCHANGED <<scope, calendar, journal, hosts>>

NoteIngress ==
    /\ scope.state # "absent"
    /\ scope' = Touched(scope)
    /\ UNCHANGED <<duties, jobs, dispatch_cursor, calendar, journal, hosts>>

BeginClose(j) ==
    /\ scope.state = "open"
    /\ BeginIn(j)
    /\ UNCHANGED <<calendar, journal, hosts>>

\* Fault: a claimed Close is left to its holder.
ExpireUnclaimed ==
    /\ scope.state = "closing" /\ scope.attempt = "timed_out"
    /\ jobs[scope.close_job].state = "ready"
    /\ scope' = ReopenedAttempt(scope)
    /\ UNCHANGED <<duties, jobs, dispatch_cursor, calendar, journal, hosts>>

\* expire_close and expire_in.
ExpireClose ==
    /\ scope.state = "closing" /\ scope.attempt = "timed_out"
    /\ scope' = ReopenedAttempt(scope)
    /\ UNCHANGED <<duties, jobs, dispatch_cursor, calendar, journal, hosts>>

\* closing_turn of an open scope; of a closing one it is ExpireClose.
ClosingTurn(j) ==
    /\ scope.state = "open"
    /\ scope.pacing # "running"
    /\ scope.activity = "idle" \/ calendar = "archived"
    /\ BeginIn(j)
    /\ UNCHANGED <<calendar, journal, hosts>>

\* abandon: Control deleted the app.  Its creator work is settled with it.
Abandon ==
    /\ scope.state \notin {"absent", "abandoned"}
    /\ scope' = SettledAs(scope, "abandoned")
    /\ duties' = NoPair
    /\ jobs' = [j \in Jobs |->
          IF OperationKind[j] = "advance" /\ Unsettled(j)
          THEN [jobs[j] EXCEPT !.state = "settled"] ELSE jobs[j]]
    /\ UNCHANGED <<dispatch_cursor, calendar, journal, hosts>>

-----------------------------------------------------------------------------
(* Deliveries, as far as the responsibility depends on them; JobQueue has   *)
(* the rest.                                                               *)

\* claim_within: a new ticket, a lease and, for a job that produces intents,
\* claimed_in.
Claim(j) ==
    /\ Unsettled(j) /\ ~Live(j)
    /\ dispatch_cursor < MaxOrder
    /\ jobs' = [jobs EXCEPT ![j].state = "leased", ![j].order = dispatch_cursor + 1]
    /\ dispatch_cursor' = dispatch_cursor + 1
    /\ IF Produces(j) THEN Activity ELSE UNCHANGED <<scope, duties>>
    /\ UNCHANGED <<calendar, journal, hosts>>

GiveBack(j) ==
    /\ Live(j)
    /\ jobs' = [jobs EXCEPT ![j].state = "ready"]
    /\ UNCHANGED <<scope, duties, dispatch_cursor, calendar, journal, hosts>>

\* A settlement carries the journal's receipt, so no transaction of the job
\* is open (settle_authorized).
Settled(j) ==
    /\ Live(j) /\ writer # j
    /\ jobs' = [jobs EXCEPT ![j].state = "settled"]

SettleWork(j) ==
    /\ Produces(j)
    /\ Settled(j)
    /\ UNCHANGED <<scope, duties, dispatch_cursor, calendar, journal, hosts>>

\* settled_page: a page with more work makes its duty due now.
SettlePage(j, waiting) ==
    LET k == OperationKind[j]
    IN  /\ k \in DutyKinds
        /\ Settled(j)
        /\ duties' = IF waiting /\ duties[k].pending = j
                     THEN [duties EXCEPT ![k].state = "due"] ELSE duties
        /\ UNCHANGED <<scope, dispatch_cursor, calendar, journal, hosts>>

\* settled_close: what the current attempt needs to retire.
Retires(j) ==
    /\ evidence[j] = "drained"
    /\ scope.epoch = jobs[j].epoch
    /\ ~ClaimedAfter(scope.watermark, j)
    /\ ~Leased(j)
    /\ ~PendingMaintenance(j)

\* settled_close: any other settlement of the attempt returns the scope to
\* open, and a stale attempt's settlement changes nothing.
SettleClose(j) ==
    /\ OperationKind[j] = "close" /\ evidence[j] # "none"
    /\ Settled(j)
    /\ \/ /\ scope.state # "closing" \/ scope.close_job # j
          /\ UNCHANGED <<scope, duties>>
       \/ /\ scope.state = "closing" /\ scope.close_job = j
          /\ Retires(j)
          /\ scope' = SettledAs(scope, "retired")
          /\ duties' = NoPair
       \/ /\ scope.state = "closing" /\ scope.close_job = j
          /\ ~Retires(j)
          /\ scope' = ReopenedAttempt(scope)
          /\ UNCHANGED duties
    /\ UNCHANGED <<dispatch_cursor, calendar, journal, hosts>>

-----------------------------------------------------------------------------
(* The creator journal.                                                    *)

Owed == {i \in Jobs : intents[i] = "pending"}

\* A delivered job takes the app state lock while its lease is live.  A Close
\* with a receipt replays it instead.
BeginWrite(j) ==
    /\ writer = NoJob
    /\ Live(j)
    /\ Produces(j) \/ (OperationKind[j] = "close" /\ evidence[j] = "none")
    /\ writer' = j
    /\ UNCHANGED <<manager, closed_epoch, intents, evidence, hosts>>

\* The commit itself checks no lease: the lock still covers it.
CommitWork(i) ==
    /\ writer # NoJob /\ Produces(writer)
    /\ OperationKind[i] = "advance" /\ intents[i] = "none"
    /\ intents' = [intents EXCEPT ![i] = "pending"]
    /\ writer' = NoJob
    /\ UNCHANGED <<manager, closed_epoch, evidence, hosts>>

\* Fault: the epoch after the Close's is fenced too.
CommitCloseFencingNext(idle) ==
    /\ writer # NoJob /\ OperationKind[writer] = "close"
    /\ closed_epoch' = IF jobs[writer].epoch >= closed_epoch
                       THEN jobs[writer].epoch + 1 ELSE closed_epoch
    /\ evidence' = [evidence EXCEPT ![writer] =
                       IF Owed = {} /\ idle THEN "drained" ELSE "undrained"]
    /\ writer' = NoJob
    /\ UNCHANGED <<manager, intents, hosts>>

\* Fault: evidence without a fence.
CommitCloseUnfenced(idle) ==
    /\ writer # NoJob /\ OperationKind[writer] = "close"
    /\ evidence' = [evidence EXCEPT ![writer] =
                       IF Owed = {} /\ idle THEN "drained" ELSE "undrained"]
    /\ writer' = NoJob
    /\ UNCHANGED <<manager, closed_epoch, intents, hosts>>

\* close_job: the fence and the evidence in one transaction.  idle says that
\* holds, payloads and task claims owe nothing.
CommitClose(idle) ==
    /\ writer # NoJob /\ OperationKind[writer] = "close"
    /\ closed_epoch' = IF jobs[writer].epoch > closed_epoch
                       THEN jobs[writer].epoch ELSE closed_epoch
    /\ evidence' = [evidence EXCEPT ![writer] =
                       IF Owed = {} /\ idle THEN "drained" ELSE "undrained"]
    /\ writer' = NoJob
    /\ UNCHANGED <<manager, intents, hosts>>

\* The transaction wrote no intent, failed its last check or died.
Rollback ==
    /\ writer # NoJob
    /\ writer' = NoJob
    /\ UNCHANGED <<manager, closed_epoch, intents, evidence, hosts>>

\* publish_job, its manager half: the journal holds no lock across it.
Submit(i) ==
    /\ intents[i] = "pending"
    /\ scope.state # "absent"
    /\ Insert(i, 0)
    /\ UNCHANGED <<scope, duties, calendar, journal, hosts>>

\* publish_job, its confirmation, or that of a retry.
Confirm(i) ==
    /\ writer = NoJob
    /\ intents[i] = "pending" /\ jobs[i].state # "absent"
    /\ intents' = [intents EXCEPT ![i] = "confirmed"]
    /\ UNCHANGED <<manager, closed_epoch, evidence, writer, hosts>>

-----------------------------------------------------------------------------
(* Hosts.                                                                  *)

\* require_open_epoch under the app state lock, and the accepted intent.
Accept(h, i) ==
    /\ writer = NoJob
    /\ ingress_epoch[h] > closed_epoch
    /\ OperationKind[i] = "advance" /\ intents[i] = "none"
    /\ intents' = [intents EXCEPT ![i] = "pending"]
    /\ UNCHANGED <<manager, closed_epoch, evidence, writer, hosts>>

\* IngressFenced names the epoch the host must exceed.
Fenced(h) ==
    /\ writer = NoJob
    /\ ingress_epoch[h] <= closed_epoch /\ refused[h] = NotRefused
    /\ refused' = [refused EXCEPT ![h] = closed_epoch]
    /\ UNCHANGED <<manager, journal, ingress_epoch, answered>>

\* establish_epoch asks, one exchange at a time and not for what the host
\* already has; Recovery::establish answers with an open epoch.
Establish(h) ==
    /\ refused[h] # NotRefused /\ answered[h] = 0
    /\ ingress_epoch[h] <= refused[h]
    /\ scope.state \in {"open", "closing", "retired"}
    /\ refused[h] <= scope.epoch
    /\ IF scope.state = "open" /\ scope.epoch > refused[h]
       THEN UNCHANGED <<scope, duties>>
       ELSE Reopen
    /\ answered' = [answered EXCEPT ![h] = scope'.epoch]
    /\ refused' = [refused EXCEPT ![h] = NotRefused]
    /\ UNCHANGED <<jobs, dispatch_cursor, calendar, journal, ingress_epoch>>

\* The answer arrives, however late, and the host installs it; or it is lost.
Install(h, delivered) ==
    /\ answered[h] # 0
    /\ ingress_epoch' = IF delivered THEN [ingress_epoch EXCEPT ![h] = answered[h]]
                                     ELSE ingress_epoch
    /\ answered' = [answered EXCEPT ![h] = 0]
    /\ UNCHANGED <<manager, journal, refused>>

\* Establishment was refused or not needed, or the host gave up on it.
Unestablished(h) ==
    /\ refused[h] # NotRefused
    /\ refused' = [refused EXCEPT ![h] = NotRefused]
    /\ UNCHANGED <<manager, journal, ingress_epoch, answered>>

HostRestart(h) ==
    /\ ingress_epoch' = [ingress_epoch EXCEPT ![h] = 0]
    /\ refused' = [refused EXCEPT ![h] = NotRefused]
    /\ answered' = [answered EXCEPT ![h] = 0]
    /\ UNCHANGED <<manager, journal>>

-----------------------------------------------------------------------------
(* The passage of time.                                                    *)

\* A lease deadline passes.
Lapse(j) ==
    /\ Live(j)
    /\ jobs' = [jobs EXCEPT ![j].state = "lapsed"]
    /\ UNCHANGED <<scope, duties, dispatch_cursor, calendar, journal, hosts>>

\* idle_after passes without activity.  Only an open scope's turn reads it.
GrowIdle ==
    /\ scope.state = "open" /\ scope.activity = "active"
    /\ scope' = [scope EXCEPT !.activity = "idle"]
    /\ UNCHANGED <<duties, jobs, dispatch_cursor, calendar, journal, hosts>>

\* close_after passes.  Only an open scope's turn reads it.
BackoffEnds ==
    /\ scope.state = "open" /\ scope.pacing = "running"
    /\ scope' = [scope EXCEPT !.pacing = "over"]
    /\ UNCHANGED <<duties, jobs, dispatch_cursor, calendar, journal, hosts>>

\* closing_timeout passes since the attempt's Close job was published.
AttemptTimesOut ==
    /\ scope.state = "closing" /\ scope.attempt = "young"
    /\ scope' = [scope EXCEPT !.attempt = "timed_out"]
    /\ UNCHANGED <<duties, jobs, dispatch_cursor, calendar, journal, hosts>>

\* next_due_at passes.
DutyFallsDue(k) ==
    /\ duties[k].state = "waiting"
    /\ duties' = [duties EXCEPT ![k].state = "due"]
    /\ UNCHANGED <<scope, jobs, dispatch_cursor, calendar, journal, hosts>>

-----------------------------------------------------------------------------
ManagerStep(j) ==
    \/ Activate(j) \/ Occurrence(j) \/ BeginClose(j) \/ ClosingTurn(j)
    \/ \E k \in DutyKinds : Dispatch(k, j)

DeliveryStep(j) ==
    \/ Claim(j) \/ GiveBack(j) \/ SettleWork(j) \/ SettleClose(j)
    \/ \E waiting \in BOOLEAN : SettlePage(j, waiting)
    \/ Lapse(j)

JournalStep(j) ==
    \/ BeginWrite(j) \/ CommitWork(j) \/ Submit(j) \/ Confirm(j)

HostStep(h) ==
    \/ \E i \in Jobs : Accept(h, i)
    \/ Fenced(h) \/ Establish(h) \/ Unestablished(h) \/ HostRestart(h)
    \/ \E delivered \in BOOLEAN : Install(h, delivered)

Next ==
    \/ \E j \in Jobs : ManagerStep(j) \/ DeliveryStep(j) \/ JournalStep(j)
    \/ \E h \in Hosts : HostStep(h)
    \/ Ensure \/ Disable \/ NoteIngress \/ ExpireClose \/ Abandon
    \/ \E idle \in BOOLEAN : CommitClose(idle)
    \/ Rollback
    \/ GrowIdle \/ BackoffEnds \/ AttemptTimesOut \/ \E k \in DutyKinds : DutyFallsDue(k)

Spec == Init /\ [][Next]_vars

\* The driver visits every closing scope on each of its turns and the clock
\* advances, whatever workers, hosts and the journal do.
FairSpec == Spec /\ WF_vars(ExpireClose) /\ WF_vars(AttemptTimesOut)

-----------------------------------------------------------------------------
(* Properties.                                                             *)

\* Every variable keeps its type.
TypeOK ==
    /\ scope \in Scopes /\ duties \in [DutyKinds -> Duties]
    /\ jobs \in [Jobs -> Rows] /\ dispatch_cursor \in Nat /\ calendar \in {"enabled", "archived"}
    /\ closed_epoch \in Nat /\ intents \in [Jobs -> {"none", "pending", "confirmed"}]
    /\ evidence \in [Jobs -> {"none", "drained", "undrained"}]
    /\ writer \in Jobs \cup {NoJob}
    /\ ingress_epoch \in [Hosts -> Nat] /\ refused \in [Hosts -> Int]
    /\ answered \in [Hosts -> Nat]

\* An intent the journal has not published yet is never without the duties
\* that would republish it, unless Control deleted the app: retirement cannot
\* overtake an acceptance or a delivered job's commit (settled_close,
\* close_job, require_open_epoch, claimed_in).
DutiesCoverIntents ==
    (Owed # {} \/ (writer # NoJob /\ Produces(writer))) =>
        scope.state = "abandoned" \/ \A k \in DutyKinds : duties[k].state # "absent"

\* No host can accept ingress for a retired scope: the journal's fence covers
\* every epoch a host holds or may yet install (require_open_epoch, establish).
RetiredScopeIsFenced ==
    scope.state = "retired" =>
        \A h \in Hosts : ingress_epoch[h] <= closed_epoch /\ answered[h] <= closed_epoch

\* The manager's epoch is never behind what the journal fenced or a host was
\* told to exceed, so an establishment is never refused as an epoch the
\* manager did not issue (establish, raise_closed_epoch).
ManagerIssuesEpochs ==
    /\ closed_epoch <= scope.epoch
    /\ \A h \in Hosts : /\ ingress_epoch[h] <= scope.epoch /\ refused[h] <= scope.epoch
                        /\ answered[h] <= scope.epoch

\* The stored responsibility always reads back: it passes
\* Stored::responsibility, its Close job is the one of its epoch (close_job)
\* and its duty pair exists exactly while it is open or closing
\* (validate_pair, dispatch).  Otherwise every operation fails on the row.
ResponsibilityReads ==
    /\ scope.state = "closing" =>
          /\ scope.watermark >= 0 /\ scope.pacing # "none"
          /\ scope.close_job \in Jobs /\ OperationKind[scope.close_job] = "close"
          /\ jobs[scope.close_job].state # "absent"
          /\ jobs[scope.close_job].epoch = scope.epoch
    /\ scope.state # "closing" => scope.watermark = NoWatermark /\ scope.close_job = NoJob
    /\ scope.state \in {"retired", "abandoned"} =>
          scope.pacing = "none"
    /\ \A k \in DutyKinds : duties[k].state # "absent" <=> scope.state \in {"open", "closing"}

\* Replicas converge: at most one Close, and at most one page of each duty, is
\* unsettled at a time, across expiry, reopening and retirement
\* (pending_maintenance, dispatch).
OneMaintenanceJob ==
    \A i, j \in Jobs :
        /\ OperationKind[i] = OperationKind[j] /\ ~Produces(i)
        /\ Unsettled(i) /\ Unsettled(j)
        => i = j

\* An epoch that retired is never open again, and nothing leaves abandonment
\* (reopen, transition).
EpochsMoveOn ==
    [][/\ scope.epoch <= scope'.epoch
       /\ scope.state = "retired" /\ scope'.state \in {"open", "closing"}
             => scope'.epoch > scope.epoch
       /\ scope.state = "abandoned" => scope'.state = "abandoned"]_vars

\* A closing attempt never wedges its scope: it is settled, cancelled or
\* expires, and the duties resume (closing_turn, expire_in).
ClosingEnds == scope.state = "closing" ~> scope.state # "closing"

\* The manager, the journal and the hosts agree on the responsibility: a retired
\* scope is fenced and its epoch never opens again, the manager issued every
\* epoch anybody names, its rows read back, and its maintenance is never doubled
\* (fence, reopen, dispatch).
ScopeConsistent ==
    /\ [](TypeOK /\ RetiredScopeIsFenced /\ ManagerIssuesEpochs /\ ResponsibilityReads
          /\ OneMaintenanceJob)
    /\ EpochsMoveOn
=============================================================================
