------------------------ MODULE ScopeRetirementProofs ------------------------
(* Proofs about ScopeRetirement, for every set of jobs and hosts and every   *)
(* bound.                                                                    *)
EXTENDS ScopeRetirement, TLAPS

-----------------------------------------------------------------------------
(* The inductive invariant.                                                 *)

\* A job that was never published has no journal transaction and no evidence.
FreshJobs ==
    \A j \in Jobs : jobs[j].state = "absent" => evidence[j] = "none" /\ writer # j

\* Only advance jobs come from intents.
IntentKinds == \A i \in Jobs : intents[i] # "none" => OperationKind[i] = "advance"

\* Before its first activation an app has published nothing.
AbsentInv == scope.state = "absent" => scope.epoch = 0 /\ \A j \in Jobs : jobs[j].state = "absent"

\* The attempt's watermark is a ticket the queue has given out.
OrderInv == scope.watermark <= dispatch_cursor

JobEpochs == \A j \in Jobs : jobs[j].epoch <= scope.epoch

\* No delivery that was live when the attempt began is live during it.
AttemptInv ==
    scope.state = "closing" =>
        \A j \in Jobs : Live(j) => j = scope.close_job \/ jobs[j].order > scope.watermark

Quiet == Owed = {} /\ (writer # NoJob => ~Produces(writer))

\* The journal owes nothing and every epoch issued so far is fenced.
Drained == Quiet /\ scope.epoch <= closed_epoch

\* Until another job is claimed, an attempt's drained evidence stays true.
EvidenceInv ==
    /\ scope.state = "closing" /\ evidence[scope.close_job] = "drained"
    /\ ~ClaimedAfter(scope.watermark, scope.close_job)
    => Drained

\* Nothing has happened since a retirement.
RestInv ==
    scope.state \in {"absent", "retired"} =>
        Drained /\ \A j \in Jobs : Live(j) => ~Produces(j)

\* An unsettled duty job is the one its duty names.
DutyInv ==
    /\ \A k \in DutyKinds : duties[k].state = "absent" => duties[k].pending = NoJob
    /\ scope.state # "abandoned" =>
          \A j \in Jobs : OperationKind[j] \in DutyKinds /\ Unsettled(j) =>
              /\ duties[OperationKind[j]].state # "absent"
              /\ duties[OperationKind[j]].pending = j

\* The strengthening: what the queue, the journal and the hosts know of each
\* other between any two transactions.
RetirementInv ==
    /\ TypeOK
    /\ FreshJobs /\ IntentKinds /\ AbsentInv /\ OrderInv /\ JobEpochs
    /\ AttemptInv /\ EvidenceInv /\ RestInv
    /\ ResponsibilityReads /\ ManagerIssuesEpochs
    /\ DutyInv /\ OneMaintenanceJob

-----------------------------------------------------------------------------
(* Rows and patches.                                                        *)

\* Every job is a producer of intents, a duty page or a Close.
LEMMA Kinds ==
  /\ NoJob \notin Jobs
  /\ \A j \in Jobs : OperationKind[j] \in IntentProducers \cup DutyKinds \cup {"close"}
BY RetirementAssumption

\* The missing watermark and refusal order before every epoch.
LEMMA Null == NoWatermark \in Int /\ NotRefused \in Int /\ NoWatermark < 0 /\ NotRefused < 0
BY DEF NoWatermark, NotRefused

\* The row an opening writes.
LEMMA Opening ==
  ASSUME NEW e \in Nat
  PROVE  /\ Opened(e) \in Scopes
         /\ Opened(e).state = "open" /\ Opened(e).epoch = e
         /\ Opened(e).watermark = NoWatermark /\ Opened(e).close_job = NoJob
BY Null DEF Opened, Scopes, States, Pacings

\* The row of a started closing attempt keeps its epoch.
LEMMA Attempting ==
  ASSUME NEW row \in Scopes, NEW w \in Int, NEW j \in Jobs
  PROVE  /\ Attempted(row, w, j) \in Scopes
         /\ Attempted(row, w, j).state = "closing" /\ Attempted(row, w, j).epoch = row.epoch
         /\ Attempted(row, w, j).watermark = w /\ Attempted(row, w, j).close_job = j
         /\ Attempted(row, w, j).pacing = "running"
BY DEF Attempted, Scopes, States, Pacings

\* The row of an attempt that expired is open again, in the same epoch.
LEMMA Reopening ==
  ASSUME NEW row \in Scopes
  PROVE  /\ ReopenedAttempt(row) \in Scopes
         /\ ReopenedAttempt(row).state = "open" /\ ReopenedAttempt(row).epoch = row.epoch
         /\ ReopenedAttempt(row).watermark = NoWatermark
         /\ ReopenedAttempt(row).close_job = NoJob
BY Null DEF ReopenedAttempt, Scopes, States

\* The row of a scope that retired or was abandoned keeps its epoch.
LEMMA Settling ==
  ASSUME NEW row \in Scopes, NEW s \in {"retired", "abandoned"}
  PROVE  /\ SettledAs(row, s) \in Scopes
         /\ SettledAs(row, s).state = s /\ SettledAs(row, s).epoch = row.epoch
         /\ SettledAs(row, s).watermark = NoWatermark /\ SettledAs(row, s).close_job = NoJob
         /\ SettledAs(row, s).pacing = "none"
BY Null DEF SettledAs, Scopes, States, Pacings

\* Activity changes only the clocks of the row.
LEMMA Touching ==
  ASSUME NEW row \in Scopes
  PROVE  /\ Touched(row) \in Scopes
         /\ Touched(row).state = row.state /\ Touched(row).epoch = row.epoch
         /\ Touched(row).watermark = row.watermark /\ Touched(row).close_job = row.close_job
         /\ Touched(row).pacing = row.pacing
BY DEF Touched, Scopes

\* The pair of duties an opening creates and the pair a retirement leaves.
LEMMA Pairs ==
  /\ CreatedPair \in [DutyKinds -> Duties] /\ NoPair \in [DutyKinds -> Duties]
  /\ \A k \in DutyKinds :
        CreatedPair[k].state = "due" /\ NoPair[k].state = "absent" /\ NoPair[k].pending = NoJob
BY DEF CreatedPair, NoPair, AbsentDuty, Duties

-----------------------------------------------------------------------------
(* What a step may do to the manager's rows.                                *)

\* The queue moves on: rows are published, claimed, given back and settled.
JobsMove ==
    /\ jobs' \in [Jobs -> Rows] /\ dispatch_cursor' \in Nat
    /\ dispatch_cursor <= dispatch_cursor'
    /\ \A i \in Jobs :
          /\ jobs'[i].state = "absent" => jobs[i].state = "absent"
          /\ jobs[i].state # "absent" =>
                /\ jobs'[i].epoch = jobs[i].epoch
                /\ jobs'[i].order = jobs[i].order \/ jobs'[i].order > dispatch_cursor
          /\ jobs'[i].epoch = jobs[i].epoch \/ jobs'[i].epoch = 0
          /\ jobs'[i].state = "leased" =>
                \/ jobs[i].state = "leased"
                \/ /\ jobs'[i].order > dispatch_cursor
                   /\ Produces(i) => scope'.state # "retired"
          /\ jobs'[i].state \in {"ready", "leased", "lapsed"} => Unsettled(i) \/ Produces(i)
          /\ jobs'[i].state # "absent" => jobs[i].state # "absent" \/ scope'.state # "absent"

\* The responsibility stays what it is, its clocks aside.
ScopeKept ==
    /\ scope' \in Scopes
    /\ scope'.state = scope.state /\ scope'.epoch = scope.epoch
    /\ scope'.watermark = scope.watermark /\ scope'.close_job = scope.close_job
    /\ scope.state = "closing" /\ scope.pacing # "none" => scope'.pacing # "none"
    /\ scope.state \in {"retired", "abandoned"} => scope'.pacing = scope.pacing

DutiesKept ==
    /\ duties' \in [DutyKinds -> Duties]
    /\ \A k \in DutyKinds :
          /\ duties'[k].pending = duties[k].pending
          /\ duties'[k].state = "absent" <=> duties[k].state = "absent"

\* The responsibility opens, or opens again.
ScopeOpens ==
    /\ scope' \in Scopes /\ duties' \in [DutyKinds -> Duties]
    /\ scope.state # "abandoned" /\ scope'.state = "open"
    /\ scope.epoch <= scope'.epoch
    /\ scope.state = "retired" => scope.epoch < scope'.epoch
    /\ scope'.watermark = NoWatermark /\ scope'.close_job = NoJob
    /\ \A k \in DutyKinds : duties'[k].state # "absent"
    /\ scope.state \in {"open", "closing"} =>
          \A k \in DutyKinds : duties'[k].pending = duties[k].pending

\* Hosts hold and exceed only epochs the manager issued.
HostsFollow ==
    /\ ingress_epoch' \in [Hosts -> Nat] /\ refused' \in [Hosts -> Int]
    /\ answered' \in [Hosts -> Nat]
    /\ \A h \in Hosts : /\ ingress_epoch'[h] <= scope'.epoch /\ refused'[h] <= scope'.epoch
                        /\ answered'[h] <= scope'.epoch

\* Hosts that are left alone stay behind the scope, whose epoch only grows.
LEMMA SameHosts ==
  ASSUME RetirementInv, UNCHANGED hosts, scope' \in Scopes, scope.epoch <= scope'.epoch
  PROVE  HostsFollow
BY DEF RetirementInv, TypeOK, ManagerIssuesEpochs, HostsFollow, hosts, Scopes

\* A transaction that keeps the scope and its duties and moves jobs along
\* preserves the invariant.
LEMMA KeptStep ==
  ASSUME RetirementInv, ScopeKept, DutiesKept, JobsMove, HostsFollow, UNCHANGED journal,
         calendar' \in {"enabled", "archived"}
  PROVE  RetirementInv'
<1>1. TypeOK'
  BY DEF RetirementInv, TypeOK, ScopeKept, DutiesKept, JobsMove, HostsFollow, journal
<1>2. FreshJobs' /\ IntentKinds'
  BY DEF RetirementInv, FreshJobs, IntentKinds, JobsMove, journal
<1>3. AbsentInv'
  BY DEF RetirementInv, AbsentInv, ScopeKept, JobsMove
<1>4. OrderInv'
  BY DEF RetirementInv, TypeOK, Scopes, OrderInv, ScopeKept, JobsMove
<1>5. JobEpochs'
  BY DEF RetirementInv, TypeOK, Scopes, Rows, JobEpochs, ScopeKept, JobsMove
<1>6. AttemptInv'
  BY DEF RetirementInv, TypeOK, Scopes, Rows, AttemptInv, OrderInv, Live, ScopeKept, JobsMove
<1>7. EvidenceInv'
  <2> SUFFICES ASSUME scope'.state = "closing", evidence'[scope'.close_job] = "drained",
                      ~ClaimedAfter(scope.watermark, scope.close_job)'
               PROVE  Drained'
    BY DEF EvidenceInv, ClaimedAfter, ScopeKept
  <2>1. ~ClaimedAfter(scope.watermark, scope.close_job)
    BY DEF RetirementInv, TypeOK, Scopes, Rows, OrderInv, ClaimedAfter, ScopeKept, JobsMove
  <2>2. Drained
    BY <2>1 DEF RetirementInv, EvidenceInv, ScopeKept, journal
  <2> QED
    BY <2>2 DEF Drained, Quiet, Owed, ScopeKept, journal
<1>8. RestInv'
  BY DEF RetirementInv, RestInv, AbsentInv, Drained, Quiet, Owed, Live, ScopeKept, JobsMove, journal
<1>9. ResponsibilityReads'
  <2>1. (scope.state \in {"retired", "abandoned"} => scope.pacing = "none")'
    BY DEF RetirementInv, ResponsibilityReads, ScopeKept
  <2>2. (\A k \in DutyKinds : duties[k].state # "absent" <=> scope.state \in {"open", "closing"})'
    BY DEF RetirementInv, ResponsibilityReads, ScopeKept, DutiesKept
  <2> QED
    BY <2>1, <2>2 DEF RetirementInv, ResponsibilityReads, ScopeKept, JobsMove
<1>10. ManagerIssuesEpochs'
  BY DEF RetirementInv, ManagerIssuesEpochs, ScopeKept, HostsFollow, journal
<1>11. DutyInv'
  BY DEF RetirementInv, DutyInv, ScopeKept, DutiesKept, JobsMove, Unsettled, Produces,
         IntentProducers, DutyKinds
<1>12. OneMaintenanceJob'
  BY DEF RetirementInv, OneMaintenanceJob, JobsMove, Unsettled, Produces
<1> QED
  BY <1>1, <1>2, <1>3, <1>4, <1>5, <1>6, <1>7, <1>8, <1>9, <1>10, <1>11, <1>12 DEF RetirementInv

\* So does one that opens the scope, in whatever state it was.
LEMMA OpenStep ==
  ASSUME RetirementInv, ScopeOpens, JobsMove, HostsFollow, UNCHANGED journal,
         calendar' \in {"enabled", "archived"}
  PROVE  RetirementInv'
<1>1. TypeOK'
  BY DEF RetirementInv, TypeOK, ScopeOpens, JobsMove, HostsFollow, journal
<1>2. FreshJobs' /\ IntentKinds'
  BY DEF RetirementInv, FreshJobs, IntentKinds, JobsMove, journal
<1>3. AbsentInv' /\ AttemptInv' /\ EvidenceInv' /\ RestInv'
  BY DEF AbsentInv, AttemptInv, EvidenceInv, RestInv, ScopeOpens
<1>4. OrderInv'
  BY Null DEF TypeOK, OrderInv, ScopeOpens, JobsMove
<1>5. JobEpochs'
  BY DEF RetirementInv, TypeOK, Scopes, Rows, JobEpochs, ScopeOpens, JobsMove
<1>6. ResponsibilityReads'
  BY DEF ResponsibilityReads, ScopeOpens
<1>7. ManagerIssuesEpochs'
  BY DEF RetirementInv, TypeOK, Scopes, ManagerIssuesEpochs, ScopeOpens, HostsFollow, journal
<1>8. DutyInv'
  <2> SUFFICES ASSUME NEW j \in Jobs, OperationKind[j] \in DutyKinds, Unsettled(j)'
               PROVE  duties'[OperationKind[j]].pending = j
    BY DEF DutyInv, ScopeOpens
  <2>1. Unsettled(j)
    BY DEF JobsMove, Unsettled, Produces, IntentProducers, DutyKinds
  <2>2. duties[OperationKind[j]].state # "absent" /\ duties[OperationKind[j]].pending = j
    BY <2>1 DEF RetirementInv, DutyInv, ScopeOpens
  <2> QED
    BY <2>2 DEF RetirementInv, ResponsibilityReads, ScopeOpens
<1>9. OneMaintenanceJob'
  BY DEF RetirementInv, OneMaintenanceJob, JobsMove, Unsettled, Produces
<1> QED
  BY <1>1, <1>2, <1>3, <1>4, <1>5, <1>6, <1>7, <1>8, <1>9 DEF RetirementInv

-----------------------------------------------------------------------------
(* The pieces of the manager's transactions.                                *)

\* An untouched scope is kept.
LEMMA SameScope == ASSUME TypeOK, UNCHANGED scope PROVE ScopeKept
BY DEF TypeOK, ScopeKept

\* Untouched duties are kept.
LEMMA SameDuties == ASSUME TypeOK, UNCHANGED duties PROVE DutiesKept
BY DEF TypeOK, DutiesKept

\* Untouched jobs move nowhere.
LEMMA SameJobs == ASSUME TypeOK, UNCHANGED <<jobs, dispatch_cursor>> PROVE JobsMove
BY DEF TypeOK, Rows, JobsMove, Unsettled

\* A row of a producer published by Insert.
LEMMA InsertMoves ==
  ASSUME TypeOK, NEW j \in Jobs, Insert(j, 0), Produces(j), scope'.state # "absent"
  PROVE  JobsMove
BY DEF TypeOK, Rows, Insert, JobsMove, Unsettled

\* A row that leaves its lease, or its queue place, keeps its ticket.
LEMMA SettledMoves ==
  ASSUME TypeOK, NEW j \in Jobs, NEW s \in {"ready", "lapsed", "settled"}, Unsettled(j),
         jobs' = [jobs EXCEPT ![j].state = s], UNCHANGED dispatch_cursor
  PROVE  JobsMove
BY DEF TypeOK, Rows, JobsMove, Unsettled

\* A touched scope is kept.
LEMMA TouchKeeps == ASSUME TypeOK, scope' = Touched(scope) PROVE ScopeKept
BY Touching DEF TypeOK, ScopeKept

\* A reopening opens the scope in an epoch of its own.
LEMMA ReopenOpens ==
  ASSUME RetirementInv, Reopen, scope.state \in {"open", "closing", "retired"}
  PROVE  ScopeOpens
<1>1. scope.epoch \in Nat /\ scope.epoch + 1 \in Nat /\ scope.epoch < scope.epoch + 1
  BY DEF RetirementInv, TypeOK, Scopes
<1>2. scope' = Opened(scope.epoch + 1)
  BY DEF Reopen
<1>3. /\ scope' \in Scopes /\ scope'.state = "open" /\ scope'.epoch = scope.epoch + 1
      /\ scope'.watermark = NoWatermark /\ scope'.close_job = NoJob
  BY <1>1, <1>2, Opening
<1>4. duties' \in [DutyKinds -> Duties]
  BY Pairs DEF Reopen, RetirementInv, TypeOK
<1>5. \A k \in DutyKinds : duties'[k].state # "absent"
  BY Pairs DEF Reopen, RetirementInv, ResponsibilityReads
<1>6. scope.state \in {"open", "closing"} =>
        \A k \in DutyKinds : duties'[k].pending = duties[k].pending
  BY DEF Reopen
<1> QED
  BY <1>1, <1>3, <1>4, <1>5, <1>6 DEF ScopeOpens

\* ensure leaves an open scope, or the one it found.
LEMMA EnsureOpens ==
  ASSUME RetirementInv, EnsureIn
  PROVE  ScopeOpens \/ (ScopeKept /\ DutiesKept /\ scope.state # "absent")
<1>1. CASE scope.state = "absent" /\ scope' = Opened(1) /\ duties' = CreatedPair
  <2>1. /\ scope' \in Scopes /\ scope'.state = "open" /\ scope'.epoch = 1
        /\ scope'.watermark = NoWatermark /\ scope'.close_job = NoJob
    BY <1>1, Opening
  <2>2. scope.epoch = 0
    BY <1>1 DEF RetirementInv, AbsentInv
  <2> QED
    BY <1>1, <2>1, <2>2, Pairs DEF ScopeOpens
<1>2. CASE scope.state = "retired" /\ Reopen
  BY <1>2, ReopenOpens
<1>3. CASE scope.state \in {"open", "closing"} /\ UNCHANGED <<scope, duties>>
  BY <1>3, SameScope, SameDuties DEF RetirementInv
<1> QED
  BY <1>1, <1>2, <1>3 DEF EnsureIn

\* Activity on a retired scope reopens it.
LEMMA ActivityOpens ==
  ASSUME RetirementInv, Activity
  PROVE  ScopeOpens \/ (ScopeKept /\ DutiesKept /\ scope.state # "retired")
<1>1. CASE scope.state = "retired" /\ Reopen
  BY <1>1, ReopenOpens
<1>2. CASE scope.state # "retired" /\ scope' = Touched(scope) /\ UNCHANGED duties
  BY <1>2, TouchKeeps, SameDuties DEF RetirementInv
<1> QED
  BY <1>1, <1>2 DEF Activity

\* A manager's transaction touches neither the journal nor a host.
LEMMA ManagerStays ==
  ASSUME RetirementInv, JobsMove, UNCHANGED <<journal, hosts>>,
         calendar' \in {"enabled", "archived"},
         ScopeOpens \/ (ScopeKept /\ DutiesKept)
  PROVE  RetirementInv'
<1>1. scope' \in Scopes /\ scope.epoch <= scope'.epoch
  BY DEF RetirementInv, TypeOK, Scopes, ScopeOpens, ScopeKept
<1>2. HostsFollow
  BY <1>1, SameHosts
<1> QED
  BY <1>2, KeptStep, OpenStep

-----------------------------------------------------------------------------
(* Steps that move rows along and keep, open or reopen the scope.           *)

\* An activation opens the responsibility with the job it publishes.
LEMMA ActivateStep ==
  ASSUME RetirementInv, NEW j \in Jobs, Activate(j)
  PROVE  RetirementInv'
<1>1. ScopeOpens \/ (ScopeKept /\ DutiesKept /\ scope.state # "absent")
  BY EnsureOpens DEF Activate
<1>2. scope'.state # "absent"
  BY <1>1 DEF ScopeOpens, ScopeKept
<1>3. JobsMove
  BY <1>2, InsertMoves DEF Activate, Produces, IntentProducers, RetirementInv
<1> QED
  BY <1>1, <1>3, ManagerStays DEF Activate

\* Ensuring a scope preserves the invariant.
LEMMA EnsureStep ==
  ASSUME RetirementInv, Ensure
  PROVE  RetirementInv'
<1>1. ScopeOpens \/ (ScopeKept /\ DutiesKept)
  BY EnsureOpens DEF Ensure
<1>2. JobsMove /\ calendar' \in {"enabled", "archived"}
  BY SameJobs DEF Ensure, RetirementInv, TypeOK
<1> QED
  BY <1>1, <1>2, ManagerStays DEF Ensure

\* A disable changes only the calendar.
LEMMA DisableStep ==
  ASSUME RetirementInv, Disable
  PROVE  RetirementInv'
<1>1. JobsMove /\ ScopeKept /\ DutiesKept
  BY SameJobs, SameScope, SameDuties DEF Disable, RetirementInv
<1> QED
  BY <1>1, ManagerStays DEF Disable

\* An occurrence is published into a scope that is not absent.
LEMMA OccurrenceStep ==
  ASSUME RetirementInv, NEW j \in Jobs, Occurrence(j)
  PROVE  RetirementInv'
<1>1. ScopeKept /\ DutiesKept
  BY SameScope, SameDuties DEF Occurrence, RetirementInv
<1>2. JobsMove
  BY InsertMoves DEF Occurrence, Produces, IntentProducers, RetirementInv
<1> QED
  BY <1>1, <1>2, ManagerStays DEF Occurrence, RetirementInv, TypeOK

\* A pending intent becomes a job of a scope that is not absent.
LEMMA SubmitStep ==
  ASSUME RetirementInv, NEW i \in Jobs, Submit(i)
  PROVE  RetirementInv'
<1>1. ScopeKept /\ DutiesKept
  BY SameScope, SameDuties DEF Submit, RetirementInv
<1>2. JobsMove
  BY InsertMoves DEF Submit, Produces, IntentProducers, RetirementInv, IntentKinds
<1> QED
  BY <1>1, <1>2, ManagerStays DEF Submit, RetirementInv, TypeOK

\* Steps that change the scope's clocks alone.
LEMMA ClockStep ==
  ASSUME RetirementInv, NoteIngress \/ GrowIdle \/ BackoffEnds \/ AttemptTimesOut
  PROVE  RetirementInv'
<1>1. UNCHANGED <<duties, jobs, dispatch_cursor, calendar, journal, hosts>>
  BY DEF NoteIngress, GrowIdle, BackoffEnds, AttemptTimesOut
<1>2. JobsMove /\ DutiesKept /\ calendar' \in {"enabled", "archived"}
  BY <1>1, SameJobs, SameDuties DEF RetirementInv, TypeOK
<1>3. ScopeKept
  <2>1. CASE NoteIngress
    BY <2>1, TouchKeeps DEF NoteIngress, RetirementInv
  <2>2. CASE GrowIdle
    BY <2>2 DEF GrowIdle, RetirementInv, TypeOK, Scopes, ScopeKept
  <2>3. CASE BackoffEnds
    BY <2>3 DEF BackoffEnds, RetirementInv, TypeOK, Scopes, Pacings, ScopeKept
  <2>4. CASE AttemptTimesOut
    BY <2>4 DEF AttemptTimesOut, RetirementInv, TypeOK, Scopes, ScopeKept
  <2> QED
    BY <2>1, <2>2, <2>3, <2>4
<1> QED
  BY <1>1, <1>2, <1>3, ManagerStays

\* A duty that falls due is kept.
LEMMA DutyFallsDueStep ==
  ASSUME RetirementInv, NEW k \in DutyKinds, DutyFallsDue(k)
  PROVE  RetirementInv'
<1>1. JobsMove /\ ScopeKept /\ calendar' \in {"enabled", "archived"}
  BY SameJobs, SameScope DEF DutyFallsDue, RetirementInv, TypeOK
<1>2. DutiesKept
  BY DEF DutyFallsDue, RetirementInv, TypeOK, Duties, DutiesKept
<1> QED
  BY <1>1, <1>2, ManagerStays DEF DutyFallsDue

\* An expired attempt leaves an open scope in its epoch.
LEMMA ExpireStep ==
  ASSUME RetirementInv, ExpireClose
  PROVE  RetirementInv'
<1>1. JobsMove /\ calendar' \in {"enabled", "archived"}
  BY SameJobs DEF ExpireClose, RetirementInv, TypeOK
<1>2. ScopeOpens
  BY Reopening DEF ExpireClose, RetirementInv, TypeOK, Scopes, ResponsibilityReads, ScopeOpens
<1> QED
  BY <1>1, <1>2, ManagerStays DEF ExpireClose

\* A claim of a producer finds, or reopens, a scope that is not retired.
LEMMA ClaimStep ==
  ASSUME RetirementInv, NEW j \in Jobs, Claim(j)
  PROVE  RetirementInv'
<1>1. ScopeOpens \/ (ScopeKept /\ DutiesKept /\ (Produces(j) => scope.state # "retired"))
  BY ActivityOpens, SameScope, SameDuties DEF Claim, RetirementInv
<1>2. Produces(j) => scope'.state # "retired"
  BY <1>1 DEF ScopeOpens, ScopeKept
<1>3. JobsMove
  <2>1. jobs[j] \in Rows /\ dispatch_cursor + 1 \in Nat /\ dispatch_cursor < dispatch_cursor + 1
    BY DEF RetirementInv, TypeOK
  <2>2. /\ jobs' \in [Jobs -> Rows]
        /\ jobs'[j].state = "leased" /\ jobs'[j].order = dispatch_cursor + 1
        /\ jobs'[j].epoch = jobs[j].epoch
        /\ \A i \in Jobs \ {j} : jobs'[i] = jobs[i]
    BY <2>1 DEF Claim, RetirementInv, TypeOK, Rows
  <2> QED
    BY <1>2, <2>1, <2>2 DEF Claim, RetirementInv, TypeOK, Rows, JobsMove, Unsettled
<1> QED
  BY <1>1, <1>3, ManagerStays DEF Claim, RetirementInv, TypeOK

\* A give-back, a lapse and a settlement move one row.
LEMMA GiveBackStep ==
  ASSUME RetirementInv, NEW j \in Jobs, GiveBack(j) \/ Lapse(j) \/ SettleWork(j)
  PROVE  RetirementInv'
<1>1. UNCHANGED <<scope, duties, dispatch_cursor, calendar, journal, hosts>> /\ Unsettled(j)
  BY DEF GiveBack, Lapse, SettleWork, Settled, Live, Unsettled
<1>2. JobsMove
  BY <1>1, SettledMoves DEF GiveBack, Lapse, SettleWork, Settled, RetirementInv
<1> QED
  BY <1>1, <1>2, SameScope, SameDuties, ManagerStays DEF RetirementInv, TypeOK

\* A settled duty page moves one row; one that waits leaves its duty due.
LEMMA SettlePageStep ==
  ASSUME RetirementInv, NEW j \in Jobs, NEW waiting \in BOOLEAN, SettlePage(j, waiting)
  PROVE  RetirementInv'
<1>1. UNCHANGED <<scope, dispatch_cursor, calendar, journal, hosts>> /\ Unsettled(j)
  BY DEF SettlePage, Settled, Live, Unsettled
<1>2. JobsMove
  BY <1>1, SettledMoves DEF SettlePage, Settled, RetirementInv
<1>3. DutiesKept
  BY Kinds DEF SettlePage, RetirementInv, TypeOK, Duties, DutyInv, DutiesKept
<1> QED
  BY <1>1, <1>2, <1>3, SameScope, ManagerStays DEF RetirementInv, TypeOK

-----------------------------------------------------------------------------
(* Maintenance jobs: duty pages and closing attempts.                       *)

\* What Insert leaves.
LEMMA Inserted ==
  ASSUME TypeOK, NEW j \in Jobs, NEW e \in Nat, Insert(j, e)
  PROVE  /\ jobs[j].state = "absent"
         /\ jobs' \in [Jobs -> Rows]
         /\ jobs'[j].state = "ready" /\ jobs'[j].order = dispatch_cursor + 1
         /\ jobs'[j].epoch = e
         /\ \A i \in Jobs \ {j} : jobs'[i] = jobs[i]
         /\ dispatch_cursor' \in Nat /\ dispatch_cursor' = dispatch_cursor + 1
BY DEF Insert, TypeOK, Rows

\* A duty page is published for the duty it belongs to.
LEMMA DispatchStep ==
  ASSUME RetirementInv, NEW j \in Jobs, NEW k \in DutyKinds, Dispatch(k, j)
  PROVE  RetirementInv'
<1>1. /\ jobs[j].state = "absent"
      /\ jobs' \in [Jobs -> Rows]
      /\ jobs'[j].state = "ready" /\ jobs'[j].epoch = 0
      /\ \A i \in Jobs \ {j} : jobs'[i] = jobs[i]
      /\ dispatch_cursor' \in Nat /\ dispatch_cursor' = dispatch_cursor + 1
  BY Inserted DEF Dispatch, RetirementInv
<1>2. /\ duties' \in [DutyKinds -> Duties]
      /\ duties'[k].state = "waiting" /\ duties'[k].pending = j
      /\ \A l \in DutyKinds \ {k} : duties'[l] = duties[l]
  BY DEF Dispatch, RetirementInv, TypeOK, Duties
<1>3. UNCHANGED <<scope, calendar, journal, hosts>> /\ scope.state = "open"
  BY DEF Dispatch
\* The duty names no unsettled job, so none of its kind exists.
<1>4. \A i \in Jobs : OperationKind[i] = k => ~Unsettled(i)
  BY <1>3, Kinds DEF Dispatch, DutyPending, RetirementInv, DutyInv
<1>5. TypeOK'
  BY <1>1, <1>2, <1>3 DEF RetirementInv, TypeOK, journal, hosts
<1>6. FreshJobs' /\ IntentKinds'
  BY <1>1, <1>3 DEF RetirementInv, FreshJobs, IntentKinds, journal
<1>7. AbsentInv' /\ AttemptInv' /\ EvidenceInv' /\ RestInv'
  BY <1>3 DEF AbsentInv, AttemptInv, EvidenceInv, RestInv
<1>8. OrderInv'
  BY <1>1, <1>3 DEF RetirementInv, TypeOK, Scopes, OrderInv
<1>9. JobEpochs'
  BY <1>1, <1>3 DEF RetirementInv, TypeOK, Scopes, JobEpochs
<1>10. ResponsibilityReads'
  BY <1>2, <1>3 DEF RetirementInv, ResponsibilityReads
<1>11. ManagerIssuesEpochs'
  BY <1>3 DEF RetirementInv, ManagerIssuesEpochs, journal, hosts
<1>12. DutyInv'
  BY <1>1, <1>2, <1>3, <1>4 DEF Dispatch, RetirementInv, DutyInv, Unsettled
<1>13. OneMaintenanceJob'
  BY <1>1, <1>4 DEF Dispatch, RetirementInv, OneMaintenanceJob, Unsettled
<1> QED
  BY <1>5, <1>6, <1>7, <1>8, <1>9, <1>10, <1>11, <1>12, <1>13 DEF RetirementInv

\* A started attempt: nothing is live, and no Close is left of another.
LEMMA AttemptStep ==
  ASSUME RetirementInv, NEW j \in Jobs, OperationKind[j] = "close", scope.state = "open",
         ~Leased(NoJob), ~PendingMaintenance(NoJob),
         Insert(j, scope.epoch), scope' = Attempted(scope, dispatch_cursor, j),
         UNCHANGED <<duties, calendar, journal, hosts>>
  PROVE  RetirementInv'
<1>0. scope \in Scopes /\ scope.epoch \in Nat /\ dispatch_cursor \in Nat /\ dispatch_cursor \in Int
  BY DEF RetirementInv, TypeOK, Scopes
<1>1. /\ jobs[j].state = "absent"
      /\ jobs' \in [Jobs -> Rows]
      /\ jobs'[j].state = "ready" /\ jobs'[j].epoch = scope.epoch
      /\ \A i \in Jobs \ {j} : jobs'[i] = jobs[i]
      /\ dispatch_cursor' \in Nat /\ dispatch_cursor' = dispatch_cursor + 1
  BY <1>0, Inserted DEF RetirementInv
<1>2. /\ scope' \in Scopes /\ scope'.state = "closing" /\ scope'.epoch = scope.epoch
      /\ scope'.watermark = dispatch_cursor /\ scope'.close_job = j
      /\ scope'.pacing = "running"
  BY <1>0, Attempting
<1>3. \A i \in Jobs : ~Live(i)
  BY Kinds DEF Leased
<1>4. \A i \in Jobs : OperationKind[i] = "close" => ~Unsettled(i)
  BY Kinds DEF PendingMaintenance
<1>5. TypeOK'
  BY <1>1, <1>2 DEF RetirementInv, TypeOK, journal, hosts
<1>6. FreshJobs' /\ IntentKinds'
  BY <1>1 DEF RetirementInv, FreshJobs, IntentKinds, journal
<1>7. AbsentInv' /\ RestInv'
  BY <1>2 DEF AbsentInv, RestInv
<1>8. OrderInv'
  BY <1>0, <1>1, <1>2 DEF OrderInv
<1>9. JobEpochs'
  BY <1>0, <1>1, <1>2 DEF RetirementInv, JobEpochs
<1>10. AttemptInv'
  BY <1>1, <1>2, <1>3 DEF AttemptInv, Live
<1>11. EvidenceInv'
  BY <1>1, <1>2 DEF RetirementInv, FreshJobs, EvidenceInv, journal
<1>12. ResponsibilityReads'
  BY <1>0, <1>1, <1>2 DEF RetirementInv, ResponsibilityReads
<1>13. ManagerIssuesEpochs'
  BY <1>2 DEF RetirementInv, ManagerIssuesEpochs, journal, hosts
<1>14. DutyInv'
  BY <1>1, <1>2 DEF RetirementInv, DutyInv, Unsettled, DutyKinds
<1>15. OneMaintenanceJob'
  BY <1>1, <1>4 DEF RetirementInv, OneMaintenanceJob, Unsettled
<1> QED
  BY <1>5, <1>6, <1>7, <1>8, <1>9, <1>10, <1>11, <1>12, <1>13, <1>14, <1>15 DEF RetirementInv

\* A closing attempt begins only when nothing is leased or pending.
LEMMA BeginStep ==
  ASSUME RetirementInv, NEW j \in Jobs, BeginClose(j) \/ ClosingTurn(j)
  PROVE  RetirementInv'
<1>1. scope.state = "open" /\ BeginIn(j) /\ UNCHANGED <<calendar, journal, hosts>>
  BY DEF BeginClose, ClosingTurn
<1>2. CASE /\ scope' = [scope EXCEPT !.pacing = "running"]
           /\ UNCHANGED <<jobs, dispatch_cursor, duties>>
  <2>1. ScopeKept
    BY <1>1, <1>2 DEF RetirementInv, TypeOK, Scopes, Pacings, ScopeKept
  <2>2. JobsMove /\ DutiesKept /\ calendar' \in {"enabled", "archived"}
    BY <1>1, <1>2, SameJobs, SameDuties DEF RetirementInv, TypeOK
  <2> QED
    BY <1>1, <2>1, <2>2, ManagerStays
<1>3. CASE /\ ~Leased(NoJob) /\ ~PendingMaintenance(NoJob)
           /\ Insert(j, scope.epoch) /\ scope' = Attempted(scope, dispatch_cursor, j)
           /\ UNCHANGED duties
  BY <1>1, <1>3, AttemptStep DEF BeginIn
<1> QED
  BY <1>1, <1>2, <1>3 DEF BeginIn

\* A retirement: the evidence is still true when the manager acts on it.
LEMMA RetireStep ==
  ASSUME RetirementInv, NEW j \in Jobs, SettleClose(j), scope.state = "closing",
         scope.close_job = j, Retires(j), scope' = SettledAs(scope, "retired"), duties' = NoPair
  PROVE  RetirementInv'
<1>1. /\ Live(j) /\ jobs' = [jobs EXCEPT ![j].state = "settled"]
      /\ OperationKind[j] = "close"
      /\ UNCHANGED <<dispatch_cursor, calendar, journal, hosts>>
  BY DEF SettleClose, Settled
<1>2. /\ jobs' \in [Jobs -> Rows] /\ jobs'[j].state = "settled"
      /\ jobs'[j].order = jobs[j].order /\ jobs'[j].epoch = jobs[j].epoch
      /\ \A i \in Jobs \ {j} : jobs'[i] = jobs[i]
  BY <1>1 DEF RetirementInv, TypeOK, Rows
<1>3. /\ scope' \in Scopes /\ scope'.state = "retired" /\ scope'.epoch = scope.epoch
      /\ scope'.watermark = NoWatermark /\ scope'.close_job = NoJob /\ scope'.pacing = "none"
  BY Settling DEF RetirementInv, TypeOK
<1>4. Drained
  BY DEF Retires, RetirementInv, EvidenceInv
<1>5. \A i \in Jobs : i # j => ~Live(i)
  BY DEF Retires, Leased
<1>6. \A i \in Jobs : OperationKind[i] \in DutyKinds => ~Unsettled(i)
  BY Kinds DEF Retires, PendingMaintenance, DutyPending, RetirementInv, DutyInv
<1>7. TypeOK'
  BY <1>1, <1>2, <1>3, Pairs DEF RetirementInv, TypeOK, journal, hosts
<1>8. FreshJobs' /\ IntentKinds'
  BY <1>1, <1>2 DEF RetirementInv, FreshJobs, IntentKinds, journal, Live
<1>9. AbsentInv' /\ AttemptInv' /\ EvidenceInv'
  BY <1>3 DEF AbsentInv, AttemptInv, EvidenceInv
<1>10. OrderInv'
  BY <1>1, <1>3, Null DEF RetirementInv, TypeOK, OrderInv
<1>11. JobEpochs'
  BY <1>2, <1>3 DEF RetirementInv, JobEpochs
<1>12. RestInv'
  BY <1>1, <1>2, <1>3, <1>4, <1>5 DEF RestInv, Drained, Quiet, Owed, Live, journal
<1>13. ResponsibilityReads'
  BY <1>3, Pairs DEF ResponsibilityReads
<1>14. ManagerIssuesEpochs'
  BY <1>1, <1>3 DEF RetirementInv, ManagerIssuesEpochs, journal, hosts
<1>15. DutyInv'
  BY <1>1, <1>2, <1>6, Pairs DEF DutyInv, Unsettled, DutyKinds
<1>16. OneMaintenanceJob'
  BY <1>2 DEF RetirementInv, OneMaintenanceJob, Unsettled
<1> QED
  BY <1>7, <1>8, <1>9, <1>10, <1>11, <1>12, <1>13, <1>14, <1>15, <1>16 DEF RetirementInv

\* A Close of the current attempt retires the scope or reopens it; another is void.
LEMMA SettleCloseStep ==
  ASSUME RetirementInv, NEW j \in Jobs, SettleClose(j)
  PROVE  RetirementInv'
<1>1. UNCHANGED <<dispatch_cursor, calendar, journal, hosts>> /\ Unsettled(j)
  BY DEF SettleClose, Settled, Live, Unsettled
<1>2. JobsMove /\ calendar' \in {"enabled", "archived"}
  BY <1>1, SettledMoves DEF SettleClose, Settled, RetirementInv, TypeOK
<1>3. CASE UNCHANGED <<scope, duties>>
  BY <1>1, <1>2, <1>3, SameScope, SameDuties, ManagerStays DEF RetirementInv
<1>4. CASE /\ scope.state = "closing" /\ scope.close_job = j
           /\ Retires(j) /\ scope' = SettledAs(scope, "retired") /\ duties' = NoPair
  BY <1>4, RetireStep
<1>5. CASE scope.state = "closing" /\ scope' = ReopenedAttempt(scope) /\ UNCHANGED duties
  <2>1. ScopeOpens
    BY <1>5, Reopening DEF RetirementInv, TypeOK, Scopes, ResponsibilityReads, ScopeOpens
  <2> QED
    BY <1>1, <1>2, <2>1, ManagerStays
<1> QED
  BY <1>3, <1>4, <1>5 DEF SettleClose

\* An abandonment ends the responsibility of a deleted app.
LEMMA AbandonStep ==
  ASSUME RetirementInv, Abandon
  PROVE  RetirementInv'
<1>1. UNCHANGED <<dispatch_cursor, calendar, journal, hosts>> /\ duties' = NoPair
  BY DEF Abandon
<1>2. /\ scope' \in Scopes /\ scope'.state = "abandoned" /\ scope'.epoch = scope.epoch
      /\ scope'.watermark = NoWatermark /\ scope'.close_job = NoJob /\ scope'.pacing = "none"
  BY Settling DEF Abandon, RetirementInv, TypeOK
<1>3. \A i \in Jobs :
        jobs'[i] \in Rows
        /\ jobs'[i].epoch = jobs[i].epoch
        /\ (jobs'[i].state = jobs[i].state \/ (jobs'[i].state = "settled" /\ Unsettled(i)))
  BY DEF Abandon, RetirementInv, TypeOK, Rows
<1>4. jobs' \in [Jobs -> Rows]
  BY <1>3 DEF Abandon
<1>5. TypeOK'
  BY <1>1, <1>2, <1>4, Pairs DEF RetirementInv, TypeOK, journal, hosts
<1>6. FreshJobs' /\ IntentKinds'
  BY <1>1, <1>3 DEF RetirementInv, FreshJobs, IntentKinds, journal
<1>7. AbsentInv' /\ AttemptInv' /\ EvidenceInv' /\ RestInv'
  BY <1>2 DEF AbsentInv, AttemptInv, EvidenceInv, RestInv
<1>8. OrderInv'
  BY <1>1, <1>2, Null DEF RetirementInv, TypeOK, OrderInv
<1>9. JobEpochs'
  BY <1>2, <1>3 DEF RetirementInv, JobEpochs
<1>10. ResponsibilityReads'
  BY <1>1, <1>2, Pairs DEF ResponsibilityReads
<1>11. ManagerIssuesEpochs'
  BY <1>1, <1>2 DEF RetirementInv, ManagerIssuesEpochs, journal, hosts
<1>12. DutyInv'
  BY <1>1, <1>2, Pairs DEF DutyInv
<1>13. OneMaintenanceJob'
  BY <1>3 DEF RetirementInv, OneMaintenanceJob, Unsettled
<1> QED
  BY <1>5, <1>6, <1>7, <1>8, <1>9, <1>10, <1>11, <1>12, <1>13 DEF RetirementInv

-----------------------------------------------------------------------------
(* The journal and the hosts.                                               *)

\* A journal transaction leaves what only the manager and the hosts know.
LEMMA JournalStays ==
  ASSUME RetirementInv, UNCHANGED <<manager, hosts>>, TypeOK',
         FreshJobs', IntentKinds', EvidenceInv', RestInv', closed_epoch' <= scope.epoch
  PROVE  RetirementInv'
<1>1. AbsentInv' /\ OrderInv' /\ JobEpochs' /\ AttemptInv'
  BY DEF RetirementInv, AbsentInv, OrderInv, JobEpochs, AttemptInv, Live, manager
<1>2. ResponsibilityReads'
  BY DEF RetirementInv, ResponsibilityReads, manager
<1>3. ManagerIssuesEpochs'
  BY DEF RetirementInv, ManagerIssuesEpochs, manager, hosts
<1>4. DutyInv' /\ OneMaintenanceJob'
  BY DEF RetirementInv, DutyInv, OneMaintenanceJob, Unsettled, manager
<1> QED
  BY <1>1, <1>2, <1>3, <1>4 DEF RetirementInv

\* A producer takes the lock: its lease was claimed after the watermark, and
\* never in a retired scope.
LEMMA BeginWriteStep ==
  ASSUME RetirementInv, NEW j \in Jobs, BeginWrite(j)
  PROVE  RetirementInv'
<1>1. /\ UNCHANGED <<manager, closed_epoch, intents, evidence, hosts>>
      /\ writer = NoJob /\ writer' = j /\ jobs[j].state = "leased"
  BY DEF BeginWrite, Live
<1>2. TypeOK'
  BY <1>1 DEF RetirementInv, TypeOK, manager, hosts
<1>3. FreshJobs' /\ IntentKinds'
  BY <1>1 DEF RetirementInv, FreshJobs, IntentKinds, manager
<1>4. EvidenceInv'
  <2> SUFFICES ASSUME scope.state = "closing", evidence[scope.close_job] = "drained",
                      ~ClaimedAfter(scope.watermark, scope.close_job)
               PROVE  Drained'
    BY <1>1 DEF EvidenceInv, ClaimedAfter, manager
  <2>1. Drained
    BY DEF RetirementInv, EvidenceInv
  <2>2. j = scope.close_job
    BY <1>1 DEF RetirementInv, AttemptInv, ClaimedAfter, Live
  <2>3. ~Produces(j)
    BY <2>2 DEF RetirementInv, ResponsibilityReads, Produces, IntentProducers
  <2> QED
    BY <1>1, <2>1, <2>3 DEF Drained, Quiet, Owed, Produces, manager
<1>5. RestInv'
  BY <1>1 DEF RetirementInv, RestInv, Drained, Quiet, Owed, Live, Produces, manager
<1> QED
  BY <1>1, <1>2, <1>3, <1>4, <1>5, JournalStays DEF RetirementInv, ManagerIssuesEpochs

\* A drained journal and a retired scope admit no intent, neither from a
\* delivered job's transaction nor from a host.
LEMMA IntentStep ==
  ASSUME RetirementInv, NEW i \in Jobs, CommitWork(i) \/ \E h \in Hosts : Accept(h, i)
  PROVE  RetirementInv'
<1>1. /\ UNCHANGED <<manager, closed_epoch, evidence, hosts>>
      /\ OperationKind[i] = "advance" /\ intents' = [intents EXCEPT ![i] = "pending"]
      /\ writer' \in {writer, NoJob}
  BY DEF CommitWork, Accept
<1>2. ~Drained
  BY DEF CommitWork, Accept, Drained, Quiet, RetirementInv, TypeOK, Scopes, ManagerIssuesEpochs
<1>3. TypeOK'
  BY <1>1 DEF RetirementInv, TypeOK, manager, hosts
<1>4. FreshJobs' /\ IntentKinds'
  BY <1>1, Kinds DEF RetirementInv, TypeOK, FreshJobs, IntentKinds, manager
<1>5. EvidenceInv'
  BY <1>1, <1>2 DEF RetirementInv, EvidenceInv, ClaimedAfter, manager
<1>6. RestInv'
  BY <1>1, <1>2 DEF RetirementInv, RestInv, manager
<1> QED
  BY <1>1, <1>3, <1>4, <1>5, <1>6, JournalStays DEF RetirementInv, ManagerIssuesEpochs

\* The fence reaches the Close's epoch in the transaction that writes the
\* evidence, and no producer can hold the lock meanwhile.
LEMMA CommitCloseStep ==
  ASSUME RetirementInv, NEW idle \in BOOLEAN, CommitClose(idle)
  PROVE  RetirementInv'
<1>1. /\ UNCHANGED <<manager, intents, hosts>>
      /\ writer \in Jobs /\ OperationKind[writer] = "close" /\ writer' = NoJob
  BY DEF CommitClose, RetirementInv, TypeOK
<1>2. /\ jobs[writer].epoch \in Nat /\ jobs[writer].epoch <= scope.epoch
      /\ scope.epoch \in Nat /\ closed_epoch \in Nat /\ closed_epoch <= scope.epoch
  BY <1>1 DEF RetirementInv, TypeOK, Rows, Scopes, JobEpochs, ManagerIssuesEpochs
<1>3. /\ closed_epoch' \in Nat /\ closed_epoch <= closed_epoch'
      /\ jobs[writer].epoch <= closed_epoch' /\ closed_epoch' <= scope.epoch
  BY <1>2 DEF CommitClose
<1>4. /\ evidence' \in [Jobs -> {"none", "drained", "undrained"}]
      /\ evidence'[writer] = "drained" => Owed = {}
      /\ \A j \in Jobs \ {writer} : evidence'[j] = evidence[j]
  BY <1>1 DEF CommitClose, RetirementInv, TypeOK
<1>5. TypeOK'
  BY <1>1, <1>3, <1>4 DEF RetirementInv, TypeOK, manager, hosts
<1>6. FreshJobs' /\ IntentKinds'
  BY <1>1, <1>4, Kinds DEF RetirementInv, FreshJobs, IntentKinds, manager
<1>7. EvidenceInv'
  <2> SUFFICES ASSUME scope.state = "closing", evidence'[scope.close_job] = "drained",
                      ~ClaimedAfter(scope.watermark, scope.close_job)
               PROVE  Drained'
    BY <1>1 DEF EvidenceInv, ClaimedAfter, manager
  <2>1. CASE scope.close_job = writer
    <3>1. jobs[writer].epoch = scope.epoch /\ Owed = {}
      BY <1>4, <2>1 DEF RetirementInv, ResponsibilityReads
    <3> QED
      BY <1>1, <1>3, <3>1 DEF Drained, Quiet, Owed, manager
  <2>2. CASE scope.close_job # writer
    <3>1. Drained
      BY <1>4, <2>2 DEF RetirementInv, ResponsibilityReads, EvidenceInv
    <3> QED
      BY <1>1, <1>2, <1>3, <3>1 DEF Drained, Quiet, Owed, manager
  <2> QED
    BY <2>1, <2>2
<1>8. RestInv'
  BY <1>1, <1>2, <1>3 DEF RetirementInv, RestInv, Drained, Quiet, Owed, Live, manager
<1> QED
  BY <1>1, <1>3, <1>5, <1>6, <1>7, <1>8, JournalStays

\* A rollback and a confirmation only take work away.
LEMMA ReleaseStep ==
  ASSUME RetirementInv, Rollback \/ \E i \in Jobs : Confirm(i)
  PROVE  RetirementInv'
<1>1. /\ UNCHANGED <<manager, closed_epoch, evidence, hosts>>
      /\ writer' \in {writer, NoJob}
      /\ intents' \in [Jobs -> {"none", "pending", "confirmed"}]
      /\ \A i \in Jobs : /\ intents'[i] = "pending" => intents[i] = "pending"
                         /\ intents'[i] # "none" => intents[i] # "none"
  BY DEF Rollback, Confirm, RetirementInv, TypeOK
<1>2. TypeOK'
  BY <1>1 DEF RetirementInv, TypeOK, manager, hosts
<1>3. FreshJobs' /\ IntentKinds'
  BY <1>1, Kinds DEF RetirementInv, FreshJobs, IntentKinds, manager
<1>4. Drained => Drained'
  BY <1>1 DEF Drained, Quiet, Owed, Produces, manager
<1>5. EvidenceInv'
  BY <1>1, <1>4 DEF RetirementInv, EvidenceInv, ClaimedAfter, manager
<1>6. RestInv'
  BY <1>1, <1>4 DEF RetirementInv, RestInv, Live, manager
<1> QED
  BY <1>1, <1>2, <1>3, <1>5, <1>6, JournalStays DEF RetirementInv, ManagerIssuesEpochs

\* The manager answers a host with an epoch it issued.
LEMMA EstablishStep ==
  ASSUME RetirementInv, NEW h \in Hosts, Establish(h)
  PROVE  RetirementInv'
<1>1. /\ UNCHANGED <<jobs, dispatch_cursor, calendar, journal, ingress_epoch>>
      /\ scope.state \in {"open", "closing", "retired"}
  BY DEF Establish
<1>2. ScopeOpens \/ (ScopeKept /\ DutiesKept)
  BY <1>1, ReopenOpens, SameScope, SameDuties DEF Establish, RetirementInv
<1>3. /\ scope' \in Scopes /\ scope.epoch \in Nat /\ scope'.epoch \in Nat
      /\ scope.epoch <= scope'.epoch
  BY <1>2 DEF ScopeOpens, ScopeKept, RetirementInv, TypeOK, Scopes
<1>4. /\ answered' \in [Hosts -> Nat]
      /\ \A g \in Hosts : answered'[g] = answered[g] \/ answered'[g] = scope'.epoch
  BY <1>3 DEF Establish, RetirementInv, TypeOK
<1>5. /\ refused' \in [Hosts -> Int]
      /\ \A g \in Hosts : refused'[g] = refused[g] \/ refused'[g] = NotRefused
  BY Null DEF Establish, RetirementInv, TypeOK
<1>6. HostsFollow
  BY <1>1, <1>3, <1>4, <1>5, Null DEF HostsFollow, RetirementInv, TypeOK, ManagerIssuesEpochs
<1>7. JobsMove /\ calendar' \in {"enabled", "archived"}
  BY <1>1, SameJobs DEF RetirementInv, TypeOK
<1> QED
  BY <1>1, <1>2, <1>6, <1>7, KeptStep, OpenStep

\* A host acting alone forgets its epoch, learns of a refusal or installs the
\* answer it was sent.
LEMMA HostAloneStep ==
  ASSUME RetirementInv, NEW h \in Hosts,
         Fenced(h) \/ Unestablished(h) \/ HostRestart(h) \/ \E delivered \in BOOLEAN : Install(h, delivered)
  PROVE  RetirementInv'
<1>1. UNCHANGED <<manager, journal>>
  BY DEF Fenced, Unestablished, HostRestart, Install
<1>2. /\ ingress_epoch' \in [Hosts -> Nat]
      /\ \A g \in Hosts : \/ ingress_epoch'[g] = ingress_epoch[g] \/ ingress_epoch'[g] = 0
                          \/ ingress_epoch'[g] = answered[g]
  BY DEF Fenced, Unestablished, HostRestart, Install, RetirementInv, TypeOK
<1>3. /\ refused' \in [Hosts -> Int]
      /\ \A g \in Hosts : \/ refused'[g] = refused[g] \/ refused'[g] = NotRefused
                          \/ refused'[g] = closed_epoch
  BY Null DEF Fenced, Unestablished, HostRestart, Install, RetirementInv, TypeOK
<1>4. /\ answered' \in [Hosts -> Nat]
      /\ \A g \in Hosts : answered'[g] = answered[g] \/ answered'[g] = 0
  BY DEF Fenced, Unestablished, HostRestart, Install, RetirementInv, TypeOK
<1>5. HostsFollow
  BY <1>1, <1>2, <1>3, <1>4, Null DEF HostsFollow, RetirementInv, TypeOK, Scopes, ManagerIssuesEpochs,
                                      manager
<1>6. JobsMove /\ ScopeKept /\ DutiesKept /\ calendar' \in {"enabled", "archived"}
  BY <1>1, SameJobs, SameScope, SameDuties DEF RetirementInv, TypeOK, manager
<1> QED
  BY <1>1, <1>5, <1>6, KeptStep

-----------------------------------------------------------------------------
(* The theorems.                                                            *)

\* An app nobody activated satisfies the invariant.
LEMMA RetirementInit == Init => RetirementInv
<1> SUFFICES ASSUME Init PROVE RetirementInv
  OBVIOUS
<1>1. /\ AbsentScope \in Scopes
      /\ AbsentScope.state = "absent" /\ AbsentScope.epoch = 0 /\ AbsentScope.pacing = "none"
      /\ AbsentScope.watermark = NoWatermark /\ AbsentScope.close_job = NoJob
  BY Null DEF AbsentScope, Scopes, States, Pacings
<1>2. AbsentRow \in Rows /\ AbsentRow.state = "absent" /\ AbsentRow.epoch = 0
  BY DEF AbsentRow, Rows
<1>3. TypeOK
  BY <1>1, <1>2, Pairs, Null DEF Init, TypeOK
<1>4. FreshJobs /\ IntentKinds /\ AbsentInv /\ JobEpochs /\ OneMaintenanceJob
  BY <1>1, <1>2, Kinds DEF Init, FreshJobs, IntentKinds, AbsentInv, JobEpochs,
                           OneMaintenanceJob, Unsettled
<1>5. OrderInv /\ ManagerIssuesEpochs
  BY <1>1, Null DEF Init, OrderInv, ManagerIssuesEpochs
<1>6. AttemptInv /\ EvidenceInv /\ RestInv
  BY <1>1, <1>2 DEF Init, AttemptInv, EvidenceInv, RestInv, Drained, Quiet, Owed, Live
<1>7. ResponsibilityReads /\ DutyInv
  BY <1>1, <1>2, Pairs DEF Init, ResponsibilityReads, DutyInv, Unsettled
<1> QED
  BY <1>3, <1>4, <1>5, <1>6, <1>7 DEF RetirementInv

\* Every step preserves the invariant.
LEMMA RetirementNext == RetirementInv /\ [Next]_vars => RetirementInv'
<1> SUFFICES ASSUME RetirementInv, [Next]_vars PROVE RetirementInv'
  OBVIOUS
<1>1. ASSUME NEW j \in Jobs, ManagerStep(j) PROVE RetirementInv'
  BY <1>1, ActivateStep, OccurrenceStep, BeginStep, DispatchStep DEF ManagerStep
<1>2. ASSUME NEW j \in Jobs, DeliveryStep(j) PROVE RetirementInv'
  BY <1>2, ClaimStep, GiveBackStep, SettleCloseStep, SettlePageStep DEF DeliveryStep
<1>3. ASSUME NEW j \in Jobs, JournalStep(j) PROVE RetirementInv'
  BY <1>3, BeginWriteStep, IntentStep, SubmitStep, ReleaseStep DEF JournalStep
<1>4. ASSUME NEW h \in Hosts, HostStep(h) PROVE RetirementInv'
  BY <1>4, IntentStep, EstablishStep, HostAloneStep DEF HostStep
<1>5. CASE Ensure \/ Disable \/ NoteIngress \/ ExpireClose \/ Abandon
  BY <1>5, EnsureStep, DisableStep, ClockStep, ExpireStep, AbandonStep
<1>6. CASE (\E idle \in BOOLEAN : CommitClose(idle)) \/ Rollback
  BY <1>6, CommitCloseStep, ReleaseStep
<1>7. CASE GrowIdle \/ BackoffEnds \/ AttemptTimesOut \/ \E k \in DutyKinds : DutyFallsDue(k)
  BY <1>7, ClockStep, DutyFallsDueStep
<1>8. CASE UNCHANGED vars
  <2>1. JobsMove /\ ScopeKept /\ DutiesKept /\ calendar' \in {"enabled", "archived"}
    BY <1>8, SameJobs, SameScope, SameDuties DEF RetirementInv, TypeOK, vars, manager
  <2> QED
    BY <1>8, <2>1, ManagerStays DEF vars
<1> QED
  BY <1>1, <1>2, <1>3, <1>4, <1>5, <1>6, <1>7, <1>8 DEF Next

\* The manager, the journal and the hosts always know of each other what the
\* strengthening says.
THEOREM RetirementInvariant == Spec => []RetirementInv
BY RetirementInit, RetirementNext, PTL DEF Spec

\* Every variable keeps its type.
THEOREM TypeCorrect == Spec => []TypeOK
<1>1. RetirementInv => TypeOK
  BY DEF RetirementInv
<1> QED
  BY <1>1, RetirementInvariant, PTL

\* No unpublished intent, and no transaction that may write one, is ever
\* without the duties that republish intents, unless the app was deleted.
THEOREM IntentsCovered == Spec => []DutiesCoverIntents
<1>1. RetirementInv => DutiesCoverIntents
  BY DEF RetirementInv, TypeOK, Scopes, States, RestInv, Drained, Quiet, ResponsibilityReads,
         DutiesCoverIntents
<1> QED
  BY <1>1, RetirementInvariant, PTL

\* No host can accept ingress for a retired scope.
THEOREM RetiredFenced == Spec => []RetiredScopeIsFenced
<1>1. RetirementInv => RetiredScopeIsFenced
  BY DEF RetirementInv, TypeOK, Scopes, RestInv, Drained, ManagerIssuesEpochs,
         RetiredScopeIsFenced
<1> QED
  BY <1>1, RetirementInvariant, PTL

\* The manager issued every epoch that the journal fenced or a host names.
THEOREM EpochsIssued == Spec => []ManagerIssuesEpochs
<1>1. RetirementInv => ManagerIssuesEpochs
  BY DEF RetirementInv
<1> QED
  BY <1>1, RetirementInvariant, PTL

\* The stored responsibility, its Close job and its duty pair always read back.
THEOREM ScopeReads == Spec => []ResponsibilityReads
<1>1. RetirementInv => ResponsibilityReads
  BY DEF RetirementInv
<1> QED
  BY <1>1, RetirementInvariant, PTL

\* At most one Close and one page of each duty is unsettled at a time.
THEOREM MaintenanceUnique == Spec => []OneMaintenanceJob
<1>1. RetirementInv => OneMaintenanceJob
  BY DEF RetirementInv
<1> QED
  BY <1>1, RetirementInvariant, PTL

\* What every step may do to the responsibility.
LEMMA ScopeMoves ==
  ASSUME RetirementInv, [Next]_vars
  PROVE  \/ ScopeKept \/ ScopeOpens
         \/ scope.state = "open" /\ scope'.state = "closing" /\ scope'.epoch = scope.epoch
         \/ scope.state = "closing" /\ scope'.state = "retired" /\ scope'.epoch = scope.epoch
         \/ scope'.state = "abandoned" /\ scope'.epoch = scope.epoch
<1>0. scope \in Scopes /\ TypeOK /\ dispatch_cursor \in Int
  BY DEF RetirementInv, TypeOK
<1>1. CASE UNCHANGED scope
  BY <1>0, <1>1, SameScope
<1>2. CASE EnsureIn
  BY <1>2, EnsureOpens
<1>3. CASE Activity
  BY <1>3, ActivityOpens
<1>4. CASE scope' = Touched(scope)
  BY <1>0, <1>4, TouchKeeps
<1>5. CASE scope.state \in {"open", "closing", "retired"} /\ Reopen
  BY <1>5, ReopenOpens
<1>6. CASE scope.state = "closing" /\ scope' = ReopenedAttempt(scope) /\ UNCHANGED duties
  BY <1>0, <1>6, Reopening DEF RetirementInv, TypeOK, Scopes, ResponsibilityReads, ScopeOpens
<1>7. CASE scope.state = "closing" /\ scope' = SettledAs(scope, "retired")
  BY <1>0, <1>7, Settling
<1>8. CASE scope' = SettledAs(scope, "abandoned")
  BY <1>0, <1>8, Settling
<1>9. ASSUME NEW j \in Jobs, scope.state = "open", BeginIn(j)
      PROVE  \/ ScopeKept
             \/ scope.state = "open" /\ scope'.state = "closing" /\ scope'.epoch = scope.epoch
  <2>1. CASE scope' = Attempted(scope, dispatch_cursor, j)
    BY <1>0, <1>9, <2>1, Attempting
  <2>2. CASE scope' = [scope EXCEPT !.pacing = "running"]
    BY <1>0, <1>9, <2>2 DEF Scopes, Pacings, ScopeKept
  <2> QED
    BY <1>9, <2>1, <2>2 DEF BeginIn
<1>10. CASE GrowIdle \/ BackoffEnds \/ AttemptTimesOut
  BY <1>0, <1>10 DEF GrowIdle, BackoffEnds, AttemptTimesOut, Scopes, Pacings, ScopeKept
<1>11. ASSUME NEW j \in Jobs, ManagerStep(j)
       PROVE  UNCHANGED scope \/ EnsureIn \/ (scope.state = "open" /\ BeginIn(j))
  BY <1>11 DEF ManagerStep, Activate, Occurrence, BeginClose, ClosingTurn, Dispatch
<1>12. ASSUME NEW j \in Jobs, DeliveryStep(j)
       PROVE  \/ UNCHANGED scope \/ Activity
              \/ scope.state = "closing" /\ scope' = ReopenedAttempt(scope) /\ UNCHANGED duties
              \/ scope.state = "closing" /\ scope' = SettledAs(scope, "retired")
  BY <1>12 DEF DeliveryStep, Claim, GiveBack, SettleWork, SettleClose, SettlePage, Lapse
<1>13. ASSUME NEW j \in Jobs, JournalStep(j) PROVE UNCHANGED scope
  BY <1>13 DEF JournalStep, BeginWrite, CommitWork, Submit, Confirm, manager
<1>14. ASSUME NEW h \in Hosts, HostStep(h)
       PROVE  UNCHANGED scope \/ (scope.state \in {"open", "closing", "retired"} /\ Reopen)
  BY <1>14 DEF HostStep, Accept, Fenced, Unestablished, HostRestart, Establish, Install, manager
<1>15. CASE Ensure \/ Disable \/ NoteIngress \/ ExpireClose \/ Abandon
  BY <1>15, <1>1, <1>2, <1>4, <1>6, <1>8 DEF Ensure, Disable, NoteIngress, ExpireClose, Abandon
<1>16. CASE (\E idle \in BOOLEAN : CommitClose(idle)) \/ Rollback
            \/ (\E k \in DutyKinds : DutyFallsDue(k)) \/ UNCHANGED vars
  BY <1>16, <1>1 DEF CommitClose, Rollback, DutyFallsDue, vars, manager
<1> QED
  BY <1>1, <1>2, <1>3, <1>5, <1>6, <1>7, <1>9, <1>10, <1>11, <1>12, <1>13, <1>14, <1>15, <1>16
     DEF Next

\* An epoch that retired never opens again, and nothing leaves abandonment.
THEOREM EpochsAdvance == Spec => EpochsMoveOn
<1> DEFINE Moved == /\ scope.epoch <= scope'.epoch
                    /\ scope.state = "retired" /\ scope'.state \in {"open", "closing"}
                          => scope'.epoch > scope.epoch
                    /\ scope.state = "abandoned" => scope'.state = "abandoned"
<1>1. RetirementInv /\ [Next]_vars => [Moved]_vars
  BY ScopeMoves DEF ScopeKept, ScopeOpens, RetirementInv, TypeOK, Scopes
<1> QED
  BY <1>1, RetirementInvariant, PTL DEF Spec, EpochsMoveOn

\* The manager, the journal and the hosts agree on the responsibility.
THEOREM Consistent == Spec => ScopeConsistent
  BY TypeCorrect, RetiredFenced, EpochsIssued, ScopeReads, MaintenanceUnique,
     EpochsAdvance, PTL DEF ScopeConsistent
=============================================================================
