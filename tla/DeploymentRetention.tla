------------------------ MODULE DeploymentRetention ------------------------
(***************************************************************************)
(* Who keeps the code of one app deployment: Control's catalog with its    *)
(* hold ledger and collector (zeroship-control catalog.rs, publisher.rs,   *)
(* deploy_retention.rs; zeroship-workflow-manager deployments/mod.rs), the *)
(* manager's queue hold (retention.rs) and the creator journal's hold      *)
(* (zeroship-workflow deployment_retention.rs, hold_release.rs).           *)
(*                                                                         *)
(* Three databases, so three kinds of transaction, and calls between them  *)
(* that are lost, repeated, delayed and overtaken: a request to the ledger *)
(* and its reply stay in the network for ever and may arrive at any time.  *)
(* A holder that crashes between its transactions resumes from its intent, *)
(* which is all it remembers.                                              *)
(*                                                                         *)
(* Deployments share nothing that retention reads except the app's pointer *)
(* and its newest activation, so one is modelled and the others are        *)
(* AcceptOther and Deselect.                                               *)
(***************************************************************************)
EXTENDS Naturals, FiniteSets

CONSTANTS
    LifecycleRevisions, \* those of this deployment's activations
    Jobs,           \* other jobs that name it: advance, cron, restart latest
    Runs,           \* what the journal records against it: runs, generations
    ReleaseJobs,    \* release_hold jobs the manager can mint
    NoJob,
    GenerationBound \* bound: where hold generations are exhausted

ASSUME RetentionAssumption ==
    /\ LifecycleRevisions \subseteq Nat \ {0}
    /\ NoJob \notin ReleaseJobs
    /\ GenerationBound \in Nat \ {0}

Holders == {"queue", "journal"}
HoldStates == {"held", "released"}
IntentStates == {"acquiring", "held", "releasing", "released"}

VARIABLES
    \* Control
    retention_state,    \* app_deploys.retention_state, "absent" before its row
    routed,             \* the app's pointer names this deployment
    newest,             \* it is the app's most recently activated one
    pending,            \* revisions of its pending activation intents
    ledger_state,       \* the ledger's row of each holder, "none" before it
    ledger_generation,
    \* the network between the holders and Control
    requests, replies,
    \* each holder's own intent, "none" before it
    intent_state, intent_generation,
    \* manager
    accepted,           \* revisions of the activations accepted so far
    unsettled,          \* jobs naming the deployment: revisions and Jobs
    journal_state,      \* the duty to have the journal's hold released
    journal_job,
    releases,           \* release jobs: absent, ready, then their outcome
    \* creator journal
    deploy_state,       \* deploys.state, "none" before its row
    active,             \* deploys.active
    runs,
    verdicts            \* what executions of release jobs found, not yet settled

control == <<retention_state, routed, newest, pending, ledger_state,
             ledger_generation>>
network == <<requests, replies>>
intents == <<intent_state, intent_generation>>
duty == <<journal_state, journal_job, releases>>
manager == <<accepted, unsettled>>
journal == <<deploy_state, active, runs>>

retention == <<control, network, intents, manager, duty, journal, verdicts>>

Messages == [holder : Holders, generation : Nat, state : HoldStates]

-----------------------------------------------------------------------------
RetentionInit ==
    /\ retention_state = "absent" /\ routed = FALSE /\ newest = FALSE
    /\ pending = {}
    /\ ledger_state = [h \in Holders |-> "none"]
    /\ ledger_generation = [h \in Holders |-> 0]
    /\ requests = {} /\ replies = {}
    /\ intent_state = [h \in Holders |-> "none"]
    /\ intent_generation = [h \in Holders |-> 0]
    /\ accepted = {} /\ unsettled = {}
    /\ journal_state = "pending" /\ journal_job = NoJob
    /\ releases = [r \in ReleaseJobs |-> "absent"]
    /\ deploy_state = "none" /\ active = FALSE /\ runs = {}
    /\ verdicts = {}

-----------------------------------------------------------------------------
(* Control: the catalog.                                                   *)

\* acquire_deployment: the first acceptance records the deployment, a later
\* one is refused once its reclamation began.  The app's pointer names it.
SelectDeployment ==
    /\ retention_state \in {"absent", "available"}
    /\ retention_state' = "available"
    /\ routed' = TRUE /\ newest' = TRUE

\* accept and restore, with an activation intent in the same transaction.
Accept(r) ==
    /\ SelectDeployment
    /\ \A q \in pending \cup accepted : q < r
    /\ pending' = pending \cup {r}
    /\ UNCHANGED <<ledger_state, ledger_generation, network, intents, manager, duty,
                   journal, verdicts>>

\* accept of an archived app, or with no workflows to install or to remove.
AcceptUnpublished ==
    /\ SelectDeployment
    /\ UNCHANGED <<pending, ledger_state, ledger_generation, network, intents, manager,
                   duty, journal, verdicts>>

\* accept of another deployment of the app.
AcceptOther ==
    /\ routed
    /\ routed' = FALSE /\ newest' = FALSE
    /\ UNCHANGED <<retention_state, pending, ledger_state, ledger_generation, network,
                   intents, manager, duty, journal, verdicts>>

\* publisher.rs, confirm: the manager answered the activation.
Acknowledge(r) ==
    /\ r \in pending /\ r \in accepted
    /\ pending' = pending \ {r}
    /\ UNCHANGED <<retention_state, routed, newest, ledger_state, ledger_generation,
                   network, intents, manager, duty, journal, verdicts>>

\* Fault: a collector that does not look for unacknowledged activations.
FenceIgnoringIntents ==
    /\ ~routed /\ ~newest
    /\ retention_state = "available"
    /\ \A h \in Holders : ledger_state[h] # "held"
    /\ retention_state' = "reclaiming"
    /\ UNCHANGED <<routed, newest, pending, ledger_state, ledger_generation, network,
                   intents, manager, duty, journal, verdicts>>

\* deploy_retention.rs, fence with fence_reclamation, however old the
\* activation.
Fence ==
    /\ ~routed /\ ~newest /\ pending = {}
    /\ retention_state = "available"
    /\ \A h \in Holders : ledger_state[h] # "held"
    /\ retention_state' = "reclaiming"
    /\ UNCHANGED <<routed, newest, pending, ledger_state, ledger_generation, network,
                   intents, manager, duty, journal, verdicts>>

\* finish_reclamation, after the manifest is deleted.
FinishReclamation ==
    /\ retention_state = "reclaiming"
    /\ retention_state' = "deleted"
    /\ UNCHANGED <<routed, newest, pending, ledger_state, ledger_generation, network,
                   intents, manager, duty, journal, verdicts>>

-----------------------------------------------------------------------------
(* Control: the ledger.                                                    *)

\* Fault: a hold is taken again under the generation it was given back with.
AdmitsSameGeneration(m) ==
    LET state == ledger_state[m.holder]
        generation == ledger_generation[m.holder]
    IN  /\ m.state = "held" => retention_state = "available"
        /\ \/ state = "none" /\ m.state = "held" /\ m.generation = 1
           \/ state # "none" /\ generation = m.generation

\* change: the transitions the ledger takes.  A repeated request is answered
\* again, one that was overtaken is refused.
AdmitsChange(m) ==
    LET state == ledger_state[m.holder]
        generation == ledger_generation[m.holder]
    IN  /\ m.state = "held" => retention_state = "available"
        /\ \/ state = "none" /\ m.state = "held" /\ m.generation = 1
           \/ state = m.state /\ generation = m.generation
           \/ state = "held" /\ m.state = "released" /\ generation = m.generation
           \/ state = "released" /\ m.state = "held" /\ m.generation = generation + 1

Change(m) ==
    /\ m \in requests
    /\ AdmitsChange(m)
    /\ ledger_state' = [ledger_state EXCEPT ![m.holder] = m.state]
    /\ ledger_generation' = [ledger_generation EXCEPT ![m.holder] = m.generation]
    /\ replies' = replies \cup {m}
    /\ UNCHANGED <<retention_state, routed, newest, pending, requests, intents, manager,
                   duty, journal, verdicts>>

-----------------------------------------------------------------------------
(* The intents of both holders.                                            *)

\* The first transaction of an acquisition (ensure_deployment_for,
\* acquire_deployment_hold_checked): a fresh generation, unless a hold is
\* there or on its way.  A release under way refuses it.
BeginAcquire(h) ==
    /\ intent_state[h] \in {"none", "released"}
    /\ intent_generation[h] < GenerationBound
    /\ intent_state' = [intent_state EXCEPT ![h] = "acquiring"]
    /\ intent_generation' = [intent_generation EXCEPT ![h] = @ + 1]

\* Fault: the request copies the state of the intent.
ReconcileVerbatim(h) ==
    /\ intent_state[h] \in {"acquiring", "releasing"}
    /\ (h = "queue" /\ intent_state[h] = "releasing") => unsettled = {}
    /\ requests' = requests \cup
          {[holder |-> h, generation |-> intent_generation[h], state |-> intent_state[h]]}
    /\ UNCHANGED <<control, replies, intents, manager, duty, journal, verdicts>>

\* Fault: a sweep that only looks for acquisitions.
ReconcileAcquisitions(h) ==
    /\ intent_state[h] = "acquiring"
    /\ requests' = requests \cup
          {[holder |-> h, generation |-> intent_generation[h], state |-> "held"]}
    /\ UNCHANGED <<control, replies, intents, manager, duty, journal, verdicts>>

\* reconcile_for and reconcile_deployment_hold_checked, up to the call: what
\* the intent asks for, under its generation.  The queue also rechecks that
\* nothing depends on a deployment it releases.
Reconcile(h) ==
    /\ intent_state[h] \in {"acquiring", "releasing"}
    /\ (h = "queue" /\ intent_state[h] = "releasing") => unsettled = {}
    /\ requests' = requests \cup
          {[holder |-> h, generation |-> intent_generation[h],
            state |-> IF intent_state[h] = "acquiring" THEN "held" ELSE "released"]}
    /\ UNCHANGED <<control, replies, intents, manager, duty, journal, verdicts>>

\* matches_transition.
MatchesTransition(state, desired) ==
    state \in IF desired = "held" THEN {"acquiring", "held"} ELSE {"releasing", "released"}

\* Fault: an acknowledgement applied to whatever generation is current.
ConfirmAnyGeneration(m) ==
    /\ m \in replies
    /\ MatchesTransition(intent_state[m.holder], m.state)
    /\ intent_state' = [intent_state EXCEPT ![m.holder] = m.state]
    /\ UNCHANGED <<control, network, intent_generation, manager, duty, journal, verdicts>>

\* The last transaction of both reconcilers: a late acknowledgement of an
\* overtaken generation or transition is refused.
Confirm(m) ==
    /\ m \in replies
    /\ m.generation = intent_generation[m.holder]
    /\ MatchesTransition(intent_state[m.holder], m.state)
    /\ (m.holder = "queue" /\ m.state = "released") => unsettled = {}
    /\ intent_state' = [intent_state EXCEPT ![m.holder] = m.state]
    /\ UNCHANGED <<control, network, intent_generation, manager, duty, journal, verdicts>>

-----------------------------------------------------------------------------
(* The manager.                                                            *)

\* Fault: a reacquisition that keeps the journal duty as it stands.
EnsureDeploymentKeepingDuty ==
    /\ BeginAcquire("queue")
    /\ UNCHANGED <<control, network, manager, duty, journal, verdicts>>

\* ensure_deployment_for, whether or not the catalog has committed the
\* deployment.  A reacquisition also starts the journal duty over.
EnsureDeployment ==
    /\ BeginAcquire("queue")
    /\ journal_state' = "pending" /\ journal_job' = NoJob
    /\ UNCHANGED <<control, network, manager, releases, journal, verdicts>>

\* Scheduler::activate: the activation's job is published under the hold, its
\* revision above every one accepted before.
ActivateHeld(r) ==
    /\ r \in pending
    /\ \A q \in accepted : q < r
    /\ intent_state["queue"] = "held"
    /\ accepted' = accepted \cup {r}
    /\ unsettled' = unsettled \cup {r}
    /\ UNCHANGED <<control, network, intents, duty, journal, verdicts>>

\* submit, dispatch and manage: any other job that names the deployment.
Publish(j) ==
    /\ j \in Jobs
    /\ intent_state["queue"] = "held"
    /\ unsettled' = unsettled \cup {j}
    /\ UNCHANGED <<control, network, intents, accepted, duty, journal, verdicts>>

\* A job is settled, or the frontier of a schedule stops being live.
Settle(j) ==
    /\ j \in unsettled
    /\ unsettled' = unsettled \ {j}
    /\ UNCHANGED <<control, network, intents, accepted, duty, journal, verdicts>>

\* release_deployment, and maintain_deployment once its grace passed: both
\* close publication before Control is asked.
ReleaseDeployment ==
    /\ intent_state["queue"] = "held"
    /\ unsettled = {}
    /\ intent_state' = [intent_state EXCEPT !["queue"] = "releasing"]
    /\ UNCHANGED <<control, network, intent_generation, manager, duty, journal, verdicts>>

\* maintain_journal with the duty pending: one release job is published.
PublishRelease(r) ==
    /\ intent_state["queue"] = "released"
    /\ journal_state = "pending"
    /\ unsettled = {}
    /\ releases[r] = "absent"
    /\ journal_state' = "releasing" /\ journal_job' = r
    /\ releases' = [releases EXCEPT ![r] = "ready"]
    /\ UNCHANGED <<control, network, intents, manager, journal, verdicts>>

\* maintain_journal with the duty releasing: settled_release, finish_journal.
FinishJournal ==
    /\ intent_state["queue"] = "released"
    /\ journal_state = "releasing"
    /\ releases[journal_job] \in {"completed", "waiting"}
    /\ journal_state' = IF releases[journal_job] = "completed" THEN "released"
                                                             ELSE "pending"
    /\ journal_job' = NoJob
    /\ UNCHANGED <<control, network, intents, manager, releases, journal, verdicts>>

-----------------------------------------------------------------------------
(* The creator journal.                                                    *)

\* acquire_deployment_hold_checked: only delivered activation, cron and
\* restart jobs acquire, each naming the deployment while it executes.
AcquireHold ==
    /\ unsettled # {}
    /\ BeginAcquire("journal")
    /\ UNCHANGED <<control, network, manager, duty, journal, verdicts>>

\* record_verified, under admission_generation: activation, cron and restart
\* jobs register or repair the deployment; an activation also selects it.
Register(selects) ==
    /\ unsettled # {}
    /\ intent_state["journal"] = "held"
    /\ deploy_state' = "available"
    /\ active' = (active \/ selects)
    /\ UNCHANGED <<control, network, intents, manager, duty, runs, verdicts>>

\* select: an activation of another deployment of the app.
Deselect ==
    /\ active
    /\ active' = FALSE
    /\ UNCHANGED <<control, network, intents, manager, duty, deploy_state, runs,
                   verdicts>>

\* park_deployment: an artifact turned out damaged.
Park ==
    /\ deploy_state = "available"
    /\ deploy_state' = "unavailable"
    /\ UNCHANGED <<control, network, intents, manager, duty, active, runs, verdicts>>

\* insert_run and a restart's generation: a root run on the active deployment,
\* a child or a continuation on its parent's, a cron occurrence or a restart
\* under admission_generation.  Nothing deletes a run or a generation.
StartRun(r) ==
    /\ deploy_state = "available"
    /\ active \/ runs # {} \/ intent_state["journal"] = "held"
    /\ runs' = runs \cup {r}
    /\ UNCHANGED <<control, network, intents, manager, duty, deploy_state, active,
                   verdicts>>

\* Fault: closing admission without counting what the journal retains.
ReleaseHoldRetained ==
    /\ \E r \in ReleaseJobs : releases[r] = "ready"
    /\ intent_state["journal"] = "held"
    /\ ~active
    /\ deploy_state' = IF deploy_state = "none" THEN "none" ELSE "retiring"
    /\ intent_state' = [intent_state EXCEPT !["journal"] = "releasing"]
    /\ UNCHANGED <<control, network, intent_generation, manager, duty, active, runs,
                   verdicts>>

\* release_deployment_hold_checked with close_admission, executed for some
\* delivered release job, of this duty or of one long reset.
ReleaseHold ==
    /\ \E r \in ReleaseJobs : releases[r] = "ready"
    /\ intent_state["journal"] = "held"
    /\ ~active /\ runs = {}
    /\ deploy_state' = IF deploy_state = "none" THEN "none" ELSE "retiring"
    /\ intent_state' = [intent_state EXCEPT !["journal"] = "releasing"]
    /\ UNCHANGED <<control, network, intent_generation, manager, duty, active, runs,
                   verdicts>>

\* release_hold_job: what an execution found.  A hold never taken or already
\* given back completes the job; the journal, the ledger or an overtaken
\* acknowledgement may refuse it.
Verdict(r, outcome) ==
    /\ releases[r] = "ready"
    /\ outcome = "completed" => intent_state["journal"] \in {"none", "released"}
    /\ verdicts' = verdicts \cup {[job |-> r, outcome |-> outcome]}
    /\ UNCHANGED <<control, network, intents, manager, duty, journal>>

\* The verdict becomes the job's receipt and its settlement, however late.
\* The first receipt is the one every later execution replays.
SettleRelease(v) ==
    /\ v \in verdicts
    /\ releases[v.job] = "ready"
    /\ releases' = [releases EXCEPT ![v.job] = v.outcome]
    /\ verdicts' = {u \in verdicts : u.job # v.job}
    /\ UNCHANGED <<control, network, intents, manager, journal_state, journal_job,
                   journal>>

-----------------------------------------------------------------------------
Verdicts == [job : ReleaseJobs, outcome : {"completed", "waiting"}]

CatalogNext ==
    \/ \E r \in LifecycleRevisions : Accept(r) \/ Acknowledge(r)
    \/ AcceptUnpublished \/ AcceptOther \/ Fence \/ FinishReclamation

HoldNext ==
    \/ \E m \in requests : Change(m)
    \/ \E m \in replies : Confirm(m)
    \/ \E h \in Holders : Reconcile(h)

ManagerNext ==
    \/ EnsureDeployment \/ ReleaseDeployment
    \/ \E r \in LifecycleRevisions : ActivateHeld(r)
    \/ \E j \in Jobs : Publish(j)
    \/ \E j \in unsettled : Settle(j)
    \/ \E r \in ReleaseJobs : PublishRelease(r)
    \/ FinishJournal

JournalNext ==
    \/ AcquireHold \/ Deselect \/ Park \/ ReleaseHold
    \/ \E selects \in BOOLEAN : Register(selects)
    \/ \E r \in Runs : StartRun(r)
    \/ \E r \in ReleaseJobs, outcome \in {"completed", "waiting"} : Verdict(r, outcome)
    \/ \E v \in verdicts : SettleRelease(v)

RetentionNext == CatalogNext \/ HoldNext \/ ManagerNext \/ JournalNext

RetentionSpec == RetentionInit /\ [][RetentionNext]_retention

\* The manager's driver revisits unfinished intents on every lap of its
\* retention lane, the journal's reconciliation sweep on every page, and a
\* call that is retried for ever is answered in the end.
Fairness ==
    /\ \A h \in Holders : WF_retention(Reconcile(h))
    /\ \A m \in [holder : Holders, generation : 1..GenerationBound, state : HoldStates] :
          WF_retention(Change(m)) /\ WF_retention(Confirm(m))

FairRetention == RetentionSpec /\ Fairness

-----------------------------------------------------------------------------
(* Properties.                                                             *)

\* Catalog, ledger, intents and journal hold what their columns admit.
RetentionTypeOK ==
    /\ retention_state \in {"absent", "available", "reclaiming", "deleted"}
    /\ routed \in BOOLEAN /\ newest \in BOOLEAN
    /\ pending \subseteq LifecycleRevisions /\ accepted \subseteq LifecycleRevisions
    /\ ledger_state \in [Holders -> HoldStates \cup {"none"}]
    /\ ledger_generation \in [Holders -> Nat]
    /\ requests \subseteq Messages /\ replies \subseteq Messages
    /\ intent_state \in [Holders -> IntentStates \cup {"none"}]
    /\ intent_generation \in [Holders -> Nat]
    /\ unsettled \subseteq LifecycleRevisions \cup Jobs
    /\ journal_state \in {"pending", "releasing", "released"}
    /\ journal_job \in ReleaseJobs \cup {NoJob}
    /\ releases \in [ReleaseJobs -> {"absent", "ready", "completed", "waiting"}]
    /\ deploy_state \in {"none", "available", "unavailable", "retiring"}
    /\ active \in BOOLEAN /\ runs \subseteq Runs
    /\ verdicts \subseteq Verdicts

\* What a holder believes it holds, the ledger holds, under the same
\* generation, whichever requests and replies are still in the network
\* (change, the second transaction of both reconcilers).
HeldIsLedgered ==
    \A h \in Holders : intent_state[h] = "held" =>
        ledger_state[h] = "held" /\ ledger_generation[h] = intent_generation[h]

\* A committed activation finds its code: what the collector calls
\* impossible, a pending activation of a fenced deployment, is
\* (deploy_retention.rs, fence).
PendingActivationsKeepCode == pending # {} => retention_state = "available"

\* The manager records the journal's hold as released only while the journal
\* has none, though the job that says so may have run, been repeated or been
\* settled across any number of reacquisitions (finish_journal,
\* ensure_deployment_for).
JournalDutyTruthful ==
    journal_state = "released" => intent_state["journal"] \in {"none", "released"}

\* Everything that runs, will run or may be started from the code.
Dependents ==
    ({"job"} \X unsettled) \cup ({"run"} \X runs) \cup (IF active THEN {<<"active">>} ELSE {})

Custody == INSTANCE CodeCustody
    WITH Work <- ({"job"} \X (LifecycleRevisions \cup Jobs)) \cup ({"run"} \X Runs) \cup {<<"active">>},
         dependents <- Dependents,
         reclaimed <- retention_state \in {"reclaiming", "deleted"}

\* No job, run or active deployment ever depends on code that may be deleted,
\* and reclaimed code stays reclaimed: retention implements CodeCustody.
CodeOutlivesWork == Custody!Spec

\* A release that was begun is finished, through lost calls and restarts.
ReleasesSettle ==
    \A h \in Holders : intent_state[h] = "releasing" ~> intent_state[h] = "released"

\* An acquisition that was begun is finished while there is code to hold: once
\* the catalog committed it, and unless it was reclaimed before the call reached
\* the ledger.
AcquisitionsSettle ==
    \A h \in Holders : intent_state[h] = "acquiring" ~>
        (intent_state[h] = "held" \/ retention_state # "available")

\* Holds are honoured: holders believe of the ledger only what it says, a
\* pending activation keeps its code although no hold names it yet, and the
\* manager's duty tells the truth about the journal's hold (change, confirm,
\* fence, ensure_deployment).
HoldsHonoured ==
    RetentionTypeOK /\ HeldIsLedgered /\ PendingActivationsKeepCode /\ JournalDutyTruthful

\* An intent that was begun is finished (reconcile_for, maintain_deployment).
IntentsSettle == ReleasesSettle /\ AcquisitionsSettle
=============================================================================
