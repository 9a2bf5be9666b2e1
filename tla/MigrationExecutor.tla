-------------------------- MODULE MigrationExecutor --------------------------
(* The migration executor on PostgreSQL: apply, rollback and squash of a      *)
(* project's migrations under its advisory lock                               *)
(* (crates/zeroship-migrate-core/src/apply/executor.rs, ops/squash.rs, and    *)
(* crates/zeroship-migrate-postgres/src/backend/session.rs, journal_sql.rs).  *)
(*                                                                            *)
(* A version is what the author wrote once: what it depends on, what it       *)
(* supersedes, how its `up` may be run.  A file's checksum is its edition.    *)
(* The schema is abstracted to one object per version that is not a squash;   *)
(* a squash builds the objects of the versions it supersedes.  The planning   *)
(* reads are one step: they run under the project lock and on its journal.    *)
EXTENDS Naturals, Sequences, FiniteSets, FiniteSetsExt, SequencesExt

CONSTANTS
    Versions,           \* a set of naturals: version order is their order
    Deployers,          \* the sessions deploys run on
    Projects,           \* the projects looked at, as Project describes them
    Nobody

Flags == {"two_phase", "replayable", "guarded", "conditional", "repeatable",
          "reversible", "expand", "contract", "editable"}
Bounds == {"max_edits", "max_rollbacks", "max_faults"}

\* A project: its versions, what each depends on and supersedes; the versions
\* with flags.transactional = false and, of those, the ups crash recovery may run
\* again; those with an existence guard, with a precondition, and of each other
\* kind; the sessions that deploy it, the sets they supply and the rollback
\* targets they name (<<"all">>, <<"steps", n>>, <<"to", v>>); and bounds on edits,
\* on rollbacks and squash records, and on crashes and failed statements.
Project(p) ==
    /\ p.versions \subseteq Versions /\ p.deployers \subseteq Deployers
    /\ \A f \in Flags : p[f] \subseteq p.versions
    /\ \A f \in {"depends_on", "supersedes"} : p[f] \in [Versions -> SUBSET p.versions]
    /\ p.batches \subseteq SUBSET p.versions
    /\ \A b \in Bounds : p[b] \in Nat
    /\ p.replayable \subseteq p.two_phase
    /\ p.targets \subseteq {<<"all">>} \cup ({"steps"} \X Nat) \cup ({"to"} \X Versions)

\* check_repeatable_wellformed.
RepeatablesWellFormed(p) ==
    /\ p.repeatable \cap (p.reversible \cup p.two_phase) = {}
    /\ \A v \in p.versions : IF v \in p.repeatable THEN p.supersedes[v] = {}
                             ELSE p.depends_on[v] \cap p.repeatable = {}

ASSUME CatalogueAssumption ==
    /\ Versions \subseteq Nat \ {0} /\ IsFiniteSet(Versions)
    /\ Nobody \notin Deployers
    /\ \A p \in Projects : Project(p) /\ RepeatablesWellFormed(p)

\* What a deploy may pass over: a version with a precondition, and whatever
\* depends on one it may pass over.
Skippable(p) == {v \in Versions : \A S \in SUBSET Versions :
    /\ p.conditional \subseteq S
    /\ \A w \in Versions : p.depends_on[w] \cap S # {} => w \in S
    => v \in S}

\* The projects the executor deploys as its journal says; the executor itself
\* refuses no other.  A squash runs in one transaction, is not undone, has no precondition
\* and no dependency, folds plain transactional versions, and precedes what
\* depends on those.  A repeatable has no existence guard and no repeatable that
\* may be passed over under it; a two-phase version has nothing such under it.
Orderly(p) ==
    /\ \A s \in Versions : p.supersedes[s] # {} =>
        /\ s \notin p.two_phase \cup p.reversible \cup p.conditional
        /\ p.depends_on[s] = {}
        /\ p.supersedes[s] \cap p.two_phase = {}
        /\ \A w \in p.supersedes[s] : p.supersedes[w] = {}
        /\ \A v \in Versions \ p.repeatable : p.depends_on[v] \cap p.supersedes[s] # {} => s < v
    /\ p.guarded \cap p.repeatable = {}
    /\ \A v \in p.two_phase : p.depends_on[v] \cap Skippable(p) = {}
    /\ \A v \in p.repeatable : p.depends_on[v] \cap p.repeatable \cap p.conditional = {}

VARIABLES
    project,            \* the project deployed; never changes
    edition,            \* the checksum of each file as its author has it
    schema,             \* [Objects -> {"absent", "invalid", "built"}]
    body,               \* which up built an object: <<version, checksum>>
    clobbered,          \* objects an up was run over that cannot run twice
    journal,            \* schema_migrations, in event_seq order
    inflight,           \* schema_migrations_inflight: the marker's checksum, or 0
    edges,              \* schema_migrations_supersedes
    lock,               \* the session the server granted the project lock to
    dirty,              \* what a session carries that is not its caller's
    work,               \* the operation a session is running
    edits, rollbacks, faults

vars == <<project, edition, schema, body, clobbered, journal, inflight, edges, lock, dirty,
          work, edits, rollbacks, faults>>

records == <<journal, inflight, edges>>
built == <<schema, body, clobbered>>
budgets == <<project, edits, rollbacks, faults>>

Objects == {v \in Versions : project.supersedes[v] = {}}

\* The objects an up builds: its own, or those of all it supersedes.
Builds[v \in Versions] ==
    IF project.supersedes[v] = {} THEN {v} ELSE UNION {Builds[w] : w \in project.supersedes[v]}

----------------------------------------------------------------------------
(* The journal, as its readers see it.                                      *)

Event(event, v, sum, kind) ==
    [event |-> event, version |-> v, checksum |-> sum, kind |-> kind]

\* The event_seq of a version's latest event, 0 when it has none.
Latest(v) == Max({0} \cup {i \in 1..Len(journal) : journal[i].version = v})

NetApplied == {v \in Versions : Latest(v) # 0 /\ journal[Latest(v)].event = "applied"}

Recorded(v) == journal[Latest(v)].checksum

superseded_versions ==
    {w \in Versions : \E s \in NetApplied :
        journal[Latest(s)].kind = "squash" /\ <<s, w>> \in edges}

Satisfied == NetApplied \cup superseded_versions

\* The markers `applied` reports: those of versions that are not net-applied.
Started == [v \in Versions |-> IF v \in NetApplied THEN 0 ELSE inflight[v]]

\* latest_completed_checksums of a repeatable, 0 when it never ran.
LatestRepeatable(v) ==
    LET runs == {i \in 1..Len(journal) :
                    journal[i].version = v /\ journal[i].kind = "repeatable"}
    IN IF runs = {} THEN 0 ELSE journal[Max(runs)].checksum

\* topo_order_version_tiebroken: the lowest version whose dependencies in the
\* set are out goes next.
TopoOrder[vs \in SUBSET Versions] ==
    LET ready == {v \in vs : project.depends_on[v] \cap vs = {}}
    IN IF ready = {} THEN <<>> ELSE <<Min(ready)>> \o TopoOrder[vs \ {Min(ready)}]

----------------------------------------------------------------------------
(* What an operation remembers while it runs.                               *)

Idle == [at |-> "idle", op |-> "none", files |-> <<>>, target |-> <<>>, force |-> FALSE,
         stage |-> "versioned", todo |-> <<>>, started |-> <<>>, skipped |-> {},
         result |-> "ok", report |-> {}]

Init ==
    /\ project \in Projects
    /\ edition = [v \in Versions |-> 1]
    /\ schema = [o \in Objects |-> "absent"]
    /\ body = [o \in Objects |-> <<>>]
    /\ clobbered = {}
    /\ journal = <<>> /\ inflight = [v \in Versions |-> 0] /\ edges = {}
    /\ lock = Nobody /\ dirty = [d \in Deployers |-> {}]
    /\ work = [d \in Deployers |-> Idle]
    /\ edits = 0 /\ rollbacks = 0 /\ faults = 0

\* A statement fails, or its reply is lost.
Fault == faults < project.max_faults /\ faults' = faults + 1 /\ UNCHANGED <<project, edits, rollbacks>>
NoFault == UNCHANGED budgets

Set(d, w) == work' = [work EXCEPT ![d] = w]
Goto(d, place) == Set(d, [work[d] EXCEPT !.at = place])
Batch(d) == DOMAIN work[d].files
Current(d) == Head(work[d].todo)

\* Where the body of an operation ends: only apply has settings to put back.
CloseOf(d) == IF work[d].op = "apply" THEN "restoring" ELSE "releasing"

Refuse(d, why) == Set(d, [work[d] EXCEPT !.at = CloseOf(d), !.result = why])

----------------------------------------------------------------------------
(* The lock bracket.                                                        *)

\* The operation is asked for; lift_statement_budget runs before the lock is
\* requested.  Without a server answer the lift may have taken effect.
Begin(d, op, batch, target, force) ==
    /\ d \in project.deployers
    /\ work[d].at = "idle"
    /\ LET asked == [Idle EXCEPT !.op = op, !.files = [v \in batch |-> edition[v]],
                                 !.target = target, !.force = force]
       IN \/ /\ Set(d, [asked EXCEPT !.at = "waiting"])
             /\ dirty' = [dirty EXCEPT ![d] = @ \cup {"timeouts"}]
             /\ UNCHANGED faults
          \/ /\ faults < project.max_faults /\ faults' = faults + 1
             /\ \E report \in SUBSET {"timeouts"} : \E took \in SUBSET report :
                 /\ Set(d, [asked EXCEPT !.at = "done", !.result = "error", !.report = report])
                 /\ dirty' = [dirty EXCEPT ![d] = @ \cup took]
    /\ UNCHANGED <<project, edition, built, records, lock, edits>>

Apply(d) == \E batch \in project.batches :
    Begin(d, "apply", batch, <<>>, FALSE) /\ UNCHANGED rollbacks

Rollback(d) == \E batch \in project.batches, target \in project.targets, force \in BOOLEAN :
    /\ rollbacks < project.max_rollbacks /\ rollbacks' = rollbacks + 1
    /\ Begin(d, "rollback", batch, target, force)

Squash(d) == \E s \in Versions :
    /\ project.supersedes[s] # {}
    /\ rollbacks < project.max_rollbacks /\ rollbacks' = rollbacks + 1
    /\ Begin(d, "squash", {s}, <<>>, FALSE)

TakeProjectLock(d) ==
    /\ work[d].at = "waiting" /\ lock = Nobody
    /\ lock' = d
    /\ Goto(d, "settling")
    /\ NoFault /\ UNCHANGED <<edition, built, records, dirty>>

\* The wait is cancelled; the server may grant the lock all the same.
LockWaitFails(d) ==
    /\ work[d].at = "waiting"
    /\ Set(d, [work[d] EXCEPT !.at = "dropping", !.result = "error"])
    /\ \/ lock # Nobody /\ NoFault /\ UNCHANGED lock
       \/ lock = Nobody /\ Fault /\ lock' \in {Nobody, d}
    /\ UNCHANGED <<edition, built, records, dirty>>

Unlocked(d) == IF lock = d THEN Nobody ELSE lock

\* Fault: the failed acquisition assumes that nothing was granted.
DropNothing(d) ==
    /\ work[d].at = "dropping" /\ Goto(d, "settling")
    /\ NoFault /\ UNCHANGED <<edition, built, records, lock, dirty>>

DropGrantFromFailedAcquire(d) ==
    /\ work[d].at = "dropping"
    /\ \/ lock' = Unlocked(d) /\ Goto(d, "settling") /\ NoFault
       \/ /\ Fault /\ lock' \in {lock, Unlocked(d)}
          /\ Set(d, [work[d] EXCEPT !.at = "settling", !.report = {"lock"}])
    /\ UNCHANGED <<edition, built, records, dirty>>

\* settle_lock_statement puts the caller's timeouts back.
SettleLockStatement(d) ==
    /\ work[d].at = "settling"
    /\ \/ /\ NoFault /\ dirty' = [dirty EXCEPT ![d] = @ \ {"timeouts"}]
          /\ Goto(d, IF work[d].result = "ok" THEN "planning" ELSE "done")
       \/ /\ Fault /\ dirty' \in {dirty, [dirty EXCEPT ![d] = @ \ {"timeouts"}]}
          /\ Set(d, [work[d] EXCEPT !.at = "done", !.result = "error",
                       !.report = @ \cup {"timeouts"}
                            \cup (IF work[d].result = "ok" THEN {"lock"} ELSE {})])
    /\ UNCHANGED <<edition, built, records, lock>>

\* A failed read.  A failed snapshot_session leaves nothing to restore.
ReadFails(d) ==
    /\ work[d].at = "planning" /\ Fault
    /\ \E next \in {CloseOf(d), "releasing"} :
        Set(d, [work[d] EXCEPT !.at = next, !.result = "error"])
    /\ UNCHANGED <<edition, built, records, lock, dirty>>

RestoreSession(d) ==
    /\ work[d].at = "restoring"
    /\ \/ /\ NoFault /\ dirty' = [dirty EXCEPT ![d] = @ \ {"settings"}]
          /\ Goto(d, "releasing")
       \/ /\ Fault /\ dirty' \in {dirty, [dirty EXCEPT ![d] = @ \ {"settings"}]}
          /\ Set(d, [work[d] EXCEPT !.at = "releasing", !.result = "error",
                                    !.report = @ \cup {"settings"}])
    /\ UNCHANGED <<edition, built, records, lock>>

ReleaseProjectLock(d) ==
    /\ work[d].at = "releasing"
    /\ \/ NoFault /\ lock' = Unlocked(d) /\ Goto(d, "done")
       \/ /\ Fault /\ lock' \in {lock, Unlocked(d)}
          /\ Set(d, [work[d] EXCEPT !.at = "done", !.result = "error", !.report = @ \cup {"lock"}])
    /\ UNCHANGED <<edition, built, records, dirty>>

\* The caller closes a session it was told to discard and keeps any other.
HandBack(d) ==
    /\ work[d].at = "done"
    /\ Set(d, Idle)
    /\ IF work[d].report = {} THEN UNCHANGED <<lock, dirty>>
       ELSE lock' = Unlocked(d) /\ dirty' = [dirty EXCEPT ![d] = {}]
    /\ NoFault /\ UNCHANGED <<edition, built, records>>

----------------------------------------------------------------------------
(* Planning an apply.                                                       *)

\* compare_applied_to_set: a net-applied file must be the one the journal has.
\* A repeatable's changed checksum is what makes it run again.
Drifted(files) == \E v \in DOMAIN files \cap NetApplied :
    v \notin project.repeatable /\ Recorded(v) # files[v]

\* check_expand_contract_gate: a pending contract's expand is net-applied.
ExpandMissing(batch) == \E c \in (batch \cap project.contract) \ NetApplied :
    \/ project.depends_on[c] = {}
    \/ \E e \in project.depends_on[c] \ NetApplied : e \in project.expand \/ e \notin batch

PendingSquashes(batch) == {s \in batch \ NetApplied : project.supersedes[s] # {}}

\* check_no_overlapping_squashes and check_squash_all_or_none.
SquashRefused(batch) == \E s \in PendingSquashes(batch) :
    \/ \E t \in PendingSquashes(batch) \ {s} : project.supersedes[s] \cap project.supersedes[t] # {}
    \/ project.supersedes[s] \cap Satisfied # {}

\* compute_superseded: covered by the journal, or by a squash of the batch.
Covered(batch) == superseded_versions \cup UNION {project.supersedes[s] : s \in batch}

\* Fault: pending is what the journal lacks, not what was supplied.
PendingOfCatalogue(batch) == project.versions \ (NetApplied \cup Covered(batch) \cup project.repeatable)

PendingOf(batch) == batch \ (NetApplied \cup Covered(batch) \cup project.repeatable)

\* order_pending: every dependency is in the batch or met already.
Dangling(batch) ==
    \/ \E v \in PendingOf(batch) :
        ~ (project.depends_on[v] \subseteq PendingOf(batch) \cup NetApplied \cup Covered(batch))
    \/ Len(TopoOrder[PendingOf(batch)]) # Cardinality(PendingOf(batch))

PlanApply(d) ==
    /\ work[d].at = "planning" /\ work[d].op = "apply"
    /\ LET batch == Batch(d) \ project.repeatable IN
       IF Drifted(work[d].files) THEN Refuse(d, "drift")
       ELSE IF ExpandMissing(batch) THEN Refuse(d, "expand")
       ELSE IF SquashRefused(batch) THEN Refuse(d, "squash")
       ELSE IF Dangling(batch) THEN Refuse(d, "dependency")
       ELSE Set(d, [work[d] EXCEPT !.at = "running", !.stage = "versioned",
                        !.todo = TopoOrder[PendingOf(batch)], !.started = Started])
    /\ NoFault /\ UNCHANGED <<edition, built, records, lock, dirty>>

\* The repeatable phase reads the journal again and orders its own; a
\* dependency outside it is net-applied or covered.
PlanRepeatables(d) ==
    /\ work[d].at = "running" /\ work[d].op = "apply"
    /\ work[d].stage = "versioned" /\ work[d].todo = <<>>
    /\ LET reps == Batch(d) \cap project.repeatable IN
       IF \E v \in reps : ~ (project.depends_on[v] \subseteq reps \cup Satisfied)
            \/ Len(TopoOrder[reps]) # Cardinality(reps)
       THEN Refuse(d, "dependency")
       ELSE Set(d, [work[d] EXCEPT !.stage = "repeatable", !.todo = TopoOrder[reps],
                                   !.started = Started])
    /\ NoFault /\ UNCHANGED <<edition, built, records, lock, dirty>>

ApplyEnds(d) ==
    /\ work[d].at = "running" /\ work[d].todo = <<>>
    /\ work[d].op = "apply" => work[d].stage = "repeatable"
    /\ Goto(d, CloseOf(d))
    /\ NoFault /\ UNCHANGED <<edition, built, records, lock, dirty>>

----------------------------------------------------------------------------
(* Executing one pending migration.                                         *)

Running(d, op) == work[d].at = "running" /\ work[d].op = op /\ work[d].todo # <<>>

HadInflight(d) == work[d].started[Current(d)] # 0

\* Fault: a marker is only there or not.
MarkerAnonymous(d) == FALSE

\* The marker names the body that half ran; another one is not run over it.
MarkerMismatch(d) ==
    work[d].stage = "versioned" /\ HadInflight(d)
        /\ work[d].started[Current(d)] # work[d].files[Current(d)]

\* The repeatable phase passes over a file it has run already.
Unchanged(d) ==
    work[d].stage = "repeatable" /\ LatestRepeatable(Current(d)) = work[d].files[Current(d)]

\* Fault: only a version's own precondition skips it.
DepNeverSkipped(d) == FALSE

DepSkipped(d) ==
    work[d].stage = "versioned" /\ project.depends_on[Current(d)] \cap work[d].skipped # {}

Advance(d) == [work[d] EXCEPT !.at = "running", !.todo = Tail(@)]

\* Fault: an unmet precondition skips a version that half ran.
SkipOneMarkedToo(d) ==
    /\ Running(d, "apply") /\ ~ MarkerMismatch(d)
    /\ \/ Unchanged(d) /\ Set(d, Advance(d))
       \/ /\ ~ Unchanged(d)
          /\ Current(d) \in project.conditional \/ DepSkipped(d)
          /\ Set(d, [Advance(d) EXCEPT !.skipped = @ \cup {Current(d)}])
    /\ NoFault /\ UNCHANGED <<edition, built, records, lock, dirty>>

\* Passed over: unchanged, a precondition says skip, or a dependency was
\* skipped.  An armed marker outranks the last two.
SkipOne(d) ==
    /\ Running(d, "apply") /\ ~ MarkerMismatch(d)
    /\ \/ Unchanged(d) /\ Set(d, Advance(d))
       \/ /\ ~ Unchanged(d) /\ ~ HadInflight(d)
          /\ Current(d) \in project.conditional \/ DepSkipped(d)
          /\ Set(d, [Advance(d) EXCEPT !.skipped = @ \cup {Current(d)}])
    /\ NoFault /\ UNCHANGED <<edition, built, records, lock, dirty>>

\* The marker is another body's, a Halt precondition is unmet, or an up that
\* half ran cannot be run again.
HaltOne(d) ==
    /\ Running(d, "apply")
    /\ \/ MarkerMismatch(d) /\ Refuse(d, "drift")
       \/ /\ ~ MarkerMismatch(d) /\ ~ Unchanged(d)
          /\ Current(d) \in project.conditional /\ (HadInflight(d) \/ ~ DepSkipped(d))
          /\ Refuse(d, "precondition")
    /\ NoFault /\ UNCHANGED <<edition, built, records, lock, dirty>>

Runs(d) ==
    /\ Running(d, "apply") /\ ~ MarkerMismatch(d) /\ ~ Unchanged(d)
    /\ HadInflight(d) \/ ~ DepSkipped(d)

\* What the server does with an up.  It needs the objects of what it depends
\* on; a repeatable replaces, a replayable one does nothing over an object that
\* is there, INVALID or not; any other builds once.
CanRun(v) == \A w \in project.depends_on[v] : \A o \in Builds[w] : schema[o] = "built"

UpEffect(v, sum, outcome) ==
    LET keep(o) == v \in project.replayable /\ schema[o] # "absent" IN
    /\ schema' = [o \in Objects |-> IF o \in Builds[v] /\ ~ keep(o) THEN outcome ELSE schema[o]]
    /\ body' = [o \in Objects |->
                    IF o \in Builds[v] /\ ~ keep(o) THEN <<v, sum>> ELSE body[o]]
    /\ clobbered' = clobbered \cup
            {o \in Builds[v] : v \notin project.repeatable \cup project.replayable /\ schema[o] # "absent"}

\* The existence guard finds the object in its declared shape.
GuardSatisfied(v) == v \in project.guarded /\ \A o \in Builds[v] : schema[o] = "built"

KindOf(d) ==
    IF work[d].stage = "repeatable" THEN "repeatable"
    ELSE IF project.supersedes[Current(d)] = {} THEN "apply" ELSE "squash"

\* Fault: the squash edges are left to a statement of their own.
JournalCompletedBare(v, sum, kind) ==
    /\ journal' = Append(journal, Event("applied", v, sum, kind)) /\ UNCHANGED edges

JournalCompleted(v, sum, kind) ==
    /\ journal' = Append(journal, Event("applied", v, sum, kind))
    /\ edges' = edges \cup ({v} \X project.supersedes[v])

\* One transaction: the up, the completed row and the squash edges.  A lost
\* reply to COMMIT fails the apply although everything landed.
ApplyTransactional(d) ==
    /\ Runs(d) /\ Current(d) \notin project.two_phase
    /\ LET v == Current(d) sum == work[d].files[v]
           up == IF GuardSatisfied(v) THEN UNCHANGED built ELSE UpEffect(v, sum, "built")
       IN \/ /\ GuardSatisfied(v) \/ CanRun(v)
             /\ up /\ JournalCompleted(v, sum, KindOf(d)) /\ UNCHANGED inflight
             /\ \/ NoFault /\ Set(d, Advance(d))
                \/ Fault /\ Refuse(d, "error")
          \/ Fault /\ Refuse(d, "error") /\ UNCHANGED <<built, records>>
          \/ /\ ~ GuardSatisfied(v) /\ ~ CanRun(v)
             /\ NoFault /\ Refuse(d, "missing object") /\ UNCHANGED <<built, records>>
    /\ UNCHANGED <<edition, lock, dirty>>

(* The two-phase path: every statement of it commits on its own.            *)

\* Faults: any up is run again; none is; the marker is cleared to be armed anew.
RecoverAnything(d) ==
    /\ Runs(d) /\ Current(d) \in project.two_phase
    /\ dirty' = [dirty EXCEPT ![d] = @ \cup {"settings"}]
    /\ LET v == Current(d) IN
       IF GuardSatisfied(v) THEN Goto(d, "finalizing") /\ UNCHANGED built
       ELSE /\ Goto(d, "arming")
            /\ schema' = [o \in Objects |->
                    IF HadInflight(d) /\ o \in Builds[v] \cap project.replayable /\ schema[o] = "invalid"
                    THEN "absent" ELSE schema[o]]
            /\ UNCHANGED <<body, clobbered>>
    /\ NoFault /\ UNCHANGED <<edition, records, lock>>

RecoverNothing(d) ==
    /\ Runs(d) /\ Current(d) \in project.two_phase
    /\ dirty' = [dirty EXCEPT ![d] = @ \cup {"settings"}]
    /\ IF HadInflight(d) THEN Refuse(d, "unsafe") ELSE Goto(d, "arming")
    /\ NoFault /\ UNCHANGED <<edition, built, records, lock>>

RecoverDisarmed(d) ==
    /\ Runs(d) /\ Current(d) \in project.two_phase
    /\ HadInflight(d) => Current(d) \in project.replayable
    /\ dirty' = [dirty EXCEPT ![d] = @ \cup {"settings"}] /\ Goto(d, "arming")
    /\ inflight' = [inflight EXCEPT ![Current(d)] = 0]
    /\ NoFault /\ UNCHANGED <<edition, built, journal, edges, lock>>

\* configure_session_non_txn, the existence guard, and recovery: an up that
\* half ran and cannot be run again is refused with its marker in place; for
\* the others the INVALID index is dropped.
RecoverNonTransactional(d) ==
    /\ Runs(d) /\ Current(d) \in project.two_phase
    /\ dirty' = [dirty EXCEPT ![d] = @ \cup {"settings"}]
    /\ LET v == Current(d) IN
       IF GuardSatisfied(v) THEN Goto(d, "finalizing") /\ UNCHANGED built
       ELSE IF HadInflight(d) /\ v \notin project.replayable
       THEN Refuse(d, "unsafe") /\ UNCHANGED built
       ELSE /\ Goto(d, "arming")
            /\ schema' = [o \in Objects |->
                    IF HadInflight(d) /\ o \in Builds[v] /\ schema[o] = "invalid"
                    THEN "absent" ELSE schema[o]]
            /\ UNCHANGED <<body, clobbered>>
    /\ NoFault /\ UNCHANGED <<edition, records, lock>>

\* ON CONFLICT DO NOTHING: a marker that is armed stays the one it is.
RecordStarted(d) ==
    /\ work[d].at = "arming"
    /\ inflight' = [inflight EXCEPT ![Current(d)] = IF @ = 0 THEN work[d].files[Current(d)] ELSE @]
    /\ Goto(d, "up")
    /\ NoFault /\ UNCHANGED <<edition, built, journal, edges, lock, dirty>>

\* An interrupted up may have left nothing, half of its work, or all of it.
UpInterrupted(d) == \E outcome \in {"absent", "invalid", "built"} :
    IF CanRun(Current(d)) /\ outcome # "absent"
    THEN UpEffect(Current(d), work[d].files[Current(d)], outcome)
    ELSE UNCHANGED built

RunUp(d) ==
    /\ work[d].at = "up"
    /\ LET v == Current(d) IN
       \/ /\ CanRun(v) /\ UpEffect(v, work[d].files[v], "built")
          /\ NoFault /\ Goto(d, "finalizing")
       \/ Fault /\ Refuse(d, "error") /\ UpInterrupted(d)
       \/ ~ CanRun(v) /\ NoFault /\ Refuse(d, "missing object") /\ UNCHANGED built
    /\ UNCHANGED <<edition, records, lock, dirty>>

\* One transaction: the completed row, the marker's deletion, the edges.
FinalizeNonTxn(d) ==
    /\ work[d].at = "finalizing"
    /\ LET v == Current(d) IN
       \/ /\ JournalCompleted(v, work[d].files[v], KindOf(d))
          /\ inflight' = [inflight EXCEPT ![v] = 0]
          /\ \/ NoFault /\ Set(d, Advance(d))
             \/ Fault /\ Refuse(d, "error")
       \/ Fault /\ Refuse(d, "error") /\ UNCHANGED records
    /\ UNCHANGED <<edition, built, lock, dirty>>

\* A statement fails that changes nothing: a read, a marker, a SET.
StatementFails(d) ==
    /\ work[d].at = "arming" \/ Running(d, "apply")
    /\ Fault /\ Refuse(d, "error")
    /\ UNCHANGED <<edition, built, records, lock, dirty>>

----------------------------------------------------------------------------
(* Rollback and squash.                                                     *)

\* select_rollback_versions: by apply order, never by version order.
Selected(target) ==
    CASE target[1] = "all"   -> NetApplied
      [] target[1] = "steps" ->
            {v \in NetApplied : Cardinality({w \in NetApplied : Latest(w) > Latest(v)}) < target[2]}
      [] target[1] = "to"    -> {v \in NetApplied : Latest(v) > Latest(target[2])}

ForceSkipped(d) == {v \in Selected(work[d].target) : v \notin project.reversible}
Unwound(d) == Selected(work[d].target) \ ForceSkipped(d)

\* Fault: what stays is not asked what it depends on.
RollbackKeepsOrphans(d) ==
    LET t == work[d].target IN
    \/ t[1] = "to" /\ t[2] \notin NetApplied
    \/ \E v \in Selected(t) : v \notin Batch(d) \/ Recorded(v) # work[d].files[v]
                                \/ (v \notin project.reversible /\ ~ work[d].force)
    \/ Unwound(d) \cap project.two_phase # {}

\* plan_rollback: the file is there and is the one that ran; it can be undone,
\* in a transaction; nothing that stays depends on anything that goes.
RollbackRefused(d) ==
    LET t == work[d].target IN
    \/ t[1] = "to" /\ t[2] \notin NetApplied
    \/ \E v \in Selected(t) :
        \/ v \notin Batch(d)
        \/ Recorded(v) # work[d].files[v]
        \/ v \notin project.reversible /\ (project.supersedes[v] # {} \/ ~ work[d].force)
    \/ Unwound(d) \cap project.two_phase # {}
    \/ \E kept \in (NetApplied \cap Batch(d)) \ Unwound(d) : project.depends_on[kept] \cap Unwound(d) # {}

PlanRollback(d) ==
    /\ work[d].at = "planning" /\ work[d].op = "rollback"
    /\ IF RollbackRefused(d) THEN Refuse(d, "rollback refused")
       ELSE Set(d, [work[d] EXCEPT !.at = "running", !.todo = Reverse(TopoOrder[Unwound(d)])])
    /\ NoFault /\ UNCHANGED <<edition, built, records, lock, dirty>>

\* One transaction: the down and its rolled_back event.
RollbackOne(d) ==
    /\ Running(d, "rollback")
    /\ LET v == Current(d) IN
       \/ /\ schema' = [o \in Objects |-> IF o \in Builds[v] THEN "absent" ELSE schema[o]]
          /\ body' = [o \in Objects |-> IF o \in Builds[v] THEN <<>> ELSE body[o]]
          /\ journal' = Append(journal, Event("rolled_back", v, work[d].files[v], "none"))
          /\ \/ NoFault /\ Set(d, Advance(d))
             \/ Fault /\ Refuse(d, "error")
       \/ Fault /\ Refuse(d, "error") /\ UNCHANGED <<schema, body, journal>>
    /\ UNCHANGED <<edition, clobbered, inflight, edges, lock, dirty>>

\* squash_locked: recorded without running its up when all it supersedes is
\* net-applied, nothing to do when it is recorded already.
SquashLocked(d) ==
    /\ work[d].at = "planning" /\ work[d].op = "squash"
    /\ \E s \in Batch(d) :
        \/ s \in NetApplied /\ NoFault /\ Goto(d, "releasing") /\ UNCHANGED records
        \/ /\ s \notin NetApplied /\ ~ (project.supersedes[s] \subseteq NetApplied)
           /\ NoFault /\ Refuse(d, "squash") /\ UNCHANGED records
        \/ /\ s \notin NetApplied /\ project.supersedes[s] \subseteq NetApplied
           /\ JournalCompleted(s, work[d].files[s], "squash") /\ UNCHANGED inflight
           /\ \/ NoFault /\ Goto(d, "releasing")
              \/ Fault /\ Refuse(d, "error")
    /\ UNCHANGED <<edition, built, lock, dirty>>

----------------------------------------------------------------------------
(* Around the executor.                                                     *)

\* The deployer dies: the server ends its session, and with it the session's
\* lock and settings, when the statement under way is over.
Crash(d) ==
    /\ work[d].at # "idle" /\ Fault
    /\ IF work[d].at = "up" THEN UpInterrupted(d) ELSE UNCHANGED built
    /\ Set(d, Idle)
    /\ lock' = Unlocked(d) /\ dirty' = [dirty EXCEPT ![d] = {}]
    /\ UNCHANGED <<edition, records>>

EditFile(v) ==
    /\ edits < project.max_edits /\ edits' = edits + 1
    /\ edition' = [edition EXCEPT ![v] = @ + 1]
    /\ UNCHANGED <<project, built, records, lock, dirty, work, rollbacks, faults>>

\* The repair a refused recovery names: the operator restores the shape from
\* before the migration, then drops the marker (clear_inflight).
ClearInflight(v) ==
    /\ v \in project.two_phase
    /\ lock = Nobody /\ inflight[v] # 0 /\ v \notin NetApplied
    /\ v \notin project.replayable \/ inflight[v] # edition[v]
    /\ schema' = [o \in Objects |-> IF o \in Builds[v] THEN "absent" ELSE schema[o]]
    /\ inflight' = [inflight EXCEPT ![v] = 0]
    /\ UNCHANGED <<edition, body, clobbered, journal, edges, lock, dirty, work, budgets>>

Step(d) ==
    \/ TakeProjectLock(d) \/ LockWaitFails(d) \/ DropGrantFromFailedAcquire(d)
    \/ SettleLockStatement(d) \/ ReadFails(d)
    \/ PlanApply(d) \/ PlanRepeatables(d) \/ ApplyEnds(d)
    \/ SkipOne(d) \/ HaltOne(d) \/ ApplyTransactional(d)
    \/ RecoverNonTransactional(d) \/ RecordStarted(d) \/ RunUp(d) \/ FinalizeNonTxn(d)
    \/ StatementFails(d)
    \/ PlanRollback(d) \/ RollbackOne(d) \/ SquashLocked(d)
    \/ RestoreSession(d) \/ ReleaseProjectLock(d) \/ HandBack(d)

Next ==
    \/ \E d \in Deployers : Apply(d) \/ Rollback(d) \/ Squash(d) \/ Step(d) \/ Crash(d)
    \/ \E v \in project.editable : EditFile(v)
    \/ \E v \in Versions : ClearInflight(v)

Spec == Init /\ [][Next]_vars

\* Statements end one way or the other, callers take their sessions back, the
\* whole set is deployed again, and a refused recovery is repaired by hand.
Live ==
    /\ Spec
    /\ \A d \in Deployers : WF_vars(Step(d)) /\ WF_vars(Apply(d))
    /\ \A v \in Versions : SF_vars(ClearInflight(v))   \* between two deploys

----------------------------------------------------------------------------
(* Properties.                                                              *)

Places == {"idle", "waiting", "dropping", "settling", "planning", "running", "arming", "up",
           "finalizing", "restoring", "releasing", "done"}

\* Types of the state.
TypeOK ==
    /\ project \in Projects
    /\ edition \in [Versions -> 1..project.max_edits + 1]
    /\ schema \in [Objects -> {"absent", "invalid", "built"}]
    /\ clobbered \subseteq Objects /\ DOMAIN body = Objects
    /\ inflight \in [Versions -> 0..project.max_edits + 1] /\ edges \subseteq Versions \X Versions
    /\ \A i \in 1..Len(journal) : journal[i] \in
            [event : {"applied", "rolled_back"}, version : Versions, checksum : 1..project.max_edits + 1,
             kind : {"apply", "squash", "repeatable", "none"}]
    /\ lock \in Deployers \cup {Nobody}
    /\ dirty \in [Deployers -> SUBSET {"timeouts", "settings"}]
    /\ \A d \in Deployers : work[d].at \in Places /\ Batch(d) \subseteq Versions
        /\ ToSet(work[d].todo) \cup work[d].skipped \subseteq Batch(d)
        /\ work[d].report \subseteq {"timeouts", "settings", "lock"}

\* What the journal calls applied is in the schema, whole, and built by the very
\* body the journal has the checksum of: the crash windows of the two-phase path,
\* an INVALID index that satisfies IF NOT EXISTS, and a file edited after its
\* body half ran all end in a journal that lies.
JournalTruthful == \A v \in NetApplied :
    /\ \A o \in Builds[v] : schema[o] = "built"
    /\ project.supersedes[v] = {} => body[v] = <<v, Recorded(v)>>

\* No up runs over its own work: a retried deploy, a recovery after a crash and
\* a squash over versions that were built before never build an object twice.
BuiltOnce == clobbered = {}

\* Whatever an up left behind is in the journal or under an armed marker, so a
\* half-run migration never looks like one that never ran.
NothingUntracked == \A o \in Objects : schema[o] # "absent" =>
    \E v \in NetApplied \cup {w \in Versions : inflight[w] # 0} : o \in Builds[v]

\* What stays applied stands on what it depends on, whatever was rolled back.
DependentsStand == \A v \in NetApplied :
    \A w \in project.depends_on[v] : \A o \in Builds[w] : schema[o] = "built"

\* A session handed back without a report to discard it carries neither the
\* project lock nor settings of the executor: no deploy waits on a lock nobody
\* tracks, and no caller runs under the executor's timeouts.
SessionsHandedBackClean == \A d \in Deployers : work[d].at \in {"idle", "done"} =>
    /\ dirty[d] \subseteq work[d].report
    /\ lock = d => "lock" \in work[d].report

\* No up is sent to a schema that lacks what it depends on.
NeverBlind == \A d \in Deployers : work[d].result # "missing object"

\* A deploy that ends well has landed every file it was given, in the edition
\* it was given, or reports it skipped.
GreenMeansLanded == \A d \in Deployers :
    work[d].op = "apply" /\ work[d].at = "restoring" /\ work[d].result = "ok" =>
        \A v \in Batch(d) \ work[d].skipped :
            \/ v \in superseded_versions /\ \A o \in Builds[v] : schema[o] = "built"
            \/ v \in NetApplied /\ Recorded(v) = work[d].files[v]

\* An armed marker outranks every route to a skip: no deploy ends well over a
\* supplied version that half ran.
GreenLeavesNoMarker == \A d \in Deployers :
    work[d].op = "apply" /\ work[d].at = "restoring" /\ work[d].result = "ok" =>
        \A v \in Batch(d) \ NetApplied : inflight[v] = 0

\* The whole set is deployed each time, unconditionally, and nothing is undone.
Redeployed ==
    /\ project.batches = {project.versions} /\ project.conditional = {}
    /\ project.max_rollbacks = 0

\* Every file lands in the end, in the edition its author left it: through
\* crashes in every window, refused recoveries and lost replies.
EverythingLands ==
    Redeployed => <>[](\A v \in project.versions : v \in NetApplied /\ Recorded(v) = edition[v])

\* Journal and schema agree, through every crash, replay and edit: what is
\* journaled was built by that body, what was built is tracked, and nothing was
\* built over itself (record_started, finalize, recover).
SchemaAgrees == TypeOK /\ JournalTruthful /\ NothingUntracked /\ BuiltOnce

\* Dependencies stand, under what is applied and under what is about to run
\* (order_pending, rollback).
DependenciesStand == DependentsStand /\ NeverBlind

\* A deploy that ends well left nothing half done (apply).
GreenDeploys == GreenMeansLanded /\ GreenLeavesNoMarker
=============================================================================
