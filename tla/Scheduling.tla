----------------------------- MODULE Scheduling -----------------------------
(* One app's calendar in the manager (scheduling.rs): which deployment's     *)
(* schedules are selected, how far each schedule's frontier has moved, and   *)
(* the occurrences it has published.                                         *)
(*                                                                           *)
(* Every operation is one transaction under the app's lock, on any replica   *)
(* of the manager, and replicas differ: a rolling upgrade runs two calendar  *)
(* interpretations, and each process has page and backfill options of its    *)
(* own.  Requests arrive late, repeated and out of order, so any revision    *)
(* may be asked for at any time; a request that is refused, or that replays  *)
(* an accepted one, changes nothing and is a stuttering step.                *)
(*                                                                           *)
(* The holds that keep a selected deployment's code are DeploymentRetention, *)
(* the responsibility an activation opens is ScopeRetirement, and the jobs   *)
(* that carry activations and occurrences are JobQueue.                      *)
EXTENDS Integers, FiniteSets

CONSTANTS
    Deployments,        \* the app's verified deployments
    Names,              \* schedule names; a name keeps its schedule's identity
    Interpretations,    \* calendar semantics and timezone database versions
    Replicas,           \* manager processes: interpretation, page_size, max_backfill
    Definition,         \* the schedules each deployment declares, by name
    CronFires,          \* the instants of a cron expression, by interpretation
    MaxRevision,        \* bound on Control's lifecycle revisions
    MaxTime,            \* bound on the clock
    Null                \* SQL NULL

Revisions == 1..MaxRevision

Intervals == [kind : {"interval"}, period : Nat \ {0}, anchor : {"epoch", "deploy"}]

CronTimings == [kind : {"cron"}, expr : DOMAIN CronFires]

\* backfill is the declared maximum, or 0 for the skip policy.
Descriptors == [timing : Intervals \cup CronTimings, backfill : Nat]

\* Least(x, S, t): x is the first member of S after t.
Least(x, S, t) == x \in S /\ x > t /\ \A y \in S : y > t => x <= y

ASSUME SchedulingAssumption ==
    /\ MaxRevision \in Nat /\ MaxTime \in Nat
    /\ Null \notin Nat /\ Null \notin Deployments /\ Null \notin Interpretations
    /\ \A r \in Replicas : /\ r.interpretation \in Interpretations
                           /\ r.page_size \in Nat \ {0}
                           /\ r.max_backfill \in Nat \ {0}

ASSUME DefinitionAssumption ==
    \A d \in Deployments :
        /\ DOMAIN Definition[d] \subseteq Names
        /\ \A n \in DOMAIN Definition[d] : Definition[d][n] \in Descriptors

ASSUME CalendarAssumption ==
    \A e \in DOMAIN CronFires : \A i \in Interpretations :
        /\ CronFires[e][i] \subseteq Nat
        /\ \A t \in 0..MaxTime : \E x \in CronFires[e][i] : Least(x, CronFires[e][i], t)

VARIABLES
    clock,              \* the manager database's clock
    prepared,           \* schedule_deployments: the interpretation of each projection
    scope,              \* schedule_scopes: the app's selection
    activations,        \* schedule_activations: the deployment of each revision
    disables,           \* schedule_disables: the revisions of accepted disables
    schedules,          \* schedules: one frontier per name
    occurrences,        \* schedule_occurrences
    window              \* history: the catch-up observation of each frontier

vars == <<clock, prepared, scope, activations, disables, schedules, occurrences, window>>

-----------------------------------------------------------------------------
(* Calendars (zeroship-workflow-calendar).                                 *)

AnchorOf(timing, anchor) == IF timing.anchor = "epoch" THEN 0 ELSE anchor

\* Whether an instant belongs to a timing.
Fires(timing, interpretation, anchor, at) ==
    CASE timing.kind = "cron" -> at \in CronFires[timing.expr][interpretation]
      [] OTHER -> (at - AnchorOf(timing, anchor)) % timing.period = 0

\* ScheduleTiming::next_after: the first instant strictly after another.  The
\* search for a cron expression's next local time is left to its contract.
NextAfter(timing, interpretation, after, anchor) ==
    CASE timing.kind = "cron" ->
            CHOOSE x \in CronFires[timing.expr][interpretation] :
                Least(x, CronFires[timing.expr][interpretation], after)
      [] OTHER ->
            LET from == AnchorOf(timing, anchor)
            IN  from + ((after - from) \div timing.period + 1) * timing.period

\* Skip publishes the due instant alone.
Allowance(definition) == IF definition.backfill = 0 THEN 1 ELSE definition.backfill

MinOf(a, b) == IF a <= b THEN a ELSE b

-----------------------------------------------------------------------------
(* Stored rows.                                                            *)

NoScope == [revision |-> 0, enabled |-> FALSE, activation |-> Null]

\* An activation is identified by the revision that selected it.
NoSchedule == [activation |-> Null, revision |-> 0, definition |-> Null, next_at |-> Null,
               anchor_at |-> 0, until |-> Null, remaining |-> Null]

NoWindow == [state |-> "none", from |-> 0, until |-> 0, allowance |-> 0]

Init ==
    /\ clock = 0
    /\ prepared = [d \in Deployments |-> Null]
    /\ scope = NoScope
    /\ activations = [v \in Revisions |-> Null]
    /\ disables = {}
    /\ schedules = [n \in Names |-> NoSchedule]
    /\ occurrences = {}
    /\ window = [n \in Names |-> NoWindow]

Stored(n) == schedules[n].activation # Null

\* A row that a restore would find and a replacement must clear.
Live(n) ==
    /\ Stored(n)
    /\ \/ schedules[n].next_at # Null
       \/ schedules[n].until # Null
       \/ schedules[n].remaining # Null

\* active: the checks under which the selection is returned and not Storage.
ScopeReads ==
    scope.revision # 0 =>
        /\ scope.enabled <=> scope.revision \notin disables
        /\ scope.enabled => scope.activation # Null
        /\ scope.activation # Null =>
              /\ activations[scope.activation] # Null
              /\ IF scope.enabled THEN scope.activation = scope.revision
                                  ELSE scope.activation < scope.revision

\* The saved catch-up state: absent, or an open window with its frontier inside
\* and an allowance left.
CatchUpReads(row) ==
    \/ row.until = Null /\ row.remaining = Null
    \/ /\ row.until # Null /\ row.remaining # Null
       /\ row.next_at <= row.until
       /\ 0 < row.remaining /\ row.remaining <= Allowance(row.definition)

-----------------------------------------------------------------------------
(* Control's commands.                                                     *)

\* Scheduler::prepare: an immutable projection, stamped with the calendar that
\* accepted it.  A later preparation keeps the stamp.
Prepare(d, r) ==
    /\ prepared[d] = Null
    /\ \A n \in DOMAIN Definition[d] : Definition[d][n].backfill <= r.max_backfill
    /\ prepared' = [prepared EXCEPT ![d] = r.interpretation]
    /\ UNCHANGED <<clock, scope, activations, disables, schedules, occurrences, window>>

\* Fault: a disable older than the selection is applied.
DisableAnyRevision(v) ==
    /\ activations[v] = Null /\ v \notin disables
    /\ ScopeReads
    /\ disables' = disables \cup {v}
    /\ scope' = [scope EXCEPT !.revision = v, !.enabled = FALSE]
    /\ UNCHANGED <<clock, prepared, activations, schedules, occurrences, window>>

\* Scheduler::disable: a receipt and the fence; the frontiers stay as they are.
Disable(v) ==
    /\ activations[v] = Null /\ v \notin disables
    /\ ScopeReads
    /\ scope.revision < v
    /\ disables' = disables \cup {v}
    /\ scope' = [scope EXCEPT !.revision = v, !.enabled = FALSE]
    /\ UNCHANGED <<clock, prepared, activations, schedules, occurrences, window>>

\* Whether an activation of d resumes the calendar that was disabled.
Restores(d) ==
    /\ scope.revision # 0 /\ ~scope.enabled
    /\ scope.activation # Null
    /\ activations[scope.activation] = d

\* What restore demands of the rows it resumes: exactly the deployment's
\* schedules, as its activation left them.
RestoreReads(d) ==
    /\ {n \in Names : schedules[n].activation = scope.activation /\ Live(n)}
          = DOMAIN Definition[d]
    /\ \A n \in DOMAIN Definition[d] :
          /\ schedules[n].revision = scope.activation
          /\ schedules[n].next_at # Null
          /\ schedules[n].definition = Definition[d][n]
          /\ CatchUpReads(schedules[n])

Moved(row, v) == [row EXCEPT !.activation = v, !.revision = v]

\* Scheduler::restore: the rows move to the new activation with their cursor,
\* anchor and catch-up state.
Restored(d, v) ==
    [n \in Names |->
        IF n \in DOMAIN Definition[d]
        THEN Moved(schedules[n], v)
        ELSE schedules[n]]

\* Fault: the cursor is searched from the epoch, as validate's probe is.
InstallFromEpoch(definition, v, interpretation) ==
    [activation |-> v, revision |-> v, definition |-> definition,
     next_at |-> NextAfter(definition.timing, interpretation, 0, clock),
     anchor_at |-> clock, until |-> Null, remaining |-> Null]

\* Scheduler::install: a frontier strictly after now, whatever the row held.
Install(definition, v, interpretation) ==
    [activation |-> v, revision |-> v, definition |-> definition,
     next_at |-> NextAfter(definition.timing, interpretation, clock, clock),
     anchor_at |-> clock, until |-> Null, remaining |-> Null]

Cleared(row) == [row EXCEPT !.next_at = Null, !.until = Null, !.remaining = Null]

\* Fault: schedules the new deployment does not declare keep their frontier.
ReplacedKeepingRemoved(d, v, interpretation) ==
    [n \in Names |->
        IF n \in DOMAIN Definition[d] THEN Install(Definition[d][n], v, interpretation)
                                      ELSE schedules[n]]

\* The replacement: every frontier of the app is cleared, then the deployment's
\* own are installed.
Replaced(d, v, interpretation) ==
    [n \in Names |->
        IF n \in DOMAIN Definition[d] THEN Install(Definition[d][n], v, interpretation)
                                      ELSE Cleared(schedules[n])]

\* Scheduler::activate, the transaction in which it commits.
Activate(v, d, r) ==
    /\ v \notin disables
    /\ activations[v] = Null
    /\ ScopeReads
    /\ scope.revision < v
    /\ prepared[d] = r.interpretation
    /\ \A n \in DOMAIN Definition[d] : Definition[d][n].backfill <= r.max_backfill
    /\ activations' = [activations EXCEPT ![v] = d]
    /\ scope' = [revision |-> v, enabled |-> TRUE, activation |-> v]
    /\ \/ /\ Restores(d)
          /\ RestoreReads(d)
          /\ schedules' = Restored(d, v)
          /\ UNCHANGED window
       \/ /\ ~Restores(d)
          /\ schedules' = Replaced(d, v, r.interpretation)
          /\ window' = [n \in Names |-> NoWindow]
    /\ UNCHANGED <<clock, prepared, disables, occurrences>>

-----------------------------------------------------------------------------
(* Publication.                                                            *)

\* selected_schedule: the row belongs to the enabled selection.
Selected(n) ==
    /\ scope.revision # 0 /\ scope.enabled
    /\ schedules[n].activation = scope.activation
    /\ schedules[n].revision = scope.revision

\* due_in: what the driver's sweep finds.
Due(n) == scope.enabled /\ schedules[n].next_at # Null /\ schedules[n].next_at <= clock

\* Fault: a replica extends a frontier whatever calendar prepared it.
ReadableByAny(n, r) ==
    LET d == activations[schedules[n].activation]
    IN  /\ schedules[n].activation = schedules[n].revision
        /\ d # Null /\ prepared[d] # Null
        /\ n \in DOMAIN Definition[d] /\ schedules[n].definition = Definition[d][n]

\* What dispatch demands of the row before it publishes: its activation, and a
\* projection of that deployment under this process's calendar that declares
\* the stored definition.
Readable(n, r) ==
    LET d == activations[schedules[n].activation]
    IN  /\ schedules[n].activation = schedules[n].revision
        /\ d # Null
        /\ prepared[d] = r.interpretation
        /\ n \in DOMAIN Definition[d] /\ schedules[n].definition = Definition[d][n]

\* Fault: every page observes the clock anew.
ObservedEachPage(row, r) ==
    [until |-> clock, remaining |-> MinOf(Allowance(row.definition), r.max_backfill)]

\* The catch-up observation a page works on: the stored one, or a new one up to
\* now under the declared allowance and the host's ceiling.
Observed(row, r) ==
    IF row.until # Null
    THEN [until |-> row.until, remaining |-> row.remaining]
    ELSE [until |-> clock, remaining |-> MinOf(Allowance(row.definition), r.max_backfill)]

\* The instants the loop would walk through up to a boundary.
Walk(definition, interpretation, anchor, from, until) ==
    {from} \cup {x \in from..until : Fires(definition.timing, interpretation, anchor, x)}

\* page is the first limit members of walk.
IsPage(page, walk, limit) ==
    /\ Cardinality(page) = MinOf(limit, Cardinality(walk))
    /\ \A x \in page, y \in walk \ page : x < y

\* Fault: an exhausted allowance leaves the cursor inside the window.
CursorInWindow(row, interpretation, last, until, left) ==
    NextAfter(row.definition.timing, interpretation, last, row.anchor_at)

\* The cursor after a page: past the last instant or, once the allowance is
\* spent, past the boundary.
Cursor(row, interpretation, last, until, left) ==
    LET next == NextAfter(row.definition.timing, interpretation, last, row.anchor_at)
    IN  IF left = 0 /\ next <= until
        THEN NextAfter(row.definition.timing, interpretation, until, row.anchor_at)
        ELSE next

\* Fault: a spent allowance is saved with a closed observation.
AdvancedKeepingRemaining(row, cursor, until, left) ==
    [row EXCEPT !.next_at = cursor,
                !.until = IF cursor <= until THEN until ELSE Null,
                !.remaining = left]

\* The cursor and the rest of the observation, saved together.
Advanced(row, cursor, until, left) ==
    [row EXCEPT !.next_at = cursor,
                !.until = IF cursor <= until THEN until ELSE Null,
                !.remaining = IF cursor <= until THEN left ELSE Null]

\* The observation a page belongs to, for CatchUpComposes.
Recorded(n, seen, cursor) ==
    LET opened == IF schedules[n].until = Null
                  THEN [state |-> "open", from |-> schedules[n].next_at, until |-> seen.until,
                        allowance |-> seen.remaining]
                  ELSE window[n]
    IN  [opened EXCEPT !.state = IF cursor <= seen.until THEN "open" ELSE "closed"]

\* Scheduler::dispatch: a page of occurrences and the cursor behind them.
Dispatch(n, r) ==
    /\ ScopeReads
    /\ Selected(n)
    /\ schedules[n].next_at # Null /\ schedules[n].next_at <= clock
    /\ Readable(n, r)
    /\ CatchUpReads(schedules[n])
    /\ LET row == schedules[n]
           seen == Observed(row, r)
           walk == Walk(row.definition, r.interpretation, row.anchor_at, row.next_at, seen.until)
       IN  \E page \in SUBSET walk : \E last \in page :
              LET left == seen.remaining - Cardinality(page)
                  cursor == Cursor(row, r.interpretation, last, seen.until, left)
              IN  /\ IsPage(page, walk, MinOf(r.page_size, seen.remaining))
                  /\ \A x \in page : x <= last
                  /\ schedules' = [schedules EXCEPT ![n] =
                                      Advanced(row, cursor, seen.until, left)]
                  /\ occurrences' = occurrences \cup
                        {[name |-> n, revision |-> row.revision, at |-> x,
                          anchor |-> row.anchor_at] : x \in page}
                  /\ window' = [window EXCEPT ![n] = Recorded(n, seen, cursor)]
    /\ UNCHANGED <<clock, prepared, scope, activations, disables>>

\* Time passes on the manager database.
Tick ==
    /\ clock < MaxTime
    /\ clock' = clock + 1
    /\ UNCHANGED <<prepared, scope, activations, disables, schedules, occurrences, window>>

Next ==
    \/ \E d \in Deployments, r \in Replicas : Prepare(d, r)
    \/ \E v \in Revisions : Disable(v)
    \/ \E v \in Revisions, d \in Deployments, r \in Replicas : Activate(v, d, r)
    \/ \E n \in Names, r \in Replicas : Dispatch(n, r)
    \/ Tick

Spec == Init /\ [][Next]_vars

\* The driver's sweep visits every due schedule on each lap.
FairSpec == Spec /\ \A n \in Names : WF_vars(\E r \in Replicas : Dispatch(n, r))

-----------------------------------------------------------------------------
(* Properties.                                                             *)

Activations == Revisions \cup {Null}

Instants == Nat \cup {Null}

ScheduleRows ==
    [activation : Activations, revision : 0..MaxRevision, definition : Descriptors \cup {Null},
     next_at : Instants, anchor_at : 0..MaxTime, until : 0..MaxTime \cup {Null},
     remaining : (Nat \ {0}) \cup {Null}]

Windows == [state : {"none", "open", "closed"}, from : Nat, until : Nat, allowance : Nat]

\* The types of the stored rows; a saved allowance is never spent.
TypeOK ==
    /\ clock \in 0..MaxTime
    /\ prepared \in [Deployments -> Interpretations \cup {Null}]
    /\ scope \in [revision : 0..MaxRevision, enabled : BOOLEAN, activation : Activations]
    /\ activations \in [Revisions -> Deployments \cup {Null}]
    /\ disables \subseteq Revisions
    /\ schedules \in [Names -> ScheduleRows]
    /\ occurrences \subseteq [name : Names, revision : Revisions, at : Nat,
                              anchor : 0..MaxTime]
    /\ window \in [Names -> Windows]

\* An instant of a schedule is published once, however its deployments were
\* replaced, disabled and restored and whichever replicas dispatched it: two
\* occurrences of a schedule never name the same instant, not even under
\* different revisions.
InstantsOnce ==
    \A o, p \in occurrences : o.name = p.name /\ o.at = p.at => o = p

\* Late, repeated and reordered commands leave the calendar as the highest
\* accepted revision says: no revision is both an activation and a disable, the
\* fence is the highest accepted, enabled exactly by an activation, and the
\* retained selection is the latest activation.
LatestCommandDecides ==
    /\ \A v \in Revisions :
          /\ ~(activations[v] # Null /\ v \in disables)
          /\ activations[v] # Null \/ v \in disables => v <= scope.revision
          /\ activations[v] # Null => scope.activation # Null /\ v <= scope.activation
    /\ scope.revision # 0 => scope.revision \in disables \/ activations[scope.revision] # Null
    /\ scope.enabled <=> scope.revision # 0 /\ scope.revision \notin disables
    /\ scope.activation # Null => activations[scope.activation] # Null

\* What the transactions have written is what they demand when they read it, so
\* neither dispatch nor restore ever answers Storage: the selection is
\* consistent, the selected activation's frontiers are exactly those its
\* deployment declares, with a readable catch-up state, and while the calendar
\* is enabled no other frontier is live.
CalendarReads ==
    /\ ScopeReads
    /\ scope.activation # Null =>
          /\ prepared[activations[scope.activation]] # Null
          /\ RestoreReads(activations[scope.activation])
    /\ scope.enabled => \A n \in Names : Live(n) => Selected(n)

\* Every published instant is one the deployment of its revision declares, under
\* the calendar interpretation that deployment was prepared with, even while
\* replicas of two interpretations dispatch.
InstantsDeclared ==
    \A o \in occurrences :
        LET d == activations[o.revision]
        IN  /\ d # Null /\ prepared[d] # Null
            /\ o.name \in DOMAIN Definition[d]
            /\ Fires(Definition[d][o.name].timing, prepared[d], o.anchor, o.at)

\* The instants of a schedule published inside a catch-up observation.
PublishedIn(n, w) ==
    {x \in w.from..w.until : \E o \in occurrences : o.name = n /\ o.at = x}

\* Pages compose: whatever the page sizes, restarts, disables and restores
\* between them, an observation publishes its due instants in order without a
\* gap, has spent exactly the allowance that is missing while it is open, and
\* when it closes has published all due instants or the whole allowance.  A page
\* limit never acts as a skip and never renews the allowance.
CatchUpComposes ==
    \A n \in Names : window[n].state # "none" =>
        LET w == window[n]
            row == schedules[n]
            published == PublishedIn(n, w)
            walk == Walk(row.definition, prepared[activations[row.activation]],
                         row.anchor_at, w.from, w.until)
        IN  /\ published \subseteq walk
            /\ \A x \in published, y \in walk \ published : x < y
            /\ w.state = "open" => /\ row.until = w.until
                                   /\ row.remaining # Null
                                   /\ Cardinality(published) + row.remaining = w.allowance
            /\ w.state = "closed" =>
                  Cardinality(published) = MinOf(w.allowance, Cardinality(walk))

\* A due schedule of an enabled calendar is dispatched until it is no longer
\* due, or the calendar is disabled.
DueServed == \A n \in Names : Due(n) ~> ~Due(n)

\* The stored calendar is the one that was commanded: it reads back, it is the
\* highest accepted revision's, and what was published from it was declared
\* (prepare, activate, disable, dispatch).
CalendarConsistent ==
    TypeOK /\ CalendarReads /\ LatestCommandDecides /\ InstantsDeclared
=============================================================================
