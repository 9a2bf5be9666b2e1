-------------------------- MODULE RunJournalProofs --------------------------
(***************************************************************************)
(* Proofs about RunJournal, for every set of apps with any budgets, leases *)
(* and batches, and any number of faults, requests, signals and restarts.  *)
(***************************************************************************)
EXTENDS RunJournal, FiniteSetTheorems, WellFoundedInduction, TLAPS

-----------------------------------------------------------------------------
(* The inductive invariant.                                                *)

RunRecord ==
    [state : {"queued", "running", "sleeping", "waiting", "paused", "compensating"} \cup Terminal,
     control : {"none", "pause", "cancel"},
     generation : 0..MaxGeneration, frontier_revision : 1..MaxRevision,
     journal_revision : Nat, due_at : TimeLeft, task_id : Nat \cup {Null},
     compensation_target : {Null, "failed", "cancelled"}]

\* A retry is of an execution and has its time; a signal wait has no child, and
\* never fails.
StepSound(step) ==
    /\ step.state = "retrying" => step.wake_at \in Nat /\ step.kind = "run"
    /\ step.kind = "signal" => step.child = "none" /\ step.state \in {"running", "completed"}

StepsInv == \A i \in DOMAIN steps : StepSound(steps[i])

\* How the row of the run and its journal go together: a run at rest has no
\* clock and no task, a rollback has a target and something to undo, and only a
\* rollback or its pause does.
RowInv(r, s) ==
    /\ r.state \in Terminal => r.due_at = Null /\ r.task_id = Null
    /\ r.state = "compensating" => r.compensation_target # Null
    /\ r.compensation_target # Null /\ r.state \notin Terminal =>
          r.state \in {"compensating", "paused"} /\ Obligations(s) # {}
    /\ r.state = "paused" => r.control # "none"
    /\ r.state \in {"failed", "cancelled"} => Obligations(s) = {}
    /\ r.task_id # Null => r.state \in {"running", "compensating"} /\ r.due_at # Null

\* The frontiers a run has not come to.
Ahead(r, j) == j[1] > r.generation \/ (j[1] = r.generation /\ j[2] > r.frontier_revision)

\* What is ahead of the run is untouched.
AheadInv ==
    /\ \A j \in Jobs : Ahead(run, j) =>
          receipts[j] = "none" /\ queue[j].state = "absent" /\ queue[j].executions = 0
          /\ queue[j].task = Null /\ j \notin pending
    /\ \A t \in DOMAIN tasks : ~Ahead(run, tasks[t].job)

\* The journal, the intents and the queue agree on every job.
JobsInv ==
    /\ run.state \notin Terminal => receipts[Job(run)] \notin Decided
    /\ \A j \in Jobs : j \in pending \/ queue[j].state # "absent" => intents[j] # Null
    /\ run.state \notin Terminal /\ run.due_at # Null =>
          Job(run) \in pending \/ queue[Job(run)].state # "absent"
    /\ JournalDecidesFirst

\* A task that committed decided its job; the one the run holds is of its
\* frontier, and every other task of that frontier was reclaimed.
TasksInv ==
    /\ \A t \in DOMAIN tasks : tasks[t].state = "completed" => receipts[tasks[t].job] \in Decided
    /\ run.task_id # Null => run.task_id \in DOMAIN tasks /\ tasks[run.task_id].job = Job(run)
    /\ \A t \in DOMAIN tasks : tasks[t].job = Job(run) =>
          /\ t # run.task_id => tasks[t].state = "expired"
          /\ tasks[t].journal_revision <= run.journal_revision
    /\ OneCommitPerFrontier

TasksOf(j) == {t \in DOMAIN tasks : tasks[t].job = j}

\* Every execution the manager counted is of a task of its own, and a task not
\* counted yet is still to come.
CountInv ==
    \A j \in Jobs :
        /\ queue[j].executions + (IF queue[j].task # Null /\ ~queue[j].counted THEN 1 ELSE 0)
              <= Cardinality(TasksOf(j))
        /\ queue[j].state \in {"absent", "claimed"} => queue[j].task = Null

\* The strikes of a frontier whose journal stood still are within the budget.
StrikesInv ==
    (/\ run.compensation_target # "cancelled"
     /\ \A t \in TasksOf(Job(run)) : tasks[t].journal_revision = run.journal_revision)
    => Cardinality(TasksOf(Job(run))) <= app.max_stuck_dispatches

IInv ==
    /\ TypeOK /\ StepsInv /\ RowInv(run, steps) /\ AheadInv /\ JobsInv /\ TasksInv
    /\ CountInv /\ StrikesInv /\ SignalsConserved

-----------------------------------------------------------------------------
(* Sets of ordinals.                                                       *)

\* A non-empty set of instants has a first one.
LEMMA FirstOf ==
    ASSUME NEW S, S \subseteq Nat, S # {}
    PROVE  Soonest(S) \in S
<1> DEFINE R == {ss \in Nat \X Nat : ss[1] < ss[2]}
<1>1. R = OpToRel(<, Nat)
  BY Zenon DEF OpToRel
<1>2. IsWellFoundedOn(R, Nat)
  BY <1>1, NatLessThanWellFounded, Zenon
<1> HIDE DEF R
<1>3. PICK x \in S : \A y \in S : ~(<<y, x>> \in R)
  BY <1>2, WFMin, Zenon
<1>4. \A y \in S : x <= y
  <2>1. TAKE y \in S
  <2>2. y \in Nat /\ x \in Nat /\ <<y, x>> \in Nat \X Nat
    OBVIOUS
  <2>3. ~(<<y, x>>[1] < <<y, x>>[2])
    BY <1>3, <2>2, Zenon DEF R
  <2>4. QED
    BY <2>2, <2>3, SMT
<1>5. QED
  BY <1>4 DEF Soonest

\* A non-empty set of ordinals has a newest one.
LEMMA NewestOf ==
    ASSUME NEW n \in Nat, NEW S \in SUBSET (1..n), S # {}
    PROVE  Newest(S) \in S /\ \A k \in S : k <= Newest(S)
<1> DEFINE T == {x \in Nat : n - x \in S}
<1>1. T \subseteq Nat /\ T # {}
  <2>1. PICK i \in S : TRUE
    OBVIOUS
  <2>2. n - i \in Nat /\ n - (n - i) = i
    BY <2>1
  <2>3. QED
    BY <2>1, <2>2
<1>2. PICK x \in T : \A y \in T : x <= y
  <2> DEFINE R == {ss \in Nat \X Nat : ss[1] < ss[2]}
  <2> HIDE DEF T
  <2>1. R = OpToRel(<, Nat)
    BY Zenon DEF OpToRel
  <2>2. IsWellFoundedOn(R, Nat)
    BY <2>1, NatLessThanWellFounded, Zenon
  <2> HIDE DEF R
  <2>3. PICK x \in T : \A y \in T : ~(<<y, x>> \in R)
    BY <1>1, <2>2, WFMin, Zenon
  <2>4. \A y \in T : x <= y
    <3>1. TAKE y \in T
    <3>2. y \in Nat /\ x \in Nat /\ <<y, x>> \in Nat \X Nat
      BY <1>1
    <3>3. ~(<<y, x>>[1] < <<y, x>>[2])
      BY <2>3, <3>2, Zenon DEF R
    <3>4. QED
      BY <3>2, <3>3, SMT
  <2>5. QED
    BY <2>4
<1>3. \A k \in S : k <= n - x
  <2>1. TAKE k \in S
  <2>2. n - k \in Nat /\ n - (n - k) = k
    OBVIOUS
  <2>3. n - k \in T
    BY <2>2
  <2>4. x <= n - k
    BY <1>2, <2>3
  <2>5. QED
    BY <2>2, <2>4
<1>4. \E i \in S : \A k \in S : k <= i
  BY <1>2, <1>3
<1>5. QED
  BY <1>4 DEF Newest

\* Ordinals are finite in number.
LEMMA OrdinalsFinite ==
    ASSUME NEW n \in Nat, NEW S \in SUBSET (1..n)
    PROVE  IsFiniteSet(S) /\ Cardinality(S) \in Nat
<1>1. IsFiniteSet(1..n)
  BY FS_Interval
<1>2. QED
  BY <1>1, FS_Subset, FS_CardinalityType

\* Disjoint sets of ordinals are counted one by one.
LEMMA CountBoth ==
    ASSUME NEW n \in Nat, NEW S \in SUBSET (1..n), NEW T \in SUBSET (1..n), S \cap T = {}
    PROVE  Cardinality(S \cup T) = Cardinality(S) + Cardinality(T)
<1>1. /\ IsFiniteSet(S) /\ IsFiniteSet(T)
      /\ Cardinality(S) \in Nat /\ Cardinality(T) \in Nat
  BY OrdinalsFinite
<1>2. Cardinality(S \cap T) = 0
  BY FS_EmptySet
<1>3. Cardinality(S \cup T) = Cardinality(S) + Cardinality(T) - Cardinality(S \cap T)
  BY <1>1, FS_Union
<1>4. QED
  BY <1>1, <1>2, <1>3

\* A mailbox of m signals answers at most m waits.
LEMMA RankBound ==
    ASSUME NEW n \in Nat, NEW S \in SUBSET (1..n), NEW m \in Nat
    PROVE  Cardinality({i \in S : Cardinality({k \in S : k < i}) < m}) <= m
<1> DEFINE Before(i) == {k \in S : k < i}
           T == {i \in S : Cardinality(Before(i)) < m}
           f == [i \in T |-> Cardinality(Before(i))]
           V == 0..(m - 1)
<1>1. \A i \in S : IsFiniteSet(Before(i)) /\ Cardinality(Before(i)) \in Nat
  BY OrdinalsFinite
<1>2. IsFiniteSet(V) /\ Cardinality(V) = m
  <2>1. /\ 0 \in Int /\ m - 1 \in Int
    OBVIOUS
  <2>2. IsFiniteSet(V) /\ Cardinality(V) = IF 0 > m - 1 THEN 0 ELSE (m - 1) - 0 + 1
    BY <2>1, FS_Interval
  <2>3. QED
    BY <2>2
<1>3. \A i, j \in S : i < j => Cardinality(Before(i)) # Cardinality(Before(j))
  <2> SUFFICES ASSUME NEW i \in S, NEW j \in S, i < j
               PROVE  Cardinality(Before(i)) # Cardinality(Before(j))
    OBVIOUS
  <2>1. \A k \in S : k \in Nat
    OBVIOUS
  <2>2. \A k \in S : k < i => k < j
    BY <2>1
  <2>3. Before(i) \in SUBSET Before(j)
    BY <2>2
  <2>4. i \in Before(j) /\ i \notin Before(i)
    BY <2>1
  <2>5. QED
    BY <1>1, <2>3, <2>4, FS_Subset
<1>4. f \in [T -> V]
  <2>1. \A x \in Nat : x < m => x \in V
    OBVIOUS
  <2>2. \A i \in T : Cardinality(Before(i)) \in V
    BY <1>1, <2>1
  <2> HIDE DEF V, T, Before
  <2>3. QED
    BY <2>2
<1>5. \A i, j \in T : f[i] = f[j] => i = j
  <2>1. TAKE i, j \in T
  <2>2. i \in S /\ j \in S /\ (i < j \/ j < i \/ i = j)
    OBVIOUS
  <2>3. f[i] = Cardinality(Before(i)) /\ f[j] = Cardinality(Before(j))
    OBVIOUS
  <2> HIDE DEF f, Before
  <2>4. QED
    BY <1>3, <2>2, <2>3
<1>6. f \in Injection(T, V)
  <2> HIDE DEF f, T, V
  <2>1. QED
    BY <1>4, <1>5 DEF Injection, IsInjective
<1>7. Cardinality(T) <= Cardinality(V)
  <2> HIDE DEF f, T, V
  <2>1. QED
    BY <1>2, <1>6, FS_Injection
<1>8. QED
  BY <1>2, <1>7

-----------------------------------------------------------------------------
(* Steps.                                                                  *)

Sound(s) == \A i \in DOMAIN s : StepSound(s[i])
Consumed(s) == {i \in Ordinals(s, "completed") : s[i].kind = "signal"}

\* Nothing settled was rewritten, and no obligation was discharged.
Faithful(s, u) ==
    \A i \in DOMAIN s :
        /\ i \in DOMAIN u
        /\ s[i].state \in {"completed", "failed"} =>
              u[i].state = s[i].state /\ u[i].attempts = s[i].attempts
        /\ s[i].compensation = "pending" => u[i].compensation \notin {"completed", "failed"}

\* The budgets of an app are numbers.
LEMMA AppFacts ==
    ASSUME app \in Apps
    PROVE  /\ app.max_step_attempts \in Nat \ {0} /\ app.max_stuck_dispatches \in Nat \ {0}
           /\ app.max_delivery_attempts \in Nat \ {0} /\ app.retry_delay \in Nat \ {0}
           /\ app.lease \in Nat \ {0} /\ app.revisions \in Nat \ {0} /\ app.revisions <= MaxRevision
           /\ app.max_stuck_dispatches < app.max_delivery_attempts
           /\ app.faults \in Nat /\ app.commands \in Nat /\ app.signals \in Nat
           /\ app.batches \subseteq Seq(Kinds)
  BY AppsAssumption DEF App, PolicyValid

\* What an execution that ended makes of its step (settle_attempt).
LEMMA Attempted ==
    ASSUME app \in Apps, NEW step \in StepRecord, step.kind = "run", NEW retryable \in BOOLEAN
    PROVE  /\ AttemptFailed(step, retryable) \in StepRecord
           /\ StepSound(AttemptFailed(step, retryable))
           /\ AttemptFailed(step, retryable).kind = "run"
           /\ AttemptFailed(step, retryable).compensation = step.compensation
           /\ AttemptCompleted(step) \in StepRecord /\ StepSound(AttemptCompleted(step))
           /\ AttemptCompleted(step).kind = "run"
           /\ AttemptCompleted(step).compensation = step.compensation
<1>1. step.attempts + 1 \in Nat /\ app.retry_delay \in Nat
  BY AppFacts DEF StepRecord
<1>2. QED
  BY <1>1 DEF AttemptFailed, AttemptCompleted, StepRecord, StepSound, TimeLeft

\* The checkpoint of a new operation (fold_outcomes).
LEMMA OpenedFacts ==
    ASSUME app \in Apps, NEW kind \in Kinds
    PROVE  /\ Opened(kind) \in StepRecord /\ StepSound(Opened(kind))
           /\ Opened(kind).kind = "signal" => Opened(kind).state = "running"
<1> DEFINE new == [kind |-> "run", state |-> "running", wake_at |-> Null, attempts |-> 0,
                   child |-> "none", compensation |-> "none", compensation_attempts |-> 0,
                   compensation_due_at |-> Null]
<1>1. new \in StepRecord /\ new.kind = "run"
  BY DEF StepRecord, TimeLeft
<1>2. CASE kind = "run"
  BY <1>1, <1>2, Attempted DEF Opened
<1>3. CASE kind = "compensable"
  <2>1. Opened(kind) = [AttemptCompleted(new) EXCEPT !.compensation = "pending"]
    BY <1>3 DEF Opened
  <2>2. /\ AttemptCompleted(new) \in StepRecord /\ StepSound(AttemptCompleted(new))
        /\ AttemptCompleted(new).kind = "run"
    <3> HIDE DEF new
    <3>1. TRUE \in BOOLEAN
      OBVIOUS
    <3>2. QED
      BY <1>1, <3>1, Attempted
  <2> HIDE DEF new
  <2>3. QED
    BY <2>1, <2>2 DEF StepRecord, StepSound
<1>4. CASE kind \in {"failing", "fatal"}
  <2>1. TRUE \in BOOLEAN /\ FALSE \in BOOLEAN
    OBVIOUS
  <2>2. Opened(kind) = AttemptFailed(new, TRUE) \/ Opened(kind) = AttemptFailed(new, FALSE)
    BY <1>4 DEF Opened
  <2> HIDE DEF new
  <2>3. QED
    BY <1>1, <2>1, <2>2, Attempted
<1>5. CASE kind \in {"sleep", "signal", "child", "timedChild"}
  BY <1>5 DEF Opened, StepRecord, StepSound, TimeLeft
<1>6. QED
  BY <1>2, <1>3, <1>4, <1>5 DEF Kinds

\* journal::append keeps what is settled and consumes nothing.
LEMMA AppendedFacts ==
    ASSUME app \in Apps, NEW s \in Seq(StepRecord), Sound(s), NEW tries, NEW new \in Seq(Kinds),
           DOMAIN tries \subseteq Ordinals(s, "retrying")
    PROVE  /\ Appended(s, tries, new) \in Seq(StepRecord) /\ Sound(Appended(s, tries, new))
           /\ DOMAIN s \subseteq DOMAIN Appended(s, tries, new)
           /\ Consumed(Appended(s, tries, new)) = Consumed(s)
           /\ Faithful(s, Appended(s, tries, new))
<1> DEFINE a == [i \in DOMAIN s |->
                    IF i \notin DOMAIN tries THEN s[i]
                    ELSE IF tries[i] = "completed" THEN AttemptCompleted(s[i])
                    ELSE AttemptFailed(s[i], tries[i] = "failed")]
           b == [i \in DOMAIN new |-> Opened(new[i])]
<1>1. Len(s) \in Nat /\ DOMAIN s = 1..Len(s) /\ Len(new) \in Nat /\ DOMAIN new = 1..Len(new)
  OBVIOUS
<1>2. \A i \in DOMAIN s : /\ s[i] \in StepRecord /\ StepSound(s[i])
                          /\ i \in DOMAIN tries => s[i].kind = "run" /\ s[i].state = "retrying"
  BY DEF Ordinals, Sound, StepSound
<1>3. \A i \in DOMAIN s : /\ a[i] \in StepRecord /\ StepSound(a[i])
                          /\ a[i].kind = s[i].kind /\ a[i].compensation = s[i].compensation
  <2>1. \A i \in DOMAIN s : (tries[i] = "failed") \in BOOLEAN
    OBVIOUS
  <2>2. QED
    BY <1>2, <2>1, Attempted
<1>4. \A i \in DOMAIN s : s[i].kind = "signal" \/ s[i].state # "retrying" => a[i] = s[i]
  BY <1>2
<1>5. \A i \in DOMAIN new : /\ b[i] \in StepRecord /\ StepSound(b[i])
                            /\ b[i].kind = "signal" => b[i].state = "running"
  BY OpenedFacts
<1>6. Appended(s, tries, new) = a \o b
  BY DEF Appended
<1>7. a \in Seq(StepRecord) /\ DOMAIN a = 1..Len(s) /\ Len(a) = Len(s)
  BY <1>1, <1>3
<1>8. b \in Seq(StepRecord) /\ DOMAIN b = 1..Len(new) /\ Len(b) = Len(new)
  BY <1>1, <1>5
<1> DEFINE u == a \o b
<1> HIDE DEF a, b
<1>9. /\ u \in Seq(StepRecord) /\ DOMAIN u = 1..(Len(s) + Len(new))
      /\ \A i \in 1..Len(s) : u[i] = a[i]
      /\ \A i \in DOMAIN u : i \in 1..Len(s) \/ (i - Len(s) \in 1..Len(new) /\ u[i] = b[i - Len(s)])
  BY <1>1, <1>7, <1>8
<1> HIDE DEF u
<1>10. DOMAIN s \subseteq DOMAIN u
  BY <1>1, <1>9
<1>11. Sound(u)
  BY <1>1, <1>3, <1>5, <1>9 DEF Sound
<1>12. Consumed(u) = Consumed(s)
  <2>1. \A i \in Consumed(u) : i \in DOMAIN s /\ s[i] = u[i]
    BY <1>1, <1>3, <1>4, <1>5, <1>9 DEF Consumed, Ordinals
  <2>2. \A i \in Consumed(s) : i \in DOMAIN u /\ s[i] = u[i]
    BY <1>1, <1>4, <1>9 DEF Consumed, Ordinals
  <2>3. QED
    BY <2>1, <2>2 DEF Consumed, Ordinals
<1>13. Faithful(s, u)
  BY <1>1, <1>3, <1>4, <1>9, <1>10 DEF Faithful
<1>14. QED
  BY <1>6, <1>9, <1>10, <1>11, <1>12, <1>13 DEF u

\* journal::resolve takes from the mailbox what its waits consume.
LEMMA ResolvedFacts ==
    ASSUME NEW s \in Seq(StepRecord), Sound(s), NEW m \in Nat
    PROVE  /\ Resolved(s, m) \in Seq(StepRecord) /\ Sound(Resolved(s, m))
           /\ DOMAIN Resolved(s, m) = DOMAIN s
           /\ Obligations(Resolved(s, m)) = Obligations(s)
           /\ \A i \in DOMAIN s : Resolved(s, m)[i].compensation = s[i].compensation
           /\ Faithful(s, Resolved(s, m))
           /\ MailAfter(s, m) \in Nat
           /\ MailAfter(s, m) + Cardinality(Consumed(Resolved(s, m)))
                  = m + Cardinality(Consumed(s))
           /\ Cardinality(Resolvable(s, m)) \in Nat
           /\ Resolvable(s, m) # {} => Cardinality(Resolvable(s, m)) > 0
<1> DEFINE u == Resolved(s, m)
           R == Resolvable(s, m)
           W == SignalWaits(s)
<1>1. Len(s) \in Nat /\ DOMAIN s = 1..Len(s) /\ \A i \in DOMAIN s : s[i] \in StepRecord
  OBVIOUS
<1>2. R \subseteq Ordinals(s, "running") /\ R \subseteq 1..Len(s) /\ W \subseteq 1..Len(s)
  BY <1>1 DEF Resolvable, SignalWaits, Ordinals
<1>3. \A i \in DOMAIN s : u[i] = IF i \notin R THEN s[i]
            ELSE [s[i] EXCEPT !.state = IF s[i].child \in {"failed", "live"} THEN "failed" ELSE "completed",
                              !.wake_at = Null]
  BY DEF Resolved
<1>4. DOMAIN u = DOMAIN s
  BY DEF Resolved
<1> HIDE DEF u, R
<1>5. \A i \in DOMAIN s :
        /\ u[i] \in StepRecord /\ StepSound(u[i]) /\ u[i].kind = s[i].kind
        /\ u[i].compensation = s[i].compensation
  <2> SUFFICES ASSUME NEW i \in DOMAIN s
               PROVE  /\ u[i] \in StepRecord /\ StepSound(u[i]) /\ u[i].kind = s[i].kind
                      /\ u[i].compensation = s[i].compensation
    OBVIOUS
  <2>1. s[i] \in StepRecord /\ StepSound(s[i])
    BY DEF Sound
  <2>2. QED
    BY <1>3, <2>1 DEF StepRecord, StepSound, TimeLeft
<1>6. \A i \in DOMAIN s : i \notin R => u[i] = s[i]
  BY <1>3
<1>7. \A i \in R : u[i].state \in {"completed", "failed"} /\ s[i].state = "running"
  <2> SUFFICES ASSUME NEW i \in R PROVE u[i].state \in {"completed", "failed"} /\ s[i].state = "running"
    OBVIOUS
  <2>1. i \in DOMAIN s /\ s[i].state = "running" /\ s[i] \in StepRecord
    BY <1>1, <1>2 DEF Ordinals
  <2>2. u[i] = [s[i] EXCEPT !.state = IF s[i].child \in {"failed", "live"} THEN "failed" ELSE "completed",
                            !.wake_at = Null]
    BY <1>3, <2>1
  <2>3. QED
    BY <2>1, <2>2 DEF StepRecord
<1>8. \A i \in R : s[i].kind = "signal" => u[i].state = "completed"
  BY <1>1, <1>2, <1>5, <1>7 DEF StepSound, Ordinals
<1>9. u \in Seq(StepRecord)
  <2>1. u = [i \in 1..Len(s) |-> u[i]]
    BY <1>1, <1>4 DEF Resolved, u
  <2>2. QED
    BY <1>1, <1>5, <2>1
<1>10. Sound(u)
  BY <1>4, <1>5 DEF Sound
<1>11. Obligations(u) = Obligations(s)
  BY <1>4, <1>5 DEF Obligations
<1>12. Faithful(s, u)
  BY <1>1, <1>2, <1>4, <1>5, <1>6, <1>7 DEF Faithful, Ordinals
<1>13. Consumed(u) = Consumed(s) \cup (R \cap W)
  <2>1. \A i \in Consumed(u) : i \in Consumed(s) \/ i \in R \cap W
    BY <1>1, <1>2, <1>4, <1>5, <1>6 DEF Consumed, Ordinals, SignalWaits
  <2>2. \A i \in Consumed(s) : i \notin R
    BY <1>2 DEF Consumed, Ordinals
  <2>3. \A i \in Consumed(s) : i \in Consumed(u)
    BY <1>4, <1>6, <2>2 DEF Consumed, Ordinals
  <2>4. \A i \in R \cap W : i \in Consumed(u)
    BY <1>1, <1>2, <1>4, <1>5, <1>8 DEF Consumed, Ordinals, SignalWaits
  <2>5. QED
    BY <2>1, <2>3, <2>4
<1>14. Consumed(s) \cap (R \cap W) = {}
  BY <1>2 DEF Consumed, Ordinals
<1>15. Consumed(s) \in SUBSET (1..Len(s)) /\ R \cap W \in SUBSET (1..Len(s)) /\ R \in SUBSET (1..Len(s))
  BY <1>1, <1>2 DEF Consumed, Ordinals
<1>16. Cardinality(Consumed(u)) = Cardinality(Consumed(s)) + Cardinality(R \cap W)
  <2> HIDE DEF W
  <2>1. Cardinality(Consumed(s) \cup (R \cap W)) = Cardinality(Consumed(s)) + Cardinality(R \cap W)
    BY <1>1, <1>14, <1>15, CountBoth
  <2>2. QED
    BY <1>13, <2>1
<1>17. /\ Cardinality(Consumed(s)) \in Nat /\ Cardinality(R \cap W) \in Nat /\ Cardinality(R) \in Nat
       /\ IsFiniteSet(R)
  BY <1>1, <1>15, OrdinalsFinite
<1>18. Cardinality(R \cap W) <= m
  <2>1. R \cap W = {i \in W : Cardinality({k \in W : k < i}) < m}
    BY DEF R, Resolvable, SignalWaits
  <2>2. QED
    BY <1>1, <1>2, <2>1, RankBound
<1>19. MailAfter(s, m) = m - Cardinality(R \cap W)
  BY DEF MailAfter, R
<1>20. R # {} => Cardinality(R) > 0
  BY <1>17, FS_EmptySet
<1> HIDE DEF W
<1>21. MailAfter(s, m) \in Nat /\ MailAfter(s, m) + Cardinality(Consumed(u)) = m + Cardinality(Consumed(s))
  BY <1>16, <1>17, <1>18, <1>19
<1>22. QED
  BY <1>4, <1>5, <1>9, <1>10, <1>11, <1>12, <1>17, <1>20, <1>21 DEF u, R

-----------------------------------------------------------------------------
(* Rows.                                                                   *)

\* A row of the same job that no task holds.
Idle(r, q) == q \in RunRecord /\ q.task_id = Null /\ Job(q) = Job(r)

\* A run that ends (finish_run).
LEMMA Finishing ==
    ASSUME NEW r \in RunRecord, NEW state \in Terminal, NEW s,
           state \in {"failed", "cancelled"} => Obligations(s) = {}
    PROVE  /\ Idle(r, Finish(r, state)) /\ RowInv(Finish(r, state), s)
           /\ Finish(r, state).state = state
           /\ Finish(r, state).journal_revision = r.journal_revision
           /\ Finish(r, state).compensation_target = r.compensation_target
  BY DEF Idle, RunRecord, Finish, Job, RowInv, TimeLeft, Terminal

\* A run that is parked.
LEMMA Parking ==
    ASSUME NEW r \in RunRecord, NEW s, r.state \notin Terminal, r.control # "none",
           r.compensation_target # Null => Obligations(s) # {}
    PROVE  Idle(r, Park(r)) /\ RowInv(Park(r), s)
  BY DEF Idle, RunRecord, Park, Job, RowInv, TimeLeft, Terminal

\* A verdict is final or starts a rollback (settle).
LEMMA Settling ==
    ASSUME NEW r \in RunRecord, NEW s, NEW target \in {"failed", "cancelled"}
    PROVE  /\ Idle(r, SettleRun(r, s, target)) /\ RowInv(SettleRun(r, s, target), s)
           /\ SettleRun(r, s, target).journal_revision = r.journal_revision
           /\ Obligations(s) # {} => /\ SettleRun(r, s, target).state = "compensating"
                                     /\ SettleRun(r, s, target).compensation_target = target
<1>1. CASE Obligations(s) = {}
  <2>1. SettleRun(r, s, target) = Finish(r, target)
    BY <1>1 DEF SettleRun
  <2>2. target \in Terminal
    BY DEF Terminal
  <2>3. QED
    BY <1>1, <2>1, <2>2, Finishing
<1>2. CASE Obligations(s) # {}
  <2>1. 0 \in TimeLeft /\ target # Null
    BY AppsAssumption DEF TimeLeft
  <2>2. SettleRun(r, s, target) =
          [r EXCEPT !.state = "compensating", !.compensation_target = target,
                    !.control = "none", !.due_at = 0, !.task_id = Null]
    BY <1>2 DEF SettleRun
  <2>3. QED
    BY <1>2, <2>1, <2>2 DEF Idle, RunRecord, Job, RowInv, Terminal
<1>3. QED
  BY <1>1, <1>2

\* A run that waits has the clock its waits have (suspend).
LEMMA Suspending ==
    ASSUME NEW r \in RunRecord, NEW s \in Seq(StepRecord), Sound(s), NEW progressed \in BOOLEAN,
           r.compensation_target = Null
    PROVE  /\ Idle(r, Suspend(r, s, progressed)) /\ RowInv(Suspend(r, s, progressed), s)
           /\ Suspend(r, s, progressed).journal_revision = r.journal_revision
<1> DEFINE waits == Ordinals(s, "running")
           retries == {s[i].wake_at : i \in Ordinals(s, "retrying")}
           timers == {s[i].wake_at : i \in waits} \ {Null}
           state == IF retries # {} \/ waits = {} \/ progressed THEN "queued"
                    ELSE IF \A i \in waits : s[i].kind = "sleep" THEN "sleeping"
                    ELSE "waiting"
           due == IF retries # {} THEN Soonest(retries)
                  ELSE IF state = "queued" THEN 0
                  ELSE IF timers = {} THEN Null
                  ELSE Soonest(timers)
<1>1. Suspend(r, s, progressed) = [r EXCEPT !.state = state, !.due_at = due, !.task_id = Null]
  BY DEF Suspend
<1>2. state \in {"queued", "sleeping", "waiting"}
  OBVIOUS
<1>3. retries \subseteq Nat
  BY DEF Sound, StepSound, Ordinals
<1>4. timers \subseteq Nat
  <2>1. \A i \in DOMAIN s : s[i] \in StepRecord
    OBVIOUS
  <2>2. \A step \in StepRecord : step.wake_at \in Nat \cup {Null}
    BY DEF StepRecord, TimeLeft
  <2>3. QED
    BY <2>1, <2>2 DEF Ordinals
<1> HIDE DEF retries, timers, state
<1>5. due \in TimeLeft
  BY <1>3, <1>4, FirstOf DEF TimeLeft
<1> HIDE DEF due
<1>6. QED
  BY <1>1, <1>2, <1>5 DEF Idle, RunRecord, Job, RowInv, Terminal

\* The newest obligation is due, or sets the clock (compensation_ready).
LEMMA Rolling ==
    ASSUME NEW r \in RunRecord, NEW s \in Seq(StepRecord), Obligations(s) # {}
    PROVE  /\ Rollback(r, s).ready \in BOOLEAN
           /\ Rollback(r, s).ready => Rollback(r, s).run = r
           /\ ~Rollback(r, s).ready =>
                \E due \in Nat : Rollback(r, s).run = [r EXCEPT !.due_at = due]
<1> DEFINE i == Newest(Obligations(s))
           due == s[i].compensation_due_at
<1>1. Len(s) \in Nat /\ Obligations(s) \in SUBSET (1..Len(s))
  BY DEF Obligations
<1>2. i \in DOMAIN s
  BY <1>1, NewestOf DEF Obligations
<1>3. due \in Nat \cup {Null}
  <2>1. s[i] \in StepRecord
    BY <1>2
  <2>2. QED
    BY <2>1 DEF StepRecord, TimeLeft
<1>4. Rollback(r, s) = IF due = Null \/ due = 0 THEN [ready |-> TRUE, run |-> r]
                       ELSE [ready |-> FALSE, run |-> [r EXCEPT !.due_at = due]]
  BY DEF Rollback
<1> HIDE DEF due
<1>5. QED
  BY <1>3, <1>4

\* A compensator waits for its time: the row of a rollback with another clock.
LEMMA Reclocked ==
    ASSUME NEW r \in RunRecord, NEW s, RowInv(r, s), r.state \notin Terminal, r.task_id = Null,
           NEW due \in Nat
    PROVE  Idle(r, [r EXCEPT !.due_at = due]) /\ RowInv([r EXCEPT !.due_at = due], s)
           /\ [r EXCEPT !.due_at = due].journal_revision = r.journal_revision
           /\ [r EXCEPT !.due_at = due].state = r.state
           /\ [r EXCEPT !.due_at = due].compensation_target = r.compensation_target
  BY AppsAssumption DEF Idle, RunRecord, Job, RowInv, TimeLeft

\* What nobody reported on is abandoned: nothing is left to undo (abandon).
LEMMA Abandoning ==
    ASSUME NEW s \in Seq(StepRecord), Sound(s)
    PROVE  /\ Abandoned(s) \in Seq(StepRecord) /\ Sound(Abandoned(s))
           /\ DOMAIN Abandoned(s) = DOMAIN s /\ Obligations(Abandoned(s)) = {}
           /\ Consumed(Abandoned(s)) = Consumed(s) /\ Faithful(s, Abandoned(s))
<1> DEFINE u == Abandoned(s)
<1>1. Len(s) \in Nat /\ DOMAIN s = 1..Len(s) /\ DOMAIN u = DOMAIN s
  BY DEF Abandoned
<1>2. \A i \in DOMAIN s : u[i] = IF i \in Obligations(s) THEN [s[i] EXCEPT !.compensation = "abandoned"]
                                 ELSE s[i]
  BY DEF Abandoned
<1>3. \A i \in DOMAIN s :
        /\ u[i] \in StepRecord /\ StepSound(u[i]) /\ u[i].compensation # "pending"
        /\ u[i].state = s[i].state /\ u[i].kind = s[i].kind /\ u[i].attempts = s[i].attempts
        /\ s[i].compensation = "pending" => u[i].compensation = "abandoned"
  <2> SUFFICES ASSUME NEW i \in DOMAIN s
               PROVE /\ u[i] \in StepRecord /\ StepSound(u[i]) /\ u[i].compensation # "pending"
                     /\ u[i].state = s[i].state /\ u[i].kind = s[i].kind /\ u[i].attempts = s[i].attempts
                     /\ s[i].compensation = "pending" => u[i].compensation = "abandoned"
    OBVIOUS
  <2>1. s[i] \in StepRecord /\ StepSound(s[i])
    BY DEF Sound
  <2>2. QED
    BY <1>2, <2>1 DEF Obligations, StepRecord, StepSound
<1>4. u \in Seq(StepRecord)
  <2>1. u = [i \in 1..Len(s) |-> u[i]]
    BY <1>1 DEF Abandoned
  <2> HIDE DEF u
  <2>2. QED
    BY <1>1, <1>3, <2>1
<1> HIDE DEF u
<1>5. QED
  BY <1>1, <1>3, <1>4 DEF Sound, Obligations, Consumed, Ordinals, Faithful, u

-----------------------------------------------------------------------------
(* frontier::prepare.                                                      *)

\* What a delivery finds out before it needs an executor leaves a row and a
\* journal that go together, takes from the mailbox what it consumes, and hands
\* a run over only while its strikes are within the budget or a cancellation
\* turned it to a rollback.
LEMMA PrepareFacts ==
    ASSUME app \in Apps, steps \in Seq(StepRecord), Sound(steps), mail \in Nat,
           NEW r \in RunRecord, RowInv(r, steps), r.task_id = Null, r.state \notin Terminal, NEW ts
    PROVE  LET p == Prepare(r, ts)
           IN  /\ p.ready \in BOOLEAN
               /\ Idle(r, p.run) /\ RowInv(p.run, p.steps)
               /\ p.steps \in Seq(StepRecord) /\ Sound(p.steps) /\ DOMAIN p.steps = DOMAIN steps
               /\ Faithful(steps, p.steps)
               /\ p.mail \in Nat
               /\ p.mail + Cardinality(Consumed(p.steps)) = mail + Cardinality(Consumed(steps))
               /\ p.ready => /\ p.run.state \notin Terminal \cup {"paused"}
                             /\ p.run.journal_revision >= r.journal_revision
                             /\ p.run.compensation_target \in {r.compensation_target, "cancelled"}
                             /\ p.run.compensation_target # "cancelled" =>
                                   ~(Strikes(r, ts) >= app.max_stuck_dispatches)
<1> DEFINE plan(ready, row, s, m) == [ready |-> ready, run |-> row, steps |-> s, mail |-> m]
           settled == SettleRun(r, steps, "cancelled")
           found == Resolvable(steps, mail)
           resolved == Resolved(steps, mail)
           moved == [r EXCEPT !.journal_revision = @ + Cardinality(found)]
           attempt_due == \E i \in Ordinals(resolved, "retrying") : resolved[i].wake_at = 0
           stuck == Strikes(r, ts) >= app.max_stuck_dispatches
           p == Prepare(r, ts)
           Good(ready, row, s, m) ==
               /\ ready \in BOOLEAN /\ Idle(r, row) /\ RowInv(row, s)
               /\ s \in Seq(StepRecord) /\ Sound(s) /\ DOMAIN s = DOMAIN steps /\ Faithful(steps, s)
               /\ m \in Nat /\ m + Cardinality(Consumed(s)) = mail + Cardinality(Consumed(steps))
               /\ ready => /\ row.state \notin Terminal \cup {"paused"}
                           /\ row.journal_revision >= r.journal_revision
                           /\ row.compensation_target \in {r.compensation_target, "cancelled"}
                           /\ row.compensation_target # "cancelled" => ~stuck
<1>1. Faithful(steps, steps) /\ r.journal_revision \in Nat
  BY DEF Faithful, RunRecord
<1>2. ASSUME NEW row, Idle(r, row), RowInv(row, steps) PROVE Good(FALSE, row, steps, mail)
  BY <1>1, <1>2
<1>3. ASSUME NEW row \in RunRecord, Idle(r, row), RowInv(row, steps), row.state = "compensating",
             Obligations(steps) # {}, row.journal_revision = r.journal_revision,
             row.compensation_target \in {r.compensation_target, "cancelled"},
             row.compensation_target # "cancelled" => ~stuck
      PROVE  Good(Rollback(row, steps).ready, Rollback(row, steps).run, steps, mail)
  <2>1. row.state \notin Terminal \cup {"paused"}
    BY <1>3 DEF Terminal
  <2>2. CASE Rollback(row, steps).ready
    <3>1. Rollback(row, steps).run = row /\ Rollback(row, steps).ready \in BOOLEAN
      BY <1>3, <2>2, Rolling
    <3>2. QED
      BY <1>1, <1>3, <2>1, <2>2, <3>1
  <2>3. CASE ~Rollback(row, steps).ready
    <3>1. PICK due \in Nat : Rollback(row, steps).run = [row EXCEPT !.due_at = due]
      BY <1>3, <2>3, Rolling
    <3>2. Rollback(row, steps).ready = FALSE
      BY <1>3, <2>3, Rolling
    <3>3. Idle(row, [row EXCEPT !.due_at = due]) /\ RowInv([row EXCEPT !.due_at = due], steps)
      BY <1>3, <2>1, Reclocked DEF Idle
    <3>4. Idle(r, [row EXCEPT !.due_at = due])
      BY <1>3, <3>3 DEF Idle
    <3>5. QED
      BY <1>2, <3>1, <3>2, <3>3, <3>4
  <2>4. QED
    BY <2>2, <2>3
<1>4. CASE r.control = "cancel"
  <2>1. CASE Obligations(steps) = {}
    <3>1. p = plan(FALSE, settled, steps, mail)
      BY <1>4, <2>1 DEF Prepare
    <3>2. Idle(r, settled) /\ RowInv(settled, steps)
      BY Settling
    <3>3. QED
      BY <1>2, <3>1, <3>2
  <2>2. CASE Obligations(steps) # {}
    <3>1. p = plan(Rollback(settled, steps).ready, Rollback(settled, steps).run, steps, mail)
      BY <1>4, <2>2 DEF Prepare
    <3>2. /\ Idle(r, settled) /\ RowInv(settled, steps) /\ settled.state = "compensating"
          /\ settled.compensation_target = "cancelled"
          /\ settled.journal_revision = r.journal_revision
      BY <2>2, Settling
    <3>3. settled \in RunRecord
      BY <3>2 DEF Idle
    <3>4. Good(Rollback(settled, steps).ready, Rollback(settled, steps).run, steps, mail)
      <4> HIDE DEF settled, Good
      <4>1. QED
        BY <1>3, <2>2, <3>2, <3>3
    <3>5. QED
      BY <3>1, <3>4
  <2>3. QED
    BY <2>1, <2>2
<1>5. CASE r.control = "pause"
  <2>1. p = plan(FALSE, Park(r), steps, mail)
    BY <1>5 DEF Prepare
  <2>2. r.compensation_target # Null => Obligations(steps) # {}
    BY DEF RowInv
  <2>3. Idle(r, Park(r)) /\ RowInv(Park(r), steps)
    BY <1>5, <2>2, Parking
  <2>4. QED
    BY <1>2, <2>1, <2>3
<1>6. CASE r.control \notin {"cancel", "pause"} /\ stuck
  <2>1. CASE r.state = "compensating"
    <3>1. p = plan(FALSE, Finish(r, "failed"), Abandoned(steps), mail)
      BY <1>6, <2>1 DEF Prepare
    <3>2. Abandoned(steps) \in Seq(StepRecord) /\ Sound(Abandoned(steps))
          /\ DOMAIN Abandoned(steps) = DOMAIN steps /\ Obligations(Abandoned(steps)) = {}
          /\ Consumed(Abandoned(steps)) = Consumed(steps) /\ Faithful(steps, Abandoned(steps))
      BY Abandoning
    <3>3. Idle(r, Finish(r, "failed")) /\ RowInv(Finish(r, "failed"), Abandoned(steps))
      BY <3>2, Finishing DEF Terminal
    <3>4. QED
      BY <3>1, <3>2, <3>3
  <2>2. CASE r.state # "compensating"
    <3>1. p = plan(FALSE, Finish(r, "stalled"), steps, mail)
      BY <1>6, <2>2 DEF Prepare
    <3>2. Idle(r, Finish(r, "stalled")) /\ RowInv(Finish(r, "stalled"), steps)
      BY Finishing DEF Terminal
    <3>3. QED
      BY <1>2, <3>1, <3>2
  <2>3. QED
    BY <2>1, <2>2
<1>7. CASE r.control \notin {"cancel", "pause"} /\ ~stuck /\ r.state = "compensating"
  <2>1. p = plan(Rollback(r, steps).ready, Rollback(r, steps).run, steps, mail)
    BY <1>7 DEF Prepare
  <2>2. Idle(r, r) /\ Obligations(steps) # {}
    BY <1>7 DEF Idle, RowInv
  <2>3. Good(Rollback(r, steps).ready, Rollback(r, steps).run, steps, mail)
    <3> HIDE DEF Good, stuck
    <3>1. QED
      BY <1>3, <1>7, <2>2
  <2>4. QED
    BY <2>1, <2>3
<1>8. CASE r.control \notin {"cancel", "pause"} /\ ~stuck /\ r.state # "compensating"
  <2>1. r.compensation_target = Null /\ r.state \notin Terminal \cup {"paused"}
    BY <1>8 DEF RowInv, RunRecord
  <2>2. CASE Ordinals(resolved, "running") # {} /\ found = {} /\ ~attempt_due
    <3> DEFINE row == Suspend(r, steps, FALSE)
    <3>1. p = plan(FALSE, row, steps, mail)
      BY <1>8, <2>2 DEF Prepare
    <3>2. Idle(r, row) /\ RowInv(row, steps)
      BY <2>1, Suspending
    <3> HIDE DEF row
    <3>3. Good(FALSE, row, steps, mail)
      <4> HIDE DEF Good
      <4>1. QED
        BY <1>2, <3>2
    <3> HIDE DEF found, resolved, moved, attempt_due
    <3>4. QED
      BY <3>1, <3>3
  <2>3. CASE ~(Ordinals(resolved, "running") # {} /\ found = {} /\ ~attempt_due)
    <3>1. p = plan(TRUE, moved, resolved, MailAfter(steps, mail))
      BY <1>8, <2>3 DEF Prepare
    <3>2. /\ resolved \in Seq(StepRecord) /\ Sound(resolved) /\ DOMAIN resolved = DOMAIN steps
          /\ Faithful(steps, resolved) /\ MailAfter(steps, mail) \in Nat
          /\ MailAfter(steps, mail) + Cardinality(Consumed(resolved)) = mail + Cardinality(Consumed(steps))
          /\ Cardinality(found) \in Nat
      BY ResolvedFacts
    <3>3. r.journal_revision + Cardinality(found) \in Nat
          /\ r.journal_revision + Cardinality(found) >= r.journal_revision
      BY <1>1, <3>2
    <3> HIDE DEF found, resolved
    <3>4. /\ Idle(r, moved) /\ RowInv(moved, resolved) /\ moved.state = r.state
          /\ moved.compensation_target = r.compensation_target
          /\ moved.journal_revision >= r.journal_revision
      BY <2>1, <3>3 DEF Idle, RunRecord, Job, RowInv
    <3> HIDE DEF moved
    <3>5. Good(TRUE, moved, resolved, MailAfter(steps, mail))
      BY <1>8, <2>1, <3>2, <3>4
    <3>6. QED
      BY <3>1, <3>5
  <2>4. QED
    BY <2>2, <2>3
<1>9. QED
  BY <1>4, <1>5, <1>6, <1>7, <1>8

-----------------------------------------------------------------------------
(* The two halves of the invariant: the run with its journal, and its jobs   *)
(* with their tasks, receipts, intents and queue rows.                       *)

RunPart ==
    /\ app \in Apps /\ run \in RunRecord /\ steps \in Seq(StepRecord) /\ mail \in Nat
    /\ notices \subseteq DOMAIN steps
    /\ budget \in [faults : 0..app.faults, commands : 0..app.commands, signals : 0..app.signals]
    /\ StepsInv /\ RowInv(run, steps) /\ SignalsConserved

JobTypes ==
    /\ tasks \in Seq(TaskRecord)
    /\ receipts \in [Jobs -> {"none", "open"} \cup Decided]
    /\ intents \in [Jobs -> TimeLeft]
    /\ pending \subseteq Jobs
    /\ queue \in [Jobs -> QueueRecord]
    /\ holding \subseteq DOMAIN tasks

JobPart == JobTypes /\ AheadInv /\ JobsInv /\ TasksInv /\ CountInv /\ StrikesInv

\* The halves make the whole.
LEMMA Halves == IInv <=> RunPart /\ JobPart
  BY DEF IInv, TypeOK, RunPart, JobPart, JobTypes, RunRecord

\* What is spent of a budget.
LEMMA Spending ==
    ASSUME RunPart, NEW kind \in {"faults", "commands", "signals"}, Spend(kind)
    PROVE  /\ budget' \in [faults : 0..app.faults, commands : 0..app.commands, signals : 0..app.signals]
           /\ kind # "signals" => budget'.signals = budget.signals
           /\ kind = "signals" => budget'.signals = budget.signals - 1
<1>1. /\ app.faults \in Nat /\ app.commands \in Nat /\ app.signals \in Nat
      /\ budget \in [faults : 0..app.faults, commands : 0..app.commands, signals : 0..app.signals]
  BY AppFacts DEF RunPart
<1>2. budget[kind] > 0 /\ budget' = [budget EXCEPT ![kind] = @ - 1]
  BY DEF Spend
<1>3. CASE kind = "faults"
  BY <1>1, <1>2, <1>3
<1>4. CASE kind = "commands"
  BY <1>1, <1>2, <1>4
<1>5. CASE kind = "signals"
  BY <1>1, <1>2, <1>5
<1>6. QED
  BY <1>3, <1>4, <1>5

Unspent == budget' = budget \/ Spend("faults") \/ Spend("commands")

\* A step that touches neither the run nor its journal.
LEMMA RunStands ==
    ASSUME RunPart, UNCHANGED <<app, run, steps, mail, notices>>, Unspent
    PROVE  RunPart'
<1>1. /\ budget' \in [faults : 0..app.faults, commands : 0..app.commands, signals : 0..app.signals]
      /\ budget'.signals = budget.signals
  BY Spending DEF Unspent, RunPart
<1>2. QED
  BY <1>1 DEF RunPart, StepsInv, SignalsConserved

\* A step that leaves the journal alone and rewrites the row.
LEMMA RowMoves ==
    ASSUME RunPart, UNCHANGED <<app, steps, mail, notices>>, Unspent,
           run' \in RunRecord, RowInv(run', steps)
    PROVE  RunPart'
<1>1. /\ budget' \in [faults : 0..app.faults, commands : 0..app.commands, signals : 0..app.signals]
      /\ budget'.signals = budget.signals
  BY Spending DEF Unspent, RunPart
<1>2. RowInv(run, steps)'
  BY DEF RowInv, Obligations
<1>3. QED
  BY <1>1, <1>2 DEF RunPart, StepsInv, SignalsConserved

\* A step that writes the journal and the row and keeps the signals' balance.
LEMMA JournalMoves ==
    ASSUME RunPart, UNCHANGED app, Unspent,
           run' \in RunRecord, RowInv(run', steps'), steps' \in Seq(StepRecord), Sound(steps'),
           notices' \subseteq DOMAIN steps', mail' \in Nat,
           mail' + Cardinality(Consumed(steps')) = mail + Cardinality(Consumed(steps))
    PROVE  RunPart'
<1>1. /\ budget' \in [faults : 0..app.faults, commands : 0..app.commands, signals : 0..app.signals]
      /\ budget'.signals = budget.signals
  BY Spending DEF Unspent, RunPart
<1>2. RowInv(run, steps)'
  BY DEF RowInv, Obligations
<1>3. StepsInv'
  BY DEF StepsInv, Sound
<1>4. SignalsConserved'
  BY <1>1 DEF RunPart, SignalsConserved, Consumed, Ordinals
<1>5. QED
  BY <1>1, <1>2, <1>3, <1>4 DEF RunPart

\* A job is a generation and a frontier of it, and the run's is none of those
\* ahead of it.
LEMMA JobFacts ==
    ASSUME NEW r \in RunRecord
    PROVE  /\ Job(r) \in Jobs /\ Job(r)[1] = r.generation /\ Job(r)[2] = r.frontier_revision
           /\ ~Ahead(r, Job(r))
           /\ \A q \in RunRecord : Job(q) = Job(r) => \A j \in Jobs : Ahead(q, j) <=> Ahead(r, j)
<1>1. r.generation \in 0..MaxGeneration /\ r.frontier_revision \in 1..MaxRevision
  BY DEF RunRecord
<1>2. Job(r) \in Jobs /\ Job(r)[1] = r.generation /\ Job(r)[2] = r.frontier_revision
  BY <1>1 DEF Job, Jobs
<1>3. ~Ahead(r, Job(r))
  BY <1>1, <1>2 DEF Ahead
<1>4. ASSUME NEW q \in RunRecord, Job(q) = Job(r)
      PROVE  q.generation = r.generation /\ q.frontier_revision = r.frontier_revision
  BY <1>4 DEF Job
<1>5. QED
  BY <1>2, <1>3, <1>4 DEF Ahead

\* Tasks are finite in number.
LEMMA TasksFinite ==
    ASSUME JobTypes, NEW j
    PROVE  IsFiniteSet(TasksOf(j)) /\ Cardinality(TasksOf(j)) \in Nat
<1>1. Len(tasks) \in Nat /\ TasksOf(j) \in SUBSET (1..Len(tasks))
  BY DEF JobTypes, TasksOf
<1>2. QED
  BY <1>1, OrdinalsFinite

\* The fields of a task.
LEMMA TaskFields ==
    ASSUME JobTypes, NEW t \in DOMAIN tasks
    PROVE  /\ tasks[t] \in TaskRecord /\ tasks[t].job \in Jobs /\ tasks[t].journal_revision \in Nat
           /\ tasks[t].deadline \in Nat
<1>1. tasks[t] \in TaskRecord
  BY DEF JobTypes
<1>2. QED
  BY <1>1 DEF TaskRecord

\* What a step may do to the jobs while the run stays at its frontier.
Steady ==
    /\ app' = app /\ run' \in RunRecord /\ Job(run') = Job(run)
    /\ run'.state \in Terminal <=> run.state \in Terminal
    /\ run'.journal_revision >= run.journal_revision
    /\ run'.compensation_target # "cancelled" => run.compensation_target # "cancelled"
    /\ run'.task_id \in {run.task_id, Null}
    /\ run'.state \notin Terminal /\ run'.due_at # Null =>
          run.due_at # Null \/ queue[Job(run)].state # "absent"

SteadyTasks ==
    /\ tasks' \in Seq(TaskRecord) /\ DOMAIN tasks' = DOMAIN tasks /\ holding' \subseteq DOMAIN tasks
    /\ \A t \in DOMAIN tasks :
          /\ tasks'[t].job = tasks[t].job /\ tasks'[t].journal_revision = tasks[t].journal_revision
          /\ tasks'[t].state = "completed" => tasks[t].state = "completed"
          /\ tasks[t].job = Job(run) /\ t # run'.task_id => tasks'[t].state = "expired"

SteadyReceipts ==
    /\ receipts' \in [Jobs -> {"none", "open"} \cup Decided]
    /\ \A j \in Jobs :
          /\ receipts[j] \in Decided => receipts'[j] = receipts[j]
          /\ receipts'[j] \in Decided => receipts[j] \in Decided \/ ~Current(j)
          /\ Ahead(run, j) => receipts'[j] = "none"

SteadyQueue ==
    /\ intents' \in [Jobs -> TimeLeft] /\ pending' \subseteq pending /\ queue' \in [Jobs -> QueueRecord]
    /\ \A j \in Jobs :
          /\ intents'[j] = Null <=> intents[j] = Null
          /\ j \in pending \ pending' => queue'[j].state # "absent"
          /\ queue[j].state # "absent" => queue'[j].state # "absent"
          /\ queue'[j].state # "absent" => queue[j].state # "absent" \/ j \in pending
          /\ queue'[j].state = "settled" => queue[j].state = "settled" \/ receipts[j] \in Decided
          /\ queue'[j].state = "claimed" => queue'[j].task = Null
          /\ queue[j].state = "absent" => queue'[j].executions = queue[j].executions
                                          /\ queue'[j].task = queue[j].task
          /\ queue'[j].executions + (IF queue'[j].task # Null /\ ~queue'[j].counted THEN 1 ELSE 0)
                <= queue[j].executions + (IF queue[j].task # Null /\ ~queue[j].counted THEN 1 ELSE 0)

\* Such a step keeps the jobs in agreement.
LEMMA SteadyStep ==
    ASSUME RunPart, JobPart, Steady, SteadyTasks, SteadyReceipts, SteadyQueue
    PROVE  JobPart'
<1> DEFINE g == Job(run)
<1>1. /\ run \in RunRecord /\ run' \in RunRecord /\ g \in Jobs /\ Job(run)' = g /\ ~Ahead(run, g)
      /\ \A j \in Jobs : Ahead(run', j) <=> Ahead(run, j)
  <2>1. run \in RunRecord /\ run' \in RunRecord /\ Job(run') = Job(run)
    BY DEF RunPart, Steady
  <2>2. Job(run)' = Job(run')
    BY DEF Job
  <2>3. QED
    BY <2>1, <2>2, JobFacts
<1>2. JobTypes'
  BY DEF JobPart, JobTypes, SteadyTasks, SteadyReceipts, SteadyQueue
<1>3. \A t \in DOMAIN tasks : tasks[t].job \in Jobs /\ tasks[t].journal_revision \in Nat
  BY TaskFields DEF JobPart
<1>4. AheadInv'
  <2>1. \A j \in Jobs : Ahead(run', j) =>
            /\ receipts'[j] = "none" /\ queue'[j].state = "absent" /\ queue'[j].executions = 0
            /\ queue'[j].task = Null /\ j \notin pending'
    BY <1>1 DEF JobPart, AheadInv, SteadyReceipts, SteadyQueue
  <2>2. \A t \in DOMAIN tasks' : ~Ahead(run', tasks'[t].job)
    BY <1>1, <1>3 DEF JobPart, AheadInv, SteadyTasks
  <2>3. QED
    BY <2>1, <2>2 DEF AheadInv, Ahead
<1>5. JobsInv'
  <2>1. run'.state \notin Terminal => receipts'[g] \notin Decided
    BY <1>1 DEF JobPart, JobsInv, Steady, SteadyReceipts, Current
  <2>2. \A j \in Jobs : j \in pending' \/ queue'[j].state # "absent" => intents'[j] # Null
    BY DEF JobPart, JobsInv, SteadyQueue
  <2>3. run'.state \notin Terminal /\ run'.due_at # Null => g \in pending' \/ queue'[g].state # "absent"
    BY <1>1 DEF JobPart, JobsInv, Steady, SteadyQueue
  <2>4. \A j \in Jobs : queue'[j].state = "settled" => receipts'[j] \in Decided
    BY DEF JobPart, JobsInv, JournalDecidesFirst, SteadyQueue, SteadyReceipts
  <2>5. QED
    BY <1>1, <2>1, <2>2, <2>3, <2>4 DEF JobsInv, JournalDecidesFirst, Job
<1>6. TasksInv'
  <2>1. \A t \in DOMAIN tasks' : tasks'[t].state = "completed" => receipts'[tasks'[t].job] \in Decided
    BY <1>3 DEF JobPart, TasksInv, SteadyTasks, SteadyReceipts
  <2>2. run'.task_id # Null => run'.task_id \in DOMAIN tasks' /\ tasks'[run'.task_id].job = g
    BY <1>1 DEF JobPart, TasksInv, SteadyTasks, Steady
  <2>3. \A t \in DOMAIN tasks' : tasks'[t].job = g =>
            /\ t # run'.task_id => tasks'[t].state = "expired"
            /\ tasks'[t].journal_revision <= run'.journal_revision
    <3>1. \A t \in DOMAIN tasks : tasks[t].job = g => tasks[t].journal_revision <= run.journal_revision
      BY <1>1 DEF JobPart, TasksInv
    <3>2. \A t \in DOMAIN tasks : tasks[t].journal_revision \in Nat
      BY <1>3
    <3>3. run.journal_revision \in Nat /\ run'.journal_revision \in Nat
          /\ run'.journal_revision >= run.journal_revision
      BY <1>1 DEF RunRecord, Steady
    <3>4. \A t \in DOMAIN tasks : tasks[t].job = g => tasks[t].journal_revision <= run'.journal_revision
      BY <3>1, <3>2, <3>3
    <3>5. QED
      BY <3>4 DEF SteadyTasks
  <2>4. \A t, u \in DOMAIN tasks' :
            tasks'[t].state = "completed" /\ tasks'[u].state = "completed"
            /\ tasks'[t].job = tasks'[u].job => t = u
    BY DEF JobPart, TasksInv, OneCommitPerFrontier, SteadyTasks
  <2>5. QED
    BY <1>1, <2>1, <2>2, <2>3, <2>4 DEF TasksInv, OneCommitPerFrontier, Job
<1>7. \A j : TasksOf(j)' = TasksOf(j)
  BY DEF SteadyTasks, TasksOf
<1>8. CountInv'
  <2> SUFFICES ASSUME NEW j \in Jobs
               PROVE  /\ queue'[j].executions + (IF queue'[j].task # Null /\ ~queue'[j].counted THEN 1 ELSE 0)
                            <= Cardinality(TasksOf(j))
                      /\ queue'[j].state \in {"absent", "claimed"} => queue'[j].task = Null
    BY <1>7 DEF CountInv
  <2> DEFINE a == queue[j].executions + (IF queue[j].task # Null /\ ~queue[j].counted THEN 1 ELSE 0)
             b == queue'[j].executions + (IF queue'[j].task # Null /\ ~queue'[j].counted THEN 1 ELSE 0)
             c == Cardinality(TasksOf(j))
  <2>1. queue[j].executions \in Nat /\ queue'[j].executions \in Nat
    BY <1>2 DEF JobPart, JobTypes, QueueRecord
  <2>2. a \in Nat /\ b \in Nat
    BY <2>1
  <2>3. c \in Nat
    BY TasksFinite DEF JobPart
  <2>4. b <= a /\ a <= c
    BY DEF SteadyQueue, JobPart, CountInv
  <2>5. queue'[j].state \in {"absent", "claimed"} => queue'[j].task = Null
    BY DEF SteadyQueue, JobPart, CountInv
  <2> HIDE DEF a, b, c
  <2>6. b <= c
    BY <2>2, <2>3, <2>4
  <2>7. QED
    BY <2>5, <2>6 DEF b, c
<1>9. StrikesInv'
  <2> SUFFICES ASSUME run'.compensation_target # "cancelled",
                      \A t \in TasksOf(g) : tasks'[t].journal_revision = run'.journal_revision
               PROVE  Cardinality(TasksOf(g)) <= app.max_stuck_dispatches
    BY <1>1, <1>7 DEF StrikesInv, Steady
  <2>1. \A t \in TasksOf(g) : /\ tasks[t].journal_revision = run'.journal_revision
                              /\ tasks[t].journal_revision <= run.journal_revision
    BY DEF SteadyTasks, TasksOf, JobPart, TasksInv
  <2>2. run.journal_revision \in Nat /\ run'.journal_revision \in Nat
        /\ run'.journal_revision >= run.journal_revision
    BY <1>1 DEF RunRecord, Steady
  <2>3. CASE TasksOf(g) = {}
    BY <2>3, FS_EmptySet, AppFacts DEF RunPart
  <2>4. CASE TasksOf(g) # {}
    <3>1. run'.journal_revision = run.journal_revision
      BY <2>1, <2>2, <2>4
    <3>2. run.compensation_target # "cancelled"
      BY DEF Steady
    <3>3. QED
      BY <2>1, <3>1, <3>2 DEF JobPart, StrikesInv
  <2>5. QED
    BY <2>3, <2>4
<1>10. QED
  BY <1>2, <1>4, <1>5, <1>6, <1>8, <1>9 DEF JobPart

\* What a step may do to the jobs when the run moves on to another frontier.
Moving ==
    /\ app' = app /\ run' \in RunRecord /\ run'.task_id = Null
    /\ Ahead(run, Job(run')) /\ \A j \in Jobs : Ahead(run', j) => Ahead(run, j)
    /\ Record(run')

MovingTasks ==
    /\ tasks' \in Seq(TaskRecord) /\ DOMAIN tasks' = DOMAIN tasks /\ holding' \subseteq DOMAIN tasks
    /\ \A t \in DOMAIN tasks :
          /\ tasks'[t].job = tasks[t].job /\ tasks'[t].journal_revision = tasks[t].journal_revision
          /\ tasks'[t].state = "completed" =>
                \/ tasks[t].state = "completed"
                \/ t = run.task_id /\ receipts'[tasks[t].job] \in Decided

MovingReceipts ==
    /\ receipts' \in [Jobs -> {"none", "open"} \cup Decided]
    /\ \A j \in Jobs :
          /\ receipts[j] \in Decided => receipts'[j] = receipts[j]
          /\ Ahead(run, j) => receipts'[j] = "none"

MovingQueue ==
    /\ queue' \in [Jobs -> QueueRecord]
    /\ \A j \in Jobs :
          /\ queue'[j].executions = queue[j].executions /\ queue'[j].task = queue[j].task
          /\ queue'[j].counted = queue[j].counted
          /\ \/ queue'[j].state = queue[j].state
             \/ queue[j].state = "claimed" /\ queue'[j].state = "leased"

\* Such a step keeps the jobs in agreement.
LEMMA MovingStep ==
    ASSUME RunPart, JobPart, Moving, MovingTasks, MovingReceipts, MovingQueue
    PROVE  JobPart'
<1> DEFINE n == Job(run')
<1>1. /\ run \in RunRecord /\ run' \in RunRecord /\ n \in Jobs /\ Job(run)' = n /\ ~Ahead(run', n)
      /\ Ahead(run, n)
  <2>1. run \in RunRecord /\ run' \in RunRecord /\ Ahead(run, n)
    BY DEF RunPart, Moving
  <2>2. Job(run)' = n
    BY DEF Job
  <2>3. QED
    BY <2>1, <2>2, JobFacts
<1>2. /\ receipts[n] = "none" /\ receipts'[n] = "none" /\ queue[n].state = "absent" /\ n \notin pending
      /\ queue'[n].state = "absent"
      /\ \A t \in DOMAIN tasks : tasks[t].job # n
  BY <1>1 DEF JobPart, AheadInv, MovingReceipts, MovingQueue
<1>3. /\ intents' \in [Jobs -> TimeLeft] /\ pending' \subseteq pending \cup {n} /\ pending \subseteq pending'
      /\ n \in pending' => intents'[n] # Null
      /\ \A j \in Jobs : intents[j] # Null => intents'[j] # Null
      /\ run'.due_at # Null /\ run'.state \notin Terminal => n \in pending'
  <2>1. intents \in [Jobs -> TimeLeft] /\ run'.due_at \in TimeLeft
    BY <1>1 DEF JobPart, JobTypes, RunRecord
  <2>2. CASE run'.due_at # Null /\ run'.state \notin Terminal
    <3>1. intents' = [intents EXCEPT ![n] = run'.due_at] /\ pending' = pending \cup {n}
      BY <2>2 DEF Moving, Record
    <3>2. QED
      BY <1>1, <2>1, <2>2, <3>1
  <2>3. CASE ~(run'.due_at # Null /\ run'.state \notin Terminal)
    <3>1. intents' = intents /\ pending' = pending
      BY <2>3 DEF Moving, Record
    <3>2. QED
      BY <1>2, <2>1, <2>3, <3>1
  <2>4. QED
    BY <2>2, <2>3
<1>4. JobTypes'
  BY <1>1, <1>3 DEF JobPart, JobTypes, MovingTasks, MovingReceipts, MovingQueue
<1>5. \A t \in DOMAIN tasks : tasks[t].job \in Jobs
  BY TaskFields DEF JobPart
<1>6. AheadInv'
  <2>1. \A j \in Jobs : Ahead(run', j) =>
            /\ receipts'[j] = "none" /\ queue'[j].state = "absent" /\ queue'[j].executions = 0
            /\ queue'[j].task = Null /\ j \notin pending'
    BY <1>1, <1>3 DEF JobPart, AheadInv, Moving, MovingReceipts, MovingQueue
  <2>2. \A t \in DOMAIN tasks' : ~Ahead(run', tasks'[t].job)
    BY <1>5 DEF JobPart, AheadInv, Moving, MovingTasks
  <2>3. QED
    BY <2>1, <2>2 DEF AheadInv, Ahead
<1>7. JobsInv'
  <2>1. receipts'[n] \notin Decided
    BY <1>2 DEF Decided
  <2>2. \A j \in Jobs : j \in pending' \/ queue'[j].state # "absent" => intents'[j] # Null
    BY <1>2, <1>3 DEF JobPart, JobsInv, MovingQueue
  <2>3. \A j \in Jobs : queue'[j].state = "settled" => receipts'[j] \in Decided
    BY DEF JobPart, JobsInv, JournalDecidesFirst, MovingQueue, MovingReceipts
  <2>4. QED
    BY <1>1, <1>3, <2>1, <2>2, <2>3 DEF JobsInv, JournalDecidesFirst, Job
<1>8. TasksInv'
  <2>1. \A t \in DOMAIN tasks' : tasks'[t].state = "completed" => receipts'[tasks'[t].job] \in Decided
    BY <1>5 DEF JobPart, TasksInv, MovingTasks, MovingReceipts
  <2>2. \A t \in DOMAIN tasks' : tasks'[t].job # n
    BY <1>2 DEF MovingTasks
  <2>3. \A t, u \in DOMAIN tasks' :
            tasks'[t].state = "completed" /\ tasks'[u].state = "completed"
            /\ tasks'[t].job = tasks'[u].job => t = u
    <3> SUFFICES ASSUME NEW t \in DOMAIN tasks, NEW u \in DOMAIN tasks,
                        tasks'[t].state = "completed", tasks'[u].state = "completed",
                        tasks[t].job = tasks[u].job
                 PROVE  t = u
      BY DEF MovingTasks
    <3>1. CASE tasks[t].state = "completed" /\ tasks[u].state = "completed"
      BY <3>1 DEF JobPart, TasksInv, OneCommitPerFrontier
    <3>2. ASSUME NEW x \in DOMAIN tasks, NEW y \in DOMAIN tasks, tasks[x].job = tasks[y].job,
                 x = run.task_id, tasks[y].state = "completed"
          PROVE  x = y
      <4>1. run.task_id # Null
        BY <3>2, AppsAssumption DEF JobPart, JobTypes
      <4>2. tasks[y].job = Job(run)
        BY <3>2, <4>1 DEF JobPart, TasksInv
      <4>3. QED
        BY <3>2, <4>2 DEF JobPart, TasksInv
    <3>3. QED
      BY <3>1, <3>2 DEF MovingTasks
  <2>4. run'.task_id = Null
    BY DEF Moving
  <2>5. QED
    BY <1>1, <2>1, <2>2, <2>3, <2>4 DEF TasksInv, OneCommitPerFrontier, Job
<1>9. \A j : TasksOf(j)' = TasksOf(j)
  BY DEF MovingTasks, TasksOf
<1>10. CountInv'
  <2>1. \A j \in Jobs : queue'[j].state \in {"absent", "claimed"} => queue[j].state \in {"absent", "claimed"}
    BY DEF MovingQueue
  <2>2. QED
    BY <1>9, <2>1 DEF CountInv, MovingQueue, JobPart
<1>11. StrikesInv'
  <2>1. TasksOf(n) = {}
    BY <1>2 DEF TasksOf
  <2>2. Cardinality(TasksOf(n)) <= app.max_stuck_dispatches
    BY <2>1, FS_EmptySet, AppFacts DEF RunPart
  <2>3. QED
    BY <1>1, <1>9, <2>2 DEF StrikesInv, Moving
<1>12. QED
  BY <1>4, <1>6, <1>7, <1>8, <1>10, <1>11 DEF JobPart

\* The next frontier of a generation is ahead of the one before
\* (publication::advance).
LEMMA Advancing ==
    ASSUME RunPart, app' = app, NEW r \in RunRecord, r.task_id = Null, Job(r) = Job(run),
           NEW s, RowInv(r, s), Advance(r)
    PROVE  Moving /\ RowInv(run', s) /\ run'.generation = run.generation
<1>1. /\ r.frontier_revision < app.revisions /\ run' = [r EXCEPT !.frontier_revision = @ + 1]
      /\ Record([r EXCEPT !.frontier_revision = @ + 1])
  BY DEF Advance
<1>2. app.revisions \in Nat /\ app.revisions <= MaxRevision /\ MaxRevision \in Nat
  BY AppFacts, AppsAssumption DEF RunPart
<1>3. r.frontier_revision \in 1..MaxRevision /\ r.frontier_revision + 1 \in 1..MaxRevision
  BY <1>1, <1>2 DEF RunRecord
<1>4. /\ run' \in RunRecord /\ run'.task_id = Null /\ run'.generation = r.generation
      /\ run'.frontier_revision = r.frontier_revision + 1 /\ RowInv(run', s)
  BY <1>1, <1>3 DEF RunRecord, RowInv
<1>5. run.generation = r.generation /\ run.frontier_revision = r.frontier_revision
      /\ run \in RunRecord
  BY DEF Job, RunPart
<1>6. Ahead(run, Job(run'))
  <2>1. Job(run')[1] = run'.generation /\ Job(run')[2] = run'.frontier_revision
    BY DEF Job
  <2>2. QED
    BY <1>3, <1>4, <1>5, <2>1 DEF Ahead
<1>7. \A j \in Jobs : Ahead(run', j) => Ahead(run, j)
  <2>1. \A j \in Jobs : j[2] \in Nat
    BY AppsAssumption DEF Jobs
  <2>2. QED
    BY <1>3, <1>4, <1>5, <2>1 DEF Ahead
<1>8. QED
  BY <1>1, <1>4, <1>5, <1>6, <1>7 DEF Moving

-----------------------------------------------------------------------------
(* Steps.                                                                  *)

\* What a step may never do, as HistoryKept has it.
HistoryStep ==
    run'.generation = run.generation =>
        \A i \in DOMAIN steps :
            /\ i \in DOMAIN steps'
            /\ steps[i].state \in {"completed", "failed"} =>
                  steps'[i].state = steps[i].state /\ steps'[i].attempts = steps[i].attempts

VerdictStep ==
    /\ run.state \in Terminal /\ run'.generation = run.generation => run' = run
    /\ \A j \in Jobs : receipts[j] \in Decided => receipts'[j] = receipts[j]

UndoStep ==
    \A i \in DOMAIN steps \cap DOMAIN steps' :
        /\ run'.generation = run.generation
        /\ steps[i].compensation = "pending"
        /\ steps'[i].compensation \in {"completed", "failed"}
        => \A k \in DOMAIN steps : k > i => steps[k].compensation # "pending"

Sane == RunPart' /\ JobPart' /\ HistoryStep /\ VerdictStep /\ UndoStep

\* A step that keeps the journal faithful and verdicts in place.
LEMMA Unrewritten ==
    ASSUME Faithful(steps, steps'), run.state \in Terminal => run' = run,
           \A j \in Jobs : receipts[j] \in Decided => receipts'[j] = receipts[j]
    PROVE  HistoryStep /\ VerdictStep /\ UndoStep
<1>1. HistoryStep
  BY DEF HistoryStep, Faithful
<1>2. VerdictStep
  BY DEF VerdictStep
<1>3. UndoStep
  BY DEF UndoStep, Faithful
<1>4. QED
  BY <1>1, <1>2, <1>3

\* A journal is faithful to itself.
LEMMA SameSteps == Faithful(steps, steps)
  BY DEF Faithful

\* What a row of the queue looks like.
LEMMA RowFields ==
    ASSUME JobTypes, NEW j \in Jobs
    PROVE  /\ queue[j] \in QueueRecord /\ queue[j].executions \in Nat /\ queue[j].due \in Nat
           /\ queue[j].deadline \in Nat /\ queue[j].counted \in BOOLEAN
           /\ queue[j].task \in Nat \cup {Null}
           /\ queue[j].state \in {"absent", "ready", "claimed", "leased", "settled"}
<1>1. queue[j] \in QueueRecord
  BY DEF JobTypes
<1>2. QED
  BY <1>1 DEF QueueRecord

Uncounted(row) == IF row.task # Null /\ ~row.counted THEN 1 ELSE 0

\* A step of the queue that changes one row, and perhaps its receipt.
LEMMA QueueStep ==
    ASSUME RunPart, JobPart, NEW j \in Jobs, NEW row \in QueueRecord,
           NEW rec \in {"none", "open"} \cup Decided,
           UNCHANGED <<app, run, steps, tasks, intents, mail, notices>>, Unspent,
           holding' \subseteq holding, pending' \in {pending, pending \ {j}},
           queue' = [queue EXCEPT ![j] = row], receipts' = [receipts EXCEPT ![j] = rec],
           receipts[j] \in Decided => rec = receipts[j],
           rec \in Decided => receipts[j] \in Decided \/ ~Current(j),
           rec # receipts[j] => queue[j].state # "absent",
           queue[j].state # "absent" \/ j \in pending, row.state # "absent",
           row.state = "settled" => queue[j].state = "settled" \/ receipts[j] \in Decided,
           row.state = "claimed" => row.task = Null,
           queue[j].state = "absent" => row.executions = queue[j].executions /\ row.task = queue[j].task,
           row.executions + Uncounted(row) <= queue[j].executions + Uncounted(queue[j])
    PROVE  Sane
<1>1. RunPart'
  BY RunStands
<1>2. Steady
  <2>1. run \in RunRecord /\ run.journal_revision \in Nat
    BY DEF RunPart, RunRecord
  <2>2. QED
    BY <2>1 DEF Steady
<1>3. SteadyTasks
  BY DEF SteadyTasks, JobPart, JobTypes, TasksInv
<1>4. ~Ahead(run, j) \/ (j \in pending /\ queue[j].state = "absent")
  BY DEF JobPart, AheadInv
<1>5. SteadyReceipts
  <2>1. receipts \in [Jobs -> {"none", "open"} \cup Decided]
    BY DEF JobPart, JobTypes
  <2>2. \A k \in Jobs : receipts'[k] = IF k = j THEN rec ELSE receipts[k]
    BY <2>1
  <2>3. receipts' \in [Jobs -> {"none", "open"} \cup Decided]
    BY <2>1
  <2>4. \A k \in Jobs : Ahead(run, k) => receipts[k] = "none"
    BY DEF JobPart, AheadInv
  <2>5. \A k \in Jobs : Ahead(run, k) => receipts'[k] = "none"
    BY <2>2, <2>4 DEF JobPart, AheadInv
  <2>6. QED
    BY <2>2, <2>3, <2>5 DEF SteadyReceipts
<1>6. SteadyQueue
  <2>1. queue \in [Jobs -> QueueRecord] /\ intents \in [Jobs -> TimeLeft]
    BY DEF JobPart, JobTypes
  <2>2. \A k \in Jobs : queue'[k] = IF k = j THEN row ELSE queue[k]
    BY <2>1
  <2>3. queue' \in [Jobs -> QueueRecord]
    BY <2>1
  <2>4. \A k \in Jobs : queue[k].state = "claimed" => queue[k].task = Null
    BY DEF JobPart, CountInv
  <2>5. \A k \in Jobs : queue'[k].executions + Uncounted(queue'[k]) <= queue[k].executions + Uncounted(queue[k])
    <3>1. TAKE k \in Jobs
    <3>2. queue[k].executions + Uncounted(queue[k]) \in Nat
      BY RowFields DEF JobPart, Uncounted
    <3>3. QED
      BY <2>2, <3>2
  <2>6. QED
    BY <2>1, <2>2, <2>3, <2>4, <2>5 DEF SteadyQueue, Uncounted
<1>7. JobPart'
  BY <1>2, <1>3, <1>5, <1>6, SteadyStep
<1>8. HistoryStep /\ VerdictStep /\ UndoStep
  BY <1>5, SameSteps, Unrewritten DEF SteadyReceipts
<1>9. QED
  BY <1>1, <1>7, <1>8 DEF Sane

\* Publication puts a recorded job in the queue once (publish_job).
LEMMA PublishStep ==
    ASSUME RunPart, JobPart, NEW j \in Jobs, NEW confirmed \in BOOLEAN, Publish(j, confirmed)
    PROVE  Sane
<1> DEFINE row == IF queue[j].state = "absent"
                  THEN [queue[j] EXCEPT !.state = "ready", !.due = intents[j]] ELSE queue[j]
<1>1. /\ j \in pending /\ queue \in [Jobs -> QueueRecord]
      /\ receipts \in [Jobs -> {"none", "open"} \cup Decided]
      /\ intents[j] \in TimeLeft /\ intents[j] # Null /\ queue[j] \in QueueRecord
      /\ queue[j].state = "claimed" => queue[j].task = Null
  BY DEF Publish, JobPart, JobTypes, JobsInv, CountInv
<1>2. row \in QueueRecord /\ row.state # "absent" /\ row.executions = queue[j].executions
      /\ row.task = queue[j].task /\ row.counted = queue[j].counted
      /\ row.state \in {queue[j].state, "ready"}
  BY <1>1 DEF QueueRecord, TimeLeft
<1>3. queue' = [queue EXCEPT ![j] = row]
  BY <1>1 DEF Publish
<1>4. receipts' = [receipts EXCEPT ![j] = receipts[j]]
  BY <1>1 DEF Publish
<1>5. pending' \in {pending, pending \ {j}} /\ Unspent
  BY DEF Publish, Unspent
<1>6. row.executions + Uncounted(row) <= queue[j].executions + Uncounted(queue[j])
  BY <1>2, RowFields DEF Uncounted, JobPart
<1> HIDE DEF row
<1>7. UNCHANGED <<app, run, steps, tasks, intents, mail, notices, holding>>
  BY DEF Publish
<1>8. receipts[j] \in {"none", "open"} \cup Decided
  BY <1>1
<1>9. QED
  BY <1>1, <1>2, <1>3, <1>4, <1>5, <1>6, <1>7, <1>8, QueueStep

\* A claim starts a delivery that has no task yet (claim).
LEMMA ClaimStep ==
    ASSUME RunPart, JobPart, NEW j \in Jobs, Claim(j)
    PROVE  Sane
<1> DEFINE row == [queue[j] EXCEPT !.state = "claimed", !.due = 0, !.deadline = app.lease,
                                   !.task = Null, !.counted = FALSE]
<1>1. /\ queue \in [Jobs -> QueueRecord] /\ queue[j] \in QueueRecord /\ app.lease \in Nat
      /\ receipts \in [Jobs -> {"none", "open"} \cup Decided]
  BY AppFacts DEF JobPart, JobTypes, RunPart
<1>2. row \in QueueRecord /\ row.state = "claimed" /\ row.executions = queue[j].executions
      /\ row.task = Null
  BY <1>1 DEF QueueRecord
<1>3. queue' = [queue EXCEPT ![j] = row] /\ queue[j].state # "absent"
  BY <1>1 DEF Claim
<1>4. receipts' = [receipts EXCEPT ![j] = receipts[j]] /\ receipts[j] \in {"none", "open"} \cup Decided
  BY <1>1 DEF Claim
<1>5. UNCHANGED <<app, run, steps, tasks, intents, pending, mail, notices, holding>> /\ Unspent
  BY DEF Claim, Unspent
<1>6. row.executions + Uncounted(row) <= queue[j].executions + Uncounted(queue[j])
  BY <1>2, RowFields DEF Uncounted, JobPart
<1> HIDE DEF row
<1>7. QED
  BY <1>2, <1>3, <1>4, <1>5, <1>6, QueueStep

\* The manager forgets a job the journal decided (settle).
LEMMA SettleStep ==
    ASSUME RunPart, JobPart, NEW j \in Jobs, Settle(j)
    PROVE  Sane
<1> DEFINE row == [Absent EXCEPT !.state = "settled"]
<1>1. /\ queue \in [Jobs -> QueueRecord] /\ queue[j] \in QueueRecord
      /\ receipts \in [Jobs -> {"none", "open"} \cup Decided]
  BY DEF JobPart, JobTypes
<1>2. row \in QueueRecord /\ row.state = "settled" /\ row.executions = 0 /\ row.task = Null
  BY <1>1 DEF QueueRecord, Absent
<1>3. queue' = [queue EXCEPT ![j] = row] /\ queue[j].state # "absent" /\ receipts[j] \in Decided
  BY <1>1 DEF Settle
<1>4. receipts' = [receipts EXCEPT ![j] = receipts[j]] /\ receipts[j] \in {"none", "open"} \cup Decided
  BY <1>1 DEF Settle
<1>5. UNCHANGED <<app, run, steps, tasks, intents, pending, mail, notices, holding>> /\ Unspent
  BY DEF Settle, Unspent
<1>6. row.executions + Uncounted(row) <= queue[j].executions + Uncounted(queue[j])
  BY <1>2, RowFields DEF Uncounted, JobPart
<1> HIDE DEF row
<1>7. QED
  BY <1>2, <1>3, <1>4, <1>5, <1>6, QueueStep

\* An answer that leaves the run alone: the row is answered or given back, and
\* the receipt stays, opens or, of a frontier passed by, is rejected.
LEMMA AnswerStep ==
    ASSUME RunPart, JobPart, NEW j \in Jobs, Delivered(j), NEW due \in Nat,
           Answered(j) \/ Deferred(j, due),
           NEW rec \in {"none", "open"} \cup Decided, receipts' = [receipts EXCEPT ![j] = rec],
           receipts[j] \in Decided => rec = receipts[j],
           rec \in Decided => receipts[j] \in Decided \/ ~Current(j),
           UNCHANGED <<app, run, steps, tasks, intents, pending, mail, notices, holding, budget>>
    PROVE  Sane
<1>1. /\ queue \in [Jobs -> QueueRecord] /\ queue[j] \in QueueRecord
      /\ queue[j].state = "claimed" /\ queue[j].task = Null
  BY DEF JobPart, JobTypes, CountInv, Delivered
<1>2. \E row \in QueueRecord :
         /\ queue' = [queue EXCEPT ![j] = row] /\ row.state \in {"leased", "ready"}
         /\ row.executions = queue[j].executions /\ row.task = Null
  <2>1. CASE Answered(j)
    <3>1. queue' = [queue EXCEPT ![j] = [queue[j] EXCEPT !.state = "leased"]]
      BY <1>1, <2>1 DEF Answered
    <3>2. /\ [queue[j] EXCEPT !.state = "leased"] \in QueueRecord
          /\ [queue[j] EXCEPT !.state = "leased"].state = "leased"
          /\ [queue[j] EXCEPT !.state = "leased"].executions = queue[j].executions
          /\ [queue[j] EXCEPT !.state = "leased"].task = Null
      BY <1>1 DEF QueueRecord
    <3>3. QED
      BY <3>1, <3>2
  <2>2. CASE Deferred(j, due)
    <3>1. queue' = [queue EXCEPT ![j] = GivenBack(queue[j], due)]
      BY <1>1, <2>2 DEF Deferred
    <3>2. GivenBack(queue[j], due) \in QueueRecord /\ GivenBack(queue[j], due).state = "ready"
          /\ GivenBack(queue[j], due).executions = queue[j].executions
          /\ GivenBack(queue[j], due).task = Null
      BY <1>1 DEF GivenBack, QueueRecord
    <3>3. QED
      BY <3>1, <3>2
  <2>3. QED
    BY <2>1, <2>2
<1>3. PICK row \in QueueRecord :
         /\ queue' = [queue EXCEPT ![j] = row] /\ row.state \in {"leased", "ready"}
         /\ row.executions = queue[j].executions /\ row.task = Null
  BY <1>2
<1>4. row.executions + Uncounted(row) <= queue[j].executions + Uncounted(queue[j])
  BY <1>3, RowFields DEF Uncounted, JobPart
<1>5. Unspent
  BY DEF Unspent
<1>6. QED
  BY <1>1, <1>3, <1>4, <1>5, QueueStep

\* A receipt is replayed (accept_job).
LEMMA AcceptReplayStep ==
    ASSUME RunPart, JobPart, NEW j \in Jobs, AcceptReplay(j)
    PROVE  Sane
<1>1. receipts \in [Jobs -> {"none", "open"} \cup Decided]
  BY DEF JobPart, JobTypes
<1>2. receipts' = [receipts EXCEPT ![j] = receipts[j]] /\ receipts[j] \in {"none", "open"} \cup Decided
  BY <1>1 DEF AcceptReplay
<1>3. QED
  BY <1>2, AnswerStep DEF AcceptReplay

\* A frontier the run has passed is rejected (current_frontier).
LEMMA AcceptStaleStep ==
    ASSUME RunPart, JobPart, NEW j \in Jobs, AcceptStale(j)
    PROVE  Sane
<1>1. "rejected" \in {"none", "open"} \cup Decided
  BY DEF Decided
<1>2. QED
  BY <1>1, AnswerStep DEF AcceptStale

\* A live task keeps its claim.
LEMMA AcceptBusyStep ==
    ASSUME RunPart, JobPart, NEW j \in Jobs, AcceptBusy(j)
    PROVE  Sane
<1>1. "open" \in {"none", "open"} \cup Decided /\ "open" \notin Decided /\ 1 \in Nat
  BY DEF Decided
<1>2. QED
  BY <1>1, AnswerStep DEF AcceptBusy

\* The frontier's clock has not come.
LEMMA AcceptNotDueStep ==
    ASSUME RunPart, JobPart, NEW j \in Jobs, AcceptNotDue(j)
    PROVE  Sane
<1>1. "open" \in {"none", "open"} \cup Decided /\ "open" \notin Decided
  BY DEF Decided
<1>2. ReclaimedRun.due_at \in Nat
  <2>1. run \in RunRecord /\ ReclaimedRun.due_at # Null
    BY DEF RunPart, AcceptNotDue
  <2>2. ReclaimedRun.due_at \in TimeLeft
    BY <2>1 DEF ReclaimedRun, RunRecord, TimeLeft
  <2>3. QED
    BY <2>1, <2>2 DEF TimeLeft
<1>3. QED
  BY <1>1, <1>2, AnswerStep DEF AcceptNotDue, Reclaiming

\* What a reclaim leaves: a run no task holds, and no live task of its frontier
\* (reclaim).
LEMMA Reclaimed ==
    ASSUME RunPart, JobPart, run.state \notin Terminal
    PROVE  /\ Idle(run, ReclaimedRun) /\ RowInv(ReclaimedRun, steps)
           /\ ReclaimedRun.state = run.state
           /\ ReclaimedRun.journal_revision = run.journal_revision
           /\ ReclaimedRun.compensation_target = run.compensation_target
           /\ Reclaim(tasks) \in Seq(TaskRecord) /\ DOMAIN Reclaim(tasks) = DOMAIN tasks
           /\ \A t \in DOMAIN tasks :
                /\ Reclaim(tasks)[t].job = tasks[t].job
                /\ Reclaim(tasks)[t].journal_revision = tasks[t].journal_revision
                /\ Reclaim(tasks)[t].state \in {tasks[t].state, "expired"}
                /\ tasks[t].job = Job(run) => Reclaim(tasks)[t].state = "expired"
<1>1. run \in RunRecord /\ RowInv(run, steps) /\ tasks \in Seq(TaskRecord)
      /\ \A t \in DOMAIN tasks : tasks[t] \in TaskRecord
  BY DEF RunPart, JobPart, JobTypes
<1>2. CASE run.task_id = Null
  <2>1. ReclaimedRun = run /\ Reclaim(tasks) = tasks
    BY <1>2 DEF ReclaimedRun, Reclaim
  <2>2. \A t \in DOMAIN tasks : tasks[t].job = Job(run) => tasks[t].state = "expired"
    <3>1. \A t \in DOMAIN tasks : t # Null
      BY <1>1, AppsAssumption
    <3>2. QED
      BY <1>2, <3>1 DEF JobPart, TasksInv
  <2>3. QED
    BY <1>1, <1>2, <2>1, <2>2 DEF Idle
<1>3. CASE run.task_id # Null
  <2> DEFINE x == run.task_id
             over == [tasks[x] EXCEPT !.state = "expired", !.deadline = 0]
             row == [run EXCEPT !.task_id = Null, !.due_at = 0]
  <2>1. x \in DOMAIN tasks /\ tasks[x].job = Job(run) /\ tasks[x] \in TaskRecord
    BY <1>1, <1>3 DEF JobPart, TasksInv
  <2>2. over \in TaskRecord /\ over.job = tasks[x].job /\ over.state = "expired"
        /\ over.journal_revision = tasks[x].journal_revision
    BY <2>1 DEF TaskRecord
  <2>3. Reclaim(tasks) = [tasks EXCEPT ![x] = over]
    BY <1>1, <1>3, <2>1 DEF Reclaim, Over
  <2>4. ReclaimedRun = row
    BY <1>3 DEF ReclaimedRun
  <2>5. Idle(run, row) /\ RowInv(row, steps) /\ row.state = run.state
        /\ row.journal_revision = run.journal_revision
        /\ row.compensation_target = run.compensation_target
    BY <1>1 DEF Idle, RunRecord, RowInv, Job, TimeLeft
  <2> HIDE DEF over, row
  <2>6. /\ Reclaim(tasks) \in Seq(TaskRecord) /\ DOMAIN Reclaim(tasks) = DOMAIN tasks
        /\ \A t \in DOMAIN tasks : Reclaim(tasks)[t] = IF t = x THEN over ELSE tasks[t]
    BY <1>1, <2>1, <2>2, <2>3
  <2>7. \A t \in DOMAIN tasks : t # x /\ tasks[t].job = Job(run) => tasks[t].state = "expired"
    BY DEF JobPart, TasksInv
  <2> HIDE DEF x
  <2>8. QED
    BY <2>2, <2>4, <2>5, <2>6, <2>7
<1>4. QED
  BY <1>2, <1>3

Planned == Prepare(ReclaimedRun, Reclaim(tasks))

\* What a delivery of the run's frontier finds.
LEMMA Prepared ==
    ASSUME RunPart, JobPart, NEW j \in Jobs, Reclaiming(j)
    PROVE  /\ run.state \notin Terminal /\ j = Job(run) /\ receipts[j] \notin Decided
           /\ queue[j].state = "claimed" /\ ~Ahead(run, j)
           /\ Planned.ready \in BOOLEAN
           /\ Idle(run, Planned.run) /\ RowInv(Planned.run, Planned.steps)
           /\ Planned.steps \in Seq(StepRecord) /\ Sound(Planned.steps)
           /\ DOMAIN Planned.steps = DOMAIN steps /\ Faithful(steps, Planned.steps)
           /\ Planned.mail \in Nat
           /\ Planned.mail + Cardinality(Consumed(Planned.steps)) = mail + Cardinality(Consumed(steps))
           /\ Planned.ready =>
                /\ Planned.run.state \notin Terminal \cup {"paused"}
                /\ Planned.run.journal_revision >= run.journal_revision
                /\ Planned.run.compensation_target \in {run.compensation_target, "cancelled"}
                /\ Planned.run.compensation_target # "cancelled" =>
                      ~(Strikes(ReclaimedRun, Reclaim(tasks)) >= app.max_stuck_dispatches)
<1>1. /\ run.state \notin Terminal /\ j = Job(run) /\ receipts[j] \notin Decided
      /\ queue[j].state = "claimed"
  BY DEF Reclaiming, Current, Delivered
<1>2. ~Ahead(run, j)
  BY <1>1, JobFacts DEF RunPart
<1>3. /\ Idle(run, ReclaimedRun) /\ RowInv(ReclaimedRun, steps) /\ ReclaimedRun.state = run.state
      /\ ReclaimedRun.journal_revision = run.journal_revision
      /\ ReclaimedRun.compensation_target = run.compensation_target
  BY <1>1, Reclaimed
<1>4. app \in Apps /\ steps \in Seq(StepRecord) /\ Sound(steps) /\ mail \in Nat
  BY DEF RunPart, StepsInv, Sound
<1>5. ReclaimedRun \in RunRecord /\ ReclaimedRun.task_id = Null /\ ReclaimedRun.state \notin Terminal
  BY <1>1, <1>3 DEF Idle
<1> DEFINE r == ReclaimedRun
           ts == Reclaim(tasks)
<1> HIDE DEF r, ts
<1>6. LET p == Prepare(r, ts)
      IN  /\ p.ready \in BOOLEAN
          /\ Idle(r, p.run) /\ RowInv(p.run, p.steps)
          /\ p.steps \in Seq(StepRecord) /\ Sound(p.steps) /\ DOMAIN p.steps = DOMAIN steps
          /\ Faithful(steps, p.steps)
          /\ p.mail \in Nat
          /\ p.mail + Cardinality(Consumed(p.steps)) = mail + Cardinality(Consumed(steps))
          /\ p.ready => /\ p.run.state \notin Terminal \cup {"paused"}
                        /\ p.run.journal_revision >= r.journal_revision
                        /\ p.run.compensation_target \in {r.compensation_target, "cancelled"}
                        /\ p.run.compensation_target # "cancelled" =>
                              ~(Strikes(r, ts) >= app.max_stuck_dispatches)
  BY <1>3, <1>4, <1>5, PrepareFacts DEF r
<1> DEFINE p == Prepare(r, ts)
<1> HIDE DEF p
<1>7. Planned = p
  BY DEF Planned, p, r, ts
<1>8. Idle(run, p.run)
  BY <1>3, <1>6 DEF Idle, r, p
<1>9. QED
  BY <1>1, <1>2, <1>3, <1>6, <1>7, <1>8 DEF p, r, ts

\* A job that needs no executor is decided with the next frontier.
LEMMA AcceptSettlesStep ==
    ASSUME RunPart, JobPart, NEW j \in Jobs, AcceptSettles(j)
    PROVE  Sane
<1>1. /\ Reclaiming(j) /\ steps' = Planned.steps /\ mail' = Planned.mail /\ tasks' = Reclaim(tasks)
      /\ Advance(Planned.run) /\ receipts' = [receipts EXCEPT ![j] = Verdict(Planned.run)]
      /\ Answered(j) /\ UNCHANGED <<app, holding, notices, budget>>
  BY DEF AcceptSettles, Planned
<1>2. /\ run.state \notin Terminal /\ j = Job(run) /\ receipts[j] \notin Decided
      /\ queue[j].state = "claimed" /\ ~Ahead(run, j)
      /\ Idle(run, Planned.run) /\ RowInv(Planned.run, Planned.steps)
      /\ Planned.steps \in Seq(StepRecord) /\ Sound(Planned.steps)
      /\ DOMAIN Planned.steps = DOMAIN steps /\ Faithful(steps, Planned.steps)
      /\ Planned.mail \in Nat
      /\ Planned.mail + Cardinality(Consumed(Planned.steps)) = mail + Cardinality(Consumed(steps))
  BY <1>1, Prepared
<1>3. Moving /\ RowInv(run', Planned.steps)
  BY <1>1, <1>2, Advancing DEF Idle
<1>4. RunPart'
  <2>1. notices' \subseteq DOMAIN steps' /\ run' \in RunRecord /\ Unspent
    BY <1>1, <1>2, <1>3 DEF RunPart, Moving, Unspent
  <2>2. QED
    BY <1>1, <1>2, <1>3, <2>1, JournalMoves
<1>5. MovingTasks
  BY <1>1, <1>2, Reclaimed DEF MovingTasks, JobPart, JobTypes
<1>6. Verdict(Planned.run) \in Decided /\ receipts \in [Jobs -> {"none", "open"} \cup Decided]
  BY DEF Verdict, Decided, JobPart, JobTypes
<1>7. MovingReceipts
  <2>1. \A k \in Jobs : receipts'[k] = IF k = j THEN Verdict(Planned.run) ELSE receipts[k]
    BY <1>1, <1>6
  <2>2. receipts' \in [Jobs -> {"none", "open"} \cup Decided]
    BY <1>1, <1>6
  <2>3. QED
    BY <1>2, <2>1, <2>2 DEF MovingReceipts, JobPart, AheadInv
<1>8. MovingQueue
  <2>1. queue \in [Jobs -> QueueRecord] /\ queue[j] \in QueueRecord
    BY DEF JobPart, JobTypes
  <2>2. queue' = [queue EXCEPT ![j] = [queue[j] EXCEPT !.state = "leased"]]
    BY <1>1, <2>1 DEF Answered
  <2>3. /\ [queue[j] EXCEPT !.state = "leased"] \in QueueRecord
        /\ [queue[j] EXCEPT !.state = "leased"].executions = queue[j].executions
        /\ [queue[j] EXCEPT !.state = "leased"].task = queue[j].task
        /\ [queue[j] EXCEPT !.state = "leased"].counted = queue[j].counted
        /\ [queue[j] EXCEPT !.state = "leased"].state = "leased"
    BY <2>1 DEF QueueRecord
  <2> DEFINE row == [queue[j] EXCEPT !.state = "leased"]
  <2> HIDE DEF row
  <2>4. \A k \in Jobs : queue'[k] = IF k = j THEN row ELSE queue[k]
    BY <2>1, <2>2 DEF row
  <2>5. queue' \in [Jobs -> QueueRecord]
    BY <2>1, <2>2, <2>3
  <2>6. QED
    BY <1>2, <2>3, <2>4, <2>5 DEF MovingQueue, row
<1>9. JobPart'
  BY <1>3, <1>5, <1>7, <1>8, MovingStep
<1>10. HistoryStep /\ VerdictStep /\ UndoStep
  BY <1>1, <1>2, <1>7, Unrewritten DEF MovingReceipts
<1>11. QED
  BY <1>4, <1>9, <1>10 DEF Sane

\* A delivery put off keeps what it resolved.
LEMMA AcceptDefersStep ==
    ASSUME RunPart, JobPart, NEW j \in Jobs, AcceptDefers(j)
    PROVE  Sane
<1>1. /\ Reclaiming(j) /\ Planned.ready /\ steps' = Planned.steps /\ mail' = Planned.mail
      /\ tasks' = Reclaim(tasks)
      /\ run' = Planned.run /\ receipts' = [receipts EXCEPT ![j] = "open"]
      /\ Deferred(j, 1) /\ UNCHANGED <<app, intents, pending, holding, notices>> /\ Spend("faults")
  BY DEF AcceptDefers, Planned
<1>2. /\ run.state \notin Terminal /\ j = Job(run) /\ receipts[j] \notin Decided
      /\ queue[j].state = "claimed" /\ ~Ahead(run, j)
      /\ Idle(run, Planned.run) /\ RowInv(Planned.run, Planned.steps)
      /\ Planned.steps \in Seq(StepRecord) /\ Sound(Planned.steps)
      /\ DOMAIN Planned.steps = DOMAIN steps /\ Faithful(steps, Planned.steps)
      /\ Planned.mail \in Nat
      /\ Planned.mail + Cardinality(Consumed(Planned.steps)) = mail + Cardinality(Consumed(steps))
      /\ Planned.run.state \notin Terminal \cup {"paused"}
      /\ Planned.run.journal_revision >= run.journal_revision
      /\ Planned.run.compensation_target \in {run.compensation_target, "cancelled"}
  BY <1>1, Prepared
<1>3. RunPart'
  <2>1. notices' \subseteq DOMAIN steps' /\ run' \in RunRecord /\ Unspent
    BY <1>1, <1>2 DEF RunPart, Idle, Unspent
  <2>2. QED
    BY <1>1, <1>2, <2>1, JournalMoves
<1>4. Steady
  BY <1>1, <1>2 DEF Steady, Idle
<1>5. SteadyTasks
  <2>1. /\ tasks' \in Seq(TaskRecord) /\ DOMAIN tasks' = DOMAIN tasks
        /\ \A t \in DOMAIN tasks :
              /\ tasks'[t].job = tasks[t].job
              /\ tasks'[t].journal_revision = tasks[t].journal_revision
              /\ tasks'[t].state \in {tasks[t].state, "expired"}
              /\ tasks[t].job = Job(run) => tasks'[t].state = "expired"
    BY <1>1, <1>2, Reclaimed
  <2>2. holding' \subseteq DOMAIN tasks
    BY <1>1 DEF JobPart, JobTypes
  <2>3. QED
    BY <2>1, <2>2 DEF SteadyTasks
<1>6. SteadyReceipts
  <2>1. receipts \in [Jobs -> {"none", "open"} \cup Decided] /\ "open" \notin Decided
    BY DEF JobPart, JobTypes, Decided
  <2>2. \A k \in Jobs : receipts'[k] = IF k = j THEN "open" ELSE receipts[k]
    BY <1>1, <2>1
  <2>3. receipts' \in [Jobs -> {"none", "open"} \cup Decided]
    BY <1>1, <2>1
  <2>4. QED
    BY <1>2, <2>1, <2>2, <2>3 DEF SteadyReceipts, JobPart, AheadInv
<1>7. SteadyQueue
  <2>1. queue \in [Jobs -> QueueRecord] /\ queue[j] \in QueueRecord /\ intents \in [Jobs -> TimeLeft]
    BY DEF JobPart, JobTypes
  <2> DEFINE row == GivenBack(queue[j], 1)
  <2>2. queue' = [queue EXCEPT ![j] = row]
    BY <1>1, <2>1 DEF Deferred
  <2>3. row \in QueueRecord /\ row.executions = queue[j].executions /\ row.task = Null /\ row.state = "ready"
    BY <2>1 DEF QueueRecord, GivenBack
  <2> HIDE DEF row
  <2>4. \A k \in Jobs : queue'[k] = IF k = j THEN row ELSE queue[k]
    BY <2>1, <2>2
  <2>5. queue' \in [Jobs -> QueueRecord]
    BY <2>1, <2>2, <2>3
  <2>6. \A k \in Jobs : queue'[k].executions + Uncounted(queue'[k]) <= queue[k].executions + Uncounted(queue[k])
    <3>1. TAKE k \in Jobs
    <3>2. queue[k].executions + Uncounted(queue[k]) \in Nat /\ queue[k].executions \in Nat
          /\ Uncounted(queue[k]) \in Nat
      BY RowFields DEF JobPart, Uncounted
    <3>3. Uncounted(row) = 0
      BY <2>3 DEF Uncounted
    <3>4. CASE k = j
      BY <2>3, <2>4, <3>2, <3>3, <3>4
    <3>5. CASE k # j
      BY <2>4, <3>2, <3>5
    <3>6. QED
      BY <3>4, <3>5
  <2>7. QED
    BY <1>1, <1>2, <2>1, <2>3, <2>4, <2>5, <2>6 DEF SteadyQueue, Uncounted, JobPart, CountInv
<1>8. JobPart'
  BY <1>4, <1>5, <1>6, <1>7, SteadyStep
<1>9. HistoryStep /\ VerdictStep /\ UndoStep
  BY <1>1, <1>2, <1>6, Unrewritten DEF SteadyReceipts
<1>10. QED
  BY <1>3, <1>8, <1>9 DEF Sane

\* A task is assigned for the delivery (tasks::assign): it is the newest of its
\* frontier, one more than the strikes that were within the budget.
LEMMA AcceptExecutesStep ==
    ASSUME RunPart, JobPart, NEW j \in Jobs, AcceptExecutes(j)
    PROVE  Sane
<1> DEFINE n == Len(tasks) + 1
           ts == Reclaim(tasks)
           row == [queue[j] EXCEPT !.state = "leased", !.task = n]
           new == [job |-> j, journal_revision |-> Planned.run.journal_revision,
                   deadline |-> queue[j].deadline, state |-> "leased"]
<1>1. /\ Reclaiming(j) /\ Planned.ready /\ steps' = Planned.steps /\ mail' = Planned.mail
      /\ tasks' = Append(ts, new)
      /\ run' = [Planned.run EXCEPT !.task_id = n, !.due_at = queue[j].deadline,
                      !.state = IF @ = "compensating" THEN @ ELSE "running"]
      /\ receipts' = [receipts EXCEPT ![j] = "open"]
      /\ queue' = [queue EXCEPT ![j].state = "leased", ![j].task = n]
      /\ holding' = holding \cup {n}
      /\ UNCHANGED <<app, intents, pending, notices, budget>>
  BY DEF AcceptExecutes, Planned
<1>2. /\ run.state \notin Terminal /\ j = Job(run) /\ receipts[j] \notin Decided
      /\ queue[j].state = "claimed" /\ ~Ahead(run, j)
      /\ Idle(run, Planned.run) /\ RowInv(Planned.run, Planned.steps)
      /\ Planned.steps \in Seq(StepRecord) /\ Sound(Planned.steps)
      /\ DOMAIN Planned.steps = DOMAIN steps /\ Faithful(steps, Planned.steps)
      /\ Planned.mail \in Nat
      /\ Planned.mail + Cardinality(Consumed(Planned.steps)) = mail + Cardinality(Consumed(steps))
      /\ Planned.run.state \notin Terminal \cup {"paused"}
      /\ Planned.run.journal_revision >= run.journal_revision
      /\ Planned.run.compensation_target \in {run.compensation_target, "cancelled"}
      /\ Planned.run.compensation_target # "cancelled" =>
            ~(Strikes(ReclaimedRun, Reclaim(tasks)) >= app.max_stuck_dispatches)
  BY <1>1, Prepared
<1>3. /\ queue[j] \in QueueRecord /\ queue[j].deadline \in Nat /\ queue[j].executions \in Nat
      /\ queue[j].task = Null
      /\ tasks \in Seq(TaskRecord) /\ Len(tasks) \in Nat /\ n \in Nat /\ n \notin DOMAIN tasks
      /\ queue \in [Jobs -> QueueRecord] /\ n # Null
  <2>1. queue[j].task = Null
    BY <1>2 DEF JobPart, CountInv
  <2>2. tasks \in Seq(TaskRecord) /\ Len(tasks) \in Nat /\ DOMAIN tasks = 1..Len(tasks)
    BY DEF JobPart, JobTypes
  <2>3. n \in Nat /\ n \notin DOMAIN tasks /\ n # Null
    BY <2>2, AppsAssumption
  <2>4. QED
    BY <2>1, <2>2, <2>3, RowFields DEF JobPart, JobTypes
<1>4. /\ run' \in RunRecord /\ run'.task_id = n /\ Job(run') = Job(run)
      /\ run'.state \in {"running", "compensating"}
      /\ run'.journal_revision = Planned.run.journal_revision
      /\ run'.compensation_target = Planned.run.compensation_target
      /\ run'.due_at = queue[j].deadline /\ RowInv(run', Planned.steps)
  <2> DEFINE p == Planned.run
  <2>1. p \in RunRecord /\ Job(p) = Job(run)
    BY <1>2 DEF Idle
  <2>2. p.state # "compensating" => p.compensation_target = Null
    BY <1>2 DEF RowInv
  <2>3. p.state = "compensating" => p.compensation_target # Null /\ Obligations(Planned.steps) # {}
    BY <1>2 DEF RowInv, Terminal
  <2>4. queue[j].deadline # Null /\ queue[j].deadline \in TimeLeft
    BY <1>3, AppsAssumption DEF TimeLeft
  <2> HIDE DEF p, n
  <2>5. /\ run' \in RunRecord /\ run'.task_id = n /\ run'.generation = p.generation
        /\ run'.frontier_revision = p.frontier_revision
        /\ run'.state = IF p.state = "compensating" THEN "compensating" ELSE "running"
        /\ run'.journal_revision = p.journal_revision
        /\ run'.compensation_target = p.compensation_target
        /\ run'.due_at = queue[j].deadline
    BY <1>1, <1>3, <2>1, <2>4 DEF p, RunRecord
  <2>6. RowInv(run', Planned.steps)
    BY <1>3, <2>2, <2>3, <2>4, <2>5 DEF RowInv, Terminal
  <2>7. Job(run') = Job(run)
    BY <2>1, <2>5 DEF Job
  <2>8. QED
    BY <2>5, <2>6, <2>7 DEF p
<1>5. RunPart'
  <2>1. notices' \subseteq DOMAIN steps' /\ Unspent
    BY <1>1, <1>2 DEF RunPart, Unspent
  <2>2. QED
    BY <1>1, <1>2, <1>4, <2>1, JournalMoves
<1>6. /\ ts \in Seq(TaskRecord) /\ DOMAIN ts = DOMAIN tasks
      /\ \A t \in DOMAIN tasks :
            /\ ts[t].job = tasks[t].job
            /\ ts[t].journal_revision = tasks[t].journal_revision
            /\ ts[t].state \in {tasks[t].state, "expired"}
            /\ tasks[t].job = Job(run) => ts[t].state = "expired"
  BY <1>2, Reclaimed
<1>7. new \in TaskRecord /\ new.job = j /\ new.state = "leased"
      /\ new.journal_revision = run'.journal_revision /\ run'.journal_revision \in Nat
  <2>1. Planned.run.journal_revision \in Nat
    BY <1>2 DEF Idle, RunRecord
  <2>2. QED
    BY <1>3, <1>4, <2>1 DEF TaskRecord
<1> HIDE DEF ts, new
<1>8. /\ tasks' \in Seq(TaskRecord) /\ DOMAIN tasks' = DOMAIN tasks \cup {n} /\ tasks'[n] = new
      /\ \A t \in DOMAIN tasks : tasks'[t] = ts[t]
  <2>1. Len(ts) = Len(tasks)
    BY <1>3, <1>6
  <2>2. tasks' \in Seq(TaskRecord) /\ Len(tasks') = Len(ts) + 1 /\ DOMAIN tasks' = 1..(Len(ts) + 1)
        /\ tasks'[Len(ts) + 1] = new /\ \A t \in 1..Len(ts) : tasks'[t] = ts[t]
    BY <1>1, <1>6, <1>7
  <2>3. DOMAIN tasks = 1..Len(tasks) /\ 1..(Len(tasks) + 1) = 1..Len(tasks) \cup {Len(tasks) + 1}
    BY <1>3
  <2>4. QED
    BY <2>1, <2>2, <2>3
<1> HIDE DEF n
<1>9. /\ row \in QueueRecord /\ row.executions = queue[j].executions /\ row.task = n
      /\ row.state = "leased" /\ row.counted = queue[j].counted
      /\ \A k \in Jobs : queue'[k] = IF k = j THEN row ELSE queue[k]
      /\ queue' \in [Jobs -> QueueRecord]
  <2>1. queue' = [queue EXCEPT ![j] = row]
    BY <1>1, <1>3
  <2>2. /\ row \in QueueRecord /\ row.executions = queue[j].executions /\ row.task = n
        /\ row.state = "leased" /\ row.counted = queue[j].counted
    BY <1>3 DEF QueueRecord
  <2> HIDE DEF row
  <2>3. QED
    BY <1>3, <2>1, <2>2
<1> HIDE DEF row
<1>10. /\ receipts' \in [Jobs -> {"none", "open"} \cup Decided]
       /\ \A k \in Jobs : receipts'[k] = IF k = j THEN "open" ELSE receipts[k]
       /\ "open" \notin Decided
       /\ \A k \in Jobs : receipts[k] \in Decided => receipts'[k] = receipts[k]
  <2>1. receipts \in [Jobs -> {"none", "open"} \cup Decided]
    BY DEF JobPart, JobTypes
  <2>2. QED
    BY <1>1, <1>2, <2>1 DEF Decided
<1>11. JobTypes'
  <2>1. holding' \subseteq DOMAIN tasks'
    BY <1>1, <1>8 DEF JobPart, JobTypes
  <2>2. QED
    BY <1>1, <1>8, <1>9, <1>10, <2>1 DEF JobPart, JobTypes
<1>12. run \in RunRecord /\ Job(run)' = j /\ \A k \in Jobs : Ahead(run', k) <=> Ahead(run, k)
  <2>1. Job(run)' = Job(run')
    BY DEF Job
  <2>2. QED
    BY <1>2, <1>4, <2>1, JobFacts DEF RunPart
<1>13. \A t \in DOMAIN tasks : tasks[t].job \in Jobs
  BY TaskFields DEF JobPart
<1>14. AheadInv'
  <2>1. \A k \in Jobs : Ahead(run', k) =>
            /\ receipts'[k] = "none" /\ queue'[k].state = "absent" /\ queue'[k].executions = 0
            /\ queue'[k].task = Null /\ k \notin pending'
    BY <1>1, <1>2, <1>9, <1>10, <1>12 DEF JobPart, AheadInv
  <2>2. \A t \in DOMAIN tasks' : ~Ahead(run', tasks'[t].job)
    BY <1>2, <1>6, <1>7, <1>8, <1>12, <1>13 DEF JobPart, AheadInv
  <2>3. QED
    BY <2>1, <2>2 DEF AheadInv, Ahead
<1>15. JobsInv'
  <2>1. receipts'[j] \notin Decided /\ queue'[j].state # "absent"
    BY <1>9, <1>10
  <2>2. \A k \in Jobs : k \in pending' \/ queue'[k].state # "absent" => intents'[k] # Null
    BY <1>1, <1>2, <1>9 DEF JobPart, JobsInv
  <2>3. \A k \in Jobs : queue'[k].state = "settled" => receipts'[k] \in Decided
    BY <1>9, <1>10 DEF JobPart, JobsInv, JournalDecidesFirst
  <2>4. QED
    BY <1>12, <2>1, <2>2, <2>3 DEF JobsInv, JournalDecidesFirst, Job
<1>16. TasksInv'
  <2>1. \A t \in DOMAIN tasks' : tasks'[t].state = "completed" =>
            t \in DOMAIN tasks /\ tasks[t].state = "completed" /\ tasks'[t].job = tasks[t].job
    BY <1>6, <1>7, <1>8
  <2>2. \A t \in DOMAIN tasks' : tasks'[t].state = "completed" => receipts'[tasks'[t].job] \in Decided
    BY <1>10, <1>13, <2>1 DEF JobPart, TasksInv
  <2>3. run'.task_id \in DOMAIN tasks' /\ tasks'[run'.task_id].job = j
    BY <1>4, <1>7, <1>8
  <2>4. \A t \in DOMAIN tasks' : tasks'[t].job = j =>
            /\ t # run'.task_id => tasks'[t].state = "expired"
            /\ tasks'[t].journal_revision <= run'.journal_revision
    <3> SUFFICES ASSUME NEW t \in DOMAIN tasks', tasks'[t].job = j
                 PROVE  /\ t # run'.task_id => tasks'[t].state = "expired"
                        /\ tasks'[t].journal_revision <= run'.journal_revision
      OBVIOUS
    <3>1. CASE t = n
      BY <1>4, <1>7, <1>8, <3>1
    <3>2. CASE t \in DOMAIN tasks
      <4>1. tasks[t].job = Job(run) /\ tasks'[t].state = "expired"
            /\ tasks'[t].journal_revision = tasks[t].journal_revision
        BY <1>2, <1>6, <1>8, <3>2
      <4>2. tasks[t].journal_revision <= run.journal_revision /\ tasks[t].journal_revision \in Nat
            /\ run.journal_revision \in Nat
        BY <1>12, <3>2, <4>1, TaskFields DEF JobPart, TasksInv, RunRecord
      <4>3. run'.journal_revision >= run.journal_revision
        BY <1>2, <1>4
      <4>4. QED
        BY <1>7, <4>1, <4>2, <4>3
    <3>3. QED
      BY <1>8, <3>1, <3>2
  <2>5. \A t, u \in DOMAIN tasks' :
            tasks'[t].state = "completed" /\ tasks'[u].state = "completed"
            /\ tasks'[t].job = tasks'[u].job => t = u
    BY <2>1 DEF JobPart, TasksInv, OneCommitPerFrontier
  <2>6. QED
    BY <1>12, <2>2, <2>3, <2>4, <2>5 DEF TasksInv, OneCommitPerFrontier, Job
<1>17. /\ \A k \in Jobs : k # j => TasksOf(k)' = TasksOf(k)
       /\ TasksOf(j)' = TasksOf(j) \cup {n} /\ n \notin TasksOf(j)
  <2>1. \A t \in DOMAIN tasks : tasks'[t].job = tasks[t].job
    BY <1>6, <1>8
  <2>2. QED
    BY <1>3, <1>7, <1>8, <2>1 DEF TasksOf
<1>18. /\ Cardinality(TasksOf(j)) \in Nat
       /\ Cardinality(TasksOf(j)') = Cardinality(TasksOf(j)) + 1
  <2>1. IsFiniteSet(TasksOf(j)) /\ Cardinality(TasksOf(j)) \in Nat
    BY TasksFinite DEF JobPart
  <2>2. QED
    BY <1>17, <2>1, FS_AddElement
<1>19. CountInv'
  <2> SUFFICES ASSUME NEW k \in Jobs
               PROVE  /\ queue'[k].executions + (IF queue'[k].task # Null /\ ~queue'[k].counted THEN 1 ELSE 0)
                            <= Cardinality(TasksOf(k)')
                      /\ queue'[k].state \in {"absent", "claimed"} => queue'[k].task = Null
    BY DEF CountInv, TasksOf
  <2>1. CASE k # j
    BY <1>9, <1>17, <2>1 DEF JobPart, CountInv
  <2>2. CASE k = j
    <3>1. queue[j].executions <= Cardinality(TasksOf(j))
      <4>1. queue[j].executions + (IF queue[j].task # Null /\ ~queue[j].counted THEN 1 ELSE 0)
               <= Cardinality(TasksOf(j))
        BY DEF JobPart, CountInv
      <4>2. QED
        BY <1>3, <4>1
    <3>2. queue'[j] = row
      BY <1>9
    <3> DEFINE c == Cardinality(TasksOf(j))
               d == Cardinality(TasksOf(j)')
               e == queue[j].executions
               x == IF queue'[j].task # Null /\ ~queue'[j].counted THEN 1 ELSE 0
    <3>3. c \in Nat /\ d = c + 1 /\ e \in Nat /\ e <= c /\ x \in {0, 1}
      BY <1>3, <1>18, <3>1
    <3> HIDE DEF c, d, x
    <3>4. e + x <= d
      BY <3>3
    <3>5. QED
      BY <1>9, <2>2, <3>2, <3>4 DEF d, x
  <2>3. QED
    BY <2>1, <2>2
<1>20. StrikesInv'
  <2> SUFFICES ASSUME run'.compensation_target # "cancelled",
                      \A t \in TasksOf(j)' : tasks'[t].journal_revision = run'.journal_revision
               PROVE  Cardinality(TasksOf(j)') <= app.max_stuck_dispatches
    BY <1>1, <1>12 DEF StrikesInv
  <2>1. app.max_stuck_dispatches \in Nat \ {0}
    BY AppFacts DEF RunPart
  <2>2. CASE TasksOf(j) = {}
    <3>1. Cardinality(TasksOf(j)) = 0
      BY <2>2, FS_EmptySet
    <3>2. QED
      BY <1>18, <2>1, <3>1
  <2>3. CASE TasksOf(j) # {}
    <3>1. \A t \in TasksOf(j) : /\ tasks[t].journal_revision = run'.journal_revision
                                /\ tasks[t].journal_revision <= run.journal_revision
                                /\ t \in DOMAIN tasks /\ tasks[t].job = Job(run)
      BY <1>2, <1>6, <1>8, <1>17 DEF TasksOf, JobPart, TasksInv
    <3>2. run'.journal_revision >= run.journal_revision /\ run.journal_revision \in Nat
      BY <1>2, <1>4, <1>12 DEF RunRecord
    <3>3. run'.journal_revision = run.journal_revision
      BY <1>7, <2>3, <3>1, <3>2
    <3>4. /\ Job(ReclaimedRun) = Job(run) /\ ReclaimedRun.journal_revision = run.journal_revision
      BY <1>2, Reclaimed DEF Idle
    <3>5. {t \in DOMAIN ts : ts[t].state = "expired" /\ ts[t].job = Job(ReclaimedRun)
                             /\ ts[t].journal_revision = ReclaimedRun.journal_revision}
          = TasksOf(j)
      BY <1>2, <1>6, <3>1, <3>3, <3>4 DEF TasksOf
    <3>6. Strikes(ReclaimedRun, ts) = Cardinality(TasksOf(j))
      BY <3>5 DEF Strikes
    <3>7. ~(Strikes(ReclaimedRun, ts) >= app.max_stuck_dispatches)
      BY <1>2, <1>4 DEF ts
    <3> HIDE DEF Strikes
    <3>8. QED
      BY <1>18, <2>1, <3>6, <3>7
  <2>4. QED
    BY <2>2, <2>3
<1>21. JobPart'
  BY <1>11, <1>14, <1>15, <1>16, <1>19, <1>20 DEF JobPart
<1>22. HistoryStep /\ VerdictStep /\ UndoStep
  BY <1>1, <1>2, <1>10, Unrewritten
<1>23. QED
  BY <1>5, <1>21, <1>22 DEF Sane

\* One row of the queue changes, by a step that does not start a delivery or end
\* one the journal did not decide.
LEMMA OneRow ==
    ASSUME JobPart, NEW j \in Jobs, NEW row \in QueueRecord, UNCHANGED <<intents, pending>>,
           queue' = [queue EXCEPT ![j] = row], queue[j].task # Null,
           row.state = queue[j].state \/ (row.state = "ready" /\ row.task = Null),
           row.executions + Uncounted(row) <= queue[j].executions + Uncounted(queue[j])
    PROVE  SteadyQueue
<1>1. queue \in [Jobs -> QueueRecord] /\ intents \in [Jobs -> TimeLeft]
  BY DEF JobPart, JobTypes
<1>2. /\ \A k \in Jobs : queue'[k] = IF k = j THEN row ELSE queue[k]
      /\ queue' \in [Jobs -> QueueRecord]
  BY <1>1
<1>3. queue[j].state \notin {"absent", "claimed"}
  BY DEF JobPart, CountInv
<1>4. \A k \in Jobs : queue'[k].executions + Uncounted(queue'[k]) <= queue[k].executions + Uncounted(queue[k])
  <2>1. TAKE k \in Jobs
  <2>2. queue[k].executions + Uncounted(queue[k]) \in Nat
    BY RowFields DEF JobPart, Uncounted
  <2>3. QED
    BY <1>2, <2>2
<1>5. \A k \in Jobs : queue[k].state = "claimed" => queue[k].task = Null
  BY DEF JobPart, CountInv
<1>6. QED
  BY <1>1, <1>2, <1>3, <1>4, <1>5 DEF SteadyQueue, Uncounted

\* A queue that is left alone.
LEMMA QueueStands ==
    ASSUME JobPart, UNCHANGED <<queue, intents, pending>>
    PROVE  SteadyQueue
<1>1. \A j \in Jobs : /\ queue[j].executions + Uncounted(queue[j]) \in Nat
                      /\ queue[j].state = "claimed" => queue[j].task = Null
  BY RowFields DEF JobPart, Uncounted, CountInv
<1>2. \A j \in Jobs : queue'[j].executions + Uncounted(queue'[j])
                        <= queue[j].executions + Uncounted(queue[j])
  BY <1>1
<1>3. QED
  BY <1>1, <1>2 DEF SteadyQueue, JobPart, JobTypes, CountInv, Uncounted

\* The holder of the run's task moves the task's clock and the run's.
LEMMA HeldStep ==
    ASSUME RunPart, JobPart, NEW t \in DOMAIN tasks, Valid(t), NEW due \in Nat,
           run' = [run EXCEPT !.due_at = due], NEW task \in TaskRecord,
           tasks' = [tasks EXCEPT ![t] = task], task.job = tasks[t].job,
           task.journal_revision = tasks[t].journal_revision, task.state # "completed",
           holding' \subseteq holding, SteadyQueue, Unspent,
           UNCHANGED <<app, steps, receipts, mail, notices>>
    PROVE  Sane
<1>1. /\ run \in RunRecord /\ RowInv(run, steps) /\ run.task_id = t /\ t # Null
      /\ tasks \in Seq(TaskRecord)
  BY AppsAssumption DEF RunPart, JobPart, JobTypes, Valid
<1>2. run.state \in {"running", "compensating"} /\ run.due_at # Null
  BY <1>1 DEF RowInv
<1>3. /\ run' \in RunRecord /\ RowInv(run', steps) /\ run'.state = run.state /\ Job(run') = Job(run)
      /\ run'.task_id = run.task_id /\ run'.journal_revision = run.journal_revision
      /\ run'.compensation_target = run.compensation_target
  BY <1>1, <1>2, AppsAssumption DEF RunRecord, RowInv, Job, TimeLeft, Terminal
<1>4. run.journal_revision \in Nat
  BY <1>1 DEF RunRecord
<1>5. RunPart'
  BY <1>3, RowMoves
<1>6. Steady
  BY <1>2, <1>3, <1>4 DEF Steady
<1>7. SteadyTasks
  <2>1. /\ tasks' \in Seq(TaskRecord) /\ DOMAIN tasks' = DOMAIN tasks
        /\ \A u \in DOMAIN tasks : tasks'[u] = IF u = t THEN task ELSE tasks[u]
    BY <1>1
  <2>2. holding' \subseteq DOMAIN tasks
    BY DEF JobPart, JobTypes
  <2>3. \A u \in DOMAIN tasks : tasks[u].job = Job(run) /\ u # t => tasks[u].state = "expired"
    BY <1>1 DEF JobPart, TasksInv
  <2>4. QED
    BY <1>1, <1>3, <2>1, <2>2, <2>3 DEF SteadyTasks
<1>8. SteadyReceipts
  BY DEF SteadyReceipts, JobPart, JobTypes, AheadInv
<1>9. JobPart'
  BY <1>6, <1>7, <1>8, SteadyStep
<1>10. run.state \notin Terminal
  BY <1>2 DEF Terminal
<1>11. HistoryStep /\ VerdictStep /\ UndoStep
  BY <1>10, SameSteps, Unrewritten
<1>12. QED
  BY <1>5, <1>9, <1>11 DEF Sane

\* Counting an attempt uses up what was not counted.
LEMMA Counting ==
    ASSUME NEW row \in QueueRecord, row.task # Null
    PROVE  /\ Counted(row) \in QueueRecord /\ Counted(row).state = row.state
           /\ Counted(row).task = row.task /\ Counted(row).counted
           /\ Counted(row).executions = row.executions + Uncounted(row)
           /\ row.executions \in Nat
<1>1. row.executions \in Nat /\ row.counted \in BOOLEAN
  BY DEF QueueRecord
<1>2. CASE row.counted
  BY <1>1, <1>2 DEF Counted, Uncounted
<1>3. CASE ~row.counted
  <2> DEFINE more == row.executions + 1
  <2>1. Counted(row) = [row EXCEPT !.counted = TRUE, !.executions = more] /\ Uncounted(row) = 1
    BY <1>3 DEF Counted, Uncounted
  <2>2. more \in Nat
    BY <1>1
  <2> HIDE DEF more
  <2>3. /\ Counted(row) \in QueueRecord /\ Counted(row).state = row.state
        /\ Counted(row).task = row.task /\ Counted(row).counted /\ Counted(row).executions = more
    BY <2>1, <2>2 DEF QueueRecord
  <2>4. QED
    BY <1>1, <2>1, <2>3 DEF more
<1>4. QED
  BY <1>1, <1>2, <1>3

\* A renewal counts the attempt and extends the lease, and the task's with it
\* unless the journal's half failed (heartbeat).
LEMMA HeartbeatStep ==
    ASSUME RunPart, JobPart, NEW t \in holding, NEW extended \in BOOLEAN, Heartbeat(t, extended)
    PROVE  Sane
<1> DEFINE k == tasks[t].job
           row == [Counted(queue[k]) EXCEPT !.deadline = app.lease]
<1>1. /\ t \in DOMAIN tasks /\ k \in Jobs /\ tasks[t] \in TaskRecord /\ tasks \in Seq(TaskRecord)
      /\ queue \in [Jobs -> QueueRecord] /\ queue[k] \in QueueRecord
      /\ app.lease \in Nat /\ t # Null
  <2>1. /\ t \in DOMAIN tasks /\ k \in Jobs /\ tasks[t] \in TaskRecord /\ tasks \in Seq(TaskRecord)
        /\ queue \in [Jobs -> QueueRecord] /\ queue[k] \in QueueRecord /\ t # Null
    BY TaskFields, AppsAssumption DEF RunPart, JobPart, JobTypes
  <2>2. app.lease \in Nat
    BY AppFacts DEF RunPart
  <2>3. QED
    BY <2>1, <2>2
<1>2. queue[k].task = t /\ queue[k].task # Null
  BY <1>1 DEF Heartbeat, Granted
<1>3. queue' = [queue EXCEPT ![k] = row]
  BY <1>1 DEF Heartbeat
<1>4. /\ row \in QueueRecord /\ row.state = queue[k].state /\ row.task = queue[k].task
      /\ row.counted /\ row.executions = queue[k].executions + Uncounted(queue[k])
  BY <1>1, <1>2, Counting DEF QueueRecord
<1>5. row.executions + Uncounted(row) <= queue[k].executions + Uncounted(queue[k])
  <2>1. Uncounted(row) = 0 /\ Uncounted(queue[k]) \in Nat /\ queue[k].executions \in Nat
    BY <1>1, <1>2, <1>4, Counting DEF Uncounted
  <2>2. QED
    BY <1>4, <2>1
<1> HIDE DEF row, k
<1>6. SteadyQueue
  BY <1>1, <1>2, <1>3, <1>4, <1>5, OneRow DEF Heartbeat
<1>7. Unspent
  BY DEF Heartbeat, Unspent
<1>8. CASE extended
  <2> DEFINE task == [tasks[t] EXCEPT !.deadline = app.lease]
  <2>1. Valid(t) /\ run' = [run EXCEPT !.due_at = app.lease] /\ tasks' = [tasks EXCEPT ![t] = task]
    BY <1>1, <1>8 DEF Heartbeat
  <2>2. task \in TaskRecord /\ task.job = tasks[t].job /\ task.state = tasks[t].state
        /\ task.journal_revision = tasks[t].journal_revision
    BY <1>1 DEF TaskRecord
  <2>3. task.state # "completed"
    BY <2>1, <2>2 DEF Valid, TaskLive
  <2> HIDE DEF task
  <2>4. UNCHANGED <<app, steps, receipts, mail, notices, holding>>
    BY DEF Heartbeat
  <2>5. QED
    BY <1>1, <1>6, <1>7, <2>1, <2>2, <2>3, <2>4, HeldStep
<1>9. CASE ~extended
  <2>1. UNCHANGED <<app, run, tasks, steps, receipts, mail, notices, holding>>
    BY <1>9 DEF Heartbeat
  <2>2. RunPart'
    BY <1>7, <2>1, RunStands
  <2>3. run \in RunRecord /\ run.journal_revision \in Nat
    BY DEF RunPart, RunRecord
  <2>4. Steady
    BY <2>1, <2>3 DEF Steady
  <2>5. SteadyTasks /\ SteadyReceipts
    BY <2>1 DEF SteadyTasks, SteadyReceipts, JobPart, JobTypes, TasksInv, AheadInv
  <2>6. JobPart'
    BY <1>6, <2>4, <2>5, SteadyStep
  <2>7. HistoryStep /\ VerdictStep /\ UndoStep
    BY <2>1, SameSteps, Unrewritten
  <2>8. QED
    BY <2>2, <2>6, <2>7 DEF Sane
<1>10. QED
  BY <1>8, <1>9

\* A task is given back, the attempt counted if the manager hears of it
\* (release_job).
LEMMA ReleaseStep ==
    ASSUME RunPart, JobPart, NEW t \in holding, NEW returned \in BOOLEAN, Release(t, returned)
    PROVE  Sane
<1> DEFINE k == tasks[t].job
           row == GivenBack(Counted(queue[k]), 0)
           task == [tasks[t] EXCEPT !.state = "released", !.deadline = 0]
<1>1. /\ t \in DOMAIN tasks /\ k \in Jobs /\ tasks[t] \in TaskRecord /\ tasks \in Seq(TaskRecord)
      /\ queue \in [Jobs -> QueueRecord] /\ queue[k] \in QueueRecord /\ t # Null
  BY TaskFields, AppsAssumption DEF RunPart, JobPart, JobTypes
<1>2. task \in TaskRecord /\ task.job = tasks[t].job /\ task.state = "released"
      /\ task.journal_revision = tasks[t].journal_revision
  BY <1>1 DEF TaskRecord
<1>3. tasks' = [tasks EXCEPT ![t] = task]
  BY <1>1 DEF Release, Over
<1>4. SteadyQueue
  <2>1. CASE returned
    <3>1. queue[k].task = t /\ queue[k].task # Null
      BY <1>1, <2>1 DEF Release, Granted
    <3>2. queue' = [queue EXCEPT ![k] = row]
      BY <1>1, <2>1 DEF Release
    <3>3. /\ Counted(queue[k]) \in QueueRecord
          /\ Counted(queue[k]).executions = queue[k].executions + Uncounted(queue[k])
          /\ queue[k].executions \in Nat
      BY <1>1, <3>1, Counting
    <3>4. row \in QueueRecord /\ row.state = "ready" /\ row.task = Null
          /\ row.executions = queue[k].executions + Uncounted(queue[k])
      BY <3>3 DEF GivenBack, QueueRecord
    <3>5. row.executions + Uncounted(row) <= queue[k].executions + Uncounted(queue[k])
      <4>1. Uncounted(row) = 0 /\ Uncounted(queue[k]) \in Nat
        BY <3>4 DEF Uncounted
      <4>2. QED
        BY <3>3, <3>4, <4>1
    <3> HIDE DEF row, k
    <3>6. QED
      BY <1>1, <3>1, <3>2, <3>4, <3>5, OneRow DEF Release
  <2>2. CASE ~returned
    BY <2>2, QueueStands DEF Release
  <2>3. QED
    BY <2>1, <2>2
<1> HIDE DEF task
<1>5. /\ Valid(t) /\ run' = [run EXCEPT !.due_at = 0] /\ holding' \subseteq holding
      /\ UNCHANGED <<app, steps, receipts, mail, notices>> /\ Unspent
  BY DEF Release, Unspent
<1>6. QED
  BY <1>1, <1>2, <1>3, <1>4, <1>5, HeldStep

\* A worker dies: nothing is written.
LEMMA CrashStep ==
    ASSUME RunPart, JobPart, NEW t \in holding, Crash(t)
    PROVE  Sane
<1>1. /\ UNCHANGED <<app, run, steps, tasks, receipts, intents, pending, queue, mail, notices>>
      /\ holding' \subseteq holding /\ Unspent
  BY DEF Crash, Unspent
<1>2. RunPart'
  BY <1>1, RunStands
<1>3. JobPart'
  BY <1>1 DEF JobPart, JobTypes, AheadInv, JobsInv, JournalDecidesFirst, TasksInv, OneCommitPerFrontier,
     CountInv, StrikesInv, TasksOf
<1>4. HistoryStep /\ VerdictStep /\ UndoStep
  BY <1>1, SameSteps, Unrewritten
<1>5. QED
  BY <1>2, <1>3, <1>4 DEF Sane

\* A holder that is refused stops: nothing is written.
LEMMA RefusedStep ==
    ASSUME RunPart, JobPart, NEW t \in holding, Refused(t)
    PROVE  Sane
<1>1. /\ UNCHANGED <<app, run, steps, tasks, receipts, intents, pending, queue, mail, notices>>
      /\ holding' \subseteq holding /\ Unspent
  BY DEF Refused, Unspent
<1>2. RunPart'
  BY <1>1, RunStands
<1>3. JobPart'
  BY <1>1 DEF JobPart, JobTypes, AheadInv, JobsInv, JournalDecidesFirst, TasksInv, OneCommitPerFrontier,
     CountInv, StrikesInv, TasksOf
<1>4. HistoryStep /\ VerdictStep /\ UndoStep
  BY <1>1, SameSteps, Unrewritten
<1>5. QED
  BY <1>2, <1>3, <1>4 DEF Sane

-----------------------------------------------------------------------------
(* Reports.                                                                *)

\* The tail of a report: whatever row and journal it leaves, the task and its
\* job are decided together with the next frontier (complete_job).
LEMMA CommitStep ==
    ASSUME RunPart, JobPart, NEW t \in holding, Valid(t), NEW r, Idle(run, r), NEW s,
           s \in Seq(StepRecord), Sound(s), DOMAIN steps \subseteq DOMAIN s, RowInv(r, s),
           steps' = s, mail' \in Nat,
           mail' + Cardinality(Consumed(s)) = mail + Cardinality(Consumed(steps)),
           Commit(t, r)
    PROVE  /\ RunPart' /\ JobPart' /\ run.state \notin Terminal
           /\ \A j \in Jobs : receipts[j] \in Decided => receipts'[j] = receipts[j]
<1> DEFINE k == tasks[t].job
           task == [tasks[t] EXCEPT !.state = "completed", !.deadline = 0]
<1>1. /\ t \in DOMAIN tasks /\ tasks[t] \in TaskRecord /\ tasks \in Seq(TaskRecord) /\ t # Null
      /\ queue \in [Jobs -> QueueRecord] /\ receipts \in [Jobs -> {"none", "open"} \cup Decided]
      /\ run \in RunRecord /\ RowInv(run, steps) /\ run.task_id = t /\ k = Job(run)
  BY AppsAssumption DEF RunPart, JobPart, JobTypes, Valid
<1>2. run.state \in {"running", "compensating"} /\ run.state \notin Terminal
  BY <1>1 DEF RowInv, Terminal
<1>3. /\ k \in Jobs /\ ~Ahead(run, k) /\ receipts[k] \notin Decided
  BY <1>1, <1>2, JobFacts DEF JobPart, JobsInv
<1>4. /\ Advance(r) /\ tasks' = [tasks EXCEPT ![t] = task]
      /\ receipts' = [receipts EXCEPT ![k] = Verdict(r)] /\ holding' \subseteq holding
      /\ UNCHANGED <<app, queue, notices, budget>>
  BY <1>1 DEF Commit, Over
<1>5. Moving /\ RowInv(run', s)
  BY <1>4, Advancing DEF Idle
<1>6. RunPart'
  <2>1. notices' \subseteq DOMAIN steps' /\ run' \in RunRecord /\ Unspent
    BY <1>4, <1>5 DEF RunPart, Moving, Unspent
  <2>2. QED
    BY <1>4, <1>5, <2>1, JournalMoves
<1>7. Verdict(r) \in Decided
  BY DEF Verdict, Decided
<1>8. /\ receipts' \in [Jobs -> {"none", "open"} \cup Decided]
      /\ \A j \in Jobs : receipts'[j] = IF j = k THEN Verdict(r) ELSE receipts[j]
  <2> HIDE DEF k
  <2>1. QED
    BY <1>1, <1>3, <1>4, <1>7
<1>9. task \in TaskRecord /\ task.job = tasks[t].job /\ task.journal_revision = tasks[t].journal_revision
  BY <1>1 DEF TaskRecord
<1>10. MovingTasks
  <2> HIDE DEF task
  <2>1. /\ tasks' \in Seq(TaskRecord) /\ DOMAIN tasks' = DOMAIN tasks
        /\ \A u \in DOMAIN tasks : tasks'[u] = IF u = t THEN task ELSE tasks[u]
    BY <1>1, <1>4, <1>9
  <2>2. holding' \subseteq DOMAIN tasks
    BY <1>4 DEF JobPart, JobTypes
  <2>3. receipts'[tasks[t].job] \in Decided
    BY <1>3, <1>7, <1>8
  <2>4. QED
    BY <1>1, <1>9, <2>1, <2>2, <2>3 DEF MovingTasks
<1> HIDE DEF k, task
<1>11. MovingReceipts
  BY <1>3, <1>8 DEF MovingReceipts, JobPart, AheadInv
<1>12. MovingQueue
  BY <1>1, <1>4 DEF MovingQueue
<1>13. JobPart'
  BY <1>5, <1>10, <1>11, <1>12, MovingStep
<1>14. QED
  BY <1>2, <1>6, <1>11, <1>13 DEF MovingReceipts

\* What a report of the body consists of.
LEMMA ReportFacts ==
    ASSUME RunPart, NEW report \in Reports
    PROVE  /\ DOMAIN report.tries \subseteq Ordinals(steps, "retrying")
           /\ report.new \in Seq(Kinds)
           /\ Cardinality(DOMAIN report.tries) \in Nat
<1>1. app.batches \subseteq Seq(Kinds) /\ steps \in Seq(StepRecord)
  BY AppFacts DEF RunPart
<1>2. <<>> \in Seq(Kinds)
  OBVIOUS
<1>3. /\ DOMAIN report.tries \subseteq Ordinals(steps, "retrying")
      /\ report.new \in Seq(Kinds)
  <2> DEFINE retrying == Ordinals(steps, "retrying")
             idle == Ordinals(steps, "running") = {}
             tries == [retrying -> {"completed", "failed", "fatal"}]
             none == [i \in {} |-> "completed"]
             fits == {c \in app.batches : Len(steps) + Len(c) <= app.steps}
             all == {g \in tries : idle /\ \A i \in DOMAIN g : g[i] = "completed"}
             some == {g \in tries : DOMAIN g # {} \/ ~idle}
             ends == IF idle /\ retrying = {} THEN {"completed", "continuedAsNew"} ELSE {}
             onward == {[end |-> "continue", tries |-> f, new |-> <<>>] : f \in some}
             opening == {[end |-> "continue", tries |-> f, new |-> b] : f \in all, b \in fits}
             ending == {[end |-> e, tries |-> none, new |-> <<>>] : e \in ends}
             failure == [end |-> "failed", tries |-> none, new |-> <<>>]
  <2>1. Reports = onward \cup opening \cup {failure} \cup ending
    BY DEF Reports
  <2>2. DOMAIN none = {} /\ fits \subseteq Seq(Kinds)
    BY <1>1
  <2>3. \A f \in some : DOMAIN f = retrying
    OBVIOUS
  <2>4. \A f \in all : DOMAIN f = retrying
    OBVIOUS
  <2> HIDE DEF none, fits, all, some, ends, retrying
  <2>5. ASSUME report \in onward
        PROVE  DOMAIN report.tries \subseteq retrying /\ report.new \in Seq(Kinds)
    <3>1. PICK f \in some : report = [end |-> "continue", tries |-> f, new |-> <<>>]
      BY <2>5
    <3>2. report.tries = f /\ report.new = <<>>
      BY <3>1
    <3>3. QED
      BY <1>2, <2>3, <3>2
  <2>6. ASSUME report \in opening
        PROVE  DOMAIN report.tries \subseteq retrying /\ report.new \in Seq(Kinds)
    BY <2>2, <2>4, <2>6
  <2>7. ASSUME report \in {failure} \cup ending
        PROVE  DOMAIN report.tries \subseteq retrying /\ report.new \in Seq(Kinds)
    <3>1. \E e : report = [end |-> e, tries |-> none, new |-> <<>>]
      BY <2>7
    <3>2. report.tries = none /\ report.new = <<>>
      BY <3>1
    <3>3. QED
      BY <1>2, <2>2, <3>2
  <2> HIDE DEF onward, opening, failure, ending
  <2>8. QED
    BY <2>1, <2>5, <2>6, <2>7 DEF retrying
<1>4. Len(steps) \in Nat /\ Ordinals(steps, "retrying") \subseteq 1..Len(steps)
  BY <1>1 DEF Ordinals
<1>5. Cardinality(DOMAIN report.tries) \in Nat
  BY <1>3, <1>4, OrdinalsFinite
<1>6. QED
  BY <1>3, <1>5

\* frontier::apply on a forward run.
LEMMA ReportStep ==
    ASSUME RunPart, JobPart, NEW t \in holding, NEW report \in Reports, Report(t, report)
    PROVE  Sane
<1> DEFINE appended == Appended(steps, report.tries, report.new)
           written == [run EXCEPT !.journal_revision = @ + Cardinality(DOMAIN report.tries)]
           suspends == report.end = "continue" /\ run.control = "none"
           found == IF suspends THEN Resolvable(appended, mail) ELSE {}
           later == [written EXCEPT !.journal_revision = @ + Cardinality(found)]
           resolved == Resolved(appended, mail)
           suspended == Suspend(later, resolved, found # {})
           row == IF run.control = "cancel" THEN SettleRun(written, appended, "cancelled")
                  ELSE IF report.end = "failed" THEN SettleRun(written, appended, "failed")
                  ELSE IF report.end = "completed" THEN Finish(written, "completed")
                  ELSE IF report.end = "continuedAsNew" THEN
                       IF Obligations(appended) # {} THEN SettleRun(written, appended, "failed")
                       ELSE Finish(written, "continuedAsNew")
                  ELSE IF run.control = "pause" THEN Park(written)
                  ELSE suspended
           s == IF suspends THEN resolved ELSE appended
<1>1. /\ app \in Apps /\ steps \in Seq(StepRecord) /\ mail \in Nat /\ Sound(steps) /\ run \in RunRecord
      /\ RowInv(run, steps)
  BY DEF RunPart, StepsInv, Sound
<1>2. /\ Valid(t) /\ run.state # "compensating" /\ steps' = s /\ Commit(t, row)
      /\ mail' = IF suspends THEN MailAfter(appended, mail) ELSE mail
  BY Zenon DEF Report
<1>3. run.task_id # Null
  BY <1>2, AppsAssumption DEF JobPart, JobTypes, Valid
<1>4. run.state = "running" /\ run.compensation_target = Null
  BY <1>1, <1>2, <1>3 DEF RowInv, Terminal
<1>5. /\ appended \in Seq(StepRecord) /\ Sound(appended)
      /\ DOMAIN steps \subseteq DOMAIN appended
      /\ Consumed(appended) = Consumed(steps) /\ Faithful(steps, appended)
  BY <1>1, ReportFacts, AppendedFacts
<1> HIDE DEF appended
<1>6. /\ resolved \in Seq(StepRecord) /\ Sound(resolved) /\ DOMAIN resolved = DOMAIN appended
      /\ Faithful(appended, resolved) /\ MailAfter(appended, mail) \in Nat
      /\ \A i \in DOMAIN appended : resolved[i].compensation = appended[i].compensation
      /\ MailAfter(appended, mail) + Cardinality(Consumed(resolved))
            = mail + Cardinality(Consumed(appended))
      /\ Cardinality(Resolvable(appended, mail)) \in Nat
  BY <1>1, <1>5, ResolvedFacts
<1> HIDE DEF resolved
<1>7. /\ s \in Seq(StepRecord) /\ Sound(s) /\ DOMAIN steps \subseteq DOMAIN s /\ mail' \in Nat
      /\ mail' + Cardinality(Consumed(s)) = mail + Cardinality(Consumed(steps))
  BY <1>1, <1>2, <1>5, <1>6
<1>8. Faithful(steps, s)
  <2>1. Faithful(steps, resolved)
    <3> SUFFICES ASSUME NEW i \in DOMAIN steps
                 PROVE  /\ i \in DOMAIN resolved
                        /\ steps[i].state \in {"completed", "failed"} =>
                              /\ resolved[i].state = steps[i].state
                              /\ resolved[i].attempts = steps[i].attempts
                        /\ steps[i].compensation = "pending" =>
                              resolved[i].compensation \notin {"completed", "failed"}
      BY DEF Faithful
    <3>1. /\ i \in DOMAIN appended
          /\ steps[i].state \in {"completed", "failed"} =>
                appended[i].state = steps[i].state /\ appended[i].attempts = steps[i].attempts
          /\ steps[i].compensation = "pending" => appended[i].compensation \notin {"completed", "failed"}
      BY <1>5 DEF Faithful
    <3>2. /\ i \in DOMAIN resolved
          /\ appended[i].state \in {"completed", "failed"} =>
                resolved[i].state = appended[i].state /\ resolved[i].attempts = appended[i].attempts
      BY <1>6, <3>1 DEF Faithful
    <3>3. resolved[i].compensation = appended[i].compensation
      BY <1>6, <3>1
    <3>4. QED
      BY <3>1, <3>2, <3>3
  <2>2. QED
    BY <1>5, <2>1
<1>9. /\ written \in RunRecord /\ Job(written) = Job(run) /\ written.state = "running"
      /\ written.compensation_target = Null /\ written.control = run.control
      /\ written.journal_revision \in Nat
  <2>1. run.journal_revision + Cardinality(DOMAIN report.tries) \in Nat
    BY <1>1, ReportFacts DEF RunRecord
  <2>2. QED
    BY <1>1, <1>4, <2>1 DEF RunRecord, Job
<1>10. ASSUME suspends
       PROVE  /\ later \in RunRecord /\ Job(later) = Job(run) /\ later.compensation_target = Null
  <2>1. written.journal_revision + Cardinality(found) \in Nat
    BY <1>6, <1>9, <1>10
  <2> HIDE DEF found
  <2>2. QED
    BY <1>9, <2>1 DEF RunRecord, Job
<1> HIDE DEF written
<1>11. Idle(run, row) /\ RowInv(row, s)
  <2>1. CASE suspends
    <3>1. (found # {}) \in BOOLEAN
      OBVIOUS
    <3>2. Idle(later, suspended) /\ RowInv(suspended, resolved)
      <4> HIDE DEF found, later
      <4>1. QED
        BY <1>6, <1>10, <2>1, <3>1, Suspending
    <3> HIDE DEF suspended
    <3>3. row = suspended /\ s = resolved
      BY <2>1
    <3>4. QED
      BY <1>10, <2>1, <3>2, <3>3 DEF Idle
  <2>2. CASE ~suspends
    <3>1. s = appended
      BY <2>2
    <3>2. \A target \in {"failed", "cancelled"} :
              /\ Idle(written, SettleRun(written, appended, target))
              /\ RowInv(SettleRun(written, appended, target), appended)
      BY <1>9, Settling
    <3>3. \A end \in {"completed", "continuedAsNew"} :
              Idle(written, Finish(written, end)) /\ RowInv(Finish(written, end), appended)
      BY <1>9, Finishing DEF Terminal
    <3>4. run.control = "pause" => Idle(written, Park(written)) /\ RowInv(Park(written), appended)
      BY <1>9, Parking DEF Terminal
    <3>5. \/ row = SettleRun(written, appended, "cancelled") \/ row = SettleRun(written, appended, "failed")
          \/ row = Finish(written, "completed") \/ row = Finish(written, "continuedAsNew")
          \/ run.control = "pause" /\ row = Park(written)
          \/ run.control = "none" /\ report.end = "continue"
      <4>1. run.control \in {"none", "pause", "cancel"}
        BY <1>1 DEF RunRecord
      <4>2. report.end \in {"continue", "failed", "completed", "continuedAsNew"}
        BY DEF Reports
      <4> HIDE DEF suspended
      <4>3. QED
        BY <4>1, <4>2
    <3> HIDE DEF row
    <3>6. Idle(written, row) /\ RowInv(row, appended)
      BY <2>2, <3>2, <3>3, <3>4, <3>5
    <3>7. QED
      BY <1>9, <3>1, <3>6 DEF Idle
  <2>3. QED
    BY <2>1, <2>2
<1> HIDE DEF row, s
<1>12. /\ RunPart' /\ JobPart' /\ run.state \notin Terminal
       /\ \A j \in Jobs : receipts[j] \in Decided => receipts'[j] = receipts[j]
  BY <1>2, <1>7, <1>11, CommitStep
<1>13. HistoryStep /\ VerdictStep /\ UndoStep
  BY <1>2, <1>8, <1>12, Unrewritten
<1>14. QED
  BY <1>12, <1>13 DEF Sane

\* compensate: one compensator, the newest obligation, per dispatch.
LEMMA ReportCompensationStep ==
    ASSUME RunPart, JobPart, NEW t \in holding, NEW succeeded \in BOOLEAN,
           ReportCompensation(t, succeeded)
    PROVE  Sane
<1> DEFINE i == Newest(Obligations(steps))
           spent == steps[i].compensation_attempts + 1
           again == ~succeeded /\ spent < app.max_step_attempts
           how == IF again THEN "pending" ELSE IF succeeded THEN "completed" ELSE "failed"
           due == IF again THEN app.retry_delay ELSE Null
           step == [steps[i] EXCEPT !.compensation = how, !.compensation_attempts = spent,
                                    !.compensation_due_at = due]
           undone == [steps EXCEPT ![i] = step]
           written == [run EXCEPT !.journal_revision = @ + 1]
           verdict == IF \E k \in DOMAIN undone : undone[k].compensation = "failed"
                      THEN "failed" ELSE run.compensation_target
           soon == IF again THEN app.retry_delay ELSE 0
           onward == [written EXCEPT !.task_id = Null, !.due_at = soon]
           row == IF Obligations(undone) = {} THEN Finish(written, verdict)
                  ELSE IF run.control = "pause" THEN Park(written) ELSE onward
<1>1. /\ app \in Apps /\ steps \in Seq(StepRecord) /\ mail \in Nat /\ Sound(steps) /\ run \in RunRecord
      /\ RowInv(run, steps) /\ Len(steps) \in Nat /\ DOMAIN steps = 1..Len(steps)
  BY DEF RunPart, StepsInv, Sound
<1>2. /\ Valid(t) /\ run.state = "compensating" /\ steps' = undone /\ Commit(t, row) /\ mail' = mail
  BY DEF ReportCompensation
<1>3. /\ run.state \notin Terminal /\ run.compensation_target \in {"failed", "cancelled"}
      /\ Obligations(steps) # {}
  BY <1>1, <1>2 DEF RowInv, Terminal, RunRecord
<1>4. /\ i \in DOMAIN steps /\ steps[i].compensation = "pending"
      /\ \A k \in DOMAIN steps : steps[k].compensation = "pending" => k <= i
  <2>1. Obligations(steps) \in SUBSET (1..Len(steps))
    BY <1>1 DEF Obligations
  <2>2. i \in Obligations(steps) /\ \A k \in Obligations(steps) : k <= i
    BY <1>1, <1>3, <2>1, NewestOf
  <2> HIDE DEF i
  <2>3. QED
    BY <2>2 DEF Obligations
<1>5. app.retry_delay \in Nat
  BY <1>1, AppFacts
<1> HIDE DEF i
<1>6. steps[i] \in StepRecord /\ StepSound(steps[i])
  BY <1>1, <1>4 DEF Sound
<1>7. spent \in Nat /\ how \in {"pending", "completed", "failed"} /\ due \in TimeLeft /\ soon \in Nat
  BY <1>5, <1>6 DEF StepRecord, TimeLeft
<1> HIDE DEF spent, how, due, soon
<1>8. /\ step \in StepRecord /\ step.state = steps[i].state /\ step.kind = steps[i].kind
      /\ step.attempts = steps[i].attempts /\ step.wake_at = steps[i].wake_at
      /\ step.child = steps[i].child
  BY <1>6, <1>7 DEF StepRecord
<1>9. StepSound(step)
  BY <1>6, <1>8 DEF StepSound
<1> HIDE DEF step
<1>10. /\ undone \in Seq(StepRecord) /\ DOMAIN undone = DOMAIN steps
       /\ \A k \in DOMAIN steps : undone[k] = IF k = i THEN step ELSE steps[k]
  BY <1>1, <1>4, <1>8
<1> HIDE DEF undone
<1>11. Sound(undone)
  BY <1>1, <1>9, <1>10 DEF Sound
<1>12. Consumed(undone) = Consumed(steps)
  BY <1>8, <1>10 DEF Consumed, Ordinals
<1>13. /\ written \in RunRecord /\ Job(written) = Job(run) /\ written.state = "compensating"
       /\ written.compensation_target = run.compensation_target /\ written.control = run.control
  <2>1. run.journal_revision + 1 \in Nat
    BY <1>1 DEF RunRecord
  <2>2. QED
    BY <1>1, <1>2, <2>1 DEF RunRecord, Job
<1> HIDE DEF written
<1>14. Idle(run, row) /\ RowInv(row, undone)
  <2>1. CASE Obligations(undone) = {}
    <3>1. verdict \in {"failed", "cancelled"}
      BY <1>3
    <3> HIDE DEF verdict
    <3>2. Idle(written, Finish(written, verdict)) /\ RowInv(Finish(written, verdict), undone)
      BY <1>13, <2>1, <3>1, Finishing DEF Terminal
    <3>3. QED
      BY <1>13, <2>1, <3>2 DEF Idle
  <2>2. CASE Obligations(undone) # {} /\ run.control = "pause"
    <3>1. Idle(written, Park(written)) /\ RowInv(Park(written), undone)
      BY <1>13, <2>2, Parking DEF Terminal
    <3>2. row = Park(written)
      BY <2>2
    <3> HIDE DEF row
    <3>3. QED
      BY <1>13, <3>1, <3>2 DEF Idle
  <2>3. CASE Obligations(undone) # {} /\ run.control # "pause"
    <3>1. /\ onward \in RunRecord /\ onward.task_id = Null /\ Job(onward) = Job(written)
          /\ onward.state = "compensating" /\ onward.compensation_target = run.compensation_target
      BY <1>7, <1>13 DEF RunRecord, Job, TimeLeft
    <3>2. row = onward
      BY <2>3
    <3> HIDE DEF onward, row
    <3>3. RowInv(onward, undone)
      BY <1>3, <2>3, <3>1, AppsAssumption DEF RowInv, Terminal
    <3>4. QED
      BY <1>13, <3>1, <3>2, <3>3 DEF Idle
  <2>4. QED
    BY <2>1, <2>2, <2>3
<1> HIDE DEF row
<1>15. /\ RunPart' /\ JobPart'
       /\ \A j \in Jobs : receipts[j] \in Decided => receipts'[j] = receipts[j]
  BY <1>1, <1>2, <1>10, <1>11, <1>12, <1>14, CommitStep
<1>16. HistoryStep
  BY <1>2, <1>8, <1>10 DEF HistoryStep
<1>17. VerdictStep
  BY <1>3, <1>15 DEF VerdictStep
<1>18. UndoStep
  <2>1. \A k \in DOMAIN steps : k \in Nat
    BY <1>1
  <2>2. \A k \in DOMAIN steps :
            steps[k].compensation = "pending" /\ steps'[k].compensation \in {"completed", "failed"} => k = i
    BY <1>2, <1>10
  <2>3. \A k \in DOMAIN steps : k > i => steps[k].compensation # "pending"
    BY <1>4, <2>1
  <2>4. QED
    BY <2>2, <2>3 DEF UndoStep
<1>19. QED
  BY <1>15, <1>16, <1>17, <1>18 DEF Sane

-----------------------------------------------------------------------------
(* Requests and events from outside the run.                               *)

\* An idle run moves to a new frontier, its journal as it was.
LEMMA WakingStep ==
    ASSUME RunPart, JobPart, run.state \notin Terminal, NEW r \in RunRecord, r.task_id = Null,
           Job(r) = Job(run), RowInv(r, steps), Advance(r),
           UNCHANGED <<app, steps, tasks, receipts, queue, holding>>
    PROVE  /\ run' \in RunRecord /\ RowInv(run', steps) /\ JobPart'
           /\ HistoryStep /\ VerdictStep /\ UndoStep
<1>1. Moving /\ RowInv(run', steps)
  BY Advancing
<1>2. MovingTasks
  BY DEF MovingTasks, JobPart, JobTypes
<1>3. MovingReceipts
  BY DEF MovingReceipts, JobPart, JobTypes, AheadInv
<1>4. MovingQueue
  BY DEF MovingQueue, JobPart, JobTypes
<1>5. JobPart'
  BY <1>1, <1>2, <1>3, <1>4, MovingStep
<1>6. HistoryStep /\ VerdictStep /\ UndoStep
  BY SameSteps, Unrewritten
<1>7. QED
  BY <1>1, <1>5, <1>6 DEF Moving

\* The row changes and its frontier, clock, task and verdict do not.
LEMMA ShownStep ==
    ASSUME RunPart, JobPart, run' \in RunRecord, RowInv(run', steps), Job(run') = Job(run),
           run'.state = run.state, run'.journal_revision = run.journal_revision,
           run'.compensation_target = run.compensation_target, run'.task_id = run.task_id,
           run'.due_at = run.due_at, run.state \notin Terminal \/ run' = run,
           UNCHANGED <<app, steps, tasks, receipts, queue, holding, intents, pending>>
    PROVE  JobPart' /\ HistoryStep /\ VerdictStep /\ UndoStep
<1>1. run.journal_revision \in Nat
  BY DEF RunPart, RunRecord
<1>2. Steady
  BY <1>1 DEF Steady
<1>3. SteadyTasks /\ SteadyReceipts
  BY DEF SteadyTasks, SteadyReceipts, JobPart, JobTypes, TasksInv, AheadInv
<1>4. JobPart'
  BY <1>2, <1>3, QueueStands, SteadyStep
<1>5. QED
  BY <1>4, SameSteps, Unrewritten

\* TransitionPlan::apply: a leased run is shown the request, an idle one moves.
LEMMA TransitionStep ==
    ASSUME RunPart, JobPart, NEW op \in app.ops, Transition(op)
    PROVE  Sane
<1>1. /\ op \in {"pause", "resume", "cancel"} /\ run.state \notin Terminal /\ Spend("commands")
      /\ UNCHANGED <<app, steps, tasks, receipts, queue, holding, mail, notices>>
  BY DEF Transition
<1>2. run \in RunRecord /\ RowInv(run, steps) /\ Unspent
  BY <1>1 DEF RunPart, Unspent
<1>3. CASE run.task_id = Null
  <2>1. Advance(Transitioned(op))
    BY <1>3 DEF Transition
  <2>2. /\ Transitioned(op) \in RunRecord /\ Transitioned(op).task_id = Null
        /\ Job(Transitioned(op)) = Job(run) /\ RowInv(Transitioned(op), steps)
    <3>1. CASE op = "pause"
      <4>1. Transitioned(op) = [run EXCEPT !.state = "paused", !.due_at = Null, !.task_id = Null,
                                           !.control = "pause"]
        BY <1>2, <1>3, <3>1 DEF Transitioned, Park, RunRecord
      <4>2. QED
        BY <1>1, <1>2, <4>1 DEF RunRecord, RowInv, Job, TimeLeft, Terminal
    <3>2. CASE op = "resume"
      <4> DEFINE phase == IF run.compensation_target # Null THEN "compensating" ELSE "queued"
      <4>1. Transitioned(op) = [run EXCEPT !.control = "none", !.state = phase, !.due_at = 0]
        BY <1>3, <3>2 DEF Transitioned
      <4>2. phase \in {"compensating", "queued"} /\ phase \notin Terminal
            /\ (phase = "compensating" <=> run.compensation_target # Null)
        BY DEF Terminal
      <4> HIDE DEF phase
      <4>3. /\ Transitioned(op) \in RunRecord /\ Transitioned(op).task_id = Null
            /\ Job(Transitioned(op)) = Job(run) /\ Transitioned(op).state = phase
            /\ Transitioned(op).compensation_target = run.compensation_target
        <5> DEFINE r == [run EXCEPT !.control = "none", !.state = phase, !.due_at = 0]
        <5>1. /\ r \in RunRecord /\ r.task_id = run.task_id /\ r.state = phase
              /\ r.generation = run.generation /\ r.frontier_revision = run.frontier_revision
              /\ r.compensation_target = run.compensation_target
          BY <1>2, <4>2 DEF RunRecord, TimeLeft
        <5> HIDE DEF r
        <5>2. QED
          BY <1>3, <4>1, <5>1 DEF Job, r
      <4>4. RowInv(Transitioned(op), steps)
        BY <1>1, <1>2, <4>2, <4>3 DEF RowInv, Terminal
      <4>5. QED
        BY <4>3, <4>4
    <3>3. CASE op = "cancel"
      <4>1. Transitioned(op) = [run EXCEPT !.control = "cancel", !.due_at = 0]
        BY <1>3, <3>3 DEF Transitioned
      <4>2. /\ Transitioned(op) \in RunRecord /\ Transitioned(op).task_id = Null
            /\ Job(Transitioned(op)) = Job(run) /\ Transitioned(op).state = run.state
            /\ Transitioned(op).compensation_target = run.compensation_target
            /\ Transitioned(op).control = "cancel"
        <5> DEFINE r == [run EXCEPT !.control = "cancel", !.due_at = 0]
        <5>1. /\ r \in RunRecord /\ r.task_id = run.task_id /\ r.state = run.state
              /\ r.generation = run.generation /\ r.frontier_revision = run.frontier_revision
              /\ r.compensation_target = run.compensation_target /\ r.control = "cancel"
          BY <1>2 DEF RunRecord, TimeLeft
        <5> HIDE DEF r
        <5>2. QED
          BY <1>3, <4>1, <5>1 DEF Job, r
      <4>3. RowInv(Transitioned(op), steps)
        BY <1>1, <1>2, <4>2 DEF RowInv, Terminal
      <4>4. QED
        BY <4>2, <4>3
    <3>4. QED
      BY <1>1, <3>1, <3>2, <3>3
  <2>3. /\ run' \in RunRecord /\ RowInv(run', steps) /\ JobPart'
        /\ HistoryStep /\ VerdictStep /\ UndoStep
    BY <1>1, <2>1, <2>2, WakingStep
  <2>4. RunPart'
    BY <1>1, <1>2, <2>3, RowMoves
  <2>5. QED
    BY <2>3, <2>4 DEF Sane
<1>4. CASE run.task_id # Null
  <2>1. run' = Transitioned(op) /\ UNCHANGED <<intents, pending>>
    BY <1>4 DEF Transition
  <2>2. run.state \in {"running", "compensating"}
    BY <1>2, <1>4 DEF RowInv
  <2>3. \E c \in {"none", "pause", "cancel"} : Transitioned(op) = [run EXCEPT !.control = c]
    BY <1>1, <1>4 DEF Transitioned
  <2>4. /\ run' \in RunRecord /\ RowInv(run', steps) /\ Job(run') = Job(run)
        /\ run'.state = run.state /\ run'.journal_revision = run.journal_revision
        /\ run'.compensation_target = run.compensation_target /\ run'.task_id = run.task_id
        /\ run'.due_at = run.due_at
    BY <1>2, <2>1, <2>2, <2>3 DEF RunRecord, RowInv, Job, Terminal
  <2>5. JobPart' /\ HistoryStep /\ VerdictStep /\ UndoStep
    BY <1>1, <2>1, <2>4, ShownStep
  <2>6. RunPart'
    BY <1>1, <1>2, <2>4, RowMoves
  <2>7. QED
    BY <2>5, <2>6 DEF Sane
<1>5. QED
  BY <1>3, <1>4

\* An idle row that is made due.
LEMMA MadeDue ==
    ASSUME RunPart, run.task_id = Null, run.state \notin Terminal
    PROVE  LET r == [run EXCEPT !.due_at = 0]
           IN  r \in RunRecord /\ r.task_id = Null /\ Job(r) = Job(run) /\ RowInv(r, steps)
<1>1. run \in RunRecord /\ RowInv(run, steps)
  BY DEF RunPart
<1>2. QED
  BY <1>1 DEF RunRecord, RowInv, Job, TimeLeft, Terminal

\* propagation's notify page: an idle parent still waiting is made due.
LEMMA NotifyStep ==
    ASSUME RunPart, JobPart, NEW i \in DOMAIN steps, Notify(i)
    PROVE  Sane
<1>1. /\ notices' = notices \ {i} /\ notices \subseteq DOMAIN steps
      /\ UNCHANGED <<app, steps, tasks, receipts, queue, holding, mail, budget>>
  BY DEF Notify, RunPart
<1>2. /\ run \in RunRecord /\ RowInv(run, steps) /\ Unspent /\ Sound(steps)
      /\ steps' \in Seq(StepRecord) /\ mail' \in Nat /\ notices' \subseteq DOMAIN steps'
  BY <1>1 DEF RunPart, Unspent, StepsInv, Sound
<1>3. /\ run' \in RunRecord /\ RowInv(run', steps) /\ JobPart'
      /\ HistoryStep /\ VerdictStep /\ UndoStep
  <2>1. CASE UNCHANGED <<run, intents, pending>>
    BY <1>1, <1>2, <2>1, ShownStep
  <2>2. CASE run.task_id = Null /\ run.state \notin Terminal /\ Advance([run EXCEPT !.due_at = 0])
    BY <1>1, <2>2, MadeDue, WakingStep
  <2>3. QED
    BY <2>1, <2>2 DEF Notify, Terminal
<1>4. RunPart'
  BY <1>1, <1>2, <1>3, JournalMoves
<1>5. QED
  BY <1>3, <1>4 DEF Sane

\* signals::deliver: one signal leaves the budget for the mailbox.
LEMMA SignalStep ==
    ASSUME RunPart, JobPart, Signal
    PROVE  Sane
<1>1. /\ run.state \notin Terminal /\ Spend("signals") /\ mail' = mail + 1
      /\ UNCHANGED <<app, steps, tasks, receipts, queue, holding, notices>>
  BY DEF Signal
<1>2. run \in RunRecord /\ RowInv(run, steps)
  BY DEF RunPart
<1>3. /\ run' \in RunRecord /\ RowInv(run', steps) /\ JobPart'
      /\ HistoryStep /\ VerdictStep /\ UndoStep
  <2>1. CASE UNCHANGED <<run, intents, pending>>
    BY <1>1, <1>2, <2>1, ShownStep
  <2>2. CASE run.task_id = Null /\ Advance([run EXCEPT !.due_at = 0])
    BY <1>1, <2>2, MadeDue, WakingStep
  <2>3. QED
    BY <2>1, <2>2 DEF Signal
<1>4. /\ budget' \in [faults : 0..app.faults, commands : 0..app.commands, signals : 0..app.signals]
      /\ budget'.signals = budget.signals - 1
  BY <1>1, Spending
<1>5. RowInv(run, steps)'
  BY <1>1, <1>3 DEF RowInv, Obligations
<1>6. SignalsConserved'
  <2> DEFINE used == Cardinality(Consumed(steps))
  <2>1. Consumed(steps)' = Consumed(steps)
    BY <1>1 DEF Consumed, Ordinals
  <2>2. /\ Len(steps) \in Nat /\ Consumed(steps) \in SUBSET (1..Len(steps)) /\ mail \in Nat
        /\ app.signals \in Nat /\ budget.signals \in 0..app.signals
    BY AppFacts DEF RunPart, Consumed, Ordinals
  <2>3. used \in Nat
    BY <2>2, OrdinalsFinite
  <2>4. mail + used = app.signals - budget.signals
    BY DEF RunPart, SignalsConserved, Consumed
  <2> HIDE DEF used
  <2>5. mail' + used = app'.signals - budget'.signals
    BY <1>1, <1>4, <2>2, <2>3, <2>4
  <2>6. QED
    BY <2>1, <2>5 DEF SignalsConserved, Consumed, used
<1>7. RunPart'
  BY <1>1, <1>3, <1>4, <1>5, <1>6 DEF RunPart, StepsInv
<1>8. QED
  BY <1>3, <1>7 DEF Sane

\* A child ends; only what the parent may resolve changes.
LEMMA ChildEndsStep ==
    ASSUME RunPart, JobPart, NEW i \in DOMAIN steps, NEW how \in {"completed", "failed"},
           ChildEnds(i, how)
    PROVE  Sane
<1> DEFINE step == [steps[i] EXCEPT !.child = how]
<1>1. /\ steps[i].child = "live" /\ steps' = [steps EXCEPT ![i].child = how]
      /\ notices' \subseteq notices \cup {i}
      /\ UNCHANGED <<app, run, tasks, receipts, intents, pending, queue, holding, mail, budget>>
  BY DEF ChildEnds
<1>2. /\ run \in RunRecord /\ RowInv(run, steps) /\ Unspent /\ Sound(steps)
      /\ steps \in Seq(StepRecord) /\ mail' \in Nat /\ notices \subseteq DOMAIN steps
  BY <1>1 DEF RunPart, Unspent, StepsInv, Sound
<1>3. steps[i] \in StepRecord /\ StepSound(steps[i])
  BY <1>2 DEF Sound
<1>4. /\ step \in StepRecord /\ step.state = steps[i].state /\ step.kind = steps[i].kind
      /\ step.attempts = steps[i].attempts /\ step.wake_at = steps[i].wake_at
      /\ step.compensation = steps[i].compensation
  BY <1>3 DEF StepRecord
<1>5. StepSound(step)
  BY <1>1, <1>3, <1>4 DEF StepSound
<1>6. steps' = [steps EXCEPT ![i] = step]
  BY <1>1, <1>2
<1> HIDE DEF step
<1>7. /\ steps' \in Seq(StepRecord) /\ DOMAIN steps' = DOMAIN steps
      /\ \A k \in DOMAIN steps : steps'[k] = IF k = i THEN step ELSE steps[k]
  BY <1>2, <1>4, <1>6
<1>8. Sound(steps')
  BY <1>2, <1>5, <1>7 DEF Sound
<1>9. Consumed(steps') = Consumed(steps) /\ Obligations(steps') = Obligations(steps)
  BY <1>4, <1>7 DEF Consumed, Ordinals, Obligations
<1>10. Faithful(steps, steps')
  BY <1>4, <1>7 DEF Faithful
<1>11. RowInv(run', steps')
  BY <1>1, <1>2, <1>9 DEF RowInv
<1>12. RunPart'
  <2>1. notices' \subseteq DOMAIN steps' /\ run' \in RunRecord /\ app' = app
    BY <1>1, <1>2, <1>7
  <2>2. mail' + Cardinality(Consumed(steps')) = mail + Cardinality(Consumed(steps))
    BY <1>1, <1>9
  <2>3. QED
    BY <1>2, <1>7, <1>8, <1>11, <2>1, <2>2, JournalMoves
<1>13. JobPart'
  BY <1>1 DEF JobPart, JobTypes, AheadInv, JobsInv, JournalDecidesFirst, TasksInv, OneCommitPerFrontier,
     CountInv, StrikesInv, TasksOf
<1>14. QED
  BY <1>1, <1>10, <1>12, <1>13, Unrewritten DEF Sane

\* RestartPlan::apply: the first frontier of a generation is ahead of all of the
\* one before, and the signals of the operations it drops are given back.
LEMMA RestartStep ==
    ASSUME RunPart, JobPart, NEW prefix \in 0..(Len(steps) - 1) \cup {0}, Restart(prefix)
    PROVE  Sane
<1> DEFINE row == Restarted(run.generation + 1)
           kept == SubSeq(steps, 1, prefix)
           over(t) == [tasks[t] EXCEPT !.state = "expired", !.deadline = 0]
<1>1. /\ run.generation < MaxGeneration /\ Spend("commands")
      /\ mail' = mail + Refunded(prefix) /\ steps' = kept /\ notices' = {} /\ run' = row
      /\ Record(row) /\ UNCHANGED <<app, receipts, queue, holding>>
  BY DEF Restart
<1>2. tasks' = [t \in DOMAIN tasks |->
                   IF tasks[t].state = "leased" /\ tasks[t].job[1] = run.generation
                   THEN over(t) ELSE tasks[t]]
  BY DEF Restart, Over
<1>3. /\ app \in Apps /\ run \in RunRecord /\ steps \in Seq(StepRecord) /\ mail \in Nat /\ Sound(steps)
      /\ tasks \in Seq(TaskRecord) /\ holding \subseteq DOMAIN tasks
      /\ Len(steps) \in Nat /\ DOMAIN steps = 1..Len(steps)
  BY DEF RunPart, JobPart, JobTypes, StepsInv, Sound
<1>4. MaxRevision \in Nat /\ MaxGeneration \in Nat /\ 1 <= MaxRevision
  BY <1>3, AppFacts, AppsAssumption
<1>5. run.generation \in 0..MaxGeneration
  BY <1>3 DEF RunRecord
<1>6. run.generation + 1 \in 0..MaxGeneration /\ 1 \in 1..MaxRevision
  BY <1>1, <1>4, <1>5
<1>7. /\ row \in RunRecord /\ row.generation = run.generation + 1 /\ row.frontier_revision = 1
      /\ row.state = "queued" /\ row.task_id = Null /\ row.compensation_target = Null
  <2> DEFINE generation == run.generation + 1
  <2> HIDE DEF generation
  <2>1. row = Restarted(generation) /\ generation \in 0..MaxGeneration
    BY <1>6 DEF generation
  <2>2. /\ Restarted(generation) \in RunRecord /\ Restarted(generation).generation = generation
        /\ Restarted(generation).frontier_revision = 1 /\ Restarted(generation).state = "queued"
        /\ Restarted(generation).task_id = Null /\ Restarted(generation).compensation_target = Null
    BY <1>3, <1>6, <2>1 DEF Restarted, RunRecord, TimeLeft
  <2>3. QED
    BY <2>2 DEF generation
<1> HIDE DEF row
<1>8. Moving
  <2>1. Job(row)[1] = run.generation + 1 /\ Job(row)[2] = 1
    BY <1>7 DEF Job
  <2>2. Ahead(run, Job(row))
    BY <1>5, <2>1 DEF Ahead
  <2>3. \A j \in Jobs : j[1] \in Nat /\ j[2] \in Nat
    BY <1>4 DEF Jobs
  <2>4. \A j \in Jobs : Ahead(row, j) => Ahead(run, j)
    BY <1>5, <1>7, <2>3 DEF Ahead
  <2>5. QED
    BY <1>1, <1>7, <2>2, <2>4 DEF Moving
<1>9. MovingTasks
  <2>1. \A t \in DOMAIN tasks : /\ tasks[t] \in TaskRecord /\ over(t) \in TaskRecord
                                /\ over(t).job = tasks[t].job /\ over(t).state = "expired"
                                /\ over(t).journal_revision = tasks[t].journal_revision
    <3> SUFFICES ASSUME NEW t \in DOMAIN tasks
                 PROVE  /\ tasks[t] \in TaskRecord /\ over(t) \in TaskRecord
                        /\ over(t).job = tasks[t].job /\ over(t).state = "expired"
                        /\ over(t).journal_revision = tasks[t].journal_revision
      OBVIOUS
    <3>1. tasks[t] \in TaskRecord
      BY <1>3
    <3>2. QED
      BY <3>1 DEF TaskRecord
  <2> HIDE DEF over
  <2>2. DOMAIN tasks' = DOMAIN tasks
    BY <1>2
  <2>3. \A t \in DOMAIN tasks : tasks'[t] \in {tasks[t], over(t)} /\ tasks'[t] \in TaskRecord
    BY <1>2, <2>1
  <2>4. tasks' \in Seq(TaskRecord)
    <3>1. Len(tasks) \in Nat /\ DOMAIN tasks = 1..Len(tasks)
      BY <1>3
    <3>2. tasks' = [t \in 1..Len(tasks) |-> tasks'[t]]
      BY <1>2, <3>1
    <3>3. QED
      BY <2>3, <3>1, <3>2
  <2>5. QED
    BY <1>1, <1>3, <2>1, <2>2, <2>3, <2>4 DEF MovingTasks
<1>10. MovingReceipts
  BY <1>1 DEF MovingReceipts, JobPart, JobTypes, AheadInv
<1>11. MovingQueue
  BY <1>1 DEF MovingQueue, JobPart, JobTypes
<1>12. JobPart'
  BY <1>8, <1>9, <1>10, <1>11, MovingStep
<1>13. prefix \in Nat /\ prefix <= Len(steps)
  BY <1>3
<1>14. /\ kept \in Seq(StepRecord) /\ DOMAIN kept = 1..prefix
       /\ \A i \in 1..prefix : i \in DOMAIN steps /\ kept[i] = steps[i]
  BY <1>3, <1>13
<1> HIDE DEF kept
<1>15. Sound(kept)
  BY <1>3, <1>14 DEF Sound
<1>16. mail' \in Nat /\ mail' + Cardinality(Consumed(kept)) = mail + Cardinality(Consumed(steps))
  <2> DEFINE dropped == {i \in Ordinals(steps, "completed") : i > prefix /\ steps[i].kind = "signal"}
             rest == Consumed(kept)
  <2>1. \A i \in DOMAIN steps : i \in 1..prefix <=> ~(i > prefix)
    BY <1>3, <1>13
  <2>2. dropped \subseteq DOMAIN steps /\ rest \subseteq DOMAIN steps /\ rest \subseteq 1..prefix
    BY <1>14 DEF Ordinals, Consumed
  <2>3. \A i \in DOMAIN steps : i \in Consumed(steps) <=> i \in rest \/ i \in dropped
    BY <1>14, <2>1 DEF Ordinals, Consumed
  <2>4. Consumed(steps) \subseteq DOMAIN steps
    BY DEF Ordinals, Consumed
  <2>5. \A i \in dropped : i > prefix
    OBVIOUS
  <2>6. Refunded(prefix) = Cardinality(dropped)
    BY DEF Refunded
  <2> HIDE DEF dropped, rest
  <2>7. Consumed(steps) = rest \cup dropped
    BY <2>2, <2>3, <2>4
  <2>8. rest \cap dropped = {}
    BY <2>1, <2>2, <2>5
  <2>9. /\ Cardinality(rest \cup dropped) = Cardinality(rest) + Cardinality(dropped)
        /\ Cardinality(rest) \in Nat /\ Cardinality(dropped) \in Nat
    <3>1. rest \in SUBSET (1..Len(steps)) /\ dropped \in SUBSET (1..Len(steps))
      BY <1>3, <2>2
    <3>2. Cardinality(rest \cup dropped) = Cardinality(rest) + Cardinality(dropped)
      BY <1>3, <2>8, <3>1, CountBoth
    <3>3. Cardinality(rest) \in Nat /\ Cardinality(dropped) \in Nat
      BY <1>3, <3>1, OrdinalsFinite
    <3>4. QED
      BY <3>2, <3>3
  <2>10. QED
    BY <1>1, <1>3, <2>6, <2>7, <2>9 DEF rest
<1>17. RowInv(row, kept)
  BY <1>7 DEF RowInv, Terminal
<1>18. RunPart'
  <2>1. Unspent /\ notices' \subseteq DOMAIN steps' /\ run' \in RunRecord
    BY <1>1, <1>7 DEF Unspent
  <2>2. QED
    BY <1>1, <1>14, <1>15, <1>16, <1>17, <2>1, JournalMoves
<1>19. run'.generation # run.generation
  BY <1>1, <1>5, <1>7
<1>20. HistoryStep /\ VerdictStep /\ UndoStep
  BY <1>1, <1>19 DEF HistoryStep, VerdictStep, UndoStep
<1>21. QED
  BY <1>12, <1>18, <1>20 DEF Sane

-----------------------------------------------------------------------------
(* Time.                                                                   *)

\* A clock runs down and stops, and one that is not set stays so.
LEMMA ElapsedFacts ==
    ASSUME NEW left \in TimeLeft
    PROVE  /\ Elapsed(left) \in TimeLeft /\ (Elapsed(left) = Null <=> left = Null)
           /\ left \in Nat => Elapsed(left) \in Nat
  BY AppsAssumption DEF Elapsed, TimeLeft

\* A row counts what it counted before.
LEMMA CountKept ==
    ASSUME NEW x \in QueueRecord, NEW y \in QueueRecord, y.executions = x.executions,
           y.task = x.task, y.counted = x.counted
    PROVE  y.executions + Uncounted(y) <= x.executions + Uncounted(x)
<1>1. x.executions \in Nat
  BY DEF QueueRecord
<1>2. QED
  BY <1>1 DEF Uncounted

\* The manager's clocks run.
LEMMA QueueElapses ==
    ASSUME JobPart, pending' = pending, intents' \in [Jobs -> TimeLeft],
           \A j \in Jobs : intents'[j] = Null <=> intents[j] = Null,
           queue' = [j \in Jobs |->
               [queue[j] EXCEPT !.due = Elapsed(@), !.deadline = Elapsed(@)]]
    PROVE  SteadyQueue
<1>1. \A j \in Jobs :
          /\ queue'[j] \in QueueRecord /\ queue'[j].state = queue[j].state
          /\ queue'[j].executions = queue[j].executions /\ queue'[j].counted = queue[j].counted
          /\ queue'[j].task = queue[j].task
  <2> SUFFICES ASSUME NEW j \in Jobs
               PROVE  /\ queue'[j] \in QueueRecord /\ queue'[j].state = queue[j].state
                      /\ queue'[j].executions = queue[j].executions
                      /\ queue'[j].counted = queue[j].counted /\ queue'[j].task = queue[j].task
    OBVIOUS
  <2>1. queue[j] \in QueueRecord /\ queue[j].due \in Nat /\ queue[j].deadline \in Nat
    BY RowFields DEF JobPart
  <2> DEFINE due == Elapsed(queue[j].due)
             deadline == Elapsed(queue[j].deadline)
  <2>2. due \in Nat /\ deadline \in Nat
    BY <2>1, ElapsedFacts DEF TimeLeft
  <2> HIDE DEF due, deadline
  <2>3. queue'[j] = [queue[j] EXCEPT !.due = due, !.deadline = deadline]
    BY DEF due, deadline
  <2>4. QED
    BY <2>1, <2>2, <2>3 DEF QueueRecord
<1>2. queue' \in [Jobs -> QueueRecord]
  <2>1. queue' = [j \in Jobs |-> queue'[j]]
    OBVIOUS
  <2>2. QED
    BY <1>1, <2>1
<1>3. \A j \in Jobs : queue[j].state = "claimed" => queue[j].task = Null
  BY DEF JobPart, CountInv
<1>4. \A j \in Jobs : queue'[j].executions + Uncounted(queue'[j])
                        <= queue[j].executions + Uncounted(queue[j])
  BY <1>1, RowFields, CountKept DEF JobPart
<1>5. QED
  BY <1>1, <1>2, <1>3, <1>4 DEF SteadyQueue, JobPart, JobTypes, Uncounted

\* The manager's clock gains on the creator's.
LEMMA DriftStep ==
    ASSUME RunPart, JobPart, Drift
    PROVE  Sane
<1>1. /\ UNCHANGED <<app, run, steps, tasks, receipts, intents, pending, holding, mail, notices>>
      /\ Unspent
      /\ queue' = [j \in Jobs |->
            [queue[j] EXCEPT !.due = Elapsed(@), !.deadline = Elapsed(@)]]
  BY DEF Drift, Unspent
<1>2. RunPart'
  BY <1>1, RunStands
<1>3. SteadyQueue
  BY <1>1, QueueElapses DEF JobPart, JobTypes
<1>4. Steady
  <2>1. run \in RunRecord /\ run.journal_revision \in Nat
    BY DEF RunPart, RunRecord
  <2>2. app' = app /\ run' = run
    BY <1>1
  <2>3. QED
    BY <2>1, <2>2 DEF Steady
<1>5. SteadyTasks /\ SteadyReceipts
  BY <1>1 DEF SteadyTasks, SteadyReceipts, JobPart, JobTypes, TasksInv, AheadInv
<1>6. JobPart'
  BY <1>3, <1>4, <1>5, SteadyStep
<1>7. HistoryStep /\ VerdictStep /\ UndoStep
  BY <1>1, SameSteps, Unrewritten
<1>8. QED
  BY <1>2, <1>6, <1>7 DEF Sane

\* A unit of time passes.
LEMMA TickStep ==
    ASSUME RunPart, JobPart, Tick
    PROVE  Sane
<1> DEFINE due == Elapsed(run.due_at)
<1>1. /\ Unspent /\ UNCHANGED <<app, receipts, pending, holding, mail, notices>>
      /\ run' = [run EXCEPT !.due_at = due]
      /\ intents' = [j \in Jobs |-> Elapsed(intents[j])]
      /\ queue' = [j \in Jobs |->
            [queue[j] EXCEPT !.due = Elapsed(@), !.deadline = Elapsed(@)]]
      /\ steps' = [i \in DOMAIN steps |->
            [steps[i] EXCEPT !.wake_at = Elapsed(@), !.compensation_due_at = Elapsed(@)]]
      /\ tasks' = [t \in DOMAIN tasks |-> [tasks[t] EXCEPT !.deadline = Elapsed(@)]]
  BY DEF Tick, Unspent
<1>2. /\ app \in Apps /\ run \in RunRecord /\ steps \in Seq(StepRecord) /\ mail \in Nat /\ Sound(steps)
      /\ RowInv(run, steps) /\ notices \subseteq DOMAIN steps
      /\ Len(steps) \in Nat /\ DOMAIN steps = 1..Len(steps)
  BY DEF RunPart, StepsInv, Sound
<1>3. /\ tasks \in Seq(TaskRecord) /\ intents \in [Jobs -> TimeLeft] /\ holding \subseteq DOMAIN tasks
      /\ receipts \in [Jobs -> {"none", "open"} \cup Decided]
  BY DEF JobPart, JobTypes
<1>4. due \in TimeLeft /\ (due = Null <=> run.due_at = Null) /\ run.journal_revision \in Nat
  <2>1. run.due_at \in TimeLeft /\ run.journal_revision \in Nat
    BY <1>2 DEF RunRecord
  <2>2. QED
    BY <2>1, ElapsedFacts
<1>5. run.due_at = Null => run' = run
  BY <1>1, <1>2 DEF Elapsed, RunRecord
<1> HIDE DEF due
<1>6. /\ run' \in RunRecord /\ Job(run') = Job(run) /\ run'.state = run.state /\ run'.due_at = due
      /\ run'.control = run.control /\ run'.task_id = run.task_id
      /\ run'.journal_revision = run.journal_revision
      /\ run'.compensation_target = run.compensation_target
  BY <1>1, <1>2, <1>4 DEF RunRecord, Job
<1>7. \A i \in DOMAIN steps :
          /\ steps'[i] \in StepRecord /\ StepSound(steps'[i]) /\ steps'[i].state = steps[i].state
          /\ steps'[i].kind = steps[i].kind /\ steps'[i].attempts = steps[i].attempts
          /\ steps'[i].compensation = steps[i].compensation
  <2> SUFFICES ASSUME NEW i \in DOMAIN steps
               PROVE  /\ steps'[i] \in StepRecord /\ StepSound(steps'[i])
                      /\ steps'[i].state = steps[i].state /\ steps'[i].kind = steps[i].kind
                      /\ steps'[i].attempts = steps[i].attempts
                      /\ steps'[i].compensation = steps[i].compensation
    OBVIOUS
  <2> DEFINE wake == Elapsed(steps[i].wake_at)
             again == Elapsed(steps[i].compensation_due_at)
  <2>1. steps[i] \in StepRecord /\ StepSound(steps[i])
    BY <1>2 DEF Sound
  <2>2. steps[i].wake_at \in TimeLeft /\ steps[i].compensation_due_at \in TimeLeft
    BY <2>1 DEF StepRecord
  <2>3. wake \in TimeLeft /\ again \in TimeLeft /\ (steps[i].wake_at \in Nat => wake \in Nat)
    BY <2>2, ElapsedFacts
  <2>4. steps'[i] = [steps[i] EXCEPT !.wake_at = wake, !.compensation_due_at = again]
    BY <1>1
  <2> HIDE DEF wake, again
  <2>5. /\ steps'[i] \in StepRecord /\ steps'[i].wake_at = wake /\ steps'[i].child = steps[i].child
        /\ steps'[i].state = steps[i].state /\ steps'[i].kind = steps[i].kind
        /\ steps'[i].attempts = steps[i].attempts /\ steps'[i].compensation = steps[i].compensation
    BY <2>1, <2>3, <2>4 DEF StepRecord
  <2>6. StepSound(steps'[i])
    BY <2>1, <2>3, <2>5 DEF StepSound
  <2>7. QED
    BY <2>5, <2>6
<1>8. DOMAIN steps' = DOMAIN steps
  BY <1>1
<1>9. steps' \in Seq(StepRecord)
  <2>1. steps' = [i \in 1..Len(steps) |-> steps'[i]]
    BY <1>1, <1>2
  <2>2. QED
    BY <1>2, <1>7, <2>1
<1>10. Sound(steps') /\ Faithful(steps, steps')
  BY <1>7, <1>8 DEF Sound, Faithful
<1>11. Consumed(steps') = Consumed(steps) /\ Obligations(steps') = Obligations(steps)
  BY <1>7, <1>8 DEF Consumed, Ordinals, Obligations
<1>12. RowInv(run', steps')
  BY <1>2, <1>4, <1>6, <1>11 DEF RowInv
<1>13. RunPart'
  <2>1. /\ app' = app /\ notices' \subseteq DOMAIN steps' /\ mail' \in Nat
        /\ mail' + Cardinality(Consumed(steps')) = mail + Cardinality(Consumed(steps))
    BY <1>1, <1>2, <1>8, <1>11
  <2>2. QED
    BY <1>1, <1>6, <1>9, <1>10, <1>12, <2>1, JournalMoves
<1>14. Steady
  <2>1. app' = app
    BY <1>1
  <2>2. run'.journal_revision >= run.journal_revision
    BY <1>4, <1>6
  <2>3. QED
    BY <1>4, <1>6, <2>1, <2>2 DEF Steady
<1>15. \A t \in DOMAIN tasks :
          /\ tasks'[t] \in TaskRecord /\ tasks'[t].job = tasks[t].job
          /\ tasks'[t].journal_revision = tasks[t].journal_revision
          /\ tasks'[t].state = tasks[t].state
  <2> SUFFICES ASSUME NEW t \in DOMAIN tasks
               PROVE  /\ tasks'[t] \in TaskRecord /\ tasks'[t].job = tasks[t].job
                      /\ tasks'[t].journal_revision = tasks[t].journal_revision
                      /\ tasks'[t].state = tasks[t].state
    OBVIOUS
  <2> DEFINE deadline == Elapsed(tasks[t].deadline)
  <2>1. tasks[t] \in TaskRecord /\ tasks[t].deadline \in Nat
    BY TaskFields DEF JobPart
  <2>2. deadline \in Nat
    BY <2>1, ElapsedFacts DEF TimeLeft
  <2>3. tasks'[t] = [tasks[t] EXCEPT !.deadline = deadline]
    BY <1>1
  <2> HIDE DEF deadline
  <2>4. QED
    BY <2>1, <2>2, <2>3 DEF TaskRecord
<1>16. SteadyTasks
  <2>1. Len(tasks) \in Nat /\ DOMAIN tasks = 1..Len(tasks) /\ DOMAIN tasks' = DOMAIN tasks
    <3>1. DOMAIN tasks' = DOMAIN tasks
      BY <1>1
    <3>2. QED
      BY <1>3, <3>1
  <2>2. tasks' = [t \in 1..Len(tasks) |-> tasks'[t]]
    BY <1>1, <2>1
  <2>3. tasks' \in Seq(TaskRecord)
    BY <1>15, <2>1, <2>2
  <2>4. \A t \in DOMAIN tasks : tasks[t].job = Job(run) /\ t # run'.task_id => tasks[t].state = "expired"
    BY <1>6 DEF JobPart, TasksInv
  <2>5. holding' \subseteq DOMAIN tasks
    BY <1>1, <1>3
  <2>6. QED
    BY <1>15, <2>1, <2>3, <2>4, <2>5 DEF SteadyTasks
<1>17. SteadyReceipts
  BY <1>1, <1>3 DEF SteadyReceipts, JobPart, AheadInv
<1>18. SteadyQueue
  <2>1. \A j \in Jobs : intents[j] \in TimeLeft /\ intents'[j] = Elapsed(intents[j])
    BY <1>1, <1>3
  <2>2. \A j \in Jobs : intents'[j] \in TimeLeft /\ (intents'[j] = Null <=> intents[j] = Null)
    BY <2>1, ElapsedFacts
  <2>3. intents' \in [Jobs -> TimeLeft]
    <3>1. intents' = [j \in Jobs |-> intents'[j]]
      BY <1>1
    <3>2. QED
      BY <2>2, <3>1
  <2>4. QED
    BY <1>1, <2>2, <2>3, QueueElapses
<1>19. JobPart'
  BY <1>14, <1>16, <1>17, <1>18, SteadyStep
<1>20. run.state \in Terminal => run' = run
  BY <1>2, <1>5 DEF RowInv
<1>21. HistoryStep /\ VerdictStep /\ UndoStep
  BY <1>1, <1>10, <1>20, Unrewritten
<1>22. QED
  BY <1>13, <1>19, <1>21 DEF Sane

-----------------------------------------------------------------------------
(* The specification.                                                      *)

\* A run starts at its first frontier, published and with nothing journaled.
LEMMA InitEstablishes == Init => RunPart /\ JobPart
<1> SUFFICES ASSUME Init PROVE RunPart /\ JobPart
  OBVIOUS
<1>1. /\ app \in Apps /\ MaxRevision \in Nat /\ MaxGeneration \in Nat /\ 1 <= MaxRevision
      /\ app.faults \in Nat /\ app.commands \in Nat /\ app.signals \in Nat
      /\ app.max_stuck_dispatches \in Nat /\ Null \notin Nat
  BY AppFacts, AppsAssumption DEF Init
<1>2. /\ run \in RunRecord /\ run.state = "queued" /\ run.generation = 0 /\ run.frontier_revision = 1
      /\ run.task_id = Null /\ run.compensation_target = Null /\ run.due_at = 0
  BY <1>1 DEF Init, RunRecord, TimeLeft
<1>3. /\ steps = <<>> /\ steps \in Seq(StepRecord) /\ DOMAIN steps = {}
      /\ tasks = <<>> /\ tasks \in Seq(TaskRecord) /\ DOMAIN tasks = {}
  BY DEF Init
<1>4. /\ Job(run) = <<0, 1>> /\ <<0, 1>> \in Jobs /\ ~Ahead(run, <<0, 1>>)
  BY <1>1, <1>2 DEF Job, Jobs, Ahead
<1>5. /\ receipts \in [Jobs -> {"none", "open"} \cup Decided] /\ \A j \in Jobs : receipts[j] = "none"
      /\ intents \in [Jobs -> TimeLeft] /\ intents[<<0, 1>>] = 0 /\ pending = {<<0, 1>>}
      /\ holding = {}
  BY <1>4 DEF Init, TimeLeft
<1>6. /\ queue \in [Jobs -> QueueRecord]
      /\ \A j \in Jobs : /\ queue[j].state = "absent" /\ queue[j].executions = 0
                         /\ queue[j].task = Null
  <2>1. /\ Absent \in QueueRecord /\ Absent.state = "absent" /\ Absent.executions = 0
        /\ Absent.task = Null
    BY DEF Absent, QueueRecord
  <2>2. QED
    BY <2>1 DEF Init
<1>7. Cardinality({}) = 0
  BY FS_EmptySet
<1>8. RunPart
  <2>1. budget \in [faults : 0..app.faults, commands : 0..app.commands, signals : 0..app.signals]
    BY <1>1 DEF Init
  <2>2. SignalsConserved
    <3>1. {i \in Ordinals(steps, "completed") : steps[i].kind = "signal"} = {}
      BY <1>3 DEF Ordinals
    <3>2. mail = 0 /\ budget.signals = app.signals
      BY DEF Init
    <3>3. QED
      BY <1>1, <1>7, <3>1, <3>2 DEF SignalsConserved
  <2>3. RowInv(run, steps)
    BY <1>2 DEF RowInv, Terminal
  <2>4. mail \in Nat /\ notices \subseteq DOMAIN steps /\ StepsInv
    BY <1>3 DEF Init, StepsInv
  <2>5. QED
    BY <1>1, <1>2, <1>3, <2>1, <2>2, <2>3, <2>4 DEF RunPart
<1>9. JobTypes
  BY <1>3, <1>4, <1>5, <1>6 DEF JobTypes
<1>10. AheadInv
  BY <1>3, <1>4, <1>5, <1>6 DEF AheadInv
<1>11. JobsInv
  <2>1. 0 # Null /\ "none" \notin Decided
    BY <1>1 DEF Decided
  <2>2. QED
    BY <1>4, <1>5, <1>6, <2>1 DEF JobsInv, JournalDecidesFirst
<1>12. TasksInv
  BY <1>2, <1>3 DEF TasksInv, OneCommitPerFrontier
<1>13. CountInv /\ StrikesInv
  <2>1. \A j : TasksOf(j) = {}
    BY <1>3 DEF TasksOf
  <2>2. \A j : Cardinality(TasksOf(j)) = 0
    BY <1>7, <2>1
  <2>3. QED
    BY <1>1, <1>6, <2>2 DEF CountInv, StrikesInv
<1>14. QED
  BY <1>8, <1>9, <1>10, <1>11, <1>12, <1>13 DEF JobPart

\* Every step keeps the invariant, and what was decided.
LEMMA NextPreserves ==
    ASSUME RunPart, JobPart, [Next]_vars
    PROVE  Sane
<1>1. ASSUME NEW j \in Jobs, NEW confirmed \in BOOLEAN, Publish(j, confirmed) PROVE Sane
  BY <1>1, PublishStep
<1>2. ASSUME NEW j \in Jobs, Claim(j) PROVE Sane
  BY <1>2, ClaimStep
<1>3. ASSUME NEW j \in Jobs, Accept(j) PROVE Sane
  BY <1>3, AcceptReplayStep, AcceptStaleStep, AcceptBusyStep, AcceptNotDueStep, AcceptSettlesStep,
     AcceptExecutesStep DEF Accept
<1>4. ASSUME NEW j \in Jobs, AcceptDefers(j) PROVE Sane
  BY <1>4, AcceptDefersStep
<1>5. ASSUME NEW j \in Jobs, Settle(j) PROVE Sane
  BY <1>5, SettleStep
<1>6. ASSUME NEW t \in holding, NEW extended \in BOOLEAN, Heartbeat(t, extended) PROVE Sane
  BY <1>6, HeartbeatStep
<1>7. ASSUME NEW t \in holding, NEW report \in Reports, Report(t, report) PROVE Sane
  BY <1>7, ReportStep
<1>8. ASSUME NEW t \in holding, NEW succeeded \in BOOLEAN, ReportCompensation(t, succeeded) PROVE Sane
  BY <1>8, ReportCompensationStep
<1>9. ASSUME NEW t \in holding, NEW returned \in BOOLEAN, Release(t, returned) PROVE Sane
  BY <1>9, ReleaseStep
<1>10. ASSUME NEW t \in holding, Crash(t) PROVE Sane
  BY <1>10, CrashStep
<1>20. ASSUME NEW t \in holding, Refused(t) PROVE Sane
  BY <1>20, RefusedStep
<1>11. ASSUME NEW op \in app.ops, Transition(op) PROVE Sane
  BY <1>11, TransitionStep
<1>12. ASSUME NEW prefix \in 0..(Len(steps) - 1) \cup {0}, Restart(prefix) PROVE Sane
  BY <1>12, RestartStep
<1>13. CASE Signal
  BY <1>13, SignalStep
<1>14. ASSUME NEW i \in DOMAIN steps, NEW how \in {"completed", "failed"}, ChildEnds(i, how) PROVE Sane
  BY <1>14, ChildEndsStep
<1>15. ASSUME NEW i \in DOMAIN steps, Notify(i) PROVE Sane
  BY <1>15, NotifyStep
<1>16. CASE Tick
  BY <1>16, TickStep
<1>17. CASE Drift
  BY <1>17, DriftStep
<1>18. CASE UNCHANGED vars
  <2>1. UNCHANGED <<app, run, steps, tasks, receipts, intents, pending, queue, holding, mail,
                    notices, budget>>
    BY <1>18 DEF vars
  <2>2. RunPart'
    BY <2>1, RunStands DEF Unspent
  <2>3. JobPart'
    BY <2>1 DEF JobPart, JobTypes, AheadInv, JobsInv, JournalDecidesFirst, TasksInv,
       OneCommitPerFrontier, CountInv, StrikesInv, TasksOf
  <2>4. HistoryStep /\ VerdictStep /\ UndoStep
    BY <2>1, SameSteps, Unrewritten
  <2>5. QED
    BY <2>2, <2>3, <2>4 DEF Sane
<1>19. QED
  BY <1>1, <1>2, <1>3, <1>4, <1>5, <1>6, <1>7, <1>8, <1>9, <1>10, <1>11, <1>12, <1>13, <1>14, <1>15,
     <1>16, <1>17, <1>18, <1>20 DEF Next

-----------------------------------------------------------------------------
(* Theorems.                                                               *)

\* The run, its journal, its jobs and the queue agree in every state that
\* deliveries, losses, crashes and requests lead to.
THEOREM JournalInvariant == Spec => []IInv
<1>1. Init => IInv
  BY InitEstablishes, Halves
<1>2. IInv /\ [Next]_vars => IInv'
  <2> SUFFICES ASSUME IInv, [Next]_vars PROVE IInv'
    OBVIOUS
  <2>1. RunPart /\ JobPart
    BY Halves
  <2>2. RunPart' /\ JobPart'
    BY <2>1, NextPreserves DEF Sane
  <2>3. QED
    BY <2>2, Halves, PTL
<1>3. QED
  BY <1>1, <1>2, PTL DEF Spec

\* A frontier is handed over without loss or repetition: published until it is
\* decided, forgotten by the manager only then, committed at most once
\* (publication::advance, accept_job, validate_live).
THEOREM FrontiersHandedOver == Spec => []FrontierInHand
<1>1. IInv => FrontierInHand
  <2> SUFFICES ASSUME IInv PROVE FrontierInHand
    OBVIOUS
  <2>1. Job(run) \in Jobs /\ RunPart /\ JobPart
    BY Halves, JobFacts DEF RunPart
  <2>2. FrontierPublished
    <3>1. receipts[Job(run)] \notin Decided => queue[Job(run)].state # "settled"
      BY <2>1 DEF JobPart, JobsInv, JournalDecidesFirst
    <3>2. QED
      BY <2>1, <3>1 DEF FrontierPublished, JobPart, JobsInv, TasksInv
  <2>3. QED
    BY <2>2 DEF FrontierInHand, IInv, JobsInv, TasksInv
<1>2. QED
  BY <1>1, JournalInvariant, PTL

\* A run that failed or was cancelled has nothing left to undo (settle, abandon).
THEOREM RollbacksDischarged == Spec => []RollbackDischarged
<1>1. IInv => RollbackDischarged
  BY DEF IInv, RowInv, RollbackDischarged
<1>2. QED
  BY <1>1, JournalInvariant, PTL

\* Every signal sent is in the mailbox or was consumed once in the current
\* generation, whatever is restarted (journal::resolve, restart).
THEOREM NoSignalLost == Spec => []SignalsConserved
<1>1. IInv => SignalsConserved
  BY DEF IInv
<1>2. QED
  BY <1>1, JournalInvariant, PTL

\* The journal's liveness budget is spent before the manager's delivery ceiling
\* (stuck_dispatches, max_delivery_attempts).
THEOREM JournalGivesUpFirst == Spec => []VerdictReachable
<1>1. IInv => VerdictReachable
  <2> DEFINE n == Cardinality(TasksOf(Job(run)))
             e == queue[Job(run)].executions
  <2> SUFFICES ASSUME IInv, run.compensation_target # "cancelled",
                      \A t \in DOMAIN tasks : tasks[t].job = Job(run) =>
                          tasks[t].journal_revision = run.journal_revision,
                      e >= app.max_delivery_attempts
               PROVE  FALSE
    BY DEF VerdictReachable
  <2>1. RunPart /\ JobPart /\ app \in Apps /\ Job(run) \in Jobs
    BY Halves, JobFacts DEF RunPart
  <2>2. /\ app.max_stuck_dispatches \in Nat /\ app.max_delivery_attempts \in Nat
        /\ app.max_stuck_dispatches < app.max_delivery_attempts
    BY <2>1, AppFacts
  <2>3. n <= app.max_stuck_dispatches
    BY <2>1 DEF JobPart, StrikesInv, TasksOf
  <2>4. n \in Nat /\ e \in Nat /\ e + Uncounted(queue[Job(run)]) <= n
    BY <2>1, TasksFinite, RowFields DEF JobPart, CountInv, Uncounted
  <2>5. Uncounted(queue[Job(run)]) \in Nat
    BY DEF Uncounted
  <2> HIDE DEF n, e
  <2>6. QED
    BY <2>2, <2>3, <2>4, <2>5
<1>2. QED
  BY <1>1, JournalInvariant, PTL

\* Operations of a generation, verdicts and receipts are never rewritten, and
\* compensators undo them newest first (save_checkpoint, compensate).
THEOREM HistoryIsKept == Spec => HistoryKept
<1>1. IInv /\ [Next]_vars => [HistoryStep /\ VerdictStep /\ UndoStep]_vars
  BY Halves, NextPreserves DEF Sane
<1>2. Spec => [][HistoryStep /\ VerdictStep /\ UndoStep]_vars
  BY <1>1, JournalInvariant, PTL DEF Spec
<1>3. [][HistoryStep /\ VerdictStep /\ UndoStep]_vars => HistoryKept
  BY PTL DEF HistoryKept, HistoryImmutable, VerdictsStand, UndoneInReverse, HistoryStep, VerdictStep,
     UndoStep
<1>4. QED
  BY <1>2, <1>3, PTL
=============================================================================
