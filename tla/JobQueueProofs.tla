--------------------------- MODULE JobQueueProofs ---------------------------
(***************************************************************************)
(* Invariants of JobQueue for every set of jobs, workers, runs and         *)
(* deployments and every option the queue accepts.                         *)
(***************************************************************************)
EXTENDS JobQueue, FiniteSetTheorems, TLAPS

\* SQL NULL orders before every instant of the clock.
LEMMA NullInstant == NoTime \in Int /\ \A t \in Nat : NoTime < t
  BY DEF NoTime

(* Rows: what each patch of a row yields.                                  *)

\* An inserted row (insert).
LEMMA InsertedRow ==
  ASSUME NEW row \in Rows, NEW n \in Nat PROVE Inserted(row, n) \in Rows
  BY DEF Inserted, Rows

\* A leased row (claim_within).
LEMMA LeasedRow ==
  ASSUME NEW row \in Rows, NEW a \in Nat, NEW w \in Workers, NEW d \in Int,
         NEW t \in Int, NEW n \in Nat
  PROVE Leased(row, a, w, d, t, n) \in Rows
  BY NullInstant DEF Leased, Rows

\* A row whose attempt is counted (counted).
LEMMA ExecutedRow ==
  ASSUME NEW row \in Rows, NEW a \in Nat, NEW n \in Nat PROVE Executed(row, a, n) \in Rows
  BY DEF Executed, Rows

\* Counting an attempt yields a row and changes only the counters (counted).
LEMMA CountedRow ==
  ASSUME NEW row \in Rows, NEW a \in Nat
  PROVE /\ Counted(row, a) \in Rows
        /\ Counted(row, a).executed_attempt = a
        /\ Counted(row, a).execution_attempts =
              IF row.executed_attempt = a THEN row.execution_attempts
                                          ELSE row.execution_attempts + 1
        /\ Counted(row, a).state = row.state
        /\ Counted(row, a).attempt = row.attempt
        /\ Counted(row, a).worker_id = row.worker_id
        /\ Counted(row, a).leased_at = row.leased_at
        /\ Counted(row, a).lease_deadline = row.lease_deadline
        /\ Counted(row, a).dispatch_order = row.dispatch_order
        /\ Counted(row, a).outcome = row.outcome
<1>1. CASE row.executed_attempt = a
  BY <1>1 DEF Counted, Rows
<1>2. CASE row.executed_attempt # a
  <2>1. row.execution_attempts + 1 \in Nat
    BY DEF Rows
  <2>2. Executed(row, a, row.execution_attempts + 1) \in Rows
    BY <2>1, ExecutedRow
  <2> QED
    BY <1>2, <2>2 DEF Counted, Executed, Rows
<1> QED
  BY <1>1, <1>2

\* A renewed row (renewal).
LEMMA RenewedRow ==
  ASSUME NEW row \in Rows, NEW d \in Int PROVE Renewed(row, d) \in Rows
  BY DEF Renewed, Rows

\* A settled row (settle_authorized, abandon).
LEMMA SettledRow ==
  ASSUME NEW row \in Rows, NEW o \in Outcomes, NEW d \in Digests
  PROVE Settled(row, o, d) \in Rows
  BY DEF Settled, Rows

\* A returned row (interrupted, give_back_within).
LEMMA ReturnedRow == ASSUME NEW row \in Rows PROVE Returned(row) \in Rows
  BY NullInstant DEF Returned, Rows

\* A deferred row (deferral).
LEMMA DeferredRow ==
  ASSUME NEW row \in Rows, NEW until \in Int, NEW n \in Nat
  PROVE Deferred(row, until, n) \in Rows
  BY DEF Deferred, Rows

\* The back-off is a length of time, whatever the count (deferral).
LEMMA BackoffLength == ASSUME NEW n PROVE BackoffDelay(n) \in Nat
  BY OptionsAssumption DEF BackoffDelay

\* What every give-back has in common: the row is ready, held by nobody, and
\* keeps its attempt and its place; only an interrupted attempt is counted.
GiveBackEffect(row, a, back) ==
    /\ back \in Rows
    /\ back.state = "ready"
    /\ back.attempt = row.attempt
    /\ back.dispatch_order = row.dispatch_order
    /\ \/ /\ back.execution_attempts = row.execution_attempts
          /\ back.executed_attempt = row.executed_attempt
       \/ /\ back.execution_attempts = Counted(row, a).execution_attempts
          /\ back.executed_attempt = a

\* A deferral has the effect of a give-back (deferral).
LEMMA DeferralEffect ==
  ASSUME NEW row \in Rows, NEW a \in Nat, NEW until \in Int, NEW n \in Nat, now \in Nat
  PROVE GiveBackEffect(row, a, Deferral(row, until, n))
<1> DEFINE u == IF until > now THEN until ELSE NoTime
<1>1. u \in Int
  BY NullInstant
<1> HIDE DEF u
<1>2. Deferral(row, until, n) = Deferred(Returned(row), u, n)
  BY DEF Deferral, u
<1>3. Returned(row) \in Rows
  BY ReturnedRow
<1>4. Deferred(Returned(row), u, n) \in Rows
  BY <1>1, <1>3, DeferredRow
<1> QED
  BY <1>1, <1>2, <1>4 DEF GiveBackEffect, Deferred, Returned, Rows

\* Every kind of give-back has that effect (give_back_within).
LEMMA GivenBackRow ==
  ASSUME NEW row \in Rows, NEW a \in Nat, NEW defer \in GiveBacks, now \in Nat
  PROVE GiveBackEffect(row, a, GivenBack(row, a, defer))
<1>0. /\ defer.kind \in {"interrupted", "unsent", "exact", "after", "backoff"}
      /\ defer.at \in Nat
  <2>1. CASE defer \in [kind : {"interrupted", "unsent", "backoff"}, at : {0}]
    BY <2>1
  <2>2. CASE defer \in [kind : {"exact"}, at : Instants]
    BY <2>2, JobQueueAssumption
  <2>3. CASE defer \in [kind : {"after"}, at : Pauses]
    BY <2>3, JobQueueAssumption
  <2> QED
    BY <2>1, <2>2, <2>3 DEF GiveBacks
<1>1. CASE defer.kind = "interrupted"
  <2>1. GivenBack(row, a, defer) = Returned(Counted(row, a))
    BY <1>1 DEF GivenBack
  <2>2. Returned(Counted(row, a)) \in Rows
    BY CountedRow, ReturnedRow
  <2> QED
    BY <2>1, <2>2, CountedRow DEF GiveBackEffect, Returned, Rows
<1>2. CASE defer.kind = "unsent"
  <2>1. GivenBack(row, a, defer) = Returned(row)
    BY <1>2 DEF GivenBack
  <2> QED
    BY <2>1, ReturnedRow DEF GiveBackEffect, Returned, Rows
<1>3. CASE defer.kind = "exact"
  <2>1. GivenBack(row, a, defer) = Deferral(row, defer.at, row.deferrals)
    BY <1>3 DEF GivenBack
  <2>2. row.deferrals \in Nat
    BY DEF Rows
  <2> QED
    BY <1>0, <2>1, <2>2, DeferralEffect
<1>4. CASE defer.kind = "after"
  <2>1. GivenBack(row, a, defer) = Deferral(row, now + defer.at, row.deferrals)
    BY <1>4 DEF GivenBack
  <2>2. row.deferrals \in Nat /\ now + defer.at \in Int
    BY <1>0 DEF Rows
  <2> QED
    BY <2>1, <2>2, DeferralEffect
<1>5. CASE defer.kind = "backoff"
  <2>1. GivenBack(row, a, defer)
          = Deferral(row, now + BackoffDelay(row.deferrals), row.deferrals + 1)
    BY <1>5 DEF GivenBack
  <2>2. row.deferrals + 1 \in Nat /\ now + BackoffDelay(row.deferrals) \in Int
    BY BackoffLength DEF Rows
  <2> QED
    BY <2>1, <2>2, DeferralEffect
<1> QED
  BY <1>0, <1>1, <1>2, <1>3, <1>4, <1>5

-----------------------------------------------------------------------------
(* Type correctness.                                                       *)

\* The tables start well typed.
LEMMA TypeInit == Init => TypeOK
  BY NullInstant DEF Init, TypeOK, Rows, AbsentRow, Digests, NoDigest

\* Every operation of the queue preserves the types of its tables.
LEMMA TypeNext == TypeOK /\ [Next]_vars => TypeOK'
<1> SUFFICES ASSUME TypeOK, [Next]_vars PROVE TypeOK'
  OBVIOUS
<1> USE DEF TypeOK
<1>0. ASSUME NEW j \in Jobs, Insert(j)
      PROVE jobs' \in [Jobs -> Rows] /\ dispatch_cursor' \in Nat
  <2>1. dispatch_cursor + 1 \in Nat
    OBVIOUS
  <2>2. Inserted(jobs[j], dispatch_cursor + 1) \in Rows
    BY <2>1, InsertedRow
  <2> QED
    BY <1>0, <2>1, <2>2 DEF Insert
<1>1. ASSUME NEW j \in Jobs, Submit(j) PROVE TypeOK'
  BY <1>0, <1>1 DEF Submit
<1>2. ASSUME NEW c \in Jobs, Manage(c) PROVE TypeOK'
  <2>1. RunOf[c] \in Runs
    BY <1>2, JobQueueAssumption DEF Manage
  <2>2. jobs' \in [Jobs -> Rows] /\ dispatch_cursor' \in Nat
    BY <1>0, <1>2 DEF Manage
  <2>3. commands' \in [Jobs -> [revision : Nat, outcome : Outcomes \cup {NoOutcome}]]
    BY <1>2, <2>1 DEF Manage
  <2>4. orders' \in [Runs -> [accepted : Nat, settled : Nat]]
    BY <1>2, <2>1 DEF Manage
  <2> QED
    BY <1>2, <2>2, <2>3, <2>4 DEF Manage
<1>3. ASSUME NEW w \in Workers, NEW j \in Jobs, NEW ceiling, NEW cap,
             NEW delivered \in BOOLEAN, ClaimWithin(w, j, ceiling, cap, delivered)
      PROVE TypeOK'
  <2>1. Deadline(now) \in Int
    BY OptionsAssumption DEF Deadline
  <2>a. jobs[j].attempt + 1 \in Nat /\ dispatch_cursor + 1 \in Nat
    BY DEF Rows
  <2>b. Leased(jobs[j], jobs[j].attempt + 1, w, Deadline(now), now, dispatch_cursor + 1) \in Rows
    BY <2>1, <2>a, LeasedRow
  <2>2. jobs' \in [Jobs -> Rows]
    BY <1>3, <2>b DEF ClaimWithin
  <2>3. executing' \subseteq Deliveries
    BY <1>3, <2>1, <2>a DEF ClaimWithin, Deliveries
  <2> QED
    BY <1>3, <2>2, <2>3 DEF ClaimWithin
<1>4. ASSUME NEW w \in Workers, NEW j \in Jobs, NEW a \in Nat,
             NEW delivered \in BOOLEAN, Heartbeat(w, j, a, delivered)
      PROVE TypeOK'
  <2>1. Deadline(jobs[j].leased_at) \in Int
    BY OptionsAssumption DEF Deadline, Rows
  <2>a. Renewed(Counted(jobs[j], a), Deadline(jobs[j].leased_at)) \in Rows
    BY <2>1, CountedRow, RenewedRow
  <2>2. jobs' \in [Jobs -> Rows]
    BY <1>4, <2>a DEF Heartbeat
  <2>3. executing' \subseteq Deliveries
    BY <1>4, <2>1 DEF Heartbeat, Deliveries
  <2> QED
    BY <1>4, <2>2, <2>3 DEF Heartbeat
<1>5. ASSUME NEW w \in Workers, NEW j \in Jobs, NEW a \in Nat, NEW o \in Outcomes,
             NEW delivered \in BOOLEAN, Settle(w, j, a, o, delivered)
      PROVE TypeOK'
  <2>a. [worker |-> w, attempt |-> a, outcome |-> o] \in Digests
    BY DEF Digests
  <2>1. jobs' \in [Jobs -> Rows]
    BY <1>5, <2>a, SettledRow DEF Settle
  <2>2. /\ commands' \in [Jobs -> [revision : Nat, outcome : Outcomes \cup {NoOutcome}]]
        /\ orders' \in [Runs -> [accepted : Nat, settled : Nat]]
    <3>1. CASE OperationKind[j] = "management"
      <4>1. RunOf[j] \in Runs /\ commands[j].revision \in Nat
        BY <3>1, JobQueueAssumption
      <4>2. /\ commands' = [commands EXCEPT ![j] = [@ EXCEPT !.outcome = o]]
            /\ orders' = [orders EXCEPT ![RunOf[j]] =
                             [@ EXCEPT !.settled = commands[j].revision]]
        BY <1>5, <3>1 DEF Settle
      <4>3. commands' \in [Jobs -> [revision : Nat, outcome : Outcomes \cup {NoOutcome}]]
        BY <4>2
      <4>4. orders' \in [Runs -> [accepted : Nat, settled : Nat]]
        BY <4>1, <4>2
      <4> QED
        BY <4>3, <4>4
    <3>2. CASE OperationKind[j] # "management"
      BY <1>5, <3>2 DEF Settle
    <3> QED
      BY <3>1, <3>2
  <2>3. executing' \subseteq Deliveries
    BY <1>5 DEF Settle
  <2>4. receipts' \subseteq [job : Jobs, worker : Workers, attempt : Nat, outcome : Outcomes]
    BY <1>5 DEF Settle, Receipt
  <2> QED
    BY <1>5, <2>1, <2>2, <2>3, <2>4 DEF Settle
<1>6. ASSUME NEW w \in Workers, NEW j \in Jobs, NEW a \in Nat, NEW o \in Outcomes,
             SettleReplay(w, j, a, o)
      PROVE TypeOK'
  BY <1>6 DEF SettleReplay, Receipt
<1>7. ASSUME NEW w \in Workers, NEW j \in Jobs, NEW a \in Nat, NEW defer \in GiveBacks,
             GiveBack(w, j, a, defer)
      PROVE TypeOK'
  <2>1. jobs' \in [Jobs -> Rows]
    BY <1>7, GivenBackRow DEF GiveBack, GiveBackEffect
  <2> QED
    BY <1>7, <2>1 DEF GiveBack
<1>8. ASSUME Abandon PROVE TypeOK'
  <2>1. jobs' \in [Jobs -> Rows]
    <3>1. \A j \in Jobs : jobs[j].settlement_digest \in Digests
      BY DEF Rows
    <3>2. \A j \in Jobs : Settled(jobs[j], "rejected", jobs[j].settlement_digest) \in Rows
      BY <3>1, SettledRow DEF Outcomes
    <3> QED
      BY <1>8, <3>2 DEF Abandon
  <2> QED
    BY <1>8, <2>1 DEF Abandon
<1>9. ASSUME NEW d \in Deployments, EnsureDeployment(d) \/ ReleaseDeployment(d)
      PROVE TypeOK'
  BY <1>9 DEF EnsureDeployment, ReleaseDeployment
<1>10. ASSUME NEW w \in Workers, Revoke(w) PROVE TypeOK'
  BY <1>10 DEF Revoke
<1>11. ASSUME Tick PROVE TypeOK'
  BY <1>11 DEF Tick
<1>12. ASSUME NEW j \in Jobs PROVE Attempts(j) \subseteq Nat
  BY DEF Attempts
<1>13. CASE UNCHANGED vars
  BY <1>13 DEF vars
<1> QED
  BY <1>1, <1>2, <1>3, <1>4, <1>5, <1>6, <1>7, <1>8, <1>9, <1>10, <1>11, <1>12, <1>13
     DEF Next, WorkerStep

\* In every reachable state the tables are well typed.
THEOREM TypeCorrect == Spec => []TypeOK
  BY TypeInit, TypeNext, PTL DEF Spec

-----------------------------------------------------------------------------
(* The inductive invariant.                                                *)

\* A lease ends within one lease of now and within its attempt, so a renewal
\* never shortens it.
LeaseInv ==
    \A j \in Jobs : jobs[j].state = "leased" =>
        /\ jobs[j].lease_deadline <= now + Lease
        /\ jobs[j].lease_deadline <= jobs[j].leased_at + MaxAttempt

\* An attempt still to be counted has room in the budget.
BudgetInv ==
    \A j \in Jobs :
        /\ jobs[j].executed_attempt <= jobs[j].attempt
        /\ jobs[j].execution_attempts <= MaxDeliveryAttempts
        /\ (jobs[j].state = "leased" /\ jobs[j].executed_attempt # jobs[j].attempt)
              => jobs[j].execution_attempts < MaxDeliveryAttempts

\* A worker that believes its lease holds the latest attempt of a row that is
\* leased for at least as long as it believes, or settled.
BeliefInv ==
    \A e \in executing :
        /\ jobs[e.job].worker_id = e.worker
        /\ jobs[e.job].attempt = e.attempt
        /\ e.deadline > now
        /\ \/ jobs[e.job].state = "leased" /\ e.deadline <= jobs[e.job].lease_deadline
           \/ jobs[e.job].state = "settled"

QueueInv ==
    /\ TypeOK
    /\ LeaseInv
    /\ BudgetInv
    /\ BeliefInv
    /\ ReceiptsHold
    /\ DispatchOrdersUnique
    /\ HoldsCoverWork

\* The invariant holds of the empty queue.
LEMMA QueueInvInit == Init => QueueInv
<1> SUFFICES ASSUME Init PROVE QueueInv
  OBVIOUS
<1>1. TypeOK
  BY TypeInit
<1>2. \A j \in Jobs : /\ jobs[j].state = "absent"
                      /\ jobs[j].attempt = 0 /\ jobs[j].execution_attempts = 0
                      /\ jobs[j].executed_attempt = 0
  BY DEF Init, AbsentRow
<1> QED
  BY <1>1, <1>2, JobQueueAssumption
     DEF Init, QueueInv, LeaseInv, BudgetInv, BeliefInv, ReceiptsHold,
         DispatchOrdersUnique, HoldsCoverWork, Unsettled

\* Inserting a row at the tail disturbs no other row (insert).
LEMMA InsertStep ==
  ASSUME QueueInv, NEW j \in Jobs, Insert(j), TypeOK',
         UNCHANGED <<now, held, executing, receipts>>
  PROVE QueueInv'
<1> USE DEF QueueInv, TypeOK
<1>1. /\ jobs[j].state = "absent" /\ jobs'[j].state = "ready"
      /\ jobs'[j].attempt = jobs[j].attempt
      /\ jobs'[j].executed_attempt = jobs[j].executed_attempt
      /\ jobs'[j].execution_attempts = jobs[j].execution_attempts
      /\ jobs'[j].dispatch_order = dispatch_cursor + 1
      /\ dispatch_cursor' = dispatch_cursor + 1
      /\ \A k \in Jobs : k # j => jobs'[k] = jobs[k]
  BY DEF Insert, Inserted, Rows
<1>2. LeaseInv'
  BY <1>1 DEF LeaseInv
<1>3. BudgetInv'
  BY <1>1 DEF BudgetInv
<1>4. BeliefInv'
  BY <1>1 DEF BeliefInv, Deliveries
<1>5. ReceiptsHold'
  BY <1>1 DEF ReceiptsHold
<1>6. DispatchOrdersUnique'
  BY <1>1 DEF DispatchOrdersUnique, Rows
<1>7. HoldsCoverWork'
  BY <1>1 DEF HoldsCoverWork, Unsettled, RequireHeld, Insert
<1> QED
  BY <1>2, <1>3, <1>4, <1>5, <1>6, <1>7

\* A claim takes a row nobody still believes in (claim_within).
LEMMA ClaimStep ==
  ASSUME QueueInv, NEW w \in Workers, NEW j \in Jobs, NEW ceiling \in 1..MaxDeliveryAttempts,
         NEW cap, NEW delivered \in BOOLEAN, ClaimWithin(w, j, ceiling, cap, delivered),
         TypeOK'
  PROVE QueueInv'
<1> USE DEF QueueInv, TypeOK
<1>1. /\ jobs'[j].state = "leased" /\ jobs'[j].attempt = jobs[j].attempt + 1
      /\ jobs'[j].worker_id = w /\ jobs'[j].lease_deadline = Deadline(now)
      /\ jobs'[j].leased_at = now /\ jobs'[j].dispatch_order = dispatch_cursor + 1
      /\ jobs'[j].executed_attempt = jobs[j].executed_attempt
      /\ jobs'[j].execution_attempts = jobs[j].execution_attempts
      /\ dispatch_cursor' = dispatch_cursor + 1
      /\ UNCHANGED <<now, held, receipts>>
      /\ \A k \in Jobs : k # j => jobs'[k] = jobs[k]
  BY DEF ClaimWithin, Leased, Rows
<1>2. /\ jobs[j].state \in {"ready", "leased"}
      /\ jobs[j].state = "leased" => jobs[j].lease_deadline <= now
      /\ jobs[j].execution_attempts < ceiling
  BY DEF ClaimWithin, Candidate, Candidates, ClaimableRow
<1>3. /\ Deadline(now) \in Int /\ Deadline(now) > now
      /\ Deadline(now) <= now + Lease /\ Deadline(now) <= now + MaxAttempt
  BY OptionsAssumption DEF Deadline
<1>4. \A e \in executing : e.job # j
  BY <1>2 DEF BeliefInv, Deliveries, Rows
<1>5. executing' \subseteq executing \cup
        {[job |-> j, worker |-> w, attempt |-> jobs[j].attempt + 1, deadline |-> Deadline(now)]}
  BY DEF ClaimWithin
<1>6. LeaseInv'
  BY <1>1, <1>3 DEF LeaseInv
<1>7. BudgetInv'
  BY <1>1, <1>2, JobQueueAssumption DEF BudgetInv, Rows
<1>8. BeliefInv'
  BY <1>1, <1>3, <1>4, <1>5 DEF BeliefInv, Deliveries
<1>9. ReceiptsHold'
  BY <1>1, <1>2 DEF ReceiptsHold
<1>10. DispatchOrdersUnique'
  BY <1>1, <1>2 DEF DispatchOrdersUnique, Rows
<1>11. HoldsCoverWork'
  BY <1>1, <1>2 DEF HoldsCoverWork, Unsettled, RequireHeld
<1> QED
  BY <1>6, <1>7, <1>8, <1>9, <1>10, <1>11

\* A renewal lengthens the lease of the latest attempt (heartbeat_authorized).
LEMMA HeartbeatStep ==
  ASSUME QueueInv, NEW w \in Workers, NEW j \in Jobs, NEW a \in Nat,
         NEW delivered \in BOOLEAN, Heartbeat(w, j, a, delivered), TypeOK'
  PROVE QueueInv'
<1> USE DEF QueueInv, TypeOK
<1> DEFINE d == Deadline(jobs[j].leased_at)
<1>0. Counted(jobs[j], a) \in Rows
  BY CountedRow
<1>1. /\ jobs[j].state = "leased" /\ jobs[j].attempt = a /\ jobs[j].worker_id = w
      /\ jobs[j].lease_deadline > now
      /\ d > now
      /\ UNCHANGED <<now, held, receipts, dispatch_cursor>>
  BY DEF Heartbeat, MatchesDelivery, Live
<1>2. /\ jobs' = [jobs EXCEPT ![j] = Renewed(Counted(jobs[j], a), d)]
      /\ executing' \subseteq
            executing \cup {[job |-> j, worker |-> w, attempt |-> a, deadline |-> d]}
  BY DEF Heartbeat, Held
<1>3. /\ d \in Int /\ d <= now + Lease /\ d <= jobs[j].leased_at + MaxAttempt
      /\ jobs[j].lease_deadline <= d
  BY <1>1, OptionsAssumption DEF Deadline, LeaseInv, Rows
<1> HIDE DEF d
<1>4. /\ jobs'[j].state = "leased" /\ jobs'[j].attempt = a /\ jobs'[j].worker_id = w
      /\ jobs'[j].lease_deadline = d /\ jobs'[j].leased_at = jobs[j].leased_at
      /\ jobs'[j].dispatch_order = jobs[j].dispatch_order
      /\ jobs'[j].executed_attempt = a
      /\ jobs'[j].execution_attempts = Counted(jobs[j], a).execution_attempts
      /\ \A k \in Jobs : k # j => jobs'[k] = jobs[k]
  BY <1>0, <1>1, <1>2, CountedRow DEF Renewed, Rows
<1>5. /\ jobs'[j].execution_attempts \in Nat
      /\ jobs'[j].execution_attempts <= MaxDeliveryAttempts
  <2>1. /\ jobs[j].execution_attempts \in Nat /\ MaxDeliveryAttempts \in Nat
        /\ jobs[j].execution_attempts <= MaxDeliveryAttempts
        /\ jobs[j].executed_attempt # a =>
              jobs[j].execution_attempts < MaxDeliveryAttempts
    BY <1>1, JobQueueAssumption DEF BudgetInv, Rows
  <2>2. jobs'[j].execution_attempts =
          IF jobs[j].executed_attempt = a THEN jobs[j].execution_attempts
                                          ELSE jobs[j].execution_attempts + 1
    BY <1>4, CountedRow
  <2> QED
    BY <2>1, <2>2
<1>6. LeaseInv'
  BY <1>1, <1>3, <1>4 DEF LeaseInv
<1>7. BudgetInv'
  BY <1>4, <1>5 DEF BudgetInv
<1>8. BeliefInv'
  BY <1>1, <1>2, <1>3, <1>4 DEF BeliefInv, Deliveries, Rows
<1>9. ReceiptsHold'
  BY <1>1, <1>4 DEF ReceiptsHold
<1>10. DispatchOrdersUnique'
  BY <1>1, <1>4 DEF DispatchOrdersUnique
<1>11. HoldsCoverWork'
  BY <1>1, <1>4 DEF HoldsCoverWork, Unsettled, RequireHeld
<1> QED
  BY <1>6, <1>7, <1>8, <1>9, <1>10, <1>11

\* A settlement ends the belief of its own holder only (settle_authorized).
LEMMA SettleStep ==
  ASSUME QueueInv, NEW w \in Workers, NEW j \in Jobs, NEW a \in Nat, NEW o \in Outcomes,
         NEW delivered \in BOOLEAN, Settle(w, j, a, o, delivered), TypeOK'
  PROVE QueueInv'
<1> USE DEF QueueInv, TypeOK
<1>1. /\ jobs[j].state = "leased" /\ jobs[j].attempt = a /\ jobs[j].worker_id = w
      /\ UNCHANGED <<now, held, dispatch_cursor>>
  BY DEF Settle, MatchesDelivery, Live
<1>2. /\ jobs'[j].state = "settled" /\ jobs'[j].attempt = a /\ jobs'[j].worker_id = w
      /\ jobs'[j].outcome = o
      /\ jobs'[j].dispatch_order = jobs[j].dispatch_order
      /\ jobs'[j].executed_attempt = jobs[j].executed_attempt
      /\ jobs'[j].execution_attempts = jobs[j].execution_attempts
      /\ \A k \in Jobs : k # j => jobs'[k] = jobs[k]
  BY <1>1 DEF Settle, Settled, Rows
<1>3. executing' \subseteq executing
  BY DEF Settle
<1>4. receipts' \subseteq receipts \cup {Receipt(j, w, a, o)}
  BY DEF Settle
<1>5. LeaseInv'
  BY <1>1, <1>2 DEF LeaseInv
<1>6. BudgetInv'
  BY <1>1, <1>2 DEF BudgetInv
<1>7. BeliefInv'
  BY <1>1, <1>2, <1>3 DEF BeliefInv, Deliveries
<1>8. ReceiptsHold'
  <2>1. \A r \in receipts : r.job \in Jobs /\ jobs'[r.job] = jobs[r.job]
    BY <1>1, <1>2 DEF ReceiptsHold
  <2>2. \A r \in receipts' \ receipts :
           r.job = j /\ r.worker = w /\ r.attempt = a /\ r.outcome = o
    BY <1>4 DEF Receipt
  <2> QED
    BY <1>2, <2>1, <2>2 DEF ReceiptsHold
<1>9. DispatchOrdersUnique'
  BY <1>1, <1>2 DEF DispatchOrdersUnique
<1>10. HoldsCoverWork'
  BY <1>1, <1>2 DEF HoldsCoverWork, Unsettled, RequireHeld
<1> QED
  BY <1>5, <1>6, <1>7, <1>8, <1>9, <1>10

\* A give-back takes the row from a holder that stopped (give_back_within).
LEMMA GiveBackStep ==
  ASSUME QueueInv, NEW w \in Workers, NEW j \in Jobs, NEW a \in Nat, NEW defer \in GiveBacks,
         GiveBack(w, j, a, defer), TypeOK'
  PROVE QueueInv'
<1> USE DEF QueueInv, TypeOK
<1>1. /\ jobs[j].state = "leased" /\ jobs[j].attempt = a /\ jobs[j].worker_id = w
      /\ UNCHANGED <<now, held, receipts, dispatch_cursor>>
  BY DEF GiveBack, MatchesDelivery, Live
<1>2. GiveBackEffect(jobs[j], a, jobs'[j]) /\ \A k \in Jobs : k # j => jobs'[k] = jobs[k]
  BY GivenBackRow DEF GiveBack
<1>3. /\ jobs'[j].state = "ready" /\ jobs'[j].attempt = jobs[j].attempt
      /\ jobs'[j].dispatch_order = jobs[j].dispatch_order
  BY <1>2 DEF GiveBackEffect
<1>4. \A e \in executing' : e \in executing /\ e.job # j
  BY <1>1 DEF GiveBack, Held, BeliefInv, Deliveries
<1>5. LeaseInv'
  BY <1>1, <1>2, <1>3 DEF LeaseInv
<1>6. BudgetInv'
  <2>1. /\ jobs[j].execution_attempts \in Nat /\ MaxDeliveryAttempts \in Nat
        /\ jobs[j].execution_attempts <= MaxDeliveryAttempts
        /\ jobs[j].executed_attempt <= a
        /\ jobs[j].executed_attempt # a =>
              jobs[j].execution_attempts < MaxDeliveryAttempts
    BY <1>1, JobQueueAssumption DEF BudgetInv, Rows
  <2>2. Counted(jobs[j], a).execution_attempts =
          IF jobs[j].executed_attempt = a THEN jobs[j].execution_attempts
                                          ELSE jobs[j].execution_attempts + 1
    BY CountedRow
  <2>3. /\ jobs'[j].execution_attempts <= MaxDeliveryAttempts
        /\ jobs'[j].executed_attempt <= a
    BY <1>2, <2>1, <2>2 DEF GiveBackEffect
  <2> QED
    BY <1>1, <1>2, <1>3, <2>3 DEF BudgetInv
<1>7. BeliefInv'
  BY <1>1, <1>2, <1>4 DEF BeliefInv, Deliveries
<1>8. ReceiptsHold'
  BY <1>1, <1>2 DEF ReceiptsHold
<1>9. DispatchOrdersUnique'
  BY <1>1, <1>2, <1>3 DEF DispatchOrdersUnique
<1>10. HoldsCoverWork'
  BY <1>1, <1>2 DEF HoldsCoverWork, Unsettled, RequireHeld
<1> QED
  BY <1>5, <1>6, <1>7, <1>8, <1>9, <1>10

\* Abandonment settles rows under their holders (recovery::abandon).
LEMMA AbandonStep == ASSUME QueueInv, Abandon, TypeOK' PROVE QueueInv'
<1> USE DEF QueueInv, TypeOK
<1>0. UNCHANGED <<now, held, receipts, dispatch_cursor, executing>>
  BY DEF Abandon
<1>1. \A j \in Jobs :
         \/ jobs'[j] = jobs[j]
         \/ /\ jobs[j].state \in {"ready", "leased"} /\ jobs'[j].state = "settled"
            /\ jobs'[j].attempt = jobs[j].attempt
            /\ jobs'[j].worker_id = jobs[j].worker_id
            /\ jobs'[j].dispatch_order = jobs[j].dispatch_order
            /\ jobs'[j].executed_attempt = jobs[j].executed_attempt
            /\ jobs'[j].execution_attempts = jobs[j].execution_attempts
  <2> SUFFICES ASSUME NEW j \in Jobs, jobs'[j] # jobs[j]
               PROVE  /\ jobs[j].state \in {"ready", "leased"} /\ jobs'[j].state = "settled"
                      /\ jobs'[j].attempt = jobs[j].attempt
                      /\ jobs'[j].worker_id = jobs[j].worker_id
                      /\ jobs'[j].dispatch_order = jobs[j].dispatch_order
                      /\ jobs'[j].executed_attempt = jobs[j].executed_attempt
                      /\ jobs'[j].execution_attempts = jobs[j].execution_attempts
    OBVIOUS
  <2>1. /\ Unsettled(j)
        /\ jobs'[j] = Settled(jobs[j], "rejected", jobs[j].settlement_digest)
    BY DEF Abandon
  <2>2. jobs[j] \in Rows
    OBVIOUS
  <2> QED
    BY ONLY <2>1, <2>2 DEF Settled, Unsettled, Rows
<1>2. LeaseInv'
  BY <1>0, <1>1 DEF LeaseInv
<1>3. BudgetInv'
  BY <1>0, <1>1 DEF BudgetInv
<1>4. BeliefInv'
  BY <1>0, <1>1 DEF BeliefInv, Deliveries
<1>5. ReceiptsHold'
  BY <1>0, <1>1 DEF ReceiptsHold
<1>6. DispatchOrdersUnique'
  BY <1>0, <1>1 DEF DispatchOrdersUnique
<1>7. HoldsCoverWork'
  BY <1>0, <1>1 DEF HoldsCoverWork, Unsettled, RequireHeld
<1> QED
  BY <1>2, <1>3, <1>4, <1>5, <1>6, <1>7

\* Every step of the queue preserves the invariant.
LEMMA QueueInvNext == QueueInv /\ [Next]_vars => QueueInv'
<1> SUFFICES ASSUME QueueInv, [Next]_vars PROVE QueueInv'
  OBVIOUS
<1>0. TypeOK'
  BY TypeNext DEF QueueInv
<1>1. ASSUME NEW j \in Jobs, Submit(j) PROVE QueueInv'
  BY <1>0, <1>1, InsertStep DEF Submit
<1>2. ASSUME NEW c \in Jobs, Manage(c) PROVE QueueInv'
  BY <1>0, <1>2, InsertStep DEF Manage
<1>3. ASSUME NEW w \in Workers, NEW j \in Jobs, WorkerStep(w, j) PROVE QueueInv'
  <2>0. Attempts(j) \subseteq Nat
    BY DEF Attempts, QueueInv, TypeOK, Rows
  <2>1. ASSUME NEW ceiling \in 1..MaxDeliveryAttempts, NEW cap \in 1..MaxRunning,
               NEW delivered \in BOOLEAN, ClaimWithin(w, j, ceiling, cap, delivered)
        PROVE QueueInv'
    BY <1>0, <2>1, ClaimStep
  <2>2. ASSUME NEW a \in Attempts(j), NEW delivered \in BOOLEAN,
               Heartbeat(w, j, a, delivered)
        PROVE QueueInv'
    BY <1>0, <2>0, <2>2, HeartbeatStep
  <2>3. ASSUME NEW a \in Attempts(j), NEW o \in Outcomes, NEW delivered \in BOOLEAN,
               Settle(w, j, a, o, delivered)
        PROVE QueueInv'
    BY <1>0, <2>0, <2>3, SettleStep
  <2>4. ASSUME NEW a \in Attempts(j), NEW o \in Outcomes, SettleReplay(w, j, a, o)
        PROVE QueueInv'
    BY <1>0, <2>4
       DEF SettleReplay, Receipt, MatchesDelivery, QueueInv, LeaseInv, BudgetInv, BeliefInv,
           ReceiptsHold, DispatchOrdersUnique, HoldsCoverWork, Unsettled, RequireHeld
  <2>5. ASSUME NEW a \in Attempts(j), NEW defer \in GiveBacks, GiveBack(w, j, a, defer)
        PROVE QueueInv'
    BY <1>0, <2>0, <2>5, GiveBackStep
  <2> QED
    BY <1>3, <2>1, <2>2, <2>3, <2>4, <2>5 DEF WorkerStep
<1>4. ASSUME NEW d \in Deployments, EnsureDeployment(d) \/ ReleaseDeployment(d)
      PROVE QueueInv'
  <2>1. UNCHANGED <<now, jobs, dispatch_cursor, executing, receipts>>
    BY <1>4 DEF EnsureDeployment, ReleaseDeployment
  <2>2. HoldsCoverWork'
    BY <1>4 DEF EnsureDeployment, ReleaseDeployment, Unused, QueueInv, HoldsCoverWork,
                Unsettled, RequireHeld
  <2> QED
    BY <1>0, <2>1, <2>2
       DEF QueueInv, LeaseInv, BudgetInv, BeliefInv, ReceiptsHold, DispatchOrdersUnique
<1>5. ASSUME NEW w \in Workers, Revoke(w) PROVE QueueInv'
  BY <1>0, <1>5
     DEF Revoke, QueueInv, LeaseInv, BudgetInv, BeliefInv, ReceiptsHold,
         DispatchOrdersUnique, HoldsCoverWork, Unsettled, RequireHeld
<1>6. ASSUME Tick PROVE QueueInv'
  <2>1. /\ now \in Nat /\ now' = now + 1
        /\ UNCHANGED <<jobs, dispatch_cursor, held, receipts>>
        /\ \A e \in executing' : e \in executing /\ e.deadline > now'
    BY <1>6 DEF Tick, QueueInv, TypeOK
  <2>2. LeaseInv'
    BY <2>1, OptionsAssumption DEF QueueInv, LeaseInv, TypeOK, Rows
  <2>3. BeliefInv'
    BY <2>1 DEF QueueInv, BeliefInv
  <2> QED
    BY <1>0, <2>1, <2>2, <2>3
       DEF QueueInv, BudgetInv, ReceiptsHold, DispatchOrdersUnique, HoldsCoverWork,
           Unsettled, RequireHeld
<1>7. CASE UNCHANGED vars
  BY <1>0, <1>7
     DEF vars, QueueInv, LeaseInv, BudgetInv, BeliefInv, ReceiptsHold,
         DispatchOrdersUnique, HoldsCoverWork, Unsettled, RequireHeld
<1>8. ASSUME Abandon PROVE QueueInv'
  BY <1>0, <1>8, AbandonStep
<1> QED
  BY <1>1, <1>2, <1>3, <1>4, <1>5, <1>6, <1>7, <1>8 DEF Next

\* The inductive invariant holds in every reachable state.
THEOREM QueueInvariant == Spec => []QueueInv
  BY QueueInvInit, QueueInvNext, PTL DEF Spec

\* No two deliveries of one job are ever executing at once.
THEOREM Exclusive == Spec => []ExclusiveExecution
<1>1. QueueInv => ExclusiveExecution
  BY DEF QueueInv, BeliefInv, ExclusiveExecution
<1> QED
  BY <1>1, QueueInvariant, PTL

\* Receipts stay true.
THEOREM Receipts == Spec => []ReceiptsHold
<1>1. QueueInv => ReceiptsHold
  BY DEF QueueInv
<1> QED
  BY <1>1, QueueInvariant, PTL

\* The executions a job's row has counted stay within policy's largest ceiling.
THEOREM Budget == Spec => []DeliveryBudget
<1>1. QueueInv => DeliveryBudget
  BY DEF QueueInv, BudgetInv, DeliveryBudget
<1> QED
  BY <1>1, QueueInvariant, PTL

\* Dispatch orders identify rows, so the candidate query has one answer.
THEOREM UniqueOrders == Spec => []DispatchOrdersUnique
<1>1. QueueInv => DispatchOrdersUnique
  BY DEF QueueInv
<1> QED
  BY <1>1, QueueInvariant, PTL

\* Unsettled work always has its deployment's hold.
THEOREM HoldsCover == Spec => []HoldsCoverWork
<1>1. QueueInv => HoldsCoverWork
  BY DEF QueueInv
<1> QED
  BY <1>1, QueueInvariant, PTL

-----------------------------------------------------------------------------
(* What a step may do to a row.                                            *)

\* Only a claim starts an attempt, and nothing touches a settled row.
LEMMA RowSteps ==
  ASSUME TypeOK, [Next]_vars, NEW k \in Jobs
  PROVE  /\ jobs[k].state = "settled" => jobs'[k] = jobs[k]
         /\ \/ jobs'[k].attempt = jobs[k].attempt
            \/ \E w \in Workers, ceiling \in 1..MaxDeliveryAttempts, cap \in 1..MaxRunning,
                  delivered \in BOOLEAN : ClaimWithin(w, k, ceiling, cap, delivered)
<1> DEFINE Kept == (jobs[k].state = "settled" => jobs'[k] = jobs[k])
                   /\ jobs'[k].attempt = jobs[k].attempt
<1>0. jobs \in [Jobs -> Rows] /\ jobs[k] \in Rows /\ now \in Nat /\ dispatch_cursor \in Nat
  BY DEF TypeOK
<1>1. ASSUME NEW j \in Jobs, Submit(j) \/ Manage(j) PROVE Kept
  <2>1. /\ jobs[j].state = "absent"
        /\ jobs' = [jobs EXCEPT ![j] = Inserted(jobs[j], dispatch_cursor + 1)]
    BY <1>1 DEF Submit, Manage, Insert
  <2>2. Inserted(jobs[j], dispatch_cursor + 1).attempt = jobs[j].attempt
    BY <1>0 DEF Inserted, Rows
  <2> QED
    BY <1>0, <2>1, <2>2
<1>2. ASSUME NEW w \in Workers, NEW j \in Jobs, NEW ceiling, NEW cap,
             NEW delivered, ClaimWithin(w, j, ceiling, cap, delivered)
      PROVE  /\ jobs[k].state = "settled" => jobs'[k] = jobs[k]
             /\ k # j => Kept
  BY <1>0, <1>2 DEF ClaimWithin, Candidate, Candidates, ClaimableRow
<1>3. ASSUME NEW w \in Workers, NEW j \in Jobs, NEW a \in Nat, NEW delivered,
             Heartbeat(w, j, a, delivered)
      PROVE  Kept
  <2>1. jobs' = [jobs EXCEPT ![j] =
                    Renewed(Counted(jobs[j], a), Deadline(jobs[j].leased_at))]
    BY <1>3 DEF Heartbeat
  <2>2. Counted(jobs[j], a).attempt = jobs[j].attempt /\ Counted(jobs[j], a) \in Rows
    BY <1>0, CountedRow
  <2>3. jobs[j].state # "settled"
    BY <1>3 DEF Heartbeat, Live
  <2> QED
    BY <1>0, <2>1, <2>2, <2>3 DEF Renewed, Rows
<1>4. ASSUME NEW w \in Workers, NEW j \in Jobs, NEW a, NEW o, NEW delivered,
             Settle(w, j, a, o, delivered)
      PROVE  Kept
  BY <1>0, <1>4 DEF Settle, Live, Settled, Rows
<1>5. ASSUME NEW w \in Workers, NEW j \in Jobs, NEW a \in Nat, NEW defer \in GiveBacks,
             GiveBack(w, j, a, defer)
      PROVE  Kept
  <2>1. jobs' = [jobs EXCEPT ![j] = GivenBack(jobs[j], a, defer)]
    BY <1>5 DEF GiveBack
  <2>2. GivenBack(jobs[j], a, defer).attempt = jobs[j].attempt
    BY <1>0, GivenBackRow DEF GiveBackEffect
  <2>3. jobs[j].state # "settled"
    BY <1>5 DEF GiveBack, Live
  <2> QED
    BY <1>0, <2>1, <2>2, <2>3
<1>6. ASSUME Abandon PROVE Kept
  BY <1>0, <1>6 DEF Abandon, Unsettled, Settled, Rows
<1>7. ASSUME UNCHANGED jobs PROVE Kept
  BY <1>7
<1>8. CASE UNCHANGED vars
  BY <1>7, <1>8 DEF vars
<1>9. ASSUME NEW w \in Workers, NEW j \in Jobs, WorkerStep(w, j)
      PROVE  Kept \/ \E ceiling \in 1..MaxDeliveryAttempts, cap \in 1..MaxRunning,
                        delivered \in BOOLEAN : ClaimWithin(w, k, ceiling, cap, delivered)
  <2>0. Attempts(j) \subseteq Nat
    BY <1>0 DEF Attempts, Rows
  <2>1. CASE \E ceiling \in 1..MaxDeliveryAttempts, cap \in 1..MaxRunning,
                delivered \in BOOLEAN : ClaimWithin(w, j, ceiling, cap, delivered)
    BY <1>2, <2>1
  <2>2. CASE \E a \in Attempts(j), delivered \in BOOLEAN : Heartbeat(w, j, a, delivered)
    BY <1>3, <2>0, <2>2
  <2>3. CASE \E a \in Attempts(j), o \in Outcomes, delivered \in BOOLEAN :
                Settle(w, j, a, o, delivered)
    BY <1>4, <2>3
  <2>4. CASE \E a \in Attempts(j), o \in Outcomes : SettleReplay(w, j, a, o)
    BY <1>7, <2>4 DEF SettleReplay
  <2>5. CASE \E a \in Attempts(j), defer \in GiveBacks : GiveBack(w, j, a, defer)
    BY <1>5, <2>0, <2>5
  <2> QED
    BY <1>9, <2>1, <2>2, <2>3, <2>4, <2>5 DEF WorkerStep
<1>10. CASE \/ \E d \in Deployments : EnsureDeployment(d) \/ ReleaseDeployment(d)
            \/ \E w \in Workers : Revoke(w)
            \/ Tick
  BY <1>7, <1>10 DEF EnsureDeployment, ReleaseDeployment, Revoke, Tick
<1> QED
  BY <1>1, <1>2, <1>6, <1>8, <1>9, <1>10 DEF Next

\* A settled row never changes again (fence, live).
THEOREM SettledStays == Spec => SettledForever
<1>1. TypeOK /\ [Next]_vars =>
        [\A j \in Jobs : jobs[j].state = "settled" => jobs'[j] = jobs[j]]_vars
  BY RowSteps
<1> QED
  BY <1>1, TypeCorrect, PTL DEF Spec, SettledForever

\* A claim that passes a waiting candidate by goes behind it (candidate,
\* next_dispatch_order).
THEOREM Rotation == Spec => RoundRobin
<1> DEFINE Passes == \A w \in Workers, j, k \in Jobs :
          (/\ jobs'[j].attempt > jobs[j].attempt /\ jobs'[j].worker_id = w
           /\ k # j /\ k \in Candidates(Claimant[w], 1))
          => /\ jobs[j].dispatch_order < jobs[k].dispatch_order
             /\ jobs'[k].dispatch_order < jobs'[j].dispatch_order
<1>1. QueueInv /\ [Next]_vars => Passes
  <2> SUFFICES ASSUME QueueInv, [Next]_vars, NEW w \in Workers, NEW j \in Jobs,
                      NEW k \in Jobs, jobs'[j].attempt > jobs[j].attempt,
                      jobs'[j].worker_id = w, k # j, k \in Candidates(Claimant[w], 1)
               PROVE  /\ jobs[j].dispatch_order < jobs[k].dispatch_order
                      /\ jobs'[k].dispatch_order < jobs'[j].dispatch_order
    OBVIOUS
  <2>0. /\ jobs \in [Jobs -> Rows] /\ jobs[j] \in Rows /\ jobs[k] \in Rows
        /\ dispatch_cursor \in Nat
    BY DEF QueueInv, TypeOK
  <2>1. jobs'[j].attempt # jobs[j].attempt
    BY <2>0 DEF Rows
  <2>2. PICK v \in Workers, ceiling \in 1..MaxDeliveryAttempts, cap \in 1..MaxRunning,
             delivered \in BOOLEAN : ClaimWithin(v, j, ceiling, cap, delivered)
    BY <2>1, RowSteps DEF QueueInv
  <2>3. jobs' = [jobs EXCEPT ![j] = Leased(jobs[j], jobs[j].attempt + 1, v,
                                           Deadline(now), now, dispatch_cursor + 1)]
    BY <2>2 DEF ClaimWithin
  <2>4. /\ v = w /\ jobs'[k] = jobs[k]
        /\ jobs'[j].dispatch_order = dispatch_cursor + 1
    BY <2>0, <2>3 DEF Leased, Rows
  <2>5. k \in Candidates(Claimant[v], ceiling) /\ j \in Candidates(Claimant[v], ceiling)
    BY <2>0, <2>2, <2>4 DEF ClaimWithin, Candidate, Candidates, Rows
  <2>6. jobs[j].dispatch_order <= jobs[k].dispatch_order
    BY <2>2, <2>5 DEF ClaimWithin, Candidate
  <2>7. jobs[j].state # "absent" /\ jobs[k].state # "absent"
    BY <2>5 DEF Candidates, ClaimableRow
  <2>8. /\ jobs[j].dispatch_order # jobs[k].dispatch_order
        /\ jobs[k].dispatch_order <= dispatch_cursor
    BY <2>0, <2>7 DEF QueueInv, DispatchOrdersUnique, Rows
  <2> QED
    BY <2>0, <2>4, <2>6, <2>8 DEF Rows
<1>2. QueueInv /\ [Next]_vars => [Passes]_vars
  BY <1>1
<1> QED
  BY <1>2, QueueInvariant, PTL DEF Spec, RoundRobin

-----------------------------------------------------------------------------
(* The barrier of a blocking command.                                      *)

\* Only commands have revisions.
KindInv == \A c \in Jobs : commands[c].revision > 0 => OperationKind[c] = "management"

BarrierInv == KindInv /\ BarrierFollowsDeliveries

\* Delivered before it: the delivery j is out and the blocking command c waits.
Facing(j, c) ==
    /\ OperationKind[j] = "advance" /\ jobs[j].state = "leased"
    /\ c \in PendingOf(RunOf[j]) /\ BlocksExecution[c]

\* A step that leases no advance and accepts no command can only end such a
\* meeting, or move the command further behind.
LEMMA BarrierKept ==
  ASSUME QueueInv, BarrierInv, TypeOK',
         \A c \in Jobs : CommandPending(c)' => CommandPending(c),
         \A c \in Jobs : commands'[c].revision > 0 => commands[c].revision > 0,
         \A j \in Jobs : (OperationKind[j] = "advance" /\ jobs'[j].state = "leased") =>
                jobs[j].state = "leased" /\ jobs'[j].dispatch_order = jobs[j].dispatch_order,
         \A c \in Jobs : OperationKind[c] = "management" =>
                jobs'[c].dispatch_order = jobs[c].dispatch_order
                \/ jobs'[c].dispatch_order > dispatch_cursor
  PROVE  BarrierInv'
<1>1. KindInv'
  BY DEF BarrierInv, KindInv
<1>2. ASSUME NEW j \in Jobs, NEW c \in Jobs, Facing(j, c)'
      PROVE  jobs'[j].dispatch_order < jobs'[c].dispatch_order
  <2>1. jobs[j].state = "leased" /\ jobs'[j].dispatch_order = jobs[j].dispatch_order
    BY <1>2 DEF Facing
  <2>2. CommandPending(c) /\ RunOf[c] = RunOf[j] /\ BlocksExecution[c]
    BY <1>2 DEF Facing, PendingOf
  <2>3. jobs[j].dispatch_order < jobs[c].dispatch_order
    BY <1>2, <2>1, <2>2 DEF BarrierInv, BarrierFollowsDeliveries, PendingOf, Facing
  <2>4. OperationKind[c] = "management"
    BY <2>2 DEF BarrierInv, KindInv, CommandPending
  <2>5. jobs[j].dispatch_order <= dispatch_cursor
    BY <2>1 DEF QueueInv, DispatchOrdersUnique
  <2>6. jobs[j].dispatch_order \in Nat /\ dispatch_cursor \in Nat
    BY DEF QueueInv, TypeOK, Rows
  <2>7. jobs'[c].dispatch_order = jobs[c].dispatch_order
        \/ jobs'[c].dispatch_order > dispatch_cursor
    BY <2>4
  <2>8. CASE jobs'[c].dispatch_order > dispatch_cursor
    <3> DEFINE x == jobs'[c].dispatch_order  y == jobs[j].dispatch_order
    <3>1. x > dispatch_cursor /\ y <= dispatch_cursor
      BY <2>5, <2>8
    <3>2. x \in Nat
      BY DEF TypeOK, Rows
    <3> QED
      BY <2>1, <2>6, <3>1, <3>2
  <2> QED
    BY <2>1, <2>3, <2>7, <2>8
<1> QED
  BY <1>1, <1>2 DEF BarrierInv, BarrierFollowsDeliveries, Facing

\* A claim of an advance meets no blocking command; a claimed command goes to
\* the tail.
LEMMA ClaimBarrier ==
  ASSUME QueueInv, BarrierInv, TypeOK', NEW w \in Workers, NEW j \in Jobs, NEW ceiling,
         NEW cap, NEW delivered, ClaimWithin(w, j, ceiling, cap, delivered)
  PROVE  BarrierInv'
<1>0. jobs \in [Jobs -> Rows] /\ jobs[j] \in Rows /\ dispatch_cursor \in Nat
  BY DEF QueueInv, TypeOK
<1>1. /\ jobs' = [jobs EXCEPT ![j] = Leased(jobs[j], jobs[j].attempt + 1, w,
                                           Deadline(now), now, dispatch_cursor + 1)]
      /\ UNCHANGED commands
      /\ ManagementEligible(j)
  BY DEF ClaimWithin, Candidate, Candidates
<1>2. jobs'[j].dispatch_order = dispatch_cursor + 1
  BY <1>0, <1>1 DEF Leased, Rows
<1>3. \A k \in Jobs : k # j => jobs'[k] = jobs[k]
  BY <1>0, <1>1
<1>4. CASE OperationKind[j] # "advance"
  BY <1>0, <1>1, <1>2, <1>3, <1>4, BarrierKept DEF CommandPending
<1>5. CASE OperationKind[j] = "advance"
  <2>1. KindInv'
    BY <1>1 DEF BarrierInv, KindInv
  <2>2. ASSUME NEW i \in Jobs, NEW c \in Jobs, Facing(i, c)'
        PROVE  jobs'[i].dispatch_order < jobs'[c].dispatch_order
    <3>1. c \in PendingOf(RunOf[i]) /\ BlocksExecution[c] /\ OperationKind[i] = "advance"
      BY <1>1, <2>2 DEF Facing, PendingOf, CommandPending
    <3>2. OperationKind[c] = "management"
      BY <3>1 DEF BarrierInv, KindInv, PendingOf, CommandPending
    <3>3. i # j
      BY <1>1, <3>1 DEF ManagementEligible
    <3>4. c # j
      BY <1>5, <3>2
    <3> QED
      BY <1>3, <2>2, <3>1, <3>3, <3>4 DEF Facing, BarrierInv, BarrierFollowsDeliveries
  <2> QED
    BY <2>1, <2>2 DEF BarrierInv, BarrierFollowsDeliveries, Facing
<1> QED
  BY <1>4, <1>5

\* An accepted command goes behind every delivery that is out.
LEMMA ManageBarrier ==
  ASSUME QueueInv, BarrierInv, TypeOK', NEW d \in Jobs, Manage(d) PROVE BarrierInv'
<1>0. /\ jobs \in [Jobs -> Rows] /\ jobs[d] \in Rows /\ dispatch_cursor \in Nat
      /\ commands \in [Jobs -> [revision : Nat, outcome : Outcomes \cup {NoOutcome}]]
  BY DEF QueueInv, TypeOK
<1>1. /\ jobs' = [jobs EXCEPT ![d] = Inserted(jobs[d], dispatch_cursor + 1)]
      /\ OperationKind[d] = "management"
  BY DEF Manage, Insert
<1>2. jobs'[d].dispatch_order = dispatch_cursor + 1
  BY <1>0, <1>1 DEF Inserted, Rows
<1>3. \A c \in Jobs : c # d => jobs'[c] = jobs[c] /\ commands'[c] = commands[c]
  BY <1>0, <1>1 DEF Manage
<1>4. KindInv'
  BY <1>1, <1>3 DEF BarrierInv, KindInv
<1>5. ASSUME NEW j \in Jobs, NEW c \in Jobs, Facing(j, c)'
      PROVE  jobs'[j].dispatch_order < jobs'[c].dispatch_order
  <2>1. j # d /\ jobs'[j] = jobs[j] /\ jobs[j].state = "leased"
    BY <1>1, <1>3, <1>5 DEF Facing
  <2>2. jobs[j].dispatch_order <= dispatch_cursor /\ jobs[j].dispatch_order \in Nat
    BY <1>0, <2>1 DEF QueueInv, DispatchOrdersUnique, Rows
  <2>3. CASE c = d
    BY <1>0, <1>2, <2>1, <2>2, <2>3
  <2>4. CASE c # d
    BY <1>3, <1>5, <2>1, <2>4
       DEF Facing, PendingOf, CommandPending, BarrierInv, BarrierFollowsDeliveries
  <2> QED
    BY <2>3, <2>4
<1> QED
  BY <1>4, <1>5 DEF BarrierInv, BarrierFollowsDeliveries, Facing

\* Every step keeps the barrier.
LEMMA BarrierNext ==
  ASSUME QueueInv, BarrierInv, [Next]_vars PROVE BarrierInv'
<1>0. TypeOK' /\ jobs \in [Jobs -> Rows] /\ dispatch_cursor \in Nat /\ now \in Nat
      /\ \A k \in Jobs : jobs[k] \in Rows
  BY TypeNext DEF QueueInv, TypeOK
<1>1. ASSUME UNCHANGED <<jobs, commands>> PROVE BarrierInv'
  BY <1>0, <1>1, BarrierKept DEF CommandPending
<1>2. ASSUME NEW j \in Jobs, Submit(j) PROVE BarrierInv'
  <2>1. /\ jobs' = [jobs EXCEPT ![j] = Inserted(jobs[j], dispatch_cursor + 1)]
        /\ OperationKind[j] # "management" /\ UNCHANGED commands
    BY <1>2 DEF Submit, Insert
  <2>2. jobs'[j].state = "ready" /\ \A k \in Jobs : k # j => jobs'[k] = jobs[k]
    BY <1>0, <2>1 DEF Inserted, Rows
  <2> QED
    BY <1>0, <2>1, <2>2, BarrierKept DEF CommandPending
<1>3. ASSUME NEW w \in Workers, NEW j \in Jobs, NEW a \in Nat, NEW delivered,
             Heartbeat(w, j, a, delivered)
      PROVE  BarrierInv'
  <2>1. /\ jobs' = [jobs EXCEPT ![j] =
                       Renewed(Counted(jobs[j], a), Deadline(jobs[j].leased_at))]
        /\ jobs[j].state = "leased" /\ UNCHANGED commands
    BY <1>3 DEF Heartbeat, Live
  <2>2. /\ Counted(jobs[j], a).dispatch_order = jobs[j].dispatch_order
        /\ Counted(jobs[j], a) \in Rows
    BY <1>0, CountedRow
  <2>3. /\ jobs'[j].dispatch_order = jobs[j].dispatch_order
        /\ \A k \in Jobs : k # j => jobs'[k] = jobs[k]
    BY <1>0, <2>1, <2>2 DEF Renewed, Rows
  <2> QED
    BY <1>0, <2>1, <2>3, BarrierKept DEF CommandPending
<1>4. ASSUME NEW w \in Workers, NEW j \in Jobs, NEW a \in Nat, NEW o \in Outcomes,
             NEW delivered, Settle(w, j, a, o, delivered)
      PROVE  BarrierInv'
  <2>1. jobs' = [jobs EXCEPT ![j] =
                    Settled(jobs[j], o, [worker |-> w, attempt |-> a, outcome |-> o])]
    BY <1>4 DEF Settle
  <2>2. /\ jobs'[j].state = "settled" /\ jobs'[j].dispatch_order = jobs[j].dispatch_order
        /\ \A k \in Jobs : k # j => jobs'[k] = jobs[k]
    BY <1>0, <2>1 DEF Settled, Rows
  <2>3. \A c \in Jobs : /\ commands'[c].revision = commands[c].revision
                        /\ commands'[c].outcome = NoOutcome => commands[c].outcome = NoOutcome
    <3>1. commands \in [Jobs -> [revision : Nat, outcome : Outcomes \cup {NoOutcome}]]
      BY DEF QueueInv, TypeOK
    <3>2. o # NoOutcome
      BY DEF Outcomes, NoOutcome
    <3> QED
      BY <1>4, <3>1, <3>2 DEF Settle
  <2> QED
    BY <1>0, <2>2, <2>3, BarrierKept DEF CommandPending
<1>5. ASSUME NEW w \in Workers, NEW j \in Jobs, NEW a \in Nat, NEW defer \in GiveBacks,
             GiveBack(w, j, a, defer)
      PROVE  BarrierInv'
  <2>1. jobs' = [jobs EXCEPT ![j] = GivenBack(jobs[j], a, defer)] /\ UNCHANGED commands
    BY <1>5 DEF GiveBack
  <2>2. /\ GivenBack(jobs[j], a, defer).state = "ready"
        /\ GivenBack(jobs[j], a, defer).dispatch_order = jobs[j].dispatch_order
    BY <1>0, GivenBackRow DEF GiveBackEffect
  <2>3. /\ jobs'[j].state = "ready" /\ jobs'[j].dispatch_order = jobs[j].dispatch_order
        /\ \A k \in Jobs : k # j => jobs'[k] = jobs[k]
    BY <1>0, <2>1, <2>2
  <2> QED
    BY <1>0, <2>1, <2>3, BarrierKept DEF CommandPending
<1>6. ASSUME Abandon PROVE BarrierInv'
  <2>1. \A k \in Jobs : /\ jobs'[k].state \in {"settled", jobs[k].state}
                        /\ jobs'[k].dispatch_order = jobs[k].dispatch_order
    BY <1>0, <1>6 DEF Abandon, Settled, Rows
  <2>2. UNCHANGED commands
    BY <1>6 DEF Abandon
  <2> QED
    BY <1>0, <2>1, <2>2, BarrierKept DEF CommandPending
<1>7. ASSUME NEW w \in Workers, NEW j \in Jobs, WorkerStep(w, j) PROVE BarrierInv'
  <2>0. Attempts(j) \subseteq Nat
    BY <1>0 DEF Attempts, Rows
  <2>1. CASE \E ceiling \in 1..MaxDeliveryAttempts, cap \in 1..MaxRunning,
                delivered \in BOOLEAN : ClaimWithin(w, j, ceiling, cap, delivered)
    BY <1>0, <2>1, ClaimBarrier
  <2>2. CASE \E a \in Attempts(j), delivered \in BOOLEAN : Heartbeat(w, j, a, delivered)
    BY <1>3, <2>0, <2>2
  <2>3. CASE \E a \in Attempts(j), o \in Outcomes, delivered \in BOOLEAN :
                Settle(w, j, a, o, delivered)
    BY <1>4, <2>0, <2>3
  <2>4. CASE \E a \in Attempts(j), o \in Outcomes : SettleReplay(w, j, a, o)
    BY <1>1, <2>4 DEF SettleReplay
  <2>5. CASE \E a \in Attempts(j), defer \in GiveBacks : GiveBack(w, j, a, defer)
    BY <1>5, <2>0, <2>5
  <2> QED
    BY <1>7, <2>1, <2>2, <2>3, <2>4, <2>5 DEF WorkerStep
<1>8. CASE \/ \E d \in Deployments : EnsureDeployment(d) \/ ReleaseDeployment(d)
           \/ \E w \in Workers : Revoke(w)
           \/ Tick \/ UNCHANGED vars
  BY <1>1, <1>8 DEF EnsureDeployment, ReleaseDeployment, Revoke, Tick, vars
<1> QED
  BY <1>0, <1>2, <1>6, <1>7, <1>8, ManageBarrier DEF Next

\* No delivery of a run is dispatched past a blocking command that is pending
\* (management_eligibility).
THEOREM Barrier == Spec => []BarrierFollowsDeliveries
<1>1. Init => BarrierInv
  BY DEF Init, AbsentRow, BarrierInv, KindInv, BarrierFollowsDeliveries
<1>2. QueueInv /\ BarrierInv /\ [Next]_vars => BarrierInv'
  BY BarrierNext
<1>3. BarrierInv => BarrierFollowsDeliveries
  BY DEF BarrierInv
<1> QED
  BY <1>1, <1>2, <1>3, QueueInvariant, PTL DEF Spec

-----------------------------------------------------------------------------
(* The running cap and the order of commands.                              *)

\* The live creator deliveries are finitely many and within the cap.
RunningInv == IsFiniteSet(LiveAdvances) /\ RunningCap

\* The pending commands of a run are finitely many, only an accepted command has
\* an outcome, and the two tables agree as validate_pending demands.
CommandsInv ==
    /\ CommandsInOrder
    /\ \A r \in Runs : IsFiniteSet(PendingOf(r))
    /\ \A c \in Jobs : commands[c].revision = 0 => commands[c].outcome = NoOutcome

AdmissionInv == RunningInv /\ CommandsInv

\* What a run's pending commands must satisfy, of the set itself.
Dense(pending, revision, settled, accepted) ==
    /\ IsFiniteSet(pending)
    /\ \A c \in pending : revision[c] \in (settled + 1)..accepted
    /\ \A c, d \in pending : revision[c] = revision[d] => c = d
    /\ Cardinality(pending) = accepted - settled

\* An accepted command takes the next revision (insert_command).
LEMMA DenseAfterAccept ==
  ASSUME NEW pending, NEW c, c \notin pending, NEW f, NEW g,
         NEW settled \in Nat, NEW accepted \in Nat, Dense(pending, f, settled, accepted),
         \A d \in pending : g[d] = f[d], g[c] = accepted + 1
  PROVE  Dense(pending \cup {c}, g, settled, accepted + 1)
<1> DEFINE all == pending \cup {c}
           n == Cardinality(pending)
           m == Cardinality(all)
<1>1. IsFiniteSet(pending) /\ n = accepted - settled
  BY DEF Dense
<1>2. IsFiniteSet(all) /\ m = n + 1
  BY <1>1, FS_AddElement
<1>3. n \in Nat
  BY <1>1, FS_CardinalityType
<1> HIDE DEF n, m
<1>4. settled <= accepted /\ m = (accepted + 1) - settled
  BY <1>1, <1>2, <1>3
<1>5. \A d \in pending : g[d] \in (settled + 1)..accepted
  BY DEF Dense
<1>6. \A d \in all : g[d] \in (settled + 1)..(accepted + 1)
  BY <1>4, <1>5
<1>7. \A d \in pending : g[d] # g[c]
  BY <1>5
<1>8. \A d, e \in all : g[d] = g[e] => d = e
  BY <1>7 DEF Dense
<1> QED
  BY <1>2, <1>4, <1>6, <1>8 DEF Dense, m

\* The command that settles is the lowest pending one (management::settle).
LEMMA DenseAfterSettle ==
  ASSUME NEW pending, NEW c \in pending, NEW f, NEW g,
         NEW settled \in Nat, NEW accepted \in Nat, Dense(pending, f, settled, accepted),
         f[c] = settled + 1, \A d \in pending : g[d] = f[d]
  PROVE  Dense(pending \ {c}, g, settled + 1, accepted)
<1> DEFINE rest == pending \ {c}
           n == Cardinality(pending)
           m == Cardinality(rest)
<1>1. IsFiniteSet(pending) /\ n = accepted - settled
  BY DEF Dense
<1>2. IsFiniteSet(rest) /\ m = n - 1
  BY <1>1, FS_RemoveElement
<1> HIDE DEF n, m
<1>3. m = accepted - (settled + 1)
  BY <1>1, <1>2
<1>4. \A d \in rest : g[d] \in (settled + 1)..accepted /\ g[d] # settled + 1
  BY DEF Dense
<1>5. \A d \in rest : g[d] \in ((settled + 1) + 1)..accepted
  BY <1>4
<1>6. \A d, e \in rest : g[d] = g[e] => d = e
  BY DEF Dense
<1> QED
  BY <1>2, <1>3, <1>5, <1>6 DEF Dense, m

\* The revisions of the command table.
Revision == [c \in Jobs |-> commands[c].revision]

\* validate_pending, run by run.
LEMMA PendingDense ==
  (ValidatePending /\ \A r \in Runs : IsFiniteSet(PendingOf(r)))
     <=> /\ \A c \in Jobs : OperationKind[c] = "management" =>
                (CommandPending(c) <=> Unsettled(c))
         /\ \A r \in Runs : Dense(PendingOf(r), Revision, orders[r].settled, orders[r].accepted)
<1>1. \A r \in Runs : \A c \in PendingOf(r) : Revision[c] = commands[c].revision
  BY DEF PendingOf, Revision
<1> QED
  BY <1>1 DEF ValidatePending, Dense

\* A step that leaves the command tables alone, keeps what is unsettled and
\* leases only the next command keeps their order.
LEMMA CommandsKept ==
  ASSUME CommandsInv, UNCHANGED <<commands, orders>>,
         \A c \in Jobs : OperationKind[c] = "management" => (Unsettled(c)' <=> Unsettled(c)),
         \A c \in Jobs : (OperationKind[c] = "management" /\ jobs'[c].state = "leased") =>
             jobs[c].state = "leased" \/ NextCommand(c)
  PROVE  CommandsInv'
<1>1. \A c \in Jobs : CommandPending(c)' <=> CommandPending(c)
  BY DEF CommandPending
<1>2. \A r \in Runs : PendingOf(r)' = PendingOf(r)
  BY <1>1 DEF PendingOf
<1>3. ValidatePending'
  BY <1>1, <1>2 DEF CommandsInv, CommandsInOrder, ValidatePending
<1>4. \A c \in Jobs : jobs'[c].state = "leased" => NextCommand(c)'
  BY <1>1 DEF CommandsInv, CommandsInOrder, NextCommand
<1> QED
  BY <1>2, <1>3, <1>4 DEF CommandsInv, CommandsInOrder

\* A step that revives no lapsed creator delivery keeps the cap.
LEMMA RunningKept ==
  ASSUME RunningInv, MaxRunning \in Nat,
         \A j \in Jobs : (OperationKind[j] = "advance" /\ Live(jobs[j])') => Live(jobs[j])
  PROVE  RunningInv'
<1> DEFINE before == LiveAdvances
           after == LiveAdvances'
<1>1. after \subseteq before
  BY DEF LiveAdvances
<1>2. IsFiniteSet(after) /\ Cardinality(after) <= Cardinality(before)
  BY <1>1, FS_Subset DEF RunningInv
<1>3. Cardinality(after) \in Nat /\ Cardinality(before) \in Nat
  BY <1>2, FS_CardinalityType DEF RunningInv
<1>4. Cardinality(before) <= MaxRunning
  BY DEF RunningInv, RunningCap
<1> HIDE DEF before, after
<1>5. Cardinality(after) <= MaxRunning
  BY <1>2, <1>3, <1>4
<1> QED
  BY <1>2, <1>5 DEF RunningInv, RunningCap, after

\* A claim counts the live deliveries before it adds one, and takes the next
\* command of its run (claim_within).
LEMMA ClaimAdmitted ==
  ASSUME TypeOK, AdmissionInv, NEW w \in Workers, NEW j \in Jobs, NEW ceiling,
         NEW cap \in 1..MaxRunning, NEW delivered, ClaimWithin(w, j, ceiling, cap, delivered)
  PROVE  AdmissionInv'
<1>0. jobs \in [Jobs -> Rows] /\ jobs[j] \in Rows
  BY DEF TypeOK
<1>1. /\ jobs' = [jobs EXCEPT ![j] = Leased(jobs[j], jobs[j].attempt + 1, w,
                                           Deadline(now), now, dispatch_cursor + 1)]
      /\ UNCHANGED <<now, commands, orders>>
      /\ NextCommand(j) /\ ClaimableRow(j, Claimant[w])
      /\ Claimant[w] = "worker" => Cardinality(LiveAdvances) < cap
  BY DEF ClaimWithin, Candidate, Candidates
<1>2. jobs'[j].state = "leased" /\ \A k \in Jobs : k # j => jobs'[k] = jobs[k]
  BY <1>0, <1>1 DEF Leased, Rows
<1>3. jobs[j].state \in {"ready", "leased"}
  BY <1>1 DEF ClaimableRow
<1>4. CommandsInv'
  BY <1>1, <1>2, <1>3, CommandsKept DEF Unsettled, AdmissionInv
<1>5. \A k \in Jobs : k # j => (Live(jobs[k])' <=> Live(jobs[k]))
  BY <1>1, <1>2 DEF Live
<1>6. MaxRunning \in Nat
  BY JobQueueAssumption
<1>7. CASE OperationKind[j] # "advance"
  BY <1>4, <1>5, <1>6, <1>7, RunningKept DEF AdmissionInv
<1>8. CASE OperationKind[j] = "advance"
  <2> DEFINE before == LiveAdvances
             after == LiveAdvances'
             n == Cardinality(before)
             m == Cardinality(after)
  <2>1. n < cap
    BY <1>1, <1>8 DEF ClaimableRow, Admits
  <2>2. after \subseteq before \cup {j}
    BY <1>5 DEF LiveAdvances
  <2>3. IsFiniteSet(before) /\ n \in Nat
    BY FS_CardinalityType DEF AdmissionInv, RunningInv
  <2>4. /\ IsFiniteSet(before \cup {j})
        /\ Cardinality(before \cup {j}) = IF j \in before THEN n ELSE n + 1
    BY <2>3, FS_AddElement
  <2>5. IsFiniteSet(after) /\ m <= Cardinality(before \cup {j})
    BY <2>2, <2>4, FS_Subset
  <2>6. m \in Nat
    BY <2>5, FS_CardinalityType
  <2> HIDE DEF before, after
  <2>7. m <= n + 1
    <3> DEFINE b == Cardinality(before \cup {j})
    <3>1. b = (IF j \in before THEN n ELSE n + 1) /\ m <= b
      BY <2>4, <2>5
    <3> HIDE DEF b, n, m
    <3> QED
      BY <2>3, <2>6, <3>1
  <2> HIDE DEF n, m
  <2>8. m <= MaxRunning
    BY <1>6, <2>1, <2>3, <2>6, <2>7
  <2>9. RunningInv'
    BY <2>5, <2>8 DEF RunningInv, RunningCap, after, m
  <2> QED
    BY <1>4, <2>9 DEF AdmissionInv
<1> QED
  BY <1>4, <1>7, <1>8, RunningKept DEF AdmissionInv

\* A command joins the pending ones of its run at the top (manage).
LEMMA ManageAdmitted ==
  ASSUME TypeOK, AdmissionInv, NEW c \in Jobs, Manage(c)
  PROVE  AdmissionInv'
<1>0. /\ jobs \in [Jobs -> Rows] /\ jobs[c] \in Rows
      /\ commands \in [Jobs -> [revision : Nat, outcome : Outcomes \cup {NoOutcome}]]
      /\ orders \in [Runs -> [accepted : Nat, settled : Nat]]
  BY DEF TypeOK
<1> DEFINE r == RunOf[c]
<1>1. r \in Runs /\ OperationKind[c] = "management"
  BY JobQueueAssumption DEF Manage
<1>2. /\ commands[c].revision = 0 /\ commands[c].outcome = NoOutcome
      /\ jobs[c].state = "absent"
      /\ jobs' = [jobs EXCEPT ![c] = Inserted(jobs[c], dispatch_cursor + 1)]
      /\ commands' = [commands EXCEPT ![c] = [@ EXCEPT !.revision = orders[r].accepted + 1]]
      /\ orders' = [orders EXCEPT ![r] = [@ EXCEPT !.accepted = orders[r].accepted + 1]]
      /\ now' = now
  BY DEF Manage, Insert, AdmissionInv, CommandsInv
<1>3. /\ jobs'[c].state = "ready" /\ \A k \in Jobs : k # c => jobs'[k] = jobs[k]
  BY <1>0, <1>2 DEF Inserted, Rows
<1>4. /\ commands'[c].revision = orders[r].accepted + 1 /\ commands'[c].outcome = NoOutcome
      /\ \A k \in Jobs : k # c => commands'[k] = commands[k]
  BY <1>0, <1>2
<1>5. /\ orders'[r].accepted = orders[r].accepted + 1
      /\ \A s \in Runs : orders'[s].settled = orders[s].settled
      /\ \A s \in Runs : s # r => orders'[s] = orders[s]
      /\ \A s \in Runs : orders[s].accepted \in Nat /\ orders[s].settled \in Nat
  BY <1>0, <1>1, <1>2
<1> HIDE DEF r
<1>6. CommandPending(c)' /\ ~CommandPending(c)
  BY <1>1, <1>2, <1>4, <1>5 DEF CommandPending
<1>7. \A k \in Jobs : k # c => (CommandPending(k)' <=> CommandPending(k))
  BY <1>4 DEF CommandPending
<1>8. \A k \in Jobs : OperationKind[k] = "management" => (CommandPending(k)' <=> Unsettled(k)')
  BY <1>3, <1>6, <1>7, PendingDense
     DEF Unsettled, AdmissionInv, CommandsInv, CommandsInOrder, ValidatePending
<1>9. \A s \in Runs : Dense(PendingOf(s), Revision, orders[s].settled, orders[s].accepted)
  BY PendingDense DEF AdmissionInv, CommandsInv, CommandsInOrder
<1>10. ASSUME NEW s \in Runs
       PROVE  Dense(PendingOf(s)', Revision', orders'[s].settled, orders'[s].accepted)
  <2> DEFINE f == Revision
             g == Revision'
  <2>1. \A d \in PendingOf(s) : d \in Jobs /\ d # c
    BY <1>6 DEF PendingOf
  <2>2. \A d \in PendingOf(s) : g[d] = f[d]
    BY <1>4, <2>1 DEF Revision
  <2>3. g[c] = orders[r].accepted + 1
    BY <1>4 DEF Revision
  <2> HIDE DEF f, g
  <2>4. CASE s = r
    <3>1. PendingOf(s)' = PendingOf(s) \cup {c}
      BY <1>6, <1>7, <2>4 DEF PendingOf, r
    <3>2. Dense(PendingOf(s), f, orders[s].settled, orders[s].accepted)
      BY <1>9 DEF f
    <3>3. Dense(PendingOf(s) \cup {c}, g, orders[s].settled, orders[s].accepted + 1)
      BY <1>5, <2>1, <2>2, <2>3, <2>4, <3>2, DenseAfterAccept
    <3> QED
      BY <1>5, <2>4, <3>1, <3>3 DEF g
  <2>5. CASE s # r
    <3>1. PendingOf(s)' = PendingOf(s)
      BY <1>6, <1>7, <2>5 DEF PendingOf, r
    <3>2. Dense(PendingOf(s), f, orders[s].settled, orders[s].accepted)
      BY <1>9 DEF f
    <3>3. Dense(PendingOf(s), g, orders[s].settled, orders[s].accepted)
      BY <2>2, <3>2 DEF Dense
    <3> QED
      BY <1>5, <2>5, <3>1, <3>3 DEF g
  <2> QED
    BY <2>4, <2>5
<1>11. ValidatePending' /\ \A s \in Runs : IsFiniteSet(PendingOf(s)')
  BY <1>1, <1>8, <1>10 DEF ValidatePending, Dense, PendingOf, Revision
<1>12. \A k \in Jobs : jobs'[k].state = "leased" => NextCommand(k)'
  <2> SUFFICES ASSUME NEW k \in Jobs, jobs'[k].state = "leased",
                      OperationKind[k] = "management"
               PROVE  NextCommand(k)'
    BY DEF NextCommand
  <2>1. k # c /\ jobs[k].state = "leased"
    BY <1>3
  <2>2. NextCommand(k) /\ RunOf[k] \in Runs
    BY <2>1, JobQueueAssumption DEF AdmissionInv, CommandsInv, CommandsInOrder
  <2> QED
    BY <1>4, <1>5, <1>7, <2>1, <2>2 DEF NextCommand
<1>13. CommandsInv'
  BY <1>4, <1>5, <1>11, <1>12 DEF CommandsInv, CommandsInOrder, AdmissionInv
<1>14. \A k \in Jobs : Live(jobs[k])' => Live(jobs[k])
  BY <1>2, <1>3 DEF Live
<1> QED
  BY <1>13, <1>14, RunningKept, JobQueueAssumption DEF AdmissionInv

\* A settled command was the lowest pending one of its run, and every other
\* command out for delivery belongs to another run (settle_authorized).
LEMMA SettleAdmitted ==
  ASSUME TypeOK, AdmissionInv, NEW w \in Workers, NEW j \in Jobs, NEW a, NEW o \in Outcomes,
         NEW delivered, Settle(w, j, a, o, delivered)
  PROVE  AdmissionInv'
<1>0. /\ jobs \in [Jobs -> Rows] /\ jobs[j] \in Rows
      /\ commands \in [Jobs -> [revision : Nat, outcome : Outcomes \cup {NoOutcome}]]
      /\ orders \in [Runs -> [accepted : Nat, settled : Nat]]
  BY DEF TypeOK
<1>1. /\ jobs' = [jobs EXCEPT ![j] =
                     Settled(jobs[j], o, [worker |-> w, attempt |-> a, outcome |-> o])]
      /\ now' = now /\ jobs[j].state = "leased" /\ NextCommand(j)
  BY DEF Settle, Live
<1>2. jobs'[j].state = "settled" /\ \A k \in Jobs : k # j => jobs'[k] = jobs[k]
  BY <1>0, <1>1 DEF Settled, Rows
<1>3. RunningInv'
  BY <1>1, <1>2, RunningKept, JobQueueAssumption DEF AdmissionInv, Live
<1>4. CASE OperationKind[j] # "management"
  <2>1. UNCHANGED <<commands, orders>>
    BY <1>4 DEF Settle
  <2> QED
    BY <1>2, <1>3, <1>4, <2>1, CommandsKept DEF AdmissionInv, Unsettled
<1>5. CASE OperationKind[j] = "management"
  <2> DEFINE r == RunOf[j]
             n == commands[j].revision
  <2>1. r \in Runs /\ CommandPending(j) /\ n = orders[r].settled + 1
    BY <1>1, <1>5, JobQueueAssumption DEF NextCommand
  <2>2. /\ commands' = [commands EXCEPT ![j] = [@ EXCEPT !.outcome = o]]
        /\ orders' = [orders EXCEPT ![r] = [@ EXCEPT !.settled = n]]
    BY <1>5 DEF Settle
  <2>3. /\ commands'[j].outcome = o /\ o # NoOutcome
        /\ \A k \in Jobs : commands'[k].revision = commands[k].revision
        /\ \A k \in Jobs : k # j => commands'[k] = commands[k]
    BY <1>0, <2>2 DEF Outcomes, NoOutcome
  <2>4. /\ orders'[r].settled = orders[r].settled + 1
        /\ \A s \in Runs : orders'[s].accepted = orders[s].accepted
        /\ \A s \in Runs : s # r => orders'[s] = orders[s]
        /\ \A s \in Runs : orders[s].accepted \in Nat /\ orders[s].settled \in Nat
    BY <1>0, <2>1, <2>2
  <2> HIDE DEF r, n
  <2>5. ~CommandPending(j)' /\ \A k \in Jobs : k # j => (CommandPending(k)' <=> CommandPending(k))
    BY <2>3 DEF CommandPending
  <2>6. \A k \in Jobs : OperationKind[k] = "management" => (CommandPending(k)' <=> Unsettled(k)')
    BY <1>2, <2>5 DEF Unsettled, AdmissionInv, CommandsInv, CommandsInOrder, ValidatePending
  <2>7. \A s \in Runs : Dense(PendingOf(s), Revision, orders[s].settled, orders[s].accepted)
    BY PendingDense DEF AdmissionInv, CommandsInv, CommandsInOrder
  <2>8. ASSUME NEW s \in Runs
        PROVE  Dense(PendingOf(s)', Revision', orders'[s].settled, orders'[s].accepted)
    <3> DEFINE f == Revision
               g == Revision'
    <3>1. g = f
      BY <2>3 DEF Revision
    <3>2. f[j] = n
      BY DEF Revision, n
    <3>3. Dense(PendingOf(s), f, orders[s].settled, orders[s].accepted)
      BY <2>7
    <3> HIDE DEF f, g
    <3>4. CASE s = r
      <4>1. PendingOf(s)' = PendingOf(s) \ {j} /\ j \in PendingOf(s)
        BY <2>1, <2>5, <3>4 DEF PendingOf, r
      <4>2. Dense(PendingOf(s) \ {j}, f, orders[s].settled + 1, orders[s].accepted)
        BY <2>1, <2>4, <3>2, <3>3, <3>4, <4>1, DenseAfterSettle
      <4> QED
        BY <2>4, <3>1, <3>4, <4>1, <4>2 DEF g
    <3>5. CASE s # r
      <4>1. PendingOf(s)' = PendingOf(s)
        BY <2>5, <3>5 DEF PendingOf, r
      <4> QED
        BY <2>4, <3>1, <3>3, <3>5, <4>1 DEF g
    <3> QED
      BY <3>4, <3>5
  <2>9. ValidatePending' /\ \A s \in Runs : IsFiniteSet(PendingOf(s)')
    BY <2>6, <2>8 DEF ValidatePending, Dense, PendingOf, Revision
  <2>10. \A k \in Jobs : jobs'[k].state = "leased" => NextCommand(k)'
    <3> SUFFICES ASSUME NEW k \in Jobs, jobs'[k].state = "leased",
                        OperationKind[k] = "management"
                 PROVE  NextCommand(k)'
      BY DEF NextCommand
    <3>1. k # j /\ jobs[k].state = "leased"
      BY <1>2
    <3>2. NextCommand(k) /\ RunOf[k] \in Runs /\ CommandPending(k)
      BY <3>1, JobQueueAssumption DEF AdmissionInv, CommandsInv, CommandsInOrder, NextCommand
    <3>3. RunOf[k] # r
      <4> SUFFICES ASSUME RunOf[k] = r PROVE FALSE
        OBVIOUS
      <4>1. commands[k].revision = n
        BY <2>1, <3>2 DEF NextCommand
      <4>2. k \in PendingOf(r) /\ j \in PendingOf(r)
        BY <2>1, <3>2 DEF PendingOf, r
      <4>3. \A c, d \in PendingOf(r) : commands[c].revision = commands[d].revision => c = d
        BY <2>1 DEF AdmissionInv, CommandsInv, CommandsInOrder, ValidatePending
      <4> QED
        BY <3>1, <4>1, <4>2, <4>3 DEF n
    <3> QED
      BY <2>3, <2>4, <2>5, <3>1, <3>2, <3>3 DEF NextCommand
  <2>11. \A k \in Jobs : commands'[k].revision = 0 => commands'[k].outcome = NoOutcome
    <3>1. commands[j].revision # 0
      BY <1>0, <2>1 DEF CommandPending
    <3> QED
      BY <2>3, <3>1 DEF AdmissionInv, CommandsInv
  <2> QED
    BY <1>3, <2>9, <2>10, <2>11 DEF AdmissionInv, CommandsInv, CommandsInOrder
<1> QED
  BY <1>4, <1>5

\* Every step admits within the cap and in order.
LEMMA AdmissionNext ==
  ASSUME TypeOK, AdmissionInv, [Next]_vars PROVE AdmissionInv'
<1>0. jobs \in [Jobs -> Rows] /\ now \in Nat /\ \A k \in Jobs : jobs[k] \in Rows
  BY DEF TypeOK
<1>1. ASSUME UNCHANGED <<jobs, commands, orders>>, now' \in {now, now + 1} PROVE AdmissionInv'
  <2>1. CommandsInv'
    BY <1>1, CommandsKept DEF AdmissionInv, Unsettled
  <2>2. \A j \in Jobs : jobs[j].lease_deadline \in Int
    BY <1>0 DEF Rows
  <2>3. \A j \in Jobs : Live(jobs[j])' => Live(jobs[j])
    BY <1>0, <1>1, <2>2 DEF Live
  <2> QED
    BY <2>1, <2>3, RunningKept, JobQueueAssumption DEF AdmissionInv
<1>2. ASSUME NEW j \in Jobs, Submit(j) PROVE AdmissionInv'
  <2>1. /\ jobs' = [jobs EXCEPT ![j] = Inserted(jobs[j], dispatch_cursor + 1)]
        /\ OperationKind[j] # "management" /\ UNCHANGED <<now, commands, orders>>
    BY <1>2 DEF Submit, Insert
  <2>2. jobs'[j].state = "ready" /\ \A k \in Jobs : k # j => jobs'[k] = jobs[k]
    BY <1>0, <2>1 DEF Inserted, Rows
  <2>3. CommandsInv'
    BY <2>1, <2>2, CommandsKept DEF AdmissionInv, Unsettled
  <2>4. \A k \in Jobs : Live(jobs[k])' => Live(jobs[k])
    BY <2>1, <2>2 DEF Live
  <2> QED
    BY <2>3, <2>4, RunningKept, JobQueueAssumption DEF AdmissionInv
<1>3. ASSUME NEW w \in Workers, NEW j \in Jobs, NEW a \in Nat, NEW delivered,
             Heartbeat(w, j, a, delivered)
      PROVE  AdmissionInv'
  <2>1. /\ jobs' = [jobs EXCEPT ![j] =
                       Renewed(Counted(jobs[j], a), Deadline(jobs[j].leased_at))]
        /\ Live(jobs[j]) /\ UNCHANGED <<now, commands, orders>>
    BY <1>3 DEF Heartbeat
  <2>2. Counted(jobs[j], a).state = jobs[j].state /\ Counted(jobs[j], a) \in Rows
    BY <1>0, CountedRow
  <2>3. jobs'[j].state = jobs[j].state /\ \A k \in Jobs : k # j => jobs'[k] = jobs[k]
    BY <1>0, <2>1, <2>2 DEF Renewed, Rows
  <2>4. CommandsInv'
    BY <2>1, <2>3, CommandsKept DEF AdmissionInv, Unsettled
  <2>5. \A k \in Jobs : Live(jobs[k])' => Live(jobs[k])
    BY <2>1, <2>3 DEF Live
  <2> QED
    BY <2>4, <2>5, RunningKept, JobQueueAssumption DEF AdmissionInv
<1>4. ASSUME NEW w \in Workers, NEW j \in Jobs, NEW a \in Nat, NEW defer \in GiveBacks,
             GiveBack(w, j, a, defer)
      PROVE  AdmissionInv'
  <2>1. /\ jobs' = [jobs EXCEPT ![j] = GivenBack(jobs[j], a, defer)]
        /\ jobs[j].state = "leased" /\ UNCHANGED <<now, commands, orders>>
    BY <1>4 DEF GiveBack, Live
  <2>2. GivenBack(jobs[j], a, defer).state = "ready"
    BY <1>0, GivenBackRow DEF GiveBackEffect
  <2>3. jobs'[j].state = "ready" /\ \A k \in Jobs : k # j => jobs'[k] = jobs[k]
    BY <1>0, <2>1, <2>2
  <2>4. CommandsInv'
    BY <2>1, <2>3, CommandsKept DEF AdmissionInv, Unsettled
  <2>5. \A k \in Jobs : Live(jobs[k])' => Live(jobs[k])
    BY <2>1, <2>3 DEF Live
  <2> QED
    BY <2>4, <2>5, RunningKept, JobQueueAssumption DEF AdmissionInv
<1>5. ASSUME Abandon PROVE AdmissionInv'
  <2>1. /\ \A k \in Jobs : jobs'[k] = jobs[k]
                           \/ (OperationKind[k] = "advance" /\ jobs'[k].state = "settled")
        /\ UNCHANGED <<now, commands, orders>>
    BY <1>0, <1>5 DEF Abandon, Settled, Rows
  <2>2. CommandsInv'
    BY <2>1, CommandsKept DEF AdmissionInv, Unsettled
  <2>3. \A k \in Jobs : Live(jobs[k])' => Live(jobs[k])
    BY <2>1 DEF Live
  <2> QED
    BY <2>2, <2>3, RunningKept, JobQueueAssumption DEF AdmissionInv
<1>6. ASSUME NEW w \in Workers, NEW j \in Jobs, WorkerStep(w, j) PROVE AdmissionInv'
  <2>0. Attempts(j) \subseteq Nat
    BY <1>0 DEF Attempts, Rows
  <2>1. CASE \E ceiling \in 1..MaxDeliveryAttempts, cap \in 1..MaxRunning,
                delivered \in BOOLEAN : ClaimWithin(w, j, ceiling, cap, delivered)
    BY <2>1, ClaimAdmitted
  <2>2. CASE \E a \in Attempts(j), delivered \in BOOLEAN : Heartbeat(w, j, a, delivered)
    BY <1>3, <2>0, <2>2
  <2>3. CASE \E a \in Attempts(j), o \in Outcomes, delivered \in BOOLEAN :
                Settle(w, j, a, o, delivered)
    BY <2>3, SettleAdmitted
  <2>4. CASE \E a \in Attempts(j), o \in Outcomes : SettleReplay(w, j, a, o)
    BY <1>1, <2>4 DEF SettleReplay
  <2>5. CASE \E a \in Attempts(j), defer \in GiveBacks : GiveBack(w, j, a, defer)
    BY <1>4, <2>0, <2>5
  <2> QED
    BY <1>6, <2>1, <2>2, <2>3, <2>4, <2>5 DEF WorkerStep
<1>7. CASE \/ \E d \in Deployments : EnsureDeployment(d) \/ ReleaseDeployment(d)
           \/ \E w \in Workers : Revoke(w)
           \/ Tick \/ UNCHANGED vars
  BY <1>1, <1>7 DEF EnsureDeployment, ReleaseDeployment, Revoke, Tick, vars
<1> QED
  BY <1>2, <1>5, <1>6, <1>7, ManageAdmitted DEF Next

\* An empty queue admits nothing.
LEMMA AdmissionInit == Init => AdmissionInv
<1> SUFFICES ASSUME Init PROVE AdmissionInv
  OBVIOUS
<1>1. \A j \in Jobs : /\ jobs[j].state = "absent"
                      /\ commands[j].revision = 0 /\ commands[j].outcome = NoOutcome
  BY DEF Init, AbsentRow
<1>2. LiveAdvances = {} /\ \A r \in Runs : PendingOf(r) = {}
  BY <1>1 DEF LiveAdvances, Live, PendingOf, CommandPending
<1>3. IsFiniteSet({}) /\ Cardinality({}) = 0
  BY FS_EmptySet
<1>4. \A r \in Runs : orders[r].accepted = 0 /\ orders[r].settled = 0
  BY DEF Init
<1>5. RunningInv
  BY <1>2, <1>3, JobQueueAssumption DEF RunningInv, RunningCap
<1>6. ValidatePending
  <2>1. \A r \in Runs : Cardinality(PendingOf(r)) = orders[r].accepted - orders[r].settled
    BY <1>2, <1>3, <1>4
  <2>2. \A c \in Jobs : ~CommandPending(c) /\ ~Unsettled(c)
    BY <1>1 DEF CommandPending, Unsettled
  <2> QED
    BY <1>2, <2>1, <2>2 DEF ValidatePending
<1> QED
  BY <1>1, <1>2, <1>3, <1>5, <1>6 DEF AdmissionInv, CommandsInv, CommandsInOrder

\* Claims are admitted within the running cap, commands of a run one at a time in
\* the order of their revisions, and jobs in rotation, whatever policies,
\* lapses, repeated calls and lost replies (candidates, management_eligibility,
\* validate_pending, live_advance_count).
THEOREM Admission == Spec => ClaimsInOrder
<1>1. AdmissionInv => RunningCap /\ CommandsInOrder
  BY DEF AdmissionInv, RunningInv, CommandsInv
<1> QED
  BY <1>1, AdmissionInit, AdmissionNext, TypeCorrect, Rotation, PTL DEF Spec, ClaimsInOrder

\* The rows agree with each other, with the cursor and with the holds.
THEOREM Agreement == Spec => []RowsAgree
  BY TypeCorrect, UniqueOrders, HoldsCover, PTL DEF RowsAgree

\* Settled rows and the receipts for them stand.
THEOREM Settlements == Spec => SettledStands
  BY Receipts, SettledStays, PTL DEF SettledStands
=============================================================================
