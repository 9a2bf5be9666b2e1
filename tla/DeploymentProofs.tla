-------------------------- MODULE DeploymentProofs --------------------------
(***************************************************************************)
(* Proofs about what an activated deployment leaves behind: its schedules  *)
(* (Scheduling), for any number of deployments, schedules, revisions and   *)
(* replicas, and the retention of its code (DeploymentRetention), for any  *)
(* number of activations, jobs, runs, release jobs and hold generations.   *)
(* The two specifications share no variable; each theorem is of one.       *)
(***************************************************************************)
EXTENDS Scheduling, DeploymentRetention, FiniteSetTheorems, TLAPS

-----------------------------------------------------------------------------
(* Scheduling.                                                             *)

\* Euclidean division, as the interval search uses it.
LEMMA DivisionBounds ==
    ASSUME NEW e \in Int, NEW p \in Nat \ {0}
    PROVE  /\ e \div p \in Int
           /\ (e \div p) * p <= e
           /\ e < (e \div p) * p + p
BY SMT

\* A multiple of a period is one of its instants.
LEMMA MultipleOfPeriod ==
    ASSUME NEW k \in Int, NEW p \in Nat \ {0}
    PROVE  (k * p) % p = 0
BY SMT

Timings == Intervals \cup CronTimings

\* NextAfter is the first instant of its timing strictly after another: in range,
\* later, an instant of the timing, and with none between.
LEMMA NextAfterIsLeast ==
    ASSUME NEW timing \in Timings, NEW i \in Interpretations,
           NEW after \in 0..MaxTime, NEW anchor \in 0..MaxTime
    PROVE  /\ NextAfter(timing, i, after, anchor) \in Nat
           /\ NextAfter(timing, i, after, anchor) > after
           /\ Fires(timing, i, anchor, NextAfter(timing, i, after, anchor))
           /\ \A x \in Nat : x > after /\ Fires(timing, i, anchor, x)
                             => NextAfter(timing, i, after, anchor) <= x
<1>1. CASE timing \in CronTimings
  <2> DEFINE S == CronFires[timing.expr][i]
  <2>1. timing.kind = "cron" /\ timing.expr \in DOMAIN CronFires
    BY <1>1 DEF CronTimings
  <2>2. S \subseteq Nat /\ \E x \in S : Least(x, S, after)
    BY <2>1, CalendarAssumption
  <2>3. NextAfter(timing, i, after, anchor) = CHOOSE x \in S : Least(x, S, after)
    BY <2>1 DEF NextAfter
  <2>4. NextAfter(timing, i, after, anchor) \in S
        /\ Least(NextAfter(timing, i, after, anchor), S, after)
    BY <2>2, <2>3
  <2>5. \A x : Fires(timing, i, anchor, x) <=> x \in S
    BY <2>1 DEF Fires
  <2> QED  BY <2>2, <2>4, <2>5 DEF Least
<1>2. CASE timing \in Intervals
  <2> DEFINE p == timing.period
             from == AnchorOf(timing, anchor)
             q == (after - from) \div p
  <2>1. timing.kind # "cron" /\ p \in Nat \ {0}
    BY <1>2 DEF Intervals
  <2>2. from \in Nat /\ MaxTime \in Nat /\ after \in Nat
    BY SchedulingAssumption DEF AnchorOf
  <2>3. NextAfter(timing, i, after, anchor) = from + (q + 1) * p
    BY <2>1 DEF NextAfter
  <2>4. \A x : Fires(timing, i, anchor, x) <=> (x - from) % p = 0
    BY <2>1 DEF Fires
  <2> HIDE DEF p, from
  <2>5. q \in Int /\ q * p <= after - from /\ after - from < q * p + p
    BY <2>1, <2>2, DivisionBounds
  <2> HIDE DEF q
  <2>6. (q + 1) * p = q * p + p /\ q * p \in Int
    BY <2>1, <2>5
  <2>7. from + (q + 1) * p \in Nat /\ from + (q + 1) * p > after
    BY <2>1, <2>2, <2>5, <2>6
  <2>8. ((q + 1) * p) % p = 0
    BY <2>1, <2>5, MultipleOfPeriod
  <2>9. ASSUME NEW x \in Nat, x > after, (x - from) % p = 0
        PROVE  from + (q + 1) * p <= x
    <3> DEFINE k == (x - from) \div p
    <3>1. k \in Int /\ x - from = k * p
      BY <2>1, <2>2, <2>9
    <3> HIDE DEF k
    <3>2. k * p > q * p
      BY <2>1, <2>2, <2>5, <2>9, <3>1
    <3>3. k >= q + 1
      BY <2>1, <2>5, <3>1, <3>2
    <3>4. k * p >= (q + 1) * p
      BY <2>1, <2>5, <3>1, <3>3
    <3> QED  BY <2>1, <2>2, <2>5, <2>6, <3>1, <3>4
  <2>10. (from + (q + 1) * p) - from = (q + 1) * p
    BY <2>1, <2>2, <2>5, <2>6
  <2> QED  BY <2>3, <2>4, <2>7, <2>8, <2>9, <2>10
<1> QED  BY <1>1, <1>2 DEF Timings

-----------------------------------------------------------------------------
(* The inductive invariant.                                                *)

\* Frontiers lie in the past of the clock where they were observed and belong to
\* the retained selection.
FrontierInv ==
    \A n \in Names :
        /\ schedules[n].anchor_at <= clock
        /\ schedules[n].until # Null => schedules[n].until <= clock
        /\ schedules[n].activation # Null => schedules[n].activation <= scope.revision
        /\ schedules[n].activation = Null =>
              schedules[n].next_at = Null /\ schedules[n].until = Null
              /\ schedules[n].remaining = Null
        /\ Live(n) => /\ scope.activation # Null
                      /\ schedules[n].activation = scope.activation

\* Every frontier is ahead of what its schedule has published.
AheadInv ==
    \A o \in occurrences :
        /\ o.at <= clock
        /\ schedules[o.name].next_at # Null => o.at < schedules[o.name].next_at

\* Every frontier is an instant of its timing under the prepared calendar.
FiresInv ==
    \A n \in Names : Live(n) =>
        Fires(schedules[n].definition.timing, prepared[activations[scope.activation]],
              schedules[n].anchor_at, schedules[n].next_at)

SchedulingInv ==
    /\ TypeOK
    /\ LatestCommandDecides
    /\ CalendarReads
    /\ FrontierInv
    /\ AheadInv
    /\ FiresInv
    /\ InstantsDeclared
    /\ InstantsOnce

\* What the assumptions say of Null and of revisions.
LEMMA Constants ==
    /\ MaxRevision \in Nat /\ MaxTime \in Nat
    /\ Null \notin Nat /\ Null \notin Revisions /\ Null \notin 0..MaxTime
    /\ Null \notin Deployments /\ Null \notin Interpretations
    /\ Revisions \subseteq Nat \ {0}
    /\ \A v \in Revisions : v \in 1..MaxRevision /\ v \in 0..MaxRevision
BY SchedulingAssumption DEF Revisions

\* What the invariant says of a live frontier.
LEMMA LiveFrontier ==
    ASSUME SchedulingInv, NEW n \in Names, Live(n)
    PROVE  LET d == activations[scope.activation]
           IN  /\ scope.activation \in Revisions /\ d \in Deployments
               /\ prepared[d] \in Interpretations
               /\ n \in DOMAIN Definition[d]
               /\ schedules[n].activation = scope.activation
               /\ schedules[n].revision = scope.activation
               /\ schedules[n].next_at \in Nat
               /\ schedules[n].definition = Definition[d][n]
               /\ Definition[d][n] \in Descriptors
               /\ Definition[d][n].timing \in Timings
               /\ Definition[d][n].backfill \in Nat
               /\ CatchUpReads(schedules[n])
<1> DEFINE d == activations[scope.activation]
<1>1. scope.activation # Null /\ schedules[n].activation = scope.activation
  BY DEF SchedulingInv, FrontierInv
<1>2. scope.activation \in Revisions
  BY <1>1 DEF SchedulingInv, TypeOK, Activations
<1>3. d \in Deployments
  BY <1>1, <1>2 DEF SchedulingInv, TypeOK, LatestCommandDecides
<1>4. prepared[d] \in Interpretations
  BY <1>1, <1>3 DEF SchedulingInv, TypeOK, CalendarReads
<1>5. RestoreReads(d)
  BY <1>1 DEF SchedulingInv, CalendarReads
<1>6. n \in DOMAIN Definition[d]
  BY <1>1, <1>5 DEF RestoreReads
<1>7. Definition[d][n] \in Descriptors
  BY <1>3, <1>6, DefinitionAssumption
<1>8. schedules[n].next_at \in Nat
  BY <1>5, <1>6 DEF RestoreReads, SchedulingInv, TypeOK, ScheduleRows, Instants
<1> QED  BY <1>1, <1>2, <1>3, <1>4, <1>5, <1>6, <1>7, <1>8 DEF RestoreReads, Descriptors, Timings

-----------------------------------------------------------------------------
(* Steps that leave the frontiers alone.                                   *)

\* An app without a selection satisfies the invariant.
LEMMA InitEstablishes == Init => SchedulingInv
<1> SUFFICES ASSUME Init PROVE SchedulingInv
  OBVIOUS
<1> USE Constants
<1>1. NoSchedule \in ScheduleRows /\ NoWindow \in Windows
  BY DEF NoSchedule, ScheduleRows, NoWindow, Windows, Activations, Instants
<1>2. \A n \in Names : ~Live(n) /\ schedules[n] = NoSchedule
  BY DEF Init, Live, Stored, NoSchedule
<1>3. TypeOK
  BY <1>1 DEF Init, TypeOK, NoScope, Activations
<1>4. LatestCommandDecides
  BY DEF Init, LatestCommandDecides, NoScope
<1>5. CalendarReads
  BY <1>2 DEF Init, CalendarReads, ScopeReads, NoScope
<1>6. FrontierInv /\ AheadInv /\ FiresInv /\ InstantsDeclared /\ InstantsOnce
  BY <1>2 DEF Init, FrontierInv, AheadInv, FiresInv, InstantsDeclared, InstantsOnce, NoSchedule
<1> QED  BY <1>3, <1>4, <1>5, <1>6 DEF SchedulingInv

\* A preparation stamps a deployment that was not prepared, so none in use.
LEMMA PrepareStep ==
    ASSUME SchedulingInv, NEW d \in Deployments, NEW r \in Replicas, Prepare(d, r)
    PROVE  SchedulingInv'
<1> USE Constants
<1>1. \A e \in Deployments : prepared[e] # Null => prepared'[e] = prepared[e]
  BY DEF Prepare, SchedulingInv, TypeOK
<1>2. UNCHANGED <<clock, scope, activations, disables, schedules, occurrences, window>>
  BY DEF Prepare
<1>3. TypeOK'
  BY <1>2, SchedulingAssumption DEF Prepare, SchedulingInv, TypeOK
<1>4. LatestCommandDecides' /\ FrontierInv' /\ AheadInv' /\ InstantsOnce'
  BY <1>2 DEF SchedulingInv, LatestCommandDecides, FrontierInv, AheadInv, InstantsOnce, Live, Stored
<1>5. scope.activation # Null =>
         /\ activations[scope.activation] \in Deployments
         /\ prepared[activations[scope.activation]] # Null
         /\ prepared'[activations[scope.activation]] = prepared[activations[scope.activation]]
  BY <1>1 DEF SchedulingInv, TypeOK, LatestCommandDecides, CalendarReads, Activations
<1>6. CalendarReads'
  BY <1>2, <1>5 DEF SchedulingInv, CalendarReads, ScopeReads, RestoreReads, CatchUpReads,
                    Live, Stored, Selected
<1>7. FiresInv'
  <2> SUFFICES ASSUME NEW n \in Names, Live(n)'
               PROVE  Fires(schedules[n].definition.timing,
                            prepared'[activations[scope.activation]],
                            schedules[n].anchor_at, schedules[n].next_at)
    BY <1>2 DEF FiresInv
  <2>1. Live(n)
    BY <1>2 DEF Live, Stored
  <2>2. scope.activation # Null
    BY <2>1 DEF SchedulingInv, FrontierInv
  <2> QED  BY <1>5, <2>1, <2>2 DEF SchedulingInv, FiresInv
<1>8. InstantsDeclared'
  <2> SUFFICES ASSUME NEW o \in occurrences
               PROVE  LET e == activations[o.revision]
                      IN  /\ e # Null /\ prepared'[e] # Null
                          /\ o.name \in DOMAIN Definition[e]
                          /\ Fires(Definition[e][o.name].timing, prepared'[e], o.anchor, o.at)
    BY <1>2 DEF InstantsDeclared
  <2>1. activations[o.revision] # Null /\ o.revision \in Revisions
    BY DEF SchedulingInv, TypeOK, InstantsDeclared
  <2>2. activations[o.revision] \in Deployments
    BY <2>1 DEF SchedulingInv, TypeOK
  <2> QED  BY <1>1, <2>2 DEF SchedulingInv, InstantsDeclared
<1> QED  BY <1>3, <1>4, <1>6, <1>7, <1>8 DEF SchedulingInv

\* A disable moves the fence and keeps the selection and its frontiers.
LEMMA DisableStep ==
    ASSUME SchedulingInv, NEW v \in Revisions, Disable(v)
    PROVE  SchedulingInv'
<1> USE Constants
<1>1. UNCHANGED <<clock, prepared, activations, schedules, occurrences, window>>
  BY DEF Disable
<1>2. /\ activations[v] = Null /\ scope.revision < v
      /\ disables' = disables \cup {v}
      /\ scope'.revision = v /\ scope'.enabled = FALSE
      /\ scope'.activation = scope.activation
      /\ scope' \in [revision : 0..MaxRevision, enabled : BOOLEAN, activation : Activations]
  BY DEF Disable, SchedulingInv, TypeOK
<1>3. scope.revision \in Nat
  BY DEF SchedulingInv, TypeOK
<1>4. TypeOK'
  BY <1>1, <1>2 DEF SchedulingInv, TypeOK
<1>5. LatestCommandDecides'
  BY <1>1, <1>2, <1>3 DEF SchedulingInv, LatestCommandDecides
<1>6. scope.activation # Null => scope.activation < v /\ activations[scope.activation] # Null
  <2> SUFFICES ASSUME scope.activation # Null
               PROVE  scope.activation < v /\ activations[scope.activation] # Null
    OBVIOUS
  <2>1. scope.activation \in Revisions
    BY DEF SchedulingInv, TypeOK, Activations
  <2>2. activations[scope.activation] # Null /\ scope.activation <= scope.revision
    BY <2>1 DEF SchedulingInv, LatestCommandDecides
  <2>3. scope.activation \in Nat /\ v \in Nat
    BY <2>1
  <2>4. scope.activation < v
    BY <1>2, <1>3, <2>2, <2>3
  <2> QED  BY <2>2, <2>4
<1>7. CalendarReads'
  BY <1>1, <1>2, <1>6 DEF SchedulingInv, CalendarReads, ScopeReads, RestoreReads,
                          CatchUpReads, Live, Stored
<1>8. FrontierInv'
  <2> SUFFICES ASSUME NEW n \in Names
               PROVE  /\ schedules[n].anchor_at <= clock
                      /\ schedules[n].until # Null => schedules[n].until <= clock
                      /\ schedules[n].activation # Null => schedules[n].activation <= v
                      /\ schedules[n].activation = Null =>
                            schedules[n].next_at = Null /\ schedules[n].until = Null
                            /\ schedules[n].remaining = Null
                      /\ Live(n) => /\ scope.activation # Null
                                    /\ schedules[n].activation = scope.activation
    BY <1>1, <1>2 DEF FrontierInv, Live, Stored
  <2>1. schedules[n].activation \in Revisions \cup {Null}
    BY DEF SchedulingInv, TypeOK, ScheduleRows, Activations
  <2> QED  BY <1>2, <1>3, <2>1 DEF SchedulingInv, FrontierInv
<1>9. AheadInv' /\ FiresInv' /\ InstantsDeclared' /\ InstantsOnce'
  BY <1>1, <1>2 DEF SchedulingInv, AheadInv, FiresInv, InstantsDeclared, InstantsOnce, Live, Stored
<1> QED  BY <1>4, <1>5, <1>7, <1>8, <1>9 DEF SchedulingInv

\* Time passing keeps every frontier and every occurrence in its past.
LEMMA TickStep ==
    ASSUME SchedulingInv, Tick
    PROVE  SchedulingInv'
<1> USE Constants
<1>1. UNCHANGED <<prepared, scope, activations, disables, schedules, occurrences, window>>
  BY DEF Tick
<1>2. clock \in Nat /\ clock' = clock + 1 /\ clock' \in 0..MaxTime
  BY DEF Tick, SchedulingInv, TypeOK
<1>3. TypeOK'
  BY <1>1, <1>2 DEF SchedulingInv, TypeOK
<1>4. \A x \in Nat : x <= clock => x <= clock'
  BY <1>2
<1>5. \A n \in Names : schedules[n].anchor_at \in Nat
                       /\ (schedules[n].until # Null => schedules[n].until \in Nat)
  BY DEF SchedulingInv, TypeOK, ScheduleRows
<1>6. FrontierInv'
  BY <1>1, <1>4, <1>5 DEF SchedulingInv, FrontierInv, Live, Stored
<1>7. \A o \in occurrences : o.at \in Nat
  BY DEF SchedulingInv, TypeOK
<1>8. AheadInv'
  BY <1>1, <1>4, <1>7 DEF SchedulingInv, AheadInv
<1>9. LatestCommandDecides' /\ CalendarReads'
  BY <1>1 DEF SchedulingInv, LatestCommandDecides, CalendarReads, ScopeReads, RestoreReads,
              CatchUpReads, Live, Stored, Selected
<1>10. FiresInv' /\ InstantsDeclared' /\ InstantsOnce'
  BY <1>1 DEF SchedulingInv, FiresInv, InstantsDeclared, InstantsOnce, Live, Stored
<1> QED  BY <1>3, <1>6, <1>8, <1>9, <1>10 DEF SchedulingInv

-----------------------------------------------------------------------------
(* Activation.                                                             *)

\* What every activation does to the selection.
LEMMA ActivationSelects ==
    ASSUME SchedulingInv, NEW v \in Revisions, NEW d \in Deployments, NEW r \in Replicas,
           Activate(v, d, r)
    PROVE  /\ UNCHANGED <<clock, prepared, disables, occurrences>>
           /\ activations[v] = Null /\ v \notin disables
           /\ scope.revision \in Nat /\ scope.revision < v
           /\ activations' \in [Revisions -> Deployments \cup {Null}]
           /\ activations'[v] = d
           /\ \A u \in Revisions : u # v => activations'[u] = activations[u]
           /\ scope' = [revision |-> v, enabled |-> TRUE, activation |-> v]
           /\ prepared[d] = r.interpretation /\ r.interpretation \in Interpretations
           /\ LatestCommandDecides'
           /\ ScopeReads'
           /\ InstantsDeclared'
           /\ InstantsOnce'
<1> USE Constants
<1>1. /\ UNCHANGED <<clock, prepared, disables, occurrences>>
      /\ activations[v] = Null /\ v \notin disables
      /\ scope.revision \in Nat /\ scope.revision < v
      /\ activations' \in [Revisions -> Deployments \cup {Null}]
      /\ activations'[v] = d
      /\ \A u \in Revisions : u # v => activations'[u] = activations[u]
      /\ scope' = [revision |-> v, enabled |-> TRUE, activation |-> v]
      /\ prepared[d] = r.interpretation /\ r.interpretation \in Interpretations
  BY SchedulingAssumption DEF Activate, SchedulingInv, TypeOK
<1>2. scope'.revision = v /\ scope'.enabled /\ scope'.activation = v /\ d # Null
  BY <1>1
<1>3. LatestCommandDecides'
  <2>1. ASSUME NEW u \in Revisions
        PROVE  /\ ~(activations'[u] # Null /\ u \in disables')
               /\ activations'[u] # Null \/ u \in disables' => u <= scope'.revision
               /\ activations'[u] # Null => scope'.activation # Null /\ u <= scope'.activation
    BY <1>1, <1>2, <2>1 DEF SchedulingInv, LatestCommandDecides
  <2> QED  BY <1>1, <1>2, <2>1 DEF LatestCommandDecides
<1>4. ScopeReads'
  BY <1>1, <1>2 DEF ScopeReads
<1>5. InstantsDeclared'
  <2> SUFFICES ASSUME NEW o \in occurrences
               PROVE  LET e == activations'[o.revision]
                      IN  /\ e # Null /\ prepared[e] # Null
                          /\ o.name \in DOMAIN Definition[e]
                          /\ Fires(Definition[e][o.name].timing, prepared[e], o.anchor, o.at)
    BY <1>1 DEF InstantsDeclared
  <2>1. activations[o.revision] # Null /\ o.revision \in Revisions
    BY DEF SchedulingInv, TypeOK, InstantsDeclared
  <2>2. activations'[o.revision] = activations[o.revision]
    BY <1>1, <2>1
  <2> QED  BY <2>2 DEF SchedulingInv, InstantsDeclared
<1>6. InstantsOnce'
  BY <1>1 DEF SchedulingInv, InstantsOnce
<1> QED  BY <1>1, <1>3, <1>4, <1>5, <1>6

\* What a restore leaves in a row.
LEMMA RestoredRow ==
    ASSUME NEW row \in ScheduleRows, NEW v \in Revisions
    PROVE  /\ Moved(row, v) \in ScheduleRows
           /\ Moved(row, v).activation = v /\ Moved(row, v).revision = v
           /\ Moved(row, v).definition = row.definition
           /\ Moved(row, v).next_at = row.next_at
           /\ Moved(row, v).anchor_at = row.anchor_at
           /\ Moved(row, v).until = row.until
           /\ Moved(row, v).remaining = row.remaining
BY Constants DEF ScheduleRows, Activations, Moved

\* A restore moves exactly the retained frontiers to the new activation.
LEMMA RestoreStep ==
    ASSUME SchedulingInv, NEW v \in Revisions, NEW d \in Deployments, NEW r \in Replicas,
           Activate(v, d, r), Restores(d)
    PROVE  SchedulingInv'
<1> USE Constants
<1> DEFINE D == DOMAIN Definition[d]
<1>1. /\ RestoreReads(d) /\ UNCHANGED window
      /\ schedules' = Restored(d, v)
      /\ scope.activation \in Revisions /\ activations[scope.activation] = d
  BY DEF Activate, Restores, SchedulingInv, TypeOK, Activations
<1>2. D \subseteq Names
  BY DefinitionAssumption
<1>3. /\ UNCHANGED <<clock, prepared, disables, occurrences>>
      /\ activations' \in [Revisions -> Deployments \cup {Null}]
      /\ activations'[v] = d
      /\ scope'.revision = v /\ scope'.enabled /\ scope'.activation = v
      /\ scope' \in [revision : 0..MaxRevision, enabled : BOOLEAN, activation : Activations]
      /\ scope.revision \in Nat /\ scope.revision < v
      /\ prepared[d] \in Interpretations
  <2>1. /\ UNCHANGED <<clock, prepared, disables, occurrences>>
        /\ activations' \in [Revisions -> Deployments \cup {Null}]
        /\ activations'[v] = d
        /\ scope.revision \in Nat /\ scope.revision < v
        /\ scope' = [revision |-> v, enabled |-> TRUE, activation |-> v]
        /\ prepared[d] \in Interpretations
    BY ActivationSelects
  <2> QED  BY <2>1 DEF Activations
<1>4. \A n \in Names : schedules[n] \in ScheduleRows
  BY DEF SchedulingInv, TypeOK
<1>5. \A n \in D : /\ schedules'[n] \in ScheduleRows
                   /\ schedules'[n].activation = v /\ schedules'[n].revision = v
                   /\ schedules'[n].definition = schedules[n].definition
                   /\ schedules'[n].next_at = schedules[n].next_at
                   /\ schedules'[n].anchor_at = schedules[n].anchor_at
                   /\ schedules'[n].until = schedules[n].until
                   /\ schedules'[n].remaining = schedules[n].remaining
  <2> TAKE n \in D
  <2>1. schedules'[n] = Moved(schedules[n], v)
    BY <1>1, <1>2 DEF Restored
  <2>2. schedules[n] \in ScheduleRows
    BY <1>2, <1>4
  <2> QED  BY <2>1, <2>2, RestoredRow
<1>6. \A n \in Names \ D : schedules'[n] = schedules[n]
  BY <1>1 DEF Restored
<1>7. schedules' \in [Names -> ScheduleRows]
  <2>1. schedules' = [n \in Names |-> schedules'[n]]
    BY <1>1 DEF Restored
  <2>2. \A n \in Names : schedules'[n] \in ScheduleRows
    BY <1>4, <1>5, <1>6
  <2> QED  BY <2>1, <2>2
<1>8. \A n \in Names : Live(n) <=> n \in D
  BY <1>1, <1>2 DEF RestoreReads, SchedulingInv, FrontierInv
<1>9. \A n \in Names : Live(n)' <=> n \in D
  <2>1. \A n \in D : Live(n)'
    BY <1>1, <1>2, <1>5, <1>8 DEF Live, Stored
  <2>2. \A n \in Names \ D : Live(n)' <=> Live(n)
    BY <1>6 DEF Live, Stored
  <2> QED  BY <1>2, <1>8, <2>1, <2>2
<1>10. \A n \in Names \ D : schedules'[n].activation # v
  BY <1>3, <1>4, <1>6 DEF SchedulingInv, FrontierInv, ScheduleRows, Activations
<1>11. RestoreReads(d)'
  <2>1. {n \in Names : schedules'[n].activation = v /\ Live(n)'} = D
    BY <1>2, <1>5, <1>9
  <2>2. \A n \in D : /\ schedules'[n].revision = v /\ schedules'[n].next_at # Null
                     /\ schedules'[n].definition = Definition[d][n]
                     /\ CatchUpReads(schedules'[n])
    BY <1>1, <1>5 DEF RestoreReads, CatchUpReads
  <2> QED  BY <1>3, <2>1, <2>2 DEF RestoreReads
<1>12. TypeOK'
  BY <1>1, <1>3, <1>7 DEF SchedulingInv, TypeOK
<1>13. CalendarReads'
  <2>1. \A n \in Names : Live(n)' => Selected(n)'
    BY <1>3, <1>5, <1>9 DEF Selected
  <2>2. ScopeReads'
    BY ActivationSelects
  <2> QED  BY <1>3, <1>11, <2>1, <2>2 DEF CalendarReads
<1>14. FrontierInv'
  <2> SUFFICES ASSUME NEW n \in Names
               PROVE  /\ schedules'[n].anchor_at <= clock
                      /\ schedules'[n].until # Null => schedules'[n].until <= clock
                      /\ schedules'[n].activation # Null => schedules'[n].activation <= v
                      /\ schedules'[n].activation = Null =>
                            schedules'[n].next_at = Null /\ schedules'[n].until = Null
                            /\ schedules'[n].remaining = Null
                      /\ Live(n)' => schedules'[n].activation = v
    BY <1>3 DEF FrontierInv
  <2>1. CASE n \in D
    BY <1>5, <2>1 DEF SchedulingInv, FrontierInv
  <2>2. CASE n \notin D
    <3>1. schedules[n].activation \in Revisions \cup {Null}
      BY <1>4 DEF ScheduleRows, Activations
    <3> QED  BY <1>3, <1>6, <1>9, <2>2, <3>1 DEF SchedulingInv, FrontierInv
  <2> QED  BY <2>1, <2>2
<1>15. AheadInv'
  <2>1. \A n \in Names : schedules'[n].next_at = schedules[n].next_at
    BY <1>5, <1>6
  <2>2. \A o \in occurrences : o.name \in Names
    BY DEF SchedulingInv, TypeOK
  <2> QED  BY <1>3, <2>1, <2>2 DEF SchedulingInv, AheadInv
<1>16. FiresInv'
  <2> SUFFICES ASSUME NEW n \in D
               PROVE  Fires(schedules'[n].definition.timing, prepared[d],
                            schedules'[n].anchor_at, schedules'[n].next_at)
    BY <1>3, <1>9 DEF FiresInv
  <2> QED  BY <1>1, <1>2, <1>5, <1>8 DEF SchedulingInv, FiresInv
<1> QED  BY <1>12, <1>13, <1>14, <1>15, <1>16, ActivationSelects DEF SchedulingInv

\* What an installation writes: a frontier ahead of the clock.
LEMMA InstalledRow ==
    ASSUME clock \in 0..MaxTime, NEW definition \in Descriptors, NEW v \in Revisions,
           NEW i \in Interpretations
    PROVE  LET row == Install(definition, v, i)
           IN  /\ row \in ScheduleRows
               /\ row.activation = v /\ row.revision = v /\ row.definition = definition
               /\ row.next_at \in Nat /\ row.next_at > clock
               /\ row.anchor_at = clock
               /\ row.until = Null /\ row.remaining = Null
               /\ Fires(definition.timing, i, row.anchor_at, row.next_at)
<1> USE Constants
<1> DEFINE next == NextAfter(definition.timing, i, clock, clock)
<1>1. definition.timing \in Timings
  BY DEF Descriptors, Timings
<1>2. next \in Nat /\ next > clock /\ Fires(definition.timing, i, clock, next)
  BY <1>1, NextAfterIsLeast
<1>3. Install(definition, v, i) =
        [activation |-> v, revision |-> v, definition |-> definition, next_at |-> next,
         anchor_at |-> clock, until |-> Null, remaining |-> Null]
  BY DEF Install
<1> HIDE DEF next
<1>4. Install(definition, v, i) \in ScheduleRows
  BY <1>2, <1>3 DEF ScheduleRows, Activations, Instants
<1> QED  BY <1>2, <1>3, <1>4

\* What a replacement leaves of a frontier that is no longer declared.
LEMMA ClearedRow ==
    ASSUME NEW row \in ScheduleRows
    PROVE  /\ Cleared(row) \in ScheduleRows
           /\ Cleared(row).activation = row.activation
           /\ Cleared(row).anchor_at = row.anchor_at
           /\ Cleared(row).next_at = Null
           /\ Cleared(row).until = Null
           /\ Cleared(row).remaining = Null
BY DEF ScheduleRows, Cleared, Instants

\* A replacement leaves exactly the deployment's own frontiers, ahead of now.
LEMMA ReplaceStep ==
    ASSUME SchedulingInv, NEW v \in Revisions, NEW d \in Deployments, NEW r \in Replicas,
           Activate(v, d, r), ~Restores(d)
    PROVE  SchedulingInv'
<1> USE Constants
<1> DEFINE D == DOMAIN Definition[d]
           i == r.interpretation
<1>1. schedules' = Replaced(d, v, i) /\ window' = [n \in Names |-> NoWindow]
  BY DEF Activate
<1>2. D \subseteq Names /\ \A n \in D : Definition[d][n] \in Descriptors
  BY DefinitionAssumption
<1>3. /\ UNCHANGED <<clock, prepared, disables, occurrences>>
      /\ activations' \in [Revisions -> Deployments \cup {Null}]
      /\ activations'[v] = d
      /\ scope'.revision = v /\ scope'.enabled /\ scope'.activation = v
      /\ scope' \in [revision : 0..MaxRevision, enabled : BOOLEAN, activation : Activations]
      /\ scope.revision \in Nat /\ scope.revision < v
      /\ prepared[d] = i /\ i \in Interpretations
  <2>1. /\ UNCHANGED <<clock, prepared, disables, occurrences>>
        /\ activations' \in [Revisions -> Deployments \cup {Null}]
        /\ activations'[v] = d
        /\ scope.revision \in Nat /\ scope.revision < v
        /\ scope' = [revision |-> v, enabled |-> TRUE, activation |-> v]
        /\ prepared[d] = i /\ i \in Interpretations
    BY ActivationSelects
  <2> QED  BY <2>1 DEF Activations
<1> HIDE DEF i
<1>4. clock \in 0..MaxTime /\ \A n \in Names : schedules[n] \in ScheduleRows
  BY DEF SchedulingInv, TypeOK
<1>5. \A n \in D : /\ schedules'[n] \in ScheduleRows
                   /\ schedules'[n].activation = v /\ schedules'[n].revision = v
                   /\ schedules'[n].definition = Definition[d][n]
                   /\ schedules'[n].next_at \in Nat /\ schedules'[n].next_at > clock
                   /\ schedules'[n].anchor_at = clock
                   /\ schedules'[n].until = Null /\ schedules'[n].remaining = Null
                   /\ Fires(Definition[d][n].timing, i, schedules'[n].anchor_at,
                            schedules'[n].next_at)
  <2> TAKE n \in D
  <2>1. schedules'[n] = Install(Definition[d][n], v, i)
    BY <1>1, <1>2 DEF Replaced
  <2> QED  BY <1>2, <1>3, <1>4, <2>1, InstalledRow
<1>6. \A n \in Names \ D : /\ schedules'[n] \in ScheduleRows
                           /\ schedules'[n].activation = schedules[n].activation
                           /\ schedules'[n].anchor_at = schedules[n].anchor_at
                           /\ schedules'[n].next_at = Null
                           /\ schedules'[n].until = Null /\ schedules'[n].remaining = Null
  <2> TAKE n \in Names \ D
  <2>1. schedules'[n] = Cleared(schedules[n])
    BY <1>1 DEF Replaced
  <2> QED  BY <1>4, <2>1, ClearedRow
<1>7. schedules' \in [Names -> ScheduleRows]
  <2>1. schedules' = [n \in Names |-> schedules'[n]]
    BY <1>1 DEF Replaced
  <2>2. \A n \in Names : schedules'[n] \in ScheduleRows
    BY <1>5, <1>6
  <2> QED  BY <2>1, <2>2
<1>8. NoWindow \in Windows
  BY DEF NoWindow, Windows
<1>9. TypeOK'
  BY <1>1, <1>3, <1>7, <1>8 DEF SchedulingInv, TypeOK
<1>10. \A n \in Names : Live(n)' <=> n \in D
  BY <1>2, <1>5, <1>6 DEF Live, Stored
<1>11. RestoreReads(d)'
  <2>1. {n \in Names : schedules'[n].activation = v /\ Live(n)'} = D
    BY <1>2, <1>5, <1>10
  <2>2. \A n \in D : /\ schedules'[n].revision = v /\ schedules'[n].next_at # Null
                     /\ schedules'[n].definition = Definition[d][n]
                     /\ CatchUpReads(schedules'[n])
    BY <1>5 DEF CatchUpReads
  <2> QED  BY <1>3, <2>1, <2>2 DEF RestoreReads
<1>12. CalendarReads'
  <2>1. \A n \in Names : Live(n)' => Selected(n)'
    BY <1>3, <1>5, <1>10 DEF Selected
  <2>2. ScopeReads'
    BY ActivationSelects
  <2> QED  BY <1>3, <1>11, <2>1, <2>2 DEF CalendarReads
<1>13. FrontierInv'
  <2> SUFFICES ASSUME NEW n \in Names
               PROVE  /\ schedules'[n].anchor_at <= clock
                      /\ schedules'[n].until # Null => schedules'[n].until <= clock
                      /\ schedules'[n].activation # Null => schedules'[n].activation <= v
                      /\ schedules'[n].activation = Null =>
                            schedules'[n].next_at = Null /\ schedules'[n].until = Null
                            /\ schedules'[n].remaining = Null
                      /\ Live(n)' => schedules'[n].activation = v
    BY <1>3 DEF FrontierInv
  <2>1. CASE n \in D
    BY <1>4, <1>5, <2>1
  <2>2. CASE n \notin D
    <3>1. schedules[n].activation \in Revisions \cup {Null}
      BY <1>4 DEF ScheduleRows, Activations
    <3>2. /\ schedules[n].anchor_at <= clock
          /\ schedules[n].activation # Null => schedules[n].activation <= scope.revision
      BY DEF SchedulingInv, FrontierInv
    <3>3. ASSUME schedules[n].activation # Null PROVE schedules[n].activation <= v
      <4>1. schedules[n].activation \in Nat /\ v \in Nat
        BY <3>1, <3>3
      <4> QED  BY <1>3, <3>2, <3>3, <4>1
    <3> QED  BY <1>6, <1>10, <2>2, <3>2, <3>3
  <2> QED  BY <2>1, <2>2
<1>14. AheadInv'
  <2> SUFFICES ASSUME NEW o \in occurrences
               PROVE  /\ o.at <= clock
                      /\ schedules'[o.name].next_at # Null => o.at < schedules'[o.name].next_at
    BY <1>3 DEF AheadInv
  <2>1. o.name \in Names /\ o.at \in Nat /\ o.at <= clock
    BY DEF SchedulingInv, TypeOK, AheadInv
  <2> QED  BY <1>4, <1>5, <1>6, <2>1
<1>15. FiresInv'
  <2> SUFFICES ASSUME NEW n \in D
               PROVE  Fires(schedules'[n].definition.timing, prepared[d],
                            schedules'[n].anchor_at, schedules'[n].next_at)
    BY <1>3, <1>10 DEF FiresInv
  <2> QED  BY <1>3, <1>5
<1> QED  BY <1>9, <1>12, <1>13, <1>14, <1>15, ActivationSelects DEF SchedulingInv

-----------------------------------------------------------------------------
(* Publication.                                                            *)

\* MinOf is a lower bound of its arguments.
LEMMA MinOfFacts ==
    ASSUME NEW a \in Nat, NEW b \in Nat
    PROVE  MinOf(a, b) \in Nat /\ MinOf(a, b) <= a /\ MinOf(a, b) <= b
BY DEF MinOf

\* A walk is finite, within its boundary, and made of its start and of instants
\* of the timing.
LEMMA WalkFacts ==
    ASSUME NEW definition, NEW i, NEW anchor, NEW from \in Nat, NEW until \in Nat,
           from <= until
    PROVE  /\ IsFiniteSet(Walk(definition, i, anchor, from, until))
           /\ \A x \in Walk(definition, i, anchor, from, until) :
                 /\ x \in Nat /\ from <= x /\ x <= until
                 /\ x = from \/ Fires(definition.timing, i, anchor, x)
<1>1. IsFiniteSet(from..until)
  BY FS_Interval
<1>2. Walk(definition, i, anchor, from, until) \subseteq from..until
  BY DEF Walk
<1>3. IsFiniteSet(Walk(definition, i, anchor, from, until))
  BY <1>1, <1>2, FS_Subset
<1> QED  BY <1>2, <1>3 DEF Walk

\* Every declaration lets at least one instant through.
LEMMA AllowancePositive ==
    ASSUME NEW definition \in Descriptors
    PROVE  Allowance(definition) \in Nat \ {0}
BY DEF Allowance, Descriptors

\* The observation a page works on lies between the frontier and now, with an
\* allowance left.
LEMMA ObservedFacts ==
    ASSUME SchedulingInv, NEW n \in Names, Live(n), schedules[n].next_at <= clock,
           NEW r \in Replicas
    PROVE  /\ Observed(schedules[n], r).until \in 0..MaxTime
           /\ Observed(schedules[n], r).until <= clock
           /\ schedules[n].next_at <= Observed(schedules[n], r).until
           /\ Observed(schedules[n], r).remaining \in Nat \ {0}
           /\ Observed(schedules[n], r).remaining <= Allowance(schedules[n].definition)
<1> USE Constants
<1> DEFINE row == schedules[n]
<1>1. row.definition \in Descriptors /\ CatchUpReads(row)
  BY LiveFrontier
<1>2. Allowance(row.definition) \in Nat \ {0}
  BY <1>1, AllowancePositive
<1>3. r.max_backfill \in Nat \ {0}
  BY SchedulingAssumption
<1>4. /\ clock \in 0..MaxTime
      /\ row.until # Null => row.until \in 0..MaxTime /\ row.until <= clock
      /\ row.remaining # Null => row.remaining \in Nat \ {0}
  BY DEF SchedulingInv, TypeOK, ScheduleRows, FrontierInv
<1>5. CASE row.until = Null
  <2>1. Observed(row, r) = [until |-> clock,
                            remaining |-> MinOf(Allowance(row.definition), r.max_backfill)]
    BY <1>5 DEF Observed
  <2>2. MinOf(Allowance(row.definition), r.max_backfill) \in Nat \ {0}
        /\ MinOf(Allowance(row.definition), r.max_backfill) <= Allowance(row.definition)
    BY <1>2, <1>3 DEF MinOf
  <2> QED  BY <1>4, <2>1, <2>2
<1>6. CASE row.until # Null
  <2>1. Observed(row, r) = [until |-> row.until, remaining |-> row.remaining]
    BY <1>6 DEF Observed
  <2>2. /\ row.remaining # Null /\ row.next_at <= row.until
        /\ row.remaining <= Allowance(row.definition)
    BY <1>1, <1>6 DEF CatchUpReads
  <2> QED  BY <1>4, <1>6, <2>1, <2>2
<1> QED  BY <1>5, <1>6

\* What one dispatched page does: instants between the frontier and now, each an
\* instant of the declared timing, and a cursor past all of them, with an
\* allowance left whenever the window stays open.  The page is the beginning of
\* the walk to the boundary: all of it up to the cursor or, when the window
\* closes, all of it or all that the allowance lets through.
Pages(n, page, cursor, until, left) ==
    LET row == schedules[n]
        i == prepared[activations[scope.activation]]
        walk == Walk(row.definition, i, row.anchor_at, row.next_at, until)
    IN  /\ \A x \in page : /\ x \in Nat /\ row.next_at <= x /\ x <= clock /\ x < cursor
                           /\ Fires(row.definition.timing, i, row.anchor_at, x)
        /\ cursor \in Nat /\ row.next_at < cursor
        /\ Fires(row.definition.timing, i, row.anchor_at, cursor)
        /\ until \in 0..MaxTime /\ until <= clock
        /\ left \in Nat /\ left <= Allowance(row.definition)
        /\ cursor <= until => left # 0
        /\ schedules' = [schedules EXCEPT ![n] = Advanced(row, cursor, until, left)]
        /\ occurrences' = occurrences \cup
              {[name |-> n, revision |-> row.revision, at |-> x,
                anchor |-> row.anchor_at] : x \in page}
        /\ row.next_at <= until
        /\ page \subseteq walk /\ Cardinality(page) \in Nat
        /\ \A x \in page, y \in walk \ page : x < y
        /\ cursor <= until => page = {x \in walk : x < cursor}
        /\ cursor > until => left = 0 \/ page = walk
        /\ row.until # Null => /\ until = row.until
                               /\ left + Cardinality(page) = row.remaining
        /\ window' = [window EXCEPT ![n] =
              Recorded(n, [until |-> until, remaining |-> left + Cardinality(page)], cursor)]

\* A dispatch publishes such a page.
LEMMA DispatchPages ==
    ASSUME SchedulingInv, NEW n \in Names, NEW r \in Replicas, Dispatch(n, r)
    PROVE  /\ Live(n) /\ scope.enabled
           /\ UNCHANGED <<clock, prepared, scope, activations, disables>>
           /\ window' \in [Names -> Windows]
           /\ \E page, cursor, until, left : Pages(n, page, cursor, until, left)
<1> USE Constants
<1> DEFINE row == schedules[n]
           i == r.interpretation
           seen == Observed(row, r)
           walk == Walk(row.definition, i, row.anchor_at, row.next_at, seen.until)
<1>1. Live(n)
  BY DEF Dispatch, SchedulingInv, FrontierInv, Live, Stored
<1>2. i = prepared[activations[scope.activation]] /\ i \in Interpretations
  BY <1>1, LiveFrontier DEF Dispatch, Readable
<1>3. /\ row.next_at \in Nat /\ row.next_at <= clock
      /\ row.definition \in Descriptors /\ row.definition.timing \in Timings
      /\ row.anchor_at \in 0..MaxTime /\ clock \in 0..MaxTime
  BY <1>1, LiveFrontier DEF Dispatch, SchedulingInv, TypeOK, ScheduleRows
<1>4. /\ seen.until \in 0..MaxTime /\ seen.until <= clock /\ row.next_at <= seen.until
      /\ seen.remaining \in Nat \ {0} /\ seen.remaining <= Allowance(row.definition)
  BY <1>1, <1>3, ObservedFacts
<1>5. PICK page \in SUBSET walk : \E last \in page :
          LET left == seen.remaining - Cardinality(page)
              cursor == Cursor(row, i, last, seen.until, left)
          IN  /\ IsPage(page, walk, MinOf(r.page_size, seen.remaining))
              /\ \A x \in page : x <= last
              /\ schedules' = [schedules EXCEPT ![n] = Advanced(row, cursor, seen.until, left)]
              /\ occurrences' = occurrences \cup
                    {[name |-> n, revision |-> row.revision, at |-> x,
                      anchor |-> row.anchor_at] : x \in page}
              /\ window' = [window EXCEPT ![n] = Recorded(n, seen, cursor)]
  BY DEF Dispatch
<1> DEFINE left == seen.remaining - Cardinality(page)
<1>6. PICK last \in page :
          LET cursor == Cursor(row, i, last, seen.until, left)
          IN  /\ IsPage(page, walk, MinOf(r.page_size, seen.remaining))
              /\ \A x \in page : x <= last
              /\ schedules' = [schedules EXCEPT ![n] = Advanced(row, cursor, seen.until, left)]
              /\ occurrences' = occurrences \cup
                    {[name |-> n, revision |-> row.revision, at |-> x,
                      anchor |-> row.anchor_at] : x \in page}
              /\ window' = [window EXCEPT ![n] = Recorded(n, seen, cursor)]
  BY <1>5
<1> DEFINE cursor == Cursor(row, i, last, seen.until, left)
<1> HIDE DEF seen, i
<1>7. IsFiniteSet(walk) /\ \A x \in walk :
          /\ x \in Nat /\ row.next_at <= x /\ x <= seen.until
          /\ x = row.next_at \/ Fires(row.definition.timing, i, row.anchor_at, x)
  BY <1>3, <1>4, WalkFacts
<1>8. /\ left \in Nat /\ left <= Allowance(row.definition)
      /\ Cardinality(page) \in Nat /\ left + Cardinality(page) = seen.remaining
  <2>1. Cardinality(walk) \in Nat
    BY <1>7, FS_CardinalityType
  <2>2. r.page_size \in Nat
    BY SchedulingAssumption
  <2>3. MinOf(r.page_size, seen.remaining) \in Nat
        /\ MinOf(r.page_size, seen.remaining) <= seen.remaining
    BY <1>4, <2>2, MinOfFacts
  <2>4. Cardinality(page) \in Nat /\ Cardinality(page) <= MinOf(r.page_size, seen.remaining)
    BY <1>6, <2>1, <2>3, MinOfFacts DEF IsPage
  <2>5. Allowance(row.definition) \in Nat
    BY <1>3, AllowancePositive
  <2> QED  BY <1>4, <2>3, <2>4, <2>5
<1>9. last \in Nat /\ last \in 0..MaxTime /\ last <= seen.until /\ row.next_at <= last
  BY <1>4, <1>6, <1>7
<1> DEFINE next == NextAfter(row.definition.timing, i, last, row.anchor_at)
           beyond == NextAfter(row.definition.timing, i, seen.until, row.anchor_at)
<1>10. /\ next \in Nat /\ next > last
       /\ Fires(row.definition.timing, i, row.anchor_at, next)
       /\ \A x \in Nat : x > last /\ Fires(row.definition.timing, i, row.anchor_at, x)
                         => next <= x
  BY <1>2, <1>3, <1>9, NextAfterIsLeast
<1>11. /\ beyond \in Nat /\ beyond > seen.until
       /\ Fires(row.definition.timing, i, row.anchor_at, beyond)
  BY <1>2, <1>3, <1>4, NextAfterIsLeast
<1>12. cursor = IF left = 0 /\ next <= seen.until THEN beyond ELSE next
  BY DEF Cursor
<1> HIDE DEF left, cursor, next, beyond, walk
<1>13. /\ cursor \in Nat /\ cursor > last /\ row.next_at < cursor
       /\ Fires(row.definition.timing, i, row.anchor_at, cursor)
       /\ cursor <= seen.until => left # 0
  BY <1>3, <1>4, <1>9, <1>10, <1>11, <1>12
<1>14. \A x \in page : /\ x \in Nat /\ row.next_at <= x /\ x <= clock /\ x < cursor
                       /\ Fires(row.definition.timing, i, row.anchor_at, x)
  <2> TAKE x \in page
  <2>1. /\ x \in Nat /\ row.next_at <= x /\ x <= seen.until
        /\ x = row.next_at \/ Fires(row.definition.timing, i, row.anchor_at, x)
    BY <1>7
  <2>2. x <= last
    BY <1>6
  <2>3. Fires(row.definition.timing, i, row.anchor_at, row.next_at)
    BY <1>1, <1>2 DEF SchedulingInv, FiresInv
  <2>4. x <= clock /\ x < cursor
    BY <1>3, <1>4, <1>9, <1>13, <2>1, <2>2
  <2> QED  BY <2>1, <2>3, <2>4
<1>15. \A y \in walk \ page : y \in Nat /\ y > last /\ next <= y /\ y <= seen.until
  <2> TAKE y \in walk \ page
  <2>1. /\ y \in Nat /\ row.next_at <= y /\ y <= seen.until
        /\ y = row.next_at \/ Fires(row.definition.timing, i, row.anchor_at, y)
    BY <1>7
  <2>2. last < y
    BY <1>6 DEF IsPage
  <2>3. y # row.next_at
    BY <1>3, <1>9, <2>1, <2>2
  <2> QED  BY <1>10, <2>1, <2>2, <2>3
<1>16. cursor <= seen.until => page = {x \in walk : x < cursor}
  <2> SUFFICES ASSUME cursor <= seen.until PROVE page = {x \in walk : x < cursor}
    OBVIOUS
  <2>1. cursor = next
    BY <1>4, <1>11, <1>12, <1>13
  <2>2. \A x \in page : x \in walk /\ x < cursor
    BY <1>5, <1>14
  <2>3. \A y \in walk \ page : ~(y < cursor)
    BY <1>10, <1>15, <2>1
  <2> QED  BY <2>2, <2>3
<1>17. cursor > seen.until => left = 0 \/ page = walk
  <2> SUFFICES ASSUME cursor > seen.until, left # 0 PROVE page = walk
    BY <1>8
  <2>1. cursor = next
    BY <1>12
  <2>2. \A y \in walk \ page : FALSE
    BY <1>4, <1>10, <1>15, <2>1
  <2> QED  BY <1>5, <2>2
<1>18. schedules[n].until # Null => /\ seen.until = row.until
                                   /\ left + Cardinality(page) = row.remaining
  BY <1>8 DEF seen, Observed
<1>19. \A x \in page, y \in walk \ page : x < y
  BY <1>6 DEF IsPage
<1>20. window' = [window EXCEPT ![n] = Recorded(n, [until |-> seen.until,
                     remaining |-> left + Cardinality(page)], cursor)]
  <2>1. window' = [window EXCEPT ![n] = Recorded(n, seen, cursor)]
    BY <1>6 DEF cursor
  <2>2. seen = [until |-> seen.until, remaining |-> seen.remaining]
    BY DEF seen, Observed
  <2> QED  BY <1>8, <2>1, <2>2
<1>21. Pages(n, page, cursor, seen.until, left)
  <2>1. schedules' = [schedules EXCEPT ![n] = Advanced(row, cursor, seen.until, left)]
        /\ occurrences' = occurrences \cup
              {[name |-> n, revision |-> row.revision, at |-> x,
                anchor |-> row.anchor_at] : x \in page}
    BY <1>6 DEF cursor
  <2>2. walk = Walk(row.definition, prepared[activations[scope.activation]], row.anchor_at,
                    row.next_at, seen.until)
    BY <1>2 DEF walk
  <2> QED  BY <1>2, <1>4, <1>5, <1>8, <1>13, <1>14, <1>16, <1>17, <1>18, <1>19, <1>20,
              <2>1, <2>2 DEF Pages
<1>22. window' \in [Names -> Windows]
  <2>1. window' = [window EXCEPT ![n] = Recorded(n, seen, cursor)]
    BY <1>6 DEF cursor
  <2>2. window \in [Names -> Windows]
    BY DEF SchedulingInv, TypeOK
  <2>3. [state |-> "open", from |-> row.next_at, until |-> seen.until,
         allowance |-> seen.remaining] \in Windows
    BY <1>3, <1>4 DEF Windows
  <2>4. \A w \in Windows, s \in {"none", "open", "closed"} : [w EXCEPT !.state = s] \in Windows
    BY DEF Windows
  <2>5. Recorded(n, seen, cursor) \in Windows
    BY <2>2, <2>3, <2>4 DEF Recorded
  <2> QED  BY <2>1, <2>2, <2>5
<1> QED  BY <1>1, <1>21, <1>22 DEF Dispatch, Selected

\* What a page leaves in a row: the boundary and the rest of the allowance while
\* the cursor is inside the window, neither once it is past it.
LEMMA AdvancedRow ==
    ASSUME NEW row \in ScheduleRows, NEW cursor \in Nat, NEW until \in 0..MaxTime,
           NEW left \in Nat, cursor <= until => left # 0
    PROVE  /\ Advanced(row, cursor, until, left) \in ScheduleRows
           /\ Advanced(row, cursor, until, left).activation = row.activation
           /\ Advanced(row, cursor, until, left).revision = row.revision
           /\ Advanced(row, cursor, until, left).definition = row.definition
           /\ Advanced(row, cursor, until, left).anchor_at = row.anchor_at
           /\ Advanced(row, cursor, until, left).next_at = cursor
           /\ \/ /\ cursor <= until
                 /\ Advanced(row, cursor, until, left).until = until
                 /\ Advanced(row, cursor, until, left).remaining = left
              \/ /\ cursor > until
                 /\ Advanced(row, cursor, until, left).until = Null
                 /\ Advanced(row, cursor, until, left).remaining = Null
<1> DEFINE u == IF cursor <= until THEN until ELSE Null
           m == IF cursor <= until THEN left ELSE Null
<1>1. u \in 0..MaxTime \cup {Null} /\ m \in (Nat \ {0}) \cup {Null}
  OBVIOUS
<1>2. \/ cursor <= until /\ u = until /\ m = left
      \/ cursor > until /\ u = Null /\ m = Null
  OBVIOUS
<1>3. Advanced(row, cursor, until, left)
        = [row EXCEPT !.next_at = cursor, !.until = u, !.remaining = m]
  BY DEF Advanced
<1> HIDE DEF u, m
<1> QED  BY <1>1, <1>2, <1>3 DEF ScheduleRows, Instants

\* A page publishes instants between the frontier and now and moves the frontier
\* past them, so nothing it publishes was or will be published again.
LEMMA DispatchStep ==
    ASSUME SchedulingInv, NEW n \in Names, NEW r \in Replicas, Dispatch(n, r)
    PROVE  SchedulingInv'
<1> USE Constants
<1> DEFINE row == schedules[n]
           d == activations[scope.activation]
<1>1. /\ Live(n) /\ scope.enabled
      /\ UNCHANGED <<clock, prepared, scope, activations, disables>>
      /\ window' \in [Names -> Windows]
      /\ \E page, cursor, until, left : Pages(n, page, cursor, until, left)
  BY DispatchPages
<1>2. PICK page, cursor, until, left : Pages(n, page, cursor, until, left)
  BY <1>1
<1>3. /\ scope.activation \in Revisions /\ d \in Deployments
      /\ prepared[d] \in Interpretations
      /\ n \in DOMAIN Definition[d]
      /\ row.activation = scope.activation /\ row.revision = scope.activation
      /\ row.next_at \in Nat
      /\ row.definition = Definition[d][n]
  BY <1>1, LiveFrontier
<1>4. row \in ScheduleRows /\ schedules \in [Names -> ScheduleRows] /\ row.anchor_at \in 0..MaxTime
  BY DEF SchedulingInv, TypeOK, ScheduleRows
<1>5. /\ \A x \in page : /\ x \in Nat /\ row.next_at <= x /\ x <= clock /\ x < cursor
                         /\ Fires(row.definition.timing, prepared[d], row.anchor_at, x)
      /\ cursor \in Nat /\ row.next_at < cursor
      /\ Fires(row.definition.timing, prepared[d], row.anchor_at, cursor)
      /\ until \in 0..MaxTime /\ until <= clock
      /\ left \in Nat /\ left <= Allowance(row.definition)
      /\ cursor <= until => left # 0
  BY <1>2 DEF Pages
<1> DEFINE new == Advanced(row, cursor, until, left)
           fresh == {[name |-> n, revision |-> row.revision, at |-> x,
                      anchor |-> row.anchor_at] : x \in page}
<1>6. schedules' = [schedules EXCEPT ![n] = new] /\ occurrences' = occurrences \cup fresh
  BY <1>2 DEF Pages
<1>7. /\ new \in ScheduleRows
      /\ new.activation = row.activation /\ new.revision = row.revision
      /\ new.definition = row.definition /\ new.anchor_at = row.anchor_at
      /\ new.next_at = cursor
      /\ \/ cursor <= until /\ new.until = until /\ new.remaining = left
         \/ new.until = Null /\ new.remaining = Null
  <2>1. /\ row \in ScheduleRows /\ cursor \in Nat /\ until \in 0..MaxTime /\ left \in Nat
        /\ cursor <= until => left # 0
    BY <1>4, <1>5
  <2> HIDE DEF row
  <2> QED  BY <2>1, AdvancedRow
<1> HIDE DEF new
<1>8. /\ schedules' \in [Names -> ScheduleRows] /\ schedules'[n] = new
      /\ \A k \in Names : k # n => schedules'[k] = schedules[k]
  BY <1>4, <1>6, <1>7
<1>9. \A o \in fresh : /\ o.name = n /\ o.revision = scope.activation
                       /\ o.at \in page /\ o.anchor = row.anchor_at
                       /\ o = [name |-> n, revision |-> row.revision, at |-> o.at,
                               anchor |-> row.anchor_at]
  BY <1>3
<1>10. fresh \subseteq [name : Names, revision : Revisions, at : Nat, anchor : 0..MaxTime]
  BY <1>3, <1>4, <1>5
<1> HIDE DEF fresh
<1>11. TypeOK'
  BY <1>1, <1>6, <1>8, <1>10 DEF SchedulingInv, TypeOK
<1>12. LatestCommandDecides'
  BY <1>1 DEF SchedulingInv, LatestCommandDecides
<1>13. \A k \in Names : Live(k)' <=> Live(k)
  <2>1. Live(n)'
    BY <1>1, <1>3, <1>5, <1>7, <1>8 DEF Live, Stored
  <2>2. \A k \in Names : k # n => (Live(k)' <=> Live(k))
    BY <1>8 DEF Live, Stored
  <2> QED  BY <1>1, <2>1, <2>2
<1>14. \A k \in Names : /\ schedules'[k].activation = schedules[k].activation
                        /\ schedules'[k].revision = schedules[k].revision
                        /\ schedules'[k].definition = schedules[k].definition
                        /\ schedules'[k].anchor_at = schedules[k].anchor_at
  BY <1>7, <1>8
<1>15. CatchUpReads(new) /\ new.next_at # Null
  BY <1>5, <1>7 DEF CatchUpReads
<1>16. CalendarReads'
  <2>1. RestoreReads(d)
    BY <1>3 DEF SchedulingInv, CalendarReads
  <2>2. DOMAIN Definition[d] \subseteq Names
    BY <1>3, DefinitionAssumption
  <2>3. RestoreReads(d)'
    <3>1. {k \in Names : schedules'[k].activation = scope.activation /\ Live(k)'}
            = {k \in Names : schedules[k].activation = scope.activation /\ Live(k)}
      BY <1>13, <1>14
    <3>2. \A k \in DOMAIN Definition[d] :
              /\ schedules'[k].revision = scope.activation
              /\ schedules'[k].next_at # Null
              /\ schedules'[k].definition = Definition[d][k]
              /\ CatchUpReads(schedules'[k])
      BY <1>8, <1>14, <1>15, <2>1, <2>2 DEF RestoreReads
    <3> QED  BY <1>1, <2>1, <3>1, <3>2 DEF RestoreReads
  <2>4. ScopeReads'
    BY <1>1 DEF SchedulingInv, CalendarReads, ScopeReads
  <2>5. \A k \in Names : Live(k)' => Selected(k)'
    BY <1>1, <1>13, <1>14 DEF SchedulingInv, CalendarReads, Selected
  <2> QED  BY <1>1, <1>3, <2>3, <2>4, <2>5 DEF CalendarReads
<1>17. FrontierInv'
  <2> SUFFICES ASSUME NEW k \in Names
               PROVE  /\ schedules'[k].anchor_at <= clock
                      /\ schedules'[k].until # Null => schedules'[k].until <= clock
                      /\ schedules'[k].activation # Null => schedules'[k].activation <= scope.revision
                      /\ schedules'[k].activation = Null =>
                            schedules'[k].next_at = Null /\ schedules'[k].until = Null
                            /\ schedules'[k].remaining = Null
                      /\ Live(k)' => /\ scope.activation # Null
                                     /\ schedules'[k].activation = scope.activation
    BY <1>1 DEF FrontierInv
  <2>1. CASE k = n
    BY <1>3, <1>5, <1>7, <1>8, <2>1 DEF SchedulingInv, FrontierInv
  <2>2. CASE k # n
    BY <1>8, <1>13, <2>2 DEF SchedulingInv, FrontierInv
  <2> QED  BY <2>1, <2>2
<1>18. AheadInv'
  <2> SUFFICES ASSUME NEW o \in occurrences \cup fresh
               PROVE  /\ o.at <= clock
                      /\ schedules'[o.name].next_at # Null => o.at < schedules'[o.name].next_at
    BY <1>1, <1>6 DEF AheadInv
  <2>1. CASE o \in fresh
    BY <1>5, <1>7, <1>8, <1>9, <2>1
  <2>2. CASE o \in occurrences
    <3>1. o.name \in Names /\ o.at \in Nat
      BY <2>2 DEF SchedulingInv, TypeOK
    <3>2. /\ o.at <= clock
          /\ schedules[o.name].next_at # Null => o.at < schedules[o.name].next_at
      BY <2>2 DEF SchedulingInv, AheadInv
    <3>3. CASE o.name = n
      BY <1>3, <1>5, <1>7, <1>8, <3>1, <3>2, <3>3
    <3>4. CASE o.name # n
      BY <1>8, <3>1, <3>2, <3>4
    <3> QED  BY <3>3, <3>4
  <2> QED  BY <2>1, <2>2
<1>19. FiresInv'
  <2> SUFFICES ASSUME NEW k \in Names, Live(k)
               PROVE  Fires(schedules'[k].definition.timing, prepared[d],
                            schedules'[k].anchor_at, schedules'[k].next_at)
    BY <1>1, <1>13 DEF FiresInv
  <2>1. CASE k = n
    BY <1>5, <1>7, <1>8, <2>1
  <2>2. CASE k # n
    BY <1>8, <2>2 DEF SchedulingInv, FiresInv
  <2> QED  BY <2>1, <2>2
<1>20. InstantsDeclared'
  <2> SUFFICES ASSUME NEW o \in occurrences \cup fresh
               PROVE  LET e == activations[o.revision]
                      IN  /\ e # Null /\ prepared[e] # Null
                          /\ o.name \in DOMAIN Definition[e]
                          /\ Fires(Definition[e][o.name].timing, prepared[e], o.anchor, o.at)
    BY <1>1, <1>6 DEF InstantsDeclared
  <2>1. CASE o \in fresh
    BY <1>3, <1>5, <1>9, <2>1
  <2>2. CASE o \in occurrences
    BY <2>2 DEF SchedulingInv, InstantsDeclared
  <2> QED  BY <2>1, <2>2
<1>21. InstantsOnce'
  <2> SUFFICES ASSUME NEW o \in occurrences \cup fresh, NEW p \in occurrences \cup fresh,
                      o.name = p.name, o.at = p.at
               PROVE  o = p
    BY <1>6 DEF InstantsOnce
  <2>1. \A a \in occurrences, b \in fresh : a.name = b.name => a.at # b.at
    <3> SUFFICES ASSUME NEW a \in occurrences, NEW b \in fresh, a.name = b.name
                 PROVE  a.at # b.at
      OBVIOUS
    <3>1. a.name = n /\ b.at \in page
      BY <1>9
    <3>2. a.at \in Nat /\ a.at < row.next_at
      BY <1>3, <3>1 DEF SchedulingInv, TypeOK, AheadInv
    <3> QED  BY <1>3, <1>5, <3>1, <3>2
  <2>2. CASE o \in occurrences /\ p \in occurrences
    BY <2>2 DEF SchedulingInv, InstantsOnce
  <2>3. CASE o \in fresh /\ p \in fresh
    BY <1>9, <2>3
  <2> QED  BY <2>1, <2>2, <2>3
<1> QED  BY <1>11, <1>12, <1>16, <1>17, <1>18, <1>19, <1>20, <1>21 DEF SchedulingInv

-----------------------------------------------------------------------------
(* Pages compose.                                                          *)

\* What a catch-up observation w of a row has published, P, against what it had
\* to walk through.  While it is open the row carries its boundary and the rest
\* of its allowance, and P is exactly the part of the walk behind the frontier:
\* that is what makes the next page start where the last one ended.
Composed(w, row, i, P) ==
    LET walk == Walk(row.definition, i, row.anchor_at, w.from, w.until)
    IN  /\ w.from <= w.until
        /\ P \subseteq walk
        /\ \A x \in P, y \in walk \ P : x < y
        /\ w.state = "open" => /\ row.until = w.until
                               /\ row.remaining # Null
                               /\ Cardinality(P) + row.remaining = w.allowance
                               /\ w.from <= row.next_at
                               /\ P = {x \in walk : x < row.next_at}
        /\ w.state = "closed" => /\ row.until = Null
                                 /\ Cardinality(P) = MinOf(w.allowance, Cardinality(walk))

\* An observation belongs to a live frontier; a row without one has no boundary
\* saved.
CatchUpOf(n) ==
    /\ window[n].state = "none" => schedules[n].until = Null
    /\ window[n].state # "none" =>
          /\ Live(n)
          /\ Composed(window[n], schedules[n], prepared[activations[schedules[n].activation]],
                      PublishedIn(n, window[n]))

CatchUpInv == \A n \in Names : CatchUpOf(n)

\* A published prefix of a finite walk that spent its allowance, or is all of the
\* walk, is as large as the two allow.
LEMMA PrefixCount ==
    ASSUME NEW walk, IsFiniteSet(walk), NEW P \in SUBSET walk, NEW left \in Nat,
           left = 0 \/ P = walk
    PROVE  /\ Cardinality(P) \in Nat
           /\ Cardinality(P) = MinOf(Cardinality(P) + left, Cardinality(walk))
<1> DEFINE a == Cardinality(P)
           b == Cardinality(walk)
<1>1. IsFiniteSet(P) /\ a <= b
  BY FS_Subset
<1>2. a \in Nat /\ b \in Nat
  BY <1>1, FS_CardinalityType
<1>3. P = walk => a = b
  OBVIOUS
<1> HIDE DEF a, b
<1>4. a = MinOf(a + left, b)
  BY <1>1, <1>2, <1>3 DEF MinOf
<1> QED  BY <1>2, <1>4 DEF a, b

\* The row after a page and the observation it belongs to (Advanced, Recorded).
PageSaved(row, new, w, cursor, until, left) ==
    /\ new.definition = row.definition /\ new.anchor_at = row.anchor_at
    /\ new.next_at = cursor
    /\ cursor <= until => new.until = until /\ new.remaining = left
    /\ cursor > until => new.until = Null
    /\ w.until = until
    /\ w.state = IF cursor <= until THEN "open" ELSE "closed"

\* The first page of an observation is composed.
LEMMA FirstPage ==
    ASSUME NEW row, NEW new, NEW i, NEW w, NEW page, NEW cursor \in Nat, NEW until \in Nat,
           NEW left \in Nat, row.next_at \in Nat, row.next_at <= until, row.next_at < cursor,
           Null \notin Nat,
           PageSaved(row, new, w, cursor, until, left),
           w.from = row.next_at,
           w.allowance = Cardinality(page) + left,
           page \subseteq Walk(row.definition, i, row.anchor_at, row.next_at, until),
           \A x \in page, y \in Walk(row.definition, i, row.anchor_at, row.next_at, until) \ page :
              x < y,
           cursor <= until =>
              page = {x \in Walk(row.definition, i, row.anchor_at, row.next_at, until) : x < cursor},
           cursor > until =>
              left = 0 \/ page = Walk(row.definition, i, row.anchor_at, row.next_at, until)
    PROVE  Composed(w, new, i, page)
<1> DEFINE walk == Walk(row.definition, i, row.anchor_at, row.next_at, until)
<1>1. IsFiniteSet(walk)
  BY WalkFacts
<1>2. walk = Walk(new.definition, i, new.anchor_at, w.from, w.until)
  BY DEF PageSaved
<1> HIDE DEF walk
<1>3. CASE cursor <= until
  <2>1. w.state = "open" /\ new.until = w.until /\ new.remaining = left /\ new.next_at = cursor
    BY <1>3 DEF PageSaved
  <2>2. w.from <= new.next_at /\ left # Null
    BY <2>1
  <2> QED  BY <1>2, <1>3, <2>1, <2>2 DEF Composed, walk, PageSaved
<1>4. CASE ~(cursor <= until)
  <2>1. w.state = "closed" /\ new.until = Null
    BY <1>4 DEF PageSaved
  <2>2. left = 0 \/ page = walk
    BY <1>4 DEF walk
  <2>3. Cardinality(page) = MinOf(w.allowance, Cardinality(walk))
    BY <1>1, <2>2, PrefixCount DEF walk
  <2> QED  BY <1>2, <2>1, <2>3 DEF Composed, walk, PageSaved
<1> QED  BY <1>3, <1>4

\* A further page continues where the frontier stood: the walk from the frontier
\* is what the observation has left, and what it adds comes off the allowance.
LEMMA NextPage ==
    ASSUME NEW row, NEW new, NEW i, NEW old, NEW w, NEW P, NEW page,
           NEW cursor \in Nat, NEW until \in Nat, NEW left \in Nat,
           row.next_at \in Nat, row.next_at <= until, row.next_at < cursor,
           Null \notin Nat, row.remaining \in Nat,
           Fires(row.definition.timing, i, row.anchor_at, row.next_at),
           Composed(old, row, i, P), old.state = "open",
           old.from \in Nat, w.from = old.from, w.allowance = old.allowance, old.until = until,
           PageSaved(row, new, w, cursor, until, left),
           Cardinality(page) \in Nat, left + Cardinality(page) = row.remaining,
           page \subseteq Walk(row.definition, i, row.anchor_at, row.next_at, until),
           \A x \in page, y \in Walk(row.definition, i, row.anchor_at, row.next_at, until) \ page :
              x < y,
           cursor <= until =>
              page = {x \in Walk(row.definition, i, row.anchor_at, row.next_at, until) : x < cursor},
           cursor > until =>
              left = 0 \/ page = Walk(row.definition, i, row.anchor_at, row.next_at, until)
    PROVE  Composed(w, new, i, P \cup page)
<1> DEFINE rest == Walk(row.definition, i, row.anchor_at, row.next_at, until)
           walk == Walk(row.definition, i, row.anchor_at, old.from, until)
           now == P \cup page
<1>1. /\ old.from <= until /\ old.from <= row.next_at
      /\ P = {x \in walk : x < row.next_at}
      /\ Cardinality(P) + row.remaining = old.allowance
  BY DEF Composed
<1>2. /\ IsFiniteSet(walk)
      /\ \A x \in walk : /\ x \in Nat /\ old.from <= x /\ x <= until
                         /\ x = old.from \/ Fires(row.definition.timing, i, row.anchor_at, x)
  BY <1>1, WalkFacts
<1>3. \A x \in rest : x \in Nat /\ row.next_at <= x /\ x <= until
  BY WalkFacts
<1>4. rest = {x \in walk : row.next_at <= x}
  <2>1. ASSUME NEW x \in rest PROVE x \in walk
    <3>1. /\ x \in Nat /\ row.next_at <= x /\ x <= until
          /\ Fires(row.definition.timing, i, row.anchor_at, x)
      BY WalkFacts
    <3> QED  BY <1>1, <3>1 DEF Walk
  <2>2. ASSUME NEW x \in walk, row.next_at <= x PROVE x \in rest
    <3>1. x \in Nat /\ x <= until
      BY <1>2
    <3>2. CASE x = old.from
      <4>1. x = row.next_at
        BY <1>1, <2>2, <3>2
      <4> QED  BY <4>1 DEF Walk
    <3>3. CASE Fires(row.definition.timing, i, row.anchor_at, x)
      BY <2>2, <3>1, <3>3 DEF Walk
    <3> QED  BY <1>2, <3>2, <3>3
  <2> QED  BY <1>3, <2>1, <2>2
<1>5. walk = Walk(new.definition, i, new.anchor_at, w.from, w.until)
  BY DEF PageSaved
<1>6. /\ page \subseteq rest
      /\ \A x \in page, y \in rest \ page : x < y
      /\ cursor <= until => page = {x \in rest : x < cursor}
      /\ cursor > until => left = 0 \/ page = rest
  OBVIOUS
<1> HIDE DEF walk, rest
<1>7. now \subseteq walk
  BY <1>1, <1>4, <1>6
<1>8. \A x \in now, y \in walk \ now : x < y
  <2> SUFFICES ASSUME NEW x \in now, NEW y \in walk \ now PROVE x < y
    OBVIOUS
  <2>1. y \in Nat /\ x \in Nat
    BY <1>2, <1>7
  <2>2. y \in rest \ page /\ row.next_at <= y
    BY <1>1, <1>4, <2>1
  <2>3. CASE x \in P
    BY <1>1, <2>1, <2>2, <2>3
  <2>4. CASE x \in page
    BY <1>6, <2>2, <2>4
  <2> QED  BY <2>3, <2>4
<1>9. Cardinality(now) = Cardinality(P) + Cardinality(page) /\ Cardinality(P) \in Nat
  <2>1. IsFiniteSet(P) /\ IsFiniteSet(page)
    BY <1>1, <1>2, <1>4, <1>6, FS_Subset
  <2>2. P \cap page = {}
    BY <1>1, <1>2, <1>3, <1>6
  <2>3. Cardinality(now) = Cardinality(P) + Cardinality(page) - Cardinality({})
    BY <2>1, <2>2, FS_Union
  <2>4. Cardinality({}) = 0 /\ Cardinality(P) \in Nat
    BY <2>1, FS_EmptySet, FS_CardinalityType
  <2> QED  BY <2>3, <2>4
<1>10. Cardinality(now) + left = w.allowance
  <2> DEFINE a == Cardinality(P)
             b == Cardinality(page)
             c == Cardinality(now)
  <2>1. c = a + b /\ a \in Nat /\ b \in Nat /\ left + b = row.remaining
        /\ a + row.remaining = w.allowance
    BY <1>1, <1>9
  <2> HIDE DEF a, b, c
  <2>2. c + left = w.allowance
    BY <2>1
  <2> QED  BY <2>2 DEF c
<1>11. CASE cursor <= until
  <2>1. w.state = "open" /\ new.until = w.until /\ new.remaining = left /\ new.next_at = cursor
    BY <1>11 DEF PageSaved
  <2>2. now = {x \in walk : x < cursor}
    <3>1. ASSUME NEW x \in now PROVE x \in walk /\ x < cursor
      BY <1>1, <1>2, <1>6, <1>7, <1>11, <3>1
    <3>2. ASSUME NEW x \in walk, x < cursor PROVE x \in now
      BY <1>1, <1>2, <1>4, <1>6, <1>11, <3>2
    <3> QED  BY <3>1, <3>2
  <2>3. w.from <= new.next_at /\ left # Null /\ w.from <= w.until
    BY <1>1, <2>1 DEF PageSaved
  <2> HIDE DEF now
  <2> QED  BY <1>5, <1>7, <1>8, <1>10, <2>1, <2>2, <2>3 DEF Composed, now
<1>12. CASE ~(cursor <= until)
  <2>1. w.state = "closed" /\ new.until = Null /\ w.from <= w.until
    BY <1>1, <1>12 DEF PageSaved
  <2>2. left = 0 \/ now = walk
    <3>1. page = rest => now = walk
      BY <1>1, <1>2, <1>4
    <3> QED  BY <1>6, <1>12, <3>1
  <2> HIDE DEF now
  <2>3. Cardinality(now) = MinOf(w.allowance, Cardinality(walk))
    BY <1>2, <1>7, <1>10, <2>2, PrefixCount
  <2> QED  BY <1>5, <1>7, <1>8, <2>1, <2>3 DEF Composed, now
<1> QED  BY <1>11, <1>12

\* No observation is open before the first page.
LEMMA InitComposes == Init => CatchUpInv
BY DEF Init, CatchUpInv, CatchUpOf, NoWindow, NoSchedule

\* Commands that leave the frontiers alone, and the clock, leave what an
\* observation has published and the calendar it was walked under.
LEMMA OthersCompose ==
    ASSUME SchedulingInv, CatchUpInv,
           UNCHANGED <<activations, schedules, occurrences, window>>,
           \A e \in Deployments : prepared[e] # Null => prepared'[e] = prepared[e]
    PROVE  CatchUpInv'
<1> SUFFICES ASSUME NEW n \in Names, window[n].state # "none"
             PROVE  Composed(window[n], schedules[n],
                             prepared'[activations[schedules[n].activation]],
                             PublishedIn(n, window[n]))
  BY DEF CatchUpInv, CatchUpOf, PublishedIn, Live, Stored
<1>1. Live(n) /\ Composed(window[n], schedules[n], prepared[activations[schedules[n].activation]],
                          PublishedIn(n, window[n]))
  BY DEF CatchUpInv, CatchUpOf
<1>2. /\ activations[schedules[n].activation] \in Deployments
      /\ prepared[activations[schedules[n].activation]] \in Interpretations
  BY <1>1, LiveFrontier
<1>3. prepared'[activations[schedules[n].activation]]
         = prepared[activations[schedules[n].activation]]
  BY <1>2, Constants
<1> QED  BY <1>1, <1>3

\* A restored row keeps its cursor, its catch-up state and its deployment, and so
\* its observation.
LEMMA RestoreComposes ==
    ASSUME SchedulingInv, CatchUpInv, NEW v \in Revisions, NEW d \in Deployments,
           NEW r \in Replicas, Activate(v, d, r), Restores(d)
    PROVE  CatchUpInv'
<1> USE Constants
<1> DEFINE D == DOMAIN Definition[d]
<1>1. /\ RestoreReads(d) /\ UNCHANGED window /\ schedules' = Restored(d, v)
      /\ activations[scope.activation] = d
  BY DEF Activate, Restores
<1>2. UNCHANGED <<prepared, occurrences>> /\ activations'[v] = d
  BY ActivationSelects
<1>3. \A n \in Names : schedules[n] \in ScheduleRows
  BY DEF SchedulingInv, TypeOK
<1> SUFFICES ASSUME NEW n \in Names PROVE CatchUpOf(n)'
  BY DEF CatchUpInv, CatchUpOf
<1>4. PublishedIn(n, window[n])' = PublishedIn(n, window[n])
  BY <1>1, <1>2 DEF PublishedIn
<1>5. CASE n \in D
  <2>1. schedules'[n] = Moved(schedules[n], v)
    BY <1>1, <1>5 DEF Restored
  <2>2. /\ schedules'[n].activation = v
        /\ schedules'[n].definition = schedules[n].definition
        /\ schedules'[n].next_at = schedules[n].next_at
        /\ schedules'[n].anchor_at = schedules[n].anchor_at
        /\ schedules'[n].until = schedules[n].until
        /\ schedules'[n].remaining = schedules[n].remaining
    BY <1>3, <2>1, RestoredRow
  <2>3. CASE window[n].state = "none"
    BY <1>1, <2>2, <2>3 DEF CatchUpInv, CatchUpOf
  <2>4. CASE window[n].state # "none"
    <3>1. Live(n) /\ Composed(window[n], schedules[n],
                              prepared[activations[schedules[n].activation]],
                              PublishedIn(n, window[n]))
      BY <2>4 DEF CatchUpInv, CatchUpOf
    <3>2. activations[schedules[n].activation] = d
      BY <1>1, <3>1, LiveFrontier
    <3>3. Live(n)'
      BY <2>2, <3>1 DEF Live, Stored
    <3>4. Composed(window[n], schedules'[n], prepared[d], PublishedIn(n, window[n]))
      BY <2>2, <3>1, <3>2 DEF Composed
    <3> QED  BY <1>1, <1>2, <1>4, <2>2, <2>4, <3>3, <3>4 DEF CatchUpOf
  <2> QED  BY <2>3, <2>4
<1>6. CASE n \notin D
  <2>1. schedules'[n] = schedules[n]
    BY <1>1, <1>6 DEF Restored
  <2>2. ~Live(n)
    BY <1>1, <1>6 DEF RestoreReads, SchedulingInv, FrontierInv
  <2>3. window[n].state = "none" /\ schedules[n].until = Null
    BY <2>2 DEF CatchUpInv, CatchUpOf
  <2> QED  BY <1>1, <2>1, <2>3 DEF CatchUpOf
<1> QED  BY <1>5, <1>6

\* A replacement abandons every observation and every saved boundary.
LEMMA ReplaceComposes ==
    ASSUME SchedulingInv, NEW v \in Revisions, NEW d \in Deployments, NEW r \in Replicas,
           Activate(v, d, r), ~Restores(d)
    PROVE  CatchUpInv'
<1>1. schedules' = Replaced(d, v, r.interpretation) /\ window' = [n \in Names |-> NoWindow]
  BY DEF Activate
<1> SUFFICES ASSUME NEW n \in Names
             PROVE  window'[n].state = "none" /\ schedules'[n].until = Null
  BY DEF CatchUpInv, CatchUpOf
<1>2. window'[n].state = "none"
  BY <1>1 DEF NoWindow
<1>3. CASE n \in DOMAIN Definition[d]
  BY <1>1, <1>2, <1>3 DEF Replaced, Install
<1>4. CASE n \notin DOMAIN Definition[d]
  <2>1. schedules'[n] = Cleared(schedules[n]) /\ schedules[n] \in ScheduleRows
    BY <1>1, <1>4 DEF Replaced, SchedulingInv, TypeOK
  <2> QED  BY <1>2, <2>1, ClearedRow
<1> QED  BY <1>2, <1>3, <1>4

\* A page opens an observation or continues the stored one.
LEMMA DispatchComposes ==
    ASSUME SchedulingInv, CatchUpInv, NEW n \in Names, NEW r \in Replicas, Dispatch(n, r)
    PROVE  CatchUpInv'
<1> USE Constants
<1> DEFINE row == schedules[n]
           i == prepared[activations[scope.activation]]
<1>1. /\ Live(n)
      /\ UNCHANGED <<prepared, activations>>
      /\ \E page, cursor, until, left : Pages(n, page, cursor, until, left)
  BY DispatchPages
<1>2. PICK page, cursor, until, left : Pages(n, page, cursor, until, left)
  BY <1>1
<1>3. /\ row.activation = scope.activation /\ row.activation # Null /\ row.next_at \in Nat
      /\ Fires(row.definition.timing, i, row.anchor_at, row.next_at)
      /\ row \in ScheduleRows /\ schedules \in [Names -> ScheduleRows]
      /\ window \in [Names -> Windows]
  BY <1>1, LiveFrontier DEF SchedulingInv, FiresInv, TypeOK
<1> DEFINE new == Advanced(row, cursor, until, left)
           fresh == {[name |-> n, revision |-> row.revision, at |-> x,
                      anchor |-> row.anchor_at] : x \in page}
           seen == [until |-> until, remaining |-> left + Cardinality(page)]
           walk == Walk(row.definition, i, row.anchor_at, row.next_at, until)
<1>4. /\ schedules' = [schedules EXCEPT ![n] = new] /\ occurrences' = occurrences \cup fresh
      /\ window' = [window EXCEPT ![n] = Recorded(n, seen, cursor)]
  BY <1>2 DEF Pages
<1>5. /\ cursor \in Nat /\ row.next_at < cursor
      /\ until \in 0..MaxTime /\ left \in Nat
      /\ cursor <= until => left # 0
      /\ row.next_at <= until
      /\ page \subseteq walk /\ Cardinality(page) \in Nat
      /\ \A x \in page, y \in walk \ page : x < y
      /\ cursor <= until => page = {x \in walk : x < cursor}
      /\ cursor > until => left = 0 \/ page = walk
      /\ row.until # Null => until = row.until /\ left + Cardinality(page) = row.remaining
  BY <1>2 DEF Pages
<1>6. /\ new.activation = row.activation
      /\ new.definition = row.definition /\ new.anchor_at = row.anchor_at
      /\ new.next_at = cursor
      /\ \/ cursor <= until /\ new.until = until /\ new.remaining = left
         \/ cursor > until /\ new.until = Null /\ new.remaining = Null
  <2>1. row \in ScheduleRows /\ cursor \in Nat /\ until \in 0..MaxTime /\ left \in Nat
        /\ (cursor <= until => left # 0)
    BY <1>3, <1>5
  <2> HIDE DEF row
  <2> QED  BY <2>1, AdvancedRow
<1>7. \A o \in fresh : o.name = n /\ o.at \in page
  OBVIOUS
<1>8. \A x \in page : \E o \in fresh : o.name = n /\ o.at = x
  <2> TAKE x \in page
  <2> DEFINE o == [name |-> n, revision |-> row.revision, at |-> x, anchor |-> row.anchor_at]
  <2>1. o \in fresh /\ o.name = n /\ o.at = x
    OBVIOUS
  <2> QED  BY <2>1
<1> HIDE DEF new, fresh
<1>9. ASSUME NEW k \in Names, k # n PROVE CatchUpOf(k)'
  <2>1. schedules'[k] = schedules[k] /\ window'[k] = window[k]
    BY <1>3, <1>4, <1>9
  <2>2. PublishedIn(k, window[k])' = PublishedIn(k, window[k])
    BY <1>4, <1>7, <1>9, <2>1 DEF PublishedIn
  <2>3. CatchUpOf(k)
    BY DEF CatchUpInv, CatchUpOf
  <2> QED  BY <1>1, <2>1, <2>2, <2>3 DEF CatchUpOf, Live, Stored
<1> DEFINE w == Recorded(n, seen, cursor)
           s == IF cursor <= until THEN "open" ELSE "closed"
           old == window[n]
<1>10. schedules'[n] = new /\ window'[n] = w
  BY <1>3, <1>4
<1>11. Live(n)'
  BY <1>3, <1>5, <1>6, <1>10 DEF Live, Stored
<1>12. s \in {"open", "closed"}
  OBVIOUS
<1>13. ASSUME row.until = Null PROVE CatchUpOf(n)'
  <2>1. w = [state |-> s, from |-> row.next_at, until |-> until,
             allowance |-> left + Cardinality(page)]
    BY <1>13 DEF Recorded
  <2>2. w.state = s /\ w.from = row.next_at /\ w.until = until
        /\ w.allowance = Cardinality(page) + left
    BY <1>5, <2>1
  <2>3. {x \in row.next_at..until : \E o \in occurrences' : o.name = n /\ o.at = x} = page
    <3>1. \A o \in occurrences : o.name = n => o.at \in Nat /\ o.at < row.next_at
      BY <1>3 DEF SchedulingInv, AheadInv, TypeOK
    <3>2. \A x \in page : x \in row.next_at..until
      BY <1>3, <1>5, WalkFacts
    <3> QED  BY <1>3, <1>4, <1>5, <1>7, <1>8, <3>1, <3>2
  <2> HIDE DEF w
  <2>4. PublishedIn(n, window[n])' = page
    BY <2>2, <2>3, <1>10 DEF PublishedIn
  <2>5. PageSaved(row, new, w, cursor, until, left)
    BY <1>5, <1>6, <2>2 DEF PageSaved
  <2>6. until \in Nat
    BY <1>5
  <2> HIDE DEF row, i
  <2>7. Composed(w, new, i, page)
    BY <1>3, <1>5, <2>2, <2>5, <2>6, FirstPage DEF walk
  <2> QED  BY <1>1, <1>3, <1>6, <1>10, <1>11, <1>12, <2>2, <2>4, <2>7 DEF CatchUpOf, i, row
<1>14. ASSUME row.until # Null PROVE CatchUpOf(n)'
  <2>1. old \in Windows /\ old.state # "none" /\ Composed(old, row, i, PublishedIn(n, old))
    BY <1>3, <1>14 DEF CatchUpInv, CatchUpOf
  <2>2. old.state = "open" /\ old.until = until /\ row.remaining \in Nat
    <3>1. old.state \in {"open", "closed"}
      BY <2>1 DEF Windows
    <3>2. old.state # "closed"
      BY <1>14, <2>1 DEF Composed
    <3>3. row.until = old.until /\ row.remaining # Null
      BY <2>1, <3>1, <3>2 DEF Composed
    <3>4. row.remaining \in Nat \cup {Null}
      BY <1>3 DEF ScheduleRows
    <3> QED  BY <1>5, <1>14, <3>1, <3>2, <3>3, <3>4
  <2>3. w = [old EXCEPT !.state = s]
    BY <1>14 DEF Recorded
  <2>4. w.state = s /\ w.from = old.from /\ w.until = old.until /\ w.allowance = old.allowance
        /\ old.from \in Nat
    BY <2>1, <2>3 DEF Windows
  <2> DEFINE P == PublishedIn(n, old)
  <2>5. {x \in old.from..old.until : \E o \in occurrences' : o.name = n /\ o.at = x} = P \cup page
    <3>1. \A x \in page : x \in row.next_at..until
      BY <1>3, <1>5, WalkFacts
    <3>2. old.from <= row.next_at
      BY <2>1, <2>2 DEF Composed
    <3>3. \A x \in page : x \in old.from..old.until
      BY <1>3, <1>5, <2>2, <2>4, <3>1, <3>2
    <3> QED  BY <1>4, <1>7, <1>8, <3>3 DEF PublishedIn
  <2> HIDE DEF w
  <2>6. PublishedIn(n, window[n])' = P \cup page
    BY <2>4, <2>5, <1>10 DEF PublishedIn
  <2>7. PageSaved(row, new, w, cursor, until, left)
    BY <1>5, <1>6, <2>2, <2>4 DEF PageSaved
  <2>8. until \in Nat
    BY <1>5
  <2> HIDE DEF row, i, P, old
  <2>9. Composed(w, new, i, P \cup page)
    BY <1>3, <1>5, <1>14, <2>1, <2>2, <2>4, <2>7, <2>8, NextPage DEF walk, P
  <2> QED  BY <1>1, <1>3, <1>6, <1>10, <1>11, <1>12, <2>4, <2>6, <2>9 DEF CatchUpOf, i, row
<1>15. CatchUpOf(n)'
  BY <1>13, <1>14
<1>16. \A k \in Names : CatchUpOf(k)'
  BY <1>9, <1>15
<1> QED  BY <1>16 DEF CatchUpInv, CatchUpOf

-----------------------------------------------------------------------------
(* The theorems.                                                           *)

\* Every step preserves the invariant.
LEMMA NextPreserves == SchedulingInv /\ [Next]_vars => SchedulingInv'
<1> SUFFICES ASSUME SchedulingInv, [Next]_vars PROVE SchedulingInv'
  OBVIOUS
<1>1. CASE UNCHANGED vars
  BY <1>1 DEF vars, SchedulingInv, TypeOK, LatestCommandDecides, CalendarReads, ScopeReads,
              RestoreReads, CatchUpReads, Live, Stored, Selected, FrontierInv, AheadInv,
              FiresInv, InstantsDeclared, InstantsOnce
<1>2. ASSUME NEW d \in Deployments, NEW r \in Replicas, Prepare(d, r) PROVE SchedulingInv'
  BY <1>2, PrepareStep
<1>3. ASSUME NEW v \in Revisions, Disable(v) PROVE SchedulingInv'
  BY <1>3, DisableStep
<1>4. ASSUME NEW v \in Revisions, NEW d \in Deployments, NEW r \in Replicas, Activate(v, d, r)
      PROVE  SchedulingInv'
  BY <1>4, RestoreStep, ReplaceStep
<1>5. ASSUME NEW n \in Names, NEW r \in Replicas, Dispatch(n, r) PROVE SchedulingInv'
  BY <1>5, DispatchStep
<1>6. CASE Tick
  BY <1>6, TickStep
<1> QED  BY <1>1, <1>2, <1>3, <1>4, <1>5, <1>6 DEF Next

\* The inductive invariant holds in every reachable state of the calendar.
THEOREM SchedulingInvariant == Spec => []SchedulingInv
BY InitEstablishes, NextPreserves, PTL DEF Spec

\* The stored rows keep their types, for every set of deployments, schedules,
\* replicas and calendars; a saved catch-up allowance is never spent.
THEOREM TypeCorrect == Spec => []TypeOK
BY SchedulingInvariant, PTL DEF SchedulingInv

\* However activations, disables, restores, replicas and pages interleave, no
\* instant of a schedule is published twice (dispatch, install, restore).
THEOREM OncePerInstant == Spec => []InstantsOnce
BY SchedulingInvariant, PTL DEF SchedulingInv

\* The highest accepted revision decides the calendar, whatever the order in
\* which activate and disable commands arrive.
THEOREM HighestRevisionDecides == Spec => []LatestCommandDecides
BY SchedulingInvariant, PTL DEF SchedulingInv

\* No dispatch and no restore ever finds a stored calendar it must refuse.
THEOREM CalendarReadsBack == Spec => []CalendarReads
BY SchedulingInvariant, PTL DEF SchedulingInv

\* Every occurrence is an instant its deployment declares under the calendar it
\* was prepared with, whichever interpretations the replicas run.
THEOREM OnlyDeclaredInstants == Spec => []InstantsDeclared
BY SchedulingInvariant, PTL DEF SchedulingInv

\* Every step keeps the observations composed.
LEMMA NextComposes == SchedulingInv /\ CatchUpInv /\ [Next]_vars => CatchUpInv'
<1> SUFFICES ASSUME SchedulingInv, CatchUpInv, [Next]_vars PROVE CatchUpInv'
  OBVIOUS
<1>1. CASE UNCHANGED vars
  BY <1>1, OthersCompose DEF vars
<1>2. ASSUME NEW d \in Deployments, NEW r \in Replicas, Prepare(d, r) PROVE CatchUpInv'
  <2>1. \A e \in Deployments : prepared[e] # Null => prepared'[e] = prepared[e]
    BY <1>2 DEF Prepare, SchedulingInv, TypeOK
  <2> QED  BY <1>2, <2>1, OthersCompose DEF Prepare
<1>3. ASSUME NEW v \in Revisions, Disable(v) PROVE CatchUpInv'
  BY <1>3, OthersCompose DEF Disable
<1>4. ASSUME NEW v \in Revisions, NEW d \in Deployments, NEW r \in Replicas, Activate(v, d, r)
      PROVE  CatchUpInv'
  BY <1>4, RestoreComposes, ReplaceComposes
<1>5. ASSUME NEW n \in Names, NEW r \in Replicas, Dispatch(n, r) PROVE CatchUpInv'
  BY <1>5, DispatchComposes
<1>6. CASE Tick
  BY <1>6, OthersCompose DEF Tick
<1> QED  BY <1>1, <1>2, <1>3, <1>4, <1>5, <1>6 DEF Next

\* The observations are composed in every reachable state of the calendar.
THEOREM ObservationsComposed == Spec => []CatchUpInv
<1>1. Init => CatchUpInv
  BY InitComposes
<1>2. SchedulingInv /\ CatchUpInv /\ [Next]_vars => CatchUpInv'
  BY NextComposes
<1> QED  BY <1>1, <1>2, SchedulingInvariant, PTL DEF Spec

\* Whatever the page sizes, disables, restores and replicas, an observation
\* publishes its due instants in order without a gap or a renewed allowance, and
\* closes on all of them or on the whole allowance (dispatch, restore).
THEOREM PagesCompose == Spec => []CatchUpComposes
<1>1. CatchUpInv => CatchUpComposes
  BY DEF CatchUpInv, CatchUpOf, CatchUpComposes, Composed
<1> QED  BY <1>1, ObservationsComposed, PTL

\* The stored calendar is the one that was commanded.
THEOREM Consistent == Spec => []CalendarConsistent
  BY TypeCorrect, CalendarReadsBack, HighestRevisionDecides, OnlyDeclaredInstants, PTL
     DEF CalendarConsistent


-----------------------------------------------------------------------------
(* Retention: the inductive invariant.                                     *)

\* How far the ledger can be from what a holder intends.
LedgerFollows(h) ==
    LET s == intent_state[h]
        g == intent_generation[h]
        behind == ledger_state[h] # "held" /\ ledger_generation[h] + 1 = g
        level(states) == ledger_state[h] \in states /\ ledger_generation[h] = g
    IN  /\ s = "none" <=> g = 0
        /\ ledger_state[h] = "none" <=> ledger_generation[h] = 0
        /\ s = "none" => ledger_state[h] = "none"
        /\ s = "acquiring" => behind \/ level({"held"})
        /\ s = "held" => level({"held"})
        /\ s = "releasing" => level({"held", "released"})
        /\ s = "released" => level({"released"})

\* No message is ahead of its holder, and a release of the current generation
\* was sent by a holder that is past using it.
InOrder(m) ==
    /\ m.generation >= 1
    /\ m.generation <= intent_generation[m.holder]
    /\ (m.generation = intent_generation[m.holder] /\ m.state = "released") =>
          intent_state[m.holder] \in {"releasing", "released"}

\* A reply that may still be confirmed is still what the ledger says.
Current(m) ==
    (m.generation = intent_generation[m.holder]
     /\ MatchesTransition(intent_state[m.holder], m.state)) =>
        ledger_state[m.holder] = m.state /\ ledger_generation[m.holder] = m.generation

MessagesInv ==
    /\ \A m \in requests : InOrder(m)
    /\ \A m \in replies : InOrder(m) /\ Current(m)

\* What depends on the code is covered by the hold of its holder.
CoverInv ==
    /\ unsettled # {} => intent_state["queue"] = "held"
    /\ runs # {} \/ active \/ deploy_state = "available" =>
          intent_state["journal"] = "held"

\* A reclaimed deployment has no holder and no activation on its way.
ReclaimInv ==
    retention_state # "available" =>
        pending = {} /\ \A h \in Holders : ledger_state[h] # "held"

\* The journal duty, and what is known of the job it waits for.
GivenBack == intent_state["journal"] \in {"none", "released"}

DutyInv ==
    /\ journal_state # "pending" => intent_state["queue"] = "released"
    /\ journal_state = "releasing" => journal_job \in ReleaseJobs
    /\ journal_state = "released" => GivenBack
    /\ \A v \in verdicts : releases[v.job] = "ready"
    /\ (journal_state = "releasing" /\ releases[journal_job] = "completed") => GivenBack
    /\ \A v \in verdicts :
          (journal_state = "releasing" /\ v.job = journal_job /\ v.outcome = "completed")
             => GivenBack

Inv ==
    /\ RetentionTypeOK
    /\ \A h \in Holders : LedgerFollows(h)
    /\ MessagesInv
    /\ CoverInv
    /\ ReclaimInv
    /\ DutyInv

HoldsInv == (\A h \in Holders : LedgerFollows(h)) /\ MessagesInv

holds == <<ledger_state, ledger_generation, requests, replies, intent_state,
           intent_generation>>

-----------------------------------------------------------------------------
(* Types.                                                                  *)

\* The steps of the four parties, one action each.
LEMMA TypeStep == ASSUME RetentionTypeOK, [RetentionNext]_retention PROVE RetentionTypeOK'
<1> USE DEF RetentionTypeOK
<1>1. CASE CatalogNext
  <2> USE DEF SelectDeployment, network, intents, manager, duty, journal
  <2>1. ASSUME NEW r \in LifecycleRevisions, Accept(r) PROVE RetentionTypeOK'
    BY <2>1 DEF Accept
  <2>2. ASSUME NEW r \in LifecycleRevisions, Acknowledge(r) PROVE RetentionTypeOK'
    BY <2>2 DEF Acknowledge
  <2>3. CASE AcceptUnpublished
    BY <2>3 DEF AcceptUnpublished
  <2>4. CASE AcceptOther
    BY <2>4 DEF AcceptOther
  <2>5. CASE Fence
    BY <2>5 DEF Fence
  <2>6. CASE FinishReclamation
    BY <2>6 DEF FinishReclamation
  <2> QED
    BY <1>1, <2>1, <2>2, <2>3, <2>4, <2>5, <2>6 DEF CatalogNext
<1>2. CASE HoldNext
  <2>1. ASSUME NEW m \in requests, Change(m) PROVE RetentionTypeOK'
    <3>1. m.holder \in Holders /\ m.generation \in Nat /\ m.state \in HoldStates
      BY DEF Messages
    <3> QED
      BY <2>1, <3>1 DEF Change, intents, manager, duty, journal
  <2>2. ASSUME NEW m \in replies, Confirm(m) PROVE RetentionTypeOK'
    <3>1. m.holder \in Holders /\ m.state \in IntentStates
      BY DEF Messages, HoldStates, IntentStates
    <3> QED
      BY <2>2, <3>1 DEF Confirm, control, network, manager, duty, journal
  <2>3. ASSUME NEW h \in Holders, Reconcile(h) PROVE RetentionTypeOK'
    <3> DEFINE m == [holder |-> h, generation |-> intent_generation[h],
            state |-> IF intent_state[h] = "acquiring" THEN "held" ELSE "released"]
    <3>1. m \in Messages
      BY DEF Messages, HoldStates
    <3> QED
      BY <2>3, <3>1 DEF Reconcile, control, intents, manager, duty, journal
  <2> QED
    BY <1>2, <2>1, <2>2, <2>3 DEF HoldNext
<1>3. CASE ManagerNext
  <2>1. CASE EnsureDeployment
    BY <2>1 DEF EnsureDeployment, BeginAcquire, IntentStates, Holders, control, network,
       manager, journal
  <2>2. CASE ReleaseDeployment
    BY <2>2 DEF ReleaseDeployment, IntentStates, Holders, control, network, manager,
       duty, journal
  <2>3. ASSUME NEW r \in LifecycleRevisions, ActivateHeld(r) PROVE RetentionTypeOK'
    BY <2>3 DEF ActivateHeld, control, network, intents, duty, journal
  <2>4. ASSUME NEW j \in Jobs, Publish(j) PROVE RetentionTypeOK'
    BY <2>4 DEF Publish, control, network, intents, duty, journal
  <2>5. ASSUME NEW j \in unsettled, Settle(j) PROVE RetentionTypeOK'
    BY <2>5 DEF Settle, control, network, intents, duty, journal
  <2>6. ASSUME NEW r \in ReleaseJobs, PublishRelease(r) PROVE RetentionTypeOK'
    BY <2>6 DEF PublishRelease, control, network, intents, manager, journal
  <2>7. CASE FinishJournal
    BY <2>7 DEF FinishJournal, control, network, intents, manager, journal
  <2> QED
    BY <1>3, <2>1, <2>2, <2>3, <2>4, <2>5, <2>6, <2>7 DEF ManagerNext
<1>4. CASE JournalNext
  <2>1. CASE AcquireHold
    BY <2>1 DEF AcquireHold, BeginAcquire, IntentStates, Holders, control, network,
       manager, duty, journal
  <2>2. CASE Deselect \/ Park
    BY <2>2 DEF Deselect, Park, control, network, intents, manager, duty
  <2>3. CASE ReleaseHold
    BY <2>3 DEF ReleaseHold, IntentStates, Holders, control, network, manager, duty
  <2>4. ASSUME NEW selects \in BOOLEAN, Register(selects) PROVE RetentionTypeOK'
    BY <2>4 DEF Register, control, network, intents, manager, duty
  <2>5. ASSUME NEW r \in Runs, StartRun(r) PROVE RetentionTypeOK'
    BY <2>5 DEF StartRun, control, network, intents, manager, duty
  <2>6. ASSUME NEW r \in ReleaseJobs, NEW outcome \in {"completed", "waiting"},
               Verdict(r, outcome)
        PROVE  RetentionTypeOK'
    BY <2>6 DEF Verdict, Verdicts, control, network, intents, manager, duty, journal
  <2>7. ASSUME NEW v \in verdicts, SettleRelease(v) PROVE RetentionTypeOK'
    <3>1. v.job \in ReleaseJobs /\ v.outcome \in {"completed", "waiting"}
      BY DEF Verdicts
    <3> QED
      BY <2>7, <3>1 DEF SettleRelease, control, network, intents, manager, journal
  <2> QED
    BY <1>4, <2>1, <2>2, <2>3, <2>4, <2>5, <2>6, <2>7 DEF JournalNext
<1>5. CASE UNCHANGED retention
  BY <1>5 DEF retention, control, network, intents, manager, duty, journal
<1> QED
  BY <1>1, <1>2, <1>3, <1>4, <1>5 DEF RetentionNext

\* Every column of every party keeps its type, whatever the sizes.
THEOREM RetentionTypeCorrect == RetentionSpec => []RetentionTypeOK
<1>1. RetentionInit => RetentionTypeOK
  <2>1. RetentionInit => routed \in BOOLEAN /\ newest \in BOOLEAN /\ active \in BOOLEAN
    BY Zenon DEF RetentionInit
  <2> QED
    BY <2>1 DEF RetentionInit, RetentionTypeOK
<1>2. RetentionTypeOK /\ [RetentionNext]_retention => RetentionTypeOK'
  BY TypeStep
<1> QED
  BY <1>1, <1>2, PTL DEF RetentionSpec

-----------------------------------------------------------------------------
(* The holders and the ledger.                                             *)

\* A fresh generation leaves the ledger one behind and every message in the
\* past.
LEMMA AcquireHolds ==
  ASSUME RetentionTypeOK, HoldsInv, NEW h \in Holders, BeginAcquire(h),
         UNCHANGED <<ledger_state, ledger_generation, requests, replies>>
  PROVE  HoldsInv'
<1>1. ASSUME NEW k \in Holders PROVE LedgerFollows(k)'
  BY <1>1 DEF RetentionTypeOK, HoldsInv, LedgerFollows, BeginAcquire, HoldStates
<1>2. ASSUME NEW m \in Messages, InOrder(m) PROVE InOrder(m)'
  BY <1>2 DEF RetentionTypeOK, Messages, InOrder, BeginAcquire
<1>3. ASSUME NEW m \in Messages, InOrder(m), Current(m) PROVE Current(m)'
  BY <1>3 DEF RetentionTypeOK, Messages, InOrder, Current, BeginAcquire
<1> QED
  BY <1>1, <1>2, <1>3 DEF RetentionTypeOK, HoldsInv, MessagesInv

\* A hold is closed from inside: the ledger still has it, and only now can a
\* release of its generation be sent.
LEMMA CloseHolds ==
  ASSUME RetentionTypeOK, HoldsInv, NEW h \in Holders, intent_state[h] = "held",
         intent_state' = [intent_state EXCEPT ![h] = "releasing"],
         UNCHANGED <<ledger_state, ledger_generation, requests, replies, intent_generation>>
  PROVE  HoldsInv'
<1>1. ASSUME NEW k \in Holders PROVE LedgerFollows(k)'
  BY <1>1 DEF RetentionTypeOK, HoldsInv, LedgerFollows
<1>2. ASSUME NEW m \in Messages, InOrder(m) PROVE InOrder(m)'
  BY <1>2 DEF RetentionTypeOK, Messages, InOrder
<1>3. ASSUME NEW m \in Messages, InOrder(m), Current(m) PROVE Current(m)'
  BY <1>3 DEF RetentionTypeOK, Messages, InOrder, Current, MatchesTransition, HoldStates
<1> QED
  BY <1>1, <1>2, <1>3 DEF RetentionTypeOK, HoldsInv, MessagesInv

\* A request asks for what the intent is on its way to.
LEMMA ReconcileHolds ==
  ASSUME RetentionTypeOK, HoldsInv, NEW h \in Holders, Reconcile(h) PROVE HoldsInv'
<1> DEFINE m == [holder |-> h, generation |-> intent_generation[h],
        state |-> IF intent_state[h] = "acquiring" THEN "held" ELSE "released"]
<1>1. requests' = requests \cup {m}
  BY DEF Reconcile
<1>2. UNCHANGED <<ledger_state, ledger_generation, replies, intent_state, intent_generation>>
  BY DEF Reconcile, control, intents
<1>3. InOrder(m)
  BY DEF RetentionTypeOK, HoldsInv, LedgerFollows, Reconcile, InOrder
<1>4. ASSUME NEW k \in requests' PROVE InOrder(k)
  BY <1>1, <1>3 DEF HoldsInv, MessagesInv
<1>5. ASSUME NEW k PROVE (InOrder(k) <=> InOrder(k)') /\ (Current(k) <=> Current(k)')
  BY <1>2 DEF InOrder, Current
<1>6. ASSUME NEW k \in Holders PROVE LedgerFollows(k) <=> LedgerFollows(k)'
  BY <1>2 DEF LedgerFollows
<1> QED
  BY <1>2, <1>4, <1>5, <1>6 DEF HoldsInv, MessagesInv

\* Of the requests in the network the ledger takes only the one its holder is
\* waiting for, or repeats its last answer.
LEMMA ChangeHolds ==
  ASSUME RetentionTypeOK, HoldsInv, NEW m \in requests, Change(m) PROVE HoldsInv'
<1>1. /\ m \in Messages /\ m.holder \in Holders /\ m.generation \in Nat
      /\ m.state \in HoldStates
  BY DEF RetentionTypeOK, Messages
<1>2. InOrder(m) /\ LedgerFollows(m.holder)
  BY <1>1 DEF HoldsInv, MessagesInv
<1>3. UNCHANGED <<requests, intent_state, intent_generation>>
  BY DEF Change, intents
<1>4. /\ ledger_state' = [ledger_state EXCEPT ![m.holder] = m.state]
      /\ ledger_generation' = [ledger_generation EXCEPT ![m.holder] = m.generation]
      /\ replies' = replies \cup {m}
      /\ AdmitsChange(m)
  BY DEF Change
<1>5. ASSUME NEW k \in Holders PROVE LedgerFollows(k)'
  <2>1. CASE k # m.holder
    BY <1>1, <1>3, <1>4, <2>1 DEF RetentionTypeOK, HoldsInv, LedgerFollows
  <2>2. CASE k = m.holder
    <3>1. ledger_state'[k] = m.state /\ ledger_generation'[k] = m.generation
      BY <1>1, <1>4, <2>2 DEF RetentionTypeOK
    <3> QED
      BY <1>1, <1>2, <1>3, <1>4, <2>2, <3>1
      DEF RetentionTypeOK, LedgerFollows, InOrder, AdmitsChange, HoldStates
  <2> QED
    BY <2>1, <2>2
<1>6. ASSUME NEW k PROVE InOrder(k) <=> InOrder(k)'
  BY <1>3 DEF InOrder
<1>7. Current(m)'
  BY <1>1, <1>4 DEF RetentionTypeOK, Current
<1>8. ASSUME NEW k \in replies PROVE Current(k)'
  <2>1. k \in Messages /\ InOrder(k) /\ Current(k)
    BY DEF RetentionTypeOK, HoldsInv, MessagesInv
  <2>2. k.holder \in Holders /\ k.generation \in Nat /\ k.state \in HoldStates
    BY <2>1 DEF Messages
  <2>3. CASE k.holder # m.holder
    BY <1>1, <1>3, <1>4, <2>1, <2>2, <2>3 DEF RetentionTypeOK, Current
  <2>4. CASE k.holder = m.holder
    <3>1. ledger_state'[k.holder] = m.state /\ ledger_generation'[k.holder] = m.generation
      BY <1>1, <1>4, <2>4 DEF RetentionTypeOK
    <3> QED
      BY <1>1, <1>2, <1>3, <1>4, <2>1, <2>2, <2>4, <3>1
      DEF RetentionTypeOK, Current, InOrder, AdmitsChange, MatchesTransition, HoldStates
  <2> QED
    BY <2>3, <2>4
<1> QED
  BY <1>3, <1>4, <1>5, <1>6, <1>7, <1>8 DEF HoldsInv, MessagesInv

\* A reply that is confirmed says what the ledger still says.
LEMMA ConfirmHolds ==
  ASSUME RetentionTypeOK, HoldsInv, NEW m \in replies, Confirm(m) PROVE HoldsInv'
<1>1. m.holder \in Holders /\ m.generation \in Nat /\ m.state \in HoldStates
  BY DEF RetentionTypeOK, Messages
<1>2. InOrder(m) /\ Current(m) /\ LedgerFollows(m.holder)
  BY <1>1 DEF HoldsInv, MessagesInv
<1>3. UNCHANGED <<ledger_state, ledger_generation, requests, replies, intent_generation>>
  BY DEF Confirm, control, network
<1>4. /\ ledger_state[m.holder] = m.state
      /\ ledger_generation[m.holder] = intent_generation[m.holder]
      /\ intent_state[m.holder] \in IF m.state = "held" THEN {"acquiring", "held"}
                                                    ELSE {"releasing", "released"}
      /\ intent_state' = [intent_state EXCEPT ![m.holder] = m.state]
  BY <1>2 DEF Confirm, Current, MatchesTransition
<1>5. ASSUME NEW k \in Holders PROVE LedgerFollows(k)'
  BY <1>1, <1>2, <1>3, <1>4 DEF RetentionTypeOK, HoldsInv, LedgerFollows, HoldStates
<1>6. ASSUME NEW k \in Messages, InOrder(k) PROVE InOrder(k)'
  BY <1>1, <1>3, <1>4, <1>6 DEF RetentionTypeOK, Messages, InOrder, HoldStates
<1>7. ASSUME NEW k \in Messages, InOrder(k), Current(k) PROVE Current(k)'
  BY <1>1, <1>3, <1>4, <1>7
  DEF RetentionTypeOK, Messages, InOrder, Current, MatchesTransition, HoldStates
<1> QED
  BY <1>3, <1>5, <1>6, <1>7 DEF RetentionTypeOK, HoldsInv, MessagesInv

\* Nobody else touches the holds.
LEMMA SameHolds == ASSUME HoldsInv, UNCHANGED holds PROVE HoldsInv'
  BY DEF HoldsInv, MessagesInv, LedgerFollows, InOrder, Current, holds

\* Every step keeps the holders and the ledger in step.
LEMMA HoldsStep == ASSUME RetentionTypeOK, HoldsInv, [RetentionNext]_retention PROVE HoldsInv'
<1> USE DEF control, network, intents, manager, duty, journal
<1>1. CASE CatalogNext
  <2>1. UNCHANGED holds
    BY <1>1 DEF CatalogNext, Accept, AcceptUnpublished, AcceptOther, Acknowledge, Fence,
       FinishReclamation, holds
  <2> QED
    BY <2>1, SameHolds
<1>2. CASE HoldNext
  BY <1>2, ChangeHolds, ConfirmHolds, ReconcileHolds DEF HoldNext
<1>3. CASE ManagerNext
  <2>1. CASE EnsureDeployment
    BY <2>1, AcquireHolds DEF EnsureDeployment, Holders
  <2>2. CASE ReleaseDeployment
    BY <2>2, CloseHolds DEF ReleaseDeployment, Holders
  <2>3. CASE ~EnsureDeployment /\ ~ReleaseDeployment
    <3>1. UNCHANGED holds
      BY <1>3, <2>3 DEF ManagerNext, ActivateHeld, Publish, Settle, PublishRelease,
         FinishJournal, holds
    <3> QED
      BY <3>1, SameHolds
  <2> QED
    BY <2>1, <2>2, <2>3
<1>4. CASE JournalNext
  <2>1. CASE AcquireHold
    BY <2>1, AcquireHolds DEF AcquireHold, Holders
  <2>2. CASE ReleaseHold
    BY <2>2, CloseHolds DEF ReleaseHold, Holders
  <2>3. CASE ~AcquireHold /\ ~ReleaseHold
    <3>1. UNCHANGED holds
      BY <1>4, <2>3 DEF JournalNext, Deselect, Park, Register, StartRun, Verdict,
         SettleRelease, holds
    <3> QED
      BY <3>1, SameHolds
  <2> QED
    BY <2>1, <2>2, <2>3
<1>5. CASE UNCHANGED retention
  BY <1>5, SameHolds DEF retention, holds
<1> QED
  BY <1>1, <1>2, <1>3, <1>4, <1>5 DEF RetentionNext

-----------------------------------------------------------------------------
(* What depends on the code, and the collector.                            *)

\* Work is admitted under a hold, and a hold is closed when its work is gone.
LEMMA CoverStep == ASSUME RetentionTypeOK, CoverInv, [RetentionNext]_retention PROVE CoverInv'
<1> USE DEF CoverInv, control, network, intents, manager, duty, journal
<1>1. CASE CatalogNext
  BY <1>1 DEF CatalogNext, Accept, AcceptUnpublished, AcceptOther, Acknowledge, Fence,
     FinishReclamation
<1>2. CASE HoldNext
  <2>1. ASSUME NEW m \in requests, Change(m) PROVE CoverInv'
    BY <2>1 DEF Change
  <2>2. ASSUME NEW m \in replies, Confirm(m) PROVE CoverInv'
    <3>1. m.holder \in Holders /\ m.state \in HoldStates
      BY DEF RetentionTypeOK, Messages
    <3> QED
      BY <2>2, <3>1 DEF RetentionTypeOK, Confirm, MatchesTransition, HoldStates, Holders
  <2>3. ASSUME NEW h \in Holders, Reconcile(h) PROVE CoverInv'
    BY <2>3 DEF Reconcile
  <2> QED
    BY <1>2, <2>1, <2>2, <2>3 DEF HoldNext
<1>3. CASE ManagerNext
  <2>1. CASE EnsureDeployment
    BY <2>1 DEF RetentionTypeOK, EnsureDeployment, BeginAcquire, Holders
  <2>2. CASE ReleaseDeployment
    BY <2>2 DEF RetentionTypeOK, ReleaseDeployment, Holders
  <2>3. ASSUME NEW r \in LifecycleRevisions, ActivateHeld(r) PROVE CoverInv'
    BY <2>3 DEF ActivateHeld
  <2>4. ASSUME NEW j \in Jobs, Publish(j) PROVE CoverInv'
    BY <2>4 DEF Publish
  <2>5. ASSUME NEW j \in unsettled, Settle(j) PROVE CoverInv'
    BY <2>5 DEF Settle
  <2>6. ASSUME NEW r \in ReleaseJobs, PublishRelease(r) PROVE CoverInv'
    BY <2>6 DEF PublishRelease
  <2>7. CASE FinishJournal
    BY <2>7 DEF FinishJournal
  <2> QED
    BY <1>3, <2>1, <2>2, <2>3, <2>4, <2>5, <2>6, <2>7 DEF ManagerNext
<1>4. CASE JournalNext
  <2>1. CASE AcquireHold
    BY <2>1 DEF RetentionTypeOK, AcquireHold, BeginAcquire, Holders
  <2>2. CASE Deselect
    BY <2>2 DEF Deselect
  <2>3. CASE Park
    BY <2>3 DEF Park
  <2>4. CASE ReleaseHold
    BY <2>4 DEF RetentionTypeOK, ReleaseHold, Holders
  <2>5. ASSUME NEW selects \in BOOLEAN, Register(selects) PROVE CoverInv'
    BY <2>5 DEF Register
  <2>6. ASSUME NEW r \in Runs, StartRun(r) PROVE CoverInv'
    BY <2>6 DEF StartRun
  <2>7. ASSUME NEW r \in ReleaseJobs, NEW outcome \in {"completed", "waiting"},
               Verdict(r, outcome)
        PROVE  CoverInv'
    BY <2>7 DEF Verdict
  <2>8. ASSUME NEW v \in verdicts, SettleRelease(v) PROVE CoverInv'
    BY <2>8 DEF SettleRelease
  <2> QED
    BY <1>4, <2>1, <2>2, <2>3, <2>4, <2>5, <2>6, <2>7, <2>8 DEF JournalNext
<1>5. CASE UNCHANGED retention
  BY <1>5 DEF retention
<1> QED
  BY <1>1, <1>2, <1>3, <1>4, <1>5 DEF RetentionNext

\* The collector fences what nobody holds or is about to hold, and the ledger
\* admits nobody afterwards.
LEMMA ReclaimStep == ASSUME RetentionTypeOK, ReclaimInv, [RetentionNext]_retention PROVE ReclaimInv'
<1> USE DEF ReclaimInv, control, network, intents, manager, duty, journal
<1>1. CASE CatalogNext
  <2>1. ASSUME NEW r \in LifecycleRevisions, Accept(r) PROVE ReclaimInv'
    BY <2>1 DEF Accept, SelectDeployment
  <2>2. ASSUME NEW r \in LifecycleRevisions, Acknowledge(r) PROVE ReclaimInv'
    BY <2>2 DEF Acknowledge
  <2>3. CASE AcceptUnpublished
    BY <2>3 DEF AcceptUnpublished, SelectDeployment
  <2>4. CASE AcceptOther
    BY <2>4 DEF AcceptOther
  <2>5. CASE Fence
    BY <2>5 DEF Fence
  <2>6. CASE FinishReclamation
    BY <2>6 DEF FinishReclamation
  <2> QED
    BY <1>1, <2>1, <2>2, <2>3, <2>4, <2>5, <2>6 DEF CatalogNext
<1>2. CASE HoldNext
  <2>1. ASSUME NEW m \in requests, Change(m) PROVE ReclaimInv'
    <3>1. m.holder \in Holders
      BY DEF RetentionTypeOK, Messages
    <3> QED
      BY <2>1, <3>1 DEF RetentionTypeOK, Change, AdmitsChange
  <2>2. CASE (\E m \in replies : Confirm(m)) \/ (\E h \in Holders : Reconcile(h))
    BY <2>2 DEF Confirm, Reconcile
  <2> QED
    BY <1>2, <2>1, <2>2 DEF HoldNext
<1>3. CASE ManagerNext
  BY <1>3 DEF ManagerNext, EnsureDeployment, ReleaseDeployment, ActivateHeld, Publish, Settle,
     PublishRelease, FinishJournal
<1>4. CASE JournalNext
  BY <1>4 DEF JournalNext, AcquireHold, Deselect, Park, ReleaseHold, Register, StartRun,
     Verdict, SettleRelease
<1>5. CASE UNCHANGED retention
  BY <1>5 DEF retention
<1> QED
  BY <1>1, <1>2, <1>3, <1>4, <1>5 DEF RetentionNext

-----------------------------------------------------------------------------
(* The journal duty.                                                       *)

\* A duty past "pending" pins both holders: the queue's hold is gone, so no
\* job can make the journal take its hold again.
LEMMA DutyStep == ASSUME RetentionTypeOK, CoverInv, DutyInv, [RetentionNext]_retention PROVE DutyInv'
<1> USE DEF DutyInv, GivenBack, control, network, intents, manager, duty, journal
<1>1. CASE CatalogNext
  BY <1>1 DEF CatalogNext, Accept, AcceptUnpublished, AcceptOther, Acknowledge, Fence,
     FinishReclamation
<1>2. CASE HoldNext
  <2>1. ASSUME NEW m \in requests, Change(m) PROVE DutyInv'
    BY <2>1 DEF Change
  <2>2. ASSUME NEW m \in replies, Confirm(m) PROVE DutyInv'
    <3>1. m.holder \in Holders /\ m.state \in HoldStates
      BY DEF RetentionTypeOK, Messages
    <3>2. intent_state["queue"] = "released" => intent_state'["queue"] = "released"
      BY <2>2, <3>1 DEF RetentionTypeOK, Confirm, MatchesTransition, HoldStates, Holders
    <3>3. GivenBack => GivenBack'
      BY <2>2, <3>1 DEF RetentionTypeOK, Confirm, MatchesTransition, HoldStates, Holders
    <3>4. UNCHANGED <<journal_state, journal_job, releases, verdicts>>
      BY <2>2 DEF Confirm
    <3> QED
      BY <3>2, <3>3, <3>4
  <2>3. ASSUME NEW h \in Holders, Reconcile(h) PROVE DutyInv'
    BY <2>3 DEF Reconcile
  <2> QED
    BY <1>2, <2>1, <2>2, <2>3 DEF HoldNext
<1>3. CASE ManagerNext
  <2>1. CASE EnsureDeployment
    BY <2>1 DEF RetentionTypeOK, EnsureDeployment, BeginAcquire, Holders
  <2>2. CASE ReleaseDeployment
    BY <2>2 DEF RetentionTypeOK, ReleaseDeployment, Holders
  <2>3. CASE \/ \E r \in LifecycleRevisions : ActivateHeld(r)
             \/ \E j \in Jobs : Publish(j)
             \/ \E j \in unsettled : Settle(j)
    BY <2>3 DEF ActivateHeld, Publish, Settle
  <2>4. ASSUME NEW r \in ReleaseJobs, PublishRelease(r) PROVE DutyInv'
    <3>1. \A v \in verdicts : v.job \in ReleaseJobs /\ v.job # r
      BY <2>4 DEF RetentionTypeOK, Verdicts, PublishRelease
    <3>2. /\ releases' = [releases EXCEPT ![r] = "ready"]
          /\ journal_state' = "releasing" /\ journal_job' = r
          /\ intent_state["queue"] = "released"
          /\ UNCHANGED <<verdicts, intent_state>>
      BY <2>4 DEF PublishRelease
    <3> QED
      BY <3>1, <3>2 DEF RetentionTypeOK
  <2>5. CASE FinishJournal
    BY <2>5 DEF FinishJournal
  <2> QED
    BY <1>3, <2>1, <2>2, <2>3, <2>4, <2>5 DEF ManagerNext
<1>4. CASE JournalNext
  <2>1. CASE AcquireHold
    BY <2>1 DEF RetentionTypeOK, CoverInv, AcquireHold, BeginAcquire, Holders
  <2>2. CASE Deselect \/ Park \/ (\E selects \in BOOLEAN : Register(selects))
             \/ (\E r \in Runs : StartRun(r))
    BY <2>2 DEF Deselect, Park, Register, StartRun
  <2>3. CASE ReleaseHold
    BY <2>3 DEF RetentionTypeOK, ReleaseHold, Holders
  <2>4. ASSUME NEW r \in ReleaseJobs, NEW outcome \in {"completed", "waiting"},
               Verdict(r, outcome)
        PROVE  DutyInv'
    <3> DEFINE u == [job |-> r, outcome |-> outcome]
    <3>1. u.job = r /\ u.outcome = outcome
      OBVIOUS
    <3>2. /\ verdicts' = verdicts \cup {u}
          /\ releases[r] = "ready"
          /\ outcome = "completed" => GivenBack
          /\ UNCHANGED <<journal_state, journal_job, releases, intent_state>>
      BY <2>4 DEF Verdict
    <3> HIDE DEF u
    <3> QED
      BY <3>1, <3>2
  <2>5. ASSUME NEW v \in verdicts, SettleRelease(v) PROVE DutyInv'
    <3>1. v.job \in ReleaseJobs /\ \A u \in verdicts : u.job \in ReleaseJobs
      BY DEF RetentionTypeOK, Verdicts
    <3>2. /\ releases' = [releases EXCEPT ![v.job] = v.outcome]
          /\ verdicts' = {u \in verdicts : u.job # v.job}
          /\ UNCHANGED <<journal_state, journal_job, intent_state>>
      BY <2>5 DEF SettleRelease
    <3> QED
      BY <3>1, <3>2 DEF RetentionTypeOK
  <2> QED
    BY <1>4, <2>1, <2>2, <2>3, <2>4, <2>5 DEF JournalNext
<1>5. CASE UNCHANGED retention
  BY <1>5 DEF retention
<1> QED
  BY <1>1, <1>2, <1>3, <1>4, <1>5 DEF RetentionNext

-----------------------------------------------------------------------------
(* Theorems.                                                               *)

\* The inductive invariant: ledger, intents and messages agree, dependents
\* are covered by holds, and the duty knows what its job found.
THEOREM RetentionInvariant == RetentionSpec => []Inv
<1>1. RetentionInit => Inv
  <2> SUFFICES ASSUME RetentionInit PROVE Inv
    OBVIOUS
  <2>1. RetentionTypeOK
    <3>1. routed \in BOOLEAN /\ newest \in BOOLEAN /\ active \in BOOLEAN
      BY Zenon DEF RetentionInit
    <3> QED
      BY <3>1 DEF RetentionInit, RetentionTypeOK
  <2>2. HoldsInv
    BY DEF RetentionInit, HoldsInv, LedgerFollows, MessagesInv
  <2>3. CoverInv
    <3>1. ~active
      BY Zenon DEF RetentionInit
    <3> QED
      BY <3>1 DEF RetentionInit, CoverInv
  <2>4. ReclaimInv /\ DutyInv
    BY DEF RetentionInit, ReclaimInv, DutyInv
  <2> QED
    BY <2>1, <2>2, <2>3, <2>4 DEF Inv, HoldsInv
<1>2. Inv /\ [RetentionNext]_retention => Inv'
  <2> SUFFICES ASSUME Inv, [RetentionNext]_retention PROVE Inv'
    OBVIOUS
  <2>1. RetentionTypeOK /\ HoldsInv /\ CoverInv /\ ReclaimInv /\ DutyInv
    BY DEF Inv, HoldsInv
  <2>2. RetentionTypeOK' /\ HoldsInv' /\ CoverInv' /\ ReclaimInv' /\ DutyInv'
    BY <2>1, TypeStep, HoldsStep, CoverStep, ReclaimStep, DutyStep
  <2> QED
    BY <2>2 DEF Inv, HoldsInv
<1> QED
  BY <1>1, <1>2, PTL DEF RetentionSpec

\* What a holder believes it holds, the ledger holds (change, reconcile_for,
\* reconcile_deployment_hold_checked).
THEOREM HoldersAgree == RetentionSpec => []HeldIsLedgered
<1>1. Inv => HeldIsLedgered
  BY DEF Inv, LedgerFollows, HeldIsLedgered
<1> QED
  BY <1>1, RetentionInvariant, PTL

\* A pending activation is never fenced (fence, accept).
THEOREM ActivationsKeepCode == RetentionSpec => []PendingActivationsKeepCode
<1>1. Inv => PendingActivationsKeepCode
  BY DEF Inv, ReclaimInv, PendingActivationsKeepCode
<1> QED
  BY <1>1, RetentionInvariant, PTL

\* A discharged journal duty is true (finish_journal, ensure_deployment_for).
THEOREM DutyTruthful == RetentionSpec => []JournalDutyTruthful
<1>1. Inv => JournalDutyTruthful
  BY DEF Inv, DutyInv, GivenBack, JournalDutyTruthful
<1> QED
  BY <1>1, RetentionInvariant, PTL

\* Reclaimed code has no dependents: the two holds cover them all and neither
\* is in the ledger of a fenced deployment.
LEMMA ReclaimedUnused == Inv => (Dependents # {} => retention_state = "available")
<1> SUFFICES ASSUME Inv PROVE Dependents # {} => retention_state = "available"
  OBVIOUS
<1>1. unsettled # {} \/ runs # {} \/ active => retention_state = "available"
  BY DEF Inv, CoverInv, ReclaimInv, LedgerFollows, Holders
<1> QED
  BY <1>1 DEF Dependents

\* Reclamation is for good, and the fence admits and drops no work.
LEMMA FenceFinal ==
  ASSUME [RetentionNext]_retention
  PROVE  /\ retention_state \in {"reclaiming", "deleted"} =>
               retention_state' \in {"reclaiming", "deleted"}
         /\ retention_state \notin {"reclaiming", "deleted"} =>
               retention_state' \notin {"reclaiming", "deleted"}
               \/ UNCHANGED <<unsettled, runs, active>>
<1> USE DEF control, network, intents, manager, duty, journal
<1>1. CASE CatalogNext
  BY <1>1 DEF CatalogNext, Accept, AcceptUnpublished, SelectDeployment, AcceptOther,
     Acknowledge, Fence, FinishReclamation
<1>2. CASE HoldNext
  BY <1>2 DEF HoldNext, Change, Confirm, Reconcile
<1>3. CASE ManagerNext
  BY <1>3 DEF ManagerNext, EnsureDeployment, ReleaseDeployment, ActivateHeld, Publish, Settle,
     PublishRelease, FinishJournal
<1>4. CASE JournalNext
  BY <1>4 DEF JournalNext, AcquireHold, Deselect, Park, ReleaseHold, Register, StartRun,
     Verdict, SettleRelease
<1>5. CASE UNCHANGED retention
  BY <1>5 DEF retention
<1> QED
  BY <1>1, <1>2, <1>3, <1>4, <1>5 DEF RetentionNext

\* The three databases implement CodeCustody: no job, run or active deployment
\* depends on reclaimed code, and nothing is ever admitted on it again (fence,
\* close_admission, require_unused and the two reconcilers together).
THEOREM Implements == RetentionSpec => CodeOutlivesWork
<1>1. RetentionInit => Custody!Init
  <2>1. RetentionInit => ~active
    BY Zenon DEF RetentionInit
  <2> QED
    BY <2>1 DEF RetentionInit, Custody!Init, Dependents
<1>2. Inv /\ Inv' /\ [RetentionNext]_retention => [Custody!Next]_(Custody!vars)
  <2> SUFFICES ASSUME Inv, Inv', [RetentionNext]_retention
               PROVE  Custody!Next \/ UNCHANGED Custody!vars
    OBVIOUS
  <2> DEFINE gone == retention_state \in {"reclaiming", "deleted"}
  <2>1. gone => Dependents = {}
    BY ReclaimedUnused
  <2>2. gone' => Dependents' = {}
    <3>1. (Inv => (Dependents # {} => retention_state = "available"))'
      BY ReclaimedUnused, PTL
    <3> QED
      BY <3>1
  <2>3. Dependents' \subseteq ({"job"} \X (LifecycleRevisions \cup Jobs)) \cup ({"run"} \X Runs)
                              \cup {<<"active">>}
    BY DEF Inv, RetentionTypeOK, Dependents
  <2>4. CASE gone
    BY <2>1, <2>2, <2>4, FenceFinal DEF Custody!vars
  <2>5. CASE ~gone /\ ~gone'
    BY <2>3, <2>5 DEF Custody!Next, Custody!Depend
  <2>6. CASE ~gone /\ gone'
    <3>1. Dependents' = Dependents
      BY <2>6, FenceFinal DEF Dependents
    <3> QED
      BY <2>2, <2>6, <3>1 DEF Custody!Next, Custody!Reclaim
  <2> QED
    BY <2>4, <2>5, <2>6
<1> QED
  BY <1>1, <1>2, RetentionInvariant, PTL DEF RetentionSpec, CodeOutlivesWork, Custody!Spec

\* Holders, ledger, activations and the journal's duty agree.
THEOREM HoldsHonouredAlways == RetentionSpec => []HoldsHonoured
  BY RetentionTypeCorrect, HoldersAgree, ActivationsKeepCode, DutyTruthful, PTL DEF HoldsHonoured
=============================================================================
