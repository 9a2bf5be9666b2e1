----------------------- MODULE MigrationExecutorProofs -----------------------
(* Proofs about MigrationExecutor, for every catalogue of projects, any        *)
(* number of sessions and any bounds on edits, rollbacks and failures.         *)
(*                                                                             *)
(* The order of a plan (TopoFacts) comes first: TopoOrder is a recursive       *)
(* function, shown to exist and to order by a least counterexample over the    *)
(* size of a set.  Then types and the lock bracket, of every project; then     *)
(* the journal against the schema and the duty of the operation that holds     *)
(* the lock, of the projects that are Orderly.                                 *)
EXTENDS MigrationExecutor, FiniteSetTheorems, WellFoundedInduction, TLAPS

-----------------------------------------------------------------------------
(* Sets of versions and of positions.                                      *)

\* A non-empty set of naturals has a least element.
LEMMA LeastOf ==
    ASSUME NEW S, S \subseteq Nat, S # {}
    PROVE  Min(S) \in S /\ \A y \in S : Min(S) <= y
<1> DEFINE R == {ss \in Nat \X Nat : ss[1] < ss[2]}
<1>1. R = OpToRel(<, Nat)
  BY Zenon DEF OpToRel
<1>2. IsWellFoundedOn(R, Nat)
  BY <1>1, NatLessThanWellFounded, Zenon
<1> HIDE DEF R
<1>3. PICK x \in S : \A y \in S : ~(<<y, x>> \in R)
  BY <1>2, WFMin, Zenon
<1>4. \A y \in S : x <= y
  <2>1. TAKE y \in S
  <2>2. y \in Nat /\ x \in Nat /\ <<y, x>> \in Nat \X Nat
    OBVIOUS
  <2>3. ~(<<y, x>>[1] < <<y, x>>[2])
    BY <1>3, <2>2, Zenon DEF R
  <2>4. QED
    BY <2>2, <2>3, SMT
<1>5. QED
  BY <1>4 DEF Min

\* A non-empty set of positions has a last one.
LEMMA GreatestOf ==
    ASSUME NEW n \in Nat, NEW S \in SUBSET (0..n), S # {}
    PROVE  Max(S) \in S /\ \A k \in S : Max(S) >= k
<1> DEFINE T == {x \in Nat : n - x \in S}
<1>1. T \subseteq Nat /\ T # {}
  <2>1. PICK i \in S : TRUE
    OBVIOUS
  <2>2. n - i \in Nat /\ n - (n - i) = i
    BY <2>1
  <2>3. QED
    BY <2>1, <2>2
<1>2. PICK x \in T : \A y \in T : x <= y
  BY <1>1, LeastOf
<1>3. \A k \in S : n - x >= k
  <2>1. TAKE k \in S
  <2>2. n - k \in Nat /\ n - (n - k) = k
    OBVIOUS
  <2>3. x <= n - k
    BY <1>2, <2>2
  <2>4. QED
    BY <2>2, <2>3, <1>2
<1>4. QED
  BY <1>2, <1>3 DEF Max

-----------------------------------------------------------------------------
(* The order of migrations.  TopoOrder is a recursion over the sets of      *)
(* versions; that a function obeys it, and what it yields, is shown on a    *)
(* smallest set for which it would fail.                                    *)

Ready(vs) == {v \in vs : project.depends_on[v] \cap vs = {}}

TopoStep(f, vs) ==
    IF Ready(vs) = {} THEN <<>> ELSE <<Min(Ready(vs))>> \o f[vs \ {Min(Ready(vs))}]

Small(n) == {vs \in SUBSET Versions : Cardinality(vs) <= n}

\* Taking out the lowest ready version leaves a smaller set.
LEMMA Smaller ==
    ASSUME NEW vs \in SUBSET Versions, Ready(vs) # {}
    PROVE  /\ Min(Ready(vs)) \in vs /\ Min(Ready(vs)) \in Ready(vs)
           /\ \A v \in Ready(vs) : Min(Ready(vs)) <= v
           /\ vs \ {Min(Ready(vs))} \in SUBSET Versions
           /\ Cardinality(vs) \in Nat /\ Cardinality(vs \ {Min(Ready(vs))}) \in Nat
           /\ Cardinality(vs \ {Min(Ready(vs))}) = Cardinality(vs) - 1
<1>1. Ready(vs) \subseteq Nat /\ Ready(vs) \subseteq vs
  BY CatalogueAssumption DEF CatalogueAssumption, Ready
<1>2. Min(Ready(vs)) \in Ready(vs) /\ \A v \in Ready(vs) : Min(Ready(vs)) <= v
  BY <1>1, LeastOf
<1>3. IsFiniteSet(vs)
  BY CatalogueAssumption, FS_Subset DEF CatalogueAssumption
<1>4. Cardinality(vs \ {Min(Ready(vs))}) = Cardinality(vs) - 1 /\ IsFiniteSet(vs \ {Min(Ready(vs))})
  BY <1>1, <1>2, <1>3, FS_RemoveElement
<1>5. Cardinality(vs) \in Nat /\ Cardinality(vs \ {Min(Ready(vs))}) \in Nat
  BY <1>3, <1>4, FS_CardinalityType
<1>6. QED
  BY <1>1, <1>2, <1>4, <1>5

\* The recursion determines a value for every set of versions.
LEMMA TopoExists == \E f : f = [vs \in SUBSET Versions |-> TopoStep(f, vs)]
<1> DEFINE P(n) == \E f : f = [vs \in Small(n) |-> TopoStep(f, vs)]
           Bad == {n \in Nat : ~ P(n)}
<1>1. P(0)
  <2> DEFINE f == [vs \in Small(0) |-> <<>>]
  <2>1. \A vs \in Small(0) : vs = {}
    <3>1. TAKE vs \in Small(0)
    <3>2. IsFiniteSet(vs) /\ Cardinality(vs) <= 0
      BY CatalogueAssumption, FS_Subset DEF CatalogueAssumption, Small
    <3>3. QED
      BY <3>2, FS_EmptySet, FS_CardinalityType
  <2>2. \A vs \in Small(0) : TopoStep(f, vs) = <<>>
    BY <2>1 DEF TopoStep, Ready
  <2>3. f = [vs \in Small(0) |-> TopoStep(f, vs)]
    BY <2>2
  <2>4. QED
    BY <2>3, Zenon
<1>2. \A n \in Nat : P(n) => P(n + 1)
  <2>1. SUFFICES ASSUME NEW n \in Nat, NEW f, f = [vs \in Small(n) |-> TopoStep(f, vs)]
                 PROVE  P(n + 1)
    BY Zenon
  <2> DEFINE g == [vs \in Small(n + 1) |-> IF vs \in Small(n) THEN f[vs] ELSE TopoStep(f, vs)]
  <2>2. ASSUME NEW vs \in Small(n + 1) PROVE g[vs] = TopoStep(g, vs)
    <3>1. g[vs] = TopoStep(f, vs)
      BY <2>1
    <3>2. CASE Ready(vs) = {}
      BY <3>1, <3>2 DEF TopoStep
    <3>3. CASE Ready(vs) # {}
      <4> DEFINE less == vs \ {Min(Ready(vs))}
      <4>1. less \in SUBSET Versions /\ Cardinality(less) = Cardinality(vs) - 1 /\ Cardinality(vs) \in Nat
        BY <3>3, Smaller DEF Small
      <4>2. Cardinality(vs) <= n + 1
        BY DEF Small
      <4>3. Cardinality(less) <= n /\ Cardinality(less) <= n + 1
        BY <4>1, <4>2
      <4>4. less \in Small(n) /\ less \in Small(n + 1)
        BY <4>1, <4>3 DEF Small
      <4>5. g[less] = f[less]
        BY <4>4
      <4>6. QED
        BY <3>1, <3>3, <4>5 DEF TopoStep
    <3>4. QED
      BY <3>2, <3>3
  <2>3. g = [vs \in Small(n + 1) |-> TopoStep(g, vs)]
    BY <2>2
  <2>4. QED
    BY <2>3, Zenon
<1> HIDE DEF P
<1>3. Bad = {}
  <2>1. SUFFICES ASSUME Bad # {} PROVE FALSE
    OBVIOUS
  <2>2. Min(Bad) \in Bad /\ \A y \in Bad : Min(Bad) <= y
    BY <2>1, LeastOf
  <2>3. Min(Bad) # 0 /\ Min(Bad) \in Nat
    BY <2>2, <1>1
  <2>4. Min(Bad) - 1 \in Nat /\ ~(Min(Bad) - 1 \in Bad) /\ (Min(Bad) - 1) + 1 = Min(Bad)
    BY <2>2, <2>3
  <2>5. P((Min(Bad) - 1) + 1)
    BY <2>4, <1>2
  <2>6. QED
    BY <2>2, <2>4, <2>5
<1>4. Cardinality(Versions) \in Nat
  BY CatalogueAssumption, FS_CardinalityType DEF CatalogueAssumption
<1>5. Small(Cardinality(Versions)) = SUBSET Versions
  BY CatalogueAssumption, FS_Subset DEF CatalogueAssumption, Small
<1>6. P(Cardinality(Versions))
  BY <1>3, <1>4
<1>7. QED
  BY <1>5, <1>6 DEF P

\* The order of a set, one step of its recursion unfolded.
LEMMA TopoUnfold == \A vs \in SUBSET Versions : TopoOrder[vs] = TopoStep(TopoOrder, vs)
<1> DEFINE Rec(f) == [vs \in SUBSET Versions |->
              LET ready == {v \in vs : project.depends_on[v] \cap vs = {}}
              IN IF ready = {} THEN <<>> ELSE <<Min(ready)>> \o f[vs \ {Min(ready)}]]
<1>1. \A f : Rec(f) = [vs \in SUBSET Versions |-> TopoStep(f, vs)]
  BY DEF TopoStep, Ready
<1>2. TopoOrder = CHOOSE f : f = Rec(f)
  BY DEF TopoOrder
<1> HIDE DEF Rec
<1>3. \E f : f = Rec(f)
  BY <1>1, TopoExists, Zenon
<1>4. TopoOrder = Rec(TopoOrder)
  BY <1>2, <1>3, Zenon
<1>5. TopoOrder = [vs \in SUBSET Versions |-> TopoStep(TopoOrder, vs)]
  BY <1>1, <1>4, Zenon
<1> DEFINE g == TopoOrder
<1>6. g = [vs \in SUBSET Versions |-> TopoStep(g, vs)]
  BY <1>5
<1> HIDE DEF g
<1>7. \A vs \in SUBSET Versions : g[vs] = TopoStep(g, vs)
  BY <1>6, Zenon
<1>8. QED
  BY <1>7 DEF g

Distinct(q) == \A i, j \in 1..Len(q) : q[i] = q[j] => i = j

\* What the order of a set yields: each version of it once at most, after its
\* dependencies in the set and after the lower versions without any; all of the
\* set if it is as long, or if the dependencies descend in some rank.
Ordered(vs) ==
    /\ TopoOrder[vs] \in Seq(vs) /\ Distinct(TopoOrder[vs])
    /\ \A i \in 1..Len(TopoOrder[vs]) :
        /\ \A u \in project.depends_on[TopoOrder[vs][i]] \cap vs :
              \E j \in 1..(i - 1) : u = TopoOrder[vs][j]
        /\ \A s \in vs : project.depends_on[s] \cap vs = {} /\ s < TopoOrder[vs][i] =>
              \E j \in 1..(i - 1) : s = TopoOrder[vs][j]
    /\ Len(TopoOrder[vs]) <= Cardinality(vs)
    /\ Len(TopoOrder[vs]) = Cardinality(vs) =>
          \A v \in vs : \E i \in 1..Len(TopoOrder[vs]) : v = TopoOrder[vs][i]
    /\ \A rank \in [Versions -> Nat] :
          (\A v \in vs : \A u \in project.depends_on[v] \cap vs : rank[u] < rank[v]) =>
            \A v \in vs : \E i \in 1..Len(TopoOrder[vs]) : v = TopoOrder[vs][i]

\* A set whose dependencies descend has a ready version.
LEMMA RankedReady ==
    ASSUME NEW vs \in SUBSET Versions, vs # {}, NEW rank \in [Versions -> Nat],
           \A v \in vs : \A u \in project.depends_on[v] \cap vs : rank[u] < rank[v]
    PROVE  Ready(vs) # {}
<1> DEFINE ranks == {rank[v] : v \in vs}
<1>1. ranks \subseteq Nat /\ ranks # {}
  OBVIOUS
<1>2. Min(ranks) \in ranks /\ \A r \in ranks : Min(ranks) <= r
  BY <1>1, LeastOf
<1>3. PICK v \in vs : rank[v] = Min(ranks)
  BY <1>2
<1>4. \A u \in vs : rank[v] <= rank[u]
  BY <1>2, <1>3
<1>5. \A u \in vs : rank[u] \in Nat
  OBVIOUS
<1>6. project.depends_on[v] \cap vs = {}
  <2>1. SUFFICES ASSUME NEW u \in project.depends_on[v] \cap vs PROVE FALSE
    OBVIOUS
  <2>2. rank[u] < rank[v] /\ rank[v] <= rank[u] /\ rank[u] \in Nat /\ rank[v] \in Nat
    BY <1>4, <1>5
  <2>3. QED
    BY <2>2
<1>7. QED
  BY <1>6 DEF Ready

\* One step of the induction.
LEMMA OrderedStep ==
    ASSUME NEW vs \in SUBSET Versions, Ready(vs) # {},
           Ordered(vs \ {Min(Ready(vs))})
    PROVE  Ordered(vs)
<1> DEFINE m == Min(Ready(vs))  less == vs \ {m}  p == TopoOrder[less]  q == TopoOrder[vs]
<1>1. /\ m \in vs /\ m \in Ready(vs) /\ (\A v \in Ready(vs) : m <= v)
      /\ less \in SUBSET Versions /\ Cardinality(vs) \in Nat /\ Cardinality(less) \in Nat
      /\ Cardinality(less) = Cardinality(vs) - 1
  BY Smaller
<1>2. q = <<m>> \o p
  BY TopoUnfold DEF TopoStep
<1>3. p \in Seq(less) /\ Ordered(less)
  BY DEF Ordered
<1> HIDE DEF m, p, q
<1>4. /\ q \in Seq(vs) /\ Len(q) = Len(p) + 1 /\ Len(p) \in Nat
      /\ q[1] = m /\ \A i \in 1..Len(p) : q[i + 1] = p[i]
  <2>1. p \in Seq(vs) /\ <<m>> \in Seq(vs)
    BY <1>1, <1>3
  <2>2. QED
    BY <1>2, <2>1
<1>5. \A i \in 1..Len(q) : i # 1 => i - 1 \in 1..Len(p) /\ q[i] = p[i - 1]
  BY <1>4
<1>6. \A i \in 1..Len(p) : p[i] \in less /\ p[i] \in vs /\ p[i] # m
  BY <1>3
<1>7. project.depends_on[m] \cap vs = {}
  BY <1>1 DEF Ready
<1>8. Distinct(q)
  <2>1. Distinct(p)
    BY <1>3 DEF Ordered, p
  <2>2. SUFFICES ASSUME NEW i \in 1..Len(q), NEW j \in 1..Len(q), q[i] = q[j] PROVE i = j
    BY DEF Distinct
  <2>3. CASE i = 1 \/ j = 1
    BY <2>2, <2>3, <1>4, <1>5, <1>6
  <2>4. CASE i # 1 /\ j # 1
    <3>1. i - 1 \in 1..Len(p) /\ j - 1 \in 1..Len(p) /\ p[i - 1] = p[j - 1]
      BY <2>2, <2>4, <1>5
    <3>2. i - 1 = j - 1
      BY <3>1, <2>1 DEF Distinct
    <3>3. QED
      BY <3>2
  <2>5. QED
    BY <2>3, <2>4
<1>9. ASSUME NEW i \in 1..Len(q), NEW u \in project.depends_on[q[i]] \cap vs
      PROVE  \E j \in 1..(i - 1) : u = q[j]
  <2>1. i # 1
    BY <1>4, <1>7, <1>9
  <2>2. CASE u = m
    BY <2>1, <2>2, <1>4
  <2>3. CASE u # m
    <3>1. i - 1 \in 1..Len(p) /\ q[i] = p[i - 1] /\ u \in project.depends_on[p[i - 1]] \cap less
      BY <2>1, <2>3, <1>5, <1>9
    <3>2. PICK j \in 1..((i - 1) - 1) : u = p[j]
      BY <3>1, <1>3 DEF Ordered, p
    <3>3. j \in 1..Len(p) /\ q[j + 1] = u /\ j + 1 \in 1..(i - 1)
      BY <3>1, <3>2, <1>4
    <3>4. QED
      BY <3>3
  <2>4. QED
    BY <2>2, <2>3
<1>10. ASSUME NEW i \in 1..Len(q), NEW s \in vs, project.depends_on[s] \cap vs = {}, s < q[i]
       PROVE  \E j \in 1..(i - 1) : s = q[j]
  <2>0. s \in Nat /\ m \in Nat /\ \A v \in vs : v \in Nat
    BY <1>1, CatalogueAssumption DEF CatalogueAssumption
  <2>1. i # 1
    <3>1. m <= s
      BY <1>1, <1>10 DEF Ready
    <3>2. QED
      BY <3>1, <2>0, <1>4, <1>10
  <2>2. CASE s = m
    BY <2>1, <2>2, <1>4
  <2>3. CASE s # m
    <3>1. i - 1 \in 1..Len(p) /\ q[i] = p[i - 1] /\ s \in less /\ project.depends_on[s] \cap less = {}
      BY <2>1, <2>3, <1>5, <1>10
    <3>2. PICK j \in 1..((i - 1) - 1) : s = p[j]
      BY <3>1, <1>3, <1>10 DEF Ordered, p
    <3>3. j \in 1..Len(p) /\ q[j + 1] = s /\ j + 1 \in 1..(i - 1)
      BY <3>1, <3>2, <1>4
    <3>4. QED
      BY <3>3
  <2>4. QED
    BY <2>2, <2>3
<1>11. ASSUME \A v \in less : \E i \in 1..Len(p) : v = p[i]
       PROVE  \A v \in vs : \E i \in 1..Len(q) : v = q[i]
  <2>1. TAKE v \in vs
  <2>2. CASE v = m
    BY <2>2, <1>4
  <2>3. CASE v # m
    <3>1. PICK i \in 1..Len(p) : v = p[i]
      BY <2>3, <1>11
    <3>2. i + 1 \in 1..Len(q) /\ q[i + 1] = v
      BY <3>1, <1>4
    <3>3. QED
      BY <3>2
  <2>4. QED
    BY <2>2, <2>3
<1>12. Len(p) <= Cardinality(less)
  BY <1>3 DEF Ordered, p
<1>13. Len(q) <= Cardinality(vs)
  BY <1>12, <1>1, <1>4
<1>14. ASSUME Len(q) = Cardinality(vs) PROVE \A v \in vs : \E i \in 1..Len(q) : v = q[i]
  <2>1. Len(p) = Cardinality(less)
    BY <1>14, <1>1, <1>4
  <2>2. \A v \in less : \E i \in 1..Len(p) : v = p[i]
    BY <2>1, <1>3 DEF Ordered, p
  <2>3. QED
    BY <2>2, <1>11
<1>15. ASSUME NEW rank \in [Versions -> Nat],
              \A v \in vs : \A u \in project.depends_on[v] \cap vs : rank[u] < rank[v]
       PROVE  \A v \in vs : \E i \in 1..Len(q) : v = q[i]
  <2>1. \A v \in less : \A u \in project.depends_on[v] \cap less : rank[u] < rank[v]
    BY <1>15
  <2>2. \A v \in less : \E i \in 1..Len(p) : v = p[i]
    BY <2>1, <1>3 DEF Ordered, p
  <2>3. QED
    BY <2>2, <1>11
<1>16. QED
  BY <1>4, <1>8, <1>9, <1>10, <1>13, <1>14, <1>15 DEF Ordered, q

\* Every set is ordered so.
LEMMA TopoFacts == \A vs \in SUBSET Versions : Ordered(vs)
<1> DEFINE Bad == {n \in Nat : \E vs \in SUBSET Versions : Cardinality(vs) = n /\ ~ Ordered(vs)}
<1>1. \A vs \in SUBSET Versions : Cardinality(vs) \in Nat
  BY CatalogueAssumption, FS_Subset, FS_CardinalityType DEF CatalogueAssumption
<1>2. SUFFICES ASSUME Bad # {} PROVE FALSE
  BY <1>1
<1>3. Min(Bad) \in Bad /\ \A n \in Bad : Min(Bad) <= n
  BY <1>2, LeastOf
<1>4. PICK vs \in SUBSET Versions : Cardinality(vs) = Min(Bad) /\ ~ Ordered(vs)
  BY <1>3
<1>5. CASE Ready(vs) = {}
  <2>1. TopoOrder[vs] = <<>>
    BY <1>5, TopoUnfold DEF TopoStep
  <2>2. TopoOrder[vs] \in Seq(vs) /\ Len(TopoOrder[vs]) = 0
    BY <2>1
  <2>3. Len(TopoOrder[vs]) = Cardinality(vs) => vs = {}
    BY <2>2, CatalogueAssumption, FS_Subset, FS_EmptySet DEF CatalogueAssumption
  <2>4. \A rank \in [Versions -> Nat] :
          (\A v \in vs : \A u \in project.depends_on[v] \cap vs : rank[u] < rank[v]) => vs = {}
    BY <1>5, RankedReady
  <2>5. Ordered(vs)
    BY <2>2, <2>3, <2>4, <1>1 DEF Ordered, Distinct
  <2>6. QED
    BY <2>5, <1>4
<1>6. CASE Ready(vs) # {}
  <2> DEFINE less == vs \ {Min(Ready(vs))}
  <2>1. less \in SUBSET Versions /\ Cardinality(less) = Cardinality(vs) - 1
    BY <1>6, Smaller
  <2>2. ~ Ordered(less)
    BY <1>4, <1>6, OrderedStep
  <2>3. Cardinality(less) \in Bad
    BY <2>1, <2>2, <1>1
  <2>4. QED
    BY <2>1, <2>3, <1>1, <1>3, <1>4
<1>7. QED
  BY <1>5, <1>6

-----------------------------------------------------------------------------
(* The state and its types.                                                *)

Sums == 1..(project.max_edits + 1)

Events == [event : {"applied", "rolled_back"}, version : Versions, checksum : Nat \ {0},
           kind : {"apply", "squash", "repeatable", "none"}]

Files == UNION {[b -> Nat \ {0}] : b \in SUBSET Versions}

RollbackTargets == {<<"all">>} \cup ({"steps"} \X Nat) \cup ({"to"} \X Versions)

Targets == {<<>>} \cup RollbackTargets

Results == {"ok", "error", "drift", "expand", "squash", "dependency", "precondition", "unsafe",
            "missing object", "rollback refused"}

Reports == SUBSET {"timeouts", "settings", "lock"}

Operations ==
    [at : Places, op : {"none", "apply", "rollback", "squash"}, files : Files,
     target : Targets, force : BOOLEAN, stage : {"versioned", "repeatable"},
     todo : Seq(Versions), started : {<<>>} \cup [Versions -> Nat],
     skipped : SUBSET Versions, result : Results, report : Reports]

WorkTyped == work \in [Deployers -> Operations]

StateTyped ==
    /\ project \in Projects
    /\ edits \in 0..project.max_edits /\ edition \in [Versions -> 1..(edits + 1)]
    /\ schema \in [Objects -> {"absent", "invalid", "built"}] /\ DOMAIN body = Objects
    /\ inflight \in [Versions -> 0..(project.max_edits + 1)] /\ edges \subseteq Versions \X Versions
    /\ journal \in Seq(Events) /\ \A i \in 1..Len(journal) : journal[i].checksum \in Sums
    /\ lock \in Deployers \cup {Nobody}
    /\ dirty \in [Deployers -> SUBSET {"timeouts", "settings"}]

Inner == {"running", "arming", "up", "finalizing"}

\* What an operation handles was supplied to it.
WorkOf(d) ==
    /\ \A i \in 1..Len(work[d].todo) : work[d].todo[i] \in Batch(d)
    /\ work[d].skipped \subseteq Batch(d)
    /\ \A v \in Batch(d) : work[d].files[v] \in Sums
    /\ work[d].op = "rollback" => work[d].target \in RollbackTargets
    /\ work[d].at \in Inner \ {"running"} => work[d].todo # <<>> /\ work[d].op = "apply"

\* TypeOK with the records in full, and what bounds the checksums.
Typed == StateTyped /\ WorkTyped /\ \A d \in Deployers : WorkOf(d)

\* What a project is.
LEMMA ProjectTyped ==
    ASSUME project \in Projects
    PROVE  /\ project.versions \subseteq Versions /\ project.deployers \subseteq Deployers
           /\ project.two_phase \subseteq Versions /\ project.replayable \subseteq project.two_phase
           /\ project.repeatable \subseteq Versions /\ project.conditional \subseteq Versions
           /\ project.reversible \subseteq Versions /\ project.editable \subseteq Versions
           /\ project.guarded \subseteq Versions
           /\ project.depends_on \in [Versions -> SUBSET Versions]
           /\ project.supersedes \in [Versions -> SUBSET Versions]
           /\ project.batches \subseteq SUBSET Versions
           /\ project.max_edits \in Nat /\ project.max_rollbacks \in Nat /\ project.max_faults \in Nat
           /\ project.targets \subseteq RollbackTargets
           /\ project.repeatable \cap (project.reversible \cup project.two_phase) = {}
           /\ \A v \in project.repeatable : project.supersedes[v] = {}
           /\ \A v \in project.versions \ project.repeatable :
                  project.depends_on[v] \cap project.repeatable = {}
<1>1. Project(project) /\ RepeatablesWellFormed(project)
  BY CatalogueAssumption DEF CatalogueAssumption
<1>2. /\ project.versions \subseteq Versions /\ project.deployers \subseteq Deployers
      /\ project.batches \subseteq SUBSET project.versions
      /\ project.replayable \subseteq project.two_phase /\ project.targets \subseteq RollbackTargets
  BY <1>1 DEF Project, RollbackTargets
<1>3. \A f \in Flags : project[f] \subseteq project.versions
  BY <1>1 DEF Project
<1>4. /\ project.two_phase \subseteq project.versions /\ project.replayable \subseteq project.versions
      /\ project.repeatable \subseteq project.versions /\ project.conditional \subseteq project.versions
      /\ project.reversible \subseteq project.versions /\ project.editable \subseteq project.versions
      /\ project.guarded \subseteq project.versions
  BY <1>3 DEF Flags
<1>5. /\ project.depends_on \in [Versions -> SUBSET project.versions]
      /\ project.supersedes \in [Versions -> SUBSET project.versions]
  BY <1>1 DEF Project
<1>6. project.max_edits \in Nat /\ project.max_rollbacks \in Nat /\ project.max_faults \in Nat
  BY <1>1 DEF Project, Bounds
<1>7. /\ project.repeatable \cap (project.reversible \cup project.two_phase) = {}
      /\ \A v \in project.versions : IF v \in project.repeatable THEN project.supersedes[v] = {}
                                     ELSE project.depends_on[v] \cap project.repeatable = {}
  BY <1>1 DEF RepeatablesWellFormed
<1>8. QED
  BY <1>2, <1>4, <1>5, <1>6, <1>7

\* A session at rest has a well-formed record.
LEMMA IdleTyped == Idle \in Operations
<1>1. <<>> \in Files
  <2>1. <<>> \in [{} -> Nat \ {0}]
    OBVIOUS
  <2>2. QED
    BY <2>1 DEF Files
<1>2. <<>> \in Seq(Versions)
  OBVIOUS
<1>3. <<>> \in Targets /\ <<>> \in {<<>>} \cup [Versions -> Nat]
  BY DEF Targets
<1>4. "idle" \in Places /\ {} \in Reports /\ "ok" \in Results
  BY DEF Places, Reports, Results
<1>5. QED
  BY <1>1, <1>2, <1>3, <1>4 DEF Idle, Operations

\* Types hold at the start.
LEMMA TypedInit == Init => Typed
<1> SUFFICES ASSUME Init PROVE Typed
  OBVIOUS
<1> USE DEF Init
<1>1. project \in Projects /\ project.max_edits \in Nat
  BY ProjectTyped
<1>2. WorkTyped
  BY <1>1, IdleTyped DEF WorkTyped
<1>3. \A d \in Deployers : work[d].todo = <<>> /\ work[d].skipped = {} /\ work[d].files = <<>>
        /\ work[d].op = "none" /\ work[d].at = "idle"
  BY DEF Idle
<1>4. \A d \in Deployers : WorkOf(d)
  BY <1>3 DEF WorkOf, Batch, Inner
<1>5. journal \in Seq(Events) /\ Len(journal) = 0
  OBVIOUS
<1>6. /\ edits \in 0..project.max_edits /\ edition \in [Versions -> 1..(edits + 1)]
      /\ inflight \in [Versions -> 0..(project.max_edits + 1)]
  BY <1>1
<1>7. StateTyped
  BY <1>1, <1>5, <1>6 DEF StateTyped
<1>8. QED
  BY <1>2, <1>4, <1>7 DEF Typed

-----------------------------------------------------------------------------
(* What a step does to the operation of a session.                         *)

SamePlan(x, w) ==
    /\ x.op = w.op /\ x.files = w.files /\ x.target = w.target /\ x.force = w.force
    /\ x.stage = w.stage /\ x.todo = w.todo /\ x.started = w.started /\ x.skipped = w.skipped

Alone(d) == \A e \in Deployers : e # d => work'[e] = work[e]

\* The operation of d goes on to another place, with its plan as it is.
Turned(d, a, r, t) ==
    /\ WorkTyped' /\ Alone(d)
    /\ work'[d].at = a /\ work'[d].result = r /\ work'[d].report = t
    /\ SamePlan(work'[d], work[d])

\* Writing one session's record leaves the others alone.
LEMMA SetFacts ==
    ASSUME WorkTyped, NEW d \in Deployers, NEW w \in Operations, Set(d, w)
    PROVE  WorkTyped' /\ Alone(d) /\ work'[d] = w
BY DEF WorkTyped, Set, Alone

\* Going to a place keeps the plan, the result and the report.
LEMMA GotoTurns ==
    ASSUME WorkTyped, NEW d \in Deployers, NEW a \in Places, Goto(d, a)
    PROVE  Turned(d, a, work[d].result, work[d].report)
<1> DEFINE w == work[d]  x == [w EXCEPT !.at = a]
<1>1. w \in Operations
  BY DEF WorkTyped
<1>2. x \in Operations /\ x.at = a /\ x.result = w.result /\ x.report = w.report /\ SamePlan(x, w)
  BY <1>1 DEF Operations, SamePlan
<1>3. Set(d, x)
  BY DEF Goto
<1> HIDE DEF x
<1>4. QED
  BY <1>2, <1>3, SetFacts DEF Turned

\* An operation's body ends in the restore or in the release.
LEMMA ClosePlace == \A d \in Deployers : CloseOf(d) \in {"restoring", "releasing"} /\ CloseOf(d) \in Places
BY DEF CloseOf, Places

\* Any other turn: the place, the result and the report are given.
LEMMA TurnTurns ==
    ASSUME WorkTyped, NEW d \in Deployers, NEW a \in Places, NEW r \in Results, NEW t \in Reports
    PROVE  /\ Set(d, [work[d] EXCEPT !.at = a, !.result = r]) => Turned(d, a, r, work[d].report)
           /\ Set(d, [work[d] EXCEPT !.at = a, !.report = t]) => Turned(d, a, work[d].result, t)
           /\ Set(d, [work[d] EXCEPT !.at = a, !.result = r, !.report = t]) => Turned(d, a, r, t)
<1> DEFINE w == work[d]
           x == [w EXCEPT !.at = a, !.result = r]
           y == [w EXCEPT !.at = a, !.report = t]
           z == [w EXCEPT !.at = a, !.result = r, !.report = t]
<1>1. w \in Operations
  BY DEF WorkTyped
<1>2. x \in Operations /\ x.at = a /\ x.result = r /\ x.report = w.report /\ SamePlan(x, w)
  BY <1>1 DEF Operations, SamePlan
<1>3. y \in Operations /\ y.at = a /\ y.result = w.result /\ y.report = t /\ SamePlan(y, w)
  BY <1>1 DEF Operations, SamePlan
<1>4. z \in Operations /\ z.at = a /\ z.result = r /\ z.report = t /\ SamePlan(z, w)
  BY <1>1 DEF Operations, SamePlan
<1> HIDE DEF x, y, z
<1>5. /\ Set(d, x) => Turned(d, a, r, work[d].report)
      /\ Set(d, y) => Turned(d, a, work[d].result, t)
      /\ Set(d, z) => Turned(d, a, r, t)
  BY <1>2, <1>3, <1>4, SetFacts DEF Turned
<1>6. QED
  BY <1>5 DEF x, y, z

\* A refusal turns to the close, with its reason.
LEMMA RefuseTurns ==
    ASSUME WorkTyped, NEW d \in Deployers, NEW why \in Results, Refuse(d, why)
    PROVE  Turned(d, CloseOf(d), why, work[d].report)
<1>1. CloseOf(d) \in Places /\ {} \in Reports
  BY ClosePlace DEF Reports
<1>2. Set(d, [work[d] EXCEPT !.at = CloseOf(d), !.result = why])
  BY DEF Refuse
<1>3. QED
  BY <1>1, <1>2, TurnTurns

\* A finished migration leaves the list.
Advanced(d, more) ==
    /\ WorkTyped' /\ Alone(d)
    /\ work'[d].at = "running" /\ work'[d].result = work[d].result
    /\ work'[d].report = work[d].report
    /\ work'[d].op = work[d].op /\ work'[d].files = work[d].files
    /\ work'[d].target = work[d].target /\ work'[d].force = work[d].force
    /\ work'[d].stage = work[d].stage /\ work'[d].started = work[d].started
    /\ work'[d].todo = Tail(work[d].todo)
    /\ work'[d].skipped = work[d].skipped \cup more

\* Advancing drops the first version to run and may note it as skipped.
LEMMA AdvanceFacts ==
    ASSUME WorkTyped, NEW d \in Deployers, work[d].todo # <<>>
    PROVE  /\ Set(d, Advance(d)) => Advanced(d, {})
           /\ Set(d, [Advance(d) EXCEPT !.skipped = @ \cup {Current(d)}]) => Advanced(d, {Current(d)})
<1> DEFINE w == work[d]
           x == [w EXCEPT !.at = "running", !.todo = Tail(@)]
           y == [x EXCEPT !.skipped = @ \cup {Current(d)}]
<1>1. w \in Operations /\ w.todo \in Seq(Versions) /\ w.skipped \in SUBSET Versions
  BY DEF WorkTyped, Operations
<1>2. Current(d) \in Versions /\ Tail(w.todo) \in Seq(Versions)
  BY <1>1 DEF Current
<1>3. "running" \in Places
  BY DEF Places
<1>4. /\ x \in Operations /\ x.at = "running" /\ x.result = w.result /\ x.report = w.report
      /\ x.op = w.op /\ x.files = w.files /\ x.target = w.target /\ x.force = w.force
      /\ x.stage = w.stage /\ x.started = w.started /\ x.todo = Tail(w.todo) /\ x.skipped = w.skipped
  BY <1>1, <1>2, <1>3 DEF Operations
<1> HIDE DEF x
<1>5. /\ y \in Operations /\ y.at = x.at /\ y.result = x.result /\ y.report = x.report
      /\ y.op = x.op /\ y.files = x.files /\ y.target = x.target /\ y.force = x.force
      /\ y.stage = x.stage /\ y.started = x.started /\ y.todo = x.todo
      /\ y.skipped = x.skipped \cup {Current(d)}
  <2>1. x.skipped \cup {Current(d)} \in SUBSET Versions
    BY <1>1, <1>2, <1>4
  <2>2. QED
    BY <1>4, <2>1 DEF Operations
<1> HIDE DEF y
<1>6. Set(d, x) => Advanced(d, {})
  BY <1>4, SetFacts DEF Advanced
<1>7. Set(d, y) => Advanced(d, {Current(d)})
  BY <1>4, <1>5, SetFacts DEF Advanced
<1>8. QED
  BY <1>6, <1>7 DEF x, y, Advance

\* A plan is made.
Planned(d, stage, todo, started) ==
    /\ WorkTyped' /\ Alone(d)
    /\ work'[d].at = "running" /\ work'[d].result = work[d].result
    /\ work'[d].report = work[d].report
    /\ work'[d].op = work[d].op /\ work'[d].files = work[d].files
    /\ work'[d].target = work[d].target /\ work'[d].force = work[d].force
    /\ work'[d].stage = stage /\ work'[d].started = started /\ work'[d].todo = todo
    /\ work'[d].skipped = work[d].skipped

\* The three ways a plan is written.
LEMMA PlanFacts ==
    ASSUME WorkTyped, NEW d \in Deployers, NEW q \in Seq(Versions), NEW m \in [Versions -> Nat]
    PROVE  /\ Set(d, [work[d] EXCEPT !.at = "running", !.stage = "versioned", !.todo = q, !.started = m])
                => Planned(d, "versioned", q, m)
           /\ work[d].at = "running" /\ Set(d, [work[d] EXCEPT !.stage = "repeatable", !.todo = q, !.started = m])
                => Planned(d, "repeatable", q, m)
           /\ Set(d, [work[d] EXCEPT !.at = "running", !.todo = q])
                => Planned(d, work[d].stage, q, work[d].started)
<1> DEFINE w == work[d]
           x == [w EXCEPT !.at = "running", !.stage = "versioned", !.todo = q, !.started = m]
           y == [w EXCEPT !.stage = "repeatable", !.todo = q, !.started = m]
           z == [w EXCEPT !.at = "running", !.todo = q]
<1>1. w \in Operations /\ "running" \in Places
  BY DEF WorkTyped, Places
<1>2. /\ x \in Operations /\ x.at = "running" /\ x.result = w.result /\ x.report = w.report
      /\ x.op = w.op /\ x.files = w.files /\ x.target = w.target /\ x.force = w.force
      /\ x.stage = "versioned" /\ x.started = m /\ x.todo = q /\ x.skipped = w.skipped
  BY <1>1 DEF Operations
<1>3. /\ y \in Operations /\ y.at = w.at /\ y.result = w.result /\ y.report = w.report
      /\ y.op = w.op /\ y.files = w.files /\ y.target = w.target /\ y.force = w.force
      /\ y.stage = "repeatable" /\ y.started = m /\ y.todo = q /\ y.skipped = w.skipped
  BY <1>1 DEF Operations
<1>4. /\ z \in Operations /\ z.at = "running" /\ z.result = w.result /\ z.report = w.report
      /\ z.op = w.op /\ z.files = w.files /\ z.target = w.target /\ z.force = w.force
      /\ z.stage = w.stage /\ z.started = w.started /\ z.todo = q /\ z.skipped = w.skipped
  BY <1>1 DEF Operations
<1> HIDE DEF x, y, z
<1>5. Set(d, x) => Planned(d, "versioned", q, m)
  BY <1>2, SetFacts DEF Planned
<1>6. w.at = "running" /\ Set(d, y) => Planned(d, "repeatable", q, m)
  BY <1>3, SetFacts DEF Planned
<1>7. Set(d, z) => Planned(d, w.stage, q, w.started)
  BY <1>4, SetFacts DEF Planned
<1>8. QED
  BY <1>5, <1>6, <1>7 DEF x, y, z

\* An operation is asked for.
Begun(d, op, batch) ==
    /\ WorkTyped' /\ Alone(d)
    /\ work'[d].op = op /\ work'[d].files = [v \in batch |-> edition[v]]
    /\ work'[d].todo = <<>> /\ work'[d].skipped = {} /\ work'[d].stage = "versioned"
    /\ op = "rollback" => work'[d].target \in RollbackTargets

\* The session's timeouts are lifted, or the operation ends before it waits.
Lifted(d) ==
    /\ \/ /\ work'[d].at = "waiting" /\ work'[d].result = "ok" /\ work'[d].report = {}
          /\ dirty' = [dirty EXCEPT ![d] = @ \cup {"timeouts"}]
       \/ /\ work'[d].at = "done" /\ work'[d].result = "error"
          /\ \E report \in SUBSET {"timeouts"} : \E took \in SUBSET report :
               work'[d].report = report /\ dirty' = [dirty EXCEPT ![d] = @ \cup took]
    /\ UNCHANGED <<project, edition, built, records, lock, edits>>

\* A begun operation has its batch in today's editions and nothing planned.
LEMMA BeginFacts ==
    ASSUME Typed, NEW d \in Deployers, NEW op \in {"apply", "rollback", "squash"},
           NEW batch \in SUBSET Versions, NEW target \in Targets,
           op = "rollback" => target \in RollbackTargets, NEW force \in BOOLEAN,
           Begin(d, op, batch, target, force)
    PROVE  /\ work[d].at = "idle" /\ Begun(d, op, batch)
           /\ Lifted(d)
<1> DEFINE files == [v \in batch |-> edition[v]]
           asked == [Idle EXCEPT !.op = op, !.files = files, !.target = target, !.force = force]
           x == [asked EXCEPT !.at = "waiting"]
           y(t) == [asked EXCEPT !.at = "done", !.result = "error", !.report = t]
<1>1. files \in Files
  <2>1. files \in [batch -> Nat \ {0}]
    BY DEF Typed, StateTyped, WorkOf
  <2>2. QED
    BY <2>1 DEF Files
<1> HIDE DEF files
<1>2. /\ asked \in Operations /\ asked.op = op /\ asked.files = files /\ asked.target = target
      /\ asked.todo = <<>>
      /\ asked.skipped = {} /\ asked.stage = "versioned" /\ asked.result = "ok" /\ asked.report = {}
  <2>1. /\ asked \in Operations /\ asked.op = op /\ asked.files = files /\ asked.target = target
        /\ asked.todo = Idle.todo
        /\ asked.skipped = Idle.skipped /\ asked.stage = Idle.stage /\ asked.result = Idle.result
        /\ asked.report = Idle.report
    BY <1>1, IdleTyped DEF Operations
  <2>2. Idle.todo = <<>> /\ Idle.skipped = {} /\ Idle.stage = "versioned" /\ Idle.result = "ok"
        /\ Idle.report = {}
    BY DEF Idle
  <2>3. QED
    BY <2>1, <2>2
<1>3. "waiting" \in Places /\ "done" \in Places /\ "error" \in Results
  BY DEF Places, Results
<1>4. /\ x \in Operations /\ x.op = op /\ x.files = files /\ x.target = target /\ x.todo = <<>> /\ x.skipped = {}
      /\ x.stage = "versioned" /\ x.at = "waiting" /\ x.result = "ok" /\ x.report = {}
  <2> HIDE DEF asked
  <2>1. QED
    BY <1>2, <1>3 DEF Operations
<1>5. ASSUME NEW t \in SUBSET {"timeouts"}
      PROVE  /\ y(t) \in Operations /\ y(t).op = op /\ y(t).files = files /\ y(t).todo = <<>>
             /\ y(t).target = target
             /\ y(t).skipped = {} /\ y(t).stage = "versioned" /\ y(t).at = "done"
             /\ y(t).result = "error" /\ y(t).report = t
  <2> HIDE DEF asked
  <2>1. t \in Reports
    BY DEF Reports
  <2>2. QED
    BY <2>1, <1>2, <1>3 DEF Operations
<1>6. WorkTyped
  BY DEF Typed, StateTyped, WorkOf
<1>7. /\ work[d].at = "idle" /\ UNCHANGED <<project, edition, built, records, lock, edits>>
      /\ \/ Set(d, x) /\ dirty' = [dirty EXCEPT ![d] = @ \cup {"timeouts"}]
         \/ \E report \in SUBSET {"timeouts"} : \E took \in SUBSET report :
              Set(d, y(report)) /\ dirty' = [dirty EXCEPT ![d] = @ \cup took]
  BY DEF Begin, files
<1> HIDE DEF x, y, asked
<1>8. CASE Set(d, x) /\ dirty' = [dirty EXCEPT ![d] = @ \cup {"timeouts"}]
  BY <1>4, <1>6, <1>7, <1>8, SetFacts DEF Begun, Lifted, files
<1>9. CASE \E report \in SUBSET {"timeouts"} : \E took \in SUBSET report :
              Set(d, y(report)) /\ dirty' = [dirty EXCEPT ![d] = @ \cup took]
  <2>1. PICK report \in SUBSET {"timeouts"} : \E took \in SUBSET report :
              Set(d, y(report)) /\ dirty' = [dirty EXCEPT ![d] = @ \cup took]
    BY <1>9
  <2>2. work'[d] = y(report) /\ WorkTyped' /\ Alone(d)
    BY <2>1, <1>5, <1>6, SetFacts
  <2>3. Begun(d, op, batch) /\ work'[d].at = "done" /\ work'[d].result = "error"
        /\ work'[d].report = report
    <3>1. /\ work'[d].op = op /\ work'[d].files = files /\ work'[d].target = target
          /\ work'[d].todo = <<>> /\ work'[d].skipped = {} /\ work'[d].stage = "versioned"
          /\ work'[d].at = "done" /\ work'[d].result = "error" /\ work'[d].report = report
      <4>1. /\ y(report).op = op /\ y(report).files = files /\ y(report).target = target
            /\ y(report).todo = <<>> /\ y(report).skipped = {} /\ y(report).stage = "versioned"
            /\ y(report).at = "done" /\ y(report).result = "error" /\ y(report).report = report
        BY <1>5
      <4>2. QED
        BY <2>2, <4>1
    <3>2. QED
      BY <2>2, <3>1 DEF Begun, files
  <2>4. \E took \in SUBSET report : dirty' = [dirty EXCEPT ![d] = @ \cup took]
    BY <2>1
  <2>5. QED
    BY <2>3, <2>4, <1>7, Zenon DEF Lifted
<1>10. QED
  BY <1>7, <1>8, <1>9

\* Every operation begins so.
LEMMA BeginningFacts ==
    ASSUME Typed, NEW d \in Deployers, Apply(d) \/ Rollback(d) \/ Squash(d)
    PROVE  /\ \E op \in {"apply", "rollback", "squash"}, batch \in SUBSET Versions :
                /\ Begun(d, op, batch)
                /\ op = "squash" => \A s \in batch : project.supersedes[s] # {}
           /\ work[d].at = "idle"
           /\ Lifted(d)
<1>1. project.batches \subseteq SUBSET Versions /\ project.targets \subseteq RollbackTargets
  BY ProjectTyped DEF Typed, StateTyped, WorkOf
<1>2. <<>> \in Targets /\ RollbackTargets \subseteq Targets /\ FALSE \in BOOLEAN
  BY DEF Targets
<1>3. PICK op \in {"apply", "rollback", "squash"}, batch \in SUBSET Versions, target \in Targets,
          force \in BOOLEAN :
        Begin(d, op, batch, target, force) /\ (op = "squash" => \A s \in batch : project.supersedes[s] # {})
          /\ (op = "rollback" => target \in RollbackTargets)
  <2>1. CASE Apply(d)
    BY <2>1, <1>1, <1>2 DEF Apply
  <2>2. CASE Rollback(d)
    <3>1. PICK batch \in project.batches, target \in project.targets, force \in BOOLEAN :
              Begin(d, "rollback", batch, target, force)
      BY <2>2 DEF Rollback
    <3>2. QED
      BY <3>1, <1>1, <1>2
  <2>3. CASE Squash(d)
    <3>1. PICK s \in Versions : project.supersedes[s] # {} /\ Begin(d, "squash", {s}, <<>>, FALSE)
      BY <2>3 DEF Squash
    <3>2. {s} \in SUBSET Versions /\ \A t \in {s} : project.supersedes[t] # {}
      BY <3>1
    <3>3. QED
      BY <3>1, <3>2, <1>2
  <2>4. QED
    BY <2>1, <2>2, <2>3
<1>4. work[d].at = "idle" /\ Begun(d, op, batch) /\ Lifted(d)
  BY <1>3, BeginFacts
<1>5. QED
  BY <1>3, <1>4

-----------------------------------------------------------------------------
(* The lock bracket: what a session carries, place by place.               *)

BracketOf(d) ==
    /\ work[d].at = "idle" => dirty[d] = {} /\ lock # d
    /\ work[d].at = "waiting" =>
          lock # d /\ work[d].report = {} /\ "settings" \notin dirty[d] /\ work[d].result = "ok"
    /\ work[d].at = "dropping" =>
          work[d].report = {} /\ "settings" \notin dirty[d] /\ work[d].result # "ok"
    /\ work[d].at = "settling" =>
        /\ "settings" \notin dirty[d] /\ work[d].report \subseteq {"lock"}
        /\ work[d].result = "ok" => lock = d /\ work[d].report = {}
        /\ work[d].result # "ok" /\ lock = d => "lock" \in work[d].report
    /\ work[d].at = "planning" => lock = d /\ dirty[d] = {} /\ work[d].report = {}
    /\ work[d].at \in Inner \cup {"restoring"} =>
          lock = d /\ "timeouts" \notin dirty[d] /\ work[d].report = {}
    /\ work[d].at \in Inner /\ work[d].op # "apply" => dirty[d] = {}
    /\ work[d].at = "releasing" => lock = d /\ dirty[d] \subseteq work[d].report
    /\ work[d].at = "done" => dirty[d] \subseteq work[d].report /\ (lock = d => "lock" \in work[d].report)

BracketInv == \A d \in Deployers : BracketOf(d)

\* What d does leaves the sessions of the others as they are.
OthersKept(d) == \A e \in Deployers : e # d =>
    work'[e] = work[e] /\ dirty'[e] = dirty[e] /\ (lock' = e <=> lock = e)

\* The bracket of the others stands where their sessions do.
LEMMA BracketFrame ==
    ASSUME BracketInv, NEW d \in Deployers, OthersKept(d), BracketOf(d)'
    PROVE  BracketInv'
<1>1. SUFFICES ASSUME NEW e \in Deployers, e # d PROVE BracketOf(e)'
  BY DEF BracketInv
<1>2. work'[e] = work[e] /\ dirty'[e] = dirty[e] /\ (lock' = e <=> lock = e) /\ BracketOf(e)
  BY <1>1 DEF OthersKept, BracketInv
<1>3. QED
  BY <1>2 DEF BracketOf, Inner

\* A lock that only d takes or gives up is nobody else's.
LEMMA OthersFrame ==
    ASSUME Typed, NEW d \in Deployers, Alone(d),
           \/ dirty' = dirty
           \/ \E S : dirty' = [dirty EXCEPT ![d] = S],
           lock' \in {lock, Unlocked(d)} \/ (lock = Nobody /\ lock' = d)
    PROVE  OthersKept(d)
<1>1. Nobody \notin Deployers
  BY CatalogueAssumption DEF CatalogueAssumption
<1>2. \A e \in Deployers : e # d => (lock' = e <=> lock = e)
  BY <1>1 DEF Unlocked
<1>3. \A e \in Deployers : e # d => dirty'[e] = dirty[e]
  BY DEF Typed, StateTyped, WorkOf
<1>4. QED
  BY <1>2, <1>3 DEF OthersKept, Alone

\* No session carries anything at the start.
LEMMA BracketInit == Init => BracketInv
<1> SUFFICES ASSUME Init, NEW d \in Deployers PROVE BracketOf(d)
  BY DEF BracketInv
<1>1. work[d].at = "idle" /\ dirty[d] = {} /\ lock = Nobody
  BY DEF Init, Idle
<1>2. QED
  BY <1>1, CatalogueAssumption DEF BracketOf, Inner, CatalogueAssumption

\* The timeouts are lifted before the lock is asked for (lift_statement_budget).
LEMMA BracketBegins ==
    ASSUME Typed, BracketInv, NEW d \in Deployers, Apply(d) \/ Rollback(d) \/ Squash(d)
    PROVE  BracketInv'
<1>1. work[d].at = "idle" /\ Lifted(d) /\ Alone(d)
  BY BeginningFacts DEF Begun
<1>2. dirty[d] = {} /\ lock # d
  BY <1>1 DEF BracketInv, BracketOf
<1>3. lock' = lock
  BY <1>1 DEF Lifted
<1>4. CASE /\ work'[d].at = "waiting" /\ work'[d].result = "ok" /\ work'[d].report = {}
           /\ dirty' = [dirty EXCEPT ![d] = @ \cup {"timeouts"}]
  <2>1. dirty'[d] = {"timeouts"}
    BY <1>2, <1>4 DEF Typed, StateTyped, WorkOf
  <2>2. BracketOf(d)'
    BY <1>2, <1>3, <1>4, <2>1 DEF BracketOf, Inner
  <2>3. OthersKept(d)
    BY <1>1, <1>3, <1>4, OthersFrame
  <2>4. QED
    BY <2>2, <2>3, BracketFrame
<1>5. CASE /\ work'[d].at = "done" /\ work'[d].result = "error"
           /\ \E report \in SUBSET {"timeouts"} : \E took \in SUBSET report :
                work'[d].report = report /\ dirty' = [dirty EXCEPT ![d] = @ \cup took]
  <2>1. PICK took \in SUBSET work'[d].report : dirty' = [dirty EXCEPT ![d] = @ \cup took]
    BY <1>5
  <2>2. dirty'[d] = took
    BY <1>2, <2>1 DEF Typed, StateTyped, WorkOf
  <2>3. BracketOf(d)'
    BY <1>2, <1>3, <1>5, <2>1, <2>2 DEF BracketOf, Inner
  <2>4. OthersKept(d)
    BY <1>1, <1>3, <2>1, OthersFrame
  <2>5. QED
    BY <2>3, <2>4, BracketFrame
<1>6. QED
  BY <1>1, <1>4, <1>5 DEF Lifted

\* The lock is granted to a session that waits for it.
LEMMA BracketTakes ==
    ASSUME Typed, BracketInv, NEW d \in Deployers, TakeProjectLock(d)
    PROVE  BracketInv'
<1>1. /\ work[d].at = "waiting" /\ lock = Nobody /\ lock' = d /\ dirty' = dirty
      /\ Turned(d, "settling", work[d].result, work[d].report)
  BY GotoTurns DEF TakeProjectLock, Typed, StateTyped, WorkOf, Places
<1>2. work[d].report = {} /\ "settings" \notin dirty[d] /\ work[d].result = "ok"
  BY <1>1 DEF BracketInv, BracketOf
<1>3. BracketOf(d)'
  BY <1>1, <1>2 DEF BracketOf, Turned, Inner
<1>4. QED
  BY <1>1, <1>3, OthersFrame, BracketFrame DEF Turned

\* A cancelled wait may leave a grant behind.
LEMMA BracketWaitFails ==
    ASSUME Typed, BracketInv, NEW d \in Deployers, LockWaitFails(d)
    PROVE  BracketInv'
<1>1. /\ work[d].at = "waiting" /\ dirty' = dirty /\ (lock' = lock \/ (lock = Nobody /\ lock' = d))
      /\ Turned(d, "dropping", "error", work[d].report)
  BY TurnTurns DEF LockWaitFails, Typed, StateTyped, WorkOf, Places, Results, Reports
<1>2. work[d].report = {} /\ "settings" \notin dirty[d]
  BY <1>1 DEF BracketInv, BracketOf
<1>3. BracketOf(d)'
  BY <1>1, <1>2 DEF BracketOf, Turned, Inner
<1>4. QED
  BY <1>1, <1>3, OthersFrame, BracketFrame DEF Turned

\* The grant of a failed acquisition is given up, or reported.
LEMMA BracketDrops ==
    ASSUME Typed, BracketInv, NEW d \in Deployers, DropGrantFromFailedAcquire(d)
    PROVE  BracketInv'
<1>1. Nobody # d /\ Unlocked(d) # d
  BY CatalogueAssumption DEF CatalogueAssumption, Unlocked
<1>2. work[d].at = "dropping" /\ dirty' = dirty
  BY DEF DropGrantFromFailedAcquire
<1>3. work[d].report = {} /\ "settings" \notin dirty[d] /\ work[d].result # "ok"
  BY <1>2 DEF BracketInv, BracketOf
<1>4. CASE lock' = Unlocked(d) /\ Goto(d, "settling")
  <2>1. Turned(d, "settling", work[d].result, work[d].report)
    BY <1>4, GotoTurns DEF Typed, StateTyped, WorkOf, Places
  <2>2. BracketOf(d)'
    BY <1>1, <1>2, <1>3, <1>4, <2>1 DEF BracketOf, Turned, Inner
  <2>3. QED
    BY <1>2, <1>4, <2>1, <2>2, OthersFrame, BracketFrame DEF Turned
<1>5. CASE /\ lock' \in {lock, Unlocked(d)}
           /\ Set(d, [work[d] EXCEPT !.at = "settling", !.report = {"lock"}])
  <2>0. WorkTyped /\ "settling" \in Places /\ {"lock"} \in Reports /\ "ok" \in Results
    BY DEF Typed, StateTyped, WorkOf, Places, Reports, Results
  <2>1. Turned(d, "settling", work[d].result, {"lock"})
    BY <1>5, <2>0, TurnTurns
  <2>2. BracketOf(d)'
    BY <1>2, <1>3, <2>1 DEF BracketOf, Turned, Inner
  <2>3. QED
    BY <1>2, <1>5, <2>1, <2>2, OthersFrame, BracketFrame DEF Turned
<1>6. QED
  BY <1>4, <1>5 DEF DropGrantFromFailedAcquire

\* The caller's timeouts are put back, or the session is reported.
LEMMA BracketSettles ==
    ASSUME Typed, BracketInv, NEW d \in Deployers, SettleLockStatement(d)
    PROVE  BracketInv'
<1> DEFINE clean == [dirty EXCEPT ![d] = @ \ {"timeouts"}]
<1>1. work[d].at = "settling" /\ lock' = lock
  BY DEF SettleLockStatement
<1>2. /\ "settings" \notin dirty[d] /\ work[d].report \subseteq {"lock"}
      /\ work[d].result = "ok" => lock = d /\ work[d].report = {}
      /\ work[d].result # "ok" /\ lock = d => "lock" \in work[d].report
  BY <1>1 DEF BracketInv, BracketOf
<1>3. dirty[d] \subseteq {"timeouts"} /\ clean[d] = {} /\ clean = [dirty EXCEPT ![d] = {}]
  <2>1. dirty[d] \subseteq {"timeouts", "settings"}
    BY DEF Typed, StateTyped, WorkOf
  <2>2. dirty[d] \subseteq {"timeouts"} /\ dirty[d] \ {"timeouts"} = {}
    BY <2>1, <1>2
  <2>3. QED
    BY <2>2 DEF Typed, StateTyped, WorkOf
<1>4. WorkTyped /\ "planning" \in Places /\ "done" \in Places /\ "error" \in Results
  BY DEF Typed, StateTyped, WorkOf, Places, Results
<1>5. CASE /\ dirty' = clean /\ Goto(d, IF work[d].result = "ok" THEN "planning" ELSE "done")
  <2>1. Turned(d, IF work[d].result = "ok" THEN "planning" ELSE "done", work[d].result, work[d].report)
    BY <1>4, <1>5, GotoTurns
  <2>2. dirty'[d] = {}
    BY <1>3, <1>5
  <2>3. BracketOf(d)'
    BY <1>1, <1>2, <2>1, <2>2 DEF BracketOf, Turned, Inner
  <2>4. QED
    BY <1>1, <1>3, <1>5, <2>1, <2>3, OthersFrame, BracketFrame DEF Turned
<1>6. CASE /\ dirty' \in {dirty, clean}
           /\ Set(d, [work[d] EXCEPT !.at = "done", !.result = "error",
                        !.report = @ \cup {"timeouts"}
                             \cup (IF work[d].result = "ok" THEN {"lock"} ELSE {})])
  <2> DEFINE t == work[d].report \cup {"timeouts"} \cup (IF work[d].result = "ok" THEN {"lock"} ELSE {})
  <2>1. t \in Reports
    BY <1>2 DEF Reports
  <2>2. Set(d, [work[d] EXCEPT !.at = "done", !.result = "error", !.report = t])
    BY <1>6
  <2> HIDE DEF t
  <2>3. Turned(d, "done", "error", t)
    BY <1>4, <2>1, <2>2, TurnTurns
  <2>4. dirty'[d] \subseteq {"timeouts"}
    BY <1>3, <1>6
  <2>5. "timeouts" \in t /\ (lock = d => "lock" \in t)
    BY <1>2 DEF t
  <2>6. BracketOf(d)'
    BY <1>1, <2>3, <2>4, <2>5 DEF BracketOf, Turned, Inner
  <2>7. QED
    BY <1>1, <1>3, <1>6, <2>3, <2>6, OthersFrame, BracketFrame DEF Turned
<1>7. QED
  BY <1>5, <1>6 DEF SettleLockStatement

\* The caller's settings are put back, or the session is reported.
LEMMA BracketRestores ==
    ASSUME Typed, BracketInv, NEW d \in Deployers, RestoreSession(d)
    PROVE  BracketInv'
<1> DEFINE clean == [dirty EXCEPT ![d] = @ \ {"settings"}]
<1>1. work[d].at = "restoring" /\ lock' = lock
  BY DEF RestoreSession
<1>2. lock = d /\ "timeouts" \notin dirty[d] /\ work[d].report = {}
  BY <1>1 DEF BracketInv, BracketOf
<1>3. dirty[d] \subseteq {"settings"} /\ clean[d] = {} /\ clean = [dirty EXCEPT ![d] = {}]
  <2>1. dirty[d] \subseteq {"timeouts", "settings"}
    BY DEF Typed, StateTyped, WorkOf
  <2>2. dirty[d] \subseteq {"settings"} /\ dirty[d] \ {"settings"} = {}
    BY <2>1, <1>2
  <2>3. QED
    BY <2>2 DEF Typed, StateTyped, WorkOf
<1>4. WorkTyped /\ "releasing" \in Places /\ "error" \in Results /\ {"settings"} \in Reports
  BY DEF Typed, StateTyped, WorkOf, Places, Results, Reports
<1>5. CASE dirty' = clean /\ Goto(d, "releasing")
  <2>1. Turned(d, "releasing", work[d].result, work[d].report)
    BY <1>4, <1>5, GotoTurns
  <2>2. dirty'[d] = {}
    BY <1>3, <1>5
  <2>3. BracketOf(d)'
    BY <1>1, <1>2, <2>1, <2>2 DEF BracketOf, Turned, Inner
  <2>4. QED
    BY <1>1, <1>3, <1>5, <2>1, <2>3, OthersFrame, BracketFrame DEF Turned
<1>6. CASE /\ dirty' \in {dirty, clean}
           /\ Set(d, [work[d] EXCEPT !.at = "releasing", !.result = "error",
                                     !.report = @ \cup {"settings"}])
  <2>1. work[d].report \cup {"settings"} = {"settings"}
    BY <1>2
  <2>2. Turned(d, "releasing", "error", {"settings"})
    BY <1>4, <1>6, <2>1, TurnTurns
  <2>3. dirty'[d] \subseteq {"settings"}
    BY <1>3, <1>6
  <2>4. BracketOf(d)'
    BY <1>1, <1>2, <2>2, <2>3 DEF BracketOf, Turned, Inner
  <2>5. QED
    BY <1>1, <1>3, <1>6, <2>2, <2>4, OthersFrame, BracketFrame DEF Turned
<1>7. QED
  BY <1>5, <1>6 DEF RestoreSession

\* The lock is given up, or the session is reported.
LEMMA BracketReleases ==
    ASSUME Typed, BracketInv, NEW d \in Deployers, ReleaseProjectLock(d)
    PROVE  BracketInv'
<1>1. Nobody # d /\ Unlocked(d) # d
  BY CatalogueAssumption DEF CatalogueAssumption, Unlocked
<1>2. work[d].at = "releasing" /\ dirty' = dirty
  BY DEF ReleaseProjectLock
<1>3. lock = d /\ dirty[d] \subseteq work[d].report
  BY <1>2 DEF BracketInv, BracketOf
<1>4. WorkTyped /\ "done" \in Places /\ "error" \in Results /\ work[d].report \in Reports
  BY DEF Typed, StateTyped, WorkOf, Places, Results, WorkTyped, Operations
<1>5. CASE lock' = Unlocked(d) /\ Goto(d, "done")
  <2>1. Turned(d, "done", work[d].result, work[d].report)
    BY <1>4, <1>5, GotoTurns
  <2>2. BracketOf(d)'
    BY <1>1, <1>2, <1>3, <1>5, <2>1 DEF BracketOf, Turned, Inner
  <2>3. QED
    BY <1>2, <1>5, <2>1, <2>2, OthersFrame, BracketFrame DEF Turned
<1>6. CASE /\ lock' \in {lock, Unlocked(d)}
           /\ Set(d, [work[d] EXCEPT !.at = "done", !.result = "error", !.report = @ \cup {"lock"}])
  <2>1. work[d].report \cup {"lock"} \in Reports
    BY <1>4 DEF Reports
  <2>2. Turned(d, "done", "error", work[d].report \cup {"lock"})
    BY <1>4, <1>6, <2>1, TurnTurns
  <2>3. BracketOf(d)'
    BY <1>2, <1>3, <2>2 DEF BracketOf, Turned, Inner
  <2>4. QED
    BY <1>2, <1>6, <2>2, <2>3, OthersFrame, BracketFrame DEF Turned
<1>7. QED
  BY <1>5, <1>6 DEF ReleaseProjectLock

\* The session is the caller's again, or closed.
LEMMA BracketLeaves ==
    ASSUME Typed, BracketInv, NEW d \in Deployers, HandBack(d) \/ Crash(d)
    PROVE  BracketInv'
<1>1. Nobody # d /\ Unlocked(d) # d
  BY CatalogueAssumption DEF CatalogueAssumption, Unlocked
<1>2. WorkTyped' /\ Alone(d) /\ work'[d] = Idle
  BY SetFacts, IdleTyped DEF Typed, StateTyped, WorkOf, HandBack, Crash
<1>3. /\ dirty' = dirty \/ dirty' = [dirty EXCEPT ![d] = {}]
      /\ lock' \in {lock, Unlocked(d)}
  BY DEF HandBack, Crash
<1>4. dirty'[d] = {} /\ lock' # d
  <2>1. CASE Crash(d)
    BY <1>1, <2>1 DEF Crash, Typed, StateTyped, WorkOf
  <2>2. CASE HandBack(d)
    <3>1. dirty[d] \subseteq work[d].report /\ (lock = d => "lock" \in work[d].report)
      BY <2>2 DEF HandBack, BracketInv, BracketOf
    <3>2. QED
      BY <1>1, <2>2, <3>1 DEF HandBack, Typed, StateTyped, WorkOf
  <2>3. QED
    BY <2>1, <2>2
<1>5. BracketOf(d)'
  BY <1>2, <1>4 DEF BracketOf, Idle, Inner
<1>6. QED
  BY <1>2, <1>3, <1>5, OthersFrame, BracketFrame

\* A step of the work under the lock.
InnerMove(d) ==
    /\ work[d].at \in Inner \cup {"planning"} /\ Alone(d) /\ lock' = lock
    /\ work'[d].op = work[d].op /\ work'[d].report = work[d].report
    /\ \/ dirty' = dirty
       \/ work[d].op = "apply" /\ dirty' = [dirty EXCEPT ![d] = @ \cup {"settings"}]
    /\ \/ work'[d].at \in Inner \cup {CloseOf(d)}
       \/ work[d].at = "planning" /\ dirty' = dirty /\ work'[d].at = "releasing"

\* A step under the lock keeps the bracket.
LEMMA BracketInside ==
    ASSUME Typed, BracketInv, NEW d \in Deployers, InnerMove(d)
    PROVE  BracketInv'
<1>1. lock = d /\ work[d].report = {} /\ "timeouts" \notin dirty[d]
  BY DEF InnerMove, BracketInv, BracketOf
<1>2. work[d].at = "planning" \/ work[d].op # "apply" => dirty[d] = {}
  BY DEF InnerMove, BracketInv, BracketOf
<1>3. /\ dirty'[d] = dirty[d] \/ (work[d].op = "apply" /\ dirty'[d] = dirty[d] \cup {"settings"})
      /\ dirty' = dirty \/ \E S : dirty' = [dirty EXCEPT ![d] = S]
  BY DEF InnerMove, Typed, StateTyped, WorkOf
<1>4. BracketOf(d)'
  BY <1>1, <1>2, <1>3 DEF InnerMove, BracketOf, CloseOf, Inner
<1>5. QED
  BY <1>3, <1>4, OthersFrame, BracketFrame DEF InnerMove

\* What the steps under the lock make of the operation.
LEMMA StartedTyped == ASSUME Typed PROVE Started \in [Versions -> Nat]
<1>1. project.max_edits \in Nat
  BY ProjectTyped DEF Typed, StateTyped, WorkOf
<1>2. \A v \in Versions : inflight[v] \in Nat
  BY <1>1 DEF Typed, StateTyped, WorkOf
<1>3. QED
  BY <1>2 DEF Started

\* The order of a set is a sequence of its members.
LEMMA OrderTyped == ASSUME NEW vs \in SUBSET Versions
                    PROVE  TopoOrder[vs] \in Seq(vs) /\ TopoOrder[vs] \in Seq(Versions)
<1>1. TopoOrder[vs] \in Seq(vs)
  BY TopoFacts DEF Ordered
<1>2. QED
  BY <1>1

\* Planning an apply: a refusal, or a plan past every gate.
LEMMA PlanApplyEffect ==
    ASSUME Typed, NEW d \in Deployers, PlanApply(d)
    PROVE  /\ work[d].at = "planning" /\ work[d].op = "apply"
           /\ UNCHANGED <<project, edition, built, records, lock, dirty, edits>>
           /\ \/ \E why \in Results \ {"ok", "missing object"} : Turned(d, CloseOf(d), why, work[d].report)
              \/ /\ ~ Drifted(work[d].files) /\ ~ ExpandMissing(Batch(d) \ project.repeatable)
                 /\ ~ SquashRefused(Batch(d) \ project.repeatable)
                 /\ ~ Dangling(Batch(d) \ project.repeatable)
                 /\ Planned(d, "versioned", TopoOrder[PendingOf(Batch(d) \ project.repeatable)], Started)
<1> DEFINE batch == Batch(d) \ project.repeatable
<1>1. WorkTyped /\ Started \in [Versions -> Nat]
  BY StartedTyped DEF Typed, StateTyped, WorkOf
<1>2. batch \in SUBSET Versions /\ PendingOf(batch) \in SUBSET Versions
  BY DEF Typed, StateTyped, WorkOf, WorkTyped, Operations, Files, Batch, PendingOf
<1>3. TopoOrder[PendingOf(batch)] \in Seq(Versions)
  BY <1>2, OrderTyped
<1>4. /\ "drift" \in Results \ {"ok", "missing object"} /\ "expand" \in Results \ {"ok", "missing object"}
      /\ "squash" \in Results \ {"ok", "missing object"}
      /\ "dependency" \in Results \ {"ok", "missing object"}
  BY DEF Results
<1>5. ASSUME NEW why \in Results \ {"ok", "missing object"}, Refuse(d, why)
      PROVE  \E r \in Results \ {"ok", "missing object"} : Turned(d, CloseOf(d), r, work[d].report)
  BY <1>1, <1>5, RefuseTurns
<1>6. /\ work[d].at = "planning" /\ work[d].op = "apply"
      /\ UNCHANGED <<project, edition, built, records, lock, dirty, edits>>
  BY DEF PlanApply, NoFault, budgets
<1>7. CASE Drifted(work[d].files)
  BY <1>4, <1>5, <1>6, <1>7 DEF PlanApply
<1>8. CASE ~ Drifted(work[d].files) /\ ExpandMissing(batch)
  BY <1>4, <1>5, <1>6, <1>8 DEF PlanApply
<1>9. CASE ~ Drifted(work[d].files) /\ ~ ExpandMissing(batch) /\ SquashRefused(batch)
  BY <1>4, <1>5, <1>6, <1>9 DEF PlanApply
<1>10. CASE ~ Drifted(work[d].files) /\ ~ ExpandMissing(batch) /\ ~ SquashRefused(batch) /\ Dangling(batch)
  BY <1>4, <1>5, <1>6, <1>10 DEF PlanApply
<1>11. CASE ~ Drifted(work[d].files) /\ ~ ExpandMissing(batch) /\ ~ SquashRefused(batch) /\ ~ Dangling(batch)
  <2>1. Set(d, [work[d] EXCEPT !.at = "running", !.stage = "versioned",
                        !.todo = TopoOrder[PendingOf(batch)], !.started = Started])
    BY <1>11 DEF PlanApply
  <2>2. Planned(d, "versioned", TopoOrder[PendingOf(batch)], Started)
    BY <2>1, <1>1, <1>3, PlanFacts
  <2>3. QED
    BY <1>6, <1>11, <2>2
<1>12. QED
  BY <1>7, <1>8, <1>9, <1>10, <1>11

\* Planning the repeatable phase: a refusal, or a plan with met dependencies.
LEMMA PlanRepeatablesEffect ==
    ASSUME Typed, NEW d \in Deployers, PlanRepeatables(d)
    PROVE  LET reps == Batch(d) \cap project.repeatable IN
           /\ work[d].at = "running" /\ work[d].op = "apply" /\ work[d].stage = "versioned"
           /\ work[d].todo = <<>>
           /\ UNCHANGED <<project, edition, built, records, lock, dirty, edits>>
           /\ \/ Turned(d, CloseOf(d), "dependency", work[d].report)
              \/ /\ \A v \in reps : project.depends_on[v] \subseteq reps \cup Satisfied
                 /\ reps # {} => Len(TopoOrder[reps]) = Cardinality(reps)
                 /\ Planned(d, "repeatable", TopoOrder[reps], Started)
<1> DEFINE reps == Batch(d) \cap project.repeatable
           refused == \E v \in reps : ~ (project.depends_on[v] \subseteq reps \cup Satisfied)
                         \/ Len(TopoOrder[reps]) # Cardinality(reps)
<1>1. WorkTyped /\ Started \in [Versions -> Nat] /\ "dependency" \in Results
  BY StartedTyped DEF Typed, StateTyped, WorkOf, Results
<1>2. reps \in SUBSET Versions
  BY DEF Typed, StateTyped, WorkOf, WorkTyped, Operations, Files, Batch
<1>3. TopoOrder[reps] \in Seq(Versions)
  BY <1>2, OrderTyped
<1>4. /\ work[d].at = "running" /\ work[d].op = "apply" /\ work[d].stage = "versioned"
      /\ work[d].todo = <<>> /\ UNCHANGED <<project, edition, built, records, lock, dirty, edits>>
  BY DEF PlanRepeatables, NoFault, budgets
<1>5. CASE refused
  BY <1>1, <1>4, <1>5, RefuseTurns DEF PlanRepeatables
<1>6. CASE ~ refused
  <2>1. Set(d, [work[d] EXCEPT !.stage = "repeatable", !.todo = TopoOrder[reps], !.started = Started])
    BY <1>6 DEF PlanRepeatables
  <2>2. Planned(d, "repeatable", TopoOrder[reps], Started)
    BY <2>1, <1>1, <1>3, <1>4, PlanFacts
  <2>3. QED
    BY <1>4, <1>6, <2>2
<1>7. QED
  BY <1>5, <1>6

\* A reversed sequence, entry by entry.
LEMMA ReverseTyped ==
    ASSUME NEW S, NEW q \in Seq(S)
    PROVE  /\ Reverse(q) \in Seq(S) /\ Len(Reverse(q)) = Len(q)
           /\ \A i \in 1..Len(q) : (Len(q) - i) + 1 \in 1..Len(q) /\ Reverse(q)[i] = q[(Len(q) - i) + 1]
<1>1. \A i \in 1..Len(q) : (Len(q) - i) + 1 \in 1..Len(q) /\ q[(Len(q) - i) + 1] \in S
  OBVIOUS
<1>2. Reverse(q) \in [1..Len(q) -> S]
  BY <1>1 DEF Reverse
<1>3. QED
  BY <1>1, <1>2 DEF Reverse

\* Only net-applied versions are selected for a rollback.
LEMMA SelectedTyped == \A t \in RollbackTargets : Selected(t) \subseteq NetApplied
<1> SUFFICES ASSUME NEW t \in RollbackTargets PROVE Selected(t) \subseteq NetApplied
  OBVIOUS
<1>1. t[1] = "all" \/ t[1] = "steps" \/ t[1] = "to"
  BY DEF RollbackTargets
<1>2. QED
  BY <1>1 DEF Selected

\* Planning a rollback: a refusal, or a plan of reversible applied versions.
LEMMA PlanRollbackEffect ==
    ASSUME Typed, NEW d \in Deployers, PlanRollback(d)
    PROVE  /\ work[d].at = "planning" /\ work[d].op = "rollback"
           /\ UNCHANGED <<project, edition, built, records, lock, dirty, edits>>
           /\ \/ Turned(d, CloseOf(d), "rollback refused", work[d].report)
              \/ /\ ~ RollbackRefused(d)
                 /\ Unwound(d) \subseteq Batch(d) \cap NetApplied \cap project.reversible
                 /\ Planned(d, work[d].stage, Reverse(TopoOrder[Unwound(d)]), work[d].started)
<1>1. WorkTyped /\ "rollback refused" \in Results
  BY DEF Typed, StateTyped, WorkOf, Results
<1>2. /\ work[d].at = "planning" /\ work[d].op = "rollback"
      /\ UNCHANGED <<project, edition, built, records, lock, dirty, edits>>
  BY DEF PlanRollback, NoFault, budgets
<1>3. CASE RollbackRefused(d)
  BY <1>1, <1>2, <1>3, RefuseTurns DEF PlanRollback
<1>4. CASE ~ RollbackRefused(d)
  <2>1. Set(d, [work[d] EXCEPT !.at = "running", !.todo = Reverse(TopoOrder[Unwound(d)])])
    BY <1>4 DEF PlanRollback
  <2>2. Selected(work[d].target) \subseteq NetApplied
    BY <1>2, SelectedTyped DEF Typed, StateTyped, WorkOf
  <2>3. Unwound(d) \subseteq Batch(d) \cap NetApplied \cap project.reversible
    BY <1>4, <2>2 DEF RollbackRefused, Unwound, ForceSkipped
  <2>4. Unwound(d) \in SUBSET Versions
    BY <2>3 DEF NetApplied
  <2>5. Reverse(TopoOrder[Unwound(d)]) \in Seq(Versions)
    BY <2>4, OrderTyped, ReverseTyped
  <2>6. [v \in Versions |-> 0] \in [Versions -> Nat]
    OBVIOUS
  <2>7. Planned(d, work[d].stage, Reverse(TopoOrder[Unwound(d)]), work[d].started)
    BY <2>1, <2>5, <2>6, <1>1, PlanFacts
  <2>8. QED
    BY <1>2, <1>4, <2>3, <2>7
<1>5. QED
  BY <1>3, <1>4

Aside == <<project, edition, lock, edits>>

\* The version under way was supplied, with its checksum.
LEMMA RunningTyped ==
    ASSUME Typed, NEW d \in Deployers, work[d].todo # <<>>
    PROVE  /\ Current(d) \in Versions /\ Current(d) \in Batch(d) /\ Current(d) = work[d].todo[1]
           /\ work[d].files[Current(d)] \in Sums /\ work[d].files[Current(d)] \in Nat \ {0}
           /\ 1 \in 1..Len(work[d].todo)
<1>1. work[d].todo \in Seq(Versions) /\ project.max_edits \in Nat
  BY ProjectTyped DEF Typed, StateTyped, WorkOf, WorkTyped, Operations
<1>2. Current(d) \in Versions /\ Current(d) = work[d].todo[1] /\ 1 \in 1..Len(work[d].todo)
  BY <1>1 DEF Current
<1>3. Current(d) \in Batch(d)
  BY <1>2 DEF Typed, StateTyped, WorkOf
<1>4. work[d].files[Current(d)] \in Sums
  BY <1>3 DEF Typed, StateTyped, WorkOf
<1>5. QED
  BY <1>1, <1>2, <1>3, <1>4 DEF Sums

\* A failed read ends the operation.
LEMMA ReadFailsEffect ==
    ASSUME Typed, NEW d \in Deployers, ReadFails(d)
    PROVE  /\ work[d].at = "planning" /\ UNCHANGED <<Aside, built, records, dirty>>
           /\ \E a \in {CloseOf(d), "releasing"} : Turned(d, a, "error", work[d].report)
<1>1. WorkTyped /\ "error" \in Results /\ {} \in Reports /\ "releasing" \in Places
  BY DEF Typed, StateTyped, WorkOf, Results, Reports, Places
<1>2. PICK a \in {CloseOf(d), "releasing"} : Set(d, [work[d] EXCEPT !.at = a, !.result = "error"])
  BY DEF ReadFails
<1>3. a \in Places
  BY <1>1, ClosePlace
<1>4. Turned(d, a, "error", work[d].report)
  BY <1>1, <1>2, <1>3, TurnTurns
<1>5. work[d].at = "planning" /\ UNCHANGED <<Aside, built, records, dirty>>
  BY DEF ReadFails, Fault, Aside
<1>6. QED
  BY <1>4, <1>5

\* An operation with nothing left to run goes to its close.
LEMMA ApplyEndsEffect ==
    ASSUME Typed, NEW d \in Deployers, ApplyEnds(d)
    PROVE  /\ work[d].at = "running" /\ work[d].todo = <<>> /\ UNCHANGED <<Aside, built, records, dirty>>
           /\ work[d].op = "apply" => work[d].stage = "repeatable"
           /\ Turned(d, CloseOf(d), work[d].result, work[d].report)
BY ClosePlace, GotoTurns DEF Typed, StateTyped, WorkOf, ApplyEnds, NoFault, budgets, Aside

\* A version is passed over, with or without a note.
LEMMA SkipOneEffect ==
    ASSUME Typed, NEW d \in Deployers, SkipOne(d)
    PROVE  /\ Running(d, "apply") /\ ~ MarkerMismatch(d) /\ UNCHANGED <<Aside, built, records, dirty>>
           /\ \/ Unchanged(d) /\ Advanced(d, {})
              \/ /\ ~ Unchanged(d) /\ ~ HadInflight(d)
                 /\ Current(d) \in project.conditional \/ DepSkipped(d)
                 /\ Advanced(d, {Current(d)})
<1>1. WorkTyped /\ work[d].todo # <<>>
  BY DEF Typed, StateTyped, WorkOf, SkipOne, Running
<1>2. QED
  BY <1>1, AdvanceFacts DEF SkipOne, NoFault, budgets, Aside

\* A foreign marker or an unmet precondition ends the apply.
LEMMA HaltOneEffect ==
    ASSUME Typed, NEW d \in Deployers, HaltOne(d)
    PROVE  /\ Running(d, "apply") /\ UNCHANGED <<Aside, built, records, dirty>>
           /\ \E why \in {"drift", "precondition"} : Turned(d, CloseOf(d), why, work[d].report)
<1>1. WorkTyped /\ "drift" \in Results /\ "precondition" \in Results
  BY DEF Typed, StateTyped, WorkOf, Results
<1>2. \/ Turned(d, CloseOf(d), "drift", work[d].report)
      \/ Turned(d, CloseOf(d), "precondition", work[d].report)
  BY <1>1, RefuseTurns DEF HaltOne
<1>3. QED
  BY <1>2 DEF HaltOne, NoFault, budgets, Aside

\* Over, or failed with its work done: a lost reply to COMMIT.
Finished(d) == Advanced(d, {}) \/ Turned(d, CloseOf(d), "error", work[d].report)

\* The transactional path commits all of it or nothing.
LEMMA ApplyTransactionalEffect ==
    ASSUME Typed, NEW d \in Deployers, ApplyTransactional(d)
    PROVE  /\ Runs(d) /\ Current(d) \notin project.two_phase
           /\ UNCHANGED <<Aside, inflight, dirty>>
           /\ \/ /\ IF GuardSatisfied(Current(d)) THEN UNCHANGED built
                    ELSE /\ CanRun(Current(d))
                         /\ UpEffect(Current(d), work[d].files[Current(d)], "built")
                 /\ JournalCompleted(Current(d), work[d].files[Current(d)], KindOf(d))
                 /\ Finished(d)
              \/ /\ UNCHANGED <<built, records>>
                 /\ Turned(d, CloseOf(d), "error", work[d].report)
              \/ /\ UNCHANGED <<built, records>> /\ ~ CanRun(Current(d))
                 /\ Turned(d, CloseOf(d), "missing object", work[d].report)
<1>1. WorkTyped /\ work[d].todo # <<>> /\ "error" \in Results /\ "missing object" \in Results
  BY DEF Typed, StateTyped, WorkOf, ApplyTransactional, Runs, Running, Results
<1>2. /\ Set(d, Advance(d)) => Finished(d)
      /\ Refuse(d, "error") => Turned(d, CloseOf(d), "error", work[d].report)
      /\ Refuse(d, "missing object") => Turned(d, CloseOf(d), "missing object", work[d].report)
  BY <1>1, AdvanceFacts, RefuseTurns DEF Finished
<1>3. Refuse(d, "error") => Finished(d)
  BY <1>2 DEF Finished
<1> HIDE DEF Finished
<1>4. UNCHANGED <<Aside, inflight, dirty>>
  BY DEF ApplyTransactional, records, NoFault, Fault, budgets, Aside
<1>5. QED
  BY <1>2, <1>3, <1>4 DEF ApplyTransactional

\* Recovery finalizes, refuses, or goes on to arm the marker.
LEMMA RecoverEffect ==
    ASSUME Typed, NEW d \in Deployers, RecoverNonTransactional(d)
    PROVE  /\ Runs(d) /\ Current(d) \in project.two_phase /\ UNCHANGED <<Aside, records>>
           /\ dirty' = [dirty EXCEPT ![d] = @ \cup {"settings"}]
           /\ \/ /\ GuardSatisfied(Current(d)) /\ UNCHANGED built
                 /\ Turned(d, "finalizing", work[d].result, work[d].report)
              \/ UNCHANGED built /\ Turned(d, CloseOf(d), "unsafe", work[d].report)
              \/ /\ HadInflight(d) => Current(d) \in project.replayable
                 /\ schema' = [o \in Objects |->
                        IF HadInflight(d) /\ o \in Builds[Current(d)] /\ schema[o] = "invalid"
                        THEN "absent" ELSE schema[o]]
                 /\ UNCHANGED <<body, clobbered>>
                 /\ Turned(d, "arming", work[d].result, work[d].report)
<1>1. WorkTyped /\ "unsafe" \in Results /\ "finalizing" \in Places /\ "arming" \in Places
  BY DEF Typed, StateTyped, WorkOf, Results, Places
<1>2. /\ Goto(d, "finalizing") => Turned(d, "finalizing", work[d].result, work[d].report)
      /\ Goto(d, "arming") => Turned(d, "arming", work[d].result, work[d].report)
      /\ Refuse(d, "unsafe") => Turned(d, CloseOf(d), "unsafe", work[d].report)
  BY <1>1, GotoTurns, RefuseTurns
<1>3. UNCHANGED <<Aside, records>>
  BY DEF RecoverNonTransactional, NoFault, budgets, Aside
<1>4. QED
  BY <1>2, <1>3 DEF RecoverNonTransactional

\* A marker that is armed stays the one it is.
LEMMA RecordStartedEffect ==
    ASSUME Typed, NEW d \in Deployers, RecordStarted(d)
    PROVE  /\ work[d].at = "arming" /\ UNCHANGED <<Aside, built, journal, edges, dirty>>
           /\ inflight' = [inflight EXCEPT ![Current(d)] =
                              IF @ = 0 THEN work[d].files[Current(d)] ELSE @]
           /\ Turned(d, "up", work[d].result, work[d].report)
BY GotoTurns DEF Typed, StateTyped, WorkOf, RecordStarted, Places, NoFault, budgets, Aside

\* An up builds all it should, is interrupted, or finds something missing.
LEMMA RunUpEffect ==
    ASSUME Typed, NEW d \in Deployers, RunUp(d)
    PROVE  /\ work[d].at = "up" /\ UNCHANGED <<Aside, records, dirty>>
           /\ \/ /\ CanRun(Current(d)) /\ UpEffect(Current(d), work[d].files[Current(d)], "built")
                 /\ Turned(d, "finalizing", work[d].result, work[d].report)
              \/ UpInterrupted(d) /\ Turned(d, CloseOf(d), "error", work[d].report)
              \/ /\ UNCHANGED built /\ ~ CanRun(Current(d))
                 /\ Turned(d, CloseOf(d), "missing object", work[d].report)
<1>1. /\ WorkTyped /\ "error" \in Results /\ "missing object" \in Results /\ "finalizing" \in Places
  BY DEF Typed, StateTyped, WorkOf, Results, Places
<1>2. /\ Goto(d, "finalizing") => Turned(d, "finalizing", work[d].result, work[d].report)
      /\ Refuse(d, "error") => Turned(d, CloseOf(d), "error", work[d].report)
      /\ Refuse(d, "missing object") => Turned(d, CloseOf(d), "missing object", work[d].report)
  BY <1>1, GotoTurns, RefuseTurns
<1>3. UNCHANGED <<Aside, records, dirty>>
  BY DEF RunUp, NoFault, Fault, budgets, Aside
<1>4. QED
  BY <1>2, <1>3 DEF RunUp

\* The completed row and the marker's deletion commit together or not at all.
LEMMA FinalizeEffect ==
    ASSUME Typed, NEW d \in Deployers, FinalizeNonTxn(d), work[d].todo # <<>>
    PROVE  /\ work[d].at = "finalizing" /\ UNCHANGED <<Aside, built, dirty>>
           /\ \/ /\ JournalCompleted(Current(d), work[d].files[Current(d)], KindOf(d))
                 /\ inflight' = [inflight EXCEPT ![Current(d)] = 0] /\ Finished(d)
              \/ UNCHANGED records /\ Turned(d, CloseOf(d), "error", work[d].report)
<1>1. WorkTyped /\ "error" \in Results
  BY DEF Typed, StateTyped, WorkOf, Results
<1>2. /\ Set(d, Advance(d)) => Finished(d)
      /\ Refuse(d, "error") => Turned(d, CloseOf(d), "error", work[d].report)
  BY <1>1, AdvanceFacts, RefuseTurns DEF Finished
<1>3. Refuse(d, "error") => Finished(d)
  BY <1>2 DEF Finished
<1> HIDE DEF Finished
<1>4. UNCHANGED <<Aside, built, dirty>>
  BY DEF FinalizeNonTxn, NoFault, Fault, budgets, Aside
<1>5. QED
  BY <1>2, <1>3, <1>4 DEF FinalizeNonTxn

\* A failed statement ends the apply and changes nothing.
LEMMA StatementFailsEffect ==
    ASSUME Typed, NEW d \in Deployers, StatementFails(d)
    PROVE  /\ work[d].at = "arming" \/ Running(d, "apply")
           /\ UNCHANGED <<Aside, built, records, dirty>>
           /\ Turned(d, CloseOf(d), "error", work[d].report)
BY RefuseTurns DEF Typed, StateTyped, WorkOf, StatementFails, Results, Fault, Aside

\* The down and its event commit together or not at all.
LEMMA RollbackOneEffect ==
    ASSUME Typed, NEW d \in Deployers, RollbackOne(d)
    PROVE  /\ Running(d, "rollback") /\ UNCHANGED <<Aside, clobbered, inflight, edges, dirty>>
           /\ \/ /\ schema' = [o \in Objects |-> IF o \in Builds[Current(d)] THEN "absent" ELSE schema[o]]
                 /\ body' = [o \in Objects |-> IF o \in Builds[Current(d)] THEN <<>> ELSE body[o]]
                 /\ journal' = Append(journal,
                        Event("rolled_back", Current(d), work[d].files[Current(d)], "none"))
                 /\ Finished(d)
              \/ UNCHANGED <<schema, body, journal>> /\ Turned(d, CloseOf(d), "error", work[d].report)
<1>1. WorkTyped /\ "error" \in Results /\ work[d].todo # <<>>
  BY DEF Typed, StateTyped, WorkOf, Results, RollbackOne, Running
<1>2. /\ Set(d, Advance(d)) => Finished(d)
      /\ Refuse(d, "error") => Turned(d, CloseOf(d), "error", work[d].report)
  BY <1>1, AdvanceFacts, RefuseTurns DEF Finished
<1>3. Refuse(d, "error") => Finished(d)
  BY <1>2 DEF Finished
<1> HIDE DEF Finished
<1>4. UNCHANGED <<Aside, clobbered, inflight, edges, dirty>>
  BY DEF RollbackOne, NoFault, Fault, budgets, Aside
<1>5. QED
  BY <1>2, <1>3, <1>4 DEF RollbackOne

\* A squash is recorded over applied versions or nothing changes.
LEMMA SquashLockedEffect ==
    ASSUME Typed, NEW d \in Deployers, SquashLocked(d)
    PROVE  /\ work[d].at = "planning" /\ work[d].op = "squash" /\ UNCHANGED <<Aside, built, dirty>>
           /\ \E r \in {work[d].result, "error", "squash"} : Turned(d, "releasing", r, work[d].report)
           /\ \/ UNCHANGED records
              \/ \E s \in Batch(d) :
                  /\ s \notin NetApplied /\ project.supersedes[s] \subseteq NetApplied
                  /\ JournalCompleted(s, work[d].files[s], "squash") /\ UNCHANGED inflight
<1>1. /\ WorkTyped /\ "error" \in Results /\ "squash" \in Results /\ "releasing" \in Places
  BY DEF Typed, StateTyped, WorkOf, Results, Places
<1>2. work[d].at = "planning" /\ work[d].op = "squash" /\ CloseOf(d) = "releasing"
  BY DEF SquashLocked, CloseOf
<1>3. /\ Goto(d, "releasing") => Turned(d, "releasing", work[d].result, work[d].report)
      /\ Refuse(d, "error") => Turned(d, "releasing", "error", work[d].report)
      /\ Refuse(d, "squash") => Turned(d, "releasing", "squash", work[d].report)
  BY <1>1, <1>2, GotoTurns, RefuseTurns
<1>4. Goto(d, "releasing") \/ Refuse(d, "error") \/ Refuse(d, "squash")
  BY DEF SquashLocked
<1>5. UNCHANGED <<Aside, built, dirty>>
  BY DEF SquashLocked, NoFault, Fault, budgets, Aside
<1>6. \/ UNCHANGED records
      \/ \E s \in Batch(d) :
          /\ s \notin NetApplied /\ project.supersedes[s] \subseteq NetApplied
          /\ JournalCompleted(s, work[d].files[s], "squash") /\ UNCHANGED inflight
  BY DEF SquashLocked
<1>7. \E r \in {work[d].result, "error", "squash"} : Turned(d, "releasing", r, work[d].report)
  BY <1>1, <1>3, <1>4
<1>8. QED
  BY <1>2, <1>5, <1>6, <1>7

InnerStep(d) ==
    \/ ReadFails(d) \/ PlanApply(d) \/ PlanRepeatables(d) \/ ApplyEnds(d)
    \/ SkipOne(d) \/ HaltOne(d) \/ ApplyTransactional(d)
    \/ RecoverNonTransactional(d) \/ RecordStarted(d) \/ RunUp(d) \/ FinalizeNonTxn(d)
    \/ StatementFails(d) \/ PlanRollback(d) \/ RollbackOne(d) \/ SquashLocked(d)

\* Every step under the lock keeps it and the session's report.
LEMMA InnerMoves == ASSUME Typed, NEW d \in Deployers, InnerStep(d) PROVE InnerMove(d)
<1> DEFINE on == Inner \cup {CloseOf(d)}
<1>1. ASSUME NEW a, NEW r, Turned(d, a, r, work[d].report)
      PROVE  /\ Alone(d) /\ work'[d].op = work[d].op /\ work'[d].report = work[d].report
             /\ work'[d].at = a
  BY <1>1 DEF Turned, SamePlan
<1>2. ASSUME NEW more, Advanced(d, more)
      PROVE  /\ Alone(d) /\ work'[d].op = work[d].op /\ work'[d].report = work[d].report
             /\ work'[d].at = "running"
  BY <1>2 DEF Advanced
<1>3. ASSUME NEW stage, NEW q, NEW m, Planned(d, stage, q, m)
      PROVE  /\ Alone(d) /\ work'[d].op = work[d].op /\ work'[d].report = work[d].report
             /\ work'[d].at = "running"
  BY <1>3 DEF Planned
<1>4. ASSUME Finished(d)
      PROVE  /\ Alone(d) /\ work'[d].op = work[d].op /\ work'[d].report = work[d].report
             /\ work'[d].at \in on
  BY <1>1, <1>2, <1>4 DEF Finished, Inner
<1>5. CASE ReadFails(d)
  BY <1>1, <1>5, ReadFailsEffect DEF InnerMove, Aside
<1>6. CASE PlanApply(d)
  BY <1>1, <1>3, <1>6, PlanApplyEffect DEF InnerMove, Inner
<1>7. CASE PlanRepeatables(d)
  BY <1>1, <1>3, <1>7, PlanRepeatablesEffect DEF InnerMove, Inner
<1>8. CASE ApplyEnds(d)
  BY <1>1, <1>8, ApplyEndsEffect DEF InnerMove, Inner, Aside
<1>9. CASE SkipOne(d)
  BY <1>2, <1>9, SkipOneEffect DEF InnerMove, Inner, Aside, Running
<1>10. CASE HaltOne(d)
  BY <1>1, <1>10, HaltOneEffect DEF InnerMove, Inner, Aside, Running
<1>11. CASE ApplyTransactional(d)
  BY <1>1, <1>4, <1>11, ApplyTransactionalEffect DEF InnerMove, Inner, Aside, Runs, Running
<1>12. CASE RecoverNonTransactional(d)
  BY <1>1, <1>12, RecoverEffect DEF InnerMove, Inner, Aside, Runs, Running
<1>13. CASE RecordStarted(d)
  BY <1>1, <1>13, RecordStartedEffect DEF InnerMove, Inner, Aside
<1>14. CASE RunUp(d)
  BY <1>1, <1>14, RunUpEffect DEF InnerMove, Inner, Aside
<1>15. CASE FinalizeNonTxn(d)
  <2>1. work[d].todo # <<>>
    BY <1>15 DEF FinalizeNonTxn, Typed, WorkOf, Inner
  <2>2. QED
    BY <2>1, <1>1, <1>4, <1>15, FinalizeEffect DEF InnerMove, Inner, Aside
<1>16. CASE StatementFails(d)
  BY <1>1, <1>16, StatementFailsEffect DEF InnerMove, Inner, Aside, Running
<1>17. CASE PlanRollback(d)
  BY <1>1, <1>3, <1>17, PlanRollbackEffect DEF InnerMove, Inner
<1>18. CASE RollbackOne(d)
  BY <1>1, <1>4, <1>18, RollbackOneEffect DEF InnerMove, Inner, Aside, Running
<1>19. CASE SquashLocked(d)
  BY <1>1, <1>19, SquashLockedEffect DEF InnerMove, Aside
<1>20. QED
  BY <1>5, <1>6, <1>7, <1>8, <1>9, <1>10, <1>11, <1>12, <1>13, <1>14, <1>15, <1>16, <1>17,
     <1>18, <1>19 DEF InnerStep

\* The author and the operator touch no session.
LEMMA BracketAuthors ==
    ASSUME BracketInv, UNCHANGED <<work, lock, dirty>>
    PROVE  BracketInv'
BY DEF BracketInv, BracketOf

\* Every step keeps the lock bracket.
LEMMA BracketNext == ASSUME Typed, BracketInv, [Next]_vars PROVE BracketInv'
<1>1. ASSUME NEW d \in Deployers, Apply(d) \/ Rollback(d) \/ Squash(d) \/ Step(d) \/ Crash(d)
      PROVE  BracketInv'
  <2>1. CASE Apply(d) \/ Rollback(d) \/ Squash(d)
    BY <2>1, BracketBegins
  <2>2. CASE InnerStep(d)
    BY <2>2, InnerMoves, BracketInside
  <2>3. CASE HandBack(d) \/ Crash(d)
    BY <2>3, BracketLeaves
  <2>4. CASE TakeProjectLock(d) \/ LockWaitFails(d) \/ DropGrantFromFailedAcquire(d)
             \/ SettleLockStatement(d) \/ RestoreSession(d) \/ ReleaseProjectLock(d)
    BY <2>4, BracketTakes, BracketWaitFails, BracketDrops, BracketSettles, BracketRestores,
       BracketReleases
  <2>5. QED
    BY <1>1, <2>1, <2>2, <2>3, <2>4 DEF Step, InnerStep
<1>2. ASSUME NEW v, EditFile(v) \/ ClearInflight(v) PROVE BracketInv'
  BY <1>2, BracketAuthors DEF EditFile, ClearInflight
<1>3. CASE UNCHANGED vars
  BY <1>3, BracketAuthors DEF vars
<1>4. QED
  BY <1>1, <1>2, <1>3 DEF Next

-----------------------------------------------------------------------------
(* Types are kept.                                                         *)

\* The records of sessions that did not move keep their types.
LEMMA WorkFrame ==
    ASSUME Typed, NEW d \in Deployers, Alone(d), WorkTyped', project' = project, WorkOf(d)', StateTyped'
    PROVE  Typed'
<1>1. SUFFICES ASSUME NEW e \in Deployers, e # d PROVE WorkOf(e)'
  BY DEF Typed
<1>2. work'[e] = work[e] /\ WorkOf(e)
  BY <1>1 DEF Alone, Typed
<1>3. QED
  BY <1>2 DEF WorkOf, Batch, Sums

\* Types after a turn.
LEMMA TurnedTyped ==
    ASSUME Typed, NEW d \in Deployers, NEW a, NEW r, NEW t, Turned(d, a, r, t), project' = project,
           StateTyped', a \in Inner \ {"running"} => work[d].todo # <<>> /\ work[d].op = "apply"
    PROVE  Typed'
<1>1. WorkOf(d)
  BY DEF Typed
<1>2. WorkOf(d)'
  BY <1>1 DEF WorkOf, Turned, SamePlan, Batch, Sums
<1>3. QED
  BY <1>2, WorkFrame DEF Turned

\* Types after an advance.
LEMMA AdvancedTyped ==
    ASSUME Typed, NEW d \in Deployers, NEW more \in SUBSET Batch(d), Advanced(d, more),
           project' = project, StateTyped', work[d].todo # <<>>
    PROVE  Typed'
<1>1. WorkOf(d) /\ work[d].todo \in Seq(Versions)
  BY DEF Typed, WorkTyped, Operations
<1>2. \A i \in 1..Len(Tail(work[d].todo)) : Tail(work[d].todo)[i] \in Batch(d)
  BY <1>1 DEF WorkOf
<1>3. WorkOf(d)'
  BY <1>1, <1>2 DEF WorkOf, Advanced, Batch, Sums, Inner
<1>4. QED
  BY <1>3, WorkFrame DEF Advanced

\* Types after a plan.
LEMMA PlannedTyped ==
    ASSUME Typed, NEW d \in Deployers, NEW stage, NEW m, NEW q \in Seq(Batch(d)),
           Planned(d, stage, q, m), project' = project, StateTyped'
    PROVE  Typed'
<1>1. WorkOf(d)
  BY DEF Typed
<1>2. \A i \in 1..Len(q) : q[i] \in Batch(d)
  OBVIOUS
<1>3. WorkOf(d)'
  BY <1>1, <1>2 DEF WorkOf, Planned, Batch, Sums, Inner
<1>4. QED
  BY <1>3, WorkFrame DEF Planned

\* What the journal and an up may write.
LEMMA CompletedTyped ==
    ASSUME StateTyped, NEW v \in Versions, NEW sum \in Sums, NEW event \in {"applied", "rolled_back"},
           NEW kind \in {"apply", "squash", "repeatable", "none"},
           journal' = Append(journal, Event(event, v, sum, kind)), project' = project
    PROVE  /\ journal' \in Seq(Events) /\ \A i \in 1..Len(journal') : journal'[i].checksum \in Sums'
           /\ ({v} \X project.supersedes[v]) \subseteq Versions \X Versions
<1> DEFINE e == Event(event, v, sum, kind)
<1>1. project.max_edits \in Nat /\ project.supersedes \in [Versions -> SUBSET Versions]
  BY ProjectTyped DEF StateTyped
<1>2. sum \in Nat \ {0} /\ e.checksum = sum /\ e \in Events
  BY <1>1 DEF Sums, Event, Events
<1> HIDE DEF e
<1>3. journal' = Append(journal, e)
  BY DEF e
<1>4. journal' \in Seq(Events)
  BY <1>2, <1>3 DEF StateTyped
<1>5. \A i \in 1..Len(journal') : journal'[i] = e \/ (i \in 1..Len(journal) /\ journal'[i] = journal[i])
  BY <1>2, <1>3 DEF StateTyped
<1>6. \A i \in 1..Len(journal') : journal'[i].checksum \in Sums
  BY <1>2, <1>5 DEF StateTyped
<1>7. Sums' = Sums
  BY DEF Sums
<1>8. QED
  BY <1>1, <1>4, <1>6, <1>7

\* Types after an up.
LEMMA UpTyped ==
    ASSUME StateTyped, NEW v \in Versions, NEW sum, NEW outcome \in {"absent", "invalid", "built"},
           UpEffect(v, sum, outcome), project' = project
    PROVE  schema' \in [Objects' -> {"absent", "invalid", "built"}] /\ DOMAIN body' = Objects'
<1>1. Objects' = Objects
  BY DEF Objects
<1>2. QED
  BY <1>1 DEF UpEffect, StateTyped

\* Types after an interrupted up.
LEMMA InterruptedTyped ==
    ASSUME Typed, NEW d \in Deployers, work[d].todo # <<>>, UpInterrupted(d), project' = project
    PROVE  schema' \in [Objects' -> {"absent", "invalid", "built"}] /\ DOMAIN body' = Objects'
<1>1. Current(d) \in Versions
  BY RunningTyped
<1>2. Objects' = Objects
  BY DEF Objects
<1>3. CASE UNCHANGED built
  BY <1>2, <1>3 DEF built, Typed, StateTyped
<1>4. CASE \E outcome \in {"absent", "invalid", "built"} :
             UpEffect(Current(d), work[d].files[Current(d)], outcome)
  BY <1>1, <1>4, UpTyped DEF Typed
<1>5. QED
  BY <1>3, <1>4 DEF UpInterrupted

\* What a session carries stays within the executor's settings.
LEMMA DirtyTyped ==
    ASSUME Typed, NEW d \in Deployers,
           \/ dirty' = dirty
           \/ \E S \in SUBSET {"timeouts", "settings"} : dirty' = [dirty EXCEPT ![d] = S]
    PROVE  dirty' \in [Deployers -> SUBSET {"timeouts", "settings"}]
BY DEF Typed, StateTyped

\* The parts of the state a step may leave alone.
LEMMA TypedFrames ==
    ASSUME Typed, project' = project
    PROVE  /\ Objects' = Objects /\ Sums' = Sums
           /\ UNCHANGED <<edition, edits>> =>
                edits' \in 0..project'.max_edits /\ edition' \in [Versions -> 1..(edits' + 1)]
           /\ UNCHANGED <<schema, body>> =>
                schema' \in [Objects' -> {"absent", "invalid", "built"}] /\ DOMAIN body' = Objects'
           /\ UNCHANGED inflight => inflight' \in [Versions -> 0..(project'.max_edits + 1)]
           /\ UNCHANGED edges => edges' \subseteq Versions \X Versions
           /\ UNCHANGED journal =>
                journal' \in Seq(Events) /\ \A i \in 1..Len(journal') : journal'[i].checksum \in Sums'
           /\ UNCHANGED lock => lock' \in Deployers \cup {Nobody}
           /\ UNCHANGED dirty => dirty' \in [Deployers -> SUBSET {"timeouts", "settings"}]
<1>1. Objects' = Objects /\ Sums' = Sums
  BY DEF Objects, Sums
<1>2. QED
  BY <1>1 DEF Typed, StateTyped

\* Types of a database nothing was written to.
LEMMA QuietTyped ==
    ASSUME Typed, UNCHANGED <<project, edition, edits, built, records>>,
           lock' \in Deployers \cup {Nobody}, dirty' \in [Deployers -> SUBSET {"timeouts", "settings"}]
    PROVE  StateTyped'
<1>1. /\ edits' \in 0..project'.max_edits /\ edition' \in [Versions -> 1..(edits' + 1)]
      /\ schema' \in [Objects' -> {"absent", "invalid", "built"}] /\ DOMAIN body' = Objects'
      /\ inflight' \in [Versions -> 0..(project'.max_edits + 1)] /\ edges' \subseteq Versions \X Versions
      /\ journal' \in Seq(Events) /\ \A i \in 1..Len(journal') : journal'[i].checksum \in Sums'
  BY TypedFrames DEF built, records
<1>2. project' \in Projects
  BY DEF Typed, StateTyped
<1>3. QED
  BY <1>1, <1>2 DEF StateTyped

\* Types after a step of the bracket.
LEMMA BracketTyped ==
    ASSUME Typed, NEW d \in Deployers,
           TakeProjectLock(d) \/ LockWaitFails(d) \/ DropGrantFromFailedAcquire(d)
             \/ SettleLockStatement(d) \/ RestoreSession(d) \/ ReleaseProjectLock(d)
    PROVE  Typed'
<1>1. UNCHANGED <<project, edition, edits, built, records>>
  BY DEF TakeProjectLock, LockWaitFails, DropGrantFromFailedAcquire, SettleLockStatement,
         RestoreSession, ReleaseProjectLock, NoFault, Fault, budgets
<1>2. lock' \in Deployers \cup {Nobody}
  BY DEF TakeProjectLock, LockWaitFails, DropGrantFromFailedAcquire, SettleLockStatement,
         RestoreSession, ReleaseProjectLock, Typed, StateTyped, Unlocked
<1>3. dirty' \in [Deployers -> SUBSET {"timeouts", "settings"}]
  <2>1. dirty[d] \ {"timeouts"} \in SUBSET {"timeouts", "settings"}
        /\ dirty[d] \ {"settings"} \in SUBSET {"timeouts", "settings"}
    BY DEF Typed, StateTyped
  <2>2. \/ dirty' = dirty \/ dirty' = [dirty EXCEPT ![d] = dirty[d] \ {"timeouts"}]
        \/ dirty' = [dirty EXCEPT ![d] = dirty[d] \ {"settings"}]
    BY DEF TakeProjectLock, LockWaitFails, DropGrantFromFailedAcquire, SettleLockStatement,
           RestoreSession, ReleaseProjectLock
  <2>3. QED
    BY <2>1, <2>2, DirtyTyped
<1>4. StateTyped'
  BY <1>1, <1>2, <1>3, QuietTyped
<1>5. /\ WorkTyped /\ "error" \in Results /\ work[d].report \in Reports
      /\ {"settling", "dropping", "planning", "done", "releasing"} \subseteq Places
      /\ {"settling", "dropping", "planning", "done", "releasing"} \cap Inner = {}
  BY DEF Typed, Results, Places, Inner, WorkTyped, Operations
<1>6. \E a \in {"settling", "dropping", "planning", "done", "releasing"} : \E r, t : Turned(d, a, r, t)
  <2>1. CASE TakeProjectLock(d)
    BY <2>1, <1>5, GotoTurns DEF TakeProjectLock
  <2>2. CASE LockWaitFails(d)
    <3>1. Set(d, [work[d] EXCEPT !.at = "dropping", !.result = "error"])
      BY <2>2 DEF LockWaitFails
    <3>2. Turned(d, "dropping", "error", work[d].report)
      BY <3>1, <1>5, TurnTurns
    <3>3. QED
      BY <3>2
  <2>3. CASE DropGrantFromFailedAcquire(d)
    <3>1. {"lock"} \in Reports
      BY DEF Reports
    <3>2. QED
      BY <2>3, <3>1, <1>5, TurnTurns, GotoTurns DEF DropGrantFromFailedAcquire
  <2>4. CASE SettleLockStatement(d)
    <3> DEFINE t == work[d].report \cup {"timeouts"} \cup (IF work[d].result = "ok" THEN {"lock"} ELSE {})
    <3>1. t \in Reports
      BY <1>5 DEF Reports
    <3>2. \/ Goto(d, "planning") \/ Goto(d, "done")
          \/ Set(d, [work[d] EXCEPT !.at = "done", !.result = "error", !.report = t])
      BY <2>4 DEF SettleLockStatement
    <3> HIDE DEF t
    <3>3. \/ Turned(d, "planning", work[d].result, work[d].report)
          \/ Turned(d, "done", work[d].result, work[d].report)
          \/ Turned(d, "done", "error", t)
      BY <3>1, <3>2, <1>5, TurnTurns, GotoTurns
    <3>4. QED
      BY <3>3
  <2>5. CASE RestoreSession(d)
    <3>1. work[d].report \cup {"settings"} \in Reports
      BY <1>5 DEF Reports
    <3>2. \/ Goto(d, "releasing")
          \/ Set(d, [work[d] EXCEPT !.at = "releasing", !.result = "error",
                       !.report = work[d].report \cup {"settings"}])
      BY <2>5 DEF RestoreSession
    <3>3. \/ Turned(d, "releasing", work[d].result, work[d].report)
          \/ Turned(d, "releasing", "error", work[d].report \cup {"settings"})
      BY <3>1, <3>2, <1>5, TurnTurns, GotoTurns
    <3>4. QED
      BY <3>3
  <2>6. CASE ReleaseProjectLock(d)
    <3>1. work[d].report \cup {"lock"} \in Reports
      BY <1>5 DEF Reports
    <3>2. \/ Goto(d, "done")
          \/ Set(d, [work[d] EXCEPT !.at = "done", !.result = "error",
                       !.report = work[d].report \cup {"lock"}])
      BY <2>6 DEF ReleaseProjectLock
    <3>3. \/ Turned(d, "done", work[d].result, work[d].report)
          \/ Turned(d, "done", "error", work[d].report \cup {"lock"})
      BY <3>1, <3>2, <1>5, TurnTurns, GotoTurns
    <3>4. QED
      BY <3>3
  <2>7. QED
    BY <2>1, <2>2, <2>3, <2>4, <2>5, <2>6
<1>7. QED
  BY <1>1, <1>4, <1>5, <1>6, TurnedTyped

\* Types after a beginning.
LEMMA BeginTyped ==
    ASSUME Typed, NEW d \in Deployers, Apply(d) \/ Rollback(d) \/ Squash(d)
    PROVE  Typed'
<1>1. PICK op \in {"apply", "rollback", "squash"}, batch \in SUBSET Versions : Begun(d, op, batch)
  BY BeginningFacts
<1>2. Lifted(d)
  BY BeginningFacts
<1>3. dirty' \in [Deployers -> SUBSET {"timeouts", "settings"}]
  <2>1. PICK took \in SUBSET {"timeouts"} : dirty' = [dirty EXCEPT ![d] = dirty[d] \cup took]
    BY <1>2 DEF Lifted
  <2>2. dirty[d] \cup took \in SUBSET {"timeouts", "settings"}
    BY DEF Typed, StateTyped
  <2>3. QED
    BY <2>1, <2>2, DirtyTyped
<1>4. UNCHANGED <<project, edition, edits, built, records>> /\ lock' \in Deployers \cup {Nobody}
  BY <1>2 DEF Lifted, Typed, StateTyped
<1>5. StateTyped'
  BY <1>3, <1>4, QuietTyped
<1>6. project.max_edits \in Nat
  BY ProjectTyped DEF Typed, StateTyped
<1>7. \A v \in batch : edition[v] \in Sums'
  BY <1>4, <1>6 DEF Typed, StateTyped, Sums
<1>8. /\ work'[d].todo = <<>> /\ work'[d].skipped = {} /\ work'[d].files = [v \in batch |-> edition[v]]
      /\ work'[d].op = "rollback" => work'[d].target \in RollbackTargets
      /\ work'[d].at \in {"waiting", "done"}
  BY <1>1, <1>2 DEF Begun, Lifted
<1>9. WorkOf(d)'
  BY <1>7, <1>8 DEF WorkOf, Batch, Inner
<1>10. QED
  BY <1>1, <1>4, <1>5, <1>9, WorkFrame DEF Begun

\* Types after a hand-back or a crash.
LEMMA LeaveTyped ==
    ASSUME Typed, NEW d \in Deployers, HandBack(d) \/ Crash(d)
    PROVE  Typed'
<1>1. WorkTyped' /\ Alone(d) /\ work'[d] = Idle
  BY SetFacts, IdleTyped DEF Typed, HandBack, Crash
<1>2. WorkOf(d)'
  BY <1>1 DEF WorkOf, Idle, Inner, Batch
<1>3. /\ UNCHANGED <<project, edition, edits, records>> /\ lock' \in Deployers \cup {Nobody}
  BY DEF HandBack, Crash, NoFault, Fault, budgets, Unlocked, Typed, StateTyped
<1>4. dirty' \in [Deployers -> SUBSET {"timeouts", "settings"}]
  BY DirtyTyped DEF HandBack, Crash
<1>5. schema' \in [Objects' -> {"absent", "invalid", "built"}] /\ DOMAIN body' = Objects'
  <2>1. CASE UNCHANGED built
    BY <2>1, <1>3, TypedFrames DEF built
  <2>2. CASE Crash(d) /\ work[d].at = "up"
    <3>1. work[d].todo # <<>>
      BY <2>2 DEF Typed, WorkOf, Inner
    <3>2. QED
      BY <2>2, <3>1, <1>3, InterruptedTyped DEF Crash
  <2>3. QED
    BY <2>1, <2>2 DEF HandBack, Crash
<1>6. /\ edits' \in 0..project'.max_edits /\ edition' \in [Versions -> 1..(edits' + 1)]
      /\ inflight' \in [Versions -> 0..(project'.max_edits + 1)] /\ edges' \subseteq Versions \X Versions
      /\ journal' \in Seq(Events) /\ \A i \in 1..Len(journal') : journal'[i].checksum \in Sums'
  BY <1>3, TypedFrames DEF records
<1>7. StateTyped'
  BY <1>3, <1>4, <1>5, <1>6 DEF StateTyped, Typed
<1>8. QED
  BY <1>1, <1>2, <1>3, <1>7, WorkFrame

\* Types after an edit or a cleared marker.
LEMMA AuthorsTyped ==
    ASSUME Typed, NEW v \in Versions, EditFile(v) \/ ClearInflight(v)
    PROVE  Typed'
<1>1. project' = project /\ work' = work /\ lock' = lock /\ dirty' = dirty
  BY DEF EditFile, ClearInflight, budgets
<1>2. project.max_edits \in Nat
  BY ProjectTyped DEF Typed, StateTyped
<1>3. edits' \in 0..project'.max_edits /\ edition' \in [Versions -> 1..(edits' + 1)]
  <2>1. CASE EditFile(v)
    <3>1. edits' = edits + 1 /\ edits < project.max_edits /\ edition' = [edition EXCEPT ![v] = @ + 1]
      BY <2>1 DEF EditFile
    <3>2. edits \in Nat /\ edits <= project.max_edits /\ edition \in [Versions -> 1..(edits + 1)]
      BY <1>2 DEF Typed, StateTyped
    <3>3. \A w \in Versions : edition[w] \in 1..(edits' + 1) /\ edition[w] + 1 \in 1..(edits' + 1)
      BY <3>1, <3>2
    <3>4. QED
      BY <3>1, <3>2, <3>3, <1>1, <1>2
  <2>2. CASE ClearInflight(v)
    BY <2>2, <1>1, TypedFrames DEF ClearInflight, budgets
  <2>3. QED
    BY <2>1, <2>2
<1>4. schema' \in [Objects' -> {"absent", "invalid", "built"}] /\ DOMAIN body' = Objects'
  <2>1. CASE EditFile(v)
    BY <2>1, <1>1, TypedFrames DEF EditFile, built
  <2>2. CASE ClearInflight(v)
    BY <2>2, <1>1, TypedFrames DEF ClearInflight, Typed, StateTyped
  <2>3. QED
    BY <2>1, <2>2
<1>5. inflight' \in [Versions -> 0..(project'.max_edits + 1)]
  <2>1. CASE EditFile(v)
    BY <2>1, <1>1, TypedFrames DEF EditFile, records
  <2>2. CASE ClearInflight(v)
    <3>1. inflight \in [Versions -> 0..(project.max_edits + 1)] /\ 0 \in 0..(project.max_edits + 1)
      BY <1>2 DEF Typed, StateTyped
    <3>2. inflight' = [inflight EXCEPT ![v] = 0]
      BY <2>2 DEF ClearInflight
    <3>3. QED
      BY <3>1, <3>2, <1>1
  <2>3. QED
    BY <2>1, <2>2
<1>6. /\ edges' \subseteq Versions \X Versions
      /\ journal' \in Seq(Events) /\ \A i \in 1..Len(journal') : journal'[i].checksum \in Sums'
  BY <1>1, TypedFrames DEF EditFile, ClearInflight, records
<1>7. StateTyped'
  BY <1>1, <1>3, <1>4, <1>5, <1>6 DEF StateTyped, Typed
<1>8. WorkTyped' /\ \A d \in Deployers : WorkOf(d)'
  BY <1>1 DEF Typed, WorkTyped, WorkOf, Batch, Sums
<1>9. QED
  BY <1>7, <1>8 DEF Typed

\* The types of the state, part by part.
LEMMA StateParts ==
    ASSUME Typed, UNCHANGED Aside,
           schema' \in [Objects' -> {"absent", "invalid", "built"}] /\ DOMAIN body' = Objects',
           inflight' \in [Versions -> 0..(project'.max_edits + 1)] /\ edges' \subseteq Versions \X Versions,
           journal' \in Seq(Events) /\ \A i \in 1..Len(journal') : journal'[i].checksum \in Sums',
           dirty' \in [Deployers -> SUBSET {"timeouts", "settings"}]
    PROVE  StateTyped'
<1>1. /\ edits' \in 0..project'.max_edits /\ edition' \in [Versions -> 1..(edits' + 1)]
      /\ lock' \in Deployers \cup {Nobody} /\ project' \in Projects
  BY TypedFrames DEF Aside, Typed, StateTyped
<1>2. QED
  BY <1>1 DEF StateTyped

\* Types after a completed row.
LEMMA CompletesTyped ==
    ASSUME Typed, project' = project, NEW d \in Deployers, NEW v \in Batch(d),
           NEW kind \in {"apply", "squash", "repeatable", "none"},
           JournalCompleted(v, work[d].files[v], kind)
    PROVE  /\ journal' \in Seq(Events) /\ \A i \in 1..Len(journal') : journal'[i].checksum \in Sums'
           /\ edges' \subseteq Versions \X Versions
<1>1. v \in Versions /\ work[d].files[v] \in Sums
  BY DEF Typed, WorkTyped, Operations, Files, Batch, WorkOf
<1>2. "applied" \in {"applied", "rolled_back"}
  OBVIOUS
<1>3. journal' = Append(journal, Event("applied", v, work[d].files[v], kind))
  BY DEF JournalCompleted
<1>4. /\ journal' \in Seq(Events) /\ \A i \in 1..Len(journal') : journal'[i].checksum \in Sums'
      /\ ({v} \X project.supersedes[v]) \subseteq Versions \X Versions
  BY <1>1, <1>2, <1>3, CompletedTyped DEF Typed
<1>5. edges' \subseteq Versions \X Versions
  BY <1>4 DEF JournalCompleted, Typed, StateTyped
<1>6. QED
  BY <1>4, <1>5

\* The kind of a completed row.
LEMMA KindTyped == \A d \in Deployers : KindOf(d) \in {"apply", "squash", "repeatable", "none"}
BY DEF KindOf

\* Types after a version is done.
LEMMA FinishedTyped ==
    ASSUME Typed, NEW d \in Deployers, Finished(d), project' = project, StateTyped', work[d].todo # <<>>
    PROVE  Typed'
<1>1. CASE Advanced(d, {})
  BY <1>1, AdvancedTyped
<1>2. CASE Turned(d, CloseOf(d), "error", work[d].report)
  <2>1. CloseOf(d) \notin Inner
    BY ClosePlace DEF Inner
  <2>2. QED
    BY <1>2, <2>1, TurnedTyped
<1>3. QED
  BY <1>1, <1>2 DEF Finished

\* Types after a step under the lock.
LEMMA InnerTyped == ASSUME Typed, NEW d \in Deployers, InnerStep(d) PROVE Typed'
<1>1. CloseOf(d) \notin Inner /\ "releasing" \notin Inner
  BY ClosePlace DEF Inner
<1>2. Batch(d) \subseteq Versions
  BY DEF Typed, WorkTyped, Operations, Files, Batch
<1>3. ASSUME UNCHANGED <<Aside, built, records, dirty>> PROVE StateTyped'
  <2>1. UNCHANGED <<project, edition, edits, built, records, lock, dirty>>
    BY <1>3 DEF Aside
  <2>2. lock' \in Deployers \cup {Nobody} /\ dirty' \in [Deployers -> SUBSET {"timeouts", "settings"}]
    BY <2>1 DEF Typed, StateTyped
  <2>3. QED
    BY <2>1, <2>2, QuietTyped
<1>4. project.max_edits \in Nat
  BY ProjectTyped DEF Typed, StateTyped
<1>5. CASE ReadFails(d)
  BY <1>1, <1>3, <1>5, ReadFailsEffect, TurnedTyped DEF Aside
<1>6. CASE PlanApply(d)
  <2> DEFINE pending == PendingOf(Batch(d) \ project.repeatable)
  <2>1. UNCHANGED <<Aside, built, records, dirty>>
    BY <1>6, PlanApplyEffect DEF Aside
  <2>2. CASE \E why \in Results \ {"ok", "missing object"} : Turned(d, CloseOf(d), why, work[d].report)
    BY <2>1, <2>2, <1>1, <1>3, TurnedTyped DEF Aside
  <2>3. CASE Planned(d, "versioned", TopoOrder[pending], Started)
    <3>1. pending \in SUBSET Versions /\ pending \subseteq Batch(d)
      BY <1>2 DEF PendingOf
    <3> HIDE DEF pending
    <3>2. TopoOrder[pending] \in Seq(pending)
      BY <3>1, OrderTyped
    <3>3. TopoOrder[pending] \in Seq(Batch(d))
      BY <3>1, <3>2
    <3>4. QED
      BY <2>1, <2>3, <3>3, <1>3, PlannedTyped DEF Aside
  <2>4. QED
    BY <2>2, <2>3, <1>6, PlanApplyEffect
<1>7. CASE PlanRepeatables(d)
  <2> DEFINE reps == Batch(d) \cap project.repeatable
  <2>1. UNCHANGED <<Aside, built, records, dirty>>
    BY <1>7, PlanRepeatablesEffect DEF Aside
  <2>2. CASE Turned(d, CloseOf(d), "dependency", work[d].report)
    BY <2>1, <2>2, <1>1, <1>3, TurnedTyped DEF Aside
  <2>3. CASE Planned(d, "repeatable", TopoOrder[reps], Started)
    <3>1. reps \in SUBSET Versions /\ reps \subseteq Batch(d)
      BY <1>2
    <3> HIDE DEF reps
    <3>2. TopoOrder[reps] \in Seq(reps)
      BY <3>1, OrderTyped
    <3>3. TopoOrder[reps] \in Seq(Batch(d))
      BY <3>1, <3>2
    <3>4. QED
      BY <2>1, <2>3, <3>3, <1>3, PlannedTyped DEF Aside
  <2>4. QED
    BY <2>2, <2>3, <1>7, PlanRepeatablesEffect
<1>8. CASE ApplyEnds(d)
  BY <1>1, <1>3, <1>8, ApplyEndsEffect, TurnedTyped DEF Aside
<1>9. CASE SkipOne(d)
  <2>1. work[d].todo # <<>> /\ UNCHANGED <<Aside, built, records, dirty>>
    BY <1>9, SkipOneEffect DEF Running
  <2>2. {} \in SUBSET Batch(d) /\ {Current(d)} \in SUBSET Batch(d)
    BY <2>1, RunningTyped
  <2>3. Advanced(d, {}) \/ Advanced(d, {Current(d)})
    BY <1>9, SkipOneEffect
  <2>4. QED
    BY <2>1, <2>2, <2>3, <1>3, AdvancedTyped DEF Aside
<1>10. CASE HaltOne(d)
  BY <1>1, <1>3, <1>10, HaltOneEffect, TurnedTyped DEF Aside
<1>11. CASE ApplyTransactional(d)
  <2>1. work[d].todo # <<>> /\ UNCHANGED <<Aside, inflight, dirty>> /\ project' = project
    BY <1>11, ApplyTransactionalEffect DEF Runs, Running, Aside
  <2>2. Current(d) \in Batch(d) /\ Current(d) \in Versions
    BY <2>1, RunningTyped
  <2>3. CASE /\ \/ UNCHANGED built \/ UpEffect(Current(d), work[d].files[Current(d)], "built")
             /\ JournalCompleted(Current(d), work[d].files[Current(d)], KindOf(d)) /\ Finished(d)
    <3>1. schema' \in [Objects' -> {"absent", "invalid", "built"}] /\ DOMAIN body' = Objects'
      BY <2>1, <2>2, <2>3, UpTyped, TypedFrames DEF built, Typed
    <3>2. /\ journal' \in Seq(Events) /\ \A i \in 1..Len(journal') : journal'[i].checksum \in Sums'
          /\ edges' \subseteq Versions \X Versions
      BY <2>1, <2>2, <2>3, KindTyped, CompletesTyped
    <3>3. /\ inflight' \in [Versions -> 0..(project'.max_edits + 1)]
          /\ dirty' \in [Deployers -> SUBSET {"timeouts", "settings"}]
      BY <2>1, TypedFrames
    <3>4. StateTyped'
      BY <2>1, <3>1, <3>2, <3>3, StateParts
    <3>5. QED
      BY <2>1, <2>3, <3>4, FinishedTyped
  <2>4. CASE UNCHANGED <<built, records>> /\ \E r : Turned(d, CloseOf(d), r, work[d].report)
    BY <2>1, <2>4, <1>1, <1>3, TurnedTyped
  <2>5. QED
    BY <2>3, <2>4, <1>11, ApplyTransactionalEffect
<1>12. CASE RecoverNonTransactional(d)
  <2>1. /\ work[d].todo # <<>> /\ work[d].op = "apply" /\ UNCHANGED <<Aside, records>>
        /\ project' = project
    BY <1>12, RecoverEffect DEF Runs, Running, Aside
  <2>2. dirty' \in [Deployers -> SUBSET {"timeouts", "settings"}]
    <3>1. dirty[d] \cup {"settings"} \in SUBSET {"timeouts", "settings"}
      BY DEF Typed, StateTyped
    <3>2. dirty' = [dirty EXCEPT ![d] = dirty[d] \cup {"settings"}]
      BY <1>12, RecoverEffect
    <3>3. QED
      BY <3>1, <3>2, DirtyTyped
  <2>3. schema' \in [Objects' -> {"absent", "invalid", "built"}] /\ DOMAIN body' = Objects'
    <3>1. CASE UNCHANGED built
      BY <3>1, <2>1, TypedFrames DEF built
    <3>2. CASE /\ UNCHANGED <<body, clobbered>>
               /\ schema' = [o \in Objects |->
                      IF HadInflight(d) /\ o \in Builds[Current(d)] /\ schema[o] = "invalid"
                      THEN "absent" ELSE schema[o]]
      BY <3>2, <2>1, TypedFrames DEF Typed, StateTyped
    <3>3. QED
      BY <3>1, <3>2, <1>12, RecoverEffect
  <2>4. StateTyped'
    BY <2>1, <2>2, <2>3, StateParts, TypedFrames DEF records
  <2>5. \E a, r : Turned(d, a, r, work[d].report)
    BY <1>12, RecoverEffect
  <2>6. QED
    BY <2>1, <2>4, <2>5, TurnedTyped
<1>13. CASE RecordStarted(d)
  <2>1. /\ UNCHANGED <<Aside, built, journal, edges, dirty>> /\ project' = project
        /\ work[d].todo # <<>> /\ work[d].op = "apply"
    BY <1>13, RecordStartedEffect DEF Aside, Typed, WorkOf, Inner
  <2>2. inflight' \in [Versions -> 0..(project'.max_edits + 1)]
    <3>1. Current(d) \in Versions /\ work[d].files[Current(d)] \in 0..(project.max_edits + 1)
      BY <2>1, <1>4, RunningTyped DEF Sums
    <3>2. inflight \in [Versions -> 0..(project.max_edits + 1)]
      BY DEF Typed, StateTyped
    <3>3. inflight' = [inflight EXCEPT ![Current(d)] = IF @ = 0 THEN work[d].files[Current(d)] ELSE @]
      BY <1>13, RecordStartedEffect
    <3>4. QED
      BY <2>1, <3>1, <3>2, <3>3
  <2>3. StateTyped'
    BY <2>1, <2>2, StateParts, TypedFrames DEF built
  <2>4. QED
    BY <2>1, <2>3, <1>13, RecordStartedEffect, TurnedTyped
<1>14. CASE RunUp(d)
  <2>1. /\ UNCHANGED <<Aside, records, dirty>> /\ project' = project
        /\ work[d].todo # <<>> /\ work[d].op = "apply"
    BY <1>14, RunUpEffect DEF Aside, Typed, WorkOf, Inner
  <2>2. schema' \in [Objects' -> {"absent", "invalid", "built"}] /\ DOMAIN body' = Objects'
    <3>1. CASE UNCHANGED built
      BY <3>1, <2>1, TypedFrames DEF built
    <3>2. CASE UpEffect(Current(d), work[d].files[Current(d)], "built")
      BY <3>2, <2>1, RunningTyped, UpTyped DEF Typed
    <3>3. CASE UpInterrupted(d)
      BY <3>3, <2>1, InterruptedTyped
    <3>4. QED
      BY <3>1, <3>2, <3>3, <1>14, RunUpEffect
  <2>3. StateTyped'
    BY <2>1, <2>2, StateParts, TypedFrames DEF records
  <2>4. \E a, r : Turned(d, a, r, work[d].report)
    BY <1>14, RunUpEffect
  <2>5. QED
    BY <2>1, <2>3, <2>4, TurnedTyped
<1>15. CASE FinalizeNonTxn(d)
  <2>1. work[d].todo # <<>> /\ work[d].op = "apply"
    BY <1>15 DEF FinalizeNonTxn, Typed, WorkOf, Inner
  <2>2. UNCHANGED <<Aside, built, dirty>> /\ project' = project
    BY <2>1, <1>15, FinalizeEffect DEF Aside
  <2>3. Current(d) \in Batch(d) /\ Current(d) \in Versions
    BY <2>1, RunningTyped
  <2>4. CASE /\ JournalCompleted(Current(d), work[d].files[Current(d)], KindOf(d))
             /\ inflight' = [inflight EXCEPT ![Current(d)] = 0] /\ Finished(d)
    <3>1. /\ journal' \in Seq(Events) /\ \A i \in 1..Len(journal') : journal'[i].checksum \in Sums'
          /\ edges' \subseteq Versions \X Versions
      BY <2>2, <2>3, <2>4, KindTyped, CompletesTyped
    <3>2. inflight' \in [Versions -> 0..(project'.max_edits + 1)]
      <4>1. inflight \in [Versions -> 0..(project.max_edits + 1)] /\ 0 \in 0..(project.max_edits + 1)
        BY <1>4 DEF Typed, StateTyped
      <4>2. QED
        BY <4>1, <2>2, <2>4
    <3>3. StateTyped'
      BY <2>2, <3>1, <3>2, StateParts, TypedFrames DEF built
    <3>4. QED
      BY <2>1, <2>2, <2>4, <3>3, FinishedTyped
  <2>5. CASE UNCHANGED records /\ Turned(d, CloseOf(d), "error", work[d].report)
    BY <2>2, <2>5, <1>1, <1>3, TurnedTyped
  <2>6. QED
    BY <2>1, <2>4, <2>5, <1>15, FinalizeEffect
<1>16. CASE StatementFails(d)
  BY <1>1, <1>3, <1>16, StatementFailsEffect, TurnedTyped DEF Aside
<1>17. CASE PlanRollback(d)
  <2>1. UNCHANGED <<Aside, built, records, dirty>>
    BY <1>17, PlanRollbackEffect DEF Aside
  <2>2. CASE Turned(d, CloseOf(d), "rollback refused", work[d].report)
    BY <2>1, <2>2, <1>1, <1>3, TurnedTyped DEF Aside
  <2>3. CASE /\ Unwound(d) \subseteq Batch(d)
             /\ Planned(d, work[d].stage, Reverse(TopoOrder[Unwound(d)]), work[d].started)
    <3>1. Unwound(d) \in SUBSET Versions
      BY <2>3, <1>2
    <3>2. TopoOrder[Unwound(d)] \in Seq(Batch(d))
      BY <2>3, <3>1, OrderTyped
    <3>3. Reverse(TopoOrder[Unwound(d)]) \in Seq(Batch(d))
      BY <3>2, ReverseTyped
    <3>4. QED
      BY <2>1, <2>3, <3>3, <1>3, PlannedTyped DEF Aside
  <2>4. QED
    BY <2>2, <2>3, <1>17, PlanRollbackEffect
<1>18. CASE RollbackOne(d)
  <2>1. work[d].todo # <<>> /\ UNCHANGED <<Aside, clobbered, inflight, edges, dirty>> /\ project' = project
    BY <1>18, RollbackOneEffect DEF Running, Aside
  <2>2. Current(d) \in Versions /\ work[d].files[Current(d)] \in Sums
    BY <2>1, RunningTyped
  <2>3. CASE /\ schema' = [o \in Objects |-> IF o \in Builds[Current(d)] THEN "absent" ELSE schema[o]]
             /\ body' = [o \in Objects |-> IF o \in Builds[Current(d)] THEN <<>> ELSE body[o]]
             /\ journal' = Append(journal,
                    Event("rolled_back", Current(d), work[d].files[Current(d)], "none"))
             /\ Finished(d)
    <3>1. schema' \in [Objects' -> {"absent", "invalid", "built"}] /\ DOMAIN body' = Objects'
      BY <2>1, <2>3, TypedFrames DEF Typed, StateTyped
    <3>2. journal' \in Seq(Events) /\ \A i \in 1..Len(journal') : journal'[i].checksum \in Sums'
      BY <2>1, <2>2, <2>3, CompletedTyped DEF Typed
    <3>3. StateTyped'
      BY <2>1, <3>1, <3>2, StateParts, TypedFrames
    <3>4. QED
      BY <2>1, <2>3, <3>3, FinishedTyped
  <2>4. CASE UNCHANGED <<schema, body, journal>> /\ Turned(d, CloseOf(d), "error", work[d].report)
    BY <2>1, <2>4, <1>1, <1>3, TurnedTyped DEF built, records
  <2>5. QED
    BY <2>3, <2>4, <1>18, RollbackOneEffect
<1>19. CASE SquashLocked(d)
  <2>1. UNCHANGED <<Aside, built, dirty>> /\ project' = project
    BY <1>19, SquashLockedEffect DEF Aside
  <2>2. \E r : Turned(d, "releasing", r, work[d].report)
    BY <1>19, SquashLockedEffect
  <2>3. CASE UNCHANGED records
    BY <2>1, <2>2, <2>3, <1>1, <1>3, TurnedTyped
  <2>4. CASE \E s \in Batch(d) : JournalCompleted(s, work[d].files[s], "squash") /\ UNCHANGED inflight
    <3>1. PICK s \in Batch(d) : JournalCompleted(s, work[d].files[s], "squash") /\ UNCHANGED inflight
      BY <2>4
    <3>2. /\ journal' \in Seq(Events) /\ \A i \in 1..Len(journal') : journal'[i].checksum \in Sums'
          /\ edges' \subseteq Versions \X Versions
      BY <2>1, <3>1, CompletesTyped
    <3>3. StateTyped'
      BY <2>1, <3>1, <3>2, StateParts, TypedFrames DEF built
    <3>4. QED
      BY <2>1, <2>2, <3>3, <1>1, TurnedTyped
  <2>5. QED
    BY <2>3, <2>4, <1>19, SquashLockedEffect
<1>20. QED
  BY <1>5, <1>6, <1>7, <1>8, <1>9, <1>10, <1>11, <1>12, <1>13, <1>14, <1>15, <1>16, <1>17,
     <1>18, <1>19 DEF InnerStep

\* Every step keeps the types.
LEMMA TypedNext == ASSUME Typed, [Next]_vars PROVE Typed'
<1>1. ASSUME NEW d \in Deployers, Apply(d) \/ Rollback(d) \/ Squash(d) \/ Step(d) \/ Crash(d)
      PROVE  Typed'
  <2>1. CASE Apply(d) \/ Rollback(d) \/ Squash(d)
    BY <2>1, BeginTyped
  <2>2. CASE InnerStep(d)
    BY <2>2, InnerTyped
  <2>3. CASE HandBack(d) \/ Crash(d)
    BY <2>3, LeaveTyped
  <2>4. CASE TakeProjectLock(d) \/ LockWaitFails(d) \/ DropGrantFromFailedAcquire(d)
             \/ SettleLockStatement(d) \/ RestoreSession(d) \/ ReleaseProjectLock(d)
    BY <2>4, BracketTyped
  <2>5. QED
    BY <1>1, <2>1, <2>2, <2>3, <2>4 DEF Step, InnerStep
<1>2. CASE \E v \in project.editable : EditFile(v)
  <2>1. project.editable \subseteq Versions
    BY ProjectTyped DEF Typed, StateTyped
  <2>2. QED
    BY <1>2, <2>1, AuthorsTyped
<1>3. CASE \E v \in Versions : ClearInflight(v)
  BY <1>3, AuthorsTyped
<1>4. CASE UNCHANGED vars
  BY <1>4 DEF vars, Typed, StateTyped, WorkTyped, WorkOf, Batch, Sums, Objects
<1>5. QED
  BY <1>1, <1>2, <1>3, <1>4 DEF Next

-----------------------------------------------------------------------------
(* The sessions.                                                           *)

\* An operation between its settled lock statement and its release holds the
\* project lock, so two operations never plan, run, restore or release at a time.
OneAtATime == \A d, e \in Deployers :
    /\ work[d].at \in Inner \cup {"planning", "restoring", "releasing"}
    /\ work[e].at \in Inner \cup {"planning", "restoring", "releasing"}
    => d = e

\* Types and the lock bracket hold throughout.
LEMMA TypedBracket == Spec => [](Typed /\ BracketInv)
<1>1. Init => Typed /\ BracketInv
  BY TypedInit, BracketInit
<1>2. Typed /\ BracketInv /\ [Next]_vars => (Typed /\ BracketInv)'
  BY TypedNext, BracketNext
<1>3. QED
  BY <1>1, <1>2, PTL DEF Spec

\* A session handed back without a report carries neither the project lock nor
\* settings of the executor, through every lost reply, cancelled wait and crash
\* (lift_statement_budget, drop_grant_from_failed_acquire, settle_lock_statement).
THEOREM SessionsClean == Spec => []SessionsHandedBackClean
<1>1. Typed /\ BracketInv => SessionsHandedBackClean
  BY DEF BracketInv, BracketOf, SessionsHandedBackClean
<1>2. QED
  BY <1>1, TypedBracket, PTL

\* At most one operation plans, runs, restores or releases at a time: each holds
\* the project's advisory lock (take_project_lock, release_project_lock).
THEOREM LockExcludes == Spec => []OneAtATime
<1>1. BracketInv => OneAtATime
  BY DEF BracketInv, BracketOf, OneAtATime, Inner
<1>2. QED
  BY <1>1, TypedBracket, PTL

-----------------------------------------------------------------------------
(* What the journal says, and how an event changes it.                     *)

\* Latest, of any journal.
LatestIn(j, v) == Max({0} \cup {i \in 1..Len(j) : j[i].version = v})

\* The latest event of a version is its last one.
LEMMA LatestOf ==
    ASSUME NEW j \in Seq(Events), NEW v \in Versions
    PROVE  /\ LatestIn(j, v) \in 0..Len(j)
           /\ LatestIn(j, v) # 0 => j[LatestIn(j, v)].version = v
           /\ \A i \in 1..Len(j) : j[i].version = v => i <= LatestIn(j, v)
<1> DEFINE S == {0} \cup {i \in 1..Len(j) : j[i].version = v}
<1>1. Len(j) \in Nat /\ S \in SUBSET (0..Len(j)) /\ S # {}
  OBVIOUS
<1>2. Max(S) \in S /\ \A k \in S : Max(S) >= k
  BY <1>1, GreatestOf
<1>3. LatestIn(j, v) = Max(S)
  BY DEF LatestIn
<1> HIDE DEF LatestIn
<1>4. LatestIn(j, v) \in S /\ \A k \in S : LatestIn(j, v) >= k
  BY <1>2, <1>3
<1>5. QED
  BY <1>1, <1>4

\* An event is the latest of its version and leaves the others theirs.
LEMMA LatestAppended ==
    ASSUME NEW j \in Seq(Events), NEW e \in Events
    PROVE  /\ LatestIn(Append(j, e), e.version) = Len(j) + 1
           /\ \A v \in Versions : v # e.version => LatestIn(Append(j, e), v) = LatestIn(j, v)
<1> DEFINE k == Append(j, e)
<1>1. /\ k \in Seq(Events) /\ Len(k) = Len(j) + 1 /\ k[Len(j) + 1] = e
      /\ \A i \in 1..Len(j) : k[i] = j[i]
  OBVIOUS
<1>2. e.version \in Versions
  BY DEF Events
<1> HIDE DEF k
<1>3. LatestIn(k, e.version) = Len(j) + 1
  BY <1>1, <1>2, LatestOf
<1>4. ASSUME NEW v \in Versions, v # e.version PROVE LatestIn(k, v) = LatestIn(j, v)
  <2> DEFINE S(q) == {0} \cup {i \in 1..Len(q) : q[i].version = v}
  <2>1. S(k) = S(j)
    BY <1>1, <1>4
  <2>2. QED
    BY <2>1 DEF LatestIn
<1>5. QED
  BY <1>3, <1>4 DEF k

\* The latest event of a net-applied version is in the journal.
LEMMA LatestFacts ==
    ASSUME Typed
    PROVE  /\ \A v \in Versions : Latest(v) \in 0..Len(journal)
           /\ \A v \in NetApplied : Latest(v) \in 1..Len(journal) /\ journal[Latest(v)].version = v
           /\ \A v \in Versions : \A i \in 1..Len(journal) : journal[i].version = v => i <= Latest(v)
           /\ \A v, w \in NetApplied : v # w => Latest(v) # Latest(w)
<1>1. journal \in Seq(Events) /\ \A v : Latest(v) = LatestIn(journal, v)
  BY DEF Typed, StateTyped, Latest, LatestIn
<1>2. \A v \in Versions :
        /\ Latest(v) \in 0..Len(journal) /\ (Latest(v) # 0 => journal[Latest(v)].version = v)
        /\ \A i \in 1..Len(journal) : journal[i].version = v => i <= Latest(v)
  BY <1>1, LatestOf
<1>3. \A v \in NetApplied : v \in Versions /\ Latest(v) # 0
  BY DEF NetApplied
<1>4. \A v \in NetApplied : Latest(v) \in 1..Len(journal) /\ journal[Latest(v)].version = v
  BY <1>2, <1>3
<1>5. QED
  BY <1>2, <1>4

\* The journal after an event.
LEMMA Appended ==
    ASSUME Typed, NEW event \in {"applied", "rolled_back"}, NEW v \in Versions, NEW sum \in Nat \ {0},
           NEW kind \in {"apply", "squash", "repeatable", "none"},
           journal' = Append(journal, Event(event, v, sum, kind))
    PROVE  /\ Len(journal') = Len(journal) + 1 /\ journal'[Len(journal) + 1] = Event(event, v, sum, kind)
           /\ \A i \in 1..Len(journal) : journal'[i] = journal[i]
           /\ Latest(v)' = Len(journal) + 1
           /\ \A w \in Versions : w # v => Latest(w)' = Latest(w)
           /\ \A w \in Versions : w # v => (w \in NetApplied' <=> w \in NetApplied)
           /\ v \in NetApplied' <=> event = "applied"
           /\ \A w \in NetApplied : w # v => journal'[Latest(w)'] = journal[Latest(w)]
           /\ \A w \in NetApplied : w # v => Recorded(w)' = Recorded(w)
           /\ Recorded(v)' = sum
<1> DEFINE e == Event(event, v, sum, kind)
<1>1. e \in Events /\ e.version = v /\ e.event = event /\ e.checksum = sum
  BY DEF Event, Events
<1> HIDE DEF e
<1>2. journal \in Seq(Events) /\ journal' = Append(journal, e)
  BY DEF Typed, StateTyped, e
<1>3. /\ Len(journal') = Len(journal) + 1 /\ journal'[Len(journal) + 1] = e
      /\ \A i \in 1..Len(journal) : journal'[i] = journal[i]
  BY <1>1, <1>2
<1>4. \A w : Latest(w) = LatestIn(journal, w) /\ Latest(w)' = LatestIn(journal', w)
  BY DEF Latest, LatestIn
<1>5. Latest(v)' = Len(journal) + 1 /\ \A w \in Versions : w # v => Latest(w)' = Latest(w)
  BY <1>1, <1>2, <1>4, LatestAppended
<1>6. \A w \in Versions : Latest(w) \in 0..Len(journal)
  BY LatestFacts
<1>7. \A w \in Versions : w # v /\ Latest(w) # 0 => journal'[Latest(w)'] = journal[Latest(w)]
  BY <1>3, <1>5, <1>6
<1>8. \A w \in Versions : w \in NetApplied' <=> Latest(w)' # 0 /\ journal'[Latest(w)'].event = "applied"
  BY DEF NetApplied
<1>9. \A w \in Versions : w # v => (w \in NetApplied' <=> w \in NetApplied)
  BY <1>5, <1>7, <1>8 DEF NetApplied
<1>10. Len(journal) + 1 # 0
  BY <1>2
<1>11. v \in NetApplied' <=> event = "applied"
  BY <1>1, <1>3, <1>5, <1>8, <1>10
<1>12. \A w \in NetApplied : w \in Versions /\ Latest(w) # 0
  BY DEF NetApplied
<1>13. \A w \in NetApplied : w # v => journal'[Latest(w)'] = journal[Latest(w)]
  BY <1>7, <1>12
<1>14. Recorded(v)' = sum
  BY <1>1, <1>3, <1>5 DEF Recorded
<1>15. \A w \in NetApplied : w # v => Recorded(w)' = Recorded(w)
  BY <1>13 DEF Recorded
<1>16. QED
  BY <1>3, <1>5, <1>9, <1>11, <1>13, <1>14, <1>15 DEF e

-----------------------------------------------------------------------------
(* The records of an orderly project.                                      *)

\* What a net-applied squash stands for, and what counts as there.
Sup == {w \in Versions : \E s \in NetApplied : w \in project.supersedes[s]}
Met == NetApplied \cup Sup

\* A repeatable only ever completes; the edges are those its squash declared,
\* and a squash that counts has all of them.
JournalInv ==
    /\ \A i \in 1..Len(journal) : journal[i].version \in project.repeatable =>
          journal[i].event = "applied" /\ journal[i].kind = "repeatable"
    /\ \A s, w \in Versions : <<s, w>> \in edges => w \in project.supersedes[s]
    /\ \A s \in NetApplied : \A w \in project.supersedes[s] :
          <<s, w>> \in edges /\ journal[Latest(s)].kind = "squash"

\* What is applied has its dependencies, and they came before it.
OrderInv == \A x \in NetApplied :
    /\ project.depends_on[x] \subseteq Met
    /\ \A w \in NetApplied \ project.repeatable :
          w \in project.supersedes[x] \cup project.depends_on[x] => Latest(w) < Latest(x)

\* A marker is a two-phase version's that is not applied.
MarkerInv == \A v \in Versions : inflight[v] # 0 => v \in project.two_phase /\ v \notin NetApplied

\* An object is built by the body the journal names, or for a squash; one that
\* is neither applied nor marked is absent; a marked one is its marker's work.
SchemaInv ==
    /\ clobbered = {}
    /\ \A o \in Objects :
        /\ o \in NetApplied => schema[o] = "built" /\ body[o] = <<o, Recorded(o)>>
        /\ o \in Sup => schema[o] = "built"
        /\ o \notin Met /\ inflight[o] = 0 => schema[o] = "absent"
        /\ inflight[o] # 0 /\ schema[o] # "absent" => body[o] = <<o, inflight[o]>>

RecordsInv == JournalInv /\ OrderInv /\ MarkerInv /\ SchemaInv

\* What an orderly project's squashes are like.
LEMMA OrderlySquash ==
    ASSUME Orderly(project), NEW s \in Versions, project.supersedes[s] # {}
    PROVE  /\ s \notin project.two_phase /\ s \notin project.reversible /\ s \notin project.conditional
           /\ project.depends_on[s] = {} /\ project.supersedes[s] \cap project.two_phase = {}
           /\ \A w \in project.supersedes[s] : project.supersedes[w] = {}
           /\ \A v \in Versions \ project.repeatable :
                 project.depends_on[v] \cap project.supersedes[s] # {} => s < v
BY DEF Orderly

\* With squashes of plain versions only, an up builds its own object or those
\* of what it supersedes.
LEMMA BuildsFacts ==
    ASSUME Orderly(project), project \in Projects
    PROVE  \A v \in Versions :
             /\ Builds[v] = IF project.supersedes[v] = {} THEN {v} ELSE project.supersedes[v]
             /\ Builds[v] \subseteq Objects
<1> DEFINE sup(v) == project.supersedes[v]
           Rec(f) == [v \in Versions |-> IF sup(v) = {} THEN {v} ELSE UNION {f[w] : w \in sup(v)}]
           g == [v \in Versions |-> IF sup(v) = {} THEN {v} ELSE sup(v)]
<1>1. \A v \in Versions : sup(v) \subseteq Versions /\ \A w \in sup(v) : sup(w) = {}
  BY ProjectTyped, OrderlySquash
<1>2. g = Rec(g)
  <2>1. ASSUME NEW v \in Versions PROVE g[v] = Rec(g)[v]
    <3>1. \A w \in sup(v) : g[w] = {w}
      BY <1>1
    <3>2. UNION {g[w] : w \in sup(v)} = sup(v)
      <4> HIDE DEF g
      <4>1. QED
        BY <3>1
    <3>3. QED
      BY <3>2
  <2>2. QED
    BY <2>1
<1>3. Builds = CHOOSE f : f = Rec(f)
  BY DEF Builds
<1> HIDE DEF Rec, g
<1>4. Builds = Rec(Builds)
  BY <1>2, <1>3, Zenon
<1> DEFINE b == Builds
<1>5. b = Rec(b)
  BY <1>4
<1> HIDE DEF b
<1>6. \A v \in Versions : b[v] = IF sup(v) = {} THEN {v} ELSE UNION {b[w] : w \in sup(v)}
  BY <1>5 DEF Rec
<1>7. \A v \in Versions : sup(v) = {} => b[v] = {v}
  BY <1>6
<1>8. ASSUME NEW v \in Versions, sup(v) # {} PROVE b[v] = sup(v)
  <2>1. \A w \in sup(v) : b[w] = {w}
    BY <1>1, <1>7
  <2>2. UNION {b[w] : w \in sup(v)} = sup(v)
    BY <2>1
  <2>3. QED
    BY <1>6, <1>8, <2>2
<1>9. \A v \in Versions : b[v] \subseteq Objects
  BY <1>1, <1>7, <1>8 DEF Objects
<1>10. QED
  BY <1>7, <1>8, <1>9 DEF b

\* The journal's readers find what it means.
LEMMA ReadersFacts ==
    ASSUME Typed, JournalInv
    PROVE  superseded_versions = Sup /\ Satisfied = Met
<1>1. NetApplied \subseteq Versions /\ project.supersedes \in [Versions -> SUBSET Versions]
  BY ProjectTyped DEF NetApplied, Typed, StateTyped
<1>2. superseded_versions = Sup
  BY <1>1 DEF superseded_versions, Sup, JournalInv
<1>3. QED
  BY <1>2 DEF Satisfied, Met

\* A squash is itself under no other.
LEMMA SquashOnTop ==
    ASSUME Orderly(project), NEW s \in Versions, project.supersedes[s] # {}
    PROVE  s \notin Sup /\ s \notin project.supersedes[s]
BY OrderlySquash DEF Sup, NetApplied

\* What is met is built.
LEMMA MetBuilt ==
    ASSUME Typed, Orderly(project), SchemaInv, NEW u \in Met
    PROVE  u \in Versions /\ \A o \in Builds[u] : schema[o] = "built"
<1>1. u \in Versions
  BY DEF Met, NetApplied, Sup
<1>2. Builds[u] = (IF project.supersedes[u] = {} THEN {u} ELSE project.supersedes[u])
      /\ Builds[u] \subseteq Objects
  BY <1>1, BuildsFacts DEF Typed, StateTyped
<1>3. CASE project.supersedes[u] = {}
  BY <1>1, <1>2, <1>3 DEF SchemaInv, Met
<1>4. CASE project.supersedes[u] # {}
  <2>1. u \in NetApplied
    BY <1>1, <1>4, SquashOnTop DEF Met
  <2>2. \A o \in Builds[u] : o \in Sup /\ o \in Objects
    BY <1>2, <1>4, <2>1 DEF Sup, Objects
  <2>3. QED
    BY <1>1, <2>2 DEF SchemaInv
<1>5. QED
  BY <1>3, <1>4

\* A completed migration in the journal.
LEMMA AppliedKeeps ==
    ASSUME Typed, Orderly(project), JournalInv, OrderInv, project' = project,
           NEW v \in Versions, NEW sum \in Nat \ {0},
           NEW kind \in {"apply", "squash", "repeatable", "none"}, JournalCompleted(v, sum, kind),
           v \in project.repeatable => kind = "repeatable",
           project.supersedes[v] # {} => kind = "squash",
           v \notin Met \/ v \in project.repeatable,
           project.depends_on[v] \subseteq Met
    PROVE  /\ JournalInv' /\ OrderInv'
           /\ NetApplied' = NetApplied \cup {v}
           /\ Sup' = Sup \cup project.supersedes[v]
           /\ Met' = Met \cup {v} \cup project.supersedes[v]
           /\ Recorded(v)' = sum
           /\ \A w \in NetApplied : w # v => Recorded(w)' = Recorded(w)
<1>1. /\ journal' = Append(journal, Event("applied", v, sum, kind))
      /\ edges' = edges \cup ({v} \X project.supersedes[v])
  BY DEF JournalCompleted
<1>2. /\ Len(journal') = Len(journal) + 1 /\ journal'[Len(journal) + 1] = Event("applied", v, sum, kind)
      /\ \A i \in 1..Len(journal) : journal'[i] = journal[i]
      /\ Latest(v)' = Len(journal) + 1
      /\ \A w \in Versions : w # v => Latest(w)' = Latest(w)
      /\ \A w \in Versions : w # v => (w \in NetApplied' <=> w \in NetApplied)
      /\ v \in NetApplied'
      /\ \A w \in NetApplied : w # v => journal'[Latest(w)'] = journal[Latest(w)]
      /\ \A w \in NetApplied : w # v => Recorded(w)' = Recorded(w)
      /\ Recorded(v)' = sum
  BY <1>1, Appended
<1>3. /\ project.supersedes \in [Versions -> SUBSET Versions] /\ project.repeatable \subseteq Versions
      /\ project.depends_on \in [Versions -> SUBSET Versions]
      /\ \A x \in project.repeatable : project.supersedes[x] = {}
  BY ProjectTyped DEF Typed, StateTyped
<1>4. NetApplied' = NetApplied \cup {v} /\ NetApplied \subseteq Versions
  BY <1>2 DEF NetApplied
<1>5. Sup' = Sup \cup project.supersedes[v]
  BY <1>3, <1>4 DEF Sup
<1>6. Met' = Met \cup {v} \cup project.supersedes[v]
  BY <1>4, <1>5 DEF Met
<1>7. journal \in Seq(Events) /\ \A w \in Versions : Latest(w) \in 0..Len(journal)
  BY LatestFacts DEF Typed, StateTyped
<1>8. JournalInv'
  <2>1. \A i \in 1..Len(journal') : journal'[i].version \in project'.repeatable =>
          journal'[i].event = "applied" /\ journal'[i].kind = "repeatable"
    <3>1. TAKE i \in 1..Len(journal')
    <3>2. CASE i \in 1..Len(journal)
      BY <1>2, <3>2 DEF JournalInv
    <3>3. CASE i = Len(journal) + 1
      BY <1>2, <3>3 DEF Event
    <3>4. QED
      BY <1>2, <1>7, <3>2, <3>3
  <2>2. \A s, w \in Versions : <<s, w>> \in edges' => w \in project'.supersedes[s]
    BY <1>1 DEF JournalInv
  <2>3. ASSUME NEW s \in NetApplied', NEW w \in project'.supersedes[s]
        PROVE  <<s, w>> \in edges' /\ journal'[Latest(s)'].kind = "squash"
    <3>1. CASE s = v
      <4>1. <<s, w>> \in edges'
        BY <1>1, <2>3, <3>1
      <4>2. journal'[Latest(s)'].kind = kind
        BY <1>2, <3>1 DEF Event
      <4>3. QED
        BY <2>3, <3>1, <4>1, <4>2
    <3>2. CASE s # v
      BY <1>1, <1>2, <1>4, <2>3, <3>2 DEF JournalInv
    <3>3. QED
      BY <3>1, <3>2
  <2>4. QED
    BY <2>1, <2>2, <2>3 DEF JournalInv
<1>9. OrderInv'
  <2>1. SUFFICES ASSUME NEW x \in NetApplied'
                 PROVE  /\ project'.depends_on[x] \subseteq Met'
                        /\ \A w \in NetApplied' \ project'.repeatable :
                             w \in project'.supersedes[x] \cup project'.depends_on[x] => Latest(w)' < Latest(x)'
    BY DEF OrderInv
  <2>2. project.depends_on[x] \subseteq Met'
    BY <1>4, <1>6 DEF OrderInv
  <2>3. ASSUME NEW w \in NetApplied', w \notin project.repeatable,
               w \in project.supersedes[x] \cup project.depends_on[x]
        PROVE  Latest(w)' < Latest(x)'
    <3>1. w # v
      <4>1. CASE x = v
        <5>1. SUFFICES ASSUME w = v PROVE FALSE
          OBVIOUS
        <5>2. v \in project.supersedes[v] \/ v \in Met
          BY <4>1, <5>1, <2>3
        <5>3. v \notin Met
          BY <5>1, <2>3
        <5>4. v \notin project.supersedes[v]
          BY SquashOnTop
        <5>5. QED
          BY <5>2, <5>3, <5>4
      <4>2. CASE x # v
        <5>1. x \in NetApplied
          BY <4>2, <1>4
        <5>2. w \in Sup \/ w \in Met
          BY <5>1, <2>3, <1>4 DEF Sup, OrderInv
        <5>3. QED
          BY <5>2, <2>3 DEF Met
      <4>3. QED
        BY <4>1, <4>2
    <3>2. w \in NetApplied /\ w \in Versions /\ Latest(w)' = Latest(w)
      BY <3>1, <1>2, <1>4
    <3>3. CASE x = v
      BY <3>2, <3>3, <1>2, <1>7
    <3>4. CASE x # v
      <4>1. x \in NetApplied /\ Latest(x)' = Latest(x)
        BY <3>4, <1>2, <1>4
      <4>2. QED
        BY <4>1, <3>2, <2>3 DEF OrderInv
    <3>5. QED
      BY <3>3, <3>4
  <2>4. QED
    BY <2>2, <2>3
<1>10. QED
  BY <1>2, <1>4, <1>5, <1>6, <1>8, <1>9

\* A migration undone in the journal.
LEMMA RolledKeeps ==
    ASSUME Typed, Orderly(project), JournalInv, OrderInv, UNCHANGED <<project, edges>>,
           NEW v \in NetApplied, NEW sum \in Nat \ {0},
           journal' = Append(journal, Event("rolled_back", v, sum, "none")),
           v \in project.reversible, v \notin Sup,
           \A x \in NetApplied : v \notin project.depends_on[x]
    PROVE  /\ JournalInv' /\ OrderInv'
           /\ NetApplied' = NetApplied \ {v} /\ Sup' = Sup /\ Met' = Met \ {v}
           /\ \A w \in NetApplied : w # v => Recorded(w)' = Recorded(w)
<1>1. v \in Versions /\ "rolled_back" \in {"applied", "rolled_back"}
  BY DEF NetApplied
<1>2. /\ Len(journal') = Len(journal) + 1 /\ journal'[Len(journal) + 1] = Event("rolled_back", v, sum, "none")
      /\ \A i \in 1..Len(journal) : journal'[i] = journal[i]
      /\ \A w \in Versions : w # v => Latest(w)' = Latest(w)
      /\ \A w \in Versions : w # v => (w \in NetApplied' <=> w \in NetApplied)
      /\ v \notin NetApplied'
      /\ \A w \in NetApplied : w # v => journal'[Latest(w)'] = journal[Latest(w)]
      /\ \A w \in NetApplied : w # v => Recorded(w)' = Recorded(w)
  BY <1>1, Appended
<1>3. /\ project.supersedes \in [Versions -> SUBSET Versions] /\ v \notin project.repeatable
  BY ProjectTyped DEF Typed, StateTyped
<1>4. NetApplied' = NetApplied \ {v} /\ NetApplied \subseteq Versions
  BY <1>1, <1>2 DEF NetApplied
<1>5. project.supersedes[v] = {}
  BY <1>1, OrderlySquash
<1>6. Sup' = Sup
  BY <1>3, <1>4, <1>5 DEF Sup
<1>7. Met' = Met \ {v}
  BY <1>4, <1>6 DEF Met
<1>8. JournalInv'
  <2>1. \A i \in 1..Len(journal') : journal'[i].version \in project'.repeatable =>
          journal'[i].event = "applied" /\ journal'[i].kind = "repeatable"
    <3>1. TAKE i \in 1..Len(journal')
    <3>2. CASE i \in 1..Len(journal)
      BY <1>2, <3>2 DEF JournalInv
    <3>3. CASE i = Len(journal) + 1
      BY <1>2, <1>3, <3>3 DEF Event
    <3>4. QED
      BY <1>2, <3>2, <3>3 DEF Typed, StateTyped
  <2>2. QED
    BY <2>1, <1>2, <1>4 DEF JournalInv
<1>9. OrderInv'
  BY <1>2, <1>4, <1>7 DEF OrderInv
<1>10. QED
  BY <1>2, <1>4, <1>6, <1>7, <1>8, <1>9

\* What the journal says stays as long as the journal does.
LEMMA Still ==
    ASSUME UNCHANGED <<project, journal>>
    PROVE  /\ NetApplied' = NetApplied /\ Sup' = Sup /\ Met' = Met /\ Objects' = Objects
           /\ \A v : Recorded(v)' = Recorded(v) /\ Latest(v)' = Latest(v)
           /\ OrderInv => OrderInv'
           /\ JournalInv /\ edges' = edges => JournalInv'
<1>1. \A v : Latest(v)' = Latest(v)
  BY DEF Latest
<1>2. NetApplied' = NetApplied /\ \A v : Recorded(v)' = Recorded(v)
  BY <1>1 DEF NetApplied, Recorded
<1>3. Sup' = Sup /\ Objects' = Objects
  BY <1>2 DEF Sup, Objects
<1>4. Met' = Met
  BY <1>2, <1>3 DEF Met
<1>5. QED
  BY <1>1, <1>2, <1>3, <1>4 DEF OrderInv, JournalInv

\* Records stand where nothing they speak of was written.
LEMMA RecordsStill ==
    ASSUME RecordsInv, UNCHANGED <<project, built, records>>
    PROVE  RecordsInv'
<1>1. UNCHANGED <<project, journal, edges, inflight, schema, body, clobbered>>
  BY DEF built, records
<1>2. QED
  BY <1>1, Still DEF RecordsInv, MarkerInv, SchemaInv

\* A migration that runs in one transaction.
LEMMA RecordsTransactional ==
    ASSUME Typed, Orderly(project), RecordsInv, UNCHANGED <<project, inflight>>,
           NEW v \in Versions, NEW sum \in Nat \ {0}, NEW kind \in {"apply", "squash", "repeatable", "none"},
           JournalCompleted(v, sum, kind),
           IF GuardSatisfied(v) THEN UNCHANGED built ELSE UpEffect(v, sum, "built"),
           v \in project.repeatable => kind = "repeatable",
           project.supersedes[v] # {} => kind = "squash",
           v \notin project.two_phase, v \notin Met \/ v \in project.repeatable,
           project.supersedes[v] \cap Met = {}, project.depends_on[v] \subseteq Met
    PROVE  RecordsInv'
<1>1. /\ JournalInv' /\ OrderInv'
      /\ NetApplied' = NetApplied \cup {v}
      /\ Sup' = Sup \cup project.supersedes[v]
      /\ Met' = Met \cup {v} \cup project.supersedes[v]
      /\ Recorded(v)' = sum
      /\ \A w \in NetApplied : w # v => Recorded(w)' = Recorded(w)
  BY AppliedKeeps DEF RecordsInv
<1>2. /\ Builds[v] = IF project.supersedes[v] = {} THEN {v} ELSE project.supersedes[v]
      /\ Builds[v] \subseteq Objects
  BY BuildsFacts DEF Typed, StateTyped
<1>3. /\ project.supersedes[v] \cap project.two_phase = {} /\ project.supersedes[v] \subseteq Versions
      /\ v \in project.repeatable => v \notin project.guarded /\ project.supersedes[v] = {}
      /\ v \notin project.replayable
  BY ProjectTyped, OrderlySquash DEF Typed, StateTyped, Orderly
<1>4. \A o \in Builds[v] : o \in Versions /\ inflight[o] = 0
  BY <1>2, <1>3 DEF RecordsInv, MarkerInv
<1>5. v \notin project.repeatable => \A o \in Builds[v] : schema[o] = "absent"
  <2>1. SUFFICES ASSUME v \notin project.repeatable, NEW o \in Builds[v] PROVE schema[o] = "absent"
    OBVIOUS
  <2>2. o \notin Met
    BY <1>2, <2>1
  <2>3. QED
    BY <1>2, <1>4, <2>2 DEF RecordsInv, SchemaInv
<1>6. ~ GuardSatisfied(v)
  BY <1>2, <1>3, <1>5 DEF GuardSatisfied
<1>7. UpEffect(v, sum, "built")
  BY <1>6
<1>8. /\ schema' = [o \in Objects |-> IF o \in Builds[v] THEN "built" ELSE schema[o]]
      /\ body' = [o \in Objects |-> IF o \in Builds[v] THEN <<v, sum>> ELSE body[o]]
  BY <1>3, <1>7 DEF UpEffect
<1>9. clobbered' = {}
  BY <1>3, <1>5, <1>7 DEF UpEffect, RecordsInv, SchemaInv
<1>10. Objects' = Objects
  BY DEF Objects
<1>11. SchemaInv'
  <2>1. SUFFICES ASSUME NEW o \in Objects
                 PROVE  /\ o \in NetApplied' => schema'[o] = "built" /\ body'[o] = <<o, Recorded(o)'>>
                        /\ o \in Sup' => schema'[o] = "built"
                        /\ o \notin Met' /\ inflight'[o] = 0 => schema'[o] = "absent"
                        /\ inflight'[o] # 0 /\ schema'[o] # "absent" => body'[o] = <<o, inflight'[o]>>
    BY <1>9, <1>10 DEF SchemaInv
  <2>2. ASSUME o \in NetApplied' PROVE schema'[o] = "built" /\ body'[o] = <<o, Recorded(o)'>>
    <3>1. CASE o = v
      BY <3>1, <1>1, <1>2, <1>8 DEF Objects
    <3>2. CASE o # v
      <4>1. o \in NetApplied /\ o \in Met
        BY <3>2, <2>2, <1>1 DEF Met
      <4>2. o \notin Builds[v]
        BY <4>1, <3>2, <1>2
      <4>3. QED
        BY <4>1, <4>2, <3>2, <1>1, <1>8 DEF RecordsInv, SchemaInv
    <3>3. QED
      BY <3>1, <3>2
  <2>3. o \in Sup' => schema'[o] = "built"
    BY <1>1, <1>2, <1>8 DEF RecordsInv, SchemaInv
  <2>4. o \notin Met' /\ inflight'[o] = 0 => schema'[o] = "absent"
    BY <1>1, <1>2, <1>8 DEF RecordsInv, SchemaInv
  <2>5. inflight'[o] # 0 /\ schema'[o] # "absent" => body'[o] = <<o, inflight'[o]>>
    BY <1>4, <1>8 DEF RecordsInv, SchemaInv
  <2>6. QED
    BY <2>2, <2>3, <2>4, <2>5
<1>12. MarkerInv'
  BY <1>1 DEF RecordsInv, MarkerInv
<1>13. QED
  BY <1>1, <1>11, <1>12 DEF RecordsInv

\* What a two-phase version of an orderly project is like.
LEMMA TwoPhaseFacts ==
    ASSUME Typed, Orderly(project), NEW v \in project.two_phase
    PROVE  /\ v \in Versions /\ project.supersedes[v] = {} /\ v \in Objects /\ Builds[v] = {v}
           /\ v \notin project.repeatable /\ v \notin Sup
<1>1. v \in Versions /\ v \notin project.repeatable
  BY ProjectTyped DEF Typed, StateTyped
<1>2. project.supersedes[v] = {} /\ v \notin Sup
  BY <1>1, OrderlySquash DEF Sup, NetApplied
<1>3. Builds[v] = {v}
  BY <1>1, <1>2, BuildsFacts DEF Typed, StateTyped
<1>4. QED
  BY <1>1, <1>2, <1>3 DEF Objects

\* The completed row of a two-phase version, with its marker's deletion.
LEMMA RecordsFinalized ==
    ASSUME Typed, Orderly(project), RecordsInv, UNCHANGED <<project, built>>,
           NEW v \in project.two_phase, NEW sum \in Nat \ {0},
           NEW kind \in {"apply", "squash", "repeatable", "none"}, JournalCompleted(v, sum, kind),
           inflight' = [inflight EXCEPT ![v] = 0], inflight[v] = sum, schema[v] = "built",
           v \notin Met, project.depends_on[v] \subseteq Met
    PROVE  RecordsInv'
<1>1. /\ v \in Versions /\ project.supersedes[v] = {} /\ v \in Objects /\ v \notin project.repeatable
  BY TwoPhaseFacts
<1>2. /\ JournalInv' /\ OrderInv'
      /\ NetApplied' = NetApplied \cup {v} /\ Sup' = Sup /\ Met' = Met \cup {v}
      /\ Recorded(v)' = sum
      /\ \A w \in NetApplied : w # v => Recorded(w)' = Recorded(w)
  <2>0. /\ project' = project /\ JournalInv /\ OrderInv
        /\ v \in project.repeatable => kind = "repeatable"
        /\ project.supersedes[v] # {} => kind = "squash"
    BY <1>1 DEF RecordsInv
  <2>1. /\ JournalInv' /\ OrderInv'
        /\ NetApplied' = NetApplied \cup {v} /\ Sup' = Sup \cup project.supersedes[v]
        /\ Met' = Met \cup {v} \cup project.supersedes[v]
        /\ Recorded(v)' = sum
        /\ \A w \in NetApplied : w # v => Recorded(w)' = Recorded(w)
    BY <1>1, <2>0, AppliedKeeps, SMTT(60)
  <2>2. QED
    BY <1>1, <2>1
<1>3. inflight'[v] = 0 /\ \A w \in Versions : w # v => inflight'[w] = inflight[w]
  BY <1>1 DEF Typed, StateTyped
<1>4. Objects' = Objects /\ UNCHANGED <<schema, body, clobbered>> /\ Objects \subseteq Versions
  BY DEF Objects, built
<1>5. body[v] = <<v, sum>>
  BY <1>1 DEF RecordsInv, SchemaInv
<1>6. SchemaInv'
  <2>1. SUFFICES ASSUME NEW o \in Objects
                 PROVE  /\ o \in NetApplied' => schema'[o] = "built" /\ body'[o] = <<o, Recorded(o)'>>
                        /\ o \in Sup' => schema'[o] = "built"
                        /\ o \notin Met' /\ inflight'[o] = 0 => schema'[o] = "absent"
                        /\ inflight'[o] # 0 /\ schema'[o] # "absent" => body'[o] = <<o, inflight'[o]>>
    BY <1>4 DEF SchemaInv, RecordsInv
  <2>2. CASE o = v
    BY <2>2, <1>2, <1>3, <1>4, <1>5
  <2>3. CASE o # v
    BY <2>3, <1>2, <1>3, <1>4 DEF SchemaInv, RecordsInv
  <2>4. QED
    BY <2>2, <2>3
<1>7. MarkerInv'
  BY <1>2, <1>3 DEF MarkerInv, RecordsInv
<1>8. QED
  BY <1>2, <1>6, <1>7 DEF RecordsInv

\* A squash recorded over versions that are applied.
LEMMA RecordsSquash ==
    ASSUME Typed, Orderly(project), RecordsInv, UNCHANGED <<project, built, inflight>>,
           NEW s \in Versions, NEW sum \in Nat \ {0}, JournalCompleted(s, sum, "squash"),
           project.supersedes[s] # {}, s \notin NetApplied, project.supersedes[s] \subseteq NetApplied
    PROVE  RecordsInv'
<1>1. /\ s \notin Met /\ project.depends_on[s] = {} /\ s \notin project.two_phase
      /\ s \notin project.repeatable
  BY ProjectTyped, SquashOnTop, OrderlySquash DEF Met, Typed, StateTyped
<1>2. /\ JournalInv' /\ OrderInv'
      /\ NetApplied' = NetApplied \cup {s} /\ Sup' = Sup \cup project.supersedes[s]
      /\ Met' = Met \cup {s} \cup project.supersedes[s]
      /\ \A w \in NetApplied : w # s => Recorded(w)' = Recorded(w)
  <2>1. /\ project.depends_on[s] \subseteq Met /\ project' = project
        /\ "squash" \in {"apply", "squash", "repeatable", "none"}
    BY <1>1
  <2>2. QED
    BY <1>1, <2>1, AppliedKeeps DEF RecordsInv
<1>3. Objects' = Objects /\ UNCHANGED <<schema, body, clobbered>> /\ s \notin Objects
  BY DEF Objects, built
<1>4. SchemaInv'
  <2>1. SUFFICES ASSUME NEW o \in Objects
                 PROVE  /\ o \in NetApplied' => schema'[o] = "built" /\ body'[o] = <<o, Recorded(o)'>>
                        /\ o \in Sup' => schema'[o] = "built"
                        /\ o \notin Met' /\ inflight'[o] = 0 => schema'[o] = "absent"
                        /\ inflight'[o] # 0 /\ schema'[o] # "absent" => body'[o] = <<o, inflight'[o]>>
    BY <1>3 DEF SchemaInv, RecordsInv
  <2>2. o # s
    BY <1>3
  <2>3. QED
    BY <2>2, <1>2, <1>3 DEF SchemaInv, RecordsInv
<1>5. MarkerInv'
  BY <1>1, <1>2 DEF MarkerInv, RecordsInv
<1>6. QED
  BY <1>2, <1>4, <1>5 DEF RecordsInv

\* A down, with its rolled_back event.
LEMMA RecordsRolled ==
    ASSUME Typed, Orderly(project), RecordsInv, UNCHANGED <<project, edges, inflight, clobbered>>,
           NEW v \in NetApplied, NEW sum \in Nat \ {0},
           journal' = Append(journal, Event("rolled_back", v, sum, "none")),
           schema' = [o \in Objects |-> IF o \in Builds[v] THEN "absent" ELSE schema[o]],
           body' = [o \in Objects |-> IF o \in Builds[v] THEN <<>> ELSE body[o]],
           v \in project.reversible, v \notin Sup, v \notin project.two_phase,
           \A x \in NetApplied : v \notin project.depends_on[x]
    PROVE  RecordsInv'
<1>1. /\ JournalInv' /\ OrderInv'
      /\ NetApplied' = NetApplied \ {v} /\ Sup' = Sup /\ Met' = Met \ {v}
      /\ \A w \in NetApplied : w # v => Recorded(w)' = Recorded(w)
  BY RolledKeeps DEF RecordsInv
<1>2. v \in Versions /\ project.supersedes[v] = {}
  BY OrderlySquash DEF NetApplied
<1>3. Builds[v] = {v}
  BY <1>2, BuildsFacts DEF Typed, StateTyped
<1>4. Objects' = Objects /\ inflight[v] = 0
  BY <1>2 DEF Objects, RecordsInv, MarkerInv
<1>5. SchemaInv'
  <2>1. SUFFICES ASSUME NEW o \in Objects
                 PROVE  /\ o \in NetApplied' => schema'[o] = "built" /\ body'[o] = <<o, Recorded(o)'>>
                        /\ o \in Sup' => schema'[o] = "built"
                        /\ o \notin Met' /\ inflight'[o] = 0 => schema'[o] = "absent"
                        /\ inflight'[o] # 0 /\ schema'[o] # "absent" => body'[o] = <<o, inflight'[o]>>
    BY <1>4 DEF SchemaInv, RecordsInv
  <2>2. CASE o = v
    BY <2>2, <1>1, <1>3, <1>4
  <2>3. CASE o # v
    BY <2>3, <1>1, <1>3 DEF SchemaInv, RecordsInv
  <2>4. QED
    BY <2>2, <2>3
<1>6. MarkerInv'
  BY <1>1 DEF MarkerInv, RecordsInv
<1>7. QED
  BY <1>1, <1>5, <1>6 DEF RecordsInv

\* A marker is armed.
LEMMA RecordsArmed ==
    ASSUME Typed, Orderly(project), RecordsInv, UNCHANGED <<project, built, journal, edges>>,
           NEW v \in project.two_phase, NEW sum \in Nat \ {0}, v \notin Met,
           inflight' = [inflight EXCEPT ![v] = IF @ = 0 THEN sum ELSE @]
    PROVE  RecordsInv'
<1>1. v \in Versions /\ v \in Objects
  BY TwoPhaseFacts
<1>2. /\ inflight'[v] = (IF inflight[v] = 0 THEN sum ELSE inflight[v])
      /\ \A w \in Versions : w # v => inflight'[w] = inflight[w]
  BY <1>1 DEF Typed, StateTyped
<1>3. /\ NetApplied' = NetApplied /\ Sup' = Sup /\ Met' = Met /\ Objects' = Objects
      /\ JournalInv' /\ OrderInv' /\ \A w : Recorded(w)' = Recorded(w)
  BY Still DEF RecordsInv
<1>4. UNCHANGED <<schema, body, clobbered>> /\ Objects \subseteq Versions
  BY DEF built, Objects
<1>5. inflight[v] = 0 => schema[v] = "absent"
  BY <1>1 DEF RecordsInv, SchemaInv
<1>6. SchemaInv'
  <2>1. SUFFICES ASSUME NEW o \in Objects
                 PROVE  /\ o \in NetApplied' => schema'[o] = "built" /\ body'[o] = <<o, Recorded(o)'>>
                        /\ o \in Sup' => schema'[o] = "built"
                        /\ o \notin Met' /\ inflight'[o] = 0 => schema'[o] = "absent"
                        /\ inflight'[o] # 0 /\ schema'[o] # "absent" => body'[o] = <<o, inflight'[o]>>
    BY <1>3, <1>4 DEF SchemaInv, RecordsInv
  <2>2. CASE o = v
    BY <2>2, <1>2, <1>3, <1>4, <1>5 DEF SchemaInv, RecordsInv
  <2>3. CASE o # v
    BY <2>3, <1>2, <1>3, <1>4 DEF SchemaInv, RecordsInv
  <2>4. QED
    BY <2>2, <2>3
<1>7. MarkerInv'
  BY <1>2, <1>3 DEF MarkerInv, RecordsInv, Met
<1>8. QED
  BY <1>3, <1>6, <1>7 DEF RecordsInv

\* An up under its marker: whole, half done, or not begun.
LEMMA RecordsUp ==
    ASSUME Typed, Orderly(project), RecordsInv, UNCHANGED <<project, records>>,
           NEW v \in project.two_phase, NEW sum \in Nat \ {0}, NEW outcome \in {"absent", "invalid", "built"},
           v \notin Met, inflight[v] = sum, v \notin project.replayable => schema[v] = "absent",
           UpEffect(v, sum, outcome)
    PROVE  /\ RecordsInv'
           /\ schema[v] # "invalid" /\ outcome = "built" => schema'[v] = "built"
<1>1. v \in Versions /\ v \in Objects /\ Builds[v] = {v}
  BY TwoPhaseFacts
<1>2. /\ NetApplied' = NetApplied /\ Sup' = Sup /\ Met' = Met /\ Objects' = Objects
      /\ JournalInv' /\ OrderInv' /\ \A w : Recorded(w)' = Recorded(w)
      /\ inflight' = inflight
  BY Still DEF RecordsInv, records
<1>3. \A o \in Objects : o # v => schema'[o] = schema[o] /\ body'[o] = body[o]
  BY <1>1 DEF UpEffect
<1>4. \/ schema[v] # "absent" /\ schema'[v] = schema[v] /\ body'[v] = body[v]
      \/ schema'[v] = outcome /\ body'[v] = <<v, sum>>
  BY <1>1 DEF UpEffect
<1>5. clobbered' = {}
  BY <1>1 DEF UpEffect, RecordsInv, SchemaInv
<1>6. SchemaInv'
  <2>1. SUFFICES ASSUME NEW o \in Objects
                 PROVE  /\ o \in NetApplied' => schema'[o] = "built" /\ body'[o] = <<o, Recorded(o)'>>
                        /\ o \in Sup' => schema'[o] = "built"
                        /\ o \notin Met' /\ inflight'[o] = 0 => schema'[o] = "absent"
                        /\ inflight'[o] # 0 /\ schema'[o] # "absent" => body'[o] = <<o, inflight'[o]>>
    BY <1>2, <1>5 DEF SchemaInv
  <2>2. CASE o = v
    BY <2>2, <1>1, <1>2, <1>4 DEF SchemaInv, RecordsInv, Met
  <2>3. CASE o # v
    BY <2>3, <1>2, <1>3 DEF SchemaInv, RecordsInv
  <2>4. QED
    BY <2>2, <2>3
<1>7. MarkerInv'
  BY <1>2 DEF MarkerInv, RecordsInv
<1>8. schema[v] # "invalid" /\ outcome = "built" => schema'[v] = "built"
  BY <1>1, <1>4 DEF Typed, StateTyped
<1>9. QED
  BY <1>2, <1>6, <1>7, <1>8 DEF RecordsInv

\* Recovery drops what an interrupted up left INVALID.
LEMMA RecordsRecovered ==
    ASSUME Typed, Orderly(project), RecordsInv, UNCHANGED <<project, records, body, clobbered>>,
           NEW v \in project.two_phase, v \notin Met, NEW had \in BOOLEAN,
           schema' = [o \in Objects |-> IF had /\ o \in Builds[v] /\ schema[o] = "invalid"
                                        THEN "absent" ELSE schema[o]]
    PROVE  /\ RecordsInv'
           /\ schema'[v] = IF had /\ schema[v] = "invalid" THEN "absent" ELSE schema[v]
<1>1. v \in Versions /\ v \in Objects /\ Builds[v] = {v}
  BY TwoPhaseFacts
<1>2. /\ NetApplied' = NetApplied /\ Sup' = Sup /\ Met' = Met /\ Objects' = Objects
      /\ JournalInv' /\ OrderInv' /\ \A w : Recorded(w)' = Recorded(w)
      /\ inflight' = inflight
  BY Still DEF RecordsInv, records
<1>3. \A o \in Objects : o # v => schema'[o] = schema[o]
  BY <1>1
<1>4. schema'[v] = IF had /\ schema[v] = "invalid" THEN "absent" ELSE schema[v]
  BY <1>1
<1>5. SchemaInv'
  <2>1. SUFFICES ASSUME NEW o \in Objects
                 PROVE  /\ o \in NetApplied' => schema'[o] = "built" /\ body'[o] = <<o, Recorded(o)'>>
                        /\ o \in Sup' => schema'[o] = "built"
                        /\ o \notin Met' /\ inflight'[o] = 0 => schema'[o] = "absent"
                        /\ inflight'[o] # 0 /\ schema'[o] # "absent" => body'[o] = <<o, inflight'[o]>>
    BY <1>2 DEF SchemaInv, RecordsInv
  <2>2. CASE o = v
    BY <2>2, <1>1, <1>2, <1>4 DEF SchemaInv, RecordsInv, Met
  <2>3. CASE o # v
    BY <2>3, <1>2, <1>3 DEF SchemaInv, RecordsInv
  <2>4. QED
    BY <2>2, <2>3
<1>6. MarkerInv'
  BY <1>2 DEF MarkerInv, RecordsInv
<1>7. QED
  BY <1>2, <1>4, <1>5, <1>6 DEF RecordsInv

\* The operator restores the shape and drops the marker.
LEMMA RecordsCleared ==
    ASSUME Typed, Orderly(project), RecordsInv, NEW v \in Versions, ClearInflight(v)
    PROVE  RecordsInv'
<1>1. /\ v \in project.two_phase /\ v \notin NetApplied
      /\ schema' = [o \in Objects |-> IF o \in Builds[v] THEN "absent" ELSE schema[o]]
      /\ inflight' = [inflight EXCEPT ![v] = 0]
      /\ UNCHANGED <<project, body, clobbered, journal, edges>>
  BY DEF ClearInflight, budgets
<1>2. v \in Objects /\ Builds[v] = {v} /\ v \notin Sup
  BY <1>1, TwoPhaseFacts
<1>3. /\ NetApplied' = NetApplied /\ Sup' = Sup /\ Met' = Met /\ Objects' = Objects
      /\ JournalInv' /\ OrderInv' /\ \A w : Recorded(w)' = Recorded(w)
  BY <1>1, Still DEF RecordsInv
<1>4. inflight'[v] = 0 /\ \A w \in Versions : w # v => inflight'[w] = inflight[w]
  BY <1>1 DEF Typed, StateTyped
<1>5. schema'[v] = "absent" /\ \A o \in Objects : o # v => schema'[o] = schema[o]
  BY <1>1, <1>2
<1>6. SchemaInv'
  <2>1. SUFFICES ASSUME NEW o \in Objects
                 PROVE  /\ o \in NetApplied' => schema'[o] = "built" /\ body'[o] = <<o, Recorded(o)'>>
                        /\ o \in Sup' => schema'[o] = "built"
                        /\ o \notin Met' /\ inflight'[o] = 0 => schema'[o] = "absent"
                        /\ inflight'[o] # 0 /\ schema'[o] # "absent" => body'[o] = <<o, inflight'[o]>>
    BY <1>1, <1>3 DEF SchemaInv, RecordsInv
  <2>2. CASE o = v
    BY <2>2, <1>1, <1>2, <1>3, <1>4, <1>5
  <2>3. CASE o # v
    <3>1. o \in Versions
      BY DEF Objects
    <3>2. QED
      BY <2>3, <3>1, <1>1, <1>3, <1>4, <1>5 DEF SchemaInv, RecordsInv
  <2>4. QED
    BY <2>2, <2>3
<1>7. MarkerInv'
  BY <1>1, <1>3, <1>4 DEF MarkerInv, RecordsInv
<1>8. QED
  BY <1>3, <1>6, <1>7 DEF RecordsInv

\* The records hold of an empty database.
LEMMA RecordsInit == Init => RecordsInv
<1> SUFFICES ASSUME Init PROVE RecordsInv
  OBVIOUS
<1>1. journal = <<>> /\ Len(journal) = 0 /\ edges = {} /\ clobbered = {}
  BY DEF Init
<1>2. \A v : Latest(v) = 0
  <2>1. \A v : {0} \cup {i \in 1..Len(journal) : journal[i].version = v} = {0}
    BY <1>1
  <2>2. Max({0}) = 0
    <3>1. {0} \in SUBSET (0..0) /\ {0} # {} /\ 0 \in Nat
      OBVIOUS
    <3>2. QED
      BY <3>1, GreatestOf
  <2>3. QED
    BY <2>1, <2>2 DEF Latest
<1>3. NetApplied = {} /\ Sup = {} /\ Met = {}
  BY <1>2 DEF NetApplied, Sup, Met
<1>4. JournalInv /\ OrderInv
  BY <1>1, <1>3 DEF JournalInv, OrderInv
<1>5. MarkerInv /\ SchemaInv
  BY <1>1, <1>3 DEF MarkerInv, SchemaInv, Init, Objects
<1>6. QED
  BY <1>4, <1>5 DEF RecordsInv

-----------------------------------------------------------------------------
(* What an operation owes: where it stands between its plan and its end.   *)

Before == {"idle", "waiting", "dropping", "settling", "planning"}

\* v is where the deploy wants it.
LandedIn(d, v) ==
    \/ v \in work[d].skipped
    \/ v \in Sup
    \/ v \in NetApplied /\ Recorded(v) = work[d].files[v]

\* What is to run is not there yet, nor is anything it would supersede.
Pending(d) == \A i \in 1..Len(work[d].todo) :
    /\ work[d].todo[i] \in Batch(d) \ project.repeatable /\ work[d].todo[i] \notin Met
    /\ project.supersedes[work[d].todo[i]] \cap Met = {}

\* Nothing to run is under a squash to run, and no two squashes overlap.
Apart(d) == \A i, j \in 1..Len(work[d].todo) :
    /\ work[d].todo[j] \notin project.supersedes[work[d].todo[i]]
    /\ i # j => project.supersedes[work[d].todo[i]] \cap project.supersedes[work[d].todo[j]] = {}

\* Dependencies are met, were skipped, or run earlier, under a squash or not.
Grounded(d) == \A i \in 1..Len(work[d].todo) : \A u \in project.depends_on[work[d].todo[i]] :
    \/ u \in Met \cup work[d].skipped
    \/ \E j \in 1..(i - 1) : u = work[d].todo[j] \/ u \in project.supersedes[work[d].todo[j]]

\* The markers read when the plan was made are still the ones there are, but
\* for the one of the version under way.
Marked(d) == \A i \in 1..Len(work[d].todo) :
    work[d].at = "running" \/ i > 1 => work[d].started[work[d].todo[i]] = inflight[work[d].todo[i]]

\* What was supplied has landed or is still to run, under a squash or not.
Accounted(d) == \A v \in Batch(d) \ project.repeatable :
    \/ LandedIn(d, v)
    \/ \E i \in 1..Len(work[d].todo) : v = work[d].todo[i] \/ v \in project.supersedes[work[d].todo[i]]

\* What half ran is still to run.
HalfRun(d) == \A v \in Batch(d) : inflight[v] # 0 => \E i \in 1..Len(work[d].todo) : v = work[d].todo[i]

VersionedDuty(d) ==
    /\ Distinct(work[d].todo) /\ work[d].skipped \subseteq Skippable(project)
    /\ Pending(d) /\ Apart(d) /\ Grounded(d) /\ Marked(d) /\ Accounted(d) /\ HalfRun(d)

\* A two-phase version between its recovery and its completed row.
ArmedDuty(d) ==
    /\ work[d].stage = "versioned"
    /\ Current(d) \in project.two_phase /\ project.depends_on[Current(d)] \subseteq Met
    /\ work[d].at = "arming" =>
          /\ inflight[Current(d)] \in {0, work[d].files[Current(d)]} /\ schema[Current(d)] # "invalid"
          /\ inflight[Current(d)] # 0 => Current(d) \in project.replayable
    /\ work[d].at = "up" =>
          /\ inflight[Current(d)] = work[d].files[Current(d)] /\ schema[Current(d)] # "invalid"
          /\ Current(d) \notin project.replayable => schema[Current(d)] = "absent"
    /\ work[d].at = "finalizing" =>
          inflight[Current(d)] = work[d].files[Current(d)] /\ schema[Current(d)] = "built"

RepeatableDuty(d) ==
    /\ Distinct(work[d].todo)
    /\ \A i \in 1..Len(work[d].todo) :
        /\ work[d].todo[i] \in Batch(d) \cap project.repeatable
        /\ \A u \in project.depends_on[work[d].todo[i]] :
              u \in Met \/ \E j \in 1..(i - 1) : u = work[d].todo[j]
    /\ \A v \in Batch(d) :
          inflight[v] = 0 /\ (LandedIn(d, v) \/ \E i \in 1..Len(work[d].todo) : v = work[d].todo[i])

\* What is to be undone is applied, under no squash, and its dependents go first.
RollbackDuty(d) ==
    /\ Distinct(work[d].todo)
    /\ \A i \in 1..Len(work[d].todo) :
        /\ work[d].todo[i] \in (Batch(d) \cap NetApplied \cap project.reversible) \ (project.two_phase \cup Sup)
        /\ \A x \in NetApplied : work[d].todo[i] \in project.depends_on[x] =>
              \E j \in 1..(i - 1) : x = work[d].todo[j]

\* What holds of a session whoever has the lock.
PlainDuty(d) ==
    /\ work[d].at \in Before => work[d].todo = <<>> /\ work[d].skipped = {}
    /\ work[d].op = "squash" => \A s \in Batch(d) : project.supersedes[s] # {}
    /\ work[d].result # "missing object"

\* What holds of the one that has it.
DeepDuty(d) ==
    /\ work[d].at \in Inner /\ work[d].op = "apply" /\ work[d].stage = "versioned" => VersionedDuty(d)
    /\ work[d].at \in Inner \ {"running"} => ArmedDuty(d)
    /\ work[d].at = "running" /\ work[d].op = "apply" /\ work[d].stage = "repeatable" => RepeatableDuty(d)
    /\ work[d].at = "running" /\ work[d].op = "rollback" => RollbackDuty(d)
    /\ work[d].at = "restoring" /\ work[d].op = "apply" /\ work[d].result = "ok" =>
          \A v \in Batch(d) : inflight[v] = 0 /\ LandedIn(d, v)

DutyInv == \A d \in Deployers : PlainDuty(d) /\ DeepDuty(d)

\* What may be passed over is closed under dependents.
LEMMA SkippableFacts ==
    /\ project.conditional \cap Versions \subseteq Skippable(project)
    /\ \A v \in Versions : project.depends_on[v] \cap Skippable(project) # {} => v \in Skippable(project)
<1> DEFINE Closed(S) == /\ project.conditional \subseteq S
                        /\ \A w \in Versions : project.depends_on[w] \cap S # {} => w \in S
<1>1. Skippable(project) = {v \in Versions : \A S \in SUBSET Versions : Closed(S) => v \in S}
  BY DEF Skippable
<1> HIDE DEF Skippable
<1>2. ASSUME NEW v \in Versions, project.depends_on[v] \cap Skippable(project) # {}
      PROVE  v \in Skippable(project)
  <2>1. PICK u \in project.depends_on[v] : u \in Skippable(project)
    BY <1>2
  <2>2. ASSUME NEW S \in SUBSET Versions, Closed(S) PROVE v \in S
    <3>1. u \in S
      BY <1>1, <2>1, <2>2
    <3>2. QED
      BY <2>1, <2>2, <3>1
  <2>3. QED
    BY <1>1, <2>2
<1>3. project.conditional \cap Versions \subseteq Skippable(project)
  BY <1>1
<1>4. QED
  BY <1>2, <1>3

\* The rest of a sequence, entry by entry.
LEMMA TailFacts ==
    ASSUME NEW q \in Seq(Versions), q # <<>>
    PROVE  /\ Tail(q) \in Seq(Versions) /\ Len(Tail(q)) = Len(q) - 1 /\ Head(q) = q[1]
           /\ \A i \in 1..Len(Tail(q)) : i + 1 \in 1..Len(q) /\ Tail(q)[i] = q[i + 1]
           /\ \A i \in 1..Len(q) : i # 1 => i - 1 \in 1..Len(Tail(q)) /\ Tail(q)[i - 1] = q[i]
           /\ Distinct(q) => /\ Distinct(Tail(q))
                             /\ \A i \in 1..Len(Tail(q)) : Tail(q)[i] # q[1]
<1>1. /\ Tail(q) \in Seq(Versions) /\ Len(Tail(q)) = Len(q) - 1 /\ Head(q) = q[1]
      /\ \A i \in 1..Len(Tail(q)) : i + 1 \in 1..Len(q) /\ Tail(q)[i] = q[i + 1]
  OBVIOUS
<1>2. Len(q) \in Nat /\ Len(q) > 0
  OBVIOUS
<1>3. \A i \in 1..Len(q) : i # 1 => i - 1 \in 1..Len(Tail(q)) /\ Tail(q)[i - 1] = q[i]
  <2>1. TAKE i \in 1..Len(q)
  <2>2. i # 1 => i - 1 \in 1..Len(Tail(q)) /\ (i - 1) + 1 = i
    BY <1>1, <1>2
  <2>3. QED
    BY <1>1, <2>2
<1> DEFINE t == Tail(q)
<1>4. Len(t) = Len(q) - 1 /\ \A i \in 1..Len(t) : i + 1 \in 1..Len(q) /\ t[i] = q[i + 1]
  BY <1>1
<1> HIDE DEF t
<1>5. ASSUME Distinct(q) PROVE Distinct(t) /\ \A i \in 1..Len(t) : t[i] # q[1]
  BY <1>2, <1>4, <1>5 DEF Distinct
<1>6. QED
  BY <1>1, <1>3, <1>5 DEF t

\* The state is as it was for whoever did not move.
LEMMA DutyStill ==
    ASSUME UNCHANGED <<project, built, records>>, NEW e \in Deployers, work'[e] = work[e],
           PlainDuty(e), DeepDuty(e)
    PROVE  PlainDuty(e)' /\ DeepDuty(e)'
<1>1. UNCHANGED <<project, journal, edges, inflight, schema, body, clobbered>>
  BY DEF built, records
<1>2. NetApplied' = NetApplied /\ Sup' = Sup /\ Met' = Met /\ \A v : Recorded(v)' = Recorded(v)
  BY <1>1, Still
<1>3. Batch(e)' = Batch(e) /\ Current(e)' = Current(e)
  BY DEF Batch, Current
<1>4. \A v : LandedIn(e, v)' <=> LandedIn(e, v)
  BY <1>2 DEF LandedIn
<1>5. PlainDuty(e)'
  BY <1>1, <1>3 DEF PlainDuty
<1>6. Skippable(project)' = Skippable(project)
  BY <1>1 DEF Skippable
<1>7. VersionedDuty(e) => VersionedDuty(e)'
  <2>1. Pending(e) => Pending(e)'
    BY <1>1, <1>2, <1>3 DEF Pending
  <2>2. Apart(e) => Apart(e)'
    BY <1>1 DEF Apart
  <2>3. Grounded(e) => Grounded(e)'
    BY <1>1, <1>2 DEF Grounded
  <2>4. Marked(e) => Marked(e)'
    BY <1>1 DEF Marked
  <2>5. Accounted(e) => Accounted(e)'
    BY <1>1, <1>3, <1>4 DEF Accounted
  <2>6. HalfRun(e) => HalfRun(e)'
    BY <1>1, <1>3 DEF HalfRun
  <2>7. QED
    BY <2>1, <2>2, <2>3, <2>4, <2>5, <2>6, <1>6 DEF VersionedDuty, Distinct
<1>8. ArmedDuty(e) => ArmedDuty(e)'
  BY <1>1, <1>2, <1>3 DEF ArmedDuty
<1>9. RepeatableDuty(e) => RepeatableDuty(e)'
  BY <1>1, <1>2, <1>3, <1>4 DEF RepeatableDuty, Distinct
<1>10. RollbackDuty(e) => RollbackDuty(e)'
  BY <1>1, <1>2, <1>3 DEF RollbackDuty, Distinct
<1>11. DeepDuty(e)'
  BY <1>1, <1>3, <1>4, <1>7, <1>8, <1>9, <1>10 DEF DeepDuty
<1>12. QED
  BY <1>5, <1>11

\* A step that writes nothing but the operation of d.
LEMMA DutyQuiet ==
    ASSUME DutyInv, UNCHANGED <<project, built, records>>, NEW d \in Deployers, Alone(d),
           PlainDuty(d)', DeepDuty(d)'
    PROVE  DutyInv'
<1>1. SUFFICES ASSUME NEW e \in Deployers, e # d PROVE PlainDuty(e)' /\ DeepDuty(e)'
  BY DEF DutyInv
<1>2. QED
  BY <1>1, DutyStill DEF DutyInv, Alone

\* A step of the one that holds the lock: nobody else is inside.
LEMMA DutyLocked ==
    ASSUME BracketInv, DutyInv, project' = project, NEW d \in Deployers, Alone(d), lock = d,
           PlainDuty(d)', DeepDuty(d)'
    PROVE  DutyInv'
<1>1. SUFFICES ASSUME NEW e \in Deployers, e # d PROVE PlainDuty(e)' /\ DeepDuty(e)'
  BY DEF DutyInv
<1>2. work'[e] = work[e] /\ PlainDuty(e) /\ lock # e
  BY <1>1 DEF DutyInv, Alone
<1>3. work[e].at \notin Inner \cup {"restoring"}
  BY <1>2 DEF BracketInv, BracketOf
<1>4. DeepDuty(e)'
  BY <1>2, <1>3 DEF DeepDuty, Inner
<1>5. PlainDuty(e)'
  BY <1>2 DEF PlainDuty, Batch
<1>6. QED
  BY <1>4, <1>5

\* An operation that turns to a place outside owes nothing more, unless it
\* ended well.
LEMMA TurnedOut ==
    ASSUME NEW d \in Deployers, NEW a, NEW r, NEW t, Turned(d, a, r, t), project' = project,
           PlainDuty(d), r # "missing object", a \in Before => work[d].at \in Before,
           a \notin Inner, a = "restoring" /\ work[d].op = "apply" => r # "ok"
    PROVE  PlainDuty(d)' /\ DeepDuty(d)'
<1>1. /\ work'[d].at = a /\ work'[d].result = r /\ work'[d].todo = work[d].todo
      /\ work'[d].skipped = work[d].skipped /\ work'[d].op = work[d].op /\ work'[d].files = work[d].files
  BY DEF Turned, SamePlan
<1>2. PlainDuty(d)'
  BY <1>1 DEF PlainDuty, Batch
<1>3. DeepDuty(d)'
  BY <1>1 DEF DeepDuty, Inner
<1>4. QED
  BY <1>2, <1>3

\* Within the versioned phase nothing changes but the marker of the version
\* under way.
LEMMA VersionedStays ==
    ASSUME Typed, NEW d \in Deployers, NEW a, NEW r, NEW t, Turned(d, a, r, t), a # "running",
           work[d].todo # <<>>, VersionedDuty(d), UNCHANGED <<project, journal>>,
           \A w \in Versions : w # Current(d) => inflight'[w] = inflight[w]
    PROVE  VersionedDuty(d)'
<1>1. /\ work'[d].at = a /\ work'[d].todo = work[d].todo /\ work'[d].skipped = work[d].skipped
      /\ work'[d].files = work[d].files /\ work'[d].started = work[d].started
  BY DEF Turned, SamePlan
<1>2. NetApplied' = NetApplied /\ Sup' = Sup /\ Met' = Met /\ \A v : Recorded(v)' = Recorded(v)
  BY Still
<1>3. Batch(d)' = Batch(d) /\ Batch(d) \subseteq Versions
  BY <1>1 DEF Batch, Typed, WorkTyped, Operations, Files
<1>4. \A v : LandedIn(d, v)' <=> LandedIn(d, v)
  BY <1>1, <1>2 DEF LandedIn
<1>5. Skippable(project)' = Skippable(project)
  BY DEF Skippable
<1>6. Pending(d)' /\ Apart(d)' /\ Grounded(d)' /\ Accounted(d)'
  <2>1. Pending(d)'
    BY <1>1, <1>2, <1>3 DEF Pending, VersionedDuty
  <2>2. Apart(d)'
    BY <1>1 DEF Apart, VersionedDuty
  <2>3. Grounded(d)'
    BY <1>1, <1>2 DEF Grounded, VersionedDuty
  <2>4. Accounted(d)'
    BY <1>1, <1>3, <1>4 DEF Accounted, VersionedDuty
  <2>5. QED
    BY <2>1, <2>2, <2>3, <2>4
<1>7. Current(d) = work[d].todo[1] /\ 1 \in 1..Len(work[d].todo)
  BY RunningTyped
<1>8. Marked(d)'
  <2>1. SUFFICES ASSUME NEW i \in 1..Len(work[d].todo), i > 1
                 PROVE  work[d].started[work[d].todo[i]] = inflight'[work[d].todo[i]]
    BY <1>1 DEF Marked
  <2>2. work[d].todo[i] # Current(d) /\ work[d].todo[i] \in Versions
    BY <2>1, <1>7 DEF VersionedDuty, Distinct, Typed, WorkTyped, Operations
  <2>3. QED
    BY <2>1, <2>2 DEF VersionedDuty, Marked
<1>9. HalfRun(d)'
  <2>1. SUFFICES ASSUME NEW v \in Batch(d), inflight'[v] # 0
                 PROVE  \E i \in 1..Len(work[d].todo) : v = work[d].todo[i]
    BY <1>1, <1>3 DEF HalfRun
  <2>2. CASE v = Current(d)
    BY <2>2, <1>7
  <2>3. CASE v # Current(d)
    BY <2>1, <2>3, <1>3 DEF VersionedDuty, HalfRun
  <2>4. QED
    BY <2>2, <2>3
<1>10. QED
  BY <1>1, <1>5, <1>6, <1>8, <1>9 DEF VersionedDuty

\* The version under way is through: applied with what it supersedes, or skipped.
LEMMA VersionedAdvances ==
    ASSUME Typed, NEW d \in Deployers, NEW more, Advanced(d, more), work[d].todo # <<>>,
           VersionedDuty(d), project' = project, more \subseteq Skippable(project),
           Met \subseteq Met', Met' \subseteq Met \cup {Current(d)} \cup project.supersedes[Current(d)],
           \A v \in {Current(d)} \cup project.supersedes[Current(d)] :
               v \in Met' \cup work'[d].skipped /\ LandedIn(d, v)',
           \A v \in Batch(d) : LandedIn(d, v) => LandedIn(d, v)',
           \A w \in Versions : w # Current(d) => inflight'[w] = inflight[w],
           inflight'[Current(d)] = 0
    PROVE  VersionedDuty(d)'
<1> DEFINE q == work[d].todo
           t == work'[d].todo
           c == Current(d)
<1>1. /\ work'[d].at = "running" /\ t = Tail(q) /\ work'[d].skipped = work[d].skipped \cup more
      /\ work'[d].files = work[d].files /\ work'[d].started = work[d].started
  BY DEF Advanced
<1>2. q \in Seq(Versions)
  BY DEF Typed, WorkTyped, Operations
<1>3. /\ Len(t) = Len(q) - 1 /\ c = q[1]
      /\ \A i \in 1..Len(t) : i + 1 \in 1..Len(q) /\ t[i] = q[i + 1]
      /\ \A i \in 1..Len(q) : i # 1 => i - 1 \in 1..Len(t) /\ t[i - 1] = q[i]
      /\ Distinct(t) /\ \A i \in 1..Len(t) : t[i] # c /\ t[i] \in Versions
  BY <1>1, <1>2, TailFacts DEF VersionedDuty, Current
<1>4. 1 \in 1..Len(q) /\ Len(q) \in Nat
  BY <1>2, RunningTyped
<1>5. Batch(d)' = Batch(d) /\ Batch(d) \subseteq Versions
  BY <1>1 DEF Batch, Typed, WorkTyped, Operations, Files
<1>6. Skippable(project)' = Skippable(project)
  BY DEF Skippable
<1> HIDE DEF t, c
<1>7. Pending(d)'
  <2>1. SUFFICES ASSUME NEW i \in 1..Len(t)
                 PROVE  /\ t[i] \in Batch(d) \ project.repeatable /\ t[i] \notin Met'
                        /\ project.supersedes[t[i]] \cap Met' = {}
    BY <1>5 DEF Pending, t
  <2>2. i + 1 \in 1..Len(q) /\ t[i] = q[i + 1] /\ i + 1 # 1 /\ t[i] # c
    BY <1>3
  <2>3. /\ t[i] \in Batch(d) \ project.repeatable /\ t[i] \notin Met
        /\ project.supersedes[t[i]] \cap Met = {}
    BY <2>2 DEF VersionedDuty, Pending
  <2>4. /\ t[i] \notin project.supersedes[c] /\ c \notin project.supersedes[t[i]]
        /\ project.supersedes[t[i]] \cap project.supersedes[c] = {}
    BY <2>2, <1>3, <1>4 DEF VersionedDuty, Apart
  <2>5. QED
    BY <2>2, <2>3, <2>4 DEF c
<1>8. Apart(d)'
  <2>1. SUFFICES ASSUME NEW i \in 1..Len(t), NEW j \in 1..Len(t)
                 PROVE  /\ t[j] \notin project.supersedes[t[i]]
                        /\ i # j => project.supersedes[t[i]] \cap project.supersedes[t[j]] = {}
    BY DEF Apart, t
  <2>2. /\ i + 1 \in 1..Len(q) /\ t[i] = q[i + 1] /\ j + 1 \in 1..Len(q) /\ t[j] = q[j + 1]
        /\ i # j => i + 1 # j + 1
    BY <1>3
  <2>3. QED
    BY <2>2 DEF VersionedDuty, Apart
<1>9. Grounded(d)'
  <2>1. SUFFICES ASSUME NEW i \in 1..Len(t), NEW u \in project.depends_on[t[i]]
                 PROVE  \/ u \in Met' \cup work'[d].skipped
                        \/ \E j \in 1..(i - 1) : u = t[j] \/ u \in project.supersedes[t[j]]
    BY DEF Grounded, t
  <2>2. i + 1 \in 1..Len(q) /\ t[i] = q[i + 1]
    BY <1>3
  <2>3. CASE u \in Met \cup work[d].skipped
    BY <2>3, <1>1
  <2>4. CASE \E j \in 1..((i + 1) - 1) : u = q[j] \/ u \in project.supersedes[q[j]]
    <3>1. PICK j \in 1..i : u = q[j] \/ u \in project.supersedes[q[j]]
      BY <2>4
    <3>2. CASE j = 1
      BY <3>1, <3>2, <1>3 DEF c
    <3>3. CASE j # 1
      <4>1. j \in 1..Len(q) /\ j - 1 \in 1..(i - 1)
        BY <3>3, <2>1, <2>2, <1>3, <1>4
      <4>2. t[j - 1] = q[j]
        BY <4>1, <3>3, <1>3
      <4>3. QED
        BY <4>1, <4>2, <3>1
    <3>4. QED
      BY <3>2, <3>3
  <2>5. QED
    BY <2>1, <2>2, <2>3, <2>4 DEF VersionedDuty, Grounded
<1>10. Marked(d)'
  <2>1. SUFFICES ASSUME NEW i \in 1..Len(t) PROVE work[d].started[t[i]] = inflight'[t[i]]
    BY <1>1 DEF Marked, t
  <2>2. i + 1 \in 1..Len(q) /\ t[i] = q[i + 1] /\ i + 1 > 1 /\ t[i] # c /\ t[i] \in Versions
    BY <1>3
  <2>3. QED
    BY <2>2 DEF VersionedDuty, Marked, c
<1>11. Accounted(d)'
  <2>1. SUFFICES ASSUME NEW v \in Batch(d) \ project.repeatable
                 PROVE  \/ LandedIn(d, v)'
                        \/ \E i \in 1..Len(t) : v = t[i] \/ v \in project.supersedes[t[i]]
    BY <1>5 DEF Accounted, t
  <2>2. CASE LandedIn(d, v)
    BY <2>1, <2>2
  <2>3. CASE \E i \in 1..Len(q) : v = q[i] \/ v \in project.supersedes[q[i]]
    <3>1. PICK i \in 1..Len(q) : v = q[i] \/ v \in project.supersedes[q[i]]
      BY <2>3
    <3>2. CASE i = 1
      BY <3>1, <3>2, <1>3 DEF c
    <3>3. CASE i # 1
      <4>1. i - 1 \in 1..Len(t) /\ t[i - 1] = q[i]
        BY <3>3, <1>3
      <4>2. QED
        BY <3>1, <4>1
    <3>4. QED
      BY <3>2, <3>3
  <2>4. QED
    BY <2>1, <2>2, <2>3 DEF VersionedDuty, Accounted
<1>12. HalfRun(d)'
  <2>1. SUFFICES ASSUME NEW v \in Batch(d), inflight'[v] # 0 PROVE \E i \in 1..Len(t) : v = t[i]
    BY <1>5 DEF HalfRun, t
  <2>2. v # c /\ inflight[v] # 0
    BY <2>1, <1>5 DEF c
  <2>3. PICK i \in 1..Len(q) : v = q[i]
    BY <2>2 DEF VersionedDuty, HalfRun
  <2>4. i # 1
    BY <2>2, <2>3, <1>3
  <2>5. QED
    BY <2>3, <2>4, <1>3
<1>13. work'[d].skipped \subseteq Skippable(project)'
  BY <1>1, <1>6 DEF VersionedDuty
<1>14. QED
  BY <1>3, <1>7, <1>8, <1>9, <1>10, <1>11, <1>12, <1>13 DEF VersionedDuty, t

\* The same for the repeatables.
LEMMA RepeatableAdvances ==
    ASSUME Typed, NEW d \in Deployers, NEW more, Advanced(d, more), work[d].todo # <<>>,
           RepeatableDuty(d), UNCHANGED <<project, inflight>>, Met \subseteq Met',
           \A v \in {Current(d)} : LandedIn(d, v)',
           \A v \in Batch(d) : LandedIn(d, v) => LandedIn(d, v)',
           \A i \in 1..Len(work[d].todo) : Current(d) \in project.depends_on[work[d].todo[i]]
               => Current(d) \in Met'
    PROVE  RepeatableDuty(d)'
<1> DEFINE q == work[d].todo
           t == work'[d].todo
           c == Current(d)
<1>1. t = Tail(q) /\ work'[d].files = work[d].files
  BY DEF Advanced
<1>2. q \in Seq(Versions)
  BY DEF Typed, WorkTyped, Operations
<1>3. /\ Len(t) = Len(q) - 1 /\ c = q[1]
      /\ \A i \in 1..Len(t) : i + 1 \in 1..Len(q) /\ t[i] = q[i + 1]
      /\ \A i \in 1..Len(q) : i # 1 => i - 1 \in 1..Len(t) /\ t[i - 1] = q[i]
      /\ Distinct(t)
  BY <1>1, <1>2, TailFacts DEF RepeatableDuty, Current
<1>4. Batch(d)' = Batch(d) /\ Len(q) \in Nat
  BY <1>1, <1>2 DEF Batch
<1> HIDE DEF t, c
<1>5. ASSUME NEW i \in 1..Len(t)
      PROVE  /\ t[i] \in Batch(d) \cap project.repeatable
             /\ \A u \in project.depends_on[t[i]] : u \in Met' \/ \E j \in 1..(i - 1) : u = t[j]
  <2>1. PICK k \in 1..Len(q) : k = i + 1 /\ t[i] = q[k]
    BY <1>3
  <2>2. /\ t[i] \in Batch(d) \cap project.repeatable
        /\ \A u \in project.depends_on[t[i]] : u \in Met \/ \E j \in 1..(k - 1) : u = q[j]
    BY <2>1 DEF RepeatableDuty
  <2>3. ASSUME NEW u \in project.depends_on[t[i]], u \notin Met'
        PROVE  \E j \in 1..(i - 1) : u = t[j]
    <3>1. PICK j \in 1..i : u = q[j]
      BY <2>1, <2>2, <2>3
    <3>2. j # 1
      BY <2>1, <2>3, <3>1, <1>3 DEF c
    <3>3. j \in 1..Len(q) /\ j - 1 \in 1..(i - 1)
      BY <3>1, <3>2, <1>3, <1>4, <1>5
    <3>4. t[j - 1] = q[j]
      BY <3>2, <3>3, <1>3
    <3>5. QED
      BY <3>1, <3>3, <3>4
  <2>4. QED
    BY <2>2, <2>3
<1>6. ASSUME NEW v \in Batch(d)
      PROVE  inflight'[v] = 0 /\ (LandedIn(d, v)' \/ \E i \in 1..Len(t) : v = t[i])
  <2>1. inflight'[v] = 0
    BY <1>6 DEF RepeatableDuty
  <2>2. CASE LandedIn(d, v)
    BY <2>1, <2>2, <1>6
  <2>3. CASE \E i \in 1..Len(q) : v = q[i]
    <3>1. PICK i \in 1..Len(q) : v = q[i]
      BY <2>3
    <3>2. CASE i = 1
      BY <2>1, <3>1, <3>2, <1>3 DEF c
    <3>3. CASE i # 1
      <4>1. i - 1 \in 1..Len(t) /\ t[i - 1] = q[i]
        BY <3>3, <1>3
      <4>2. QED
        BY <2>1, <3>1, <4>1
    <3>4. QED
      BY <3>2, <3>3
  <2>4. QED
    BY <2>2, <2>3, <1>6 DEF RepeatableDuty
<1>7. QED
  BY <1>3, <1>4, <1>5, <1>6 DEF RepeatableDuty, t

\* The same for a rollback.
LEMMA RollbackAdvances ==
    ASSUME Typed, NEW d \in Deployers, Advanced(d, {}), work[d].todo # <<>>, RollbackDuty(d),
           project' = project, NetApplied' = NetApplied \ {Current(d)}, Sup' = Sup
    PROVE  RollbackDuty(d)'
<1> DEFINE q == work[d].todo
           t == work'[d].todo
           c == Current(d)
<1>1. t = Tail(q) /\ work'[d].files = work[d].files
  BY DEF Advanced
<1>2. q \in Seq(Versions)
  BY DEF Typed, WorkTyped, Operations
<1>3. /\ Len(t) = Len(q) - 1 /\ c = q[1]
      /\ \A i \in 1..Len(t) : i + 1 \in 1..Len(q) /\ t[i] = q[i + 1] /\ t[i] # c
      /\ \A i \in 1..Len(q) : i # 1 => i - 1 \in 1..Len(t) /\ t[i - 1] = q[i]
      /\ Distinct(t)
  BY <1>1, <1>2, TailFacts DEF RollbackDuty, Current
<1>4. Batch(d)' = Batch(d) /\ Len(q) \in Nat
  BY <1>1, <1>2 DEF Batch
<1> HIDE DEF t, c
<1>5. ASSUME NEW i \in 1..Len(t)
      PROVE  /\ t[i] \in (Batch(d) \cap NetApplied' \cap project.reversible) \ (project.two_phase \cup Sup')
             /\ \A x \in NetApplied' : t[i] \in project.depends_on[x] => \E j \in 1..(i - 1) : x = t[j]
  <2>1. PICK k \in 1..Len(q) : k = i + 1 /\ t[i] = q[k] /\ t[i] # c
    BY <1>3
  <2>2. /\ t[i] \in (Batch(d) \cap NetApplied \cap project.reversible) \ (project.two_phase \cup Sup)
        /\ \A x \in NetApplied : t[i] \in project.depends_on[x] => \E j \in 1..(k - 1) : x = q[j]
    BY <2>1 DEF RollbackDuty
  <2>3. ASSUME NEW x \in NetApplied', t[i] \in project.depends_on[x]
        PROVE  \E j \in 1..(i - 1) : x = t[j]
    <3>1. x \in NetApplied /\ x # c
      BY <2>3 DEF c
    <3>2. PICK j \in 1..i : x = q[j]
      BY <2>1, <2>2, <2>3, <3>1
    <3>3. j # 1
      BY <3>1, <3>2, <1>3
    <3>4. j \in 1..Len(q) /\ j - 1 \in 1..(i - 1)
      BY <3>2, <3>3, <1>3, <1>4, <1>5
    <3>5. t[j - 1] = q[j]
      BY <3>3, <3>4, <1>3
    <3>6. QED
      BY <3>2, <3>4, <3>5
  <2>4. QED
    BY <2>1, <2>2, <2>3 DEF c
<1>6. QED
  BY <1>3, <1>4, <1>5 DEF RollbackDuty, t

\* The order of the pending versions is a duty one can meet.
LEMMA PlanDuty ==
    ASSUME Typed, Orderly(project), RecordsInv, NEW d \in Deployers,
           work[d].skipped = {}, UNCHANGED <<project, built, records>>,
           ~ Drifted(work[d].files), ~ SquashRefused(Batch(d) \ project.repeatable),
           ~ Dangling(Batch(d) \ project.repeatable),
           Planned(d, "versioned", TopoOrder[PendingOf(Batch(d) \ project.repeatable)], Started)
    PROVE  VersionedDuty(d)'
<1> DEFINE batch == Batch(d) \ project.repeatable
           P == PendingOf(batch)
           q == TopoOrder[P]
<1>1. /\ work'[d].at = "running" /\ work'[d].todo = q /\ work'[d].skipped = {}
      /\ work'[d].files = work[d].files /\ work'[d].started = Started
  BY DEF Planned
<1>2. /\ NetApplied' = NetApplied /\ Sup' = Sup /\ Met' = Met /\ \A v : Recorded(v)' = Recorded(v)
      /\ inflight' = inflight
  BY Still DEF records
<1>3. Batch(d)' = Batch(d) /\ Batch(d) \subseteq Versions
  BY <1>1 DEF Batch, Typed, WorkTyped, Operations, Files
<1>4. superseded_versions = Sup /\ Satisfied = Met /\ Met = NetApplied \cup Sup
  BY ReadersFacts DEF RecordsInv, Met
<1>5. /\ project.supersedes \in [Versions -> SUBSET Versions]
      /\ project.depends_on \in [Versions -> SUBSET Versions]
  BY ProjectTyped DEF Typed, StateTyped
<1>6. batch \subseteq Versions /\ batch \subseteq Batch(d) /\ batch \cap project.repeatable = {}
  BY <1>3
<1>7. \A v : v \in P <=> /\ v \in batch /\ v \notin Met /\ v \notin project.repeatable
                         /\ \A s \in batch : v \notin project.supersedes[s]
  BY <1>4 DEF PendingOf, Covered
<1>8. ASSUME NEW s \in batch, project.supersedes[s] # {}, s \notin NetApplied PROVE s \in P
  <2>1. s \in Versions /\ s \notin Sup /\ \A r \in batch : s \notin project.supersedes[r]
    BY <1>6, <1>8, SquashOnTop, OrderlySquash
  <2>2. QED
    BY <2>1, <1>4, <1>6, <1>7, <1>8
<1>9. \A s \in P : project.supersedes[s] # {} => s \in PendingSquashes(batch)
  BY <1>4, <1>7 DEF PendingSquashes
<1>10. \A s \in P : project.supersedes[s] \cap Met = {}
  BY <1>4, <1>9 DEF SquashRefused
<1>11. \A s, t \in P : s # t => project.supersedes[s] \cap project.supersedes[t] = {}
  BY <1>9 DEF SquashRefused
<1>12. \A v \in P : \A u \in project.depends_on[v] :
         u \in P \/ u \in Met \/ \E s \in batch : u \in project.supersedes[s]
  <2>1. \A v \in P : project.depends_on[v] \subseteq P \cup NetApplied \cup Covered(batch)
    BY DEF Dangling
  <2>2. \A u \in Covered(batch) : u \in Sup \/ \E s \in batch : u \in project.supersedes[s]
    BY <1>4 DEF Covered
  <2> HIDE DEF P, batch
  <2>3. QED
    BY <2>1, <2>2, <1>4
<1>13. P \in SUBSET Versions
  BY <1>6, <1>7
<1>14. Ordered(P) /\ Len(q) = Cardinality(P)
  BY <1>13, TopoFacts DEF Dangling
<1> HIDE DEF P
<1>15. q \in Seq(P) /\ Distinct(q) /\ \A v \in P : \E i \in 1..Len(q) : v = q[i]
  BY <1>14 DEF Ordered
<1>16. ASSUME NEW i \in 1..Len(q), NEW u \in project.depends_on[q[i]] \cap P
       PROVE  \E j \in 1..(i - 1) : u = q[j]
  BY <1>14 DEF Ordered
<1>17. ASSUME NEW i \in 1..Len(q), NEW s \in P, project.depends_on[s] = {}, s < q[i]
       PROVE  \E j \in 1..(i - 1) : s = q[j]
  <2>1. project.depends_on[s] \cap P = {}
    BY <1>17
  <2>2. QED
    BY <2>1, <1>14, <1>17 DEF Ordered
<1> HIDE DEF q
<1>18. \A i \in 1..Len(q) : q[i] \in P
  BY <1>15
<1>19. Pending(d)'
  BY <1>1, <1>2, <1>3, <1>6, <1>7, <1>10, <1>18 DEF Pending
<1>20. Apart(d)'
  <2>1. SUFFICES ASSUME NEW i \in 1..Len(q), NEW j \in 1..Len(q)
                 PROVE  /\ q[j] \notin project.supersedes[q[i]]
                        /\ i # j => project.supersedes[q[i]] \cap project.supersedes[q[j]] = {}
    BY <1>1 DEF Apart
  <2>2. q[i] \in P /\ q[j] \in P /\ (i # j => q[i] # q[j])
    BY <1>15, <1>18 DEF Distinct
  <2>3. q[j] \notin project.supersedes[q[i]]
    BY <2>2, <1>7
  <2>4. QED
    BY <2>2, <2>3, <1>11
<1>21. Grounded(d)'
  <2>1. SUFFICES ASSUME NEW i \in 1..Len(q), NEW u \in project.depends_on[q[i]], u \notin Met
                 PROVE  \E j \in 1..(i - 1) : u = q[j] \/ u \in project.supersedes[q[j]]
    BY <1>1, <1>2 DEF Grounded
  <2>2. q[i] \in P /\ q[i] \in Versions \ project.repeatable
    BY <1>6, <1>7, <1>18
  <2>3. CASE u \in P
    BY <1>16, <2>1, <2>3
  <2>4. CASE \E s \in batch : u \in project.supersedes[s]
    <3>1. PICK s \in batch : u \in project.supersedes[s]
      BY <2>4
    <3>2. s \notin NetApplied
      BY <2>1, <3>1, <1>4, <1>5, <1>6 DEF Sup
    <3>3. s \in P /\ s \in Versions
      BY <3>1, <3>2, <1>6, <1>8
    <3>4. project.depends_on[s] = {} /\ s < q[i]
      BY <2>1, <2>2, <3>1, <3>3, OrderlySquash
    <3>5. PICK j \in 1..(i - 1) : s = q[j]
      BY <3>3, <3>4, <1>17
    <3>6. QED
      BY <3>1, <3>5
  <2>5. QED
    BY <2>1, <2>2, <2>3, <2>4, <1>12
<1>22. Marked(d)'
  <2>1. \A i \in 1..Len(q) : q[i] \in Versions /\ q[i] \notin NetApplied
    BY <1>4, <1>7, <1>13, <1>18
  <2>2. \A i \in 1..Len(q) : Started[q[i]] = inflight[q[i]]
    BY <2>1 DEF Started
  <2>3. QED
    BY <2>2, <1>1, <1>2 DEF Marked
<1>23. Accounted(d)'
  <2>1. SUFFICES ASSUME NEW v \in batch
                 PROVE  \/ LandedIn(d, v)'
                        \/ \E i \in 1..Len(q) : v = q[i] \/ v \in project.supersedes[q[i]]
    BY <1>1, <1>3 DEF Accounted
  <2>2. CASE v \in P
    BY <2>2, <1>15
  <2>3. CASE v \in Sup
    BY <2>3, <1>2 DEF LandedIn
  <2>4. CASE v \in NetApplied
    <3>1. Recorded(v) = work[d].files[v]
      BY <2>4, <2>1 DEF Drifted, Batch
    <3>2. QED
      BY <3>1, <2>4, <1>1, <1>2 DEF LandedIn
  <2>5. CASE \E s \in batch : v \in project.supersedes[s]
    <3>1. PICK s \in batch : v \in project.supersedes[s]
      BY <2>5
    <3>2. CASE s \in NetApplied
      BY <2>3, <3>1, <3>2, <1>5, <1>6 DEF Sup
    <3>3. CASE s \notin NetApplied
      BY <3>1, <3>3, <1>8, <1>15
    <3>4. QED
      BY <3>2, <3>3
  <2>6. QED
    BY <2>1, <2>2, <2>3, <2>4, <2>5, <1>4, <1>6, <1>7
<1>24. HalfRun(d)'
  <2>1. SUFFICES ASSUME NEW v \in Batch(d), inflight[v] # 0 PROVE \E i \in 1..Len(q) : v = q[i]
    BY <1>1, <1>2, <1>3 DEF HalfRun
  <2>2. v \in project.two_phase /\ v \notin NetApplied
    BY <2>1, <1>3 DEF RecordsInv, MarkerInv
  <2>3. v \notin project.repeatable /\ v \notin Sup
    BY <2>2, TwoPhaseFacts
  <2>4. \A s \in batch : v \notin project.supersedes[s]
    BY <2>2, <1>6, OrderlySquash
  <2>5. v \in P
    BY <2>1, <2>2, <2>3, <2>4, <1>4, <1>7
  <2>6. QED
    BY <2>5, <1>15
<1>25. Distinct(work'[d].todo) /\ work'[d].skipped \subseteq Skippable(project)'
  BY <1>1, <1>15
<1>26. QED
  BY <1>19, <1>20, <1>21, <1>22, <1>23, <1>24, <1>25 DEF VersionedDuty

\* So is the order of the repeatables, once the versioned phase is through.
LEMMA RepeatablePlanDuty ==
    ASSUME Typed, Orderly(project), RecordsInv, NEW d \in Deployers,
           work[d].todo = <<>>, VersionedDuty(d), UNCHANGED <<project, built, records>>,
           \A v \in Batch(d) \cap project.repeatable :
              project.depends_on[v] \subseteq (Batch(d) \cap project.repeatable) \cup Satisfied,
           Batch(d) \cap project.repeatable # {} =>
              Len(TopoOrder[Batch(d) \cap project.repeatable]) = Cardinality(Batch(d) \cap project.repeatable),
           Planned(d, "repeatable", TopoOrder[Batch(d) \cap project.repeatable], Started)
    PROVE  RepeatableDuty(d)'
<1> DEFINE P == Batch(d) \cap project.repeatable
           q == TopoOrder[P]
<1>1. /\ work'[d].todo = q /\ work'[d].skipped = work[d].skipped /\ work'[d].files = work[d].files
  BY DEF Planned
<1>2. /\ NetApplied' = NetApplied /\ Sup' = Sup /\ Met' = Met /\ \A v : Recorded(v)' = Recorded(v)
      /\ inflight' = inflight
  BY Still DEF records
<1>3. Batch(d)' = Batch(d) /\ P \in SUBSET Versions
  BY <1>1 DEF Batch, Typed, WorkTyped, Operations, Files
<1>4. Satisfied = Met
  BY ReadersFacts DEF RecordsInv
<1>5. Ordered(P) /\ (P # {} => Len(q) = Cardinality(P))
      /\ \A v \in P : project.depends_on[v] \subseteq P \cup Met
  BY <1>3, <1>4, TopoFacts
<1>6. \A v \in P : v \in Batch(d) \cap project.repeatable
  OBVIOUS
<1>7. \A v \in Batch(d) : v \in P \/ v \in Batch(d) \ project.repeatable
  OBVIOUS
<1> HIDE DEF P
<1>8. q \in Seq(P) /\ Distinct(q) /\ \A v \in P : \E i \in 1..Len(q) : v = q[i]
  BY <1>5 DEF Ordered
<1>9. ASSUME NEW i \in 1..Len(q), NEW u \in project.depends_on[q[i]], u \notin Met
      PROVE  \E j \in 1..(i - 1) : u = q[j]
  <2>1. q[i] \in P
    BY <1>8
  <2>2. u \in project.depends_on[q[i]] \cap P
    BY <2>1, <1>5, <1>9
  <2>3. QED
    BY <2>2, <1>5 DEF Ordered
<1> HIDE DEF q
<1>10. \A i \in 1..Len(q) : q[i] \in P
  BY <1>8
<1>11. \A v \in Batch(d) : inflight[v] = 0
  BY DEF VersionedDuty, HalfRun
<1>12. \A v \in Batch(d) \ project.repeatable : LandedIn(d, v)'
  BY <1>1, <1>2 DEF VersionedDuty, Accounted, LandedIn
<1>13. QED
  BY <1>1, <1>2, <1>3, <1>6, <1>7, <1>8, <1>9, <1>10, <1>11, <1>12 DEF RepeatableDuty

\* A rollback selects with a version whatever was applied after it.
LEMMA SelectedUpward ==
    ASSUME Typed, NEW t \in RollbackTargets, t[1] = "to" => t[2] \in NetApplied,
           NEW v \in Selected(t), NEW x \in NetApplied, Latest(v) < Latest(x)
    PROVE  x \in Selected(t)
<1>1. /\ v \in NetApplied /\ NetApplied \subseteq Versions
      /\ \A w \in NetApplied : Latest(w) \in Nat
  BY SelectedTyped, LatestFacts DEF NetApplied
<1>2. CASE t[1] = "all"
  BY <1>2 DEF Selected
<1>3. CASE t[1] = "steps"
  <2> DEFINE over(y) == {w \in NetApplied : Latest(w) > Latest(y)}
  <2>1. t[2] \in Nat
    BY <1>3 DEF RollbackTargets
  <2>2. Cardinality(over(v)) < t[2]
    BY <1>3 DEF Selected
  <2>3. over(x) \subseteq over(v) /\ over(v) \subseteq Versions
    BY <1>1
  <2>4. IsFiniteSet(over(v))
    BY <2>3, CatalogueAssumption, FS_Subset DEF CatalogueAssumption
  <2>5. /\ Cardinality(over(x)) <= Cardinality(over(v)) /\ Cardinality(over(v)) \in Nat
        /\ Cardinality(over(x)) \in Nat
    <3> HIDE DEF over
    <3>1. QED
      BY <2>3, <2>4, FS_Subset, FS_CardinalityType
  <2>6. Cardinality(over(x)) < t[2]
    <3> HIDE DEF over
    <3>1. QED
      BY <2>1, <2>2, <2>5
  <2>7. QED
    BY <1>3, <2>6 DEF Selected
<1>4. CASE t[1] = "to"
  <2>1. Latest(t[2]) \in Nat /\ Latest(v) > Latest(t[2])
    BY <1>1, <1>4 DEF Selected
  <2>2. QED
    BY <1>1, <1>4, <2>1 DEF Selected
<1>5. QED
  BY <1>2, <1>3, <1>4 DEF RollbackTargets

\* And what it undoes has nothing applied over it that stays.
LEMMA RollbackPlanDuty ==
    ASSUME Typed, Orderly(project), RecordsInv, NEW d \in Deployers,
           work[d].op = "rollback", UNCHANGED <<project, built, records>>, ~ RollbackRefused(d),
           Unwound(d) \subseteq Batch(d) \cap NetApplied \cap project.reversible,
           Planned(d, work[d].stage, Reverse(TopoOrder[Unwound(d)]), work[d].started)
    PROVE  RollbackDuty(d)'
<1> DEFINE t == work[d].target
           U == Unwound(d)
           p == TopoOrder[U]
           q == Reverse(p)
<1>1. work'[d].todo = q /\ work'[d].files = work[d].files
  BY DEF Planned
<1>2. NetApplied' = NetApplied /\ Sup' = Sup
  BY Still DEF records
<1>3. Batch(d)' = Batch(d) /\ NetApplied \subseteq Versions
  BY <1>1 DEF Batch, NetApplied
<1>4. t \in RollbackTargets
  BY DEF Typed, WorkOf
<1>5. /\ t[1] = "to" => t[2] \in NetApplied
      /\ \A v \in Selected(t) : /\ v \in Batch(d)
                                /\ v \notin project.reversible => project.supersedes[v] = {}
      /\ U \cap project.two_phase = {}
      /\ \A kept \in (NetApplied \cap Batch(d)) \ U : project.depends_on[kept] \cap U = {}
  BY DEF RollbackRefused
<1>6. U = Selected(t) \cap project.reversible
  BY DEF Unwound, ForceSkipped
<1>7. project.reversible \cap project.repeatable = {}
  BY ProjectTyped DEF Typed, StateTyped
<1>8. \A v \in Selected(t) : \A x \in NetApplied : Latest(v) < Latest(x) => x \in Selected(t)
  BY <1>4, <1>5, SelectedUpward
<1>9. U \subseteq NetApplied \ project.repeatable /\ U \in SUBSET Versions /\ U \subseteq Selected(t)
  BY <1>3, <1>6, <1>7
<1>10. ASSUME NEW v \in U PROVE v \notin Sup
  <2>1. SUFFICES ASSUME NEW s \in NetApplied, v \in project.supersedes[s] PROVE FALSE
    BY DEF Sup
  <2>2. Latest(v) < Latest(s)
    BY <2>1, <1>9 DEF RecordsInv, OrderInv
  <2>3. s \in Selected(t)
    BY <2>2, <1>8, <1>9
  <2>4. s \notin project.reversible
    BY <2>1, <1>3, OrderlySquash
  <2>5. QED
    BY <2>1, <2>3, <2>4, <1>5
<1>11. ASSUME NEW v \in U, NEW x \in NetApplied, v \in project.depends_on[x] PROVE x \in U
  <2>1. Latest(v) < Latest(x)
    BY <1>9, <1>11 DEF RecordsInv, OrderInv
  <2>2. x \in Batch(d)
    BY <2>1, <1>5, <1>8, <1>9
  <2>3. QED
    BY <2>2, <1>5, <1>11
<1>12. \A v \in U : v \in (Batch(d) \cap NetApplied \cap project.reversible) \ (project.two_phase \cup Sup)
  BY <1>5, <1>10
<1> HIDE DEF U
<1>13. \A v \in U : \E i \in 1..Len(p) : v = p[i]
  <2> DEFINE rank == [w \in Versions |-> Latest(w)]
  <2>1. rank \in [Versions -> Nat]
    BY LatestFacts
  <2>2. \A v \in U : \A u \in project.depends_on[v] \cap U : rank[u] < rank[v]
    BY <1>9 DEF RecordsInv, OrderInv
  <2> HIDE DEF rank
  <2>3. Ordered(U)
    BY <1>9, TopoFacts
  <2>4. QED
    BY <2>1, <2>2, <2>3 DEF Ordered
<1>14. p \in Seq(U) /\ Distinct(p)
  BY <1>9, TopoFacts DEF Ordered
<1>15. \A i \in 1..Len(p) : \A u \in project.depends_on[p[i]] \cap U : \E j \in 1..(i - 1) : u = p[j]
  BY <1>9, TopoFacts DEF Ordered
<1> HIDE DEF p
<1>16. /\ Len(q) = Len(p) /\ Len(p) \in Nat
       /\ \A i \in 1..Len(p) : (Len(p) - i) + 1 \in 1..Len(p) /\ q[i] = p[(Len(p) - i) + 1]
  BY <1>14, ReverseTyped
<1> HIDE DEF q
<1>17. \A i \in 1..Len(q) : q[i] \in U
  BY <1>14, <1>16
<1>18. Distinct(q)
  <2>1. SUFFICES ASSUME NEW i \in 1..Len(p), NEW j \in 1..Len(p), q[i] = q[j] PROVE i = j
    BY <1>16 DEF Distinct
  <2>2. (Len(p) - i) + 1 = (Len(p) - j) + 1
    BY <2>1, <1>14, <1>16 DEF Distinct
  <2>3. QED
    BY <2>1, <2>2, <1>16
<1>19. ASSUME NEW i \in 1..Len(q), NEW x \in NetApplied, q[i] \in project.depends_on[x]
       PROVE  \E j \in 1..(i - 1) : x = q[j]
  <2>1. q[i] \in U /\ x \in U
    BY <1>11, <1>17, <1>19
  <2>2. PICK k \in 1..Len(p) : x = p[k]
    BY <2>1, <1>13
  <2>3. PICK m \in 1..(k - 1) : q[i] = p[m]
    BY <2>1, <2>2, <1>15, <1>19
  <2>4. m \in 1..Len(p) /\ i \in 1..Len(p) /\ k \in Nat /\ m < k
    BY <2>2, <2>3, <1>16, <1>19
  <2>5. m = (Len(p) - i) + 1
    BY <2>3, <2>4, <1>14, <1>16 DEF Distinct
  <2> DEFINE j == (Len(p) - k) + 1
  <2>6. j \in 1..Len(p) /\ j \in 1..(i - 1) /\ (Len(p) - j) + 1 = k
    BY <2>2, <2>4, <2>5, <1>16
  <2> HIDE DEF j
  <2>7. q[j] = p[k]
    BY <2>6, <1>16
  <2>8. QED
    BY <2>2, <2>6, <2>7
<1>20. QED
  BY <1>1, <1>2, <1>3, <1>12, <1>17, <1>18, <1>19 DEF RollbackDuty

-----------------------------------------------------------------------------
(* Every step of an operation keeps the records and meets its duty.        *)

Content == RecordsInv /\ DutyInv

\* An up whose dependencies are met finds their objects.
LEMMA CanRunMet ==
    ASSUME Typed, Orderly(project), RecordsInv, NEW v \in Versions, project.depends_on[v] \subseteq Met
    PROVE  CanRun(v)
BY MetBuilt DEF CanRun, RecordsInv

\* The version under way in the versioned phase.
LEMMA HeadFacts ==
    ASSUME Typed, Orderly(project), RecordsInv, NEW d \in Deployers, VersionedDuty(d), Runs(d),
           work[d].stage = "versioned"
    PROVE  /\ Current(d) \in Versions \ project.repeatable /\ Current(d) \notin Met
           /\ project.supersedes[Current(d)] \cap Met = {}
           /\ project.depends_on[Current(d)] \subseteq Met
           /\ work[d].started[Current(d)] = inflight[Current(d)]
<1>1. work[d].at = "running" /\ work[d].todo # <<>> /\ (HadInflight(d) \/ ~ DepSkipped(d))
  BY DEF Runs, Running
<1>2. Current(d) \in Versions /\ Current(d) = work[d].todo[1] /\ 1 \in 1..Len(work[d].todo)
  BY <1>1, RunningTyped
<1>3. /\ Current(d) \notin project.repeatable /\ Current(d) \notin Met
      /\ project.supersedes[Current(d)] \cap Met = {}
      /\ work[d].started[Current(d)] = inflight[Current(d)]
  BY <1>1, <1>2 DEF VersionedDuty, Pending, Marked
<1>4. ASSUME NEW u \in project.depends_on[Current(d)] PROVE u \in Met
  <2>1. u \in Met \cup work[d].skipped
    BY <1>2, <1>4 DEF VersionedDuty, Grounded
  <2>2. SUFFICES ASSUME u \in work[d].skipped PROVE FALSE
    BY <2>1
  <2>3. DepSkipped(d)
    BY <2>2, <1>4 DEF DepSkipped
  <2>4. inflight[Current(d)] # 0
    BY <2>3, <1>1, <1>3 DEF HadInflight
  <2>5. Current(d) \in project.two_phase
    BY <2>4, <1>2 DEF RecordsInv, MarkerInv
  <2>6. u \in Skippable(project)
    BY <2>2 DEF VersionedDuty
  <2>7. QED
    BY <2>5, <2>6, <1>4 DEF Orderly
<1>5. QED
  BY <1>2, <1>3, <1>4

\* What a completed migration lands, and leaves landed.
LEMMA AppliedLands ==
    ASSUME NEW d \in Deployers, NEW c \in Versions, work'[d].files = work[d].files,
           work[d].skipped \subseteq work'[d].skipped,
           NetApplied' = NetApplied \cup {c}, Sup' = Sup \cup project.supersedes[c],
           Recorded(c)' = work[d].files[c],
           \A w \in NetApplied : w # c => Recorded(w)' = Recorded(w)
    PROVE  /\ \A v : LandedIn(d, v) => LandedIn(d, v)'
           /\ \A v \in {c} \cup project.supersedes[c] : LandedIn(d, v)'
<1>1. LandedIn(d, c)'
  BY DEF LandedIn
<1>2. \A v \in project.supersedes[c] : LandedIn(d, v)'
  BY DEF LandedIn
<1>3. ASSUME NEW v, LandedIn(d, v) PROVE LandedIn(d, v)'
  <2>1. CASE v = c
    BY <2>1, <1>1
  <2>2. CASE v # c
    BY <2>2, <1>3 DEF LandedIn
  <2>3. QED
    BY <2>1, <2>2
<1>4. QED
  BY <1>1, <1>2, <1>3

\* The list goes on after a completed version of the versioned phase.
LEMMA CompletedDuty ==
    ASSUME Typed, NEW d \in Deployers, work[d].todo # <<>>, Finished(d), project' = project,
           work[d].op = "apply", work[d].stage = "versioned", VersionedDuty(d), PlainDuty(d),
           NEW c \in Versions, c = Current(d),
           NetApplied' = NetApplied \cup {c}, Sup' = Sup \cup project.supersedes[c],
           Met' = Met \cup {c} \cup project.supersedes[c],
           Recorded(c)' = work[d].files[c],
           \A w \in NetApplied : w # c => Recorded(w)' = Recorded(w),
           \A w \in Versions : w # c => inflight'[w] = inflight[w], inflight'[c] = 0
    PROVE  PlainDuty(d)' /\ DeepDuty(d)'
<1>1. CASE Advanced(d, {})
  <2>1. /\ work'[d].files = work[d].files /\ work'[d].skipped = work[d].skipped
        /\ work'[d].at = "running" /\ work'[d].op = "apply" /\ work'[d].stage = "versioned"
        /\ work'[d].result = work[d].result
    BY <1>1 DEF Advanced
  <2>2. /\ \A v : LandedIn(d, v) => LandedIn(d, v)'
        /\ \A v \in {c} \cup project.supersedes[c] : LandedIn(d, v)'
    BY <2>1, AppliedLands
  <2>3. VersionedDuty(d)'
    <3>1. /\ Met \subseteq Met' /\ Met' \subseteq Met \cup {Current(d)} \cup project.supersedes[Current(d)]
          /\ \A v \in {Current(d)} \cup project.supersedes[Current(d)] :
                v \in Met' \cup work'[d].skipped /\ LandedIn(d, v)'
          /\ \A v \in Batch(d) : LandedIn(d, v) => LandedIn(d, v)'
          /\ \A w \in Versions : w # Current(d) => inflight'[w] = inflight[w]
          /\ inflight'[Current(d)] = 0
      BY <2>2
    <3>2. {} \subseteq Skippable(project)
      OBVIOUS
    <3>3. QED
      BY <1>1, <3>1, <3>2, VersionedAdvances
  <2>4. QED
    BY <2>1, <2>3 DEF PlainDuty, DeepDuty, Before, Inner
<1>2. CASE Turned(d, CloseOf(d), "error", work[d].report)
  <2>1. CloseOf(d) \notin Inner /\ CloseOf(d) \notin Before
    BY ClosePlace DEF Inner, Before
  <2>2. QED
    BY <1>2, <2>1, TurnedOut
<1>3. QED
  BY <1>1, <1>2 DEF Finished

\* A transactional version lands with its row, or not at all.
LEMMA TransactionalKeeps ==
    ASSUME Typed, Orderly(project), Content, NEW d \in Deployers, ApplyTransactional(d)
    PROVE  RecordsInv' /\ PlainDuty(d)' /\ DeepDuty(d)'
<1>1. /\ Runs(d) /\ Current(d) \notin project.two_phase /\ UNCHANGED <<Aside, inflight, dirty>>
      /\ \/ /\ IF GuardSatisfied(Current(d)) THEN UNCHANGED built
               ELSE /\ CanRun(Current(d))
                    /\ UpEffect(Current(d), work[d].files[Current(d)], "built")
            /\ JournalCompleted(Current(d), work[d].files[Current(d)], KindOf(d))
            /\ Finished(d)
         \/ /\ UNCHANGED <<built, records>>
            /\ Turned(d, CloseOf(d), "error", work[d].report)
         \/ /\ UNCHANGED <<built, records>> /\ ~ CanRun(Current(d))
            /\ Turned(d, CloseOf(d), "missing object", work[d].report)
  BY ApplyTransactionalEffect
<1>2. /\ work[d].at = "running" /\ work[d].op = "apply" /\ work[d].todo # <<>> /\ project' = project
      /\ work[d].stage \in {"versioned", "repeatable"}
  BY <1>1 DEF Runs, Running, Aside, Typed, WorkTyped, Operations
<1>3. RecordsInv /\ PlainDuty(d) /\ DeepDuty(d)
  BY DEF Content, DutyInv
<1>4. PICK c \in Versions : c = Current(d) /\ work[d].files[c] \in Nat \ {0} /\ c = work[d].todo[1]
                             /\ 1 \in 1..Len(work[d].todo)
  BY <1>2, RunningTyped
<1>5. CloseOf(d) \notin Inner /\ CloseOf(d) \notin Before
  BY ClosePlace DEF Inner, Before
<1>6. project.depends_on[c] \subseteq Met
  <2>1. CASE work[d].stage = "versioned"
    BY <2>1, <1>1, <1>2, <1>3, <1>4, HeadFacts DEF DeepDuty, Inner
  <2>2. CASE work[d].stage = "repeatable"
    BY <2>2, <1>2, <1>3, <1>4 DEF DeepDuty, RepeatableDuty
  <2>3. QED
    BY <2>1, <2>2, <1>2
<1>7. CASE /\ IF GuardSatisfied(c) THEN UNCHANGED built ELSE UpEffect(c, work[d].files[c], "built")
           /\ JournalCompleted(c, work[d].files[c], KindOf(d)) /\ Finished(d)
  <2>1. CASE work[d].stage = "versioned"
    <3>1. VersionedDuty(d)
      BY <2>1, <1>2, <1>3 DEF DeepDuty, Inner
    <3>2. c \notin project.repeatable /\ c \notin Met /\ project.supersedes[c] \cap Met = {}
      BY <2>1, <3>1, <1>1, <1>3, <1>4, HeadFacts
    <3>3. PICK kind \in {"apply", "squash", "repeatable", "none"} :
             kind = KindOf(d) /\ (project.supersedes[c] # {} => kind = "squash")
      BY <2>1, <1>4 DEF KindOf
    <3>4. JournalCompleted(c, work[d].files[c], kind)
      BY <3>3, <1>7
    <3>5. RecordsInv'
      BY <3>2, <3>3, <3>4, <1>1, <1>2, <1>3, <1>4, <1>6, <1>7, RecordsTransactional
    <3>6. /\ NetApplied' = NetApplied \cup {c} /\ Sup' = Sup \cup project.supersedes[c]
          /\ Met' = Met \cup {c} \cup project.supersedes[c]
          /\ Recorded(c)' = work[d].files[c]
          /\ \A w \in NetApplied : w # c => Recorded(w)' = Recorded(w)
      BY <3>2, <3>3, <3>4, <1>2, <1>3, <1>4, <1>6, AppliedKeeps DEF RecordsInv
    <3>7. inflight' = inflight /\ inflight[c] = 0
      BY <1>1, <1>3, <1>4 DEF RecordsInv, MarkerInv
    <3>8. QED
      BY <2>1, <3>1, <3>5, <3>6, <3>7, <1>2, <1>3, <1>4, <1>7, CompletedDuty
  <2>2. CASE work[d].stage = "repeatable"
    <3>1. RepeatableDuty(d) /\ c \in project.repeatable
      BY <2>2, <1>2, <1>3, <1>4 DEF DeepDuty, RepeatableDuty
    <3>2. project.supersedes[c] = {} /\ KindOf(d) = "repeatable"
      BY <2>2, <3>1, ProjectTyped DEF Typed, StateTyped, KindOf
    <3>3. JournalCompleted(c, work[d].files[c], "repeatable")
          /\ "repeatable" \in {"apply", "squash", "repeatable", "none"}
      BY <3>2, <1>7
    <3>4. RecordsInv'
      BY <3>1, <3>2, <3>3, <1>1, <1>2, <1>3, <1>4, <1>6, <1>7, RecordsTransactional
    <3>5. /\ NetApplied' = NetApplied \cup {c} /\ Sup' = Sup \cup project.supersedes[c]
          /\ Met' = Met \cup {c} \cup project.supersedes[c]
          /\ Recorded(c)' = work[d].files[c]
          /\ \A w \in NetApplied : w # c => Recorded(w)' = Recorded(w)
      BY <3>1, <3>2, <3>3, <1>2, <1>3, <1>4, <1>6, AppliedKeeps DEF RecordsInv
    <3>6. CASE Advanced(d, {})
      <4>1. /\ work'[d].files = work[d].files /\ work'[d].skipped = work[d].skipped
            /\ work'[d].at = "running" /\ work'[d].op = "apply" /\ work'[d].stage = "repeatable"
            /\ work'[d].result = work[d].result
        BY <2>2, <3>6, <1>2 DEF Advanced
      <4>2. /\ \A v : LandedIn(d, v) => LandedIn(d, v)'
            /\ \A v \in {c} \cup project.supersedes[c] : LandedIn(d, v)'
        BY <4>1, <3>5, AppliedLands
      <4>3. /\ Met \subseteq Met' /\ Current(d) \in Met' /\ \A v \in {Current(d)} : LandedIn(d, v)'
            /\ UNCHANGED <<project, inflight>>
        BY <4>2, <3>5, <1>1, <1>2, <1>4
      <4>4. RepeatableDuty(d)'
        BY <4>2, <4>3, <3>1, <3>6, <1>2, RepeatableAdvances
      <4>5. QED
        BY <4>1, <4>4, <3>4, <1>3 DEF PlainDuty, DeepDuty, Before, Inner
    <3>7. CASE Turned(d, CloseOf(d), "error", work[d].report)
      BY <3>4, <3>7, <1>2, <1>3, <1>5, TurnedOut
    <3>8. QED
      BY <3>6, <3>7, <1>7 DEF Finished
  <2>3. QED
    BY <2>1, <2>2, <1>2
<1>8. CASE UNCHANGED <<built, records>> /\ Turned(d, CloseOf(d), "error", work[d].report)
  BY <1>2, <1>3, <1>5, <1>8, TurnedOut, RecordsStill
<1>9. CASE ~ CanRun(c)
  BY <1>3, <1>6, <1>9, CanRunMet
<1>10. QED
  BY <1>1, <1>4, <1>7, <1>8, <1>9

\* A repeatable the journal has in this edition is applied in it.
LEMMA UnchangedApplied ==
    ASSUME Typed, JournalInv, NEW v \in project.repeatable, NEW sum \in Nat \ {0},
           LatestRepeatable(v) = sum
    PROVE  v \in NetApplied /\ Recorded(v) = sum
<1> DEFINE runs == {i \in 1..Len(journal) : journal[i].version = v /\ journal[i].kind = "repeatable"}
<1>1. runs # {} /\ journal[Max(runs)].checksum = sum
  BY DEF LatestRepeatable
<1>2. runs \in SUBSET (0..Len(journal)) /\ Len(journal) \in Nat
  BY DEF Typed, StateTyped
<1>3. Max(runs) \in runs /\ \A k \in runs : Max(runs) >= k
  BY <1>1, <1>2, GreatestOf
<1>4. PICK m \in 1..Len(journal) : m = Max(runs) /\ journal[m].version = v
  BY <1>3
<1>5. v \in Versions
  BY ProjectTyped DEF Typed, StateTyped
<1>6. Latest(v) \in 0..Len(journal) /\ m <= Latest(v)
  BY <1>4, <1>5, LatestFacts
<1>7. journal[Latest(v)].version = v
  <2>1. journal \in Seq(Events) /\ Latest(v) = LatestIn(journal, v)
    BY DEF Typed, StateTyped, Latest, LatestIn
  <2>2. Latest(v) # 0
    BY <1>4, <1>6
  <2>3. QED
    BY <2>1, <2>2, <1>5, LatestOf
<1>8. Latest(v) \in 1..Len(journal)
  BY <1>2, <1>4, <1>6
<1>9. journal[Latest(v)].event = "applied" /\ journal[Latest(v)].kind = "repeatable"
  BY <1>7, <1>8 DEF JournalInv
<1>10. Latest(v) = m
  <2>1. Latest(v) \in runs
    BY <1>7, <1>8, <1>9
  <2> HIDE DEF runs
  <2>2. QED
    BY <2>1, <1>3, <1>4, <1>6, <1>8
<1>11. Recorded(v) = sum
  BY <1>1, <1>4, <1>10 DEF Recorded
<1>12. QED
  BY <1>5, <1>8, <1>9, <1>11 DEF NetApplied

\* What is passed over is accounted for.
LEMMA SkipKeeps ==
    ASSUME Typed, Orderly(project), Content, NEW d \in Deployers, SkipOne(d)
    PROVE  PlainDuty(d)' /\ DeepDuty(d)'
<1>1. /\ Running(d, "apply") /\ UNCHANGED <<Aside, built, records, dirty>>
      /\ \/ Unchanged(d) /\ Advanced(d, {})
         \/ /\ ~ HadInflight(d) /\ (Current(d) \in project.conditional \/ DepSkipped(d))
            /\ Advanced(d, {Current(d)})
  BY SkipOneEffect
<1>2. /\ work[d].at = "running" /\ work[d].op = "apply" /\ work[d].todo # <<>>
      /\ UNCHANGED <<project, journal, inflight>> /\ work[d].stage \in {"versioned", "repeatable"}
  BY <1>1 DEF Running, Aside, records, Typed, WorkTyped, Operations
<1>3. RecordsInv /\ PlainDuty(d) /\ DeepDuty(d)
  BY DEF Content, DutyInv
<1>4. PICK c \in Versions : c = Current(d) /\ work[d].files[c] \in Nat \ {0} /\ c = work[d].todo[1]
                             /\ 1 \in 1..Len(work[d].todo)
  BY <1>2, RunningTyped
<1>5. NetApplied' = NetApplied /\ Sup' = Sup /\ Met' = Met /\ \A v : Recorded(v)' = Recorded(v)
  BY <1>2, Still
<1>6. PICK more \in {{}, {c}} : Advanced(d, more) /\ (more = {} => Unchanged(d))
         /\ (more = {c} => ~ HadInflight(d) /\ (c \in project.conditional \/ DepSkipped(d)))
  <2>1. CASE Unchanged(d) /\ Advanced(d, {})
    <3>1. {} # {c}
      OBVIOUS
    <3>2. QED
      BY <2>1, <3>1
  <2>2. CASE /\ ~ HadInflight(d) /\ (Current(d) \in project.conditional \/ DepSkipped(d))
             /\ Advanced(d, {Current(d)})
    <3>1. {} # {c}
      OBVIOUS
    <3>2. QED
      BY <2>2, <3>1, <1>4
  <2>3. QED
    BY <2>1, <2>2, <1>1
<1>7. /\ work'[d].files = work[d].files /\ work'[d].skipped = work[d].skipped \cup more
      /\ work'[d].at = "running" /\ work'[d].op = "apply" /\ work'[d].stage = work[d].stage
      /\ work'[d].result = work[d].result
  BY <1>2, <1>6 DEF Advanced
<1>8. \A v : LandedIn(d, v) => LandedIn(d, v)'
  BY <1>5, <1>7 DEF LandedIn
<1>9. PlainDuty(d)'
  BY <1>2, <1>3, <1>7 DEF PlainDuty, Before, Batch
<1>10. CASE work[d].stage = "versioned"
  <2>1. VersionedDuty(d)
    BY <1>2, <1>3, <1>10 DEF DeepDuty, Inner
  <2>2. more = {c} /\ ~ HadInflight(d) /\ (c \in project.conditional \/ DepSkipped(d))
    BY <1>6, <1>10 DEF Unchanged
  <2>3. inflight[c] = 0
    BY <2>1, <2>2, <1>2, <1>4 DEF VersionedDuty, Marked, HadInflight
  <2>4. c \in Skippable(project)
    <3>1. CASE c \in project.conditional
      BY <3>1, SkippableFacts
    <3>2. CASE DepSkipped(d)
      BY <3>2, <2>1, <1>4, SkippableFacts DEF DepSkipped, VersionedDuty
    <3>3. QED
      BY <3>1, <3>2, <2>2
  <2>5. project.supersedes[c] = {}
    BY <2>2, <1>4, OrderlySquash DEF DepSkipped
  <2>6. c \in work'[d].skipped /\ LandedIn(d, c)'
    BY <2>2, <1>7 DEF LandedIn
  <2>7. /\ Met \subseteq Met' /\ Met' \subseteq Met \cup {Current(d)} \cup project.supersedes[Current(d)]
        /\ \A v \in {Current(d)} \cup project.supersedes[Current(d)] :
              v \in Met' \cup work'[d].skipped /\ LandedIn(d, v)'
        /\ \A w \in Versions : w # Current(d) => inflight'[w] = inflight[w]
        /\ inflight'[Current(d)] = 0 /\ more \subseteq Skippable(project)
    BY <2>2, <2>3, <2>4, <2>5, <2>6, <1>2, <1>4, <1>5
  <2>8. VersionedDuty(d)'
    BY <2>1, <2>7, <1>2, <1>6, <1>8, VersionedAdvances
  <2>9. QED
    BY <2>8, <1>7, <1>9, <1>10 DEF DeepDuty, Inner
<1>11. CASE work[d].stage = "repeatable"
  <2>1. RepeatableDuty(d) /\ c \in project.repeatable
    BY <1>2, <1>3, <1>4, <1>11 DEF DeepDuty, RepeatableDuty
  <2>2. CASE more = {}
    <3>1. LatestRepeatable(c) = work[d].files[c]
      BY <2>2, <1>4, <1>6 DEF Unchanged
    <3>2. c \in NetApplied /\ Recorded(c) = work[d].files[c]
      BY <3>1, <2>1, <1>3, <1>4, UnchangedApplied DEF RecordsInv
    <3>3. LandedIn(d, c)' /\ c \in Met'
      BY <3>2, <1>5, <1>7 DEF LandedIn, Met
    <3>4. /\ \A v \in {Current(d)} : LandedIn(d, v)' /\ Current(d) \in Met' /\ Met \subseteq Met'
          /\ UNCHANGED <<project, inflight>>
      BY <3>3, <1>2, <1>4, <1>5
    <3>5. RepeatableDuty(d)'
      BY <3>4, <2>1, <1>2, <1>6, <1>8, RepeatableAdvances
    <3>6. QED
      BY <3>5, <1>7, <1>9, <1>11 DEF DeepDuty, Inner
  <2>3. CASE more = {c}
    <3>1. c \in project.conditional
      BY <2>3, <1>6, <1>11 DEF DepSkipped
    <3>2. \A i \in 1..Len(work[d].todo) : c \notin project.depends_on[work[d].todo[i]]
      BY <3>1, <2>1 DEF RepeatableDuty, Orderly
    <3>3. LandedIn(d, c)'
      BY <2>3, <1>7 DEF LandedIn
    <3>4. /\ \A v \in {Current(d)} : LandedIn(d, v)' /\ Met \subseteq Met'
          /\ UNCHANGED <<project, inflight>>
          /\ \A i \in 1..Len(work[d].todo) : Current(d) \notin project.depends_on[work[d].todo[i]]
      BY <3>2, <3>3, <1>2, <1>4, <1>5
    <3>5. RepeatableDuty(d)'
      BY <3>4, <2>1, <1>2, <1>6, <1>8, RepeatableAdvances
    <3>6. QED
      BY <3>5, <1>7, <1>9, <1>11 DEF DeepDuty, Inner
  <2>4. QED
    BY <2>2, <2>3, <1>6
<1>12. QED
  BY <1>2, <1>10, <1>11

\* Recovery leads to an armed marker, to the completed row, or nowhere.
LEMMA RecoverKeeps ==
    ASSUME Typed, Orderly(project), Content, NEW d \in Deployers, RecoverNonTransactional(d)
    PROVE  RecordsInv' /\ PlainDuty(d)' /\ DeepDuty(d)'
<1>1. /\ Runs(d) /\ Current(d) \in project.two_phase /\ UNCHANGED <<Aside, records>>
      /\ \/ /\ GuardSatisfied(Current(d)) /\ UNCHANGED built
            /\ Turned(d, "finalizing", work[d].result, work[d].report)
         \/ UNCHANGED built /\ Turned(d, CloseOf(d), "unsafe", work[d].report)
         \/ /\ HadInflight(d) => Current(d) \in project.replayable
            /\ schema' = [o \in Objects |->
                   IF HadInflight(d) /\ o \in Builds[Current(d)] /\ schema[o] = "invalid"
                   THEN "absent" ELSE schema[o]]
            /\ UNCHANGED <<body, clobbered>>
            /\ Turned(d, "arming", work[d].result, work[d].report)
  BY RecoverEffect
<1>2. /\ work[d].at = "running" /\ work[d].op = "apply" /\ work[d].todo # <<>>
      /\ UNCHANGED <<project, journal, inflight, edges>> /\ ~ MarkerMismatch(d)
      /\ work[d].stage \in {"versioned", "repeatable"}
  BY <1>1 DEF Runs, Running, Aside, records, Typed, WorkTyped, Operations
<1>3. RecordsInv /\ PlainDuty(d) /\ DeepDuty(d)
  BY DEF Content, DutyInv
<1>4. PICK c \in Versions : c = Current(d) /\ work[d].files[c] \in Nat \ {0} /\ c = work[d].todo[1]
                             /\ 1 \in 1..Len(work[d].todo)
  BY <1>2, RunningTyped
<1>5. /\ c \in project.two_phase /\ c \notin project.repeatable /\ Builds[c] = {c} /\ c \in Objects
  BY <1>1, <1>4, TwoPhaseFacts
<1>6. work[d].stage = "versioned"
  BY <1>2, <1>3, <1>4, <1>5 DEF DeepDuty, RepeatableDuty
<1>7. VersionedDuty(d)
  BY <1>2, <1>3, <1>6 DEF DeepDuty, Inner
<1>8. c \notin Met /\ project.depends_on[c] \subseteq Met /\ work[d].started[c] = inflight[c]
  BY <1>1, <1>3, <1>4, <1>6, <1>7, HeadFacts
<1>9. inflight[c] \in {0, work[d].files[c]} /\ (HadInflight(d) <=> inflight[c] # 0)
  BY <1>2, <1>4, <1>6, <1>8 DEF MarkerMismatch, HadInflight
<1>10. inflight[c] = 0 => schema[c] = "absent"
  BY <1>3, <1>5, <1>8 DEF RecordsInv, SchemaInv
<1>11. NetApplied' = NetApplied /\ Sup' = Sup /\ Met' = Met
  BY <1>2, Still
<1>12. ASSUME NEW a \in {"finalizing", "arming"}, Turned(d, a, work[d].result, work[d].report),
              a = "arming" => schema'[c] # "invalid" /\ (inflight[c] # 0 => c \in project.replayable),
              a = "finalizing" => schema'[c] = "built" /\ inflight[c] # 0
       PROVE  PlainDuty(d)' /\ DeepDuty(d)'
  <2>1. /\ work'[d].at = a /\ work'[d].result = work[d].result /\ work'[d].op = "apply"
        /\ work'[d].stage = "versioned" /\ work'[d].todo = work[d].todo /\ work'[d].files = work[d].files
    BY <1>2, <1>6, <1>12 DEF Turned, SamePlan
  <2>2. Current(d)' = c /\ Batch(d)' = Batch(d)
    BY <2>1, <1>4 DEF Current, Batch
  <2>3. VersionedDuty(d)'
    <3>1. a # "running" /\ UNCHANGED <<project, journal>>
          /\ \A w \in Versions : w # Current(d) => inflight'[w] = inflight[w]
      BY <1>2, <1>12
    <3>2. QED
      BY <3>1, <1>2, <1>7, <1>12, VersionedStays
  <2>4. ArmedDuty(d)'
    BY <2>1, <2>2, <1>2, <1>5, <1>8, <1>9, <1>11, <1>12 DEF ArmedDuty
  <2>5. PlainDuty(d)'
    BY <2>1, <2>2, <1>2, <1>3, <1>12 DEF PlainDuty, Before
  <2>6. QED
    BY <2>1, <2>3, <2>4, <2>5, <1>12 DEF DeepDuty
<1>13. CASE /\ GuardSatisfied(Current(d)) /\ UNCHANGED built
            /\ Turned(d, "finalizing", work[d].result, work[d].report)
  <2>1. schema[c] = "built" /\ schema' = schema
    BY <1>4, <1>5, <1>13 DEF GuardSatisfied, built
  <2>2. RecordsInv'
    BY <1>1, <1>2, <1>3, <1>13, RecordsStill
  <2>3. QED
    BY <2>1, <2>2, <1>10, <1>12, <1>13
<1>14. CASE UNCHANGED built /\ Turned(d, CloseOf(d), "unsafe", work[d].report)
  <2>1. CloseOf(d) \notin Inner /\ CloseOf(d) \notin Before
    BY ClosePlace DEF Inner, Before
  <2>2. QED
    BY <2>1, <1>1, <1>2, <1>3, <1>14, TurnedOut, RecordsStill
<1>15. CASE /\ HadInflight(d) => Current(d) \in project.replayable
            /\ schema' = [o \in Objects |->
                   IF HadInflight(d) /\ o \in Builds[Current(d)] /\ schema[o] = "invalid"
                   THEN "absent" ELSE schema[o]]
            /\ UNCHANGED <<body, clobbered>>
            /\ Turned(d, "arming", work[d].result, work[d].report)
  <2>1. PICK had \in BOOLEAN : had <=> inflight[c] # 0
    OBVIOUS
  <2>2. schema' = [o \in Objects |-> IF had /\ o \in Builds[c] /\ schema[o] = "invalid"
                                     THEN "absent" ELSE schema[o]]
    BY <2>1, <1>4, <1>9, <1>15
  <2>3. /\ RecordsInv'
        /\ schema'[c] = IF had /\ schema[c] = "invalid" THEN "absent" ELSE schema[c]
    BY <2>2, <1>1, <1>2, <1>3, <1>5, <1>8, <1>15, RecordsRecovered
  <2>4. schema'[c] # "invalid"
    BY <2>1, <2>3, <1>10
  <2>5. inflight[c] # 0 => c \in project.replayable
    BY <1>4, <1>9, <1>15
  <2>6. QED
    BY <2>3, <2>4, <2>5, <1>12, <1>15
<1>16. QED
  BY <1>1, <1>13, <1>14, <1>15

\* The places of the two-phase path.
LEMMA ArmedFacts ==
    ASSUME Typed, Orderly(project), Content, NEW d \in Deployers, work[d].at \in Inner \ {"running"}
    PROVE  /\ RecordsInv /\ PlainDuty(d) /\ VersionedDuty(d) /\ ArmedDuty(d)
           /\ work[d].op = "apply" /\ work[d].stage = "versioned" /\ work[d].todo # <<>>
           /\ Current(d) \in project.two_phase /\ Current(d) \notin Met
           /\ project.depends_on[Current(d)] \subseteq Met
           /\ work[d].files[Current(d)] \in Nat \ {0}
<1>1. work[d].op = "apply" /\ work[d].todo # <<>>
  BY DEF Typed, WorkOf
<1>2. RecordsInv /\ PlainDuty(d) /\ DeepDuty(d)
  BY DEF Content, DutyInv
<1>3. ArmedDuty(d)
  BY <1>2 DEF DeepDuty
<1>4. work[d].stage = "versioned" /\ Current(d) \in project.two_phase
      /\ project.depends_on[Current(d)] \subseteq Met
  BY <1>3 DEF ArmedDuty
<1>5. VersionedDuty(d)
  BY <1>1, <1>2, <1>4 DEF DeepDuty
<1>6. /\ Current(d) = work[d].todo[1] /\ 1 \in 1..Len(work[d].todo)
      /\ work[d].files[Current(d)] \in Nat \ {0}
  BY <1>1, RunningTyped
<1>7. Current(d) \notin Met
  BY <1>5, <1>6 DEF VersionedDuty, Pending
<1>8. QED
  BY <1>1, <1>2, <1>3, <1>4, <1>5, <1>6, <1>7

\* An armed marker names the body that is about to run.
LEMMA ArmKeeps ==
    ASSUME Typed, Orderly(project), Content, NEW d \in Deployers, RecordStarted(d)
    PROVE  RecordsInv' /\ PlainDuty(d)' /\ DeepDuty(d)'
<1>1. /\ work[d].at = "arming" /\ UNCHANGED <<Aside, built, journal, edges, dirty>>
      /\ inflight' = [inflight EXCEPT ![Current(d)] = IF @ = 0 THEN work[d].files[Current(d)] ELSE @]
      /\ Turned(d, "up", work[d].result, work[d].report)
  BY RecordStartedEffect
<1>2. /\ RecordsInv /\ PlainDuty(d) /\ VersionedDuty(d) /\ ArmedDuty(d)
      /\ work[d].op = "apply" /\ work[d].stage = "versioned" /\ work[d].todo # <<>>
  BY <1>1, ArmedFacts DEF Inner
<1>3. PICK c \in project.two_phase : c = Current(d) /\ c \notin Met
         /\ project.depends_on[c] \subseteq Met /\ work[d].files[c] \in Nat \ {0}
  BY <1>1, ArmedFacts DEF Inner
<1>4. c \in Versions /\ c \in Objects
  BY TwoPhaseFacts
<1>5. project' = project /\ UNCHANGED <<schema, body, clobbered>>
  BY <1>1 DEF Aside, built
<1>6. RecordsInv'
  BY <1>1, <1>2, <1>3, <1>5, RecordsArmed
<1>7. /\ inflight'[c] = (IF inflight[c] = 0 THEN work[d].files[c] ELSE inflight[c])
      /\ \A w \in Versions : w # c => inflight'[w] = inflight[w]
  BY <1>1, <1>3, <1>4 DEF Typed, StateTyped
<1>8. /\ inflight[c] \in {0, work[d].files[c]} /\ schema[c] # "invalid"
      /\ inflight[c] # 0 => c \in project.replayable
  BY <1>1, <1>2, <1>3 DEF ArmedDuty
<1>9. inflight[c] = 0 => schema[c] = "absent"
  BY <1>2, <1>3, <1>4 DEF RecordsInv, SchemaInv
<1>10. /\ work'[d].at = "up" /\ work'[d].result = work[d].result /\ work'[d].op = "apply"
       /\ work'[d].stage = "versioned" /\ work'[d].todo = work[d].todo /\ work'[d].files = work[d].files
  BY <1>1, <1>2 DEF Turned, SamePlan
<1>11. Current(d)' = c /\ Batch(d)' = Batch(d)
  BY <1>3, <1>10 DEF Current, Batch
<1>12. Met' = Met
  BY <1>1, <1>5, Still
<1>13. VersionedDuty(d)'
  <2>1. "up" # "running" /\ UNCHANGED <<project, journal>>
        /\ \A w \in Versions : w # Current(d) => inflight'[w] = inflight[w]
    BY <1>1, <1>3, <1>5, <1>7
  <2>2. QED
    BY <2>1, <1>1, <1>2, VersionedStays
<1>14. ArmedDuty(d)'
  BY <1>3, <1>5, <1>7, <1>8, <1>9, <1>10, <1>11, <1>12 DEF ArmedDuty
<1>15. PlainDuty(d)'
  BY <1>2, <1>10, <1>11, <1>5 DEF PlainDuty, Before
<1>16. QED
  BY <1>6, <1>10, <1>13, <1>14, <1>15 DEF DeepDuty

\* An up that was interrupted stays its marker's work.
LEMMA InterruptedKeeps ==
    ASSUME Typed, Orderly(project), Content, NEW d \in Deployers, work[d].at = "up",
           UpInterrupted(d), UNCHANGED <<project, records>>
    PROVE  RecordsInv'
<1>1. RecordsInv /\ ArmedDuty(d)
  BY ArmedFacts DEF Inner
<1>2. PICK c \in project.two_phase : c = Current(d) /\ c \notin Met /\ work[d].files[c] \in Nat \ {0}
  BY ArmedFacts DEF Inner
<1>3. inflight[c] = work[d].files[c] /\ (c \notin project.replayable => schema[c] = "absent")
  BY <1>1, <1>2 DEF ArmedDuty
<1>4. CASE UNCHANGED built
  BY <1>1, <1>4, RecordsStill
<1>5. CASE \E outcome \in {"absent", "invalid", "built"} : UpEffect(c, work[d].files[c], outcome)
  BY <1>1, <1>2, <1>3, <1>5, RecordsUp
<1>6. QED
  BY <1>2, <1>4, <1>5 DEF UpInterrupted

\* An up runs under its marker and over nothing but what it may run over.
LEMMA UpKeeps ==
    ASSUME Typed, Orderly(project), Content, NEW d \in Deployers, RunUp(d)
    PROVE  RecordsInv' /\ PlainDuty(d)' /\ DeepDuty(d)'
<1>1. /\ work[d].at = "up" /\ UNCHANGED <<Aside, records, dirty>>
      /\ \/ /\ UpEffect(Current(d), work[d].files[Current(d)], "built")
            /\ Turned(d, "finalizing", work[d].result, work[d].report)
         \/ UpInterrupted(d) /\ Turned(d, CloseOf(d), "error", work[d].report)
         \/ ~ CanRun(Current(d))
  BY RunUpEffect
<1>2. /\ RecordsInv /\ PlainDuty(d) /\ VersionedDuty(d) /\ ArmedDuty(d)
      /\ work[d].op = "apply" /\ work[d].stage = "versioned" /\ work[d].todo # <<>>
  BY <1>1, ArmedFacts DEF Inner
<1>3. PICK c \in project.two_phase : c = Current(d) /\ c \notin Met
         /\ project.depends_on[c] \subseteq Met /\ work[d].files[c] \in Nat \ {0}
  BY <1>1, ArmedFacts DEF Inner
<1>4. c \in Versions
  BY TwoPhaseFacts
<1>5. UNCHANGED <<project, records, journal, inflight>>
  BY <1>1 DEF Aside, records
<1>6. /\ inflight[c] = work[d].files[c] /\ schema[c] # "invalid"
      /\ c \notin project.replayable => schema[c] = "absent"
  BY <1>1, <1>2, <1>3 DEF ArmedDuty
<1>7. CASE ~ CanRun(Current(d))
  BY <1>2, <1>3, <1>4, <1>7, CanRunMet
<1>8. CASE UpInterrupted(d) /\ Turned(d, CloseOf(d), "error", work[d].report)
  <2>1. CloseOf(d) \notin Inner /\ CloseOf(d) \notin Before
    BY ClosePlace DEF Inner, Before
  <2>2. QED
    BY <2>1, <1>1, <1>2, <1>5, <1>8, TurnedOut, InterruptedKeeps
<1>9. CASE /\ UpEffect(c, work[d].files[c], "built")
           /\ Turned(d, "finalizing", work[d].result, work[d].report)
  <2>1. RecordsInv' /\ schema'[c] = "built"
    BY <1>2, <1>3, <1>5, <1>6, <1>9, RecordsUp
  <2>2. /\ work'[d].at = "finalizing" /\ work'[d].result = work[d].result /\ work'[d].op = "apply"
        /\ work'[d].stage = "versioned" /\ work'[d].todo = work[d].todo /\ work'[d].files = work[d].files
    BY <1>2, <1>9 DEF Turned, SamePlan
  <2>3. Current(d)' = c /\ Batch(d)' = Batch(d) /\ Met' = Met
    BY <2>2, <1>3, <1>5, Still DEF Current, Batch
  <2>4. VersionedDuty(d)'
    <3>1. "finalizing" # "running"
      OBVIOUS
    <3>2. QED
      BY <3>1, <1>2, <1>5, <1>9, VersionedStays
  <2>5. ArmedDuty(d)'
    BY <2>1, <2>2, <2>3, <1>3, <1>5, <1>6 DEF ArmedDuty
  <2>6. PlainDuty(d)'
    BY <2>2, <2>3, <1>2, <1>5 DEF PlainDuty, Before
  <2>7. QED
    BY <2>1, <2>2, <2>4, <2>5, <2>6 DEF DeepDuty
<1>10. QED
  BY <1>1, <1>3, <1>7, <1>8, <1>9

\* A finalized version is built by the body its row names.
LEMMA FinalizeKeeps ==
    ASSUME Typed, Orderly(project), Content, NEW d \in Deployers, FinalizeNonTxn(d)
    PROVE  RecordsInv' /\ PlainDuty(d)' /\ DeepDuty(d)'
<1>0. work[d].at = "finalizing"
  BY DEF FinalizeNonTxn
<1>1. /\ RecordsInv /\ PlainDuty(d) /\ VersionedDuty(d) /\ ArmedDuty(d)
      /\ work[d].op = "apply" /\ work[d].stage = "versioned" /\ work[d].todo # <<>>
  BY <1>0, ArmedFacts DEF Inner
<1>2. PICK c \in project.two_phase : c = Current(d) /\ c \notin Met
         /\ project.depends_on[c] \subseteq Met /\ work[d].files[c] \in Nat \ {0}
  BY <1>0, ArmedFacts DEF Inner
<1>3. c \in Versions /\ project.supersedes[c] = {} /\ c \notin project.repeatable
  BY TwoPhaseFacts
<1>4. inflight[c] = work[d].files[c] /\ schema[c] = "built"
  BY <1>0, <1>1, <1>2 DEF ArmedDuty
<1>5. /\ UNCHANGED <<Aside, built, dirty>>
      /\ \/ /\ JournalCompleted(c, work[d].files[c], KindOf(d))
            /\ inflight' = [inflight EXCEPT ![c] = 0] /\ Finished(d)
         \/ UNCHANGED records /\ Turned(d, CloseOf(d), "error", work[d].report)
  BY <1>1, <1>2, FinalizeEffect
<1>6. project' = project
  BY <1>5 DEF Aside
<1>7. CASE /\ JournalCompleted(c, work[d].files[c], KindOf(d))
           /\ inflight' = [inflight EXCEPT ![c] = 0] /\ Finished(d)
  <2>1. PICK kind \in {"apply", "squash", "repeatable", "none"} : kind = KindOf(d)
    BY KindTyped
  <2>2. JournalCompleted(c, work[d].files[c], kind)
    BY <2>1, <1>7
  <2>3. RecordsInv'
    BY <2>2, <1>1, <1>2, <1>4, <1>5, <1>6, <1>7, RecordsFinalized
  <2>4. /\ NetApplied' = NetApplied \cup {c} /\ Sup' = Sup \cup project.supersedes[c]
        /\ Met' = Met \cup {c} \cup project.supersedes[c]
        /\ Recorded(c)' = work[d].files[c]
        /\ \A w \in NetApplied : w # c => Recorded(w)' = Recorded(w)
    <3>1. /\ JournalInv /\ OrderInv /\ (c \notin Met \/ c \in project.repeatable)
          /\ c \in project.repeatable => kind = "repeatable"
          /\ project.supersedes[c] # {} => kind = "squash"
      BY <1>1, <1>2, <1>3 DEF RecordsInv
    <3>2. QED
      BY <2>2, <3>1, <1>2, <1>3, <1>6, AppliedKeeps, SMTT(60)
  <2>5. inflight'[c] = 0 /\ \A w \in Versions : w # c => inflight'[w] = inflight[w]
    BY <1>3, <1>7 DEF Typed, StateTyped
  <2>6. QED
    BY <2>3, <2>4, <2>5, <1>1, <1>2, <1>3, <1>6, <1>7, CompletedDuty
<1>8. CASE UNCHANGED records /\ Turned(d, CloseOf(d), "error", work[d].report)
  <2>1. CloseOf(d) \notin Inner /\ CloseOf(d) \notin Before
    BY ClosePlace DEF Inner, Before
  <2>2. QED
    BY <2>1, <1>1, <1>5, <1>6, <1>8, TurnedOut, RecordsStill
<1>9. QED
  BY <1>5, <1>7, <1>8

\* An operation that stops short: a failed read, a refusal, a failed statement.
LEMMA StopsKeep ==
    ASSUME Typed, Orderly(project), Content, NEW d \in Deployers,
           ReadFails(d) \/ HaltOne(d) \/ StatementFails(d)
    PROVE  RecordsInv' /\ PlainDuty(d)' /\ DeepDuty(d)'
<1>1. /\ UNCHANGED <<Aside, built, records>>
      /\ \E a \in {CloseOf(d), "releasing"} : \E why \in {"error", "drift", "precondition"} :
            Turned(d, a, why, work[d].report)
  BY ReadFailsEffect, HaltOneEffect, StatementFailsEffect
<1>2. project' = project /\ RecordsInv /\ PlainDuty(d)
  BY <1>1 DEF Aside, Content, DutyInv
<1>3. PICK a \in {CloseOf(d), "releasing"} : \E why \in {"error", "drift", "precondition"} :
         Turned(d, a, why, work[d].report)
  BY <1>1
<1>4. PICK why \in {"error", "drift", "precondition"} : Turned(d, a, why, work[d].report)
  BY <1>3
<1>5. a \notin Inner /\ a \notin Before /\ why # "ok" /\ why # "missing object"
  BY <1>3, ClosePlace DEF Inner, Before
<1>6. PlainDuty(d)' /\ DeepDuty(d)'
  BY <1>2, <1>4, <1>5, TurnedOut
<1>7. QED
  BY <1>1, <1>2, <1>6, RecordsStill

\* A plan is made of a journal that the lock keeps as it is.
LEMMA PlanKeeps ==
    ASSUME Typed, Orderly(project), Content, NEW d \in Deployers, PlanApply(d)
    PROVE  RecordsInv' /\ PlainDuty(d)' /\ DeepDuty(d)'
<1>1. /\ work[d].at = "planning" /\ work[d].op = "apply" /\ UNCHANGED <<project, built, records>>
      /\ \/ \E why \in Results \ {"ok", "missing object"} : Turned(d, CloseOf(d), why, work[d].report)
         \/ /\ ~ Drifted(work[d].files) /\ ~ SquashRefused(Batch(d) \ project.repeatable)
            /\ ~ Dangling(Batch(d) \ project.repeatable)
            /\ Planned(d, "versioned", TopoOrder[PendingOf(Batch(d) \ project.repeatable)], Started)
  BY PlanApplyEffect
<1>2. RecordsInv /\ PlainDuty(d)
  BY DEF Content, DutyInv
<1>3. RecordsInv'
  BY <1>1, <1>2, RecordsStill
<1>4. CASE \E why \in Results \ {"ok", "missing object"} : Turned(d, CloseOf(d), why, work[d].report)
  <2>1. PICK why \in Results \ {"ok", "missing object"} : Turned(d, CloseOf(d), why, work[d].report)
    BY <1>4
  <2>2. CloseOf(d) \notin Inner /\ CloseOf(d) \notin Before
    BY ClosePlace DEF Inner, Before
  <2>3. QED
    BY <2>1, <2>2, <1>1, <1>2, <1>3, TurnedOut
<1>5. CASE /\ ~ Drifted(work[d].files) /\ ~ SquashRefused(Batch(d) \ project.repeatable)
           /\ ~ Dangling(Batch(d) \ project.repeatable)
           /\ Planned(d, "versioned", TopoOrder[PendingOf(Batch(d) \ project.repeatable)], Started)
  <2>1. work[d].skipped = {}
    BY <1>1, <1>2 DEF PlainDuty, Before
  <2>2. VersionedDuty(d)'
    BY <2>1, <1>1, <1>2, <1>5, PlanDuty
  <2>3. /\ work'[d].at = "running" /\ work'[d].op = "apply" /\ work'[d].stage = "versioned"
        /\ work'[d].result = work[d].result /\ work'[d].files = work[d].files
    BY <1>1, <1>5 DEF Planned
  <2>4. PlainDuty(d)'
    BY <2>3, <1>1, <1>2 DEF PlainDuty, Before, Batch
  <2>5. DeepDuty(d)'
    BY <2>2, <2>3 DEF DeepDuty, Inner
  <2>6. QED
    BY <2>4, <2>5, <1>3
<1>6. QED
  BY <1>1, <1>4, <1>5

\* The repeatable phase plans over a journal with the versioned phase in it.
LEMMA RepeatablePlanKeeps ==
    ASSUME Typed, Orderly(project), Content, NEW d \in Deployers, PlanRepeatables(d)
    PROVE  RecordsInv' /\ PlainDuty(d)' /\ DeepDuty(d)'
<1> DEFINE reps == Batch(d) \cap project.repeatable
<1>1. /\ work[d].at = "running" /\ work[d].op = "apply" /\ work[d].stage = "versioned"
      /\ work[d].todo = <<>> /\ UNCHANGED <<project, built, records>>
      /\ \/ Turned(d, CloseOf(d), "dependency", work[d].report)
         \/ /\ \A v \in reps : project.depends_on[v] \subseteq reps \cup Satisfied
            /\ reps # {} => Len(TopoOrder[reps]) = Cardinality(reps)
            /\ Planned(d, "repeatable", TopoOrder[reps], Started)
  BY PlanRepeatablesEffect
<1>2. RecordsInv /\ PlainDuty(d) /\ DeepDuty(d)
  BY DEF Content, DutyInv
<1>3. RecordsInv'
  BY <1>1, <1>2, RecordsStill
<1>4. CASE Turned(d, CloseOf(d), "dependency", work[d].report)
  <2>1. CloseOf(d) \notin Inner /\ CloseOf(d) \notin Before
    BY ClosePlace DEF Inner, Before
  <2>2. QED
    BY <2>1, <1>1, <1>2, <1>3, <1>4, TurnedOut
<1>5. CASE /\ \A v \in reps : project.depends_on[v] \subseteq reps \cup Satisfied
           /\ reps # {} => Len(TopoOrder[reps]) = Cardinality(reps)
           /\ Planned(d, "repeatable", TopoOrder[reps], Started)
  <2>1. VersionedDuty(d)
    BY <1>1, <1>2 DEF DeepDuty, Inner
  <2>2. RepeatableDuty(d)'
    BY <2>1, <1>1, <1>2, <1>5, RepeatablePlanDuty
  <2>3. /\ work'[d].at = "running" /\ work'[d].op = "apply" /\ work'[d].stage = "repeatable"
        /\ work'[d].result = work[d].result /\ work'[d].files = work[d].files
    BY <1>1, <1>5 DEF Planned
  <2>4. PlainDuty(d)'
    BY <2>3, <1>1, <1>2 DEF PlainDuty, Before, Batch
  <2>5. DeepDuty(d)'
    BY <2>2, <2>3 DEF DeepDuty, Inner
  <2>6. QED
    BY <2>4, <2>5, <1>3
<1>6. QED
  BY <1>1, <1>4, <1>5

\* An apply ends well with everything it was given where it wants it.
LEMMA EndKeeps ==
    ASSUME Typed, Orderly(project), Content, NEW d \in Deployers, ApplyEnds(d)
    PROVE  RecordsInv' /\ PlainDuty(d)' /\ DeepDuty(d)'
<1>1. /\ work[d].at = "running" /\ work[d].todo = <<>> /\ UNCHANGED <<Aside, built, records>>
      /\ work[d].op = "apply" => work[d].stage = "repeatable"
      /\ Turned(d, CloseOf(d), work[d].result, work[d].report)
  BY ApplyEndsEffect
<1>2. RecordsInv /\ PlainDuty(d) /\ DeepDuty(d) /\ UNCHANGED <<project, built, records>>
  BY <1>1 DEF Content, DutyInv, Aside
<1>3. RecordsInv'
  BY <1>2, RecordsStill
<1>4. CASE work[d].op # "apply"
  <2>1. CloseOf(d) = "releasing"
    BY <1>4 DEF CloseOf
  <2>2. CloseOf(d) \notin Inner /\ CloseOf(d) \notin Before /\ work[d].result # "missing object"
    BY <2>1, <1>2 DEF Inner, Before, PlainDuty
  <2>3. QED
    BY <2>1, <2>2, <1>1, <1>2, <1>3, TurnedOut
<1>5. CASE work[d].op = "apply"
  <2>1. /\ work'[d].at = "restoring" /\ work'[d].op = "apply" /\ work'[d].result = work[d].result
        /\ work'[d].skipped = work[d].skipped /\ work'[d].files = work[d].files
    BY <1>1, <1>5 DEF Turned, SamePlan, CloseOf
  <2>2. \A v \in Batch(d) : inflight[v] = 0 /\ LandedIn(d, v)
    <3>1. RepeatableDuty(d)
      BY <1>1, <1>2, <1>5 DEF DeepDuty
    <3>2. Len(work[d].todo) = 0
      BY <1>1
    <3>3. QED
      BY <3>1, <3>2 DEF RepeatableDuty
  <2>3. NetApplied' = NetApplied /\ Sup' = Sup /\ inflight' = inflight
        /\ \A v : Recorded(v)' = Recorded(v)
    BY <1>2, Still DEF records
  <2>4. \A v \in Batch(d)' : (inflight[v] = 0)' /\ LandedIn(d, v)'
    BY <2>1, <2>2, <2>3 DEF Batch, LandedIn
  <2>5. PlainDuty(d)'
    BY <2>1, <1>2 DEF PlainDuty, Before, Batch
  <2>6. DeepDuty(d)'
    BY <2>1, <2>4 DEF DeepDuty, Inner
  <2>7. QED
    BY <2>5, <2>6, <1>3
<1>6. QED
  BY <1>4, <1>5

\* A rollback plans to undo what nothing that stays depends on.
LEMMA RollbackPlanKeeps ==
    ASSUME Typed, Orderly(project), Content, NEW d \in Deployers, PlanRollback(d)
    PROVE  RecordsInv' /\ PlainDuty(d)' /\ DeepDuty(d)'
<1>1. /\ work[d].at = "planning" /\ work[d].op = "rollback" /\ UNCHANGED <<project, built, records>>
      /\ \/ Turned(d, CloseOf(d), "rollback refused", work[d].report)
         \/ /\ ~ RollbackRefused(d) /\ Unwound(d) \subseteq Batch(d) \cap NetApplied \cap project.reversible
            /\ Planned(d, work[d].stage, Reverse(TopoOrder[Unwound(d)]), work[d].started)
  BY PlanRollbackEffect
<1>2. RecordsInv /\ PlainDuty(d)
  BY DEF Content, DutyInv
<1>3. RecordsInv'
  BY <1>1, <1>2, RecordsStill
<1>4. CASE Turned(d, CloseOf(d), "rollback refused", work[d].report)
  <2>1. CloseOf(d) \notin Inner /\ CloseOf(d) \notin Before
    BY ClosePlace DEF Inner, Before
  <2>2. QED
    BY <2>1, <1>1, <1>2, <1>3, <1>4, TurnedOut
<1>5. CASE /\ ~ RollbackRefused(d) /\ Unwound(d) \subseteq Batch(d) \cap NetApplied \cap project.reversible
           /\ Planned(d, work[d].stage, Reverse(TopoOrder[Unwound(d)]), work[d].started)
  <2>1. RollbackDuty(d)'
    BY <1>1, <1>2, <1>5, RollbackPlanDuty
  <2>2. /\ work'[d].at = "running" /\ work'[d].op = "rollback"
        /\ work'[d].result = work[d].result /\ work'[d].files = work[d].files
    BY <1>1, <1>5 DEF Planned
  <2>3. PlainDuty(d)'
    BY <2>2, <1>1, <1>2 DEF PlainDuty, Before, Batch
  <2>4. DeepDuty(d)'
    BY <2>1, <2>2 DEF DeepDuty, Inner
  <2>5. QED
    BY <2>3, <2>4, <1>3
<1>6. QED
  BY <1>1, <1>4, <1>5

\* One down: what it undoes has no dependent left.
LEMMA RollbackKeeps ==
    ASSUME Typed, Orderly(project), Content, NEW d \in Deployers, RollbackOne(d)
    PROVE  RecordsInv' /\ PlainDuty(d)' /\ DeepDuty(d)'
<1>1. /\ Running(d, "rollback") /\ UNCHANGED <<Aside, clobbered, inflight, edges>>
      /\ \/ /\ schema' = [o \in Objects |-> IF o \in Builds[Current(d)] THEN "absent" ELSE schema[o]]
            /\ body' = [o \in Objects |-> IF o \in Builds[Current(d)] THEN <<>> ELSE body[o]]
            /\ journal' = Append(journal,
                   Event("rolled_back", Current(d), work[d].files[Current(d)], "none"))
            /\ Finished(d)
         \/ UNCHANGED <<schema, body, journal>> /\ Turned(d, CloseOf(d), "error", work[d].report)
  BY RollbackOneEffect
<1>2. /\ RecordsInv /\ PlainDuty(d) /\ RollbackDuty(d) /\ project' = project
      /\ work[d].at = "running" /\ work[d].op = "rollback" /\ work[d].todo # <<>>
  BY <1>1 DEF Content, DutyInv, DeepDuty, Running, Aside
<1>3. PICK c \in Versions : c = Current(d) /\ work[d].files[c] \in Nat \ {0}
                             /\ c = work[d].todo[1] /\ 1 \in 1..Len(work[d].todo)
  BY <1>2, RunningTyped
<1>4. /\ c \in NetApplied /\ c \in project.reversible /\ c \notin project.two_phase /\ c \notin Sup
      /\ \A x \in NetApplied : c \notin project.depends_on[x]
  BY <1>2, <1>3 DEF RollbackDuty
<1>5. CloseOf(d) \notin Inner /\ CloseOf(d) \notin Before
  BY ClosePlace DEF Inner, Before
<1>6. CASE UNCHANGED <<schema, body, journal>> /\ Turned(d, CloseOf(d), "error", work[d].report)
  <2>1. UNCHANGED <<project, built, records>>
    BY <1>1, <1>2, <1>6 DEF built, records
  <2>2. QED
    BY <2>1, <1>2, <1>5, <1>6, RecordsStill, TurnedOut
<1>7. CASE /\ schema' = [o \in Objects |-> IF o \in Builds[c] THEN "absent" ELSE schema[o]]
           /\ body' = [o \in Objects |-> IF o \in Builds[c] THEN <<>> ELSE body[o]]
           /\ journal' = Append(journal, Event("rolled_back", c, work[d].files[c], "none"))
           /\ Finished(d)
  <2>1. RecordsInv'
    BY <1>1, <1>2, <1>3, <1>4, <1>7, RecordsRolled
  <2>2. NetApplied' = NetApplied \ {c} /\ Sup' = Sup
    <3>1. JournalInv /\ OrderInv
      BY <1>2 DEF RecordsInv
    <3>2. QED
      BY <3>1, <1>1, <1>2, <1>3, <1>4, <1>7, RolledKeeps
  <2>3. CASE Advanced(d, {})
    <3>1. RollbackDuty(d)'
      BY <2>2, <2>3, <1>2, <1>3, RollbackAdvances
    <3>2. /\ work'[d].at = "running" /\ work'[d].op = "rollback"
          /\ work'[d].result = work[d].result /\ work'[d].files = work[d].files
      BY <2>3, <1>2 DEF Advanced
    <3>3. PlainDuty(d)'
      BY <3>2, <1>2 DEF PlainDuty, Before, Batch
    <3>4. DeepDuty(d)'
      BY <3>1, <3>2 DEF DeepDuty, Inner
    <3>5. QED
      BY <3>3, <3>4, <2>1
  <2>4. CASE Turned(d, CloseOf(d), "error", work[d].report)
    BY <2>1, <2>4, <1>2, <1>5, TurnedOut
  <2>5. QED
    BY <2>3, <2>4, <1>7 DEF Finished
<1>8. QED
  BY <1>1, <1>3, <1>6, <1>7

\* A squash is recorded over versions that are all applied.
LEMMA SquashKeeps ==
    ASSUME Typed, Orderly(project), Content, NEW d \in Deployers, SquashLocked(d)
    PROVE  RecordsInv' /\ PlainDuty(d)' /\ DeepDuty(d)'
<1>1. /\ work[d].op = "squash" /\ UNCHANGED <<Aside, built>>
      /\ \E r \in {work[d].result, "error", "squash"} : Turned(d, "releasing", r, work[d].report)
      /\ \/ UNCHANGED records
         \/ \E s \in Batch(d) :
             /\ s \notin NetApplied /\ project.supersedes[s] \subseteq NetApplied
             /\ JournalCompleted(s, work[d].files[s], "squash") /\ UNCHANGED inflight
  BY SquashLockedEffect
<1>2. RecordsInv /\ PlainDuty(d) /\ UNCHANGED <<project, built>>
  BY <1>1 DEF Content, DutyInv, Aside
<1>3. PlainDuty(d)' /\ DeepDuty(d)'
  <2>1. PICK r \in {work[d].result, "error", "squash"} : Turned(d, "releasing", r, work[d].report)
    BY <1>1
  <2>2. r # "missing object" /\ "releasing" \notin Inner /\ "releasing" \notin Before
    BY <2>1, <1>2 DEF PlainDuty, Inner, Before
  <2>3. QED
    BY <2>1, <2>2, <1>2, TurnedOut
<1>4. CASE UNCHANGED records
  BY <1>2, <1>3, <1>4, RecordsStill
<1>5. ASSUME NEW s \in Batch(d), s \notin NetApplied, project.supersedes[s] \subseteq NetApplied,
             JournalCompleted(s, work[d].files[s], "squash"), UNCHANGED inflight
      PROVE  RecordsInv'
  <2>1. s \in Versions /\ work[d].files[s] \in Nat \ {0}
    BY ProjectTyped DEF Batch, Typed, StateTyped, WorkTyped, Operations, Files, WorkOf
  <2>2. project.supersedes[s] # {}
    BY <1>1, <1>2 DEF PlainDuty
  <2>3. QED
    BY <2>1, <2>2, <1>2, <1>5, RecordsSquash
<1>6. QED
  BY <1>1, <1>3, <1>4, <1>5

-----------------------------------------------------------------------------
(* The content of the database, whatever happens to the sessions.          *)

\* The steps of the bracket turn an operation and write nothing.
LEMMA BracketTurns ==
    ASSUME Typed, NEW d \in Deployers,
           \/ TakeProjectLock(d) \/ LockWaitFails(d) \/ DropGrantFromFailedAcquire(d)
           \/ SettleLockStatement(d) \/ RestoreSession(d) \/ ReleaseProjectLock(d)
    PROVE  /\ UNCHANGED <<project, built, records>>
           /\ \E a \in Places \ (Inner \cup {"restoring"}), r \in {work[d].result, "error"} : \E t :
                Turned(d, a, r, t) /\ (a \in Before => work[d].at \in Before)
<1> DEFINE Goes(a, r, t) == Turned(d, a, r, t) /\ (a \in Before => work[d].at \in Before)
           outside == Places \ (Inner \cup {"restoring"})
<1>1. UNCHANGED <<project, built, records>>
  BY DEF TakeProjectLock, LockWaitFails, DropGrantFromFailedAcquire, SettleLockStatement,
         RestoreSession, ReleaseProjectLock, Fault, NoFault, budgets
<1>2. /\ WorkTyped /\ work[d].result \in Results /\ work[d].report \in Reports
      /\ {"dropping", "settling", "planning", "releasing", "done"} \subseteq outside
      /\ "error" \in Results
  BY DEF Typed, WorkTyped, Operations, Places, Inner, Results
<1> SUFFICES \E a \in outside, r \in {work[d].result, "error"} : \E t : Goes(a, r, t)
  BY <1>1
<1>3. CASE TakeProjectLock(d)
  <2>1. Goto(d, "settling") /\ work[d].at = "waiting" /\ "settling" \in Places
    BY <1>2, <1>3 DEF TakeProjectLock
  <2>2. Goes("settling", work[d].result, work[d].report)
    BY <2>1, <1>2, GotoTurns DEF Before
  <2>3. QED
    BY <2>2, <1>2
<1>4. CASE LockWaitFails(d)
  <2>1. /\ Set(d, [work[d] EXCEPT !.at = "dropping", !.result = "error"])
        /\ work[d].at = "waiting" /\ "dropping" \in Places
    BY <1>2, <1>4 DEF LockWaitFails
  <2>2. Goes("dropping", "error", work[d].report)
    BY <2>1, <1>2, TurnTurns DEF Before
  <2>3. QED
    BY <2>2, <1>2
<1>5. CASE DropGrantFromFailedAcquire(d)
  <2>1. /\ work[d].at = "dropping" /\ "settling" \in Places /\ {"lock"} \in Reports
        /\ \/ Goto(d, "settling")
           \/ Set(d, [work[d] EXCEPT !.at = "settling", !.report = {"lock"}])
    BY <1>2, <1>5 DEF DropGrantFromFailedAcquire, Reports
  <2>2. Goes("settling", work[d].result, work[d].report) \/ Goes("settling", work[d].result, {"lock"})
    BY <2>1, <1>2, TurnTurns, GotoTurns DEF Before
  <2>3. QED
    BY <2>2, <1>2
<1>6. CASE SettleLockStatement(d)
  <2> DEFINE t == work[d].report \cup {"timeouts"} \cup (IF work[d].result = "ok" THEN {"lock"} ELSE {})
             a == IF work[d].result = "ok" THEN "planning" ELSE "done"
  <2>1. /\ work[d].at = "settling" /\ a \in outside /\ a \in Places /\ t \in Reports
        /\ Goto(d, a) \/ Set(d, [work[d] EXCEPT !.at = "done", !.result = "error", !.report = t])
    BY <1>2, <1>6 DEF SettleLockStatement, Reports
  <2> HIDE DEF t, a
  <2>2. Goes(a, work[d].result, work[d].report) \/ Goes("done", "error", t)
    BY <2>1, <1>2, TurnTurns, GotoTurns DEF Before
  <2>3. QED
    BY <2>1, <2>2, <1>2
<1>7. CASE RestoreSession(d)
  <2> DEFINE t == work[d].report \cup {"settings"}
  <2>1. /\ t \in Reports /\ "releasing" \in Places
        /\ \/ Goto(d, "releasing")
           \/ Set(d, [work[d] EXCEPT !.at = "releasing", !.result = "error", !.report = t])
    BY <1>2, <1>7 DEF RestoreSession, Reports
  <2> HIDE DEF t
  <2>2. Goes("releasing", work[d].result, work[d].report) \/ Goes("releasing", "error", t)
    BY <2>1, <1>2, TurnTurns, GotoTurns DEF Before
  <2>3. QED
    BY <2>2, <1>2
<1>8. CASE ReleaseProjectLock(d)
  <2> DEFINE t == work[d].report \cup {"lock"}
  <2>1. /\ t \in Reports /\ "done" \in Places
        /\ \/ Goto(d, "done")
           \/ Set(d, [work[d] EXCEPT !.at = "done", !.result = "error", !.report = t])
    BY <1>2, <1>8 DEF ReleaseProjectLock, Reports
  <2> HIDE DEF t
  <2>2. Goes("done", work[d].result, work[d].report) \/ Goes("done", "error", t)
    BY <2>1, <1>2, TurnTurns, GotoTurns DEF Before
  <2>3. QED
    BY <2>2, <1>2
<1>9. QED
  BY <1>3, <1>4, <1>5, <1>6, <1>7, <1>8

\* The steps of the bracket owe nothing.
LEMMA ContentBracket ==
    ASSUME Typed, Content, NEW d \in Deployers,
           \/ TakeProjectLock(d) \/ LockWaitFails(d) \/ DropGrantFromFailedAcquire(d)
           \/ SettleLockStatement(d) \/ RestoreSession(d) \/ ReleaseProjectLock(d)
    PROVE  Content'
<1>1. UNCHANGED <<project, built, records>>
  BY BracketTurns
<1>2. PICK a \in Places \ (Inner \cup {"restoring"}), r \in {work[d].result, "error"} : \E t :
         Turned(d, a, r, t) /\ (a \in Before => work[d].at \in Before)
  BY BracketTurns
<1>3. r # "missing object" /\ PlainDuty(d)
  BY <1>2 DEF Content, DutyInv, PlainDuty
<1>4. PlainDuty(d)' /\ DeepDuty(d)'
  BY <1>1, <1>2, <1>3, TurnedOut
<1>5. DutyInv'
  BY <1>1, <1>2, <1>4, DutyQuiet DEF Content, Turned
<1>6. QED
  BY <1>1, <1>5, RecordsStill DEF Content

\* An operation begins with nothing planned.
LEMMA ContentBegins ==
    ASSUME Typed, Content, NEW d \in Deployers, Apply(d) \/ Rollback(d) \/ Squash(d)
    PROVE  Content'
<1>1. Lifted(d)
  BY BeginningFacts
<1>2. PICK op \in {"apply", "rollback", "squash"}, batch \in SUBSET Versions :
         Begun(d, op, batch) /\ (op = "squash" => \A s \in batch : project.supersedes[s] # {})
  BY BeginningFacts
<1>3. /\ UNCHANGED <<project, built, records>> /\ work'[d].at \in {"waiting", "done"}
      /\ work'[d].result \in {"ok", "error"}
  BY <1>1 DEF Lifted
<1>4. /\ Alone(d) /\ work'[d].op = op /\ Batch(d)' = batch /\ work'[d].todo = <<>>
      /\ work'[d].skipped = {}
  BY <1>2 DEF Begun, Batch
<1>5. PlainDuty(d)'
  BY <1>2, <1>3, <1>4 DEF PlainDuty
<1>6. DeepDuty(d)'
  BY <1>3 DEF DeepDuty, Inner
<1>7. DutyInv'
  BY <1>3, <1>4, <1>5, <1>6, DutyQuiet DEF Content
<1>8. QED
  BY <1>3, <1>7, RecordsStill DEF Content

\* Nothing is owed by a session with no operation.
LEMMA IdleOwesNothing == ASSUME NEW d, work'[d] = Idle PROVE PlainDuty(d)' /\ DeepDuty(d)'
<1>1. Batch(d)' = {}
  BY DEF Batch, Idle
<1>2. PlainDuty(d)'
  BY <1>1 DEF PlainDuty, Idle
<1>3. DeepDuty(d)'
  BY DEF DeepDuty, Idle, Inner
<1>4. QED
  BY <1>2, <1>3

\* A session is handed back, or its deployer dies where it is.
LEMMA ContentLeaves ==
    ASSUME Typed, BracketInv, Orderly(project), Content, NEW d \in Deployers, HandBack(d) \/ Crash(d)
    PROVE  Content'
<1>1. /\ Alone(d) /\ work'[d] = Idle /\ UNCHANGED <<project, records>>
      /\ \/ UNCHANGED built
         \/ work[d].at = "up" /\ UpInterrupted(d)
  BY SetFacts, IdleTyped DEF Typed, HandBack, Crash, NoFault, Fault, budgets
<1>2. PlainDuty(d)' /\ DeepDuty(d)'
  BY <1>1, IdleOwesNothing
<1>3. CASE UNCHANGED built
  BY <1>1, <1>2, <1>3, DutyQuiet, RecordsStill DEF Content
<1>4. CASE work[d].at = "up" /\ UpInterrupted(d)
  <2>1. RecordsInv'
    BY <1>1, <1>4, InterruptedKeeps
  <2>2. lock = d
    BY <1>4 DEF BracketInv, BracketOf, Inner
  <2>3. DutyInv'
    BY <2>2, <1>1, <1>2, DutyLocked DEF Content
  <2>4. QED
    BY <2>1, <2>3 DEF Content
<1>5. QED
  BY <1>1, <1>3, <1>4

\* A step under the lock: nobody else has anything open.
LEMMA ContentInner ==
    ASSUME Typed, BracketInv, Orderly(project), Content, NEW d \in Deployers, InnerStep(d)
    PROVE  Content' /\ project' = project
<1>1. RecordsInv' /\ PlainDuty(d)' /\ DeepDuty(d)' /\ project' = project
  <2>1. CASE ReadFails(d) \/ HaltOne(d) \/ StatementFails(d)
    <3>1. project' = project
      BY <2>1, ReadFailsEffect, HaltOneEffect, StatementFailsEffect DEF Aside
    <3>2. QED
      BY <2>1, <3>1, StopsKeep
  <2>2. CASE PlanApply(d)
    BY <2>2, PlanKeeps, PlanApplyEffect
  <2>3. CASE PlanRepeatables(d)
    BY <2>3, RepeatablePlanKeeps, PlanRepeatablesEffect
  <2>4. CASE ApplyEnds(d)
    <3>1. project' = project
      BY <2>4, ApplyEndsEffect DEF Aside
    <3>2. QED
      BY <2>4, <3>1, EndKeeps
  <2>5. CASE SkipOne(d)
    <3>1. UNCHANGED <<project, built, records>>
      BY <2>5, SkipOneEffect DEF Aside
    <3>2. QED
      BY <2>5, <3>1, SkipKeeps, RecordsStill DEF Content
  <2>6. CASE ApplyTransactional(d)
    <3>1. project' = project
      BY <2>6, ApplyTransactionalEffect DEF Aside
    <3>2. QED
      BY <2>6, <3>1, TransactionalKeeps
  <2>7. CASE RecoverNonTransactional(d)
    <3>1. project' = project
      BY <2>7, RecoverEffect DEF Aside
    <3>2. QED
      BY <2>7, <3>1, RecoverKeeps
  <2>8. CASE RecordStarted(d)
    <3>1. project' = project
      BY <2>8, RecordStartedEffect DEF Aside
    <3>2. QED
      BY <2>8, <3>1, ArmKeeps
  <2>9. CASE RunUp(d)
    <3>1. project' = project
      BY <2>9, RunUpEffect DEF Aside
    <3>2. QED
      BY <2>9, <3>1, UpKeeps
  <2>10. CASE FinalizeNonTxn(d)
    <3>1. work[d].todo # <<>>
      BY <2>10 DEF FinalizeNonTxn, Typed, WorkOf, Inner
    <3>2. project' = project
      BY <2>10, <3>1, FinalizeEffect DEF Aside
    <3>3. QED
      BY <2>10, <3>2, FinalizeKeeps
  <2>11. CASE PlanRollback(d)
    BY <2>11, RollbackPlanKeeps, PlanRollbackEffect
  <2>12. CASE RollbackOne(d)
    <3>1. project' = project
      BY <2>12, RollbackOneEffect DEF Aside
    <3>2. QED
      BY <2>12, <3>1, RollbackKeeps
  <2>13. CASE SquashLocked(d)
    <3>1. project' = project
      BY <2>13, SquashLockedEffect DEF Aside
    <3>2. QED
      BY <2>13, <3>1, SquashKeeps
  <2>14. QED
    BY <2>1, <2>2, <2>3, <2>4, <2>5, <2>6, <2>7, <2>8, <2>9, <2>10, <2>11, <2>12, <2>13
       DEF InnerStep
<1>2. Alone(d) /\ lock = d
  BY InnerMoves DEF InnerMove, BracketInv, BracketOf
<1>3. DutyInv'
  BY <1>1, <1>2, DutyLocked DEF Content
<1>4. QED
  BY <1>1, <1>3 DEF Content

\* An author edits a file, or an operator clears a marker between two deploys.
LEMMA ContentAuthors ==
    ASSUME Typed, BracketInv, Orderly(project), Content,
           NEW v \in Versions, EditFile(v) \/ ClearInflight(v)
    PROVE  Content' /\ project' = project
<1>1. CASE EditFile(v)
  <2>1. UNCHANGED <<project, built, records>> /\ work' = work
    BY <1>1 DEF EditFile
  <2>2. DutyInv'
    BY <2>1, DutyStill DEF Content, DutyInv
  <2>3. QED
    BY <2>1, <2>2, RecordsStill DEF Content
<1>2. CASE ClearInflight(v)
  <2>1. lock = Nobody /\ project' = project /\ work' = work
    BY <1>2 DEF ClearInflight, budgets
  <2>2. RecordsInv'
    BY <1>2, RecordsCleared DEF Content
  <2>3. ASSUME NEW d \in Deployers PROVE PlainDuty(d)' /\ DeepDuty(d)'
    <3>1. work[d].at \notin Inner \cup {"restoring"}
      BY <2>1, CatalogueAssumption DEF CatalogueAssumption, BracketInv, BracketOf
    <3>2. DeepDuty(d)'
      BY <2>1, <3>1 DEF DeepDuty, Inner
    <3>3. PlainDuty(d)'
      BY <2>1 DEF PlainDuty, Batch, Content, DutyInv
    <3>4. QED
      BY <3>2, <3>3
  <2>4. QED
    BY <2>1, <2>2, <2>3 DEF Content, DutyInv
<1>3. QED
  BY <1>1, <1>2

\* Nothing is built, recorded or owed when the first deploy begins.
LEMMA ContentInit == Init => Content
<1>1. SUFFICES ASSUME Init PROVE Content
  OBVIOUS
<1>2. ASSUME NEW d \in Deployers PROVE PlainDuty(d) /\ DeepDuty(d)
  <2>1. work[d] = Idle
    BY <1>1 DEF Init
  <2>2. Batch(d) = {}
    BY <2>1 DEF Batch, Idle
  <2>3. PlainDuty(d)
    BY <2>1, <2>2 DEF PlainDuty, Idle
  <2>4. DeepDuty(d)
    BY <2>1 DEF DeepDuty, Idle, Inner
  <2>5. QED
    BY <2>3, <2>4
<1>3. QED
  BY <1>1, <1>2, RecordsInit DEF Content, DutyInv

\* Every step keeps the content of an orderly project's database.
LEMMA ContentNext ==
    ASSUME Typed, BracketInv, Orderly(project), Content, [Next]_vars
    PROVE  Content'
<1>1. ASSUME NEW d \in Deployers, Apply(d) \/ Rollback(d) \/ Squash(d) \/ Step(d) \/ Crash(d)
      PROVE  Content'
  <2>1. CASE Apply(d) \/ Rollback(d) \/ Squash(d)
    BY <2>1, ContentBegins
  <2>2. CASE InnerStep(d)
    BY <2>2, ContentInner
  <2>3. CASE HandBack(d) \/ Crash(d)
    BY <2>3, ContentLeaves
  <2>4. CASE TakeProjectLock(d) \/ LockWaitFails(d) \/ DropGrantFromFailedAcquire(d)
             \/ SettleLockStatement(d) \/ RestoreSession(d) \/ ReleaseProjectLock(d)
    BY <2>4, ContentBracket
  <2>5. QED
    BY <1>1, <2>1, <2>2, <2>3, <2>4 DEF Step, InnerStep
<1>2. ASSUME NEW v \in project.editable, EditFile(v) PROVE Content'
  <2>1. v \in Versions
    BY ProjectTyped DEF Typed, StateTyped
  <2>2. QED
    BY <1>2, <2>1, ContentAuthors
<1>3. ASSUME NEW v \in Versions, ClearInflight(v) PROVE Content'
  BY <1>3, ContentAuthors
<1>4. CASE UNCHANGED vars
  <2>1. UNCHANGED <<project, built, records>> /\ work' = work
    BY <1>4 DEF vars, built, records
  <2>2. DutyInv'
    BY <2>1, DutyStill DEF Content, DutyInv
  <2>3. QED
    BY <2>1, <2>2, RecordsStill DEF Content
<1>5. QED
  BY <1>1, <1>2, <1>3, <1>4 DEF Next

\* The project deployed never changes.
LEMMA ProjectStays == ASSUME [Next]_vars PROVE project' = project
<1>1. (Fault => project' = project) /\ (NoFault => project' = project)
  BY DEF Fault, NoFault, budgets
<1>2. ASSUME NEW d \in Deployers, Apply(d) \/ Rollback(d) \/ Squash(d) \/ Crash(d)
      PROVE  project' = project
  BY <1>1, <1>2 DEF Apply, Rollback, Squash, Begin, Crash
<1>3. ASSUME NEW d \in Deployers, Step(d) PROVE project' = project
  <2>1. CASE \/ TakeProjectLock(d) \/ LockWaitFails(d) \/ DropGrantFromFailedAcquire(d)
             \/ SettleLockStatement(d) \/ RestoreSession(d) \/ ReleaseProjectLock(d) \/ HandBack(d)
    BY <1>1, <2>1 DEF TakeProjectLock, LockWaitFails, DropGrantFromFailedAcquire,
       SettleLockStatement, RestoreSession, ReleaseProjectLock, HandBack
  <2>2. CASE \/ ReadFails(d) \/ PlanApply(d) \/ PlanRepeatables(d) \/ ApplyEnds(d) \/ SkipOne(d)
             \/ HaltOne(d) \/ StatementFails(d) \/ PlanRollback(d)
    BY <1>1, <2>2 DEF ReadFails, PlanApply, PlanRepeatables, ApplyEnds, SkipOne, HaltOne,
       StatementFails, PlanRollback
  <2>3. CASE ApplyTransactional(d)
    BY <1>1, <2>3 DEF ApplyTransactional
  <2>4. CASE RecoverNonTransactional(d) \/ RecordStarted(d) \/ FinalizeNonTxn(d)
    BY <1>1, <2>4 DEF RecoverNonTransactional, RecordStarted, FinalizeNonTxn
  <2>5. CASE RunUp(d) \/ RollbackOne(d) \/ SquashLocked(d)
    BY <1>1, <2>5 DEF RunUp, RollbackOne, SquashLocked
  <2>6. QED
    BY <1>3, <2>1, <2>2, <2>3, <2>4, <2>5 DEF Step
<1>4. ASSUME NEW v, EditFile(v) \/ ClearInflight(v) PROVE project' = project
  BY <1>4 DEF EditFile, ClearInflight, budgets
<1>5. QED
  BY <1>2, <1>3, <1>4 DEF Next, vars

\* The content of an orderly project's database, throughout.
LEMMA OrderlyContent == Spec => [](Typed /\ BracketInv /\ (Orderly(project) => Content))
<1>1. Init => Typed /\ BracketInv /\ (Orderly(project) => Content)
  BY TypedInit, BracketInit, ContentInit
<1>2. ASSUME Typed /\ BracketInv /\ (Orderly(project) => Content), [Next]_vars
      PROVE  (Typed /\ BracketInv /\ (Orderly(project) => Content))'
  <2>1. project' = project
    BY <1>2, ProjectStays
  <2>2. Orderly(project)' => Orderly(project)
    BY <2>1 DEF Orderly, Skippable
  <2>3. QED
    BY <1>2, <2>2, TypedNext, BracketNext, ContentNext
<1>3. QED
  BY <1>1, <1>2, PTL DEF Spec

-----------------------------------------------------------------------------
(* What a deploy promises of an orderly project.                           *)

\* Types, from the records in full.
LEMMA TypedTypes == ASSUME Typed, clobbered = {} PROVE TypeOK
<1>1. ASSUME NEW d \in Deployers
      PROVE  /\ work[d].at \in Places /\ Batch(d) \subseteq Versions
             /\ ToSet(work[d].todo) \cup work[d].skipped \subseteq Batch(d)
             /\ work[d].report \subseteq {"timeouts", "settings", "lock"}
  <2>1. work[d] \in Operations /\ WorkOf(d)
    BY DEF Typed, WorkTyped
  <2>2. Batch(d) \subseteq Versions
    BY <2>1 DEF Operations, Files, Batch
  <2>3. ToSet(work[d].todo) \subseteq Batch(d)
    BY <2>1 DEF ToSet, WorkOf, Operations
  <2>4. QED
    BY <2>1, <2>2, <2>3 DEF Operations, WorkOf, Reports
<1>2. project.max_edits \in Nat
  BY ProjectTyped DEF Typed, StateTyped
<1>3. edition \in [Versions -> 1..project.max_edits + 1]
  BY <1>2 DEF Typed, StateTyped
<1>4. \A i \in 1..Len(journal) : journal[i] \in
            [event : {"applied", "rolled_back"}, version : Versions, checksum : 1..project.max_edits + 1,
             kind : {"apply", "squash", "repeatable", "none"}]
  <2>1. TAKE i \in 1..Len(journal)
  <2>2. journal[i] \in Events /\ journal[i].checksum \in Sums
    BY DEF Typed, StateTyped
  <2>3. QED
    BY <2>2 DEF Events, Sums
<1>5. QED
  BY <1>1, <1>3, <1>4 DEF Typed, StateTyped, TypeOK

\* In every deploy of an orderly project, through every crash, lost reply, edit,
\* rollback and squash: what the journal calls applied is in the schema, whole,
\* built by the body recorded; what was built is journaled or marked; nothing was
\* built over itself.
THEOREM JournalTellsTheSchema == Spec => [](Orderly(project) => SchemaAgrees)
<1>1. ASSUME Typed, Orderly(project), Content PROVE SchemaAgrees
  <2>1. JournalInv /\ SchemaInv /\ project \in Projects
    BY <1>1 DEF Content, RecordsInv, Typed, StateTyped
  <2>2. TypeOK /\ BuiltOnce
    BY <1>1, <2>1, TypedTypes DEF SchemaInv, BuiltOnce
  <2>3. JournalTruthful
    <3>1. ASSUME NEW v \in NetApplied
          PROVE  /\ \A o \in Builds[v] : schema[o] = "built"
                 /\ project.supersedes[v] = {} => body[v] = <<v, Recorded(v)>>
      <4>1. v \in Met /\ v \in Versions
        BY DEF Met, NetApplied
      <4>2. \A o \in Builds[v] : schema[o] = "built"
        BY <4>1, <1>1, <2>1, MetBuilt
      <4>3. project.supersedes[v] = {} => body[v] = <<v, Recorded(v)>>
        BY <4>1, <2>1 DEF SchemaInv, Objects
      <4>4. QED
        BY <4>2, <4>3
    <3>2. QED
      BY <3>1 DEF JournalTruthful
  <2>4. NothingUntracked
    <3>1. ASSUME NEW o \in Objects, schema[o] # "absent"
          PROVE  \E v \in NetApplied \cup {w \in Versions : inflight[w] # 0} : o \in Builds[v]
      <4>1. o \in Versions /\ Builds[o] = {o}
        BY <1>1, <2>1, BuildsFacts DEF Objects
      <4>2. o \in NetApplied \/ o \in Sup \/ inflight[o] # 0
        BY <3>1, <2>1 DEF SchemaInv, Met
      <4>3. CASE o \in Sup
        <5>1. PICK s \in NetApplied : o \in project.supersedes[s]
          BY <4>3 DEF Sup
        <5>2. s \in Versions /\ Builds[s] = project.supersedes[s]
          BY <5>1, <1>1, <2>1, BuildsFacts DEF NetApplied
        <5>3. QED
          BY <5>1, <5>2
      <4>4. QED
        BY <4>1, <4>2, <4>3
    <3>2. QED
      BY <3>1 DEF NothingUntracked
  <2>5. QED
    BY <2>2, <2>3, <2>4 DEF SchemaAgrees
<1>2. QED
  BY <1>1, OrderlyContent, PTL

\* In every deploy of an orderly project: what is applied stands on what it
\* depends on, and no up is sent to a schema without it.
THEOREM DependenciesHold == Spec => [](Orderly(project) => DependenciesStand)
<1>1. ASSUME Typed, Orderly(project), Content PROVE DependenciesStand
  <2>1. OrderInv /\ SchemaInv
    BY <1>1 DEF Content, RecordsInv
  <2>2. DependentsStand
    BY <1>1, <2>1, MetBuilt DEF DependentsStand, OrderInv
  <2>3. NeverBlind
    BY <1>1 DEF NeverBlind, Content, DutyInv, PlainDuty
  <2>4. QED
    BY <2>2, <2>3 DEF DependenciesStand
<1>2. QED
  BY <1>1, OrderlyContent, PTL

\* In every deploy of an orderly project: one that ends well has landed or
\* reported skipped every file it was given, and left no marker armed.
THEOREM GreenIsDone == Spec => [](Orderly(project) => GreenDeploys)
<1>1. ASSUME Typed, Orderly(project), Content PROVE GreenDeploys
  <2>1. JournalInv /\ SchemaInv
    BY <1>1 DEF Content, RecordsInv
  <2>2. ASSUME NEW d \in Deployers, work[d].op = "apply", work[d].at = "restoring", work[d].result = "ok"
        PROVE  \A v \in Batch(d) : inflight[v] = 0 /\ LandedIn(d, v)
    BY <1>1, <2>2 DEF Content, DutyInv, DeepDuty
  <2>3. superseded_versions = Sup
    BY <1>1, <2>1, ReadersFacts
  <2>4. \A v \in Sup : \A o \in Builds[v] : schema[o] = "built"
    BY <1>1, <2>1, MetBuilt DEF Met
  <2>5. GreenMeansLanded
    BY <2>2, <2>3, <2>4 DEF GreenMeansLanded, LandedIn
  <2>6. GreenLeavesNoMarker
    BY <2>2 DEF GreenLeavesNoMarker
  <2>7. QED
    BY <2>5, <2>6 DEF GreenDeploys
<1>2. QED
  BY <1>1, OrderlyContent, PTL
=============================================================================
