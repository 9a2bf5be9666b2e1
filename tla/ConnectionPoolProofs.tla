------------------------ MODULE ConnectionPoolProofs ------------------------
(***************************************************************************)
(* Proofs about ConnectionPool, for any callers and closers, any sizes of  *)
(* the pool, anything its borrowers do and any number of failures.         *)
(***************************************************************************)
EXTENDS ConnectionPool, FiniteSetTheorems, WellFoundedInduction, TLAPS

-----------------------------------------------------------------------------
(* The inductive invariant.                                                *)

\* What may be offered to a caller.
Offered == {s \in Session : ~s.open /\ ~s.token}

\* Where a caller may be, with the session it has there.
Standing ==
    [at : {"out", "parked", "connecting"}, has : {Null}]
        \cup [at : {"checking"}, has : Offered] \cup [at : {"holding"}, has : Session]

Shape ==
    /\ pool \in Pools
    /\ idle \in Seq(Offered) /\ waiters \in Seq(Callers) /\ woken \subseteq Callers
    /\ slot \in [Callers -> Offered \cup {Null}]
    /\ total \in Nat /\ active \in Nat /\ closed \in BOOLEAN
    /\ caller \in [Callers -> Standing]
    /\ closer \in [Closers -> {"no", "waiting", "woken", "done"}]
    /\ keeper \in {"asleep", "connecting", "cancelled", "off"}
    /\ spoils \in 0..pool.spoils

Elements(q) == {q[i] : i \in DOMAIN q}
Distinct(q) == \A i, j \in DOMAIN q : q[i] = q[j] => i = j

Used == Places({"checking", "connecting", "holding"})
Borrowing == Places({"holding"})
Parked == Places({"parked"})
Reserved == IF keeper \in {"connecting", "cancelled"} THEN 1 ELSE 0

\* A parked caller is in the queue once, or has a session handed to it.
Lined(q, handed, parked) ==
    Distinct(q) /\ Elements(q) \cap handed = {} /\ Elements(q) \cup handed = parked

QueueInv == ~closed => Lined(waiters, Handed, Parked)

\* What begin_close leaves behind stays empty.
ClosedInv ==
    /\ closed => idle = <<>> /\ waiters = <<>> /\ Handed = {}
    /\ closed <=> keeper \in {"cancelled", "off"}

Accounts ==
    /\ total = Len(idle) + (Cardinality(Handed) + Cardinality(Used) + Reserved)
    /\ active = Cardinality(Borrowing)
    /\ total <= pool.max_size

IInv == Shape /\ QueueInv /\ ClosedInv /\ Accounts /\ HeadAwake

-----------------------------------------------------------------------------
(* Positions and ranks.                                                    *)

Rank(K, j) == Cardinality({l \in K : l <= j})
Pos(K, i) == CHOOSE j \in K : Rank(K, j) = i

\* A non-empty set of positions has a first one.
LEMMA FirstOf ==
    ASSUME NEW S, S \subseteq Nat, S # {}
    PROVE  \E x \in S : \A y \in S : x <= y
<1> DEFINE R == {ss \in Nat \X Nat : ss[1] < ss[2]}
<1>1. R = OpToRel(<, Nat)
  BY Zenon DEF OpToRel
<1>2. IsWellFoundedOn(R, Nat)
  BY <1>1, NatLessThanWellFounded, Zenon
<1> HIDE DEF R
<1>3. PICK x \in S : \A y \in S : ~(<<y, x>> \in R)
  BY <1>2, WFMin, Zenon
<1>4. \A y \in S : x <= y
  <2>1. TAKE y \in S
  <2>2. y \in Nat /\ x \in Nat /\ <<y, x>> \in Nat \X Nat
    OBVIOUS
  <2>3. ~(<<y, x>>[1] < <<y, x>>[2])
    BY <1>3, <2>2, Zenon DEF R
  <2>4. QED
    BY <2>2, <2>3, SMT
<1>5. QED
  BY <1>4

\* Positions of a sequence are finite in number.
LEMMA PositionsFinite ==
    ASSUME NEW m \in Nat, NEW K \in SUBSET (1..m)
    PROVE  IsFiniteSet(K) /\ Cardinality(K) \in Nat /\ Cardinality(K) <= m
<1>1. IsFiniteSet(1..m) /\ Cardinality(1..m) = IF 1 > m THEN 0 ELSE m-1+1
  BY FS_Interval
<1>2. Cardinality(1..m) = m
  BY <1>1
<1>3. QED
  BY <1>1, <1>2, FS_Subset, FS_CardinalityType

\* A position's rank is within the number of positions, and grows with it.
LEMMA RankFacts ==
    ASSUME NEW m \in Nat, NEW K \in SUBSET (1..m)
    PROVE  /\ \A j \in K : Rank(K, j) \in 1..Cardinality(K)
           /\ \A j, k \in K : Rank(K, j) = Rank(K, k) => j = k
<1>1. IsFiniteSet(K) /\ Cardinality(K) \in Nat
  BY PositionsFinite
<1>2. ASSUME NEW j \in K
      PROVE  Rank(K, j) \in 1..Cardinality(K) /\ IsFiniteSet({l \in K : l <= j})
  <2> DEFINE B == {l \in K : l <= j}
  <2>1. IsFiniteSet(B) /\ Cardinality(B) <= Cardinality(K) /\ Cardinality(B) \in Nat
    BY <1>1, FS_Subset, FS_CardinalityType
  <2>2. j \in B
    OBVIOUS
  <2>3. Cardinality(B) # 0
    BY <2>1, <2>2, FS_EmptySet
  <2>4. QED
    BY <1>1, <2>1, <2>3 DEF Rank
<1>3. ASSUME NEW j \in K, NEW k \in K, j < k
      PROVE  Rank(K, j) # Rank(K, k)
  <2>1. {l \in K : l <= j} \in SUBSET {l \in K : l <= k}
    <3>1. \A l \in K : l \in Nat
      OBVIOUS
    <3>2. \A l \in K : l <= j => l <= k
      BY <1>3, <3>1
    <3>3. QED
      BY <3>2
  <2>2. k \in {l \in K : l <= k} /\ k \notin {l \in K : l <= j}
    BY <1>3
  <2>3. QED
    BY <1>2, <2>1, <2>2, FS_Subset DEF Rank
<1>4. QED
  <2>1. \A j, k \in K : j < k \/ k < j \/ j = k
    OBVIOUS
  <2>2. QED
    BY <1>2, <1>3, <2>1

\* Every rank is taken: the first one that is not would be that of the position
\* behind the one of the rank before.
LEMMA RanksTaken ==
    ASSUME NEW m \in Nat, NEW K \in SUBSET (1..m)
    PROVE  \A i \in 1..Cardinality(K) : \E j \in K : Rank(K, j) = i
<1> DEFINE Missing == {i \in 1..Cardinality(K) : ~\E j \in K : Rank(K, j) = i}
<1>1. IsFiniteSet(K) /\ Cardinality(K) \in Nat /\ K \subseteq Nat
  BY PositionsFinite
<1>2. ASSUME Missing # {} PROVE FALSE
  <2>1. PICK i \in Missing : \A y \in Missing : i <= y
    <3>1. Missing \subseteq Nat
      BY <1>1
    <3> HIDE DEF Missing
    <3>2. QED
      BY <1>2, <3>1, FirstOf
  <2>2. i \in 1..Cardinality(K) /\ ~\E j \in K : Rank(K, j) = i
    BY <2>1
  <2>3. PICK B \in SUBSET K : /\ Cardinality(B) = i - 1 /\ IsFiniteSet(B)
                              /\ \A b \in B : \A l \in K : l <= b => l \in B
    <3>1. CASE i = 1
      BY <2>2, <3>1, FS_EmptySet
    <3>2. CASE i # 1
      <4>1. i - 1 \in 1..Cardinality(K) /\ i - 1 \notin Missing
        BY <1>1, <2>1, <2>2, <3>2
      <4>2. PICK j \in K : Rank(K, j) = i - 1
        BY <4>1
      <4>3. WITNESS {l \in K : l <= j} \in SUBSET K
      <4>4. QED
        BY <1>1, <4>2, FS_Subset DEF Rank
    <3>3. QED
      BY <3>1, <3>2
  <2>4. K \ B # {}
    <3>1. i - 1 # Cardinality(K)
      BY <1>1, <2>2
    <3>2. K # B
      BY <2>3, <3>1
    <3>3. QED
      BY <3>2
  <2>5. PICK x \in K \ B : \A y \in K \ B : x <= y
    BY <1>1, <2>4, FirstOf
  <2>6. {l \in K : l <= x} = B \cup {x}
    <3>1. \A l \in K : l \in Nat
      BY <1>1
    <3>2. \A l \in K : l <= x => l \in B \/ l = x
      BY <2>5, <3>1
    <3>3. \A l \in B : l <= x
      BY <2>3, <2>5, <3>1
    <3>4. B \subseteq K /\ x \in K /\ x <= x
      BY <2>5, <3>1
    <3>5. QED
      BY <3>2, <3>3, <3>4
  <2>7. Cardinality(B \cup {x}) = Cardinality(B) + 1
    BY <2>3, <2>5, FS_AddElement
  <2>8. Rank(K, x) = i
    <3>1. Rank(K, x) = Cardinality(B \cup {x})
      BY <2>6 DEF Rank
    <3>2. Rank(K, x) = (i - 1) + 1
      BY <2>3, <2>7, <3>1
    <3>3. QED
      BY <2>2, <3>2
  <2>9. QED
    BY <2>2, <2>5, <2>8
<1>3. QED
  BY <1>2

\* Kept has one element for each position, and none other.
LEMMA KeptFacts ==
    ASSUME NEW S, NEW q \in Seq(S), NEW K \in SUBSET (DOMAIN q)
    PROVE  /\ Kept(q, K) \in Seq(S) /\ Len(Kept(q, K)) = Cardinality(K)
           /\ Cardinality(K) \in Nat /\ Cardinality(K) <= Len(q)
           /\ Elements(Kept(q, K)) = {q[j] : j \in K}
           /\ Distinct(q) => Distinct(Kept(q, K))
<1> DEFINE m == Len(q)
           n == Cardinality(K)
<1>1. m \in Nat /\ K \in SUBSET (1..m) /\ \A j \in K : q[j] \in S
  OBVIOUS
<1>2. n \in Nat /\ n <= m
  BY <1>1, PositionsFinite
<1>3. \A i \in 1..n : Pos(K, i) \in K /\ Rank(K, Pos(K, i)) = i
  <2>1. \A i \in 1..n : \E j \in K : Rank(K, j) = i
    BY <1>1, RanksTaken
  <2>2. QED
    BY <2>1 DEF Pos
<1>4. \A j \in K : Rank(K, j) \in 1..n /\ Pos(K, Rank(K, j)) = j
  BY <1>1, <1>3, RankFacts
<1>5. Kept(q, K) = [i \in 1..n |-> q[Pos(K, i)]]
  BY DEF Kept, Pos, Rank
<1> HIDE DEF m, n
<1>6. Kept(q, K) \in [1..n -> S]
  BY <1>1, <1>3, <1>5
<1>7. Kept(q, K) \in Seq(S) /\ Len(Kept(q, K)) = n /\ DOMAIN Kept(q, K) = 1..n
  BY <1>2, <1>6
<1>8. Elements(Kept(q, K)) = {q[j] : j \in K}
  BY <1>3, <1>4, <1>5, <1>7 DEF Elements
<1>9. Distinct(q) => Distinct(Kept(q, K))
  <2> SUFFICES ASSUME Distinct(q), NEW i \in 1..n, NEW j \in 1..n, Kept(q, K)[i] = Kept(q, K)[j]
               PROVE  i = j
    BY <1>7 DEF Distinct
  <2>1. Pos(K, i) = Pos(K, j)
    BY <1>3, <1>5 DEF Distinct
  <2>2. QED
    BY <1>3, <2>1
<1>10. QED
  BY <1>2, <1>7, <1>8, <1>9 DEF m, n

-----------------------------------------------------------------------------
(* Sequences, sets of callers and places.                                  *)

\* Joining the queue.
LEMMA Joined ==
    ASSUME NEW S, NEW q \in Seq(S), NEW x \in S
    PROVE  /\ Append(q, x) \in Seq(S) /\ Len(Append(q, x)) = Len(q) + 1 /\ Append(q, x) # <<>>
           /\ Elements(Append(q, x)) = Elements(q) \cup {x}
           /\ Distinct(q) /\ x \notin Elements(q) => Distinct(Append(q, x))
           /\ q # <<>> => Head(Append(q, x)) = Head(q)
<1>1. /\ Append(q, x) \in Seq(S) /\ Len(Append(q, x)) = Len(q) + 1 /\ Len(q) \in Nat
      /\ Append(q, x)[Len(q) + 1] = x /\ \A i \in 1..Len(q) : Append(q, x)[i] = q[i]
      /\ DOMAIN q = 1..Len(q) /\ DOMAIN Append(q, x) = 1..(Len(q) + 1)
  OBVIOUS
<1>2. Append(q, x) # <<>>
  BY <1>1
<1>3. Elements(Append(q, x)) = Elements(q) \cup {x}
  BY <1>1 DEF Elements
<1>4. Distinct(q) /\ x \notin Elements(q) => Distinct(Append(q, x))
  BY <1>1 DEF Elements, Distinct
<1>5. q # <<>> => Head(Append(q, x)) = Head(q)
  BY <1>1
<1>6. QED
  BY <1>1, <1>2, <1>3, <1>4, <1>5

\* Leaving the queue at its head.
LEMMA Served ==
    ASSUME NEW S, NEW q \in Seq(S), q # <<>>
    PROVE  /\ Head(q) \in S /\ Head(q) \in Elements(q)
           /\ Tail(q) \in Seq(S) /\ Len(Tail(q)) = Len(q) - 1
           /\ Distinct(q) => Distinct(Tail(q)) /\ Elements(Tail(q)) = Elements(q) \ {Head(q)}
<1>1. /\ Tail(q) \in Seq(S) /\ Len(Tail(q)) = Len(q) - 1 /\ Len(q) \in Nat \ {0}
      /\ \A i \in 1..(Len(q) - 1) : Tail(q)[i] = q[i + 1]
      /\ Head(q) = q[1] /\ 1 \in DOMAIN q /\ q[1] \in S
      /\ DOMAIN q = 1..Len(q) /\ DOMAIN Tail(q) = 1..(Len(q) - 1)
  OBVIOUS
<1>2. Head(q) \in Elements(q)
  BY <1>1 DEF Elements
<1>3. ASSUME Distinct(q) PROVE Distinct(Tail(q)) /\ Elements(Tail(q)) = Elements(q) \ {Head(q)}
  <2>1. Distinct(Tail(q))
    <3> SUFFICES ASSUME NEW i \in 1..(Len(q) - 1), NEW j \in 1..(Len(q) - 1), Tail(q)[i] = Tail(q)[j]
                 PROVE  i = j
      BY <1>1 DEF Distinct
    <3>1. i + 1 \in DOMAIN q /\ j + 1 \in DOMAIN q /\ q[i + 1] = q[j + 1]
      BY <1>1
    <3>2. i + 1 = j + 1
      BY <1>3, <3>1 DEF Distinct
    <3>3. QED
      BY <3>2
  <2>2. Elements(Tail(q)) \subseteq Elements(q) \ {Head(q)}
    <3> SUFFICES ASSUME NEW i \in 1..(Len(q) - 1)
                 PROVE  Tail(q)[i] \in Elements(q) \ {Head(q)}
      BY <1>1 DEF Elements
    <3>1. i + 1 \in DOMAIN q /\ i + 1 # 1 /\ Tail(q)[i] = q[i + 1]
      BY <1>1
    <3>2. QED
      BY <1>1, <1>3, <3>1 DEF Elements, Distinct
  <2>3. Elements(q) \ {Head(q)} \subseteq Elements(Tail(q))
    <3> SUFFICES ASSUME NEW i \in DOMAIN q, q[i] # Head(q)
                 PROVE  q[i] \in Elements(Tail(q))
      BY DEF Elements
    <3>1. i - 1 \in DOMAIN Tail(q) /\ (i - 1) + 1 = i
      BY <1>1
    <3>2. Tail(q)[i - 1] = q[(i - 1) + 1]
      BY <1>1, <3>1
    <3>3. QED
      BY <3>1, <3>2 DEF Elements
  <2>4. QED
    BY <2>1, <2>2, <2>3
<1>4. QED
  BY <1>1, <1>2, <1>3

\* The empty queue.
LEMMA Nobody == Elements(<<>>) = {} /\ Distinct(<<>>)
  BY DEF Elements, Distinct

\* Callers are finite in number.
LEMMA Some == ASSUME NEW S \in SUBSET Callers PROVE Cardinality(S) \in Nat
  BY PoolAssumption, FS_Subset, FS_CardinalityType

\* Counting callers.
LEMMA Count ==
    ASSUME NEW S \in SUBSET Callers, NEW c \in Callers
    PROVE  /\ Cardinality(S) \in Nat /\ Cardinality(S \ {c}) \in Nat
           /\ Cardinality(S \ {c}) = IF c \in S THEN Cardinality(S) - 1 ELSE Cardinality(S)
           /\ Cardinality(S \cup {c}) = IF c \in S THEN Cardinality(S) ELSE Cardinality(S) + 1
           /\ Cardinality((S \ {c}) \cup {c}) = Cardinality(S \ {c}) + 1
<1>1. IsFiniteSet(S)
  BY PoolAssumption, FS_Subset
<1>2. IsFiniteSet(S \ {c})
  BY <1>1, FS_RemoveElement
<1>3. Cardinality(S) \in Nat /\ Cardinality(S \ {c}) \in Nat
  BY <1>1, <1>2, FS_CardinalityType
<1>4. Cardinality(S \ {c}) = IF c \in S THEN Cardinality(S) - 1 ELSE Cardinality(S)
  BY <1>1, FS_RemoveElement
<1>5. Cardinality(S \cup {c}) = IF c \in S THEN Cardinality(S) ELSE Cardinality(S) + 1
  BY <1>1, FS_AddElement
<1>6. Cardinality((S \ {c}) \cup {c}) = Cardinality(S \ {c}) + 1
  BY <1>2, FS_AddElement
<1>7. QED
  BY <1>3, <1>4, <1>5, <1>6

\* Sizes of the pool.
LEMMA Sizes ==
    ASSUME pool \in Pools
    PROVE  pool.max_size \in Nat \ {0} /\ pool.min_idle \in 0..pool.max_size /\ pool.spoils \in Nat
  BY PoolAssumption DEF WellConfigured

\* Sessions that may be offered.
LEMMA Offers ==
    /\ Fresh \in Offered /\ Offered \subseteq Session /\ Null \notin Offered
    /\ \A s \in Offered : Spoiled(s) \in Offered
    /\ \A s \in Session : Spoiled(s) \in Session /\ (~s.token => Rolled(s) \in Offered)
<1>1. Fresh \in Session /\ ~Fresh.open /\ ~Fresh.token
  BY DEF Fresh, Session
<1>2. \A s \in Session : /\ Spoiled(s) \in Session /\ Spoiled(s).open = s.open /\ Spoiled(s).token = s.token
  BY DEF Spoiled, Session
<1>3. \A s \in Session : Rolled(s) \in Session /\ ~Rolled(s).open /\ Rolled(s).token = s.token
  BY DEF Rolled, Idle, Session
<1>4. QED
  BY <1>1, <1>2, <1>3, PoolAssumption DEF Offered

\* Places a caller may be at.
LEMMA Stand ==
    /\ \A p \in {"out", "parked", "connecting"} : At(p, Null) \in Standing /\ At(p, Null).at = p
    /\ \A s \in Offered : At("checking", s) \in Standing /\ At("checking", s).at = "checking"
    /\ \A s \in Session : /\ At("holding", s) \in Standing /\ At("holding", s).at = "holding"
                          /\ At("holding", s).has = s
    /\ \A x \in Standing :
        /\ x.at \in {"out", "parked", "connecting", "checking", "holding"}
        /\ x.at = "checking" => x.has \in Offered
        /\ x.at = "holding" => x.has \in Session
        /\ x.at \in {"out", "parked", "connecting"} => x.has = Null
  BY DEF Standing, At

\* The last usable session, or none.
LEMMA LastUsableIndex ==
    ASSUME NEW shelf \in Seq(Offered)
    PROVE  LastUsable(shelf) \in 0..Len(shelf)
<1> DEFINE D == {d \in 0..Len(shelf) : d = Len(shelf) \/ shelf[Len(shelf) - d].ok}
<1>1. Len(shelf) \in Nat
  OBVIOUS
<1>2. D \subseteq Nat /\ D # {}
  BY <1>1
<1> HIDE DEF D
<1>3. PICK d \in D : \A e \in D : d <= e
  BY <1>2, FirstOf
<1> DEFINE i == Len(shelf) - d
<1>4. i \in 0..Len(shelf) /\ (i > 0 => shelf[i].ok)
  BY <1>1, <1>3 DEF D
<1>5. ASSUME NEW j \in (i + 1)..Len(shelf) PROVE ~shelf[j].ok
  <2>1. /\ d \in 0..Len(shelf) /\ j \in 1..Len(shelf) /\ Len(shelf) - j \in 0..Len(shelf)
        /\ Len(shelf) - j < d /\ Len(shelf) - (Len(shelf) - j) = j
    BY <1>1, <1>3, <1>4 DEF D
  <2>2. Len(shelf) - j \notin D
    BY <1>1, <1>3, <2>1
  <2>3. QED
    BY <2>1, <2>2 DEF D
<1>6. \E k \in 0..Len(shelf) : /\ k > 0 => shelf[k].ok
                               /\ \A j \in (k + 1)..Len(shelf) : ~shelf[j].ok
  BY <1>4, <1>5
<1>7. QED
  BY <1>6 DEF LastUsable

\* A caller moves: where everybody is afterwards, and how many.
LEMMA PutFacts ==
    ASSUME Shape, NEW c \in Callers, NEW x \in Standing, Put(c, x)
    PROVE  /\ caller' \in [Callers -> Standing] /\ caller'[c] = x
           /\ \A d \in Callers \ {c} : caller'[d] = caller[d]
           /\ Used' = (Used \ {c}) \cup (IF x.at \in {"checking", "connecting", "holding"} THEN {c} ELSE {})
           /\ Borrowing' = (Borrowing \ {c}) \cup (IF x.at = "holding" THEN {c} ELSE {})
           /\ Parked' = (Parked \ {c}) \cup (IF x.at = "parked" THEN {c} ELSE {})
           /\ Cardinality(Used') = Cardinality(Used \ {c})
                  + IF x.at \in {"checking", "connecting", "holding"} THEN 1 ELSE 0
           /\ Cardinality(Borrowing') = Cardinality(Borrowing \ {c}) + IF x.at = "holding" THEN 1 ELSE 0
<1>1. /\ caller' \in [Callers -> Standing] /\ caller'[c] = x
      /\ \A d \in Callers \ {c} : caller'[d] = caller[d]
  BY DEF Shape, Put
<1>2. Used' = (Used \ {c}) \cup (IF x.at \in {"checking", "connecting", "holding"} THEN {c} ELSE {})
  BY <1>1 DEF Used, Places
<1>3. Borrowing' = (Borrowing \ {c}) \cup (IF x.at = "holding" THEN {c} ELSE {})
  BY <1>1 DEF Borrowing, Places
<1>4. Parked' = (Parked \ {c}) \cup (IF x.at = "parked" THEN {c} ELSE {})
  BY <1>1 DEF Parked, Places
<1>5. Used \in SUBSET Callers /\ Borrowing \in SUBSET Callers
  BY DEF Used, Borrowing, Places
<1>6. /\ Cardinality((Used \ {c}) \cup {c}) = Cardinality(Used \ {c}) + 1
      /\ Cardinality((Borrowing \ {c}) \cup {c}) = Cardinality(Borrowing \ {c}) + 1
      /\ Cardinality(Used \ {c}) \in Nat /\ Cardinality(Borrowing \ {c}) \in Nat
  BY <1>5, Count
<1>7. Cardinality(Used') = Cardinality(Used \ {c})
         + IF x.at \in {"checking", "connecting", "holding"} THEN 1 ELSE 0
  <2>1. CASE x.at \in {"checking", "connecting", "holding"}
    BY <1>2, <1>6, <2>1
  <2>2. CASE x.at \notin {"checking", "connecting", "holding"}
    <3>1. Used' = Used \ {c}
      BY <1>2, <2>2
    <3>2. QED
      BY <1>6, <2>2, <3>1
  <2>3. QED
    BY <2>1, <2>2
<1>8. Cardinality(Borrowing') = Cardinality(Borrowing \ {c}) + IF x.at = "holding" THEN 1 ELSE 0
  <2>1. CASE x.at = "holding"
    BY <1>3, <1>6, <2>1
  <2>2. CASE x.at # "holding"
    <3>1. Borrowing' = Borrowing \ {c}
      BY <1>3, <2>2
    <3>2. QED
      BY <1>6, <2>2, <3>1
  <2>3. QED
    BY <2>1, <2>2
<1>9. QED
  BY <1>1, <1>2, <1>3, <1>4, <1>7, <1>8

\* What a claim comes to.
Claimed(c, x, shelf, n, q) ==
    /\ idle' \in Seq(Offered) /\ woken' \subseteq Callers /\ Put(c, x)
    /\ x.at \in {"checking", "connecting", "parked"}
    /\ waiters' = IF x.at = "parked" THEN Append(q, c) ELSE q
    /\ total' \in Nat /\ total' <= pool.max_size
    /\ total' = Len(idle') + ((n - Len(shelf)) + IF x.at = "parked" THEN 0 ELSE 1)
    /\ waiters' # <<>> /\ (idle' # <<>> \/ total' < pool.max_size) => Head(waiters') \in woken'

\* What get_inner leaves in the queue and the wake set, whichever caller takes
\* the head's place.
LEMMA ClaimFacts ==
    ASSUME pool \in Pools, ~closed, NEW c \in Callers, NEW shelf \in Seq(Offered),
           NEW n \in Nat, Len(shelf) <= n, n <= pool.max_size,
           NEW q \in Seq(Callers), NEW w \in SUBSET Callers, Claim(c, shelf, n, q, w)
    PROVE  \E x \in Standing : Claimed(c, x, shelf, n, q)
<1> DEFINE i     == LastUsable(shelf)
           left  == n - (Len(shelf) - i)
           alert == IF Len(shelf) > i THEN w \cup Front(q) ELSE w
<1>1. /\ i \in 0..Len(shelf) /\ Len(shelf) \in Nat /\ left \in Nat /\ left <= n
      /\ pool.max_size \in Nat
  BY LastUsableIndex, Sizes
<1>2. /\ Front(q) \subseteq Callers /\ alert \subseteq Callers /\ (q # <<>> => Head(q) \in Front(q))
  BY DEF Front
<1>3. \A s, k : /\ WakeIf(q, s, k) \subseteq Callers
                /\ q # <<>> /\ (s # <<>> \/ k < pool.max_size) => Head(q) \in WakeIf(q, s, k)
  BY <1>2 DEF WakeIf, Wake, Available
<1>4. CASE i > 0 /\ idle' = SubSeq(shelf, 1, i - 1) /\ total' = left
           /\ Put(c, At("checking", shelf[i]))
           /\ waiters' = q /\ woken' = alert \cup WakeIf(q, idle', left)
  <2>1. idle' \in Seq(Offered) /\ Len(idle') = i - 1 /\ shelf[i] \in Offered
    BY <1>1, <1>4
  <2>2. At("checking", shelf[i]) \in Standing /\ At("checking", shelf[i]).at = "checking"
    BY <2>1, Stand
  <2>3. total' = Len(idle') + ((n - Len(shelf)) + 1)
    BY <1>1, <1>4, <2>1
  <2>4. Claimed(c, At("checking", shelf[i]), shelf, n, q)
    <3>1. total' \in Nat /\ total' <= pool.max_size
      BY <1>1, <1>4
    <3> HIDE DEF i, left, alert
    <3>2. woken' \subseteq Callers
      BY <1>2, <1>3, <1>4
    <3>3. waiters' # <<>> /\ (idle' # <<>> \/ total' < pool.max_size) => Head(waiters') \in woken'
      BY <1>3, <1>4
    <3>4. QED
      BY <1>4, <2>1, <2>2, <2>3, <3>1, <3>2, <3>3 DEF Claimed
  <2>5. QED
    BY <2>2, <2>4
<1>5. CASE i = 0 /\ left < pool.max_size /\ idle' = <<>> /\ total' = left + 1
           /\ Put(c, At("connecting", Null))
           /\ waiters' = q /\ woken' = alert \cup WakeIf(q, <<>>, left + 1)
  <2>1. idle' \in Seq(Offered) /\ Len(idle') = 0
    BY <1>5
  <2>2. At("connecting", Null) \in Standing /\ At("connecting", Null).at = "connecting"
    BY Stand
  <2>3. total' = Len(idle') + ((n - Len(shelf)) + 1) /\ total' \in Nat /\ total' <= pool.max_size
    BY <1>1, <1>5, <2>1
  <2>4. Claimed(c, At("connecting", Null), shelf, n, q)
    BY <1>2, <1>3, <1>5, <2>1, <2>2, <2>3 DEF Claimed
  <2>5. QED
    BY <2>2, <2>4
<1>6. CASE i = 0 /\ left >= pool.max_size /\ idle' = <<>> /\ total' = left
           /\ Put(c, At("parked", Null))
           /\ waiters' = Append(q, c) /\ woken' = alert
  <2>1. idle' \in Seq(Offered) /\ Len(idle') = 0 /\ idle' = <<>> /\ ~(total' < pool.max_size)
    BY <1>1, <1>6
  <2>2. At("parked", Null) \in Standing /\ At("parked", Null).at = "parked"
    BY Stand
  <2>3. total' = Len(idle') + ((n - Len(shelf)) + 0) /\ total' \in Nat /\ total' <= pool.max_size
    BY <1>1, <1>6, <2>1
  <2>4. Claimed(c, At("parked", Null), shelf, n, q)
    BY <1>2, <1>6, <2>1, <2>2, <2>3 DEF Claimed
  <2>5. QED
    BY <2>2, <2>4
<1>7. QED
  BY <1>4, <1>5, <1>6 DEF Claim

\* The same sizes, keeper and closers after a step as before.
Same == UNCHANGED <<pool, closed, closer, keeper, spoils>>

\* A claim by a caller that stands nowhere else keeps the pool consistent.
LEMMA ClaimStep ==
    ASSUME IInv, ~closed, Same, UNCHANGED active, NEW c \in Callers, caller[c].at # "holding",
           slot' \in [Callers -> Offered \cup {Null}],
           NEW shelf \in Seq(Offered), NEW n \in Nat, Len(shelf) <= n, n <= pool.max_size,
           NEW q \in Seq(Callers), NEW w \in SUBSET Callers, Claim(c, shelf, n, q, w),
           c \notin Elements(q), c \notin Handed', Lined(q, Handed', Parked \ {c}),
           n - Len(shelf) = Cardinality(Handed') + Cardinality(Used \ {c}) + Reserved
    PROVE  IInv'
<1>1. pool \in Pools /\ Shape
  BY DEF IInv, Shape
<1>2. PICK x \in Standing : Claimed(c, x, shelf, n, q)
  BY <1>1, ClaimFacts
<1>3. /\ idle' \in Seq(Offered) /\ woken' \subseteq Callers /\ Put(c, x)
      /\ x.at \in {"checking", "connecting", "parked"}
      /\ waiters' = IF x.at = "parked" THEN Append(q, c) ELSE q
      /\ total' \in Nat /\ total' <= pool.max_size
      /\ total' = Len(idle') + ((n - Len(shelf)) + IF x.at = "parked" THEN 0 ELSE 1)
      /\ waiters' # <<>> /\ (idle' # <<>> \/ total' < pool.max_size) => Head(waiters') \in woken'
  BY <1>2 DEF Claimed
<1>4. /\ caller' \in [Callers -> Standing]
      /\ Parked' = (Parked \ {c}) \cup (IF x.at = "parked" THEN {c} ELSE {})
      /\ Cardinality(Used') = Cardinality(Used \ {c})
             + IF x.at \in {"checking", "connecting", "holding"} THEN 1 ELSE 0
      /\ Borrowing' = (Borrowing \ {c}) \cup (IF x.at = "holding" THEN {c} ELSE {})
  BY <1>1, <1>3, PutFacts
<1>5. Shape'
  <2>1. waiters' \in Seq(Callers)
    BY <1>3, Joined
  <2>2. QED
    BY <1>3, <1>4, <2>1 DEF IInv, Shape, Same
<1>6. QueueInv'
  <2>1. CASE x.at = "parked"
    <3>1. waiters' = Append(q, c) /\ Parked' = (Parked \ {c}) \cup {c}
      BY <1>3, <1>4, <2>1
    <3>2. Elements(waiters') = Elements(q) \cup {c} /\ Distinct(waiters')
      BY <3>1, Joined DEF Lined
    <3>3. QED
      BY <3>1, <3>2 DEF QueueInv, Lined
  <2>2. CASE x.at # "parked"
    <3>1. waiters' = q /\ Parked' = Parked \ {c}
      BY <1>3, <1>4, <2>2
    <3>2. QED
      BY <3>1 DEF QueueInv
  <2>3. QED
    BY <2>1, <2>2
<1>7. ClosedInv'
  BY DEF IInv, ClosedInv, Same
<1>8. Accounts'
  <2>1. Borrowing' = Borrowing
    <3>1. c \notin Borrowing /\ x.at # "holding"
      BY <1>3 DEF Borrowing, Places
    <3>2. QED
      BY <1>4, <3>1
  <2>2. Reserved' = Reserved
    BY DEF Same, Reserved
  <2>3. Used \in SUBSET Callers /\ Handed' \in SUBSET Callers /\ Reserved \in Nat
    BY DEF Used, Places, Handed, Reserved
  <2>4. /\ Cardinality(Used \ {c}) \in Nat /\ Cardinality(Handed') \in Nat /\ Len(idle') \in Nat
    <3>1. Cardinality(Used \ {c}) \in Nat
      BY <2>3, Count
    <3>2. Cardinality(Handed') \in Nat
      BY <2>3, Count
    <3>3. Len(idle') \in Nat
      BY <1>3
    <3>4. QED
      BY <3>1, <3>2, <3>3
  <2>5. total' = Len(idle') + (Cardinality(Handed') + Cardinality(Used') + Reserved)
    <3>1. CASE x.at = "parked"
      <4>1. /\ total' = Len(idle') + ((n - Len(shelf)) + 0)
            /\ Cardinality(Used') = Cardinality(Used \ {c}) + 0
        BY <1>3, <1>4, <3>1
      <4>2. QED
        BY <2>3, <2>4, <4>1
    <3>2. CASE x.at # "parked"
      <4>1. /\ total' = Len(idle') + ((n - Len(shelf)) + 1)
            /\ Cardinality(Used') = Cardinality(Used \ {c}) + 1
        BY <1>3, <1>4, <3>2
      <4> DEFINE h == Cardinality(Handed')
                 u == Cardinality(Used \ {c})
                 l == Len(idle')
      <4>2. h \in Nat /\ u \in Nat /\ l \in Nat /\ Reserved \in Nat
        BY <2>3, <2>4
      <4>3. total' = l + ((h + u + Reserved) + 1) /\ Cardinality(Used') = u + 1
        BY <4>1
      <4> HIDE DEF h, u, l
      <4>4. total' = l + (h + Cardinality(Used') + Reserved)
        BY <4>2, <4>3
      <4>5. QED
        BY <4>4 DEF h, u, l
    <3>3. QED
      BY <3>1, <3>2
  <2>6. QED
    BY <1>3, <2>1, <2>2, <2>5 DEF IInv, Accounts, Same
<1>9. HeadAwake'
  BY <1>3 DEF HeadAwake, Available, Same
<1>10. QED
  BY <1>5, <1>6, <1>7, <1>8, <1>9 DEF IInv

-----------------------------------------------------------------------------
(* Steps of callers.                                                       *)

\* What the books say.
LEMMA Totals ==
    ASSUME IInv
    PROVE  /\ pool \in Pools /\ pool.max_size \in Nat /\ Len(idle) \in Nat /\ total \in Nat
           /\ Reserved \in 0..1 /\ Len(idle) <= total /\ total <= pool.max_size
           /\ Cardinality(Handed) \in Nat /\ Cardinality(Used) \in Nat /\ Cardinality(Borrowing) \in Nat
           /\ total = Len(idle) + (Cardinality(Handed) + Cardinality(Used) + Reserved)
           /\ active = Cardinality(Borrowing)
<1>1. Used \in SUBSET Callers /\ Handed \in SUBSET Callers /\ Borrowing \in SUBSET Callers
  BY DEF Used, Borrowing, Places, Handed
<1>2. Cardinality(Handed) \in Nat /\ Cardinality(Used) \in Nat /\ Cardinality(Borrowing) \in Nat
  BY <1>1, Some
<1>3. /\ pool \in Pools /\ pool.max_size \in Nat /\ Len(idle) \in Nat /\ total \in Nat
      /\ Reserved \in 0..1 /\ total <= pool.max_size
      /\ total = Len(idle) + (Cardinality(Handed) + Cardinality(Used) + Reserved)
      /\ active = Cardinality(Borrowing)
  BY Sizes DEF IInv, Shape, Accounts, Reserved
<1>4. Len(idle) <= total
  BY <1>2, <1>3
<1>5. QED
  BY <1>2, <1>3, <1>4

\* What the books say of a caller.
LEMMA Counts ==
    ASSUME IInv, NEW c \in Callers
    PROVE  /\ pool \in Pools /\ pool.max_size \in Nat /\ Len(idle) \in Nat /\ total \in Nat
           /\ Reserved \in 0..1 /\ Len(idle) <= total /\ total <= pool.max_size
           /\ Cardinality(Handed) \in Nat /\ Cardinality(Used) \in Nat /\ Cardinality(Borrowing) \in Nat
           /\ Cardinality(Used \ {c}) = IF c \in Used THEN Cardinality(Used) - 1 ELSE Cardinality(Used)
           /\ Cardinality(Handed \ {c}) = IF c \in Handed THEN Cardinality(Handed) - 1 ELSE Cardinality(Handed)
           /\ Cardinality(Borrowing \ {c})
                = IF c \in Borrowing THEN Cardinality(Borrowing) - 1 ELSE Cardinality(Borrowing)
           /\ Cardinality(Used \ {c}) \in Nat /\ Cardinality(Handed \ {c}) \in Nat
           /\ Cardinality(Borrowing \ {c}) \in Nat
           /\ total = Len(idle) + (Cardinality(Handed) + Cardinality(Used) + Reserved)
           /\ active = Cardinality(Borrowing)
<1>1. Used \in SUBSET Callers /\ Handed \in SUBSET Callers /\ Borrowing \in SUBSET Callers
  BY DEF Used, Borrowing, Places, Handed
<1>2. /\ Cardinality(Used) \in Nat /\ Cardinality(Used \ {c}) \in Nat
      /\ Cardinality(Used \ {c}) = IF c \in Used THEN Cardinality(Used) - 1 ELSE Cardinality(Used)
  BY <1>1, Count
<1>3. /\ Cardinality(Handed) \in Nat /\ Cardinality(Handed \ {c}) \in Nat
      /\ Cardinality(Handed \ {c}) = IF c \in Handed THEN Cardinality(Handed) - 1 ELSE Cardinality(Handed)
  BY <1>1, Count
<1>4. /\ Cardinality(Borrowing) \in Nat /\ Cardinality(Borrowing \ {c}) \in Nat
      /\ Cardinality(Borrowing \ {c})
           = IF c \in Borrowing THEN Cardinality(Borrowing) - 1 ELSE Cardinality(Borrowing)
  BY <1>1, Count
<1>5. /\ pool \in Pools /\ pool.max_size \in Nat /\ Len(idle) \in Nat /\ total \in Nat
      /\ Reserved \in 0..1 /\ total <= pool.max_size
      /\ total = Len(idle) + (Cardinality(Handed) + Cardinality(Used) + Reserved)
      /\ active = Cardinality(Borrowing)
  BY Sizes DEF IInv, Shape, Accounts, Reserved
<1>6. Len(idle) <= total
  BY <1>2, <1>3, <1>5
<1>7. QED
  BY <1>2, <1>3, <1>4, <1>5, <1>6

\* Where a caller is, as the sets say it.
LEMMA Where ==
    ASSUME IInv, NEW c \in Callers
    PROVE  /\ c \in Used <=> caller[c].at \in {"checking", "connecting", "holding"}
           /\ c \in Borrowing <=> caller[c].at = "holding"
           /\ c \in Parked <=> caller[c].at = "parked"
           /\ c \in Handed <=> slot[c] # Null
           /\ c \in Parked => c \notin Used /\ c \notin Borrowing
           /\ ~closed => /\ Lined(waiters, Handed, Parked)
                         /\ c \in Elements(waiters) \cup Handed <=> c \in Parked
                         /\ ~(c \in Elements(waiters) /\ c \in Handed)
<1>1. /\ c \in Used <=> caller[c].at \in {"checking", "connecting", "holding"}
      /\ c \in Borrowing <=> caller[c].at = "holding"
      /\ c \in Parked <=> caller[c].at = "parked"
      /\ c \in Handed <=> slot[c] # Null
  BY DEF Used, Borrowing, Parked, Places, Handed
<1>2. c \in Parked => c \notin Used /\ c \notin Borrowing
  BY <1>1
<1>3. ASSUME ~closed
      PROVE  /\ Lined(waiters, Handed, Parked)
             /\ c \in Elements(waiters) \cup Handed <=> c \in Parked
             /\ ~(c \in Elements(waiters) /\ c \in Handed)
  BY <1>3 DEF IInv, QueueInv, Lined
<1>4. QED
  BY <1>1, <1>2, <1>3

\* A caller moves between places off the queue, and the counters with it.
LEMMA PutStep ==
    ASSUME IInv, NEW c \in Callers, NEW x \in Standing, Put(c, x),
           closed \/ (caller[c].at # "parked" /\ x.at # "parked"),
           UNCHANGED <<pool, idle, waiters, slot, closed, keeper>>,
           closer' \in [Closers -> {"no", "waiting", "woken", "done"}], spoils' \in 0..pool.spoils,
           woken' \subseteq Callers, HeadAwake', total' <= pool.max_size,
           NEW u \in 0..1, NEW v \in 0..1, NEW a \in 0..1, NEW b \in 0..1,
           u = 1 <=> caller[c].at \in {"checking", "connecting", "holding"},
           v = 1 <=> x.at \in {"checking", "connecting", "holding"},
           a = 1 <=> caller[c].at = "holding",
           b = 1 <=> x.at = "holding",
           total' = (total - u) + v, active' = (active - a) + b
    PROVE  IInv'
<1>1. /\ caller' \in [Callers -> Standing]
      /\ Parked' = (Parked \ {c}) \cup (IF x.at = "parked" THEN {c} ELSE {})
      /\ Cardinality(Used') = Cardinality(Used \ {c}) + v
      /\ Cardinality(Borrowing') = Cardinality(Borrowing \ {c}) + b
  <2>1. /\ caller' \in [Callers -> Standing]
        /\ Parked' = (Parked \ {c}) \cup (IF x.at = "parked" THEN {c} ELSE {})
        /\ Cardinality(Used') = Cardinality(Used \ {c})
               + IF x.at \in {"checking", "connecting", "holding"} THEN 1 ELSE 0
        /\ Cardinality(Borrowing') = Cardinality(Borrowing \ {c}) + IF x.at = "holding" THEN 1 ELSE 0
    BY PutFacts DEF IInv
  <2>2. /\ v = IF x.at \in {"checking", "connecting", "holding"} THEN 1 ELSE 0
        /\ b = IF x.at = "holding" THEN 1 ELSE 0
    OBVIOUS
  <2>3. QED
    BY <2>1, <2>2
<1>2. /\ Cardinality(Used \ {c}) = Cardinality(Used) - u /\ Cardinality(Used) \in Nat
      /\ Cardinality(Borrowing \ {c}) = Cardinality(Borrowing) - a /\ Cardinality(Borrowing) \in Nat
      /\ Cardinality(Used \ {c}) \in Nat /\ Cardinality(Borrowing \ {c}) \in Nat
  <2>1. /\ Cardinality(Used \ {c}) = IF c \in Used THEN Cardinality(Used) - 1 ELSE Cardinality(Used)
        /\ Cardinality(Borrowing \ {c})
                = IF c \in Borrowing THEN Cardinality(Borrowing) - 1 ELSE Cardinality(Borrowing)
        /\ Cardinality(Used) \in Nat /\ Cardinality(Borrowing) \in Nat
        /\ Cardinality(Used \ {c}) \in Nat /\ Cardinality(Borrowing \ {c}) \in Nat
    BY Counts
  <2>2. /\ u = IF c \in Used THEN 1 ELSE 0
        /\ a = IF c \in Borrowing THEN 1 ELSE 0
    BY Where
  <2>3. QED
    BY <2>1, <2>2
<1>3. /\ Len(idle) \in Nat /\ Reserved \in 0..1 /\ Cardinality(Handed) \in Nat
      /\ total = Len(idle) + (Cardinality(Handed) + Cardinality(Used) + Reserved)
      /\ active = Cardinality(Borrowing)
  BY Counts
<1>4. Handed' = Handed /\ Reserved' = Reserved
  BY DEF Handed, Reserved
<1>5. Accounts' /\ total' \in Nat /\ active' \in Nat
  <2> DEFINE l == Len(idle)
             h == Cardinality(Handed)
             cu == Cardinality(Used)
             cv == Cardinality(Used')
             cb == Cardinality(Borrowing)
             r == Reserved
  <2>1. /\ l \in Nat /\ h \in Nat /\ cu \in Nat /\ cb \in Nat /\ r \in 0..1 /\ cu - u \in Nat
        /\ cb - a \in Nat
        /\ total' = ((l + (h + cu + r)) - u) + v /\ active' = (cb - a) + b
        /\ cv = (cu - u) + v /\ Cardinality(Borrowing') = (cb - a) + b
    BY <1>1, <1>2, <1>3
  <2>2. idle' = idle /\ pool' = pool /\ Cardinality(Handed') = h /\ Reserved' = r
    BY <1>4
  <2> HIDE DEF l, h, cu, cb, r, cv
  <2>3. total' = l + (h + cv + r) /\ total' \in Nat /\ active' = Cardinality(Borrowing')
        /\ active' \in Nat
    BY <2>1
  <2>4. QED
    BY <2>2, <2>3 DEF Accounts, l, cv
<1>6. Shape'
  BY <1>1, <1>5 DEF IInv, Shape
<1>7. QueueInv'
  <2>1. CASE closed
    BY <2>1 DEF QueueInv
  <2>2. CASE ~closed
    <3>1. Parked' = Parked
      BY <1>1, <2>2, Where
    <3>2. QED
      BY <1>4, <3>1 DEF IInv, QueueInv
  <2>3. QED
    BY <2>1, <2>2 DEF IInv, Shape
<1>8. ClosedInv'
  BY <1>4 DEF IInv, ClosedInv
<1>9. QED
  BY <1>5, <1>6, <1>7, <1>8 DEF IInv

\* Who is woken is a caller, and the head of an open pool's queue is among them.
LEMMA Awake ==
    ASSUME NEW q \in Seq(Callers)
    PROVE  /\ Front(q) \subseteq Callers /\ Wake(q) \subseteq Callers
           /\ \A s, n : WakeIf(q, s, n) \subseteq Callers
           /\ q # <<>> => Head(q) \in Front(q) /\ Front(q) = {Head(q)}
           /\ ~closed /\ q # <<>> =>
                /\ Head(q) \in Wake(q)
                /\ \A s, n : Available(s, n) => Head(q) \in WakeIf(q, s, n)
           /\ q = <<>> => Front(q) = {}
<1>1. Front(q) \subseteq Callers /\ (q # <<>> => Head(q) \in Front(q) /\ Front(q) = {Head(q)})
      /\ (q = <<>> => Front(q) = {})
  BY DEF Front
<1>2. QED
  BY <1>1 DEF Wake, WakeIf

\* A slot is given back and the head of the queue is told.
LEMMA FreeStep ==
    ASSUME IInv, NEW c \in Callers, Put(c, At("out", Null)), FreeSlot, ~closed,
           caller[c].at \in {"checking", "connecting", "holding"},
           UNCHANGED <<pool, idle, waiters, slot, closed, keeper, closer, spoils>>,
           active' = IF caller[c].at = "holding" THEN active - 1 ELSE active
    PROVE  IInv'
<1>1. At("out", Null) \in Standing /\ At("out", Null).at = "out"
  BY Stand
<1>2. /\ waiters \in Seq(Callers) /\ active \in Nat
      /\ closer' \in [Closers -> {"no", "waiting", "woken", "done"}] /\ spoils' \in 0..pool.spoils
  BY DEF IInv, Shape
<1>3. woken' = woken \cup Wake(waiters) /\ total' = total - 1
  BY DEF FreeSlot
<1>4. woken' \subseteq Callers /\ HeadAwake'
  BY <1>2, <1>3, Awake DEF IInv, Shape, HeadAwake
<1>5. total \in Nat /\ total <= pool.max_size /\ pool.max_size \in Nat
  BY Counts
<1>6. total' = (total - 1) + 0 /\ total' <= pool.max_size /\ 1 \in 0..1 /\ 0 \in 0..1
  BY <1>3, <1>5
<1> DEFINE x == At("out", Null)
<1>7. /\ x \in Standing /\ Put(c, x) /\ x.at # "parked" /\ caller[c].at # "parked"
      /\ 1 = 1 <=> caller[c].at \in {"checking", "connecting", "holding"}
      /\ 0 = 1 <=> x.at \in {"checking", "connecting", "holding"}
      /\ 0 = 1 <=> x.at = "holding"
  BY <1>1
<1> HIDE DEF x
<1>8. CASE caller[c].at = "holding"
  <2>1. active' = (active - 1) + 0 /\ (1 = 1 <=> caller[c].at = "holding")
    BY <1>2, <1>8
  <2>2. QED
    BY <1>2, <1>4, <1>6, <1>7, <2>1, PutStep
<1>9. CASE caller[c].at # "holding"
  <2>1. active' = (active - 0) + 0 /\ (0 = 1 <=> caller[c].at = "holding")
    BY <1>2, <1>9
  <2>2. QED
    BY <1>2, <1>4, <1>6, <1>7, <2>1, PutStep
<1>10. QED
  BY <1>8, <1>9

\* A failed connect or handshake gives its slot back and wakes the next caller
\* (PermitGuard::drop).
LEMMA AcquireFailsStep ==
    ASSUME IInv, NEW c \in Callers, AcquireFails(c) \/ CancelClaim(c)
    PROVE  IInv'
<1>1. /\ Put(c, At("out", Null)) /\ FreeSlot /\ ~closed /\ caller[c].at \in {"checking", "connecting"}
      /\ UNCHANGED <<pool, idle, waiters, slot, closed, keeper, closer, spoils>> /\ UNCHANGED active
  BY DEF AcquireFails, CancelClaim
<1>2. QED
  BY <1>1, FreeStep

\* A checked or new session is lent.
LEMMA LendStep ==
    ASSUME IInv, NEW c \in Callers, NEW s \in Session, Put(c, At("holding", s)),
           caller[c].at \in {"checking", "connecting"}, active' = active + 1,
           UNCHANGED <<pool, idle, waiters, slot, woken, total, closed, closer, keeper, spoils>>
    PROVE  IInv'
<1>1. At("holding", s) \in Standing /\ At("holding", s).at = "holding"
  BY Stand
<1>2. /\ closer' \in [Closers -> {"no", "waiting", "woken", "done"}] /\ spoils' \in 0..pool.spoils
      /\ woken' \subseteq Callers /\ HeadAwake'
  BY DEF IInv, Shape, HeadAwake, Available, Handed
<1>3. total \in Nat /\ total <= pool.max_size /\ active \in Nat
  BY Counts DEF IInv, Shape
<1>4. /\ total' = (total - 1) + 1 /\ active' = (active - 0) + 1 /\ total' <= pool.max_size
      /\ 1 \in 0..1 /\ 0 \in 0..1
  BY <1>3
<1>5. QED
  BY <1>1, <1>2, <1>4, PutStep

\* A session that passes its test is lent: it moves from the check to the
\* borrower (get_inner).
LEMMA CheckPassesStep ==
    ASSUME IInv, NEW c \in Callers, CheckPasses(c)
    PROVE  IInv'
<1> DEFINE s == caller[c].has
           t == [s EXCEPT !.dirty = FALSE, !.settled = @ \/ s.dirty]
<1>1. /\ caller[c].at = "checking" /\ Put(c, At("holding", t)) /\ active' = active + 1
      /\ UNCHANGED <<pool, idle, waiters, slot, woken, total, closed, closer, keeper, spoils>>
  BY DEF CheckPasses
<1>2. s \in Session
  BY <1>1, Stand, Offers DEF IInv, Shape
<1> HIDE DEF s
<1>3. t \in Session
  BY <1>2 DEF Session
<1>4. QED
  BY <1>1, <1>3, LendStep

\* A connection made for a reserved slot is lent to the caller that reserved it
\* (get_inner).
LEMMA ConnectedStep ==
    ASSUME IInv, NEW c \in Callers, Connected(c)
    PROVE  IInv'
<1>1. Fresh \in Session
  BY Offers
<1>2. QED
  BY <1>1, LendStep DEF Connected

\* A session that fails its test is dropped and its slot released or used for a
\* connect.
LEMMA CheckRejectsStep ==
    ASSUME IInv, NEW c \in Callers, CheckRejects(c)
    PROVE  IInv'
<1> DEFINE w == woken \cup Front(waiters)
           n == total - 1
<1>1. /\ caller[c].at = "checking" /\ ~closed /\ Claim(c, idle, n, waiters, w)
      /\ UNCHANGED <<pool, slot, active, closed, closer, keeper, spoils>>
  BY DEF CheckRejects
<1>2. /\ idle \in Seq(Offered) /\ waiters \in Seq(Callers) /\ woken \subseteq Callers
      /\ slot' \in [Callers -> Offered \cup {Null}]
  BY <1>1 DEF IInv, Shape
<1>3. w \in SUBSET Callers
  BY <1>2, Awake
<1>4. /\ c \in Used /\ c \notin Parked /\ c \notin Elements(waiters) /\ c \notin Handed
      /\ Lined(waiters, Handed, Parked)
  BY <1>1, Where
<1>5. Handed' = Handed /\ Parked \ {c} = Parked
  BY <1>1, <1>4 DEF Handed
<1>6. /\ total \in Nat /\ Len(idle) \in Nat /\ Cardinality(Handed) \in Nat /\ Reserved \in 0..1
      /\ Cardinality(Used \ {c}) = Cardinality(Used) - 1 /\ Cardinality(Used \ {c}) \in Nat
      /\ total = Len(idle) + (Cardinality(Handed) + Cardinality(Used) + Reserved)
      /\ total <= pool.max_size /\ pool.max_size \in Nat /\ Cardinality(Used) \in Nat
  BY <1>4, Counts
<1>7. /\ n \in Nat /\ Len(idle) <= n /\ n <= pool.max_size
      /\ n - Len(idle) = Cardinality(Handed) + Cardinality(Used \ {c}) + Reserved
  <2> DEFINE l == Len(idle)
             h == Cardinality(Handed)
             u == Cardinality(Used \ {c})
             r == Reserved
  <2>1. l \in Nat /\ h \in Nat /\ u \in Nat /\ r \in 0..1 /\ total = l + (h + (u + 1) + r)
    BY <1>6
  <2>2. total <= pool.max_size /\ pool.max_size \in Nat /\ total \in Nat
    BY <1>6
  <2> HIDE DEF l, h, u, r
  <2>3. total - 1 \in Nat /\ l <= total - 1 /\ (total - 1) - l = h + u + r /\ total - 1 <= pool.max_size
    BY <2>1, <2>2
  <2>4. QED
    BY <2>3 DEF l, h, u, r
<1> HIDE DEF w, n
<1>8. QED
  BY <1>1, <1>2, <1>3, <1>4, <1>5, <1>7, ClaimStep DEF Same

\* The counter follows the sessions that come to and leave the shelf, the slots
\* of hand-offs and the callers, and the keeper's reservation.
LEMMA Balance ==
    ASSUME IInv, UNCHANGED pool, idle' \in Seq(Offered),
           NEW di \in Int, NEW dh \in Int, NEW du \in Int, NEW dr \in Int,
           Len(idle') = Len(idle) + di, Cardinality(Handed') = Cardinality(Handed) + dh,
           Cardinality(Used') = Cardinality(Used) + du, Reserved' = Reserved + dr,
           total' = total + (di + dh + du + dr), total' <= pool.max_size,
           active' = Cardinality(Borrowing')
    PROVE  Accounts' /\ total' \in Nat /\ active' \in Nat
<1>1. Handed' \in SUBSET Callers /\ Used' \in SUBSET Callers /\ Borrowing' \in SUBSET Callers
  BY DEF Handed, Used, Borrowing, Places
<1>2. /\ Cardinality(Handed') \in Nat /\ Cardinality(Used') \in Nat /\ Cardinality(Borrowing') \in Nat
      /\ Len(idle') \in Nat /\ Reserved' \in 0..1
  <2>1. Cardinality(Handed') \in Nat
    BY <1>1, Some
  <2>2. Cardinality(Used') \in Nat
    BY <1>1, Some
  <2>3. Cardinality(Borrowing') \in Nat
    BY <1>1, Some
  <2>4. Reserved' \in 0..1
    BY DEF Reserved
  <2>5. QED
    BY <2>1, <2>2, <2>3, <2>4
<1>3. /\ Len(idle) \in Nat /\ Cardinality(Handed) \in Nat /\ Cardinality(Used) \in Nat /\ Reserved \in 0..1
      /\ total = Len(idle) + (Cardinality(Handed) + Cardinality(Used) + Reserved)
  BY Totals
<1> DEFINE l == Len(idle)
           h == Cardinality(Handed)
           u == Cardinality(Used)
           r == Reserved
           l2 == Len(idle')
           h2 == Cardinality(Handed')
           u2 == Cardinality(Used')
           r2 == Reserved'
<1>4. /\ l \in Nat /\ h \in Nat /\ u \in Nat /\ r \in 0..1 /\ total' = (l + (h + u + r)) + (di + dh + du + dr)
      /\ l2 = l + di /\ h2 = h + dh /\ u2 = u + du /\ r2 = r + dr
      /\ l2 \in Nat /\ h2 \in Nat /\ u2 \in Nat /\ r2 \in 0..1
  BY <1>2, <1>3
<1> HIDE DEF l, h, u, r, l2, h2, u2, r2
<1>5. total' = l2 + (h2 + u2 + r2)
  BY <1>4
<1>6. total' \in Nat
  BY <1>4, <1>5
<1>7. QED
  BY <1>2, <1>5, <1>6 DEF Accounts, l2, h2, u2, r2

\* A hand-off is made, or taken back.
LEMMA HandFacts ==
    ASSUME Shape, NEW c \in Callers
    PROVE  /\ slot' = [slot EXCEPT ![c] = Null] =>
                slot' \in [Callers -> Offered \cup {Null}] /\ Handed' = Handed \ {c}
           /\ \A s \in Offered : slot' = [slot EXCEPT ![c] = s] =>
                slot' \in [Callers -> Offered \cup {Null}] /\ Handed' = Handed \cup {c}
           /\ slot[c] # Null => slot[c] \in Offered
<1>1. slot \in [Callers -> Offered \cup {Null}] /\ Null \notin Offered
  BY Offers DEF Shape
<1>2. ASSUME slot' = [slot EXCEPT ![c] = Null]
      PROVE  slot' \in [Callers -> Offered \cup {Null}] /\ Handed' = Handed \ {c}
  BY <1>1, <1>2 DEF Handed
<1>3. ASSUME NEW s \in Offered, slot' = [slot EXCEPT ![c] = s]
      PROVE  slot' \in [Callers -> Offered \cup {Null}] /\ Handed' = Handed \cup {c}
  BY <1>1, <1>3 DEF Handed
<1>4. QED
  BY <1>1, <1>2, <1>3

\* A caller that arrives claims, reserves or parks behind everyone parked before
\* it (Pool::acquire).
LEMMA ArriveStep ==
    ASSUME IInv, NEW c \in Callers, Arrive(c)
    PROVE  IInv'
<1>1. /\ caller[c].at = "out" /\ ~closed
      /\ UNCHANGED <<pool, slot, active, closed, closer, keeper, spoils>>
  BY DEF Arrive
<1>2. /\ idle \in Seq(Offered) /\ waiters \in Seq(Callers) /\ woken \in SUBSET Callers
      /\ slot' \in [Callers -> Offered \cup {Null}]
  BY <1>1 DEF IInv, Shape
<1>3. /\ c \notin Used /\ c \notin Borrowing /\ c \notin Parked /\ c \notin Elements(waiters) /\ c \notin Handed
      /\ Lined(waiters, Handed, Parked)
  BY <1>1, Where
<1>4. Handed' = Handed /\ Parked \ {c} = Parked /\ Used \ {c} = Used /\ Borrowing \ {c} = Borrowing
  BY <1>1, <1>3 DEF Handed
<1>5. /\ total \in Nat /\ Len(idle) \in Nat /\ Cardinality(Handed) \in Nat /\ Reserved \in 0..1
      /\ Cardinality(Used) \in Nat /\ Len(idle) <= total
      /\ total = Len(idle) + (Cardinality(Handed) + Cardinality(Used) + Reserved)
      /\ total <= pool.max_size /\ pool.max_size \in Nat /\ active = Cardinality(Borrowing)
  BY Counts
<1>6. CASE waiters = <<>>
  <2>1. Claim(c, idle, total, waiters, woken)
    BY <1>6 DEF Arrive
  <2>2. total - Len(idle) = Cardinality(Handed) + Cardinality(Used) + Reserved
    BY <1>5
  <2>3. QED
    BY <1>1, <1>2, <1>3, <1>4, <1>5, <2>1, <2>2, ClaimStep DEF Same
<1>7. CASE waiters # <<>>
  <2> DEFINE x == At("parked", Null)
  <2>1. Put(c, x) /\ waiters' = Append(waiters, c) /\ UNCHANGED <<idle, total, woken>>
    BY <1>7 DEF Arrive
  <2>2. x \in Standing /\ x.at = "parked"
    BY Stand
  <2> HIDE DEF x
  <2>3. /\ caller' \in [Callers -> Standing]
        /\ Parked' = (Parked \ {c}) \cup (IF x.at = "parked" THEN {c} ELSE {})
        /\ Used' = (Used \ {c}) \cup (IF x.at \in {"checking", "connecting", "holding"} THEN {c} ELSE {})
        /\ Borrowing' = (Borrowing \ {c}) \cup (IF x.at = "holding" THEN {c} ELSE {})
    BY <2>1, <2>2, PutFacts DEF IInv
  <2>4. Parked' = Parked \cup {c} /\ Used' = Used /\ Borrowing' = Borrowing
    BY <1>4, <2>2, <2>3
  <2>5. /\ waiters' \in Seq(Callers) /\ Elements(waiters') = Elements(waiters) \cup {c}
        /\ Distinct(waiters') /\ Head(waiters') = Head(waiters)
    BY <1>2, <1>3, <1>7, <2>1, Joined DEF Lined
  <2>6. Reserved' = Reserved
    BY <1>1 DEF Reserved
  <2>7. Accounts'
    BY <1>1, <1>4, <2>1, <2>4, <2>6 DEF IInv, Accounts
  <2>8. Shape'
    BY <1>1, <2>1, <2>3, <2>5 DEF IInv, Shape
  <2>9. QueueInv'
    BY <1>3, <1>4, <2>4, <2>5 DEF QueueInv, Lined
  <2>10. ClosedInv'
    BY <1>1 DEF IInv, ClosedInv
  <2>11. HeadAwake'
    BY <1>1, <1>4, <1>7, <2>1, <2>5 DEF IInv, HeadAwake, Available
  <2>12. QED
    BY <2>7, <2>8, <2>9, <2>10, <2>11 DEF IInv
<1>8. QED
  BY <1>6, <1>7

\* A polled waiter takes its hand-off, claims as the head, or stays parked
\* (Waiter::poll).
LEMMA PollStep ==
    ASSUME IInv, NEW c \in Callers, Poll(c)
    PROVE  IInv'
<1> DEFINE w == woken \ {c}
<1>1. /\ caller[c].at = "parked" /\ ~closed
      /\ UNCHANGED <<pool, active, closed, closer, keeper, spoils>>
  BY DEF Poll
<1>2. /\ idle \in Seq(Offered) /\ waiters \in Seq(Callers) /\ w \in SUBSET Callers
      /\ slot \in [Callers -> Offered \cup {Null}]
  BY DEF IInv, Shape
<1>3. /\ c \notin Used /\ c \in Parked /\ (c \in Elements(waiters) \/ c \in Handed)
      /\ ~(c \in Elements(waiters) /\ c \in Handed)
      /\ (c \in Handed <=> slot[c] # Null) /\ Lined(waiters, Handed, Parked)
  BY <1>1, Where
<1>4. Used \ {c} = Used
  BY <1>3
<1>5. /\ total \in Nat /\ Len(idle) \in Nat /\ Cardinality(Handed) \in Nat /\ Reserved \in 0..1
      /\ Cardinality(Used) \in Nat /\ Len(idle) <= total /\ Cardinality(Handed \ {c}) \in Nat
      /\ Cardinality(Handed \ {c}) = IF c \in Handed THEN Cardinality(Handed) - 1 ELSE Cardinality(Handed)
      /\ total = Len(idle) + (Cardinality(Handed) + Cardinality(Used) + Reserved)
      /\ total <= pool.max_size /\ pool.max_size \in Nat
  BY Counts
<1>6. CASE slot[c] # Null
  <2> DEFINE shelf == Append(idle, slot[c])
  <2>1. slot' = [slot EXCEPT ![c] = Null] /\ Claim(c, shelf, total, waiters, w)
    BY <1>6 DEF Poll
  <2>2. slot' \in [Callers -> Offered \cup {Null}] /\ Handed' = Handed \ {c} /\ slot[c] \in Offered
    BY <1>6, <2>1, HandFacts DEF IInv
  <2>3. shelf \in Seq(Offered) /\ Len(shelf) = Len(idle) + 1
    BY <1>2, <2>2, Joined
  <2> HIDE DEF shelf
  <2>4. c \in Handed /\ c \notin Elements(waiters) /\ Cardinality(Handed \ {c}) = Cardinality(Handed) - 1
    BY <1>3, <1>5, <1>6
  <2>5. /\ total - Len(shelf) = Cardinality(Handed \ {c}) + Cardinality(Used \ {c}) + Reserved
        /\ Len(shelf) <= total
    <3> DEFINE l == Len(idle)
               h == Cardinality(Handed \ {c})
               u == Cardinality(Used)
               r == Reserved
    <3>1. /\ l \in Nat /\ h \in Nat /\ u \in Nat /\ r \in 0..1 /\ total = l + ((h + 1) + u + r)
          /\ Len(shelf) = l + 1
      BY <1>5, <2>3, <2>4
    <3> HIDE DEF l, h, u, r
    <3>2. total - Len(shelf) = h + u + r /\ Len(shelf) <= total
      BY <3>1
    <3>3. QED
      BY <1>4, <3>2 DEF l, h, u, r
  <2>6. Lined(waiters, Handed \ {c}, Parked \ {c})
    BY <1>3, <2>4 DEF Lined
  <2>7. c \notin Handed \ {c}
    OBVIOUS
  <2> HIDE DEF w
  <2>8. QED
    BY <1>1, <1>2, <1>5, <2>1, <2>2, <2>3, <2>4, <2>5, <2>6, <2>7, ClaimStep DEF Same
<1>7. CASE slot[c] = Null /\ Front(waiters) = {c} /\ Available(idle, total)
  <2>1. Claim(c, idle, total, Tail(waiters), w) /\ UNCHANGED slot
    BY <1>7 DEF Poll
  <2>2. waiters # <<>> /\ c = Head(waiters)
    BY <1>7 DEF Front
  <2>3. /\ Tail(waiters) \in Seq(Callers) /\ Distinct(Tail(waiters))
        /\ Elements(Tail(waiters)) = Elements(waiters) \ {c}
    BY <1>2, <1>3, <2>2, Served DEF Lined
  <2>4. Handed' = Handed /\ c \notin Handed
    BY <1>3, <1>7, <2>1 DEF Handed
  <2>5. Lined(Tail(waiters), Handed, Parked \ {c})
    BY <1>3, <2>3, <2>4 DEF Lined
  <2>6. total - Len(idle) = Cardinality(Handed) + Cardinality(Used \ {c}) + Reserved
    <3>1. total - Len(idle) = Cardinality(Handed) + Cardinality(Used) + Reserved
      BY <1>5
    <3>2. QED
      BY <1>4, <3>1
  <2>7. slot' \in [Callers -> Offered \cup {Null}] /\ c \notin Elements(Tail(waiters))
    BY <1>2, <2>1, <2>3
  <2> HIDE DEF w
  <2>8. QED
    BY <1>1, <1>2, <1>5, <2>1, <2>3, <2>4, <2>5, <2>6, <2>7, ClaimStep DEF Same
<1>8. CASE slot[c] = Null /\ ~(Front(waiters) = {c} /\ Available(idle, total))
  <2>1. woken' = w /\ UNCHANGED <<idle, waiters, total, caller, slot>>
    BY <1>8 DEF Poll
  <2>2. /\ Handed' = Handed /\ Used' = Used /\ Borrowing' = Borrowing /\ Parked' = Parked
        /\ Reserved' = Reserved
    BY <1>1, <2>1 DEF Handed, Used, Borrowing, Parked, Places, Reserved
  <2>3. Shape'
    BY <1>1, <1>2, <2>1 DEF IInv, Shape
  <2>4. QueueInv' /\ ClosedInv' /\ Accounts'
    BY <1>1, <2>1, <2>2 DEF IInv, QueueInv, ClosedInv, Accounts
  <2>5. HeadAwake'
    <3> SUFFICES ASSUME waiters # <<>>, Available(idle, total)
                 PROVE  Head(waiters) \in woken' \/ Handed # {}
      BY <1>1, <2>1, <2>2 DEF HeadAwake, Available
    <3>1. Head(waiters) # c
      BY <1>8 DEF Front
    <3>2. Head(waiters) \in woken \/ Handed # {}
      BY <1>1 DEF IInv, HeadAwake
    <3>3. QED
      BY <2>1, <3>1, <3>2
  <2>6. QED
    BY <2>3, <2>4, <2>5 DEF IInv
<1>9. QED
  BY <1>6, <1>7, <1>8

\* A caller leaves for good: only its place changes.
LEMMA LeaveFacts ==
    ASSUME IInv, NEW c \in Callers, Put(c, At("out", Null))
    PROVE  /\ caller' \in [Callers -> Standing]
           /\ Parked' = Parked \ {c} /\ Used' = Used \ {c} /\ Borrowing' = Borrowing \ {c}
<1> DEFINE x == At("out", Null)
<1>1. x \in Standing /\ x.at = "out" /\ Put(c, x)
  BY Stand
<1> HIDE DEF x
<1>2. /\ caller' \in [Callers -> Standing]
      /\ Parked' = (Parked \ {c}) \cup (IF x.at = "parked" THEN {c} ELSE {})
      /\ Used' = (Used \ {c}) \cup (IF x.at \in {"checking", "connecting", "holding"} THEN {c} ELSE {})
      /\ Borrowing' = (Borrowing \ {c}) \cup (IF x.at = "holding" THEN {c} ELSE {})
  BY <1>1, PutFacts DEF IInv
<1>3. QED
  BY <1>1, <1>2

\* A parked caller that is dropped leaves the queue and passes its wake on
\* (Waiter::drop).
LEMMA CancelParkedStep ==
    ASSUME IInv, NEW c \in Callers, CancelParked(c)
    PROVE  IInv'
<1> DEFINE K == {i \in DOMAIN waiters : waiters[i] # c}
<1>1. /\ caller[c].at = "parked" /\ slot[c] = Null /\ ~closed /\ Put(c, At("out", Null))
      /\ UNCHANGED <<pool, idle, slot, total, active, closed, closer, keeper, spoils>>
      /\ waiters' = Kept(waiters, K)
      /\ woken' = (woken \ {c}) \cup WakeIf(waiters', idle, total)
  BY DEF CancelParked
<1>2. waiters \in Seq(Callers) /\ K \in SUBSET (DOMAIN waiters)
  BY DEF IInv, Shape
<1>3. /\ c \notin Used /\ c \notin Borrowing /\ c \notin Handed /\ Lined(waiters, Handed, Parked)
  BY <1>1, Where
<1>4. /\ waiters' \in Seq(Callers) /\ Elements(waiters') = {waiters[j] : j \in K}
      /\ Distinct(waiters')
  <2> HIDE DEF K
  <2>1. QED
    BY <1>1, <1>2, <1>3, KeptFacts DEF Lined
<1>5. Elements(waiters') = Elements(waiters) \ {c}
  BY <1>4 DEF Elements
<1>6. /\ caller' \in [Callers -> Standing] /\ Parked' = Parked \ {c}
      /\ Used' = Used /\ Borrowing' = Borrowing /\ Handed' = Handed /\ Reserved' = Reserved
  BY <1>1, <1>3, LeaveFacts DEF Handed, Reserved
<1>7. woken' \subseteq Callers
  BY <1>1, <1>4, Awake DEF IInv, Shape
<1> HIDE DEF K
<1>8. Shape'
  BY <1>1, <1>4, <1>6, <1>7 DEF IInv, Shape
<1>9. QueueInv'
  BY <1>3, <1>4, <1>5, <1>6 DEF QueueInv, Lined
<1>10. ClosedInv' /\ Accounts'
  BY <1>1, <1>6 DEF IInv, ClosedInv, Accounts
<1>11. HeadAwake'
  BY <1>1, <1>4, Awake DEF HeadAwake, Available
<1>12. QED
  BY <1>8, <1>9, <1>10, <1>11 DEF IInv

\* A caller dropped with a session in its slot passes that session to the next
\* (Waiter::drop).
LEMMA CancelHandoffStep ==
    ASSUME IInv, NEW c \in Callers, CancelHandoff(c)
    PROVE  IInv'
<1>1. /\ caller[c].at = "parked" /\ slot[c] # Null /\ ~closed /\ Put(c, At("out", Null))
      /\ UNCHANGED <<pool, active, closed, closer, keeper, spoils>>
  BY DEF CancelHandoff
<1>2. /\ waiters \in Seq(Callers) /\ idle \in Seq(Offered) /\ woken \subseteq Callers /\ slot[c] \in Offered
  BY <1>1, HandFacts DEF IInv, Shape
<1>3. /\ c \notin Used /\ c \notin Borrowing /\ c \in Handed /\ c \notin Elements(waiters)
      /\ Lined(waiters, Handed, Parked)
  BY <1>1, Where
<1>4. /\ caller' \in [Callers -> Standing] /\ Parked' = Parked \ {c}
      /\ Used' = Used /\ Borrowing' = Borrowing /\ Reserved' = Reserved
  BY <1>1, <1>3, LeaveFacts DEF Reserved
<1>5. /\ Cardinality(Handed \ {c}) = Cardinality(Handed) - 1 /\ Cardinality(Handed) \in Nat
      /\ total \in Nat /\ total <= pool.max_size /\ pool.max_size \in Nat
      /\ Cardinality(Used) \in Nat /\ Reserved \in 0..1 /\ active = Cardinality(Borrowing)
      /\ Len(idle) \in Nat
  BY <1>3, Counts
<1>6. CASE slot[c].ok /\ waiters = <<>>
  <2>1. /\ idle' = Append(idle, slot[c]) /\ slot' = [slot EXCEPT ![c] = Null]
        /\ woken' = woken \ {c} /\ UNCHANGED <<waiters, total>>
    BY <1>6 DEF CancelHandoff
  <2>2. slot' \in [Callers -> Offered \cup {Null}] /\ Handed' = Handed \ {c}
    BY <2>1, HandFacts DEF IInv
  <2>3. idle' \in Seq(Offered) /\ Len(idle') = Len(idle) + 1
    BY <1>2, <2>1, Joined
  <2>4. /\ Cardinality(Handed') = Cardinality(Handed) + (-1) /\ Cardinality(Used') = Cardinality(Used) + 0
        /\ Reserved' = Reserved + 0 /\ total' = total + (1 + (-1) + 0 + 0) /\ total' <= pool.max_size
        /\ active' = Cardinality(Borrowing') /\ 1 \in Int /\ -1 \in Int /\ 0 \in Int
    BY <1>1, <1>4, <1>5, <2>1, <2>2
  <2>5. Accounts'
    BY <1>1, <2>3, <2>4, Balance
  <2>6. Shape'
    BY <1>1, <1>2, <1>4, <2>1, <2>2, <2>3 DEF IInv, Shape
  <2>7. QueueInv'
    BY <1>3, <1>4, <2>1, <2>2 DEF QueueInv, Lined
  <2>8. ClosedInv' /\ HeadAwake'
    BY <1>1, <1>6, <2>1 DEF IInv, ClosedInv, HeadAwake
  <2>9. QED
    BY <2>5, <2>6, <2>7, <2>8 DEF IInv
<1>7. CASE slot[c].ok /\ waiters # <<>>
  <2> DEFINE h == Head(waiters)
  <2>1. /\ slot' = [slot EXCEPT ![c] = Null, ![h] = slot[c]]
        /\ waiters' = Tail(waiters) /\ woken' = (woken \ {c}) \cup {h} /\ UNCHANGED <<idle, total>>
    BY <1>7 DEF CancelHandoff
  <2>2. /\ h \in Callers /\ h \in Elements(waiters) /\ Tail(waiters) \in Seq(Callers)
        /\ Distinct(Tail(waiters)) /\ Elements(Tail(waiters)) = Elements(waiters) \ {h}
    BY <1>2, <1>3, <1>7, Served DEF Lined
  <2> HIDE DEF h
  <2>3. h # c /\ h \notin Handed /\ slot \in [Callers -> Offered \cup {Null}] /\ Null \notin Offered
    BY <1>3, <2>2, Offers DEF Lined, IInv, Shape
  <2>4. /\ slot' \in [Callers -> Offered \cup {Null}] /\ slot'[c] = Null /\ slot'[h] = slot[c]
        /\ \A d \in Callers \ {c, h} : slot'[d] = slot[d]
    BY <1>2, <2>1, <2>2, <2>3
  <2>5. Handed' = (Handed \ {c}) \cup {h}
    BY <1>2, <2>2, <2>3, <2>4 DEF Handed
  <2>6. Cardinality(Handed') = Cardinality(Handed)
    <3>1. Handed \ {c} \in SUBSET Callers /\ h \notin Handed \ {c}
      BY <2>3 DEF Handed
    <3>2. Cardinality((Handed \ {c}) \cup {h}) = Cardinality(Handed \ {c}) + 1
      BY <2>2, <3>1, Count
    <3>3. QED
      BY <1>5, <2>5, <3>2
  <2>7. Accounts'
    BY <1>1, <1>4, <2>1, <2>6 DEF IInv, Accounts
  <2>8. Shape'
    BY <1>1, <1>2, <1>4, <2>1, <2>2, <2>4 DEF IInv, Shape
  <2>9. QueueInv'
    BY <1>3, <1>4, <2>1, <2>2, <2>3, <2>5 DEF QueueInv, Lined
  <2>10. ClosedInv' /\ HeadAwake'
    BY <1>1, <2>5 DEF IInv, ClosedInv, HeadAwake
  <2>11. QED
    BY <2>7, <2>8, <2>9, <2>10 DEF IInv
<1>8. CASE ~slot[c].ok
  <2>1. /\ slot' = [slot EXCEPT ![c] = Null] /\ total' = total - 1
        /\ woken' = (woken \ {c}) \cup Wake(waiters) /\ UNCHANGED <<idle, waiters>>
    BY <1>8 DEF CancelHandoff
  <2>2. slot' \in [Callers -> Offered \cup {Null}] /\ Handed' = Handed \ {c}
    BY <2>1, HandFacts DEF IInv
  <2>3. idle' \in Seq(Offered) /\ Len(idle') = Len(idle) + 0
    BY <1>2, <2>1
  <2>4. /\ Cardinality(Handed') = Cardinality(Handed) + (-1) /\ Cardinality(Used') = Cardinality(Used) + 0
        /\ Reserved' = Reserved + 0 /\ total' = total + (0 + (-1) + 0 + 0) /\ total' <= pool.max_size
        /\ active' = Cardinality(Borrowing') /\ -1 \in Int /\ 0 \in Int
    BY <1>1, <1>4, <1>5, <2>1, <2>2
  <2>5. Accounts' /\ total' \in Nat
    BY <1>1, <2>3, <2>4, Balance
  <2>6. woken' \subseteq Callers /\ HeadAwake'
    BY <1>1, <1>2, <2>1, Awake DEF HeadAwake
  <2>7. Shape'
    BY <1>1, <1>2, <1>4, <2>1, <2>2, <2>3, <2>5, <2>6 DEF IInv, Shape
  <2>8. QueueInv'
    BY <1>3, <1>4, <2>1, <2>2 DEF QueueInv, Lined
  <2>9. ClosedInv'
    BY <1>1 DEF IInv, ClosedInv
  <2>10. QED
    BY <2>5, <2>6, <2>7, <2>8, <2>9 DEF IInv
<1>9. QED
  BY <1>6, <1>7, <1>8

-----------------------------------------------------------------------------
(* Steps of borrowers.                                                     *)

\* What a borrower does with its session touches no counter, no queue and no
\* other session.
LEMMA HoldStep ==
    ASSUME IInv, NEW c \in Callers, NEW s \in Session, Hold(c, s)
    PROVE  IInv'
<1> DEFINE x == At("holding", s)
<1>1. x \in Standing /\ x.at = "holding"
  BY Stand
<1>2. /\ caller[c].at = "holding" /\ Put(c, x)
      /\ UNCHANGED <<pool, idle, waiters, slot, woken, total, active, closed, closer, keeper, spoils>>
  BY DEF Hold
<1> HIDE DEF x
<1>3. /\ closer' \in [Closers -> {"no", "waiting", "woken", "done"}] /\ spoils' \in 0..pool.spoils
      /\ woken' \subseteq Callers /\ HeadAwake'
  BY <1>2 DEF IInv, Shape, HeadAwake, Available, Handed
<1>4. total \in Nat /\ total <= pool.max_size /\ active \in Nat
  BY Counts DEF IInv, Shape
<1>5. /\ total' = (total - 1) + 1 /\ active' = (active - 1) + 1 /\ total' <= pool.max_size
      /\ 1 \in 0..1
  BY <1>2, <1>4
<1>6. /\ 1 = 1 <=> caller[c].at \in {"checking", "connecting", "holding"}
      /\ 1 = 1 <=> x.at \in {"checking", "connecting", "holding"}
      /\ 1 = 1 <=> caller[c].at = "holding"
      /\ 1 = 1 <=> x.at = "holding"
      /\ caller[c].at # "parked" /\ x.at # "parked"
  BY <1>1, <1>2
<1>7. QED
  BY <1>1, <1>2, <1>3, <1>5, <1>6, PutStep

\* Raw SQL, a transaction dropped open, a token kept and an expired command all
\* stay with the borrower.
LEMMA UseStep ==
    ASSUME IInv, NEW c \in Callers, Use(c)
    PROVE  IInv'
<1> DEFINE s == caller[c].has
<1>1. ASSUME caller[c].at = "holding" PROVE s \in Session
  BY <1>1, Stand DEF IInv, Shape
<1>2. ASSUME NEW open \in BOOLEAN, NEW settled \in BOOLEAN, RawSql(c, open, settled)
      PROVE  IInv'
  <2>1. caller[c].at = "holding"
    BY <1>2 DEF RawSql, Hold
  <2>2. [s EXCEPT !.open = open, !.settled = settled] \in Session
    BY <1>1, <2>1 DEF Session
  <2>3. QED
    BY <1>2, <2>2, HoldStep DEF RawSql
<1>3. ASSUME NEW savepoint \in BOOLEAN, DropTransaction(c, savepoint)
      PROVE  IInv'
  <2>1. caller[c].at = "holding"
    BY <1>3 DEF DropTransaction, Hold
  <2>2. [s EXCEPT !.open = @ /\ savepoint, !.settled = FALSE, !.dirty = TRUE] \in Session
    BY <1>1, <2>1 DEF Session
  <2>3. QED
    BY <1>3, <2>2, HoldStep DEF DropTransaction
<1>4. ASSUME KeepToken(c) PROVE IInv'
  <2>1. caller[c].at = "holding"
    BY <1>4 DEF KeepToken, Hold
  <2>2. [s EXCEPT !.token = TRUE] \in Session
    BY <1>1, <2>1 DEF Session
  <2>3. QED
    BY <1>4, <2>2, HoldStep DEF KeepToken
<1>5. ASSUME CommandExpires(c) PROVE IInv'
  <2>1. caller[c].at = "holding"
    BY <1>5 DEF CommandExpires, Hold
  <2>2. /\ [s EXCEPT !.open = FALSE, !.settled = TRUE, !.dirty = @ /\ ~s.open] \in Session
        /\ [s EXCEPT !.ok = FALSE] \in Session
    BY <1>1, <2>1 DEF Session
  <2>3. QED
    BY <1>5, <2>2, HoldStep DEF CommandExpires
<1>6. QED
  BY <1>2, <1>3, <1>4, <1>5 DEF Use

\* A returned session is handed to the head of the queue, shelved or dropped
\* (return_client).
LEMMA ReturnStep ==
    ASSUME IInv, NEW c \in Callers, NEW keep \in BOOLEAN, Return(c, keep)
    PROVE  IInv'
<1> DEFINE s == caller[c].has
           back == Rolled(s)
<1>1. /\ caller[c].at = "holding" /\ ~closed /\ active' = active - 1 /\ Put(c, At("out", Null))
      /\ UNCHANGED <<pool, closed, closer, keeper, spoils>>
  BY DEF Return
<1>2. /\ waiters \in Seq(Callers) /\ idle \in Seq(Offered) /\ woken \subseteq Callers /\ s \in Session
      /\ slot \in [Callers -> Offered \cup {Null}]
  BY <1>1, Stand DEF IInv, Shape
<1>3. /\ c \in Used /\ c \in Borrowing /\ c \notin Parked /\ c \notin Handed /\ c \notin Elements(waiters)
      /\ Lined(waiters, Handed, Parked)
  BY <1>1, Where
<1>4. CASE ~(s.ok /\ ~s.token /\ keep)
  <2>1. FreeSlot /\ UNCHANGED <<idle, waiters, slot>>
    BY <1>4 DEF Return
  <2>2. QED
    BY <1>1, <2>1, FreeStep
<1>5. CASE s.ok /\ ~s.token /\ keep
  <2>1. Deposit(back) /\ UNCHANGED total
    BY <1>5 DEF Return
  <2>2. back \in Offered
    BY <1>2, <1>5, Offers
  <2> HIDE DEF back
  <2>3. /\ caller' \in [Callers -> Standing] /\ Parked' = Parked
        /\ Used' = Used \ {c} /\ Borrowing' = Borrowing \ {c} /\ Reserved' = Reserved
    <3>1. /\ caller' \in [Callers -> Standing] /\ Parked' = Parked \ {c}
          /\ Used' = Used \ {c} /\ Borrowing' = Borrowing \ {c}
      BY <1>1, LeaveFacts
    <3>2. Reserved' = Reserved
      BY <1>1 DEF Reserved
    <3>3. QED
      BY <1>3, <3>1, <3>2
  <2>4. /\ Cardinality(Used \ {c}) = Cardinality(Used) - 1 /\ Cardinality(Used) \in Nat
        /\ Cardinality(Borrowing \ {c}) = Cardinality(Borrowing) - 1 /\ Cardinality(Borrowing) \in Nat
        /\ total \in Nat /\ total <= pool.max_size /\ pool.max_size \in Nat
        /\ Cardinality(Handed) \in Nat /\ Reserved \in 0..1 /\ active = Cardinality(Borrowing)
        /\ Len(idle) \in Nat
    BY <1>3, Counts
  <2>5. /\ Cardinality(Used') = Cardinality(Used) + (-1) /\ Reserved' = Reserved + 0
        /\ active' = Cardinality(Borrowing') /\ total' <= pool.max_size
        /\ 1 \in Int /\ -1 \in Int /\ 0 \in Int
    BY <1>1, <2>1, <2>3, <2>4
  <2>6. CASE waiters = <<>>
    <3>1. idle' = Append(idle, back) /\ UNCHANGED <<waiters, slot, woken>>
      BY <2>1, <2>6 DEF Deposit
    <3>2. idle' \in Seq(Offered) /\ Len(idle') = Len(idle) + 1
      BY <1>2, <2>2, <3>1, Joined
    <3>3. /\ Handed' = Handed /\ Cardinality(Handed') = Cardinality(Handed) + 0
          /\ total' = total + (1 + 0 + (-1) + 0)
      BY <2>1, <2>4, <3>1 DEF Handed
    <3>4. Accounts' /\ active' \in Nat
      BY <1>1, <2>5, <3>2, <3>3, Balance
    <3>5. Shape'
      BY <1>1, <1>2, <2>1, <2>3, <3>1, <3>2, <3>4 DEF IInv, Shape
    <3>6. QueueInv'
      BY <1>3, <2>3, <3>1, <3>3 DEF QueueInv
    <3>7. ClosedInv' /\ HeadAwake'
      BY <1>1, <2>6, <3>1 DEF IInv, ClosedInv, HeadAwake
    <3>8. QED
      BY <3>4, <3>5, <3>6, <3>7 DEF IInv
  <2>7. CASE waiters # <<>>
    <3> DEFINE h == Head(waiters)
    <3>1. /\ slot' = [slot EXCEPT ![h] = back] /\ waiters' = Tail(waiters)
          /\ woken' = woken \cup {h} /\ UNCHANGED idle
      BY <2>1, <2>7 DEF Deposit
    <3>2. /\ h \in Callers /\ h \in Elements(waiters) /\ Tail(waiters) \in Seq(Callers)
          /\ Distinct(Tail(waiters)) /\ Elements(Tail(waiters)) = Elements(waiters) \ {h}
      BY <1>2, <1>3, <2>7, Served DEF Lined
    <3> HIDE DEF h
    <3>3. h \notin Handed /\ Handed \in SUBSET Callers
      BY <1>3, <3>2 DEF Lined, Handed
    <3>4. slot' \in [Callers -> Offered \cup {Null}] /\ Handed' = Handed \cup {h}
      BY <2>2, <3>1, <3>2, HandFacts DEF IInv
    <3>5. Cardinality(Handed') = Cardinality(Handed) + 1
      BY <3>2, <3>3, <3>4, Count
    <3>6. /\ total' = total + (0 + 1 + (-1) + 0) /\ idle' \in Seq(Offered) /\ Len(idle') = Len(idle) + 0
      BY <1>2, <2>1, <2>4, <3>1
    <3>7. Accounts' /\ active' \in Nat
      BY <1>1, <2>5, <3>5, <3>6, Balance
    <3>8. Shape'
      BY <1>1, <1>2, <2>1, <2>3, <3>1, <3>2, <3>4, <3>7 DEF IInv, Shape
    <3>9. QueueInv'
      BY <1>3, <2>3, <3>1, <3>2, <3>3, <3>4 DEF QueueInv, Lined
    <3>10. ClosedInv' /\ HeadAwake'
      BY <1>1, <3>4 DEF IInv, ClosedInv, HeadAwake
    <3>11. QED
      BY <3>7, <3>8, <3>9, <3>10 DEF IInv
  <2>8. QED
    BY <2>6, <2>7
<1>6. QED
  BY <1>4, <1>5

\* On a closed pool a caller goes, with its session, its claim or its place in
\* line.
LEMMA GoneStep ==
    ASSUME IInv, closed, NEW c \in Callers, Put(c, At("out", Null)), caller[c].at # "out",
           UNCHANGED <<pool, idle, waiters, slot, closed, keeper, spoils>>,
           closer' \in [Closers -> {"no", "waiting", "woken", "done"}], woken' \subseteq Callers,
           total' = IF caller[c].at = "parked" THEN total ELSE total - 1,
           active' = IF caller[c].at = "holding" THEN active - 1 ELSE active
    PROVE  IInv'
<1> DEFINE x == At("out", Null)
<1>1. x \in Standing /\ x.at = "out" /\ Put(c, x)
  BY Stand
<1> HIDE DEF x
<1>2. spoils' \in 0..pool.spoils /\ HeadAwake'
  BY DEF IInv, Shape, HeadAwake
<1>3. /\ total \in Nat /\ total <= pool.max_size /\ pool.max_size \in Nat /\ active \in Nat
      /\ caller[c].at \in {"out", "parked", "connecting", "checking", "holding"}
  BY Counts, Stand DEF IInv, Shape
<1>4. /\ 0 \in 0..1 /\ 1 \in 0..1
      /\ 0 = 1 <=> x.at \in {"checking", "connecting", "holding"}
      /\ 0 = 1 <=> x.at = "holding"
  BY <1>1
<1>5. CASE caller[c].at = "parked"
  <2>1. /\ total' = (total - 0) + 0 /\ active' = (active - 0) + 0 /\ total' <= pool.max_size
        /\ 0 = 1 <=> caller[c].at \in {"checking", "connecting", "holding"}
        /\ 0 = 1 <=> caller[c].at = "holding"
    BY <1>3, <1>5
  <2>2. QED
    BY <1>1, <1>2, <1>4, <2>1, PutStep
<1>6. CASE caller[c].at = "holding"
  <2>1. /\ total' = (total - 1) + 0 /\ active' = (active - 1) + 0 /\ total' <= pool.max_size
        /\ 1 = 1 <=> caller[c].at \in {"checking", "connecting", "holding"}
        /\ 1 = 1 <=> caller[c].at = "holding"
    BY <1>3, <1>6
  <2>2. QED
    BY <1>1, <1>2, <1>4, <2>1, PutStep
<1>7. CASE caller[c].at \in {"checking", "connecting"}
  <2>1. /\ total' = (total - 1) + 0 /\ active' = (active - 0) + 0 /\ total' <= pool.max_size
        /\ 1 = 1 <=> caller[c].at \in {"checking", "connecting", "holding"}
        /\ 0 = 1 <=> caller[c].at = "holding"
    BY <1>3, <1>7
  <2>2. QED
    BY <1>1, <1>2, <1>4, <2>1, PutStep
<1>8. QED
  BY <1>3, <1>5, <1>6, <1>7

\* A session returned to a closed pool is dropped with its slot (return_client
\* after begin_close).
LEMMA ReturnClosedStep ==
    ASSUME IInv, NEW c \in Callers, ReturnClosed(c)
    PROVE  IInv'
<1>1. /\ closed /\ caller[c].at = "holding" /\ Put(c, At("out", Null))
      /\ active' = active - 1 /\ total' = total - 1
      /\ UNCHANGED <<pool, idle, waiters, slot, woken, closed, keeper, spoils>>
      /\ closer' = [k \in Closers |-> IF active' = 0 /\ closer[k] = "waiting" THEN "woken" ELSE closer[k]]
  BY DEF ReturnClosed
<1>2. closer' \in [Closers -> {"no", "waiting", "woken", "done"}] /\ woken' \subseteq Callers
  BY <1>1 DEF IInv, Shape
<1>3. QED
  BY <1>1, <1>2, GoneStep

\* A caller of a closed pool leaves with an error and gives back what it held.
LEMMA AcquireClosedStep ==
    ASSUME IInv, NEW c \in Callers, AcquireClosed(c)
    PROVE  IInv'
<1>1. /\ closed /\ caller[c].at \in Pending /\ Put(c, At("out", Null))
      /\ total' = IF caller[c].at = "parked" THEN total ELSE total - 1
      /\ woken' = woken \ {c}
      /\ UNCHANGED <<pool, idle, waiters, slot, active, closed, closer, keeper, spoils>>
  BY DEF AcquireClosed
<1>2. /\ closer' \in [Closers -> {"no", "waiting", "woken", "done"}] /\ woken' \subseteq Callers
      /\ caller[c].at # "out" /\ caller[c].at # "holding"
  BY <1>1 DEF IInv, Shape, Pending
<1>3. QED
  BY <1>1, <1>2, GoneStep

\* A session spoils where it is: no place and no count changes.
LEMMA SpoilStep ==
    ASSUME IInv, Spoil
    PROVE  IInv'
<1>1. /\ spoils' = spoils + 1 /\ spoils < pool.spoils
      /\ UNCHANGED <<pool, waiters, woken, total, active, closed, closer, keeper>>
  BY DEF Spoil
<1>2. spoils' \in 0..pool.spoils
  BY <1>1, Sizes DEF IInv, Shape
<1>3. /\ idle \in Seq(Offered) /\ slot \in [Callers -> Offered \cup {Null}] /\ caller \in [Callers -> Standing]
      /\ Null \notin Offered
  BY Offers DEF IInv, Shape
<1>4. /\ idle' \in Seq(Offered) /\ Len(idle') = Len(idle) /\ (idle' # <<>> <=> idle # <<>>)
      /\ slot' \in [Callers -> Offered \cup {Null}] /\ Handed' = Handed
      /\ caller' \in [Callers -> Standing] /\ \A c \in Callers : caller'[c].at = caller[c].at
  <2>1. ASSUME NEW i \in DOMAIN idle, idle' = [idle EXCEPT ![i] = Spoiled(@)], UNCHANGED <<slot, caller>>
        PROVE  <1>4!:
    <3>1. idle[i] \in Offered /\ Spoiled(idle[i]) \in Offered /\ idle' = [idle EXCEPT ![i] = Spoiled(idle[i])]
      BY <1>3, <2>1, Offers
    <3>2. idle' \in Seq(Offered) /\ Len(idle') = Len(idle)
      BY <1>3, <3>1
    <3>3. QED
      BY <1>3, <2>1, <3>2 DEF Handed
  <2>2. ASSUME NEW c \in Callers, slot[c] # Null, slot' = [slot EXCEPT ![c] = Spoiled(@)],
               UNCHANGED <<idle, caller>>
        PROVE  <1>4!:
    <3>1. slot[c] \in Offered /\ Spoiled(slot[c]) \in Offered /\ slot' = [slot EXCEPT ![c] = Spoiled(slot[c])]
      BY <1>3, <2>2, Offers
    <3>2. slot' \in [Callers -> Offered \cup {Null}] /\ Handed' = Handed \cup {c} /\ c \in Handed
      BY <2>2, <3>1, HandFacts DEF IInv, Handed
    <3>3. QED
      BY <1>3, <2>2, <3>2
  <2>3. ASSUME NEW c \in Callers, caller[c].has # Null, Put(c, [caller[c] EXCEPT !.has = Spoiled(@)]),
               UNCHANGED <<idle, slot>>
        PROVE  <1>4!:
    <3> DEFINE x == [caller[c] EXCEPT !.has = Spoiled(@)]
    <3>1. caller[c] \in Standing /\ caller[c].at \in {"checking", "holding"}
      BY <1>3, <2>3, Stand
    <3>2. x \in Standing /\ x.at = caller[c].at
      <4>1. CASE caller[c].at = "checking"
        <5>1. caller[c] \in [at : {"checking"}, has : Offered] /\ Spoiled(caller[c].has) \in Offered
          BY <3>1, <4>1, Offers DEF Standing
        <5>2. x \in [at : {"checking"}, has : Offered] /\ x.at = caller[c].at
          BY <5>1
        <5>3. QED
          BY <5>2 DEF Standing
      <4>2. CASE caller[c].at = "holding"
        <5>1. caller[c] \in [at : {"holding"}, has : Session] /\ Spoiled(caller[c].has) \in Session
          BY <3>1, <4>2, Offers DEF Standing
        <5>2. x \in [at : {"holding"}, has : Session] /\ x.at = caller[c].at
          BY <5>1
        <5>3. QED
          BY <5>2 DEF Standing
      <4>3. QED
        BY <3>1, <4>1, <4>2
    <3> HIDE DEF x
    <3>3. Put(c, x)
      BY <2>3 DEF x
    <3>4. caller' \in [Callers -> Standing] /\ \A d \in Callers : caller'[d].at = caller[d].at
      BY <1>3, <3>2, <3>3 DEF Put
    <3>5. QED
      BY <1>3, <2>3, <3>4 DEF Handed
  <2>4. QED
    BY <2>1, <2>2, <2>3 DEF Spoil
<1>5. Used' = Used /\ Borrowing' = Borrowing /\ Parked' = Parked /\ Reserved' = Reserved
  BY <1>1, <1>4 DEF Used, Borrowing, Parked, Places, Reserved
<1>6. Shape'
  BY <1>1, <1>2, <1>4 DEF IInv, Shape
<1>7. QueueInv' /\ Accounts'
  BY <1>1, <1>4, <1>5 DEF IInv, QueueInv, Accounts
<1>8. ClosedInv' /\ HeadAwake'
  BY <1>1, <1>4 DEF IInv, ClosedInv, HeadAwake, Available
<1>9. QED
  BY <1>6, <1>7, <1>8 DEF IInv

-----------------------------------------------------------------------------
(* Steps of the housekeeper and of close.                                  *)

\* The refill loop reserves a slot or goes to sleep.
LEMMA RefillFacts ==
    ASSUME pool \in Pools, ~closed, NEW n \in Nat, n <= pool.max_size,
           NEW q \in Seq(Callers), NEW w \in SUBSET Callers, NEW shelf, Refill(shelf, n, q, w)
    PROVE  /\ keeper' \in {"asleep", "connecting"} /\ Reserved' \in 0..1
           /\ total' = n + Reserved' /\ total' <= pool.max_size /\ woken' \subseteq Callers
           /\ keeper' = "asleep" => total' = n /\ woken' = w
           /\ keeper' = "connecting" /\ q # <<>> /\ Available(shelf, total') => Head(q) \in woken'
<1>1. pool.max_size \in Nat
  BY Sizes
<1>2. CASE keeper' = "connecting" /\ total' = n + 1 /\ n < pool.max_size
           /\ woken' = w \cup WakeIf(q, shelf, n + 1)
  <2>1. Reserved' = 1 /\ total' <= pool.max_size
    BY <1>1, <1>2 DEF Reserved
  <2>2. woken' \subseteq Callers /\ (q # <<>> /\ Available(shelf, total') => Head(q) \in woken')
    BY <1>2, Awake
  <2>3. QED
    BY <1>2, <2>1, <2>2
<1>3. CASE keeper' = "asleep" /\ total' = n /\ woken' = w
  BY <1>3 DEF Reserved
<1>4. QED
  BY <1>2, <1>3 DEF Refill

\* One tick reaps from the shelf and may reserve one slot for a refill
\* (housekeep).
LEMMA HousekeepStep ==
    ASSUME IInv, NEW keep, Housekeep(keep)
    PROVE  IInv'
<1> DEFINE kept    == Kept(idle, keep)
           evicted == Len(idle) - Len(kept)
           n       == total - evicted
           w       == IF evicted > 0 THEN woken \cup Front(waiters) ELSE woken
<1>1. /\ keeper = "asleep" /\ ~closed /\ keep \subseteq {i \in DOMAIN idle : idle[i].ok}
      /\ idle' = kept /\ Refill(kept, n, waiters, w)
      /\ UNCHANGED <<pool, waiters, slot, active, closed, caller, closer, spoils>>
  BY DEF Housekeep
<1>2. /\ waiters \in Seq(Callers) /\ idle \in Seq(Offered) /\ woken \subseteq Callers
      /\ keep \in SUBSET (DOMAIN idle)
  BY <1>1 DEF IInv, Shape
<1>3. kept \in Seq(Offered) /\ Len(kept) \in Nat /\ Len(kept) <= Len(idle)
  BY <1>2, KeptFacts
<1>4. w \in SUBSET Callers /\ (evicted > 0 /\ waiters # <<>> => Head(waiters) \in w)
  BY <1>2, Awake
<1>5. /\ Len(idle) \in Nat /\ total \in Nat /\ Len(idle) <= total /\ total <= pool.max_size
      /\ pool \in Pools /\ pool.max_size \in Nat /\ active = Cardinality(Borrowing)
      /\ Cardinality(Handed) \in Nat /\ Cardinality(Used) \in Nat /\ Reserved = 0
  BY <1>1, Totals DEF Reserved
<1> HIDE DEF kept
<1>6. evicted \in Nat /\ n \in Nat /\ n <= pool.max_size /\ Len(kept) = Len(idle) + (-evicted)
  BY <1>3, <1>5
<1> HIDE DEF w, n
<1>7. /\ keeper' \in {"asleep", "connecting"} /\ Reserved' \in 0..1
      /\ total' = n + Reserved' /\ total' <= pool.max_size /\ woken' \subseteq Callers
      /\ keeper' = "asleep" => total' = n /\ woken' = w
      /\ keeper' = "connecting" /\ waiters # <<>> /\ Available(kept, total') => Head(waiters) \in woken'
  BY <1>1, <1>2, <1>4, <1>5, <1>6, RefillFacts
<1>8. Used' = Used /\ Borrowing' = Borrowing /\ Parked' = Parked /\ Handed' = Handed
  BY <1>1 DEF Used, Borrowing, Parked, Places, Handed
<1> HIDE DEF evicted
<1>9. /\ idle' \in Seq(Offered) /\ Len(idle') = Len(idle) + (-evicted) /\ -evicted \in Int /\ 0 \in Int
      /\ Cardinality(Handed') = Cardinality(Handed) + 0 /\ Cardinality(Used') = Cardinality(Used) + 0
      /\ Reserved' \in Int /\ Reserved' = Reserved + Reserved' /\ active' = Cardinality(Borrowing')
  <2>1. /\ idle' \in Seq(Offered) /\ Len(idle') = Len(idle) + (-evicted) /\ -evicted \in Int /\ 0 \in Int
    BY <1>1, <1>3, <1>6
  <2>2. Cardinality(Handed') = Cardinality(Handed) + 0 /\ Cardinality(Used') = Cardinality(Used) + 0
    BY <1>5, <1>8
  <2>3. Reserved' \in Int /\ Reserved' = Reserved + Reserved' /\ active' = Cardinality(Borrowing')
    <3> DEFINE r == Reserved'
    <3>1. r \in 0..1 /\ Reserved = 0 /\ active' = Cardinality(Borrowing')
      BY <1>1, <1>5, <1>7, <1>8
    <3> HIDE DEF r
    <3>2. r \in Int /\ r = 0 + r
      BY <3>1
    <3>3. QED
      BY <3>1, <3>2 DEF r
  <2>4. QED
    BY <2>1, <2>2, <2>3
<1>10. total' = total + ((-evicted) + 0 + 0 + Reserved')
  <2>1. n = total - evicted
    BY DEF n
  <2>2. QED
    BY <1>5, <1>6, <1>7, <2>1
<1>11. Accounts' /\ total' \in Nat /\ active' \in Nat
  BY <1>1, <1>7, <1>9, <1>10, Balance
<1>12. Shape'
  BY <1>1, <1>7, <1>9, <1>11 DEF IInv, Shape
<1>13. QueueInv' /\ ClosedInv'
  BY <1>1, <1>7, <1>8 DEF IInv, QueueInv, ClosedInv
<1>14. HeadAwake'
  <2> SUFFICES ASSUME waiters # <<>>, Available(kept, total')
               PROVE  Head(waiters) \in woken' \/ Handed # {}
    BY <1>1, <1>8 DEF HeadAwake, Available
  <2>1. CASE keeper' = "connecting"
    BY <1>7, <2>1
  <2>2. CASE keeper' = "asleep" /\ evicted > 0
    BY <1>4, <1>7, <2>2
  <2>3. CASE keeper' = "asleep" /\ ~(evicted > 0)
    <3>1. evicted = 0
      BY <1>6, <2>3
    <3>2. total' = total /\ woken' = woken /\ Len(kept) = Len(idle)
      BY <1>3, <1>5, <1>7, <2>3, <3>1 DEF n, w, evicted
    <3>3. Available(idle, total)
      BY <1>2, <1>3, <3>2 DEF Available
    <3>4. QED
      BY <1>1, <3>2, <3>3 DEF IInv, HeadAwake
  <2>4. QED
    BY <1>6, <1>7, <2>1, <2>2, <2>3
<1>15. QED
  BY <1>11, <1>12, <1>13, <1>14 DEF IInv

\* The refill's connection is handed over, shelved or, in a closed pool, dropped
\* (housekeep).
LEMMA KeeperConnectedStep ==
    ASSUME IInv, KeeperConnected
    PROVE  IInv'
<1> DEFINE q      == IF waiters = <<>> THEN <<>> ELSE Tail(waiters)
           full   == IF waiters = <<>> THEN Append(idle, Fresh) ELSE idle
           K      == {i \in DOMAIN full : full[i].ok}
           shelf  == Kept(full, K)
           reaped == Len(full) - Len(shelf)
           w      == woken \cup Front(waiters) \cup IF reaped > 0 THEN Front(q) ELSE {}
           n      == total - reaped
<1>1. /\ keeper = "connecting" /\ ~closed
      /\ slot' = [c \in Callers |-> IF c \in Front(waiters) THEN Fresh ELSE slot[c]]
      /\ waiters' = q /\ idle' = shelf /\ Refill(shelf, n, q, w)
      /\ UNCHANGED <<pool, active, closed, caller, closer, spoils>>
  BY DEF KeeperConnected
<1>2. /\ waiters \in Seq(Callers) /\ idle \in Seq(Offered) /\ woken \subseteq Callers
      /\ slot \in [Callers -> Offered \cup {Null}] /\ Fresh \in Offered /\ Null \notin Offered
  BY Offers DEF IInv, Shape
<1>3. Lined(waiters, Handed, Parked)
  BY <1>1 DEF IInv, QueueInv
<1>4. q \in Seq(Callers) /\ full \in Seq(Offered) /\ K \in SUBSET (DOMAIN full)
  BY <1>2, Served, Joined
<1>5. shelf \in Seq(Offered) /\ Len(shelf) \in Nat /\ Len(shelf) <= Len(full) /\ Len(full) \in Nat
  <2> HIDE DEF K, full
  <2>1. QED
    BY <1>4, KeptFacts
<1>6. /\ Len(idle) \in Nat /\ total \in Nat /\ total <= pool.max_size
      /\ pool \in Pools /\ pool.max_size \in Nat /\ active = Cardinality(Borrowing)
      /\ Cardinality(Handed) \in Nat /\ Cardinality(Used) \in Nat /\ Reserved = 1
      /\ total = Len(idle) + (Cardinality(Handed) + Cardinality(Used) + Reserved)
  BY <1>1, Totals DEF Reserved
<1>7. w \in SUBSET Callers
  <2> HIDE DEF reaped, q
  <2>1. QED
    BY <1>2, <1>4, Awake
<1>8. /\ slot' \in [Callers -> Offered \cup {Null}]
      /\ Handed' = Handed \cup Front(waiters)
  BY <1>1, <1>2 DEF Handed, Front
<1>9. Used' = Used /\ Borrowing' = Borrowing /\ Parked' = Parked
  BY <1>1 DEF Used, Borrowing, Parked, Places
<1>10. /\ Lined(q, Handed', Parked')
       /\ waiters # <<>> => Handed' # {}
       /\ waiters = <<>> => q = <<>>
       /\ \E d \in 0..1 : Cardinality(Handed') = Cardinality(Handed) + d /\ Len(full) = Len(idle) + (1 - d)
  <2>1. CASE waiters = <<>>
    <3>1. Front(waiters) = {} /\ q = <<>> /\ full = Append(idle, Fresh)
      BY <2>1 DEF Front
    <3>2. Handed' = Handed
      BY <1>8, <3>1
    <3>3. Len(full) = Len(idle) + (1 - 0) /\ Cardinality(Handed') = Cardinality(Handed) + 0
      BY <1>2, <1>6, <3>1, <3>2, Joined
    <3>4. Lined(q, Handed', Parked')
      BY <1>3, <1>9, <2>1, <3>1, <3>2
    <3> HIDE DEF q, full
    <3>5. QED
      BY <2>1, <3>1, <3>3, <3>4
  <2>2. CASE waiters # <<>>
    <3> DEFINE h == Head(waiters)
    <3>1. Front(waiters) = {h} /\ q = Tail(waiters) /\ full = idle
      BY <2>2 DEF Front
    <3>2. /\ h \in Callers /\ h \in Elements(waiters)
          /\ Distinct(q) /\ Elements(q) = Elements(waiters) \ {h}
      BY <1>2, <1>3, <2>2, <3>1, Served DEF Lined
    <3> HIDE DEF h, q, full
    <3>3. h \notin Handed /\ Handed \in SUBSET Callers /\ Handed' = Handed \cup {h}
      BY <1>3, <1>8, <3>1, <3>2 DEF Lined, Handed
    <3>4. Cardinality(Handed') = Cardinality(Handed) + 1
      BY <3>2, <3>3, Count
    <3>5. Lined(q, Handed', Parked')
      BY <1>3, <1>9, <3>2, <3>3 DEF Lined
    <3>6. Len(full) = Len(idle) + (1 - 1)
      BY <1>6, <3>1
    <3>7. QED
      BY <2>2, <3>3, <3>4, <3>5, <3>6
  <2>3. QED
    BY <2>1, <2>2
<1>11. PICK d \in 0..1 : Cardinality(Handed') = Cardinality(Handed) + d /\ Len(full) = Len(idle) + (1 - d)
  BY <1>10
<1>12. /\ reaped \in Nat /\ n = total - reaped /\ reaped <= Len(full) /\ Len(shelf) = Len(full) - reaped
  <2> HIDE DEF shelf, full
  <2>1. QED
    BY <1>5
<1> HIDE DEF shelf, full, reaped, n, w, q
<1>13. n \in Nat /\ n <= pool.max_size
  <2> DEFINE l == Len(idle)
             h == Cardinality(Handed)
             u == Cardinality(Used)
             f == Len(full)
  <2>1. /\ l \in Nat /\ h \in Nat /\ u \in Nat /\ total = l + (h + u + 1) /\ total \in Nat
        /\ f = l + (1 - d) /\ d \in 0..1 /\ reaped \in Nat /\ n = total - reaped /\ reaped <= f
        /\ total <= pool.max_size /\ pool.max_size \in Nat
    BY <1>6, <1>11, <1>12
  <2> HIDE DEF l, h, u, f
  <2>2. QED
    BY <2>1
<1>14. /\ keeper' \in {"asleep", "connecting"} /\ Reserved' \in 0..1
       /\ total' = n + Reserved' /\ total' <= pool.max_size /\ woken' \subseteq Callers
       /\ keeper' = "connecting" /\ q # <<>> /\ Available(shelf, total') => Head(q) \in woken'
  BY <1>1, <1>4, <1>6, <1>7, <1>13, RefillFacts
<1> DEFINE di == (1 - d) - reaped
           dr == Reserved' - 1
<1>15. /\ idle' \in Seq(Offered) /\ Len(idle') = Len(idle) + di /\ di \in Int /\ dr \in Int /\ d \in Int
       /\ 0 \in Int /\ Cardinality(Used') = Cardinality(Used) + 0 /\ Reserved' = Reserved + dr
       /\ active' = Cardinality(Borrowing')
  <2>1. idle' \in Seq(Offered) /\ active' = Cardinality(Borrowing') /\ d \in Int /\ 0 \in Int
    BY <1>1, <1>5, <1>6, <1>9
  <2>2. di \in Int /\ dr \in Int
    BY <1>12, <1>14
  <2>3. Reserved' = Reserved + dr
    <3> DEFINE r == Reserved'
    <3>1. r \in 0..1 /\ Reserved = 1 /\ dr = r - 1
      BY <1>6, <1>14
    <3> HIDE DEF r, dr
    <3>2. r = 1 + dr
      BY <3>1
    <3>3. QED
      BY <3>1, <3>2 DEF r
  <2>4. Cardinality(Used') = Cardinality(Used) + 0
    BY <1>6, <1>9
  <2>5. Len(idle') = Len(idle) + di
    <3> DEFINE l == Len(idle)
               s == Len(shelf)
               f == Len(full)
    <3>1. l \in Nat /\ f = l + (1 - d) /\ s = f - reaped /\ reaped \in Nat /\ Len(idle') = s
      BY <1>1, <1>6, <1>11, <1>12
    <3> HIDE DEF l, s, f
    <3>2. Len(idle') = l + ((1 - d) - reaped)
      BY <3>1
    <3>3. QED
      BY <3>2 DEF l
  <2>6. QED
    BY <2>1, <2>2, <2>3, <2>4, <2>5
<1>16. total' = total + (di + d + 0 + dr)
  BY <1>6, <1>12, <1>14
<1> HIDE DEF di, dr
<1>17. Accounts' /\ total' \in Nat /\ active' \in Nat
  BY <1>1, <1>11, <1>14, <1>15, <1>16, Balance
<1>18. Shape'
  BY <1>1, <1>4, <1>8, <1>14, <1>15, <1>17 DEF IInv, Shape
<1>19. QueueInv' /\ ClosedInv'
  BY <1>1, <1>10, <1>14 DEF IInv, QueueInv, ClosedInv
<1>20. HeadAwake'
  BY <1>1, <1>10 DEF HeadAwake
<1>21. QED
  BY <1>17, <1>18, <1>19, <1>20 DEF IInv

\* Only callers of close, or nothing, move.
LEMMA CloserStep ==
    ASSUME IInv, closer' \in [Closers -> {"no", "waiting", "woken", "done"}],
           UNCHANGED <<pool, idle, waiters, slot, woken, total, active, closed, caller, keeper, spoils>>
    PROVE  IInv'
<1>1. /\ Handed' = Handed /\ Used' = Used /\ Borrowing' = Borrowing /\ Parked' = Parked
      /\ Reserved' = Reserved
  BY DEF Handed, Used, Borrowing, Parked, Places, Reserved
<1>2. Shape'
  BY DEF IInv, Shape
<1>3. QueueInv' /\ ClosedInv' /\ Accounts'
  BY <1>1 DEF IInv, QueueInv, ClosedInv, Accounts
<1>4. HeadAwake'
  BY <1>1 DEF IInv, HeadAwake, Available
<1>5. QED
  BY <1>2, <1>3, <1>4 DEF IInv

\* A reservation of the keeper's is given back.
LEMMA KeeperLetsGo ==
    ASSUME IInv, keeper \in {"connecting", "cancelled"}, keeper' \in {"asleep", "off"},
           keeper' = "off" <=> closed, total' = total - 1, woken' \subseteq Callers, HeadAwake',
           UNCHANGED <<pool, idle, waiters, slot, active, closed, caller, closer, spoils>>
    PROVE  IInv'
<1>1. /\ Handed' = Handed /\ Used' = Used /\ Borrowing' = Borrowing /\ Parked' = Parked
  BY DEF Handed, Used, Borrowing, Parked, Places
<1>2. Reserved = 1 /\ Reserved' = 0
  BY DEF Reserved
<1>3. /\ total \in Nat /\ total <= pool.max_size /\ pool.max_size \in Nat /\ Len(idle) \in Nat
      /\ Cardinality(Handed) \in Nat /\ Cardinality(Used) \in Nat /\ active = Cardinality(Borrowing)
      /\ idle \in Seq(Offered)
  BY Totals DEF IInv, Shape
<1>4. /\ Len(idle') = Len(idle) + 0 /\ Cardinality(Handed') = Cardinality(Handed) + 0
      /\ Cardinality(Used') = Cardinality(Used) + 0 /\ Reserved' = Reserved + (-1)
      /\ total' = total + (0 + 0 + 0 + (-1)) /\ total' <= pool.max_size
      /\ active' = Cardinality(Borrowing') /\ 0 \in Int /\ -1 \in Int /\ idle' \in Seq(Offered)
  BY <1>1, <1>2, <1>3
<1>5. Accounts' /\ total' \in Nat
  BY <1>4, Balance
<1>6. Shape'
  BY <1>5 DEF IInv, Shape
<1>7. QueueInv' /\ ClosedInv'
  BY <1>1 DEF IInv, QueueInv, ClosedInv
<1>8. QED
  BY <1>5, <1>6, <1>7 DEF IInv

\* A refill that fails, or is dropped, gives its slot back and wakes the next
\* caller.
LEMMA KeeperStep ==
    ASSUME IInv, KeeperFails \/ KeeperDropped
    PROVE  IInv'
<1>1. CASE KeeperFails
  <2>1. /\ keeper = "connecting" /\ ~closed /\ total' = total - 1 /\ woken' = woken \cup Wake(waiters)
        /\ keeper' = "asleep"
        /\ UNCHANGED <<pool, idle, waiters, slot, active, closed, caller, closer, spoils>>
    BY <1>1 DEF KeeperFails, FreeSlot
  <2>2. waiters \in Seq(Callers) /\ woken \subseteq Callers
    BY DEF IInv, Shape
  <2>3. woken' \subseteq Callers /\ HeadAwake'
    BY <2>1, <2>2, Awake DEF HeadAwake
  <2>4. QED
    BY <2>1, <2>3, KeeperLetsGo
<1>2. CASE KeeperDropped
  <2>1. /\ keeper = "cancelled" /\ total' = total - 1 /\ keeper' = "off"
        /\ UNCHANGED <<pool, idle, waiters, slot, woken, active, closed, caller, closer, spoils>>
    BY <1>2 DEF KeeperDropped
  <2>2. closed /\ woken' \subseteq Callers
    BY <2>1 DEF IInv, ClosedInv, Shape
  <2>3. HeadAwake'
    BY <2>1, <2>2 DEF HeadAwake
  <2>4. QED
    BY <2>1, <2>2, <2>3, KeeperLetsGo
<1>3. QED
  BY <1>1, <1>2

\* Close empties the shelf, wakes everyone parked and stops the housekeeper
\* (begin_close).
LEMMA CloseStep ==
    ASSUME IInv, NEW k \in Closers, Close(k)
    PROVE  IInv'
<1>1. /\ closer' = [closer EXCEPT ![k] = IF active = 0 THEN "done" ELSE "waiting"]
      /\ UNCHANGED <<pool, active, caller, spoils>>
  BY DEF Close
<1>2. closer' \in [Closers -> {"no", "waiting", "woken", "done"}]
  BY <1>1 DEF IInv, Shape
<1>3. CASE closed
  BY <1>1, <1>2, <1>3, CloserStep DEF Close
<1>4. CASE ~closed
  <2>1. /\ closed' = TRUE /\ keeper' = IF keeper = "connecting" THEN "cancelled" ELSE "off"
        /\ idle' = <<>> /\ waiters' = <<>> /\ slot' = [c \in Callers |-> Null]
        /\ total' = total - Len(idle) - Cardinality(Handed)
        /\ woken' = {c \in Callers : caller[c].at \in Pending}
    BY <1>4 DEF Close
  <2>2. Handed' = {} /\ slot' \in [Callers -> Offered \cup {Null}]
    BY <2>1 DEF Handed
  <2>3. Used' = Used /\ Borrowing' = Borrowing
    BY <1>1 DEF Used, Borrowing, Places
  <2>4. keeper \in {"asleep", "connecting"}
    BY <1>4 DEF IInv, ClosedInv, Shape
  <2>5. Reserved' = Reserved
    BY <2>1, <2>4 DEF Reserved
  <2>6. /\ total \in Nat /\ total <= pool.max_size /\ pool.max_size \in Nat /\ Len(idle) \in Nat
        /\ Cardinality(Handed) \in Nat /\ Cardinality(Used) \in Nat /\ active = Cardinality(Borrowing)
        /\ Reserved \in 0..1
        /\ total = Len(idle) + (Cardinality(Handed) + Cardinality(Used) + Reserved)
    BY Totals
  <2>7. Cardinality({}) = 0 /\ idle' \in Seq(Offered) /\ Len(idle') = 0
    BY <2>1, FS_EmptySet
  <2> DEFINE l == Len(idle)
             h == Cardinality(Handed)
             u == Cardinality(Used)
             r == Reserved
  <2>8. /\ l \in Nat /\ h \in Nat /\ u \in Nat /\ r \in 0..1 /\ total = l + (h + u + r)
        /\ total' = (total - l) - h /\ total <= pool.max_size /\ pool.max_size \in Nat
    BY <2>1, <2>6
  <2> HIDE DEF l, h, u, r
  <2>9. /\ total' = 0 + (0 + u + r) /\ total' \in Nat /\ total' <= pool.max_size
        /\ 0 = l + (-l) /\ 0 = h + (-h)
        /\ total' = total + ((-l) + (-h) + 0 + 0)
    BY <2>8
  <2>10. Accounts'
    BY <1>1, <2>2, <2>3, <2>5, <2>6, <2>7, <2>9 DEF Accounts, u, r
  <2>11. Shape'
    BY <1>1, <1>2, <2>1, <2>2, <2>7, <2>9 DEF IInv, Shape
  <2>12. QueueInv' /\ ClosedInv' /\ HeadAwake'
    BY <2>1, <2>2 DEF QueueInv, ClosedInv, HeadAwake
  <2>13. QED
    BY <2>10, <2>11, <2>12 DEF IInv
<1>5. QED
  BY <1>3, <1>4

\* A caller of close that returns or is dropped changes only its own standing.
LEMMA CloserLeavesStep ==
    ASSUME IInv, NEW k \in Closers, CloseReturns(k) \/ CancelClose(k)
    PROVE  IInv'
<1>1. /\ closer' \in {[closer EXCEPT ![k] = "done"], [closer EXCEPT ![k] = "no"]}
      /\ UNCHANGED <<pool, idle, waiters, slot, woken, total, active, closed, caller, keeper, spoils>>
  BY DEF CloseReturns, CancelClose
<1>2. closer' \in [Closers -> {"no", "waiting", "woken", "done"}]
  BY <1>1 DEF IInv, Shape
<1>3. QED
  BY <1>1, <1>2, CloserStep

-----------------------------------------------------------------------------
(* The theorems.                                                           *)

\* A pool just built, with its shelf empty and nobody waiting, satisfies the
\* inductive invariant.
LEMMA InitEstablishes == Init => IInv
<1> SUFFICES ASSUME Init PROVE IInv
  OBVIOUS
<1>1. /\ pool \in Pools /\ idle = [i \in 1..Warm |-> Fresh] /\ waiters = <<>>
      /\ slot = [c \in Callers |-> Null] /\ woken = {} /\ total = Warm /\ active = 0 /\ closed = FALSE
      /\ caller = [c \in Callers |-> At("out", Null)] /\ closer = [k \in Closers |-> "no"]
      /\ keeper = "asleep" /\ spoils = 0
  BY DEF Init
<1>2. Warm \in Nat /\ Warm <= pool.max_size /\ pool.spoils \in Nat
  BY <1>1, Sizes DEF Warm
<1>3. idle \in Seq(Offered) /\ Len(idle) = Warm
  BY <1>1, <1>2, Offers
<1>4. At("out", Null) \in Standing /\ At("out", Null).at = "out"
  BY Stand
<1>5. caller \in [Callers -> Standing] /\ \A c \in Callers : caller[c].at = "out"
  BY <1>1, <1>4
<1>6. Shape
  <2>1. /\ slot \in [Callers -> Offered \cup {Null}]
        /\ closer \in [Closers -> {"no", "waiting", "woken", "done"}]
    BY <1>1
  <2>2. waiters \in Seq(Callers) /\ woken \subseteq Callers /\ spoils \in 0..pool.spoils
    BY <1>1, <1>2
  <2>3. QED
    BY <1>1, <1>2, <1>3, <1>5, <2>1, <2>2 DEF Shape
<1>7. Handed = {} /\ Used = {} /\ Borrowing = {} /\ Parked = {} /\ Reserved = 0 /\ Cardinality({}) = 0
  BY <1>1, <1>5, FS_EmptySet DEF Handed, Used, Borrowing, Parked, Places, Reserved
<1>8. QueueInv
  BY <1>1, <1>7, Nobody DEF QueueInv, Lined
<1>9. Accounts
  BY <1>1, <1>2, <1>3, <1>7 DEF Accounts
<1>10. ClosedInv /\ HeadAwake
  BY <1>1 DEF ClosedInv, HeadAwake
<1>11. QED
  BY <1>6, <1>8, <1>9, <1>10 DEF IInv

\* Every step of a caller, the housekeeper or a closer preserves the inductive
\* invariant.
LEMMA NextPreserves == IInv /\ [Next]_vars => IInv'
<1> SUFFICES ASSUME IInv, [Next]_vars PROVE IInv'
  OBVIOUS
<1>1. CASE UNCHANGED vars
  <2>1. /\ closer' \in [Closers -> {"no", "waiting", "woken", "done"}]
        /\ UNCHANGED <<pool, idle, waiters, slot, woken, total, active, closed, caller, keeper, spoils>>
    BY <1>1 DEF vars, IInv, Shape
  <2>2. QED
    BY <2>1, CloserStep
<1>2. ASSUME NEW c \in Callers, Arrive(c) \/ Poll(c) \/ Check(c) PROVE IInv'
  BY <1>2, ArriveStep, PollStep, CheckPassesStep, CheckRejectsStep, ConnectedStep, AcquireFailsStep
     DEF Check
<1>3. ASSUME NEW c \in Callers, Cancel(c) PROVE IInv'
  BY <1>3, CancelParkedStep, CancelHandoffStep, AcquireFailsStep DEF Cancel
<1>4. ASSUME NEW c \in Callers, Use(c) \/ GiveBack(c) \/ AcquireClosed(c) PROVE IInv'
  BY <1>4, UseStep, ReturnStep, ReturnClosedStep, AcquireClosedStep DEF GiveBack
<1>5. CASE Spoil
  BY <1>5, SpoilStep
<1>6. ASSUME NEW keep, Housekeep(keep) PROVE IInv'
  BY <1>6, HousekeepStep
<1>7. CASE KeeperConnected \/ KeeperFails \/ KeeperDropped
  BY <1>7, KeeperConnectedStep, KeeperStep
<1>8. ASSUME NEW k \in Closers, Close(k) \/ CloseReturns(k) \/ CancelClose(k) PROVE IInv'
  BY <1>8, CloseStep, CloserLeavesStep
<1>9. QED
  BY <1>1, <1>2, <1>3, <1>4, <1>5, <1>6, <1>7, <1>8 DEF Next

\* The inductive invariant holds of every reachable state of the pool.
THEOREM PoolInvariant == Spec => []IInv
  BY InitEstablishes, NextPreserves, PTL DEF Spec

\* The hand-kept counters total and active agree with the sessions on the
\* shelf, handed over, checked, borrowed and being made, never exceed max_size,
\* and a parked caller is queued or served exactly once: for pools of any size.
THEOREM BooksAgree == Spec => []PoolConsistent
<1>1. IInv => TypeOK
  <2> SUFFICES ASSUME IInv PROVE TypeOK
    OBVIOUS
  <2>1. \A c \in Callers : slot[c] = Null \/ slot[c] \in Session
    BY Offers DEF IInv, Shape
  <2>2. idle \in Seq(Session)
    BY Offers DEF IInv, Shape
  <2>3. \A c \in Callers :
          /\ caller[c].at \in Pending \cup {"out", "holding"}
          /\ IF caller[c].at \in {"checking", "holding"} THEN caller[c].has \in Session ELSE caller[c].has = Null
    BY Stand, Offers DEF IInv, Shape, Pending
  <2>4. total \in 0..pool.max_size /\ active \in 0..pool.max_size
    <3>1. Borrowing \in SUBSET Used /\ Used \in SUBSET Callers
      BY DEF Borrowing, Used, Places
    <3>2. Cardinality(Borrowing) <= Cardinality(Used)
      BY <3>1, PoolAssumption, FS_Subset
    <3>3. /\ pool.max_size \in Nat /\ Len(idle) \in Nat /\ total \in Nat
          /\ Reserved \in 0..1 /\ total <= pool.max_size
          /\ Cardinality(Handed) \in Nat /\ Cardinality(Used) \in Nat /\ Cardinality(Borrowing) \in Nat
          /\ total = Len(idle) + (Cardinality(Handed) + Cardinality(Used) + Reserved)
          /\ active = Cardinality(Borrowing)
      BY Totals
    <3> DEFINE l == Len(idle)
               h == Cardinality(Handed)
               u == Cardinality(Used)
    <3>4. /\ l \in Nat /\ h \in Nat /\ u \in Nat /\ Reserved \in 0..1 /\ active \in Nat /\ active <= u
          /\ total \in Nat /\ total = l + (h + u + Reserved) /\ total <= pool.max_size /\ pool.max_size \in Nat
      BY <3>2, <3>3
    <3> HIDE DEF l, h, u
    <3>5. QED
      BY <3>4
  <2>5. QED
    BY <2>1, <2>2, <2>3, <2>4 DEF IInv, Shape, TypeOK
<1>2. IInv => SlotsAccounted
  <2> SUFFICES ASSUME IInv PROVE SlotsAccounted
    OBVIOUS
  <2>1. /\ Len(idle) \in Nat /\ Cardinality(Handed) \in Nat /\ Cardinality(Used) \in Nat /\ Reserved \in 0..1
        /\ total = Len(idle) + (Cardinality(Handed) + Cardinality(Used) + Reserved)
        /\ active = Cardinality(Borrowing) /\ total <= pool.max_size
    BY Totals
  <2>2. total = Len(idle) + Cardinality(Handed) + Cardinality(Used) + Reserved
    BY <2>1
  <2>3. QED
    BY <2>1, <2>2 DEF SlotsAccounted, Used, Borrowing, Reserved
<1>3. IInv => ParkedOnce
  <2> SUFFICES ASSUME IInv, ~closed, NEW c \in Callers
               PROVE  Cardinality({i \in DOMAIN waiters : waiters[i] = c}) + (IF slot[c] # Null THEN 1 ELSE 0)
                        = IF caller[c].at = "parked" THEN 1 ELSE 0
    BY DEF ParkedOnce
  <2> DEFINE I == {i \in DOMAIN waiters : waiters[i] = c}
  <2>1. /\ c \in Parked <=> caller[c].at = "parked"
        /\ c \in Handed <=> slot[c] # Null
        /\ c \in Elements(waiters) \cup Handed <=> c \in Parked
        /\ ~(c \in Elements(waiters) /\ c \in Handed) /\ Distinct(waiters)
    BY Where DEF Lined
  <2>2. CASE c \in Elements(waiters)
    <3>1. PICK i \in DOMAIN waiters : waiters[i] = c
      BY <2>2 DEF Elements
    <3>2. I = {i}
      BY <2>1, <3>1 DEF Distinct
    <3>3. Cardinality(I) = 1
      BY <3>2, FS_Singleton
    <3> HIDE DEF I
    <3>4. slot[c] = Null /\ caller[c].at = "parked" /\ Cardinality(I) + 0 = 1
      BY <2>1, <2>2, <3>3
    <3>5. QED
      BY <3>4 DEF I
  <2>3. CASE c \notin Elements(waiters)
    <3>1. I = {}
      BY <2>3 DEF Elements
    <3>2. Cardinality(I) = 0
      BY <3>1, FS_EmptySet
    <3> HIDE DEF I
    <3>3. slot[c] # Null <=> caller[c].at = "parked"
      BY <2>1, <2>3
    <3>4. Cardinality(I) + (IF slot[c] # Null THEN 1 ELSE 0) = IF caller[c].at = "parked" THEN 1 ELSE 0
      BY <3>2, <3>3
    <3>5. QED
      BY <3>4 DEF I
  <2>4. QED
    BY <2>2, <2>3
<1>4. IInv => PoolConsistent
  BY <1>1, <1>2, <1>3 DEF PoolConsistent
<1>5. QED
  BY <1>4, PoolInvariant, PTL

\* No wake-up is lost: whenever something is free and callers are parked, the
\* head of the queue has been woken or is about to be (wake_one_waiter,
\* deposit_freed_entry, Waiter::drop).
THEOREM NoLostWakeUp == Spec => []HeadAwake
<1>1. IInv => HeadAwake
  BY DEF IInv
<1>2. QED
  BY <1>1, PoolInvariant, PTL

\* What is offered to a caller carries no transaction and no cancel token of an
\* earlier borrower (return_client).
THEOREM CleanOnOffer == Spec => []SessionsComeClean
<1>1. IInv => SessionsComeClean
  <2> SUFFICES ASSUME IInv,
                      NEW s \in {idle[i] : i \in DOMAIN idle} \cup {slot[c] : c \in Handed}
                                  \cup {caller[c].has : c \in Places({"checking"})}
               PROVE  ~s.open /\ ~s.token
    BY DEF SessionsComeClean
  <2>1. \A i \in DOMAIN idle : idle[i] \in Offered
    BY DEF IInv, Shape
  <2>2. \A c \in Handed : slot[c] \in Offered
    BY DEF IInv, Shape, Handed
  <2>3. \A c \in Places({"checking"}) : caller[c].has \in Offered
    BY Stand DEF IInv, Shape, Places
  <2>4. s \in Offered
    BY <2>1, <2>2, <2>3
  <2>5. QED
    BY <2>4 DEF Offered
<1>2. QED
  BY <1>1, PoolInvariant, PTL

\* Who takes a session or a slot: a caller that arrives or polls, and nobody
\* else.
LEMMA OnlyClaimants ==
    ASSUME IInv, Next, NEW c \in Callers,
           caller[c].at \in {"out", "parked"}, caller'[c].at \in {"checking", "connecting"}
    PROVE  Arrive(c) \/ Poll(c)
<1>1. caller \in [Callers -> Standing]
  BY DEF IInv, Shape
<1>2. ASSUME NEW d \in Callers, NEW x, Put(d, x),
             d = c => x.at \notin {"checking", "connecting"}
      PROVE  FALSE
  BY <1>1, <1>2 DEF Put
<1>3. caller' # caller
  OBVIOUS
<1>4. ASSUME NEW d \in Callers, Check(d) PROVE FALSE
  <2>1. /\ caller[d].at \in {"checking", "connecting"} /\ d # c
    BY <1>4 DEF Check, CheckPasses, CheckRejects, Connected, AcquireFails
  <2>2. \E x : Put(d, x)
    BY <1>4 DEF Check, CheckPasses, CheckRejects, Connected, AcquireFails, Claim
  <2>3. QED
    BY <1>2, <2>1, <2>2
<1>5. ASSUME NEW d \in Callers, Put(d, At("out", Null)) PROVE FALSE
  <2>1. At("out", Null).at = "out"
    BY Stand
  <2>2. QED
    BY <1>2, <1>5, <2>1
<1>6. ASSUME NEW d \in Callers, Use(d) PROVE FALSE
  <2>1. caller[d].at = "holding" /\ \E x : Put(d, x)
    BY <1>6 DEF Use, RawSql, DropTransaction, KeepToken, CommandExpires, Hold
  <2>2. QED
    BY <1>2, <2>1
<1>7. ASSUME NEW d \in Callers, Cancel(d) \/ GiveBack(d) \/ AcquireClosed(d) PROVE FALSE
  BY <1>5, <1>7 DEF Cancel, CancelParked, CancelHandoff, CancelClaim, GiveBack, ReturnClosed, Return,
     AcquireClosed
<1>8. ASSUME NEW d \in Callers, Arrive(d) \/ Poll(d) PROVE Arrive(c) \/ Poll(c)
  <2>1. UNCHANGED caller \/ \E x : Put(d, x)
    BY <1>8 DEF Arrive, Poll, Claim
  <2>2. CASE d # c
    BY <1>2, <1>3, <2>1, <2>2
  <2>3. QED
    BY <1>8, <2>2
<1>9. CASE Spoil
  <2>1. PICK d \in Callers : caller[d].has # Null /\ Put(d, [caller[d] EXCEPT !.has = Spoiled(@)])
    BY <1>3, <1>9 DEF Spoil
  <2>2. caller[d] \in Standing /\ caller[d].at \in {"checking", "holding"}
    BY <1>1, <2>1, Stand
  <2>3. d # c
    BY <2>2
  <2>4. QED
    BY <1>2, <2>1, <2>3
<1>10. ASSUME NEW keep, Housekeep(keep) PROVE FALSE
  BY <1>3, <1>10 DEF Housekeep
<1>11. CASE KeeperConnected \/ KeeperFails \/ KeeperDropped
  BY <1>3, <1>11 DEF KeeperConnected, KeeperFails, KeeperDropped
<1>12. ASSUME NEW k \in Closers, Close(k) \/ CloseReturns(k) \/ CancelClose(k) PROVE FALSE
  BY <1>3, <1>12 DEF Close, CloseReturns, CancelClose
<1>13. QED
  BY <1>4, <1>6, <1>7, <1>8, <1>9, <1>10, <1>11, <1>12 DEF Next

\* Nobody overtakes in the queue: a caller takes a session or a slot only when
\* nobody stood before it (get_inner, Waiter::poll), for any number of callers.
THEOREM InOrder == Spec => NoOvertaking
<1> DEFINE A == \A c \in Callers :
         caller[c].at \in {"out", "parked"} /\ caller'[c].at \in {"checking", "connecting"} =>
            slot[c] # Null \/ waiters = <<>> \/ Head(waiters) = c
<1>1. ASSUME IInv, Next, NEW c \in Callers, caller[c].at \in {"out", "parked"},
             caller'[c].at \in {"checking", "connecting"}
      PROVE  slot[c] # Null \/ waiters = <<>> \/ Head(waiters) = c
  <2>1. CASE Arrive(c)
    <3>1. waiters = <<>> \/ Put(c, At("parked", Null))
      BY <2>1 DEF Arrive
    <3>2. At("parked", Null).at = "parked" /\ caller \in [Callers -> Standing]
      BY <1>1, Stand DEF IInv, Shape
    <3>3. QED
      BY <1>1, <3>1, <3>2 DEF Put
  <2>2. CASE Poll(c)
    <3>1. slot[c] # Null \/ Front(waiters) = {c} \/ UNCHANGED caller
      BY <2>2 DEF Poll
    <3>2. QED
      BY <1>1, <3>1 DEF Front
  <2>3. QED
    BY <1>1, <2>1, <2>2, OnlyClaimants
<1>2. IInv /\ [Next]_vars => [A]_vars
  BY <1>1
<1>3. QED
  BY <1>2, PoolInvariant, PTL DEF Spec, NoOvertaking

\* A closed pool only empties (begin_close): nobody borrows from it, nothing is
\* put on its shelf and no slot is reserved, for any number of borrowers left.
THEOREM Drains == Spec => ClosedOnlyDrains
<1> DEFINE A == closed => closed' /\ active' <= active /\ total' <= total /\ idle' = <<>>
<1>1. ASSUME IInv, closed, Next PROVE closed' /\ active' <= active /\ total' <= total /\ idle' = <<>>
  <2>1. idle = <<>> /\ active \in Nat /\ total \in Nat /\ keeper \in {"cancelled", "off"}
    BY <1>1 DEF IInv, ClosedInv, Shape
  <2>2. ASSUME NEW c \in Callers, Arrive(c) \/ Poll(c) \/ Check(c) \/ Cancel(c) PROVE FALSE
    BY <1>1, <2>2 DEF Arrive, Poll, Check, CheckPasses, CheckRejects, Connected, AcquireFails, Cancel,
       CancelParked, CancelHandoff, CancelClaim
  <2>3. ASSUME NEW c \in Callers, Use(c) PROVE UNCHANGED <<closed, active, total, idle>>
    BY <2>3 DEF Use, RawSql, DropTransaction, KeepToken, CommandExpires, Hold
  <2>4. ASSUME NEW c \in Callers, GiveBack(c) \/ AcquireClosed(c)
        PROVE  /\ UNCHANGED <<closed, idle>> /\ active' \in {active, active - 1}
               /\ total' \in {total, total - 1}
    BY <1>1, <2>4 DEF GiveBack, ReturnClosed, Return, AcquireClosed
  <2>5. ASSUME Spoil PROVE UNCHANGED <<closed, active, total, idle>>
    BY <2>1, <2>5 DEF Spoil
  <2>6. ASSUME NEW keep, Housekeep(keep) PROVE FALSE
    BY <1>1, <2>6 DEF Housekeep
  <2>7. ASSUME KeeperConnected \/ KeeperFails \/ KeeperDropped
        PROVE  UNCHANGED <<closed, idle, active>> /\ total' = total - 1
    BY <1>1, <2>7 DEF KeeperConnected, KeeperFails, KeeperDropped
  <2>8. ASSUME NEW k \in Closers, Close(k) \/ CloseReturns(k) \/ CancelClose(k)
        PROVE  UNCHANGED <<closed, idle, active, total>>
    BY <1>1, <2>8 DEF Close, CloseReturns, CancelClose
  <2> DEFINE Goal == closed' /\ active' <= active /\ total' <= total /\ idle' = <<>>
  <2>a. ASSUME UNCHANGED <<closed, active, total, idle>> PROVE Goal
    BY <1>1, <2>1, <2>a
  <2>9. CASE \E c \in Callers : \/ Arrive(c) \/ Poll(c) \/ Check(c) \/ Cancel(c)
                              \/ Use(c) \/ GiveBack(c) \/ AcquireClosed(c)
    <3>1. PICK c \in Callers : \/ Arrive(c) \/ Poll(c) \/ Check(c) \/ Cancel(c)
                              \/ Use(c) \/ GiveBack(c) \/ AcquireClosed(c)
      BY <2>9
    <3>2. CASE Use(c)
      BY <3>2, <2>3, <2>a
    <3>3. CASE GiveBack(c) \/ AcquireClosed(c)
      <4>1. /\ UNCHANGED <<closed, idle>> /\ active' \in {active, active - 1}
            /\ total' \in {total, total - 1}
        BY <3>3, <2>4
      <4>2. active' <= active /\ total' <= total
        BY <4>1, <2>1
      <4>3. QED
        BY <4>1, <4>2, <2>1, <1>1
    <3>4. QED
      BY <3>1, <3>2, <3>3, <2>2
  <2>10. CASE KeeperConnected \/ KeeperFails \/ KeeperDropped
    <3>1. UNCHANGED <<closed, idle, active>> /\ total' = total - 1
      BY <2>10, <2>7
    <3>2. QED
      BY <3>1, <2>1, <1>1
  <2>11. CASE \E k \in Closers : Close(k) \/ CloseReturns(k) \/ CancelClose(k)
    <3>1. UNCHANGED <<closed, active, total, idle>>
      BY <2>11, <2>8
    <3>2. QED
      BY <3>1, <2>a
  <2>12. CASE Spoil
    BY <2>12, <2>5, <2>a
  <2>13. CASE \E keep \in SUBSET (1..pool.max_size) : Housekeep(keep)
    BY <2>13, <2>6
  <2>14. QED
    BY <1>1, <2>9, <2>10, <2>11, <2>12, <2>13 DEF Next
<1>2. IInv /\ [Next]_vars => [A]_vars
  BY <1>1
<1>3. QED
  BY <1>2, PoolInvariant, PTL DEF Spec, ClosedOnlyDrains
=============================================================================
