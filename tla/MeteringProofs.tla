--------------------------- MODULE MeteringProofs ---------------------------
(***************************************************************************)
(* Proofs about the usage pipeline, for any set of units, any size of the  *)
(* retry buffer and of a batch, any foreign traffic on the partition and   *)
(* any number of failures of either side.                                  *)
(***************************************************************************)
EXTENDS Metering, WellFoundedInduction, TLAPS

-----------------------------------------------------------------------------
(* The inductive invariant.                                                *)

\* What the type invariants leave open: the shape of the awaited row and of the
\* running batch.
ShapeInv ==
    /\ awaiting = Null \/ awaiting \in [seq : Nat, landed : BOOLEAN]
    /\ batch = Null \/ batch \in Batches

\* A row that no longer decodes is not on its way to the broker: it went bad in
\* a restart, which ended every publish, and no cycle picks it up again.
PoisonInv ==
    /\ poison \cap pending = {}
    /\ awaiting # Null => awaiting.seq \notin poison
    /\ \A s \in poison : wal[s] \notin abandoned

\* A publish nobody waits for is of an event that is still a row or that has
\* already landed, and an acknowledged row has landed.
PublishInv ==
    /\ abandoned \subseteq Logged \cup Landed
    /\ awaiting # Null /\ awaiting.landed => wal[awaiting.seq] \in Landed

\* What was given up is nowhere any more.
LostInv ==
    lost \cap (counted \cup UnitsOf(Retained \cup Logged \cup abandoned \cup Landed)) = {}

ProducerInv ==
    UsageAccounted /\ StableIdentity /\ OwnedOnce /\ PoisonInv /\ PublishInv /\ LostInv

\* Behind the consumer's position everything is settled or was dropped, but for
\* the batch in hand, which is settled by the time it is to be committed.
PositionInv ==
    /\ F!EventsOf(0, committed) \subseteq F!Settled \cup dropped
    /\ batch = Null => F!EventsOf(0, position) \subseteq F!Settled \cup dropped
    /\ batch # Null =>
        /\ batch.to = position
        /\ F!EventsOf(0, batch.from) \subseteq F!Settled \cup dropped
        /\ batch.stage = "ingest" => F!InBatch({"unowned", "garbage"}) \subseteq quarantined
        /\ batch.stage = "commit" => F!EventsOf(batch.from, batch.to) \subseteq F!Settled

\* Only what landed is billed.
BilledInv == billed \subseteq Landed

ConsumerInv == PositionInv /\ BilledInv

IInv == PipelineTypeOK /\ ShapeInv /\ ProducerInv /\ ConsumerInv

-----------------------------------------------------------------------------
(* Operators.                                                              *)

Elements(q) == {q[i] : i \in DOMAIN q}

OneByOne(q) == \A i, j \in DOMAIN q : q[i] = q[j] => i = j

\* No event is twice among the rows or among the retained.
RowsInv ==
    /\ \A s, t \in DOMAIN wal : wal[s] = wal[t] => s = t
    /\ OneByOne(retained)

\* A non-empty set of sequence numbers has a smallest one, which is sent first.
LEMMA MinMember ==
    ASSUME NEW S, S \subseteq Nat, S # {}
    PROVE  Min(S) \in S
<1> DEFINE R == {ss \in Nat \X Nat : ss[1] < ss[2]}
<1>1. R = OpToRel(<, Nat)
  BY Zenon DEF OpToRel
<1>2. IsWellFoundedOn(R, Nat)
  BY <1>1, NatLessThanWellFounded, Zenon
<1> HIDE DEF R
<1>3. PICK x \in S : \A y \in S : ~(<<y, x>> \in R)
  BY <1>2, WFMin, Zenon
<1>4. \A y \in S : x <= y
  <2>1. TAKE y \in S
  <2>2. y \in Nat /\ x \in Nat /\ <<y, x>> \in Nat \X Nat
    OBVIOUS
  <2>3. ~(<<y, x>>[1] < <<y, x>>[2])
    BY <1>3, <2>2, Zenon DEF R
  <2>4. QED
    BY <2>2, <2>3, SMT
<1>5. QED
  BY <1>4 DEF Min

\* Appending adds one element.
LEMMA ElementsAppend ==
    ASSUME NEW X, NEW q \in Seq(X), NEW e
    PROVE  /\ Elements(Append(q, e)) = Elements(q) \cup {e}
           /\ Len(Append(q, e)) = Len(q) + 1
           /\ \A i \in 1..Len(q) : Append(q, e)[i] = q[i]
<1>1. /\ Len(q) \in Nat /\ DOMAIN q = 1..Len(q)
      /\ DOMAIN Append(q, e) = 1..(Len(q) + 1) /\ Len(Append(q, e)) = Len(q) + 1
      /\ \A i \in 1..Len(q) : Append(q, e)[i] = q[i]
      /\ Append(q, e)[Len(q) + 1] = e
  OBVIOUS
<1>2. \A i \in DOMAIN Append(q, e) : i \in DOMAIN q \/ i = Len(q) + 1
  BY <1>1
<1>3. Elements(Append(q, e)) = Elements(q) \cup {e}
  BY <1>1, <1>2 DEF Elements
<1>4. QED
  BY <1>1, <1>3

\* What a failed append keeps is a part of the batch, in order, within the bound.
LEMMA RetainFacts ==
    ASSUME NEW b \in Seq(Events), OneByOne(b)
    PROVE  /\ Retain(b) \in Seq(Events)
           /\ Len(Retain(b)) <= MaxRetained
           /\ Elements(Retain(b)) \subseteq Elements(b)
           /\ OneByOne(Retain(b))
<1> DEFINE m == IF Len(b) > MaxRetained THEN Len(b) - MaxRetained + 1 ELSE 1
<1>0. /\ MaxRetained \in Nat /\ Len(b) \in Nat /\ m \in Nat /\ m >= 1
      /\ Len(b) - m + 1 <= MaxRetained /\ Len(b) - m + 1 >= 0
  BY OutboxAssumption
<1> HIDE DEF m
<1>1. Retain(b) = SubSeq(b, m, Len(b))
  BY DEF Retain, m
<1>2. Len(Retain(b)) = Len(b) - m + 1
  BY <1>0, <1>1
<1>3. \A i \in 1..Len(Retain(b)) : i + m - 1 \in DOMAIN b /\ Retain(b)[i] = b[i + m - 1]
  BY <1>0, <1>1, <1>2
<1>4. Retain(b) \in Seq(Events)
  BY <1>0, <1>1
<1>5. Elements(Retain(b)) \subseteq Elements(b)
  BY <1>3, <1>4 DEF Elements
<1>6. ASSUME NEW i \in DOMAIN Retain(b), NEW j \in DOMAIN Retain(b),
             Retain(b)[i] = Retain(b)[j]
      PROVE  i = j
  <2>1. i \in 1..Len(Retain(b)) /\ j \in 1..Len(Retain(b))
    BY <1>4
  <2>2. i + m - 1 = j + m - 1
    BY <1>3, <1>6, <2>1 DEF OneByOne
  <2>3. QED
    BY <1>0, <2>1, <2>2
<1>7. QED
  BY <1>0, <1>2, <1>4, <1>5, <1>6 DEF OneByOne

\* rec: recorded, lo: lost, c: counted; R, L, A and D: the events retained, logged,
\* abandoned and landed.
Books(rec, lo, c, R, L, A, D) ==
    /\ rec = c \cup UnitsOf(R) \cup UnitsOf(L) \cup UnitsOf(D) \cup lo
    /\ \A e, f \in R \cup L \cup A \cup D : e \cap f # {} => e = f
    /\ c \cap UnitsOf(R \cup L \cup A \cup D) = {}
    /\ R \cap (L \cup A \cup D) = {}
    /\ A \subseteq L \cup D
    /\ lo \cap (c \cup UnitsOf(R \cup L \cup A \cup D)) = {}

\* The window a drain would make of the counters.
Window(c) == IF c = {} THEN {} ELSE {c}

BooksKept == Books(recorded, lost, counted, Retained, Logged, abandoned, Landed)

\* The batch of a cycle: the backlog, then the window that was drained.
LEMMA BatchFacts ==
    ASSUME TypeOK, BooksKept, RowsInv
    PROVE  /\ Batch \in Seq(Events)
           /\ Elements(Batch) = Retained \cup Window(counted)
           /\ OneByOne(Batch)
<1>1. CASE counted = {}
  BY <1>1 DEF Batch, Drained, TypeOK, RowsInv, OneByOne, Elements, Retained, Window
<1>2. CASE counted # {}
  <2>c. counted \subseteq Units
    BY DEF TypeOK
  <2>d. counted \in Events
    BY <1>2, <2>c DEF Events
  <2>1. counted \in Events /\ retained \in Seq(Events)
    BY <2>d DEF TypeOK
  <2>. DEFINE n == Len(retained)
  <2>a. /\ n \in Nat /\ DOMAIN retained = 1..n
        /\ Batch \in Seq(Events) /\ DOMAIN Batch = 1..(n + 1)
        /\ \A i \in 1..n : Batch[i] = retained[i]
        /\ Batch[n + 1] = counted
    BY <1>2, <2>1 DEF Batch, Drained
  <2>b. \A i \in DOMAIN Batch : i \in DOMAIN retained \/ i = n + 1
    BY <2>a
  <2>. HIDE DEF n
  <2>2. counted \notin Retained
    <3>1. ASSUME counted \in Retained PROVE FALSE
      <4>1. counted \subseteq UnitsOf(Retained \cup Logged \cup abandoned \cup Landed)
        BY <3>1 DEF UnitsOf
      <4>2. QED
        BY <4>1, <1>2 DEF BooksKept, Books
    <3>2. QED
      BY <3>1
  <2>3. OneByOne(Batch)
    BY <2>a, <2>b, <2>2 DEF OneByOne, Retained, RowsInv
  <2>4. Elements(Batch) = Retained \cup {counted}
    BY <2>a, <2>b DEF Elements, Retained
  <2>5. QED
    BY <1>2, <2>a, <2>3, <2>4 DEF Window
<1>3. QED
  BY <1>1, <1>2

\* The log behind an append: the old rows and one new row per event.
\* The rows of a log that has grown up to sequence number n and holds those events.
Grown(rows, n, events) ==
    /\ DOMAIN wal \subseteq DOMAIN rows
    /\ DOMAIN rows \subseteq 0..(n - 1)
    /\ n \in Nat
    /\ \A s \in DOMAIN wal : rows[s] = wal[s]
    /\ \A s \in DOMAIN rows : rows[s] \in Events
    /\ {rows[s] : s \in DOMAIN rows} = events
    /\ \A s, t \in DOMAIN rows : rows[s] = rows[t] => s = t

\* The log behind UsageWal::append has grown by the events of the batch.
LEMMA AppendedFacts ==
    ASSUME TypeOK, RowsInv, NEW b \in Seq(Events), OneByOne(b),
           Elements(b) \cap Logged = {}
    PROVE  Grown(Appended(b), next_seq + Len(b), Logged \cup Elements(b))
<1> DEFINE rows == Appended(b)
<1> DEFINE new == {next_seq + i - 1 : i \in DOMAIN b}
<1>1. /\ next_seq \in Nat /\ Len(b) \in Nat /\ DOMAIN b = 1..Len(b)
      /\ \A i \in DOMAIN b : b[i] \in Events
      /\ DOMAIN wal \subseteq 0..(next_seq - 1)
      /\ \A s \in DOMAIN wal : wal[s] \in Events
  BY DEF TypeOK
<1>2. /\ new \subseteq next_seq..(next_seq + Len(b) - 1)
      /\ \A s \in new : s - next_seq + 1 \in DOMAIN b /\ s \notin DOMAIN wal
  BY <1>1
<1>3. /\ DOMAIN rows = DOMAIN wal \cup new
      /\ \A s \in DOMAIN wal : rows[s] = wal[s]
      /\ \A s \in new : rows[s] = b[s - next_seq + 1]
  BY <1>2 DEF Appended
<1>4. \A i \in DOMAIN b : next_seq + i - 1 \in new /\ rows[next_seq + i - 1] = b[i]
  BY <1>1, <1>3
<1> HIDE DEF new, rows
<1>5. {rows[s] : s \in DOMAIN rows} = Logged \cup Elements(b)
  <2>1. \A s \in DOMAIN rows : rows[s] \in Logged \cup Elements(b)
    BY <1>2, <1>3 DEF Logged, Elements
  <2>2. \A e \in Logged : \E s \in DOMAIN rows : e = rows[s]
    BY <1>3 DEF Logged
  <2>3. \A e \in Elements(b) : \E s \in DOMAIN rows : e = rows[s]
    BY <1>3, <1>4 DEF Elements
  <2>4. QED
    BY <2>1, <2>2, <2>3
<1>6. \A s \in DOMAIN rows : rows[s] \in Events
  BY <1>1, <1>2, <1>3
<1>7. ASSUME NEW s \in DOMAIN rows, NEW t \in DOMAIN rows, rows[s] = rows[t] PROVE s = t
  <2>1. CASE s \in DOMAIN wal /\ t \in DOMAIN wal
    BY <1>3, <1>7, <2>1 DEF RowsInv
  <2>2. CASE s \in new /\ t \in new
    BY <1>1, <1>2, <1>3, <1>7, <2>2 DEF OneByOne
  <2>3. \A x \in DOMAIN wal, y \in new : rows[x] # rows[y]
    BY <1>2, <1>3 DEF Logged, Elements
  <2>4. QED
    BY <1>3, <1>7, <2>1, <2>2, <2>3
<1>8. /\ DOMAIN rows \subseteq 0..((next_seq + Len(b)) - 1)
      /\ next_seq + Len(b) \in Nat
  <2>1. next_seq + Len(b) \in Nat
    BY <1>1
  <2>2. \A s \in DOMAIN wal : s \in 0..((next_seq + Len(b)) - 1)
    BY <1>1
  <2>3. \A s \in new : s \in 0..((next_seq + Len(b)) - 1)
    BY <1>1, <1>2
  <2>4. QED
    BY <1>3, <2>1, <2>2, <2>3
<1>9. Grown(rows, next_seq + Len(b), Logged \cup Elements(b))
  <2>1. DOMAIN wal \subseteq DOMAIN rows /\ \A s \in DOMAIN wal : rows[s] = wal[s]
    BY <1>3
  <2>2. \A s, t \in DOMAIN rows : rows[s] = rows[t] => s = t
    BY <1>7
  <2>3. QED
    BY <1>5, <1>6, <1>8, <2>1, <2>2, Zenon DEF Grown
<1>10. QED
  BY <1>9 DEF rows

-----------------------------------------------------------------------------
(* The producer's books, over its sets of units and events alone.          *)

\* A unit is counted (increment).
LEMMA BooksRecord ==
    ASSUME NEW rec, NEW lo, NEW c, NEW R, NEW L, NEW A, NEW D,
           Books(rec, lo, c, R, L, A, D), NEW u, u \notin rec
    PROVE  Books(rec \cup {u}, lo, c \cup {u}, R, L, A, D)
  BY DEF Books, UnitsOf

\* A unit becomes a row of its own (record_direct_at).
LEMMA BooksEnqueue ==
    ASSUME NEW rec, NEW lo, NEW c, NEW R, NEW L, NEW A, NEW D,
           Books(rec, lo, c, R, L, A, D), NEW u, u \notin rec
    PROVE  Books(rec \cup {u}, lo, c, R, L \cup {{u}}, A, D)
<1>0. /\ R \cap (L \cup A \cup D) = {} /\ A \subseteq L \cup D
      /\ c \cap UnitsOf(R \cup L \cup A \cup D) = {}
      /\ lo \cap (c \cup UnitsOf(R \cup L \cup A \cup D)) = {}
  BY DEF Books
<1>1. \A f \in R \cup L \cup A \cup D : u \notin f
  BY DEF Books, UnitsOf
<1>2. u \notin c /\ u \notin lo /\ {u} \notin R
  BY <1>1 DEF Books
<1>3. \A e, f \in R \cup (L \cup {{u}}) \cup A \cup D : e \cap f # {} => e = f
  BY <1>1 DEF Books
<1>4. UnitsOf(L \cup {{u}}) = UnitsOf(L) \cup {u}
  BY DEF UnitsOf
<1>5. UnitsOf(R \cup (L \cup {{u}}) \cup A \cup D) = UnitsOf(R \cup L \cup A \cup D) \cup {u}
  BY DEF UnitsOf
<1>6. rec \cup {u} = c \cup UnitsOf(R) \cup UnitsOf(L \cup {{u}}) \cup UnitsOf(D) \cup lo
  BY <1>4 DEF Books
<1>7. /\ c \cap UnitsOf(R \cup (L \cup {{u}}) \cup A \cup D) = {}
      /\ lo \cap (c \cup UnitsOf(R \cup (L \cup {{u}}) \cup A \cup D)) = {}
  BY <1>0, <1>2, <1>5
<1>8. R \cap ((L \cup {{u}}) \cup A \cup D) = {} /\ A \subseteq (L \cup {{u}}) \cup D
  BY <1>0, <1>2
<1>9. QED
  BY <1>3, <1>6, <1>7, <1>8 DEF Books

\* Part of a batch is kept in memory and the rest given up (retain_for_retry).
LEMMA BooksAppendFails ==
    ASSUME NEW rec, NEW lo, NEW c, NEW R, NEW L, NEW A, NEW D,
           Books(rec, lo, c, R, L, A, D), NEW K, K \subseteq R \cup Window(c)
    PROVE  Books(rec, lo \cup (UnitsOf(R \cup Window(c)) \ UnitsOf(K)), {}, K, L, A, D)
  BY DEF Books, UnitsOf, Window

\* A batch becomes rows, and rows that do not decode are removed.
LEMMA BooksAppended ==
    ASSUME NEW rec, NEW lo, NEW c, NEW R, NEW L, NEW A, NEW D,
           Books(rec, lo, c, R, L, A, D), NEW X, X \subseteq L, X \cap A = {}
    PROVE  Books(rec, lo \cup (UnitsOf(X) \ UnitsOf(D)), {}, {},
                 (L \cup R \cup Window(c)) \ X, A, D)
  BY DEF Books, UnitsOf, Window

\* An event of a row, or an abandoned one, reaches the partition.
LEMMA BooksLand ==
    ASSUME NEW rec, NEW lo, NEW c, NEW R, NEW L, NEW A, NEW D,
           Books(rec, lo, c, R, L, A, D), NEW e \in L \cup A
    PROVE  Books(rec, lo, c, R, L, A, D \cup {e}) /\ Books(rec, lo, c, R, L, A \ {e}, D \cup {e})
  BY DEF Books, UnitsOf

\* A row that has landed is trimmed.
LEMMA BooksTrim ==
    ASSUME NEW rec, NEW lo, NEW c, NEW R, NEW L, NEW A, NEW D,
           Books(rec, lo, c, R, L, A, D), NEW e \in L \cap D
    PROVE  Books(rec, lo, c, R, L \ {e}, A, D)
  BY DEF Books, UnitsOf

\* A publish is left to itself, or ends without landing.
LEMMA BooksAbandon ==
    ASSUME NEW rec, NEW lo, NEW c, NEW R, NEW L, NEW A, NEW D,
           Books(rec, lo, c, R, L, A, D), NEW e
    PROVE  /\ e \in L => Books(rec, lo, c, R, L, A \cup {e}, D)
           /\ Books(rec, lo, c, R, L, A \ {e}, D)
  BY DEF Books, UnitsOf

\* What was in memory is gone.
LEMMA BooksCrash ==
    ASSUME NEW rec, NEW lo, NEW c, NEW R, NEW L, NEW A, NEW D,
           Books(rec, lo, c, R, L, A, D)
    PROVE  Books(rec, lo \cup c \cup UnitsOf(R), {}, {}, L, {}, D)
  BY DEF Books, UnitsOf

-----------------------------------------------------------------------------
(* What the actions rely on.                                               *)

AckInv == awaiting # Null /\ awaiting.landed => wal[awaiting.seq] \in Landed

\* The producer's part of the invariant is its books and what is said of rows.
LEMMA ProducerParts ==
    ProducerInv <=> BooksKept /\ RowsInv /\ PoisonInv /\ AckInv
  BY DEF ProducerInv, BooksKept, Books, RowsInv, AckInv, UsageAccounted, StableIdentity,
         OwnedOnce, PublishInv, LostInv, OneByOne

ProducerShape ==
    /\ awaiting = Null \/ awaiting \in [seq : Nat, landed : BOOLEAN]
    /\ log \in Seq(Events \cup Foreign)

Producer == TypeOK /\ ProducerShape /\ BooksKept /\ RowsInv /\ PoisonInv /\ AckInv

\* Counting a unit keeps the producer's invariant (increment, record_request).
LEMMA RecordStep ==
    ASSUME Producer, NEW u \in Units, Record(u)
    PROVE  Producer'
<1>1. BooksKept'
  BY BooksRecord DEF Producer, Record, BooksKept, Retained, Logged, Landed
<1>2. TypeOK'
  BY DEF Producer, Record, TypeOK
<1>3. (ProducerShape /\ RowsInv /\ PoisonInv /\ AckInv)'
  BY DEF Producer, ProducerShape, Record, RowsInv, PoisonInv, AckInv, Landed
<1>4. QED
  BY <1>1, <1>2, <1>3 DEF Producer

\* So does appending an event per delta (record_direct_at).
LEMMA EnqueueStep ==
    ASSUME Producer, NEW u \in Units, Enqueue(u)
    PROVE  Producer'
<1> DEFINE b == <<{u}>>
<1>1. b \in Seq(Events) /\ OneByOne(b) /\ Elements(b) = {{u}} /\ Len(b) = 1
  <2>1. {u} \in Events
    BY DEF Events
  <2>2. QED
    BY <2>1 DEF OneByOne, Elements
<1>2. {u} \notin Logged
  BY DEF Producer, BooksKept, Books, UnitsOf, Enqueue
<1> HIDE DEF b
<1>3. Grown(wal', next_seq', Logged \cup {{u}}) /\ Logged' = Logged \cup {{u}}
  <2>1. wal' = Appended(b) /\ next_seq' = next_seq + Len(b)
    BY <1>1 DEF Enqueue, b
  <2>2. Elements(b) \cap Logged = {} /\ TypeOK /\ RowsInv
    BY <1>1, <1>2 DEF Producer
  <2>3. Grown(wal', next_seq', Logged \cup {{u}})
    BY <1>1, <2>1, <2>2, AppendedFacts
  <2>4. QED
    BY <2>3 DEF Grown, Logged
<1>4. BooksKept'
  BY <1>3, BooksEnqueue DEF Producer, Enqueue, BooksKept, Retained, Landed
<1>5. TypeOK'
  BY <1>3 DEF Producer, Enqueue, TypeOK, Grown
<1>6. (ProducerShape /\ RowsInv)'
  BY <1>3 DEF Producer, ProducerShape, Enqueue, RowsInv, OneByOne, Grown
<1>7. (PoisonInv /\ AckInv)'
  <2>1. poison \subseteq DOMAIN wal /\ (awaiting # Null => awaiting.seq \in DOMAIN wal)
    BY DEF Producer, TypeOK
  <2>2. PoisonInv'
    BY <1>3, <2>1 DEF Producer, Enqueue, PoisonInv, Grown
  <2>3. Landed' = Landed /\ awaiting' = awaiting
    BY DEF Enqueue, Landed
  <2>5. AckInv'
    BY <1>3, <2>1, <2>3 DEF Producer, AckInv, Grown
  <2>4. QED
    BY <2>2, <2>5
<1>8. QED
  BY <1>4, <1>5, <1>6, <1>7 DEF Producer

\* So does an append that fails (retain_for_retry).
LEMMA AppendFailsStep ==
    ASSUME Producer, AppendFails
    PROVE  Producer'
<1> DEFINE kept == Retain(Batch)
<1>1. /\ Batch \in Seq(Events) /\ OneByOne(Batch)
      /\ Elements(Batch) = Retained \cup Window(counted)
  BY BatchFacts DEF Producer
<1>2. /\ kept \in Seq(Events) /\ Len(kept) <= MaxRetained /\ OneByOne(kept)
      /\ Elements(kept) \subseteq Retained \cup Window(counted)
  BY <1>1, RetainFacts
<1>3. /\ retained' = kept /\ counted' = {}
      /\ lost' = lost \cup (UnitsOf(Elements(Batch)) \ UnitsOf(Elements(kept)))
      /\ UNCHANGED <<direct, recorded, wal, next_seq, poison, pending, awaiting, abandoned, log>>
  BY DEF AppendFails, Elements
<1>4. Retained' = Elements(kept) /\ Logged' = Logged /\ Landed' = Landed
  BY <1>3 DEF Retained, Elements, Logged, Landed
<1> HIDE DEF kept
<1>5. BooksKept'
  BY <1>1, <1>2, <1>3, <1>4, BooksAppendFails DEF Producer, BooksKept
<1>6. TypeOK'
  <2>1. lost' \subseteq Units
    <3>1. UnitsOf(Elements(Batch)) \subseteq Units
      BY <1>1 DEF Elements, UnitsOf, Events
    <3>2. QED
      BY <1>3, <3>1 DEF Producer, TypeOK
  <2>2. faults' \in 0..MaxFaults
    BY OutboxAssumption DEF AppendFails, Fault, Producer, TypeOK
  <2>3. QED
    BY <1>2, <1>3, <2>1, <2>2 DEF Producer, TypeOK
<1>7. (ProducerShape /\ RowsInv /\ PoisonInv /\ AckInv)'
  BY <1>2, <1>3, <1>4 DEF Producer, ProducerShape, RowsInv, PoisonInv, AckInv
<1>8. QED
  BY <1>5, <1>6, <1>7 DEF Producer

\* A batch whose append commits is new to the log.
LEMMA BatchAppended ==
    ASSUME Producer
    PROVE  Grown(Appended(Batch), next_seq + Len(Batch), Logged \cup Retained \cup Window(counted))
<1>1. /\ Batch \in Seq(Events) /\ OneByOne(Batch)
      /\ Elements(Batch) = Retained \cup Window(counted)
  BY BatchFacts DEF Producer
<1>2. Retained \cap Logged = {} /\ Window(counted) \cap Logged = {}
  BY DEF Producer, BooksKept, Books, Window, UnitsOf
<1>3. Grown(Appended(Batch), next_seq + Len(Batch), Logged \cup Elements(Batch))
  BY <1>1, <1>2, AppendedFacts DEF Producer
<1>4. Logged \cup Elements(Batch) = Logged \cup Retained \cup Window(counted)
  BY <1>1
<1>5. QED
  BY <1>3, <1>4

\* So does a read that fails behind the append.
LEMMA ReadFailsStep ==
    ASSUME Producer, ReadFails
    PROVE  Producer'
<1>1. /\ wal' = Appended(Batch) /\ next_seq' = next_seq + Len(Batch)
      /\ retained' = <<>> /\ counted' = {}
      /\ UNCHANGED <<direct, recorded, lost, poison, pending, awaiting, abandoned, log>>
  BY DEF ReadFails
<1>2. Grown(wal', next_seq', Logged \cup Retained \cup Window(counted))
  BY <1>1, BatchAppended
<1>3. /\ Retained' = {} /\ Landed' = Landed
      /\ Logged' = Logged \cup Retained \cup Window(counted)
  BY <1>1, <1>2 DEF Retained, Landed, Logged, Grown
<1>4. BooksKept'
  <2>1. Books(recorded, lost \cup (UnitsOf({}) \ UnitsOf(Landed)), {}, {},
              (Logged \cup Retained \cup Window(counted)) \ {}, abandoned, Landed)
    BY BooksAppended DEF Producer, BooksKept
  <2>2. /\ lost \cup (UnitsOf({}) \ UnitsOf(Landed)) = lost
        /\ (Logged \cup Retained \cup Window(counted)) \ {} = Logged'
    BY <1>3 DEF UnitsOf
  <2>3. QED
    BY <1>1, <1>3, <2>1, <2>2 DEF BooksKept
<1>5. TypeOK'
  <2>1. faults' \in 0..MaxFaults
    BY OutboxAssumption DEF ReadFails, Fault, Producer, TypeOK
  <2>2. QED
    BY <1>1, <1>2, <2>1, OutboxAssumption DEF Producer, TypeOK, Grown
<1>6. (ProducerShape /\ RowsInv)'
  BY <1>1, <1>2 DEF Producer, ProducerShape, RowsInv, OneByOne, Grown
<1>7. (PoisonInv /\ AckInv)'
  <2>1. poison \subseteq DOMAIN wal /\ (awaiting # Null => awaiting.seq \in DOMAIN wal)
    BY DEF Producer, TypeOK
  <2>2. PoisonInv'
    BY <1>1, <1>2, <2>1 DEF Producer, PoisonInv, Grown
  <2>3. AckInv'
    BY <1>1, <1>2, <1>3, <2>1 DEF Producer, AckInv, Grown
  <2>4. QED
    BY <2>2, <2>3
<1>8. QED
  BY <1>4, <1>5, <1>6, <1>7 DEF Producer

\* So does the start of a cycle, which removes undecodable rows.
LEMMA BeginCycleStep ==
    ASSUME Producer, BeginCycle
    PROVE  Producer'
<1> DEFINE rows == Appended(Batch)
<1>1. Grown(rows, next_seq + Len(Batch), Logged \cup Retained \cup Window(counted))
  BY BatchAppended
<1>2. PICK kept \in SUBSET poison :
        /\ IF kept = {} THEN UNCHANGED faults ELSE Fault
        /\ wal' = [s \in DOMAIN rows \ (poison \ kept) |-> rows[s]]
        /\ poison' = kept
        /\ pending' = DOMAIN rows \ poison
        /\ lost' = lost \cup (UnitsOf({rows[s] : s \in poison \ kept}) \ UnitsOf(Landed))
  BY DEF BeginCycle
<1>3. /\ counted' = {} /\ retained' = <<>> /\ next_seq' = next_seq + Len(Batch)
      /\ UNCHANGED <<direct, recorded, awaiting, abandoned, log>> /\ awaiting = Null
  BY DEF BeginCycle, Wakes, Asleep
<1> HIDE DEF rows
<1> DEFINE gone == poison \ kept
<1> DEFINE X == {rows[s] : s \in gone}
<1>4. poison \subseteq DOMAIN wal /\ gone \subseteq DOMAIN rows /\ kept \subseteq DOMAIN rows
  BY <1>1 DEF Producer, TypeOK, Grown
<1>5. X \subseteq Logged /\ X \cap abandoned = {}
  BY <1>1, <1>4 DEF Grown, Logged, Producer, PoisonInv
<1>6. /\ DOMAIN wal' = DOMAIN rows \ gone
      /\ \A s \in DOMAIN rows \ gone : wal'[s] = rows[s]
  BY <1>2
<1>7. Logged' = (Logged \cup Retained \cup Window(counted)) \ X
  <2>1. Logged' = {rows[s] : s \in DOMAIN rows \ gone}
    BY <1>6 DEF Logged
  <2>2. {rows[s] : s \in DOMAIN rows \ gone} = {rows[s] : s \in DOMAIN rows} \ X
    BY <1>1, <1>4 DEF Grown
  <2>3. QED
    BY <1>1, <2>1, <2>2 DEF Grown
<1>8. Retained' = {} /\ Landed' = Landed
  BY <1>3 DEF Retained, Landed
<1>9. lost' = lost \cup (UnitsOf(X) \ UnitsOf(Landed))
  BY <1>2
<1> HIDE DEF X, gone
<1>10. BooksKept'
  BY <1>3, <1>5, <1>7, <1>8, <1>9, BooksAppended DEF Producer, BooksKept
<1>11. TypeOK'
  <2>1. faults' \in 0..MaxFaults
    BY <1>2, OutboxAssumption DEF Fault, Producer, TypeOK
  <2>2. lost' \subseteq Units
    <3>1. Logged \subseteq SUBSET Units
      BY DEF Producer, TypeOK, Logged, Events
    <3>2. QED
      BY <1>5, <1>9, <3>1 DEF Producer, TypeOK, UnitsOf
  <2>3. /\ next_seq' \in Nat /\ DOMAIN wal' \subseteq 0..(next_seq' - 1)
        /\ \A s \in DOMAIN wal' : wal'[s] \in Events
    BY <1>1, <1>3, <1>6 DEF Grown
  <2>4. poison' \subseteq DOMAIN wal' /\ pending' \subseteq DOMAIN wal'
    BY <1>2, <1>4, <1>6 DEF gone
  <2>5. retained' \in Seq(Events) /\ Len(retained') <= MaxRetained
    BY <1>3, OutboxAssumption
  <2>6. QED
    BY <1>3, <2>1, <2>2, <2>3, <2>4, <2>5 DEF Producer, TypeOK
<1>12. (ProducerShape /\ AckInv)'
  BY <1>3 DEF Producer, ProducerShape, AckInv
<1>13. RowsInv'
  BY <1>1, <1>3, <1>6 DEF RowsInv, OneByOne, Grown
<1>14. PoisonInv'
  <2>1. \A s \in kept : wal'[s] \notin abandoned
    BY <1>1, <1>4, <1>6 DEF gone, Grown, Producer, PoisonInv
  <2>2. QED
    BY <1>2, <1>3, <2>1 DEF PoisonInv
<1>15. QED
  BY <1>10, <1>11, <1>12, <1>13, <1>14 DEF Producer

\* So does handing a row to the transport.
LEMMA SendStep ==
    ASSUME Producer, Send
    PROVE  Producer'
<1>1. pending \subseteq Nat /\ pending # {} /\ Min(pending) \in pending
  BY MinMember DEF Producer, TypeOK, Send
<1>2. BooksKept' /\ RowsInv'
  BY DEF Producer, Send, BooksKept, Retained, Logged, Landed, RowsInv
<1>3. TypeOK'
  BY <1>1 DEF Producer, Send, TypeOK
<1>4. (ProducerShape /\ PoisonInv /\ AckInv)'
  BY <1>1 DEF Producer, ProducerShape, Send, PoisonInv, AckInv
<1>5. QED
  BY <1>2, <1>3, <1>4 DEF Producer

\* An event of the producer's is appended to the partition.
LEMMA Landing ==
    ASSUME log \in Seq(Events \cup Foreign), NEW e, log' = Append(log, e)
    PROVE  /\ Landed' = Landed \cup ({e} \cap Events)
           /\ e \in Events \cup Foreign => log' \in Seq(Events \cup Foreign)
<1>1. {log'[i] : i \in DOMAIN log'} = {log[i] : i \in DOMAIN log} \cup {e}
  BY ElementsAppend DEF Elements
<1>2. QED
  BY <1>1 DEF Landed

\* So does the broker's append of the awaited record.
LEMMA LandStep ==
    ASSUME Producer, Land
    PROVE  Producer'
<1> DEFINE e == wal[awaiting.seq]
<1>1. /\ log \in Seq(Events \cup Foreign) /\ log' = Append(log, e) /\ e \in Events
      /\ e \in Logged /\ awaiting \in [seq : Nat, landed : BOOLEAN]
  BY DEF Producer, ProducerShape, TypeOK, Land, Logged
<1>2. /\ awaiting' = [awaiting EXCEPT !.landed = TRUE] /\ awaiting # Null
      /\ UNCHANGED <<direct, recorded, lost, counted, retained, wal, next_seq, poison, pending,
                     abandoned, faults>>
  BY DEF Land
<1>3. Landed' = Landed \cup {e} /\ log' \in Seq(Events \cup Foreign)
  BY <1>1, Landing
<1>4. awaiting' \in [seq : Nat, landed : BOOLEAN] /\ awaiting'.seq = awaiting.seq
  BY <1>1, <1>2
<1>5. BooksKept'
  <2>1. Retained' = Retained /\ Logged' = Logged
    BY <1>2 DEF Retained, Logged
  <2>2. Books(recorded, lost, counted, Retained, Logged, abandoned, Landed \cup {e})
    BY <1>1, BooksLand DEF Producer, BooksKept
  <2>3. QED
    BY <1>2, <1>3, <2>1, <2>2 DEF BooksKept
<1>6. TypeOK'
  BY <1>2, <1>4 DEF Producer, TypeOK
<1>7. (ProducerShape /\ RowsInv /\ PoisonInv)'
  BY <1>2, <1>3, <1>4 DEF Producer, ProducerShape, RowsInv, PoisonInv
<1>8. AckInv'
  BY <1>2, <1>3, <1>4 DEF AckInv
<1>9. QED
  BY <1>5, <1>6, <1>7, <1>8 DEF Producer

\* So does the trim behind an acknowledgement.
LEMMA AcknowledgeStep ==
    ASSUME Producer, Acknowledge
    PROVE  Producer'
<1> DEFINE a == awaiting.seq
<1>1. a \in DOMAIN wal /\ wal[a] \in Logged \cap Landed /\ a \notin pending /\ a \notin poison
  BY DEF Producer, TypeOK, Acknowledge, Logged, AckInv, PoisonInv
<1>2. /\ DOMAIN wal' = DOMAIN wal \ {a}
      /\ \A s \in DOMAIN wal \ {a} : wal'[s] = wal[s]
      /\ awaiting' = Null
      /\ UNCHANGED <<direct, recorded, lost, counted, retained, next_seq, poison, pending, abandoned,
                     log, faults>>
  BY DEF Acknowledge, Trimmed
<1> HIDE DEF a
<1>3. Logged' = Logged \ {wal[a]} /\ Retained' = Retained /\ Landed' = Landed
  BY <1>1, <1>2 DEF Logged, Retained, Landed, Producer, RowsInv
<1>4. BooksKept'
  BY <1>1, <1>2, <1>3, BooksTrim DEF Producer, BooksKept
<1>5. TypeOK'
  BY <1>1, <1>2 DEF Producer, TypeOK
<1>6. (ProducerShape /\ RowsInv /\ AckInv)'
  BY <1>1, <1>2 DEF Producer, ProducerShape, RowsInv, AckInv
<1>7. PoisonInv'
  <2>1. poison \subseteq DOMAIN wal \ {a}
    BY <1>1 DEF Producer, TypeOK
  <2>2. QED
    BY <1>2, <2>1 DEF Producer, PoisonInv
<1>8. QED
  BY <1>4, <1>5, <1>6, <1>7 DEF Producer

\* So does a trim that fails.
LEMMA TrimFailsStep ==
    ASSUME Producer, TrimFails
    PROVE  Producer'
<1>1. /\ awaiting' = Null
      /\ UNCHANGED <<direct, recorded, lost, counted, retained, wal, next_seq, poison, pending,
                     abandoned, log>>
      /\ faults' \in 0..MaxFaults
  BY OutboxAssumption DEF TrimFails, Fault, Producer, TypeOK
<1>2. BooksKept' /\ TypeOK'
  BY <1>1 DEF Producer, BooksKept, Retained, Logged, Landed, TypeOK
<1>3. (ProducerShape /\ RowsInv /\ PoisonInv /\ AckInv)'
  BY <1>1 DEF Producer, ProducerShape, RowsInv, PoisonInv, AckInv
<1>4. QED
  BY <1>2, <1>3 DEF Producer

\* So does a publish that is refused, times out or is cut at the stall bound.
LEMMA PublishFailsStep ==
    ASSUME Producer, NEW stalled \in BOOLEAN, PublishFails(stalled)
    PROVE  Producer'
<1> DEFINE e == wal[awaiting.seq]
<1>1. /\ awaiting' = Null /\ pending' \subseteq pending
      /\ abandoned' = abandoned \/ abandoned' = abandoned \cup {e}
      /\ UNCHANGED <<direct, recorded, lost, counted, retained, wal, next_seq, poison, log>>
      /\ faults' \in 0..MaxFaults
  BY OutboxAssumption DEF PublishFails, Fault, Producer, TypeOK
<1>2. e \in Logged /\ e \in Events /\ \A s \in poison : wal[s] # e
  BY DEF Producer, TypeOK, PublishFails, Logged, PoisonInv, RowsInv
<1> HIDE DEF e
<1>3. BooksKept'
  <2>1. Retained' = Retained /\ Logged' = Logged /\ Landed' = Landed
    BY <1>1 DEF Retained, Logged, Landed
  <2>2. Books(recorded, lost, counted, Retained, Logged, abandoned \cup {e}, Landed)
    BY <1>2, BooksAbandon DEF Producer, BooksKept
  <2>3. QED
    BY <1>1, <2>1, <2>2 DEF Producer, BooksKept
<1>4. TypeOK'
  BY <1>1, <1>2 DEF Producer, TypeOK
<1>5. (ProducerShape /\ RowsInv /\ PoisonInv /\ AckInv)'
  BY <1>1, <1>2 DEF Producer, ProducerShape, RowsInv, PoisonInv, AckInv
<1>6. QED
  BY <1>3, <1>4, <1>5 DEF Producer

\* So does the late append of an abandoned publish.
LEMMA LandLateStep ==
    ASSUME Producer, NEW e \in abandoned, LandLate(e)
    PROVE  Producer'
<1>1. /\ log \in Seq(Events \cup Foreign) /\ log' = Append(log, e) /\ e \in Events
      /\ abandoned' = abandoned \ {e}
      /\ UNCHANGED <<direct, recorded, lost, counted, retained, wal, next_seq, poison, pending,
                     awaiting, faults>>
  BY DEF Producer, ProducerShape, TypeOK, LandLate
<1>2. Landed' = Landed \cup {e} /\ log' \in Seq(Events \cup Foreign)
  BY <1>1, Landing
<1>3. BooksKept'
  <2>1. Retained' = Retained /\ Logged' = Logged
    BY <1>1 DEF Retained, Logged
  <2>2. Books(recorded, lost, counted, Retained, Logged, abandoned \ {e}, Landed \cup {e})
    BY BooksLand DEF Producer, BooksKept
  <2>3. QED
    BY <1>1, <1>2, <2>1, <2>2 DEF BooksKept
<1>4. TypeOK'
  BY <1>1 DEF Producer, TypeOK
<1>5. (ProducerShape /\ RowsInv /\ PoisonInv /\ AckInv)'
  BY <1>1, <1>2 DEF Producer, ProducerShape, RowsInv, PoisonInv, AckInv
<1>6. QED
  BY <1>3, <1>4, <1>5 DEF Producer

\* So does its end without one.
LEMMA GiveUpStep ==
    ASSUME Producer, NEW e \in abandoned, GiveUp(e)
    PROVE  Producer'
<1>1. /\ abandoned' = abandoned \ {e}
      /\ UNCHANGED <<direct, recorded, lost, counted, retained, wal, next_seq, poison, pending,
                     awaiting, log, faults>>
  BY DEF GiveUp
<1>2. BooksKept'
  BY <1>1, BooksAbandon DEF Producer, BooksKept, Retained, Logged, Landed
<1>3. TypeOK'
  BY <1>1 DEF Producer, TypeOK
<1>4. (ProducerShape /\ RowsInv /\ PoisonInv /\ AckInv)'
  BY <1>1 DEF Producer, ProducerShape, RowsInv, PoisonInv, AckInv, Landed
<1>5. QED
  BY <1>2, <1>3, <1>4 DEF Producer

\* So does the end of the process and the start of another.
LEMMA CrashStep ==
    ASSUME Producer, Crash
    PROVE  Producer'
<1>1. /\ lost' = lost \cup counted \cup UnitsOf(Retained)
      /\ counted' = {} /\ retained' = <<>>
      /\ pending' = {} /\ awaiting' = Null /\ abandoned' = {}
      /\ poison' \subseteq DOMAIN wal
      /\ UNCHANGED <<direct, recorded, wal, next_seq, log>>
      /\ faults' \in 0..MaxFaults
  BY OutboxAssumption DEF Crash, Fault, Producer, TypeOK
<1>2. Retained' = {} /\ Logged' = Logged /\ Landed' = Landed
  BY <1>1 DEF Retained, Logged, Landed
<1>3. BooksKept'
  BY <1>1, <1>2, BooksCrash DEF Producer, BooksKept
<1>4. TypeOK'
  <2>1. lost' \subseteq Units
    <3>1. Retained \subseteq SUBSET Units
      <4>1. \A i \in DOMAIN retained : retained[i] \in Events
        BY DEF Producer, TypeOK
      <4>2. QED
        BY <4>1 DEF Retained, Events
    <3>2. QED
      BY <1>1, <3>1 DEF Producer, TypeOK, UnitsOf
  <2>2. retained' \in Seq(Events) /\ Len(retained') <= MaxRetained
    BY <1>1, OutboxAssumption
  <2>3. QED
    BY <1>1, <2>1, <2>2 DEF Producer, TypeOK
<1>5. (ProducerShape /\ RowsInv /\ PoisonInv /\ AckInv)'
  BY <1>1 DEF Producer, ProducerShape, RowsInv, OneByOne, PoisonInv, AckInv
<1>6. QED
  BY <1>3, <1>4, <1>5 DEF Producer

\* Every step of the producer keeps its invariant.
LEMMA ProducerNext ==
    ASSUME Producer, Next
    PROVE  Producer'
<1>1. CASE \E u \in Units : Record(u) \/ Enqueue(u)
  BY <1>1, RecordStep, EnqueueStep
<1>2. CASE Work
  BY <1>2, BeginCycleStep, SendStep, LandStep, AcknowledgeStep DEF Work
<1>3. CASE AppendFails \/ ReadFails \/ TrimFails
  BY <1>3, AppendFailsStep, ReadFailsStep, TrimFailsStep
<1>4. CASE \E stalled \in BOOLEAN : PublishFails(stalled)
  BY <1>4, PublishFailsStep
<1>5. CASE \E e \in abandoned : LandLate(e) \/ GiveUp(e)
  BY <1>5, LandLateStep, GiveUpStep
<1>6. CASE Crash
  BY <1>6, CrashStep
<1>7. QED
  BY <1>1, <1>2, <1>3, <1>4, <1>5, <1>6 DEF Next

\* What others put on the partition is none of the producer's events.
LEMMA ProducerForeign ==
    ASSUME Producer, NEW e \in Foreign, log' = Append(log, e), UNCHANGED outbox
    PROVE  Producer'
<1>1. UNCHANGED <<direct, recorded, lost, counted, retained, wal, next_seq, poison, pending,
                  awaiting, abandoned, faults>>
  BY DEF outbox
<1>2. Landed' = Landed /\ log' \in Seq(Events \cup Foreign)
  <2>1. {e} \cap Events = {}
    BY MeteringAssumption
  <2>2. Landed' = Landed \cup ({e} \cap Events) /\ log' \in Seq(Events \cup Foreign)
    BY Landing DEF Producer, ProducerShape
  <2>3. QED
    BY <2>1, <2>2
<1>3. BooksKept' /\ TypeOK'
  BY <1>1, <1>2 DEF Producer, BooksKept, Retained, Logged, TypeOK
<1>4. (ProducerShape /\ RowsInv /\ PoisonInv /\ AckInv)'
  BY <1>1, <1>2 DEF Producer, ProducerShape, RowsInv, PoisonInv, AckInv
<1>5. QED
  BY <1>3, <1>4 DEF Producer

\* A step of the forwarder leaves the producer alone.
LEMMA ProducerUntouched ==
    ASSUME Producer, UNCHANGED <<outbox, log>>
    PROVE  Producer'
<1>1. UNCHANGED <<direct, recorded, lost, counted, retained, wal, next_seq, poison, pending,
                  awaiting, abandoned, faults, log>>
  BY DEF outbox
<1>2. BooksKept' /\ TypeOK'
  BY <1>1 DEF Producer, BooksKept, Retained, Logged, Landed, TypeOK
<1>3. (ProducerShape /\ RowsInv /\ PoisonInv /\ AckInv)'
  BY <1>1 DEF Producer, ProducerShape, RowsInv, PoisonInv, AckInv, Landed
<1>4. QED
  BY <1>2, <1>3 DEF Producer

-----------------------------------------------------------------------------
(* The forwarder.                                                          *)

BatchShape == batch = Null \/ batch \in Batches

Consumer == F!TypeOK /\ BatchShape /\ PositionInv /\ BilledInv

\* A span of the partition is the two halves it is cut into.
LEMMA SpanCut ==
    ASSUME NEW a \in Nat, NEW b \in Nat, a <= b
    PROVE  F!EventsOf(0, b) = F!EventsOf(0, a) \cup F!EventsOf(a, b)
<1>1. \A i : i \in (0 + 1)..b <=> i \in (0 + 1)..a \/ i \in (a + 1)..b
  OBVIOUS
<1>2. QED
  BY <1>1 DEF F!EventsOf

\* The kinds tell the producer's events from the others.
LEMMA Kinds ==
    ASSUME NEW e \in Events \cup Foreign
    PROVE  /\ KindOf[e] \in {"owned"} <=> e \in Events
           /\ KindOf[e] \in {"unowned", "garbage"} <=> e \notin Events
  BY MeteringAssumption DEF KindOf

\* The partition grew: nothing below its old end changed.
LEMMA ConsumerAppend ==
    ASSUME Consumer, NEW e \in Events \cup Foreign, log' = Append(log, e), UNCHANGED consumer
    PROVE  Consumer'
<1>1. UNCHANGED <<position, member, committed, batch, billed, quarantined, dropped, failures>>
  BY DEF consumer
<1>2. /\ log \in Seq(Events \cup Foreign) /\ log' \in Seq(Events \cup Foreign)
      /\ Len(log') = Len(log) + 1 /\ Len(log) \in Nat
      /\ \A i \in 1..Len(log) : log'[i] = log[i]
  BY ElementsAppend DEF Consumer, F!TypeOK
<1>3. ASSUME NEW a \in Nat, NEW b \in 0..Len(log)
      PROVE  {log'[i] : i \in (a + 1)..b} = {log[i] : i \in (a + 1)..b}
  <2>1. \A i \in (a + 1)..b : i \in 1..Len(log)
    BY <1>2
  <2>2. QED
    BY <1>2, <2>1
<1>4. F!TypeOK'
  BY <1>1, <1>2 DEF Consumer, F!TypeOK
<1>5. PositionInv'
  <2>1. /\ position \in 0..Len(log) /\ committed \in 0..Len(log)
        /\ batch # Null => batch.from \in 0..Len(log) /\ batch.to \in 0..Len(log)
    BY <1>2 DEF Consumer, F!TypeOK
  <2>2. /\ F!EventsOf(0, committed)' = F!EventsOf(0, committed)
        /\ F!EventsOf(0, position)' = F!EventsOf(0, position)
    BY <1>1, <1>3, <2>1 DEF F!EventsOf
  <2>3. batch # Null =>
          /\ F!EventsOf(0, batch.from)' = F!EventsOf(0, batch.from)
          /\ F!EventsOf(batch.from, batch.to)' = F!EventsOf(batch.from, batch.to)
    BY <1>1, <1>2, <1>3, <2>1 DEF F!EventsOf
  <2>4. batch # Null => F!InBatch({"unowned", "garbage"})' = F!InBatch({"unowned", "garbage"})
    BY <2>3 DEF F!InBatch
  <2>5. QED
    BY <1>1, <2>2, <2>3, <2>4 DEF Consumer, PositionInv, F!Settled
<1>6. BatchShape' /\ BilledInv'
  BY <1>1, Landing DEF Consumer, BatchShape, BilledInv, F!TypeOK
<1>7. QED
  BY <1>4, <1>5, <1>6 DEF Consumer

\* The span of a batch and what is in it.
LEMMA BatchSpan ==
    ASSUME Consumer, batch # Null
    PROVE  /\ batch \in Batches
           /\ batch.from < batch.to /\ batch.to \in 0..Len(log) /\ batch.to = position
           /\ F!EventsOf(0, batch.to) = F!EventsOf(0, batch.from) \cup F!EventsOf(batch.from, batch.to)
           /\ F!EventsOf(batch.from, batch.to)
                 = F!InBatch({"owned"}) \cup F!InBatch({"unowned", "garbage"})
           /\ F!InBatch({"owned"}) \subseteq Landed
           /\ F!EventsOf(batch.from, batch.to) \subseteq Events \cup Foreign
<1>1. /\ batch \in Batches
      /\ batch.from \in Nat /\ batch.to \in Nat
      /\ batch.from < batch.to /\ batch.to \in 0..Len(log) /\ batch.to = position
      /\ log \in Seq(Events \cup Foreign) /\ Len(log) \in Nat
  BY DEF Consumer, BatchShape, F!TypeOK, PositionInv, Batches
<1>2. F!EventsOf(0, batch.to) = F!EventsOf(0, batch.from) \cup F!EventsOf(batch.from, batch.to)
  BY <1>1, SpanCut
<1>3. \A i \in (batch.from + 1)..batch.to : i \in DOMAIN log /\ log[i] \in Events \cup Foreign
  BY <1>1
<1>4. F!EventsOf(batch.from, batch.to) \subseteq {log[i] : i \in DOMAIN log} \cap (Events \cup Foreign)
  BY <1>3 DEF F!EventsOf
<1>5. /\ F!InBatch({"owned"}) = F!EventsOf(batch.from, batch.to) \cap Events
      /\ F!InBatch({"unowned", "garbage"}) = F!EventsOf(batch.from, batch.to) \ Events
  BY <1>4, Kinds DEF F!InBatch
<1>6. QED
  BY <1>1, <1>2, <1>4, <1>5 DEF Landed

\* A poll keeps the forwarder's invariant (StreamTransport::poll).
LEMMA PollStep ==
    ASSUME Consumer, F!Poll
    PROVE  Consumer'
<1>1. PICK to \in (position + 1)..Len(log) :
        batch' = [from |-> position, to |-> to, stage |-> "sort"] /\ position' = to
  BY DEF F!Poll
<1>2. /\ batch = Null
      /\ UNCHANGED <<log, member, committed, billed, quarantined, dropped, failures>>
  BY DEF F!Poll
<1>3. position \in 0..Len(log) /\ Len(log) \in Nat
  BY DEF Consumer, F!TypeOK
<1>4. /\ batch'.from = position /\ batch'.to = to /\ batch'.stage = "sort" /\ BatchShape'
      /\ batch' # Null
  BY <1>1, <1>3, MeteringAssumption DEF BatchShape, Batches
<1>5. F!TypeOK'
  BY <1>1, <1>2, <1>3, <1>4 DEF Consumer, F!TypeOK
<1>6. PositionInv'
  BY <1>1, <1>2, <1>4 DEF Consumer, PositionInv, F!EventsOf, F!Settled
<1>7. BilledInv'
  BY <1>2 DEF Consumer, BilledInv, Landed
<1>8. QED
  BY <1>4, <1>5, <1>6, <1>7 DEF Consumer

\* The consumer is taken back to the committed offset without a batch.
LEMMA BackToCommitted ==
    ASSUME Consumer, batch' = Null, position' = committed, member' \in BOOLEAN,
           failures' \in 0..MaxFailures,
           UNCHANGED <<log, committed, billed, quarantined, dropped>>
    PROVE  Consumer'
<1>1. F!TypeOK' /\ BatchShape' /\ BilledInv'
  BY DEF Consumer, F!TypeOK, BatchShape, BilledInv, Landed
<1>2. PositionInv'
  BY DEF Consumer, PositionInv, F!EventsOf, F!Settled
<1>3. QED
  BY <1>1, <1>2 DEF Consumer

\* So does the loop over the records of a batch (run_cycle).
LEMMA SortStep ==
    ASSUME Consumer, F!Sort
    PROVE  Consumer'
<1>1. /\ batch # Null /\ batch.stage = "sort"
      /\ quarantined' = quarantined \cup F!InBatch({"unowned", "garbage"})
      /\ batch' = [batch EXCEPT !.stage = IF F!InBatch({"owned"}) = {} THEN "commit" ELSE "ingest"]
      /\ UNCHANGED <<log, position, member, committed, billed, dropped, failures>>
  BY DEF F!Sort
<1>2. /\ batch'.from = batch.from /\ batch'.to = batch.to /\ BatchShape'
      /\ batch'.stage = IF F!InBatch({"owned"}) = {} THEN "commit" ELSE "ingest"
      /\ batch' # Null
  BY <1>1, BatchSpan, MeteringAssumption DEF BatchShape, Batches
<1>3. F!TypeOK'
  BY <1>1, <1>2, BatchSpan DEF Consumer, F!TypeOK
<1>4. PositionInv'
  <2>1. /\ F!EventsOf(0, committed)' = F!EventsOf(0, committed)
        /\ F!EventsOf(0, batch.from)' = F!EventsOf(0, batch.from)
        /\ F!EventsOf(batch.from, batch.to)' = F!EventsOf(batch.from, batch.to)
        /\ F!Settled \subseteq F!Settled'
    BY <1>1, <1>2 DEF F!EventsOf, F!Settled
  <2>2. F!InBatch({"unowned", "garbage"})' = F!InBatch({"unowned", "garbage"})
    BY <2>1 DEF F!InBatch
  <2>3. F!InBatch({"owned"}) = {} => F!EventsOf(batch.from, batch.to) \subseteq F!Settled'
    BY <1>1, BatchSpan DEF F!Settled
  <2>4. QED
    BY <1>1, <1>2, <2>1, <2>2, <2>3 DEF Consumer, PositionInv
<1>5. BilledInv'
  BY <1>1 DEF Consumer, BilledInv, Landed
<1>6. QED
  BY <1>2, <1>3, <1>4, <1>5 DEF Consumer

\* The batch in hand is settled and is to be committed.
LEMMA ToCommit ==
    ASSUME Consumer, batch # Null, batch.stage = "ingest",
           batch' = [batch EXCEPT !.stage = "commit"],
           billed \subseteq billed', billed' \subseteq billed \cup F!InBatch({"owned"}),
           quarantined \subseteq quarantined',
           quarantined' \subseteq quarantined \cup F!InBatch({"owned"}),
           F!InBatch({"owned"}) \subseteq billed' \cup quarantined',
           failures' \in 0..MaxFailures,
           UNCHANGED <<log, position, member, committed, dropped>>
    PROVE  Consumer'
<1>1. /\ batch'.from = batch.from /\ batch'.to = batch.to /\ BatchShape' /\ batch'.stage = "commit"
      /\ batch' # Null
  BY BatchSpan, MeteringAssumption DEF BatchShape, Batches
<1>2. F!TypeOK'
  BY <1>1, BatchSpan DEF Consumer, F!TypeOK
<1>3. PositionInv'
  <2>1. /\ F!EventsOf(0, committed)' = F!EventsOf(0, committed)
        /\ F!EventsOf(0, batch.from)' = F!EventsOf(0, batch.from)
        /\ F!EventsOf(batch.from, batch.to)' = F!EventsOf(batch.from, batch.to)
        /\ F!Settled \subseteq F!Settled'
    BY <1>1 DEF F!EventsOf, F!Settled
  <2>2. F!EventsOf(batch.from, batch.to) \subseteq F!Settled'
    BY BatchSpan DEF Consumer, PositionInv, F!Settled
  <2>3. QED
    BY <1>1, <2>1, <2>2 DEF Consumer, PositionInv
<1>4. BilledInv'
  BY BatchSpan DEF Consumer, BilledInv, Landed
<1>5. QED
  BY <1>1, <1>2, <1>3, <1>4 DEF Consumer

\* The cycle fails: its batch is dropped, what was taken of it stays taken.
LEMMA CycleFails ==
    ASSUME Consumer, batch # Null, batch' = Null,
           billed \subseteq billed', billed' \subseteq billed \cup F!InBatch({"owned"}),
           quarantined \subseteq quarantined',
           quarantined' \subseteq quarantined \cup F!EventsOf(batch.from, batch.to),
           dropped' = dropped \cup F!EventsOf(batch.from, batch.to),
           failures' \in 0..MaxFailures,
           UNCHANGED <<log, position, member, committed>>
    PROVE  Consumer'
<1>1. BatchShape'
  BY DEF BatchShape
<1>2. F!TypeOK'
  BY BatchSpan DEF Consumer, F!TypeOK
<1>3. PositionInv'
  <2>1. /\ F!EventsOf(0, committed)' = F!EventsOf(0, committed)
        /\ F!EventsOf(0, position)' = F!EventsOf(0, position)
        /\ F!Settled \subseteq F!Settled'
    BY DEF F!EventsOf, F!Settled
  <2>2. QED
    BY <2>1, BatchSpan DEF Consumer, PositionInv
<1>4. BilledInv'
  BY BatchSpan DEF Consumer, BilledInv, Landed
<1>5. QED
  BY <1>1, <1>2, <1>3, <1>4 DEF Consumer

\* The batch is behind the consumer, whether or not its commit went through.
LEMMA Committing ==
    ASSUME Consumer, batch # Null, batch.stage = "commit", batch' = Null,
           committed' \in {committed, batch.to}, failures' \in 0..MaxFailures,
           UNCHANGED <<log, position, member, billed, quarantined, dropped>>
    PROVE  Consumer'
<1>1. BatchShape' /\ BilledInv'
  BY DEF Consumer, BatchShape, BilledInv, Landed
<1>2. F!TypeOK'
  BY BatchSpan DEF Consumer, F!TypeOK
<1>3. PositionInv'
  <2>1. /\ F!EventsOf(0, committed') = F!EventsOf(0, committed)'
        /\ F!EventsOf(0, position)' = F!EventsOf(0, position)
        /\ F!Settled' = F!Settled
    BY DEF F!EventsOf, F!Settled
  <2>2. F!EventsOf(0, batch.to) \subseteq F!Settled \cup dropped
    BY BatchSpan DEF Consumer, PositionInv
  <2>3. QED
    BY <2>1, <2>2, BatchSpan DEF Consumer, PositionInv
<1>4. QED
  BY <1>1, <1>2, <1>3 DEF Consumer

\* So does every step of a cycle that goes well, and a refused commit.
LEMMA ConsumerForward ==
    ASSUME Consumer, F!Forward
    PROVE  Consumer'
<1>0. failures \in 0..MaxFailures /\ member \in BOOLEAN
  BY DEF Consumer, F!TypeOK
<1>1. CASE F!Poll
  BY <1>1, PollStep
<1>2. CASE F!Rejoin
  BY <1>0, <1>2, BackToCommitted DEF F!Rejoin
<1>3. CASE F!Sort
  BY <1>3, SortStep
<1>4. CASE F!Ingest
  BY <1>0, <1>4, ToCommit DEF F!Ingest
<1>5. CASE F!Commit
  BY <1>0, <1>5, Committing DEF F!Commit
<1>6. CASE F!CommitFails
  <2>1. failures' \in 0..MaxFailures /\ committed' \in {committed, batch.to}
    BY <1>0, <1>6, MeteringAssumption DEF F!CommitFails, F!Fails
  <2>2. QED
    BY <1>6, <2>1, Committing DEF F!CommitFails
<1>7. QED
  BY <1>1, <1>2, <1>3, <1>4, <1>5, <1>6 DEF F!Forward

\* So does every failure: of the database, the provider, the group or the process.
LEMMA ConsumerFailure ==
    ASSUME Consumer, F!Failure
    PROVE  Consumer'
<1>0. failures \in 0..MaxFailures /\ MaxFailures \in Nat
  BY MeteringAssumption DEF Consumer, F!TypeOK
<1>1. CASE F!SortFails
  <2>1. PICK upto \in batch.from..batch.to :
          quarantined' = quarantined
             \cup {e \in F!EventsOf(batch.from, upto) : KindOf[e] \in {"unowned", "garbage"}}
    BY <1>1 DEF F!SortFails
  <2>2. /\ batch # Null /\ batch' = Null /\ failures' \in 0..MaxFailures
        /\ dropped' = dropped \cup F!EventsOf(batch.from, batch.to)
        /\ UNCHANGED <<log, position, member, committed, billed>>
    BY <1>0, <1>1 DEF F!SortFails, F!Fails
  <2>3. batch.from \in Nat /\ batch.to \in Nat
    BY <2>2, BatchSpan DEF Batches
  <2>4. F!EventsOf(batch.from, upto) \subseteq F!EventsOf(batch.from, batch.to)
    <3>1. \A i \in (batch.from + 1)..upto : i \in (batch.from + 1)..batch.to
      BY <2>3
    <3>2. QED
      BY <3>1 DEF F!EventsOf
  <2>5. /\ quarantined \subseteq quarantined'
        /\ quarantined' \subseteq quarantined \cup F!EventsOf(batch.from, batch.to)
    BY <2>1, <2>4
  <2>6. QED
    BY <2>2, <2>5, CycleFails
<1>2. CASE F!Reject
  <2>1. failures' \in 0..MaxFailures
    BY <1>0, <1>2 DEF F!Reject, F!Fails
  <2>2. QED
    BY <1>2, <2>1, ToCommit DEF F!Reject
<1>3. CASE F!IngestFails
  <2>1. failures' \in 0..MaxFailures /\ batch # Null
    BY <1>0, <1>3 DEF F!IngestFails, F!Fails
  <2>2. F!InBatch({"owned"}) \subseteq F!EventsOf(batch.from, batch.to)
    BY DEF F!InBatch
  <2>3. /\ billed \subseteq billed' /\ billed' \subseteq billed \cup F!InBatch({"owned"})
        /\ quarantined \subseteq quarantined'
        /\ quarantined' \subseteq quarantined \cup F!EventsOf(batch.from, batch.to)
    BY <1>3, <2>2 DEF F!IngestFails
  <2>4. QED
    BY <1>3, <2>1, <2>3, CycleFails DEF F!IngestFails
<1>4. CASE F!Evict
  <2>1. failures' \in 0..MaxFailures
    BY <1>0, <1>4 DEF F!Evict, F!Fails
  <2>2. /\ member' = FALSE
        /\ UNCHANGED <<log, position, committed, batch, billed, quarantined, dropped>>
    BY <1>4 DEF F!Evict
  <2>3. F!TypeOK' /\ BatchShape' /\ BilledInv'
    BY <2>1, <2>2 DEF Consumer, F!TypeOK, BatchShape, BilledInv, Landed
  <2>4. PositionInv'
    BY <2>2 DEF Consumer, PositionInv, F!EventsOf, F!InBatch, F!Settled
  <2>5. QED
    BY <2>3, <2>4 DEF Consumer
<1>5. CASE F!Restart
  <2>1. failures' \in 0..MaxFailures /\ member' \in BOOLEAN
    BY <1>0, <1>5 DEF F!Restart, F!Fails
  <2>2. QED
    BY <1>5, <2>1, BackToCommitted DEF F!Restart
<1>6. QED
  BY <1>1, <1>2, <1>3, <1>4, <1>5 DEF F!Failure

-----------------------------------------------------------------------------
(* The pipeline.                                                           *)

\* The invariant is the producer's part and the forwarder's.
LEMMA Parts == IInv <=> Producer /\ Consumer
<1>1. IInv => Producer
  BY ProducerParts DEF IInv, PipelineTypeOK, ShapeInv, Producer, ProducerShape, F!TypeOK
<1>2. IInv => Consumer
  BY DEF IInv, PipelineTypeOK, ShapeInv, Consumer, BatchShape, ConsumerInv
<1>3. Producer /\ Consumer => IInv
  BY ProducerParts DEF IInv, PipelineTypeOK, ShapeInv, Producer, ProducerShape, Consumer,
     BatchShape, ConsumerInv
<1>4. QED
  BY <1>1, <1>2, <1>3

\* The invariant holds when both sides start on an empty partition.
LEMMA PipelineStarts == PipelineInit => Producer /\ Consumer
<1> SUFFICES ASSUME PipelineInit PROVE Producer /\ Consumer
  OBVIOUS
<1>1. Retained = {} /\ Logged = {} /\ Landed = {}
  BY DEF PipelineInit, Init, Retained, Logged, Landed
<1>2. BooksKept
  BY <1>1 DEF BooksKept, Books, UnitsOf, PipelineInit, Init
<1>3. TypeOK
  BY OutboxAssumption DEF PipelineInit, Init, TypeOK
<1>4. ProducerShape /\ RowsInv /\ PoisonInv /\ AckInv
  BY DEF PipelineInit, Init, ProducerShape, RowsInv, OneByOne, PoisonInv, AckInv
<1>5. F!TypeOK
  BY MeteringAssumption DEF PipelineInit, F!Init, F!TypeOK
<1>6. PositionInv /\ BatchShape /\ BilledInv
  BY DEF PipelineInit, F!Init, PositionInv, F!EventsOf, BatchShape, BilledInv
<1>7. QED
  BY <1>2, <1>3, <1>4, <1>5, <1>6 DEF Producer, Consumer

\* A step of the producer appends at most one of its events to the partition.
LEMMA LogGrows ==
    ASSUME Producer, Next
    PROVE  UNCHANGED log \/ \E e \in Events : log' = Append(log, e)
<1>1. CASE Land
  BY <1>1 DEF Land, Producer, TypeOK
<1>2. CASE \E e \in abandoned : LandLate(e)
  BY <1>2 DEF LandLate, Producer, TypeOK
<1>3. CASE ~Land /\ ~(\E e \in abandoned : LandLate(e))
  BY <1>3 DEF Next, Work, Record, Enqueue, BeginCycle, Send, Acknowledge, AppendFails, ReadFails,
     TrimFails, PublishFails, GiveUp, Crash
<1>4. QED
  BY <1>1, <1>2, <1>3

\* A step that leaves the forwarder and the partition alone keeps its invariant.
LEMMA ConsumerUntouched ==
    ASSUME Consumer, UNCHANGED <<consumer, log>>
    PROVE  Consumer'
<1>1. UNCHANGED <<position, member, committed, batch, billed, quarantined, dropped, failures, log>>
  BY DEF consumer
<1>2. F!TypeOK' /\ BatchShape' /\ BilledInv'
  BY <1>1 DEF Consumer, F!TypeOK, BatchShape, BilledInv, Landed
<1>3. PositionInv'
  BY <1>1 DEF Consumer, PositionInv, F!EventsOf, F!InBatch, F!Settled
<1>4. QED
  BY <1>2, <1>3 DEF Consumer

\* The forwarder appends nothing to the partition.
LEMMA ForwarderKeepsLog ==
    F!Forward \/ F!Failure => UNCHANGED log
  BY DEF F!Forward, F!Failure, F!Poll, F!Rejoin, F!Sort, F!Ingest, F!Commit, F!CommitFails,
     F!SortFails, F!Reject, F!IngestFails, F!Evict, F!Restart

\* Every step of the pipeline keeps both parts of the invariant.
LEMMA PipelineSteps ==
    ASSUME Producer, Consumer, [PipelineNext]_pipeline
    PROVE  Producer' /\ Consumer'
<1>1. CASE Next /\ UNCHANGED consumer
  <2>1. Producer'
    BY <1>1, ProducerNext
  <2>2. Consumer'
    BY <1>1, LogGrows, ConsumerAppend, ConsumerUntouched
  <2>3. QED
    BY <2>1, <2>2
<1>2. CASE (F!Forward \/ F!Failure) /\ UNCHANGED outbox
  BY <1>2, ForwarderKeepsLog, ProducerUntouched, ConsumerForward, ConsumerFailure
<1>3. CASE \E e \in Foreign : PublishForeign(e)
  <2>1. PICK e \in Foreign : log' = Append(log, e) /\ UNCHANGED <<outbox, consumer>>
    BY <1>3 DEF PublishForeign
  <2>2. QED
    BY <2>1, ProducerForeign, ConsumerAppend
<1>4. CASE UNCHANGED pipeline
  BY <1>4, ProducerUntouched, ConsumerUntouched DEF pipeline, vars
<1>5. QED
  BY <1>1, <1>2, <1>3, <1>4 DEF PipelineNext

\* The invariant holds in every state of the pipeline.
THEOREM PipelineInvariant == PipelineSpec => []IInv
<1> DEFINE Both == Producer /\ Consumer
<1>1. PipelineInit => Both
  BY PipelineStarts
<1>2. Both /\ [PipelineNext]_pipeline => Both'
  BY PipelineSteps
<1>3. Both => IInv
  BY Parts
<1> HIDE DEF Both
<1>4. QED
  BY <1>1, <1>2, <1>3, PTL DEF PipelineSpec

\* Usage is conserved (drain, append, trim, run_cycle): no recorded unit vanishes
\* between the counters, the retry buffer, the log file and the partition, copies
\* are copies of one event, an event has one owner, and the forwarder passes over
\* only what a failed cycle dropped.
THEOREM UsageIsConserved == PipelineSpec => []UsageConserved
<1>1. IInv => UsageConserved
  BY DEF IInv, ProducerInv, ConsumerInv, PositionInv, UsageConserved, OnlyDroppedPassedOver,
     F!OnlyDroppedPassedOver
<1>2. QED
  BY <1>1, PipelineInvariant, PTL

-----------------------------------------------------------------------------
(* The pipeline implements UsageBilling.                                   *)

bill == <<recorded, billed, lost>>

\* A step that gives units up.
LEMMA Losing ==
    ASSUME BooksKept, BilledInv, BooksKept', UNCHANGED <<recorded, billed>>,
           lost \subseteq lost', UNCHANGED Landed
    PROVE  B!Lose(lost' \ lost)
<1>1. UNION billed \subseteq UnitsOf(Landed)
  BY DEF BilledInv, UnitsOf
<1>2. lost' \subseteq recorded' /\ lost' \cap UnitsOf(Landed') = {}
  BY DEF BooksKept, Books, UnitsOf
<1>3. QED
  BY <1>1, <1>2 DEF B!Lose, B!Invoiced

\* A step that hands landed events to the provider.
LEMMA Invoicing ==
    ASSUME BooksKept, BilledInv, UNCHANGED <<recorded, lost>>,
           billed \subseteq billed', billed' \subseteq Landed
    PROVE  B!Invoice(billed' \ billed)
<1>1. ASSUME NEW e \in billed' \ billed
      PROVE  e \subseteq recorded \ (B!Invoiced \cup lost)
  <2>1. e \subseteq UnitsOf(Landed) /\ UnitsOf(Landed) \subseteq recorded
        /\ UnitsOf(Landed) \cap lost = {}
    BY <1>1 DEF BooksKept, Books, UnitsOf
  <2>2. \A f \in billed : e \cap f = {}
    BY <1>1 DEF BooksKept, Books, BilledInv
  <2>3. ASSUME NEW x \in e PROVE x \in recorded /\ x \notin lost /\ x \notin B!Invoiced
    BY <2>1, <2>2, <2>3 DEF B!Invoiced
  <2>4. QED
    BY <2>3
<1>2. \A e, f \in billed' \ billed : e # f => e \cap f = {}
  BY DEF BooksKept, Books
<1>3. billed' = billed \cup (billed' \ billed)
  OBVIOUS
<1>4. QED
  BY <1>1, <1>2, <1>3 DEF B!Invoice

\* A step of the producer records a unit, gives units up or leaves the books alone.
LEMMA ProducerBills ==
    ASSUME Producer, Producer', BilledInv, Next, UNCHANGED consumer
    PROVE  [B!Next]_bill
<1>0. UNCHANGED billed
  BY DEF consumer
<1>1. CASE \E u \in Units : Record(u) \/ Enqueue(u)
  <2>1. PICK u \in Units : Record(u) \/ Enqueue(u)
    BY <1>1
  <2>2. u \in Units \ recorded /\ recorded' = recorded \cup {u} /\ UNCHANGED lost
    BY <2>1 DEF Record, Enqueue
  <2>3. QED
    BY <1>0, <2>2 DEF B!Next, B!Record
<1>2. CASE BeginCycle \/ AppendFails \/ Crash
  <2>1. lost \subseteq lost' /\ UNCHANGED <<recorded, log>>
    BY <1>2 DEF BeginCycle, AppendFails, Crash
  <2>2. UNCHANGED Landed
    BY <2>1 DEF Landed
  <2>3. B!Lose(lost' \ lost)
    BY <1>0, <2>1, <2>2, Losing DEF Producer
  <2>4. QED
    BY <2>3 DEF B!Next
<1>3. CASE Send \/ Land \/ Acknowledge \/ ReadFails \/ TrimFails
  BY <1>0, <1>3 DEF Send, Land, Acknowledge, ReadFails, TrimFails, bill
<1>4. CASE \E stalled \in BOOLEAN : PublishFails(stalled)
  BY <1>0, <1>4 DEF PublishFails, bill
<1>5. CASE \E e \in abandoned : LandLate(e) \/ GiveUp(e)
  BY <1>0, <1>5 DEF LandLate, GiveUp, bill
<1>6. QED
  BY <1>1, <1>2, <1>3, <1>4, <1>5 DEF Next, Work

\* A step of the forwarder invoices events that landed and were not invoiced yet.
LEMMA ForwarderBills ==
    ASSUME Producer, Consumer, Consumer', F!Forward \/ F!Failure, UNCHANGED outbox
    PROVE  [B!Next]_bill
<1>1. UNCHANGED <<recorded, lost, log>> /\ UNCHANGED Landed
  BY ForwarderKeepsLog DEF outbox, Landed
<1>2. billed \subseteq billed'
  BY DEF F!Forward, F!Failure, F!Poll, F!Rejoin, F!Sort, F!Ingest, F!Commit, F!CommitFails,
     F!SortFails, F!Reject, F!IngestFails, F!Evict, F!Restart
<1>3. B!Invoice(billed' \ billed)
  BY <1>1, <1>2, Invoicing DEF Producer, Consumer, BilledInv
<1>4. QED
  BY <1>3 DEF B!Next

\* Through replays, late publishes, crashes of either side, evictions and failures
\* of the provider the pipeline implements UsageBilling: no unit is invoiced twice
\* or unrecorded, and none after it was given up (record, publish, ingest).
THEOREM BillsAtMostOnce == PipelineSpec => BilledAtMostOnce
<1> DEFINE Both == Producer /\ Consumer
<1>1. PipelineInit => Both /\ B!Init
  BY PipelineStarts DEF PipelineInit, Init, F!Init, B!Init
<1>2. Both /\ [PipelineNext]_pipeline => Both' /\ [B!Next]_bill
  <2> SUFFICES ASSUME Producer, Consumer, [PipelineNext]_pipeline PROVE Both' /\ [B!Next]_bill
    OBVIOUS
  <2>1. Producer' /\ Consumer'
    BY PipelineSteps
  <2>2. CASE Next /\ UNCHANGED consumer
    BY <2>1, <2>2, ProducerBills DEF Consumer
  <2>3. CASE (F!Forward \/ F!Failure) /\ UNCHANGED outbox
    BY <2>1, <2>3, ForwarderBills
  <2>4. CASE \E e \in Foreign : PublishForeign(e)
    BY <2>1, <2>4 DEF PublishForeign, outbox, consumer, bill
  <2>5. CASE UNCHANGED pipeline
    BY <2>1, <2>5 DEF pipeline, vars, outbox, consumer, bill
  <2>6. [B!Next]_bill
    BY <2>2, <2>3, <2>4, <2>5 DEF PipelineNext
  <2>7. QED
    BY <2>1, <2>6
<1> HIDE DEF Both
<1>3. QED
  BY <1>1, <1>2, PTL DEF PipelineSpec, BilledAtMostOnce, B!Spec, bill

=============================================================================
