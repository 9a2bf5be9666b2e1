---------------------- MODULE IdempotentDispatchProofs ----------------------
(***************************************************************************)
(* Proofs about IdempotentDispatch, for any requests, callers, keys and    *)
(* inputs, any lifetimes of entries and locks and any cap of live keys.    *)
(***************************************************************************)
EXTENDS IdempotentDispatch, FiniteSetTheorems, TLAPS

-----------------------------------------------------------------------------
(* The inductive invariant.                                                *)

Places == Holding \cup Answers \cup {"new", "absent", "waiting", "gone", "never"}

RequestState ==
    [at : Places, resp : Response \cup {Null}, time : Nat, pooled : BOOLEAN, resent : BOOLEAN,
     ran : 0..2]

Entry == [resp : Response, ttl : 1..proc.entry_ttl]

Shape ==
    /\ proc \in Procedures
    /\ entries \in [Slots -> Entry \cup {Null}]
    /\ locks \in [Slots -> 0..proc.lock_ttl]
    /\ fifo \in Seq(Slots)
    /\ req \in [Requests -> RequestState]
    /\ storeFaults \in 0..proc.store_faults /\ left \subseteq Requests

\* A replayed response was made for a request of the same caller, key and input.
Replayable(resp, r) ==
    /\ resp \in Response /\ Storable(resp)
    /\ proc.principal[resp.for] = proc.principal[r] /\ proc.key[resp.for] = proc.key[r]
    /\ proc.body[resp.for] = proc.body[r]

\* What a request in state x has been through: only keyed requests get past the
\* refusals, a response is the request's own, a request is sent once more at
\* most and then on a fresh connection.
Sound(x, r) ==
    /\ x.at # "never" => r \in proc.calls
    /\ x.at \in Holding \cup {"absent", "waiting"} => r \in Keyed
    /\ x.at \in {"replied", "release"} => x.resp \in Response /\ x.resp.for = r
    /\ x.at \in {"forward", "writing", "sent", "body"} => x.ran <= IF x.resent THEN 1 ELSE 0
    /\ x.at \in {"writing", "sent"} /\ x.resent => ~x.pooled
    /\ x.at = "hit" => Replayable(x.resp, r)

RequestsInv == \A r \in Requests : Sound(req[r], r)

\* A stored entry is a definitive outcome of a request of its key.
EntriesInv ==
    \A k \in Slots : entries[k] # Null =>
        /\ Storable(entries[k].resp)
        /\ entries[k].resp.for \in Keyed /\ entry_key(entries[k].resp.for) = k

\* The request a response was made for was answered with it, or is about to be,
\* or its task was dropped.
AnsweredWith(resp) ==
    LET of == req[resp.for]
    IN of.at = "gone" \/ (of.at \in {"release", "own"} /\ of.resp = resp)

\* Every response in the store, and every replayed one, is an answer its own
\* request was given.
GivenInv ==
    /\ \A k \in Slots : entries[k] # Null => AnsweredWith(entries[k].resp)
    /\ \A r \in Requests : req[r].at = "hit" => AnsweredWith(req[r].resp)

\* The eviction queue is within the cap and knows every live key.
QueueInv ==
    /\ Len(fifo) <= proc.max_live
    /\ \A k \in Slots : entries[k] # Null => \E i \in DOMAIN fifo : fifo[i] = k

\* While no dispatch outlives its lock, the lock of a request in flight has at
\* least the rest of its time left.
HoldInv ==
    proc.max_hold < proc.lock_ttl /\ ~proc.stalls =>
        \A r \in Requests : req[r].at \in Holding =>
            req[r].time <= proc.max_hold /\ locks[entry_key(r)] + req[r].time >= proc.lock_ttl

IInv ==
    Shape /\ RequestsInv /\ EntriesInv /\ GivenInv /\ QueueInv /\ LocksHeld /\ HoldInv /\ OneInFlight

-----------------------------------------------------------------------------
(* Lemmas.                                                                 *)

\* The numbers of a procedure.
LEMMA Numbers ==
    ASSUME proc \in Procedures
    PROVE  /\ proc.calls \subseteq Requests /\ proc.open \in BOOLEAN /\ proc.stalls \in BOOLEAN
           /\ proc.entry_ttl \in Nat \ {0} /\ proc.lock_ttl \in Nat \ {0}
           /\ proc.max_live \in Nat \ {0} /\ proc.inflight_wait \in Nat
           /\ proc.max_hold \in Nat /\ proc.store_faults \in Nat /\ proc.vanish \in Nat
  BY DispatchAssumption DEF Procedure

\* A keyed request has a slot in the store.
LEMMA KeyedSlot == ASSUME NEW r \in Keyed PROVE entry_key(r) \in Slots /\ r \in proc.calls
  BY DEF Slots, Keyed

\* The store's parameters do not change.
LEMMA SameProcedure ==
    ASSUME UNCHANGED proc
    PROVE  /\ Slots' = Slots /\ Keyed' = Keyed /\ Entry' = Entry
           /\ \A r : entry_key(r)' = entry_key(r)
           /\ \A x, r : Sound(x, r)' <=> Sound(x, r)
  BY DEF Slots, Keyed, Entry, entry_key, Sound, Replayable, Storable

\* One request moves to a sound state; the others stay as they are.
LEMMA Moved ==
    ASSUME Shape, RequestsInv, UNCHANGED proc,
           NEW r \in Requests, NEW to \in RequestState, Sound(to, r), Move(r, to)
    PROVE  /\ req' \in [Requests -> RequestState]
           /\ RequestsInv'
           /\ req'[r] = to
           /\ \A s \in Requests \ {r} : req'[s] = req[s]
<1>1. /\ req' \in [Requests -> RequestState] /\ req'[r] = to
      /\ \A s \in Requests \ {r} : req'[s] = req[s]
  BY DEF Shape, Move
<1>2. \A s \in Requests : Sound(req'[s], s)
  BY <1>1 DEF RequestsInv
<1>3. RequestsInv'
  BY <1>2, SameProcedure DEF RequestsInv
<1>4. QED
  BY <1>1, <1>3

\* A request that was answered, or is about to be, keeps its answer unless its
\* task is dropped; so what is in the store and what was replayed stays given.
LEMMA GivenKept ==
    ASSUME Shape, RequestsInv, GivenInv, UNCHANGED proc,
           \A s \in Requests : req[s].at \in {"release", "own", "gone"} =>
               \/ req'[s].at = "gone"
               \/ req[s].at # "gone" /\ req'[s].at \in {"release", "own"} /\ req'[s].resp = req[s].resp,
           \A k \in Slots : entries'[k] # Null =>
               \/ AnsweredWith(entries[k].resp)'
               \/ entries[k] # Null /\ entries'[k].resp = entries[k].resp,
           \A s \in Requests : req'[s].at = "hit" =>
               \/ AnsweredWith(req[s].resp)'
               \/ AnsweredWith(req'[s].resp) /\ req'[s].resp \in Response
    PROVE  GivenInv'
<1> DEFINE Given(resp) ==
        \/ req'[resp.for].at = "gone"
        \/ req'[resp.for].at \in {"release", "own"} /\ req'[resp.for].resp = resp
<1>1. ASSUME NEW resp \in Response, AnsweredWith(resp) PROVE Given(resp)
  <2>1. resp.for \in Requests
    BY DEF Response
  <2>2. QED
    BY <1>1, <2>1 DEF AnsweredWith
<1>2. \A k \in Slots : entries'[k] # Null => Given(entries'[k].resp)
  <2>1. ASSUME NEW k \in Slots, entries[k] # Null
        PROVE  entries[k].resp \in Response /\ AnsweredWith(entries[k].resp)
    BY <2>1 DEF Shape, Entry, GivenInv
  <2>2. \A k \in Slots : AnsweredWith(entries[k].resp)' => Given(entries'[k].resp)
    BY DEF AnsweredWith
  <2> HIDE DEF Given
  <2>3. QED
    BY <1>1, <2>1, <2>2
<1>3. \A s \in Requests : req'[s].at = "hit" => Given(req'[s].resp)
  <2>1. \A s \in Requests : AnsweredWith(req[s].resp)' => Given(req'[s].resp)
    BY DEF AnsweredWith
  <2> HIDE DEF Given
  <2>2. QED
    BY <1>1, <2>1
<1>4. QED
  BY <1>2, <1>3, SameProcedure DEF GivenInv, AnsweredWith

\* A request that is not in flight moves on without touching the store.
LEMMA MovesOutside ==
    ASSUME IInv, UNCHANGED <<proc, entries, locks, fifo, left>>,
           storeFaults' \in 0..proc.store_faults,
           NEW r \in Requests, NEW to \in RequestState, Sound(to, r), Move(r, to),
           req[r].at \in {"new", "absent", "waiting"}, to.at \notin Holding,
           to.at = "hit" => AnsweredWith(to.resp)
    PROVE  IInv'
<1>1. /\ req' \in [Requests -> RequestState] /\ RequestsInv' /\ req'[r] = to
      /\ \A s \in Requests \ {r} : req'[s] = req[s]
  BY Moved DEF IInv
<1>2. Shape'
  BY <1>1, SameProcedure DEF IInv, Shape
<1>3. (EntriesInv /\ QueueInv)'
  BY SameProcedure DEF IInv, EntriesInv, QueueInv, Storable
<1>4. Keyed \subseteq Requests
  BY Numbers DEF IInv, Shape, Keyed
<1>5. LocksHeld'
  BY <1>1, <1>4, SameProcedure DEF IInv, LocksHeld, Holding
<1>6. HoldInv'
  BY <1>1, SameProcedure DEF IInv, HoldInv
<1>7. OneInFlight'
  BY <1>1, <1>4, SameProcedure DEF IInv, OneInFlight
<1>8. GivenInv'
  <2>1. \A s \in Requests : req[s].at \in {"release", "own", "gone"} => req'[s] = req[s]
    BY <1>1
  <2>2. \A s \in Requests : req'[s].at = "hit" => AnsweredWith(req'[s].resp) /\ req'[s].resp \in Response
    BY <1>1 DEF IInv, GivenInv, RequestsInv, Sound, Replayable
  <2>3. QED
    BY <2>1, <2>2, GivenKept DEF IInv
<1>9. QED
  BY <1>1, <1>2, <1>3, <1>5, <1>6, <1>7, <1>8 DEF IInv

\* A request in flight moves on within its time: who holds which lock stays.
LEMMA FlightKept ==
    ASSUME IInv, UNCHANGED <<proc, locks, left>>,
           NEW r \in Requests, NEW to \in RequestState, Sound(to, r), Move(r, to),
           req[r].at \in Holding \ {"release"}, to.at \in Holding, to.time = req[r].time
    PROVE  /\ req' \in [Requests -> RequestState] /\ (RequestsInv /\ LocksHeld /\ HoldInv /\ OneInFlight)'
           /\ req'[r] = to
           /\ \A s \in Requests \ {r} : req'[s] = req[s]
<1>1. /\ req' \in [Requests -> RequestState] /\ RequestsInv' /\ req'[r] = to
      /\ \A s \in Requests \ {r} : req'[s] = req[s]
  BY Moved DEF IInv
<1>2. \A s \in Requests : /\ req'[s].at \in Holding <=> req[s].at \in Holding
                          /\ req'[s].at \in Holding => req'[s].time = req[s].time
  BY <1>1
<1>3. Keyed \subseteq Requests
  BY Numbers DEF IInv, Shape, Keyed
<1>4. LocksHeld'
  BY <1>2, <1>3, SameProcedure DEF IInv, LocksHeld
<1>5. HoldInv'
  BY <1>2, SameProcedure DEF IInv, HoldInv
<1>6. OneInFlight'
  BY <1>2, <1>3, SameProcedure DEF IInv, OneInFlight
<1>7. QED
  BY <1>1, <1>4, <1>5, <1>6

\* A request in flight moves on within its time without touching the store.
LEMMA MovesInside ==
    ASSUME IInv, UNCHANGED <<proc, entries, locks, fifo, left>>,
           storeFaults' \in 0..proc.store_faults,
           NEW r \in Requests, NEW to \in RequestState, Sound(to, r), Move(r, to),
           req[r].at \in Holding \ {"release"}, to.at \in Holding, to.time = req[r].time
    PROVE  IInv'
<1>1. /\ req' \in [Requests -> RequestState] /\ (RequestsInv /\ LocksHeld /\ HoldInv /\ OneInFlight)'
      /\ req'[r] = to /\ \A s \in Requests \ {r} : req'[s] = req[s]
  BY FlightKept
<1>2. Shape'
  BY <1>1, SameProcedure DEF IInv, Shape
<1>3. (EntriesInv /\ QueueInv)'
  BY SameProcedure DEF IInv, EntriesInv, QueueInv, Storable
<1>4. GivenInv'
  <2>1. \A s \in Requests : req[s].at \in {"release", "own", "gone"} => req'[s] = req[s]
    BY <1>1 DEF Holding
  <2>2. \A s \in Requests : req'[s].at = "hit" => AnsweredWith(req'[s].resp) /\ req'[s].resp \in Response
    BY <1>1 DEF IInv, GivenInv, RequestsInv, Sound, Replayable, Holding
  <2>3. QED
    BY <2>1, <2>2, GivenKept DEF IInv
<1>5. QED
  BY <1>1, <1>2, <1>3, <1>4 DEF IInv

-----------------------------------------------------------------------------
(* The steps.                                                              *)

\* A request in a plain place, with nothing of its own.
LEMMA AtState ==
    ASSUME NEW place \in Places
    PROVE  /\ At(place) \in RequestState /\ At(place).at = place /\ At(place).time = 0
           /\ At(place).ran = 0 /\ At(place).resent = FALSE
  BY DEF At, RequestState

\* The state a request is answered in.
LEMMA Answered ==
    ASSUME NEW how \in Answers, NEW resp \in Response \cup {Null}
    PROVE  /\ [At(how) EXCEPT !.resp = resp] \in RequestState
           /\ [At(how) EXCEPT !.resp = resp].at = how
           /\ [At(how) EXCEPT !.resp = resp].resp = resp
<1>1. how \in Places
  BY DEF Places
<1>2. At(how) \in RequestState /\ At(how).at = how
  BY <1>1, AtState
<1>3. QED
  BY <1>1, <1>2 DEF RequestState

\* Any answer but a stored one is sound for a request that arrived.
LEMMA AnswerStep ==
    ASSUME IInv, UNCHANGED <<proc, entries, locks, fifo, left>>,
           storeFaults' \in 0..proc.store_faults,
           NEW r \in Requests, req[r].at \in {"new", "absent", "waiting"},
           NEW how \in Answers, NEW resp \in Response \cup {Null}, Answer(r, how, resp),
           how = "hit" => Replayable(resp, r) /\ AnsweredWith(resp)
    PROVE  IInv'
<1> DEFINE to == [At(how) EXCEPT !.resp = resp]
<1>1. to \in RequestState /\ to.at = how /\ to.resp = resp
  BY Answered
<1>2. Move(r, to)
  BY DEF Answer
<1> HIDE DEF to
<1>3. r \in proc.calls
  BY DEF IInv, RequestsInv, Sound
<1>4. Sound(to, r)
  BY <1>1, <1>3 DEF Sound, Answers, Holding
<1>5. to.at \notin Holding /\ (to.at = "hit" => AnsweredWith(to.resp))
  BY <1>1 DEF Answers, Holding
<1>6. QED
  BY <1>1, <1>2, <1>4, <1>5, MovesOutside

\* A stored entry answers (pre_dispatch, wait_for_entry).
LEMMA ReplayStep ==
    ASSUME IInv, UNCHANGED <<proc, entries, locks, fifo, left, storeFaults>>,
           NEW r \in Keyed, req[r].at \in {"new", "absent", "waiting"},
           entries[entry_key(r)] # Null, Replay(r)
    PROVE  IInv'
<1> DEFINE stored == entries[entry_key(r)]
<1>1. entry_key(r) \in Slots /\ r \in Requests /\ storeFaults' \in 0..proc.store_faults
  BY KeyedSlot, Numbers DEF IInv, Shape
<1>2. stored \in Entry /\ stored.resp \in Response
  BY <1>1 DEF IInv, Shape, Entry
<1>3. Storable(stored.resp) /\ entry_key(stored.resp.for) = entry_key(r) /\ AnsweredWith(stored.resp)
  BY <1>1 DEF IInv, EntriesInv, GivenInv
<1>4. proc.principal[stored.resp.for] = proc.principal[r] /\ proc.key[stored.resp.for] = proc.key[r]
  BY <1>3 DEF entry_key
<1>5. CASE proc.body[stored.resp.for] = proc.body[r]
  <2>1. /\ Answer(r, "hit", stored.resp) /\ Replayable(stored.resp, r) /\ AnsweredWith(stored.resp)
        /\ "hit" \in Answers
    BY <1>2, <1>3, <1>4, <1>5 DEF Replay, Replayable, Answers
  <2>2. QED
    BY <1>1, <1>2, <1>3, <2>1, AnswerStep
<1>6. CASE proc.body[stored.resp.for] # proc.body[r]
  <2>1. Answer(r, "conflict", Null) /\ "conflict" \in Answers
    BY <1>6 DEF Replay, Answers
  <2>2. QED
    BY <1>1, <2>1, AnswerStep
<1>7. QED
  BY <1>5, <1>6

\* A refusal answers the request and touches nothing else
\* (handle_idempotency_pre_dispatch).
LEMMA RefuseStep ==
    ASSUME IInv, NEW r \in Requests, Refuse(r)
    PROVE  IInv'
<1>1. /\ UNCHANGED <<proc, entries, locks, fifo, left>> /\ storeFaults' \in 0..proc.store_faults
      /\ req[r].at = "new" /\ Answer(r, "refused", Null) /\ "refused" \in Answers
  BY DEF Refuse, store, faults, Answers, IInv, Shape
<1>2. QED
  BY <1>1, AnswerStep

\* The first read answers from the store or finds nothing (pre_dispatch).
LEMMA GetEntryStep ==
    ASSUME IInv, NEW r \in Requests, GetEntry(r)
    PROVE  IInv'
<1>1. /\ UNCHANGED <<proc, entries, locks, fifo, left, storeFaults>>
      /\ req[r].at = "new" /\ ~Inadmissible(r)
  BY DEF GetEntry, store, faults
<1>2. r \in Keyed
  BY <1>1 DEF Inadmissible, Keyed, IInv, RequestsInv, Sound
<1>3. CASE entries[entry_key(r)] # Null
  BY <1>1, <1>2, <1>3, ReplayStep DEF GetEntry
<1>4. CASE entries[entry_key(r)] = Null
  <2>1. Move(r, At("absent"))
    BY <1>4 DEF GetEntry
  <2>2. At("absent") \in RequestState /\ At("absent").at = "absent"
    BY AtState DEF Places
  <2>3. Sound(At("absent"), r)
    BY <1>2, <2>2, KeyedSlot DEF Sound
  <2>4. storeFaults' \in 0..proc.store_faults /\ "absent" \notin Holding
    BY <1>1 DEF IInv, Shape, Holding
  <2>5. QED
    BY <1>1, <2>1, <2>2, <2>3, <2>4, MovesOutside
<1>5. QED
  BY <1>3, <1>4

\* A round of the wait answers from the store or gives up at its deadline
\* (wait_for_entry).
LEMMA PollStep ==
    ASSUME IInv, NEW r \in Requests, Poll(r)
    PROVE  IInv'
<1>1. /\ UNCHANGED <<proc, entries, locks, fifo, left, storeFaults>>
      /\ req[r].at = "waiting"
  BY DEF Poll, store, faults
<1>2. r \in Keyed
  BY <1>1 DEF IInv, RequestsInv, Sound
<1>3. CASE entries[entry_key(r)] # Null
  BY <1>1, <1>2, <1>3, ReplayStep DEF Poll
<1>4. CASE Answer(r, "aborted", Null)
  <2>1. storeFaults' \in 0..proc.store_faults /\ "aborted" \in Answers
    BY <1>1 DEF IInv, Shape, Answers
  <2>2. QED
    BY <1>1, <1>4, <2>1, AnswerStep
<1>5. QED
  BY <1>3, <1>4 DEF Poll

\* A store error before the call fails closed and leaves the store as it was.
LEMMA PreDispatchFailsStep ==
    ASSUME IInv, NEW r \in Requests, PreDispatchFails(r)
    PROVE  IInv'
<1>1. /\ UNCHANGED <<proc, entries, locks, fifo, left>>
      /\ req[r].at \in {"new", "absent", "waiting"}
      /\ Answer(r, "unavailable", Null) /\ "unavailable" \in Answers
  BY DEF PreDispatchFails, StoreFails, store, Answers
<1>2. storeFaults' \in 0..proc.store_faults
  BY Numbers DEF PreDispatchFails, StoreFails, IInv, Shape
<1>3. QED
  BY <1>1, <1>2, AnswerStep

\* The lock is taken only when it is free, so nobody else of the key is in
\* flight (try_acquire_lock).
LEMMA TryAcquireLockStep ==
    ASSUME IInv, NEW r \in Requests, TryAcquireLock(r)
    PROVE  IInv'
<1>1. /\ UNCHANGED <<proc, entries, fifo, left, storeFaults>>
      /\ req[r].at = "absent"
  BY DEF TryAcquireLock, faults
<1>2. r \in Keyed /\ entry_key(r) \in Slots /\ Keyed \subseteq Requests
  BY <1>1, KeyedSlot, Numbers DEF IInv, Shape, RequestsInv, Sound, Keyed
<1>3. CASE locks[entry_key(r)] # 0
  <2>1. Move(r, At("waiting")) /\ UNCHANGED locks
    BY <1>3 DEF TryAcquireLock
  <2>2. At("waiting") \in RequestState /\ At("waiting").at = "waiting"
    BY AtState DEF Places
  <2>3. Sound(At("waiting"), r)
    BY <1>2, <2>2, KeyedSlot DEF Sound
  <2>4. storeFaults' \in 0..proc.store_faults /\ "waiting" \notin Holding
    BY <1>1 DEF IInv, Shape, Holding
  <2>5. QED
    BY <1>1, <2>1, <2>2, <2>3, <2>4, MovesOutside
<1>4. CASE locks[entry_key(r)] = 0
  <2> DEFINE k == entry_key(r)
  <2>1. locks' = [locks EXCEPT ![k] = proc.lock_ttl] /\ Move(r, At("forward"))
    BY <1>4 DEF TryAcquireLock
  <2>2. /\ At("forward") \in RequestState /\ At("forward").at = "forward"
        /\ At("forward").time = 0 /\ At("forward").ran = 0 /\ At("forward").resent = FALSE
        /\ "forward" \in Holding
    BY AtState DEF Places, Holding
  <2>3. Sound(At("forward"), r)
    BY <1>2, <2>2, KeyedSlot DEF Sound
  <2>4. /\ req' \in [Requests -> RequestState] /\ RequestsInv' /\ req'[r] = At("forward")
        /\ \A s \in Requests \ {r} : req'[s] = req[s]
    BY <1>1, <2>1, <2>2, <2>3, Moved DEF IInv
  <2>5. /\ locks \in [Slots -> 0..proc.lock_ttl] /\ proc.lock_ttl \in Nat \ {0}
        /\ proc.max_hold \in Nat
    BY Numbers DEF IInv, Shape
  <2>6. /\ locks' \in [Slots -> 0..proc.lock_ttl] /\ locks'[k] = proc.lock_ttl
        /\ \A l \in Slots \ {k} : locks'[l] = locks[l]
    BY <1>2, <2>1, <2>5
  <2>7. Shape'
    BY <1>1, <2>4, <2>6, SameProcedure DEF IInv, Shape
  <2>8. (EntriesInv /\ QueueInv)'
    BY <1>1, SameProcedure DEF IInv, EntriesInv, QueueInv, Storable
  <2>9. LocksHeld'
    BY <1>1, <1>2, <2>2, <2>4, <2>6, SameProcedure DEF IInv, LocksHeld
  <2>10. ASSUME proc.max_hold < proc.lock_ttl, ~proc.stalls, NEW s \in Requests, req[s].at \in Holding
         PROVE  entry_key(s) # k /\ s \in Keyed /\ entry_key(s) \in Slots
    <3>1. /\ s \in Keyed /\ req[s].time \in Nat /\ req[s].time <= proc.max_hold
          /\ locks[entry_key(s)] + req[s].time >= proc.lock_ttl
      BY <2>10 DEF IInv, Shape, RequestState, RequestsInv, Sound, HoldInv
    <3>2. QED
      BY <1>4, <2>5, <2>10, <3>1, KeyedSlot
  <2>11. HoldInv'
    BY <1>1, <1>2, <2>2, <2>4, <2>5, <2>6, <2>10, SameProcedure DEF IInv, HoldInv
  <2>12. OneInFlight'
    BY <1>1, <1>2, <2>4, <2>10, SameProcedure DEF IInv, OneInFlight
  <2>13. GivenInv'
    <3>1. \A s \in Requests : req[s].at \in {"release", "own", "gone"} => req'[s] = req[s]
      BY <1>1, <2>4
    <3>2. \A s \in Requests : req'[s].at = "hit" => AnsweredWith(req'[s].resp) /\ req'[s].resp \in Response
      BY <2>2, <2>4 DEF IInv, GivenInv, RequestsInv, Sound, Replayable, Holding
    <3>3. QED
      BY <1>1, <3>1, <3>2, GivenKept DEF IInv
  <2>14. QED
    BY <2>4, <2>7, <2>8, <2>9, <2>11, <2>12, <2>13 DEF IInv
<1>5. QED
  BY <1>3, <1>4

-----------------------------------------------------------------------------
(* The worker call.                                                        *)

\* What is known of a request that is being forwarded or was sent.
LEMMA InFlight ==
    ASSUME IInv, NEW r \in Requests, req[r].at \in {"forward", "writing", "sent", "body"}
    PROVE  /\ req[r] \in RequestState /\ Sound(req[r], r) /\ req[r].at \in Holding \ {"release"}
           /\ r \in Keyed /\ r \in proc.calls
           /\ req[r].ran <= IF req[r].resent THEN 1 ELSE 0
<1>1. req[r] \in RequestState /\ Sound(req[r], r) /\ req[r].at \in Holding \ {"release"}
  BY DEF IInv, Shape, RequestsInv, Holding
<1>2. QED
  BY <1>1 DEF Sound, Keyed

\* A response for the request itself ends the call.
LEMMA RepliedStep ==
    ASSUME IInv, UNCHANGED <<proc, entries, locks, fifo, left, storeFaults>>,
           NEW r \in Requests, req[r].at \in {"forward", "writing", "sent", "body"},
           NEW resp \in Response, resp.for = r, NEW did \in BOOLEAN, Replied(r, resp, did)
    PROVE  IInv'
<1> DEFINE to == [At("replied") EXCEPT !.resp = resp, !.time = req[r].time, !.ran = Runs(r, did)]
<1>1. /\ req[r] \in RequestState /\ req[r].at \in Holding \ {"release"} /\ r \in Keyed /\ r \in proc.calls
      /\ req[r].ran <= IF req[r].resent THEN 1 ELSE 0
  BY InFlight
<1>2. Runs(r, did) \in 0..2 /\ req[r].time \in Nat
  BY <1>1 DEF Runs, RequestState
<1>3. "replied" \in Places /\ "replied" \in Holding
  BY DEF Places, Holding
<1>4. At("replied") \in RequestState /\ At("replied").at = "replied"
  BY <1>3, AtState
<1>5. to \in RequestState /\ to.at = "replied" /\ to.resp = resp /\ to.time = req[r].time
  BY <1>2, <1>4 DEF RequestState
<1>6. Move(r, to)
  BY DEF Replied
<1> HIDE DEF to
<1>7. Sound(to, r)
  BY <1>1, <1>5 DEF Sound
<1>8. storeFaults' \in 0..proc.store_faults
  BY DEF IInv, Shape
<1>9. QED
  BY <1>1, <1>3, <1>5, <1>6, <1>7, <1>8, MovesInside

\* A request already sent once more goes out on a fresh connection
\* (forward_to_worker_path).
LEMMA SendStep ==
    ASSUME IInv, NEW r \in Requests, NEW pooled \in BOOLEAN, Send(r, pooled)
    PROVE  IInv'
<1> DEFINE to == [req[r] EXCEPT !.at = "writing", !.pooled = pooled]
<1>1. /\ UNCHANGED <<proc, entries, locks, fifo, left, storeFaults>>
      /\ req[r].at = "forward" /\ (req[r].resent => ~pooled) /\ Move(r, to)
  BY DEF Send, store, faults
<1>2. /\ req[r] \in RequestState /\ req[r].at \in Holding \ {"release"} /\ r \in Keyed /\ r \in proc.calls
      /\ req[r].ran <= IF req[r].resent THEN 1 ELSE 0
  BY <1>1, InFlight
<1>3. "writing" \in Places /\ "writing" \in Holding
  BY DEF Places, Holding
<1>4. /\ to \in RequestState /\ to.at = "writing" /\ to.pooled = pooled /\ to.time = req[r].time
      /\ to.ran = req[r].ran /\ to.resent = req[r].resent
  BY <1>2, <1>3 DEF RequestState
<1> HIDE DEF to
<1>5. Sound(to, r)
  BY <1>1, <1>2, <1>4 DEF Sound
<1>6. storeFaults' \in 0..proc.store_faults
  BY <1>1 DEF IInv, Shape
<1>7. QED
  BY <1>1, <1>2, <1>3, <1>4, <1>5, <1>6, MovesInside

\* A request on the wire is the one that was written.
LEMMA WrittenStep ==
    ASSUME IInv, NEW r \in Requests, Written(r)
    PROVE  IInv'
<1> DEFINE to == [req[r] EXCEPT !.at = "sent"]
<1>1. /\ UNCHANGED <<proc, entries, locks, fifo, left, storeFaults>>
      /\ req[r].at = "writing" /\ Move(r, to)
  BY DEF Written, store, faults
<1>2. /\ req[r] \in RequestState /\ req[r].at \in Holding \ {"release"} /\ r \in Keyed /\ r \in proc.calls
      /\ req[r].ran <= IF req[r].resent THEN 1 ELSE 0
      /\ Sound(req[r], r)
  BY <1>1, InFlight
<1>3. "sent" \in Places /\ "sent" \in Holding
  BY DEF Places, Holding
<1>4. /\ to \in RequestState /\ to.at = "sent" /\ to.pooled = req[r].pooled /\ to.time = req[r].time
      /\ to.ran = req[r].ran /\ to.resent = req[r].resent
  BY <1>2, <1>3 DEF RequestState
<1> HIDE DEF to
<1>5. Sound(to, r)
  BY <1>1, <1>2, <1>4 DEF Sound
<1>6. storeFaults' \in 0..proc.store_faults
  BY <1>1 DEF IInv, Shape
<1>7. QED
  BY <1>1, <1>2, <1>3, <1>4, <1>5, <1>6, MovesInside

\* The headers of a chunked response leave the request with its lock.
LEMMA StreamsStep ==
    ASSUME IInv, NEW r \in Requests, Streams(r)
    PROVE  IInv'
<1> DEFINE to == [req[r] EXCEPT !.at = "body"]
<1>1. /\ UNCHANGED <<proc, entries, locks, fifo, left, storeFaults>>
      /\ req[r].at = "sent" /\ Move(r, to)
  BY DEF Streams, store, faults
<1>2. /\ req[r] \in RequestState /\ req[r].at \in Holding \ {"release"} /\ r \in Keyed /\ r \in proc.calls
      /\ req[r].ran <= IF req[r].resent THEN 1 ELSE 0
      /\ Sound(req[r], r)
  BY <1>1, InFlight
<1>3. "body" \in Places /\ "body" \in Holding
  BY DEF Places, Holding
<1>4. /\ to \in RequestState /\ to.at = "body" /\ to.pooled = req[r].pooled /\ to.time = req[r].time
      /\ to.ran = req[r].ran /\ to.resent = req[r].resent
  BY <1>2, <1>3 DEF RequestState
<1> HIDE DEF to
<1>5. Sound(to, r)
  BY <1>1, <1>2, <1>4 DEF Sound
<1>6. storeFaults' \in 0..proc.store_faults
  BY <1>1 DEF IInv, Shape
<1>7. QED
  BY <1>1, <1>2, <1>3, <1>4, <1>5, <1>6, MovesInside

\* The gateway's own 5xx is a response for the request.
LEMMA Made ==
    ASSUME NEW r \in Requests
    PROVE  \A resp \in {Ok(r, TRUE), Ok(r, FALSE), Fault(r), Redirected(r), Bad(r)} :
               resp \in Response /\ resp.for = r
<1>1. Ok(r, TRUE) \in Response /\ Ok(r, TRUE).for = r
  BY DEF Ok, Response
<1>2. Ok(r, FALSE) \in Response /\ Ok(r, FALSE).for = r
  BY DEF Ok, Response
<1>3. Fault(r) \in Response /\ Fault(r).for = r
  BY DEF Fault, Response
<1>4. Redirected(r) \in Response /\ Redirected(r).for = r
  BY DEF Redirected, Response
<1>5. Bad(r) \in Response /\ Bad(r).for = r
  BY DEF Bad, Response
<1>6. QED
  BY <1>1, <1>2, <1>3, <1>4, <1>5

\* A failed write is made good once, then answered with the gateway's 5xx.
LEMMA WriteFailsStep ==
    ASSUME IInv, NEW r \in Requests, WriteFails(r)
    PROVE  IInv'
<1>1. /\ UNCHANGED <<proc, entries, locks, fifo, left, storeFaults>>
      /\ req[r].at = "writing"
  BY DEF WriteFails, store, faults
<1>2. CASE req[r].resent
  BY <1>1, <1>2, Made, RepliedStep DEF WriteFails
<1>3. CASE ~req[r].resent
  <2> DEFINE to == [req[r] EXCEPT !.at = "forward", !.pooled = FALSE, !.resent = TRUE]
  <2>1. Move(r, to)
    BY <1>3 DEF WriteFails
  <2>2. /\ req[r] \in RequestState /\ req[r].at \in Holding \ {"release"} /\ r \in Keyed /\ r \in proc.calls
        /\ req[r].ran <= 0
    BY <1>1, <1>3, InFlight
  <2>3. /\ to \in RequestState /\ to.at = "forward" /\ to.time = req[r].time
        /\ to.ran = req[r].ran /\ to.resent = TRUE /\ to.ran \in 0..2
    BY <1>1, <2>2 DEF RequestState, Places, Holding
  <2> HIDE DEF to
  <2>4. Sound(to, r)
    BY <2>2, <2>3 DEF Sound
  <2>5. storeFaults' \in 0..proc.store_faults
    BY <1>1 DEF IInv, Shape
  <2>6. "forward" \in Holding
    BY DEF Holding
  <2>7. QED
    BY <1>1, <2>1, <2>2, <2>3, <2>4, <2>5, <2>6, MovesInside
<1>4. QED
  BY <1>2, <1>3

\* A failed connect is answered with the gateway's 5xx.
LEMMA ConnectFailsStep ==
    ASSUME IInv, NEW r \in Requests, ConnectFails(r)
    PROVE  IInv'
<1>1. /\ UNCHANGED <<proc, entries, locks, fifo, left, storeFaults>>
      /\ req[r].at = "forward" /\ Replied(r, Bad(r), FALSE)
  BY DEF ConnectFails, store, faults
<1>2. QED
  BY <1>1, Made, RepliedStep

\* A pooled connection closed unread sends the request once more, which no
\* second close can.
LEMMA ClosedUnreadStep ==
    ASSUME IInv, NEW r \in Requests, NEW did \in BOOLEAN, ClosedUnread(r, did)
    PROVE  IInv'
<1>1. /\ UNCHANGED <<proc, entries, locks, fifo, left, storeFaults>>
      /\ req[r].at = "sent"
  BY DEF ClosedUnread, store, faults
<1>2. CASE ~req[r].pooled
  BY <1>1, <1>2, Made, RepliedStep DEF ClosedUnread
<1>3. CASE req[r].pooled
  <2> DEFINE to == [req[r] EXCEPT !.at = "forward", !.pooled = FALSE, !.resent = TRUE, !.ran = Runs(r, did)]
  <2>1. Move(r, to)
    BY <1>3 DEF ClosedUnread
  <2>2. /\ req[r] \in RequestState /\ req[r].at \in Holding \ {"release"} /\ r \in Keyed /\ r \in proc.calls
        /\ req[r].ran <= IF req[r].resent THEN 1 ELSE 0
        /\ Sound(req[r], r)
    BY <1>1, InFlight
  <2>3. ~req[r].resent
    BY <1>1, <1>3, <2>2 DEF Sound
  <2>4. Runs(r, did) \in 0..2 /\ Runs(r, did) <= 1
    BY <2>2, <2>3 DEF Runs, RequestState
  <2>5. "forward" \in Places /\ "forward" \in Holding
    BY DEF Places, Holding
  <2>6. /\ to \in RequestState /\ to.at = "forward" /\ to.time = req[r].time
        /\ to.ran = Runs(r, did) /\ to.resent = TRUE
    BY <2>2, <2>4, <2>5 DEF RequestState
  <2> HIDE DEF to
  <2>7. Sound(to, r)
    BY <2>2, <2>4, <2>6 DEF Sound
  <2>8. storeFaults' \in 0..proc.store_faults
    BY <1>1 DEF IInv, Shape
  <2>9. QED
    BY <1>1, <2>1, <2>2, <2>5, <2>6, <2>7, <2>8, MovesInside
<1>4. QED
  BY <1>2, <1>3

\* A failed read is answered with the gateway's 5xx.
LEMMA ReadFailsStep ==
    ASSUME IInv, NEW r \in Requests, NEW did \in BOOLEAN, ReadFails(r, did)
    PROVE  IInv'
<1>1. /\ UNCHANGED <<proc, entries, locks, fifo, left, storeFaults>>
      /\ req[r].at = "sent" /\ Replied(r, Bad(r), did)
  BY DEF ReadFails, store, faults
<1>2. QED
  BY <1>1, Made, RepliedStep

\* The worker's response, or the gateway's in place of its 401, is the request's
\* own.
LEMMA RespondStep ==
    ASSUME IInv, NEW r \in Requests, NEW resp \in Replies(r), Respond(r, resp)
    PROVE  IInv'
<1>1. /\ UNCHANGED <<proc, entries, locks, fifo, left, storeFaults>>
      /\ req[r].at = "sent" /\ Replied(r, resp, TRUE)
      /\ resp \in {Ok(r, TRUE), Ok(r, FALSE), Fault(r), Redirected(r)}
  BY DEF Respond, Replies, store, faults
<1>2. QED
  BY <1>1, Made, RepliedStep

\* A chunked body that ends, whole or cut, is the request's own response.
LEMMA BodyEndsStep ==
    ASSUME IInv, NEW r \in Requests, NEW resp \in Replies(r), BodyEnds(r, resp)
    PROVE  IInv'
<1>1. /\ UNCHANGED <<proc, entries, locks, fifo, left, storeFaults>>
      /\ req[r].at = "body" /\ Replied(r, resp, TRUE)
      /\ resp \in {Ok(r, TRUE), Ok(r, FALSE), Fault(r), Redirected(r)}
  BY DEF BodyEnds, Replies, store, faults
<1>2. QED
  BY <1>1, Made, RepliedStep

-----------------------------------------------------------------------------
(* Behind the worker call.                                                 *)

\* The response of a request is stored or passed over, and the request goes on
\* to let go of its lock.
LEMMA ReleaseState ==
    ASSUME IInv, NEW r \in Requests, req[r].at = "replied"
    PROVE  LET to == [req[r] EXCEPT !.at = "release"]
           IN  /\ to \in RequestState /\ to.at \in Holding /\ to.time = req[r].time
               /\ to.at = "release" /\ to.resp = req[r].resp
               /\ Sound(to, r) /\ req[r].at \in Holding \ {"release"}
               /\ r \in Keyed /\ req[r].resp \in Response /\ req[r].resp.for = r
<1> DEFINE to == [req[r] EXCEPT !.at = "release"]
<1>1. req[r] \in RequestState /\ Sound(req[r], r) /\ req[r].at \in Holding \ {"release"}
  BY DEF IInv, Shape, RequestsInv, Holding
<1>2. r \in Keyed /\ r \in proc.calls /\ req[r].resp \in Response /\ req[r].resp.for = r
  BY <1>1 DEF Sound, Keyed
<1>3. "release" \in Places /\ "release" \in Holding
  BY DEF Places, Holding
<1>4. to \in RequestState /\ to.at = "release" /\ to.time = req[r].time /\ to.resp = req[r].resp
  BY <1>1, <1>3 DEF RequestState
<1> HIDE DEF to
<1>5. Sound(to, r)
  BY <1>2, <1>4 DEF Sound
<1>6. to \in RequestState /\ to.at \in Holding
  BY <1>3, <1>4
<1> USE DEF to
<1>7. QED
  BY <1>1, <1>2, <1>4, <1>5, <1>6

\* A failed store write lets the request go on to release its lock.
LEMMA CaptureFailsStep ==
    ASSUME IInv, NEW r \in Requests, CaptureFails(r)
    PROVE  IInv'
<1> DEFINE to == [req[r] EXCEPT !.at = "release"]
<1>1. /\ UNCHANGED <<proc, entries, locks, fifo, left>>
      /\ req[r].at = "replied" /\ Move(r, to)
  BY DEF CaptureFails, StoreFails, store
<1>2. storeFaults' \in 0..proc.store_faults
  BY Numbers DEF CaptureFails, StoreFails, IInv, Shape
<1>3. /\ to \in RequestState /\ to.at \in Holding /\ to.time = req[r].time
      /\ Sound(to, r) /\ req[r].at \in Holding \ {"release"}
  BY <1>1, ReleaseState
<1> HIDE DEF to
<1>4. QED
  BY <1>1, <1>2, <1>3, MovesInside

\* The queue with the key in it: within one of the cap, and it knows every key
\* it knew and the new one.
LEMMA QueuedFacts ==
    ASSUME Shape, QueueInv, NEW k \in Slots
    PROVE  /\ Queued(k) \in Seq(Slots) /\ Len(Queued(k)) \in 1..(proc.max_live + 1)
           /\ \E i \in DOMAIN Queued(k) : Queued(k)[i] = k
           /\ \A l : (\E i \in DOMAIN fifo : fifo[i] = l) => \E i \in DOMAIN Queued(k) : Queued(k)[i] = l
<1>1. fifo \in Seq(Slots) /\ Len(fifo) <= proc.max_live /\ proc.max_live \in Nat /\ Len(fifo) \in Nat
      /\ DOMAIN fifo = 1..Len(fifo)
  BY Numbers DEF Shape, QueueInv
<1>2. CASE \E i \in DOMAIN fifo : fifo[i] = k
  BY <1>1, <1>2 DEF Queued
<1>3. CASE ~\E i \in DOMAIN fifo : fifo[i] = k
  <2>1. Queued(k) = Append(fifo, k)
    BY <1>3 DEF Queued
  <2>2. /\ Queued(k) \in Seq(Slots) /\ Len(Queued(k)) = Len(fifo) + 1
        /\ Queued(k)[Len(fifo) + 1] = k
        /\ \A i \in 1..Len(fifo) : Queued(k)[i] = fifo[i]
        /\ DOMAIN Queued(k) = 1..(Len(fifo) + 1)
    BY <1>1, <2>1
  <2> HIDE DEF Queued
  <2>3. QED
    BY <1>1, <2>2
<1>4. QED
  BY <1>2, <1>3

\* Over the cap the queue loses its head and nothing else.
LEMMA TailFacts ==
    ASSUME NEW S, NEW q \in Seq(S), Len(q) \in Nat \ {0}
    PROVE  /\ Tail(q) \in Seq(S) /\ Len(Tail(q)) = Len(q) - 1 /\ Head(q) = q[1] /\ Head(q) \in S
           /\ \A l : (\E i \in DOMAIN q : q[i] = l) /\ l # Head(q) => \E i \in DOMAIN Tail(q) : Tail(q)[i] = l
<1>1. /\ Tail(q) \in Seq(S) /\ Len(Tail(q)) = Len(q) - 1 /\ Head(q) = q[1] /\ Head(q) \in S
      /\ \A i \in 1..(Len(q) - 1) : Tail(q)[i] = q[i + 1]
      /\ DOMAIN q = 1..Len(q) /\ DOMAIN Tail(q) = 1..(Len(q) - 1)
  OBVIOUS
<1>2. ASSUME NEW l, NEW i \in DOMAIN q, q[i] = l, l # Head(q)
      PROVE  \E j \in DOMAIN Tail(q) : Tail(q)[j] = l
  <2>1. i \in 2..Len(q) /\ i - 1 \in 1..(Len(q) - 1)
    BY <1>1, <1>2
  <2>2. Tail(q)[i - 1] = q[(i - 1) + 1] /\ (i - 1) + 1 = i
    BY <1>1, <2>1
  <2>3. QED
    BY <1>1, <1>2, <2>1, <2>2
<1>3. QED
  BY <1>1, <1>2

\* put_entry keeps the store within its cap, its live keys queued, and every
\* entry an outcome of its own key.
LEMMA PutEntryStep ==
    ASSUME IInv, UNCHANGED proc, NEW r \in Keyed, NEW resp \in Response, resp.for = r,
           Storable(resp), PutEntry(entry_key(r), resp)
    PROVE  /\ entries' \in [Slots -> Entry \cup {Null}] /\ fifo' \in Seq(Slots)
           /\ EntriesInv' /\ QueueInv'
           /\ \A l \in Slots : entries'[l] # Null =>
                  entries'[l].resp = resp \/ (entries[l] # Null /\ entries'[l] = entries[l])
<1> DEFINE k     == entry_key(r)
           q     == Queued(k)
           fresh == [resp |-> resp, ttl |-> proc.entry_ttl]
           put   == [entries EXCEPT ![k] = fresh]
<1>1. k \in Slots /\ proc.max_live \in Nat \ {0} /\ entries \in [Slots -> Entry \cup {Null}]
  BY KeyedSlot, Numbers DEF IInv, Shape
<1>2. fresh \in Entry /\ fresh.resp = resp
  BY Numbers DEF Entry, IInv, Shape
<1>3. /\ q \in Seq(Slots) /\ Len(q) \in 1..(proc.max_live + 1)
      /\ \E i \in DOMAIN q : q[i] = k
      /\ \A l : (\E i \in DOMAIN fifo : fifo[i] = l) => \E i \in DOMAIN q : q[i] = l
  BY <1>1, QueuedFacts DEF IInv
<1>4. /\ fifo' = IF Len(q) > proc.max_live THEN Tail(q) ELSE q
      /\ entries' = IF Len(q) > proc.max_live THEN [put EXCEPT ![Head(q)] = Null] ELSE put
  BY DEF PutEntry
<1> HIDE DEF q, k, fresh
<1>5. /\ put \in [Slots -> Entry \cup {Null}] /\ put[k] = fresh
      /\ \A l \in Slots \ {k} : put[l] = entries[l]
  BY <1>1, <1>2
<1> HIDE DEF put
<1>6. \A l \in Slots : put[l] # Null =>
          /\ Storable(put[l].resp) /\ put[l].resp.for \in Keyed /\ entry_key(put[l].resp.for) = l
          /\ \E i \in DOMAIN q : q[i] = l
  <2>1. ASSUME NEW l \in Slots \ {k}, put[l] # Null
        PROVE  /\ Storable(put[l].resp) /\ put[l].resp.for \in Keyed /\ entry_key(put[l].resp.for) = l
               /\ \E i \in DOMAIN q : q[i] = l
    BY <1>3, <1>5, <2>1 DEF IInv, EntriesInv, QueueInv
  <2>2. /\ Storable(put[k].resp) /\ put[k].resp.for \in Keyed /\ entry_key(put[k].resp.for) = k
        /\ \E i \in DOMAIN q : q[i] = k
    BY <1>2, <1>3, <1>5 DEF k
  <2>3. QED
    BY <2>1, <2>2
<1>7. /\ entries' \in [Slots -> Entry \cup {Null}] /\ fifo' \in Seq(Slots)
      /\ Len(fifo') <= proc.max_live
      /\ \A l \in Slots : entries'[l] # Null =>
             entries'[l] = put[l] /\ \E i \in DOMAIN fifo' : fifo'[i] = l
  <2>1. CASE Len(q) > proc.max_live
    <3>1. /\ Tail(q) \in Seq(Slots) /\ Len(Tail(q)) = Len(q) - 1 /\ Head(q) \in Slots
          /\ \A l : (\E i \in DOMAIN q : q[i] = l) /\ l # Head(q) => \E i \in DOMAIN Tail(q) : Tail(q)[i] = l
      BY <1>3, TailFacts
    <3>2. fifo' = Tail(q) /\ entries' = [put EXCEPT ![Head(q)] = Null]
      BY <1>4, <2>1
    <3>3. /\ entries' \in [Slots -> Entry \cup {Null}] /\ entries'[Head(q)] = Null
          /\ \A l \in Slots \ {Head(q)} : entries'[l] = put[l]
      BY <1>5, <3>1, <3>2
    <3>4. Len(fifo') <= proc.max_live
      BY <1>1, <1>3, <3>1, <3>2
    <3>5. \A l \in Slots : entries'[l] # Null => l # Head(q) /\ entries'[l] = put[l]
      BY <3>3
    <3>6. QED
      BY <1>6, <3>1, <3>2, <3>3, <3>4, <3>5
  <2>2. CASE ~(Len(q) > proc.max_live)
    <3>1. fifo' = q /\ entries' = put /\ Len(q) <= proc.max_live
      BY <1>1, <1>3, <1>4, <2>2
    <3>2. QED
      BY <1>3, <1>5, <1>6, <3>1
  <2>3. QED
    BY <2>1, <2>2
<1>8. EntriesInv'
  BY <1>6, <1>7, SameProcedure DEF EntriesInv, Storable
<1>9. QueueInv'
  BY <1>7, SameProcedure DEF QueueInv
<1>10. \A l \in Slots : entries'[l] # Null =>
           entries'[l].resp = resp \/ (entries[l] # Null /\ entries'[l] = entries[l])
  BY <1>2, <1>5, <1>7
<1>11. QED
  BY <1>7, <1>8, <1>9, <1>10

\* A definitive outcome is stored under the request's own key, any other
\* response is passed over (capture_response_for_idempotency).
LEMMA CaptureStep ==
    ASSUME IInv, NEW r \in Requests, Capture(r)
    PROVE  IInv'
<1> DEFINE to == [req[r] EXCEPT !.at = "release"]
<1>1. /\ UNCHANGED <<proc, locks, left, storeFaults>>
      /\ req[r].at = "replied" /\ Move(r, to)
  BY DEF Capture, faults
<1>2. /\ to \in RequestState /\ to.at \in Holding /\ to.time = req[r].time
      /\ to.at = "release" /\ to.resp = req[r].resp
      /\ Sound(to, r) /\ req[r].at \in Holding \ {"release"}
      /\ r \in Keyed /\ req[r].resp \in Response /\ req[r].resp.for = r
  BY <1>1, ReleaseState
<1> HIDE DEF to
<1>3. /\ req' \in [Requests -> RequestState] /\ (RequestsInv /\ LocksHeld /\ HoldInv /\ OneInFlight)'
      /\ req'[r] = to /\ \A s \in Requests \ {r} : req'[s] = req[s]
  BY <1>1, <1>2, FlightKept
<1>4. /\ entries' \in [Slots -> Entry \cup {Null}] /\ fifo' \in Seq(Slots)
      /\ EntriesInv' /\ QueueInv'
      /\ \A l \in Slots : entries'[l] # Null =>
             entries'[l].resp = req[r].resp \/ (entries[l] # Null /\ entries'[l] = entries[l])
  <2>1. CASE Storable(req[r].resp)
    BY <1>1, <1>2, <2>1, PutEntryStep DEF Capture
  <2>2. CASE ~Storable(req[r].resp)
    BY <1>1, <2>2, SameProcedure DEF Capture, IInv, Shape, EntriesInv, QueueInv, Storable
  <2>3. QED
    BY <2>1, <2>2
<1>5. Shape'
  BY <1>1, <1>3, <1>4, SameProcedure DEF IInv, Shape
<1>6. GivenInv'
  <2>1. \A s \in Requests : req[s].at \in {"release", "own", "gone"} => req'[s] = req[s]
    BY <1>1, <1>3
  <2>2. \A s \in Requests : req'[s].at = "hit" => AnsweredWith(req'[s].resp) /\ req'[s].resp \in Response
    BY <1>2, <1>3 DEF IInv, GivenInv, RequestsInv, Sound, Replayable
  <2>3. req'[r].at = "release" /\ req'[r].resp = req[r].resp /\ req[r].resp.for = r
    BY <1>2, <1>3
  <2>4. \A l \in Slots : entries'[l] # Null =>
            AnsweredWith(entries[l].resp)' \/ (entries[l] # Null /\ entries'[l].resp = entries[l].resp)
    <3>1. ASSUME NEW l \in Slots, entries'[l] # Null, entries'[l].resp = req[r].resp
          PROVE  AnsweredWith(entries[l].resp)'
      BY <2>3, <3>1 DEF AnsweredWith
    <3>2. QED
      BY <1>4, <3>1
  <2>5. QED
    BY <1>1, <2>1, <2>2, <2>4, GivenKept DEF IInv
<1>7. QED
  BY <1>3, <1>4, <1>5, <1>6 DEF IInv

\* The lock that is let go of is the request's own while nobody outlives his.
LEMMA ReleaseStep ==
    ASSUME IInv, NEW r \in Requests, Release(r)
    PROVE  IInv'
<1> DEFINE to == [At("own") EXCEPT !.resp = req[r].resp]
           k  == entry_key(r)
<1>1. /\ UNCHANGED <<proc, entries, fifo, left, storeFaults>>
      /\ req[r].at = "release" /\ Move(r, to) /\ locks' = [locks EXCEPT ![k] = 0]
  BY DEF Release, faults, Answer
<1>2. to \in RequestState /\ to.at = "own" /\ to.resp = req[r].resp
  <2>1. req[r].resp \in Response \cup {Null} /\ "own" \in Answers
    BY <1>1 DEF IInv, Shape, RequestState, Answers
  <2>2. QED
    BY <2>1, Answered
<1> HIDE DEF to
<1>3. r \in Keyed /\ r \in proc.calls /\ k \in Slots /\ Keyed \subseteq Requests
  BY <1>1, KeyedSlot, Numbers DEF IInv, Shape, RequestsInv, Sound, Holding, Keyed
<1>4. Sound(to, r) /\ to.at \notin Holding /\ req[r].at \in Holding
  BY <1>1, <1>2, <1>3 DEF Sound, Holding
<1>5. /\ req' \in [Requests -> RequestState] /\ RequestsInv' /\ req'[r] = to
      /\ \A s \in Requests \ {r} : req'[s] = req[s]
  BY <1>1, <1>2, <1>4, Moved DEF IInv
<1>6. /\ locks \in [Slots -> 0..proc.lock_ttl] /\ proc.lock_ttl \in Nat \ {0}
  BY Numbers DEF IInv, Shape
<1>7. /\ locks' \in [Slots -> 0..proc.lock_ttl] /\ locks'[k] = 0
      /\ \A l \in Slots \ {k} : locks'[l] = locks[l]
  BY <1>1, <1>3, <1>6
<1> HIDE DEF k
<1>8. Shape'
  BY <1>1, <1>5, <1>7, SameProcedure DEF IInv, Shape
<1>9. (EntriesInv /\ QueueInv)'
  BY <1>1, SameProcedure DEF IInv, EntriesInv, QueueInv, Storable
<1>10. LocksHeld'
  <2>1. ASSUME NEW l \in Slots, locks'[l] > 0
        PROVE  \E s \in Keyed : entry_key(s) = l /\ (req'[s].at \in Holding \/ s \in left)
    <3>1. l # k /\ locks[l] > 0
      BY <1>7, <2>1
    <3>2. PICK s \in Keyed : entry_key(s) = l /\ (req[s].at \in Holding \/ s \in left)
      BY <2>1, <3>1 DEF IInv, LocksHeld
    <3>3. s # r
      BY <3>1, <3>2 DEF k
    <3>4. QED
      BY <1>3, <1>5, <3>2, <3>3
  <2>2. QED
    BY <1>1, <2>1, SameProcedure DEF LocksHeld
<1>11. HoldInv'
  <2>1. ASSUME proc.max_hold < proc.lock_ttl, ~proc.stalls, NEW s \in Requests, req'[s].at \in Holding
        PROVE  req'[s].time <= proc.max_hold /\ locks'[entry_key(s)] + req'[s].time >= proc.lock_ttl
    <3>1. s # r /\ req'[s] = req[s]
      BY <1>2, <1>4, <1>5, <2>1
    <3>2. s \in Keyed /\ entry_key(s) \in Slots
      BY <2>1, <3>1, KeyedSlot DEF IInv, RequestsInv, Sound
    <3>3. entry_key(s) # k
      BY <1>3, <1>4, <2>1, <3>1, <3>2 DEF IInv, OneInFlight, k
    <3>4. QED
      BY <1>7, <2>1, <3>1, <3>2, <3>3 DEF IInv, HoldInv
  <2>2. QED
    BY <1>1, <2>1, SameProcedure DEF HoldInv
<1>12. OneInFlight'
  BY <1>1, <1>3, <1>4, <1>5, SameProcedure DEF IInv, OneInFlight
<1>13. GivenInv'
  <2>1. \A s \in Requests : req[s].at \in {"release", "own", "gone"} =>
            \/ req'[s].at = "gone"
            \/ req[s].at # "gone" /\ req'[s].at \in {"release", "own"} /\ req'[s].resp = req[s].resp
    BY <1>1, <1>2, <1>5
  <2>2. \A s \in Requests : req'[s].at = "hit" => AnsweredWith(req'[s].resp) /\ req'[s].resp \in Response
    BY <1>2, <1>5 DEF IInv, GivenInv, RequestsInv, Sound, Replayable
  <2>3. QED
    BY <1>1, <2>1, <2>2, GivenKept DEF IInv
<1>14. QED
  BY <1>5, <1>8, <1>9, <1>10, <1>11, <1>12, <1>13 DEF IInv

-----------------------------------------------------------------------------
(* Dropped tasks and time.                                                 *)

\* A request ends without letting go of its lock, and nothing else changes.
LEMMA Leaves ==
    ASSUME IInv, UNCHANGED <<proc, entries, locks, fifo>>, storeFaults' \in 0..proc.store_faults,
           NEW r \in Requests, NEW to \in RequestState, Move(r, to),
           req[r].at \in Holding \cup {"absent", "waiting"},
           left' = IF req[r].at \in Holding THEN left \cup {r} ELSE left,
           \/ to.at = "gone"
           \/ to.at = "own" /\ req[r].at = "release" /\ to.resp = req[r].resp
    PROVE  IInv'
<1>1. r \in Keyed /\ r \in proc.calls /\ Keyed \subseteq Requests
  BY Numbers DEF IInv, Shape, RequestsInv, Sound, Keyed
<1>2. Sound(to, r) /\ to.at \notin Holding
  BY <1>1 DEF Sound, Holding
<1>3. /\ req' \in [Requests -> RequestState] /\ RequestsInv' /\ req'[r] = to
      /\ \A s \in Requests \ {r} : req'[s] = req[s]
  BY <1>2, Moved DEF IInv
<1>4. Shape'
  BY <1>3, SameProcedure DEF IInv, Shape
<1>5. (EntriesInv /\ QueueInv)'
  BY SameProcedure DEF IInv, EntriesInv, QueueInv, Storable
<1>6. LocksHeld'
  <2>1. \A s \in Keyed : req[s].at \in Holding \/ s \in left => req'[s].at \in Holding \/ s \in left'
    BY <1>1, <1>3
  <2>2. QED
    BY <2>1, SameProcedure DEF IInv, LocksHeld
<1>7. HoldInv'
  BY <1>2, <1>3, SameProcedure DEF IInv, HoldInv
<1>8. OneInFlight'
  BY <1>1, <1>2, <1>3, SameProcedure DEF IInv, OneInFlight
<1>9. GivenInv'
  <2>1. \A s \in Requests : req[s].at \in {"release", "own", "gone"} =>
            \/ req'[s].at = "gone"
            \/ req[s].at # "gone" /\ req'[s].at \in {"release", "own"} /\ req'[s].resp = req[s].resp
    BY <1>3 DEF Holding
  <2>2. \A s \in Requests : req'[s].at = "hit" => AnsweredWith(req'[s].resp) /\ req'[s].resp \in Response
    BY <1>3 DEF IInv, GivenInv, RequestsInv, Sound, Replayable
  <2>3. QED
    BY <2>1, <2>2, GivenKept DEF IInv
<1>10. QED
  BY <1>3, <1>4, <1>5, <1>6, <1>7, <1>8, <1>9 DEF IInv

\* A dropped task leaves its lock behind.
LEMMA VanishStep ==
    ASSUME IInv, NEW r \in Requests, Vanish(r)
    PROVE  IInv'
<1>1. /\ UNCHANGED <<proc, entries, locks, fifo>> /\ storeFaults' \in 0..proc.store_faults
      /\ req[r].at \in Holding \cup {"absent", "waiting"} /\ Move(r, At("gone"))
      /\ left' = IF req[r].at \in Holding THEN left \cup {r} ELSE left
  BY DEF Vanish, store, IInv, Shape
<1>2. At("gone") \in RequestState /\ At("gone").at = "gone"
  BY AtState DEF Places
<1>3. QED
  BY <1>1, <1>2, Leaves

\* A release that failed leaves the lock behind an answered request
\* (capture_response, release_lock_without_storing).
LEMMA ReleaseFailsStep ==
    ASSUME IInv, NEW r \in Requests, ReleaseFails(r)
    PROVE  IInv'
<1> DEFINE to == [At("own") EXCEPT !.resp = req[r].resp]
<1>1. /\ UNCHANGED <<proc, entries, locks, fifo>> /\ req[r].at = "release"
      /\ left' = left \cup {r} /\ Move(r, to)
  BY DEF ReleaseFails, store, Answer
<1>2. storeFaults' \in 0..proc.store_faults
  BY Numbers DEF ReleaseFails, IInv, Shape
<1>3. "release" \in Holding
  BY DEF Holding
<1>4. to \in RequestState /\ to.at = "own" /\ to.resp = req[r].resp
  <2>1. req[r].resp \in Response \cup {Null} /\ "own" \in Answers
    BY DEF IInv, Shape, RequestState, Answers
  <2>2. QED
    BY <2>1, Answered
<1> HIDE DEF to
<1>5. QED
  BY <1>1, <1>2, <1>3, <1>4, Leaves

\* Time passes for a request: only its clock moves.
LEMMA AgedFacts ==
    ASSUME NEW x \in RequestState
    PROVE  /\ Aged(x) \in RequestState /\ Aged(x).at = x.at /\ Aged(x).resp = x.resp
           /\ Aged(x).ran = x.ran /\ Aged(x).resent = x.resent /\ Aged(x).pooled = x.pooled
           /\ x.at \in Holding /\ x.time < proc.max_hold => Aged(x).time = x.time + 1
<1> DEFINE y == [x EXCEPT !.time = @ + 1]
<1>1. /\ y \in RequestState /\ y.at = x.at /\ y.resp = x.resp /\ y.ran = x.ran
      /\ y.resent = x.resent /\ y.pooled = x.pooled /\ y.time = x.time + 1
  BY DEF RequestState
<1>2. /\ x.at \in Holding /\ x.time < proc.max_hold => Aged(x) = y
      /\ Aged(x) \in {x, y}
  BY DEF Aged
<1> HIDE DEF y
<1>3. QED
  BY <1>1, <1>2

\* A unit of time: what is left of a lock and the time its holder has had still
\* sum to the lock's life.
LEMMA TickStep ==
    ASSUME IInv, Tick
    PROVE  IInv'
<1>1. /\ UNCHANGED <<proc, fifo, left, storeFaults>>
      /\ ~proc.stalls => \A r \in Requests : req[r].at \in Holding => req[r].time < proc.max_hold
  BY DEF Tick, Stalled, faults
<1>2. /\ proc.lock_ttl \in Nat \ {0} /\ proc.entry_ttl \in Nat \ {0} /\ proc.max_hold \in Nat
      /\ Keyed \subseteq Requests /\ req \in [Requests -> RequestState]
      /\ locks \in [Slots -> 0..proc.lock_ttl] /\ entries \in [Slots -> Entry \cup {Null}]
  BY Numbers DEF IInv, Shape, Keyed
<1>3. /\ req' \in [Requests -> RequestState]
      /\ \A r \in Requests :
             /\ req'[r].at = req[r].at /\ req'[r].resp = req[r].resp /\ req'[r].ran = req[r].ran
             /\ req'[r].resent = req[r].resent /\ req'[r].pooled = req[r].pooled
             /\ req[r].at \in Holding /\ req[r].time < proc.max_hold => req'[r].time = req[r].time + 1
  <2>1. req' = [r \in Requests |-> Aged(req[r])]
    BY DEF Tick
  <2>2. \A r \in Requests :
            /\ Aged(req[r]) \in RequestState
            /\ Aged(req[r]).at = req[r].at /\ Aged(req[r]).resp = req[r].resp
            /\ Aged(req[r]).ran = req[r].ran /\ Aged(req[r]).resent = req[r].resent
            /\ Aged(req[r]).pooled = req[r].pooled
            /\ req[r].at \in Holding /\ req[r].time < proc.max_hold => Aged(req[r]).time = req[r].time + 1
    BY <1>2, AgedFacts
  <2>3. QED
    BY <2>1, <2>2
<1>4. /\ locks' \in [Slots -> 0..proc.lock_ttl]
      /\ \A k \in Slots : locks'[k] = IF locks[k] = 0 THEN 0 ELSE locks[k] - 1
  <2>1. locks' = [k \in Slots |-> Less(locks[k])]
    BY DEF Tick
  <2>2. \A k \in Slots : /\ Less(locks[k]) = IF locks[k] = 0 THEN 0 ELSE locks[k] - 1
                         /\ Less(locks[k]) \in 0..proc.lock_ttl
    <3>1. \A k \in Slots : locks[k] \in 0..proc.lock_ttl
      BY <1>2
    <3>2. QED
      BY <1>2, <3>1 DEF Less
  <2>3. QED
    BY <2>1, <2>2
<1>5. /\ entries' \in [Slots -> Entry \cup {Null}]
      /\ \A k \in Slots : entries'[k] # Null => entries[k] # Null /\ entries'[k].resp = entries[k].resp
  <2>1. entries' = [k \in Slots |->
           IF entries[k] = Null \/ entries[k].ttl = 1 THEN Null ELSE [entries[k] EXCEPT !.ttl = @ - 1]]
    BY DEF Tick
  <2>2. ASSUME NEW k \in Slots, entries[k] # Null, entries[k].ttl # 1
        PROVE  /\ [entries[k] EXCEPT !.ttl = @ - 1] \in Entry
               /\ [entries[k] EXCEPT !.ttl = @ - 1].resp = entries[k].resp
    <3>1. entries[k] \in Entry
      BY <1>2, <2>2
    <3>2. QED
      BY <1>2, <2>2, <3>1 DEF Entry
  <2> HIDE DEF Entry
  <2>3. QED
    BY <2>1, <2>2
<1>6. Shape'
  BY <1>1, <1>3, <1>4, <1>5, SameProcedure DEF IInv, Shape
<1>7. RequestsInv'
  <2>1. \A r \in Requests : Sound(req'[r], r)
    BY <1>3 DEF IInv, RequestsInv, Sound
  <2>2. QED
    BY <1>1, <2>1, SameProcedure DEF RequestsInv
<1>8. EntriesInv'
  BY <1>1, <1>5, SameProcedure DEF IInv, EntriesInv, Storable
<1>9. QueueInv'
  BY <1>1, <1>5, SameProcedure DEF IInv, QueueInv
<1>10. LocksHeld'
  <2>1. ASSUME NEW l \in Slots, locks'[l] > 0
        PROVE  \E s \in Keyed : entry_key(s) = l /\ (req'[s].at \in Holding \/ s \in left)
    <3>1. locks[l] > 0
      BY <1>2, <1>4, <2>1
    <3>2. QED
      BY <1>2, <1>3, <2>1, <3>1 DEF IInv, LocksHeld
  <2>2. QED
    BY <1>1, <2>1, SameProcedure DEF LocksHeld
<1>11. HoldInv'
  <2>1. ASSUME proc.max_hold < proc.lock_ttl, ~proc.stalls, NEW s \in Requests, req'[s].at \in Holding
        PROVE  req'[s].time <= proc.max_hold /\ locks'[entry_key(s)] + req'[s].time >= proc.lock_ttl
    <3>1. /\ req[s].at \in Holding /\ req[s].time \in Nat /\ req[s].time < proc.max_hold
          /\ req'[s].time = req[s].time + 1
      BY <1>1, <1>2, <1>3, <2>1 DEF RequestState
    <3>2. s \in Keyed /\ entry_key(s) \in Slots
      BY <3>1, KeyedSlot DEF IInv, RequestsInv, Sound
    <3>3. locks[entry_key(s)] + req[s].time >= proc.lock_ttl /\ locks[entry_key(s)] \in Nat
      BY <1>2, <2>1, <3>1, <3>2 DEF IInv, HoldInv
    <3>4. locks'[entry_key(s)] = locks[entry_key(s)] - 1
      BY <1>2, <1>4, <2>1, <3>1, <3>2, <3>3
    <3>5. QED
      BY <1>2, <3>1, <3>3, <3>4
  <2>2. QED
    BY <1>1, <2>1, SameProcedure DEF HoldInv
<1>12. OneInFlight'
  BY <1>1, <1>2, <1>3, SameProcedure DEF IInv, OneInFlight
<1>13. GivenInv'
  <2>1. \A s \in Requests : req'[s].at = "hit" => AnsweredWith(req'[s].resp) /\ req'[s].resp \in Response
    BY <1>3 DEF IInv, GivenInv, RequestsInv, Sound, Replayable
  <2>2. QED
    BY <1>1, <1>3, <1>5, <2>1, GivenKept DEF IInv
<1>14. QED
  BY <1>13, <1>6, <1>7, <1>8, <1>9, <1>10, <1>11, <1>12 DEF IInv

-----------------------------------------------------------------------------
(* The theorems.                                                           *)

\* The dispatch starts with an empty store and every request new.
LEMMA InitEstablishes == Init => IInv
<1> SUFFICES ASSUME Init PROVE IInv
  OBVIOUS
<1>1. proc \in Procedures /\ proc.calls \subseteq Requests
  BY Numbers DEF Init
<1>2. /\ entries = [k \in Slots |-> Null] /\ locks = [k \in Slots |-> 0] /\ fifo = <<>>
      /\ storeFaults = 0 /\ left = {}
      /\ req = [r \in Requests |-> At(IF r \in proc.calls THEN "new" ELSE "never")]
  BY DEF Init
<1>3. /\ At("new") \in RequestState /\ At("new").at = "new"
      /\ At("never") \in RequestState /\ At("never").at = "never"
  BY AtState DEF Places
<1>4. /\ req \in [Requests -> RequestState]
      /\ \A r \in Requests : req[r].at \in {"new", "never"} /\ (req[r].at # "never" => r \in proc.calls)
  BY <1>2, <1>3
<1>5. Shape
  BY <1>1, <1>2, <1>4, Numbers DEF Shape
<1>6. RequestsInv
  BY <1>4 DEF RequestsInv, Sound, Holding
<1>7. EntriesInv /\ QueueInv
  <2>1. Len(fifo) = 0
    BY <1>2
  <2>2. QED
    BY <1>1, <1>2, <2>1, Numbers DEF EntriesInv, QueueInv
<1>8. LocksHeld
  BY <1>2 DEF LocksHeld
<1>9. HoldInv /\ OneInFlight
  BY <1>1, <1>4 DEF HoldInv, OneInFlight, Holding, Keyed
<1>10. GivenInv
  BY <1>2, <1>4 DEF GivenInv
<1>11. QED
  BY <1>5, <1>6, <1>7, <1>8, <1>9, <1>10 DEF IInv

\* Every step keeps the inductive invariant.
LEMMA NextPreserves == IInv /\ [Next]_vars => IInv'
<1> SUFFICES ASSUME IInv, [Next]_vars PROVE IInv'
  OBVIOUS
<1>1. CASE UNCHANGED vars
  <2>1. UNCHANGED <<proc, entries, locks, fifo, req, storeFaults, left>>
    BY <1>1 DEF vars
  <2>2. QED
    BY <2>1, SameProcedure DEF IInv, Shape, RequestsInv, EntriesInv, GivenInv, AnsweredWith,
       QueueInv, LocksHeld, HoldInv, OneInFlight, Storable
<1>2. CASE Tick
  BY <1>2, TickStep
<1>3. ASSUME NEW r \in Requests, Decide(r) PROVE IInv'
  BY <1>3, RefuseStep, GetEntryStep, TryAcquireLockStep, PollStep, PreDispatchFailsStep DEF Decide
<1>4. ASSUME NEW r \in Requests, Forward(r) PROVE IInv'
  BY <1>4, WriteFailsStep, ConnectFailsStep, SendStep, WrittenStep, ClosedUnreadStep, ReadFailsStep,
     RespondStep, StreamsStep, BodyEndsStep
     DEF Forward
<1>5. ASSUME NEW r \in Requests, Settle(r) PROVE IInv'
  BY <1>5, CaptureStep, CaptureFailsStep, ReleaseStep, ReleaseFailsStep DEF Settle
<1>6. ASSUME NEW r \in Requests, Vanish(r) PROVE IInv'
  BY <1>6, VanishStep
<1>7. QED
  BY <1>1, <1>2, <1>3, <1>4, <1>5, <1>6 DEF Next

\* The inductive invariant holds of every reachable state of the dispatch.
THEOREM DispatchInvariant == Spec => []IInv
<1>1. QED
  BY InitEstablishes, NextPreserves, PTL DEF Spec

\* A lock still running belongs to a request in flight, or to one dropped or
\* whose release failed, and at most one request of a key is in flight while no
\* dispatch outlives its lock (try_acquire_lock, release_lock): for every
\* schedule of requests, faults and time.
THEOREM LocksAgree == Spec => []LocksMatchHolders
<1>1. IInv => LocksMatchHolders
  <2> SUFFICES ASSUME IInv PROVE LocksMatchHolders
    OBVIOUS
  <2>1. \A k \in Slots : entries[k] = Null \/ entries[k] \in [resp : Response, ttl : 1..proc.entry_ttl]
    BY DEF IInv, Shape, Entry
  <2>2. \A r \in Requests :
          /\ req[r].at \in Holding \cup Answers \cup {"new", "absent", "waiting", "gone", "never"}
          /\ req[r].resp = Null \/ req[r].resp \in Response
          /\ req[r].time \in Nat /\ req[r].pooled \in BOOLEAN /\ req[r].resent \in BOOLEAN
          /\ req[r].ran \in 0..2
    BY DEF IInv, Shape, RequestState, Places
  <2>3. TypeOK
    BY <2>1, <2>2 DEF IInv, Shape, TypeOK
  <2>4. QED
    BY <2>3 DEF IInv, LocksMatchHolders
<1>2. QED
  BY <1>1, DispatchInvariant, PTL

\* A stored response is only ever replayed to the caller, key and input it was
\* the worker's own outcome for, and is what that request was answered with
\* unless its task was dropped (pre_dispatch, wait_for_entry, capture_response).
THEOREM ReplaysOwnOutcomes == Spec => []OwnOutcomesReplayed
<1>1. IInv => OwnOutcomesReplayed
  BY DEF IInv, RequestsInv, Sound, Replayable, Storable, GivenInv, AnsweredWith, OwnOutcomesReplayed
<1>2. QED
  BY <1>1, DispatchInvariant, PTL

\* An app's live entries never outnumber its cap, and each can be evicted
\* (put_entry): for every cap and every set of keys, finite or not.
THEOREM CapHolds == Spec => []LiveKeysCapped
<1>1. IInv => LiveKeysCapped
  <2> SUFFICES ASSUME IInv PROVE LiveKeysCapped
    OBVIOUS
  <2> DEFINE live  == {k \in Slots : entries[k] # Null}
             order == 1..Len(fifo)
             keys  == {fifo[i] : i \in order}
  <2>1. /\ fifo \in Seq(Slots) /\ Len(fifo) \in Nat /\ Len(fifo) <= proc.max_live
        /\ DOMAIN fifo = order /\ proc.max_live \in Nat
    BY Numbers DEF IInv, Shape, QueueInv
  <2>2. \A k \in live : \E i \in DOMAIN fifo : fifo[i] = k
    BY DEF IInv, QueueInv
  <2>3. IsFiniteSet(order) /\ Cardinality(order) = Len(fifo)
    <3> DEFINE n == Len(fifo)
    <3>1. n \in Nat /\ n \in Int /\ 1 \in Int
      BY <2>1
    <3> HIDE DEF n
    <3>2. IsFiniteSet(1..n) /\ Cardinality(1..n) = IF 1 > n THEN 0 ELSE n-1+1
      BY <3>1, FS_Interval
    <3>3. IsFiniteSet(1..n) /\ Cardinality(1..n) = n
      BY <3>1, <3>2
    <3>4. QED
      BY <3>3 DEF n
  <2>4. IsFiniteSet(keys) /\ Cardinality(keys) <= Cardinality(order)
    <3>1. fifo \in Surjection(order, keys)
      BY <2>1 DEF Surjection
    <3>2. QED
      BY <2>3, <3>1, FS_Surjection
  <2>5. live \subseteq keys
    BY <2>1, <2>2
  <2>6. IsFiniteSet(live) /\ Cardinality(live) <= Cardinality(keys)
    BY <2>4, <2>5, FS_Subset
  <2>7. Cardinality(live) \in Nat /\ Cardinality(keys) \in Nat
    BY <2>4, <2>6, FS_CardinalityType
  <2>8. Cardinality(live) <= proc.max_live
    <3> HIDE DEF live, keys, order
    <3>1. QED
      BY <2>1, <2>3, <2>4, <2>6, <2>7
  <2>9. QED
    BY <2>2, <2>8 DEF LiveKeysCapped
<1>2. QED
  BY <1>1, DispatchInvariant, PTL
=============================================================================
