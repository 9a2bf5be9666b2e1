------------------------- MODULE IdempotentDispatch -------------------------
(* The gateway's dispatch of idempotent procedures: the dedupe decision      *)
(* before the worker call, the forward to a worker over a pooled connection, *)
(* and the capture of the response behind it (zeroship-gateway:              *)
(* idempotency.rs, router/dispatch.rs, proxy.rs).                            *)
(*                                                                           *)
(* The dedupe store is shared by the gateway's threads.  Each of its calls   *)
(* is atomic and nothing spans two of them.  One app and one procedure.      *)
(* Time is counted in units: what is left of an entry, of a lock and of a    *)
(* wait, and how long a request has held its lock.                           *)
EXTENDS Naturals, Sequences, FiniteSets

CONSTANTS
    Requests,
    Anon, NoKey, Null,
    Procedures          \* the procedures looked at, as Procedure describes them

\* A procedure and the requests that call it: the identity resolved for each
\* request, or Anon; its Idempotency-Key, or NoKey; its input; whether the
\* procedure is declared anonymous; which keys are random UUIDs; how long
\* entries and locks live and a request waits, the app's cap of live keys;
\* whether a worker may stop reading a request or sending a chunked body, which
\* no deadline covers; and bounds on how long a request holds its lock
\* otherwise, on store calls that fail and on requests whose task is dropped
\* half-way.
Procedure(p) ==
    /\ p.calls \subseteq Requests
    /\ \A f \in {"principal", "key", "body"} : DOMAIN p[f] = Requests
    /\ p.open \in BOOLEAN /\ p.stalls \in BOOLEAN
    /\ \A t \in {"entry_ttl", "lock_ttl", "max_live"} : p[t] \in Nat \ {0}
    /\ p.entry_ttl >= p.lock_ttl
    /\ p.inflight_wait \in 0..p.lock_ttl
    /\ \A t \in {"max_hold", "store_faults", "vanish"} : p[t] \in Nat

ASSUME DispatchAssumption == \A p \in Procedures : Procedure(p)

VARIABLES
    proc,               \* the procedure called; never changes
    entries,            \* the stored response of each key, and the time it has left
    locks,              \* the time each in-flight lock has left; it names no owner
    fifo,               \* the app's keys in the order they were first stored
    req,                \* where each request is
    storeFaults,
    left                \* the requests that ended without letting go of their lock

vars == <<proc, entries, locks, fifo, req, storeFaults, left>>

\* Fault: the caller is left out of the key.
entry_key_of_anyone(r) == <<proc.key[r]>>

\* The key both of the dedupe entry and of the in-flight lock.
entry_key(r) == <<proc.principal[r], proc.key[r]>>

Keyed == {r \in proc.calls : proc.key[r] # NoKey}
Slots == {entry_key(r) : r \in Keyed}

\* A response: who authored it, its class, the request it was made for, and
\* whether its body arrived whole.
Response == [origin : {"worker", "gateway"}, class : {"outcome", "5xx"}, for : Requests, whole : BOOLEAN]

Ok(r, whole)   == [origin |-> "worker", class |-> "outcome", for |-> r, whole |-> whole]
Fault(r)       == [origin |-> "worker", class |-> "5xx", for |-> r, whole |-> TRUE]
Bad(r)         == [origin |-> "gateway", class |-> "5xx", for |-> r, whole |-> TRUE]
Redirected(r)  == [origin |-> "gateway", class |-> "outcome", for |-> r, whole |-> TRUE]

\* A request's place, and what it has there: a response, the time it has
\* waited or held the lock, whether its connection is pooled, whether it has
\* already been sent once more, how often the handler has run for it.
At(place) == [at |-> place, resp |-> Null, time |-> 0, pooled |-> FALSE, resent |-> FALSE, ran |-> 0]

\* The places between taking the lock and letting go of it.
Holding == {"forward", "writing", "sent", "body", "replied", "release"}

\* Of these, the ones without a deadline: the request is being written, or a
\* chunked body is being buffered.
NoDeadline == {"writing", "body"}

Init ==
    /\ proc \in Procedures
    /\ entries = [k \in Slots |-> Null]
    /\ locks = [k \in Slots |-> 0]
    /\ fifo = <<>>
    /\ req = [r \in Requests |-> At(IF r \in proc.calls THEN "new" ELSE "never")]
    /\ storeFaults = 0 /\ left = {}

store == <<entries, locks, fifo>>
faults == <<proc, storeFaults, left>>

Move(r, to) == req' = [req EXCEPT ![r] = to]

\* The request is answered: "own" with the response made for it, "hit" with a
\* stored one, or with an error of the gateway's.
Answer(r, how, resp) == Move(r, [At(how) EXCEPT !.resp = resp])
Answers == {"own", "hit", "conflict", "refused", "unavailable", "aborted"}

StoreFails ==
    /\ storeFaults < proc.store_faults
    /\ storeFaults' = storeFaults + 1
    /\ UNCHANGED <<proc, left, store>>

-----------------------------------------------------------------------------
(* Before the worker call: handle_idempotency_pre_dispatch, pre_dispatch.    *)

\* No readable caller, a guessable key in the shared namespace, or no key.
Inadmissible(r) ==
    \/ proc.principal[r] = Anon /\ ~proc.open
    \/ proc.open /\ proc.key[r] # NoKey /\ proc.key[r] \notin proc.strong
    \/ proc.key[r] = NoKey

Refuse(r) ==
    /\ req[r].at = "new" /\ Inadmissible(r)
    /\ Answer(r, "refused", Null)
    /\ UNCHANGED <<store, faults>>

\* A stored entry answers: the same input is a hit, another a conflict.
Replay(r) ==
    LET stored == entries[entry_key(r)]
    IN IF proc.body[stored.resp.for] = proc.body[r]
       THEN Answer(r, "hit", stored.resp)
       ELSE Answer(r, "conflict", Null)

\* The first read of the store.
GetEntry(r) ==
    /\ req[r].at = "new" /\ ~Inadmissible(r)
    /\ IF entries[entry_key(r)] # Null THEN Replay(r) ELSE Move(r, At("absent"))
    /\ UNCHANGED <<store, faults>>

\* Fault: the lock is set whether or not it is held.
AcquireAnyway(r) ==
    /\ req[r].at = "absent"
    /\ locks' = [locks EXCEPT ![entry_key(r)] = proc.lock_ttl]
    /\ Move(r, At("forward"))
    /\ UNCHANGED <<entries, fifo, faults>>

\* The entry was absent: take the lock, or wait for whoever has it.
TryAcquireLock(r) ==
    /\ req[r].at = "absent"
    /\ IF locks[entry_key(r)] = 0
       THEN /\ locks' = [locks EXCEPT ![entry_key(r)] = proc.lock_ttl]
            /\ Move(r, At("forward"))
       ELSE Move(r, At("waiting")) /\ UNCHANGED locks
    /\ UNCHANGED <<entries, fifo, faults>>

\* Fault: the wait has no deadline.
PollForEver(r) ==
    /\ req[r].at = "waiting"
    /\ entries[entry_key(r)] # Null /\ Replay(r)
    /\ UNCHANGED <<store, faults>>

\* A round of wait_for_entry: it reads before it looks at its deadline.
Poll(r) ==
    /\ req[r].at = "waiting"
    /\ \/ entries[entry_key(r)] # Null /\ Replay(r)
       \/ entries[entry_key(r)] = Null /\ req[r].time >= proc.inflight_wait /\ Answer(r, "aborted", Null)
    /\ UNCHANGED <<store, faults>>

\* A store error before the call fails closed.
PreDispatchFails(r) ==
    /\ \/ req[r].at = "new" /\ ~Inadmissible(r)
       \/ req[r].at \in {"absent", "waiting"}
    /\ Answer(r, "unavailable", Null)
    /\ StoreFails

-----------------------------------------------------------------------------
(* The worker call: forward_to_worker_path, handle_dispatch.                 *)

\* The runs of the handler once this attempt is over.
Runs(r, did) == req[r].ran + IF did THEN 1 ELSE 0

Replied(r, resp, did) ==
    Move(r, [At("replied") EXCEPT !.resp = resp, !.time = req[r].time, !.ran = Runs(r, did)])

\* A pooled connection or a fresh one; what is sent again goes out on a fresh
\* one.
Send(r, pooled) ==
    /\ req[r].at = "forward"
    /\ req[r].resent => ~pooled
    /\ Move(r, [req[r] EXCEPT !.at = "writing", !.pooled = pooled])
    /\ UNCHANGED <<store, faults>>

ConnectFails(r) ==
    /\ req[r].at = "forward"
    /\ Replied(r, Bad(r), FALSE)
    /\ UNCHANGED <<store, faults>>

\* The request is written, which takes as long as the worker's reading does.
Written(r) ==
    /\ req[r].at = "writing"
    /\ Move(r, [req[r] EXCEPT !.at = "sent"])
    /\ UNCHANGED <<store, faults>>

\* A failed write is made good once.
WriteFails(r) ==
    /\ req[r].at = "writing"
    /\ IF req[r].resent
       THEN Replied(r, Bad(r), FALSE)
       ELSE Move(r, [req[r] EXCEPT !.at = "forward", !.pooled = FALSE, !.resent = TRUE])
    /\ UNCHANGED <<store, faults>>

\* Fault: the retry's connection still counts as pooled.
ClosedUnreadAgain(r, did) ==
    /\ req[r].at = "sent"
    /\ Move(r, [req[r] EXCEPT !.at = "forward", !.ran = Runs(r, did)])
    /\ UNCHANGED <<store, faults>>

\* The connection closes before a byte of the response: the worker may have
\* run the handler or not.  On a pooled connection the request is sent again.
ClosedUnread(r, did) ==
    /\ req[r].at = "sent"
    /\ IF req[r].pooled
       THEN Move(r, [req[r] EXCEPT !.at = "forward", !.pooled = FALSE, !.resent = TRUE, !.ran = Runs(r, did)])
       ELSE Replied(r, Bad(r), did)
    /\ UNCHANGED <<store, faults>>

\* A read that times out, or that fails behind the first byte.
ReadFails(r, did) ==
    /\ req[r].at = "sent"
    /\ Replied(r, Bad(r), did)
    /\ UNCHANGED <<store, faults>>

\* What the worker's response comes to: the handler's outcome, its body whole
\* or cut short; a 5xx; or a 401 the gateway replaces with its own answer.
Replies(r) == {Ok(r, TRUE), Ok(r, FALSE), Fault(r), Redirected(r)}

\* A response of known length arrives, or one the gateway replaces.
Respond(r, resp) ==
    /\ req[r].at = "sent"
    /\ Replied(r, resp, TRUE)
    /\ UNCHANGED <<store, faults>>

\* The headers of a chunked response arrive; its body is relayed and buffered
\* for as long as the worker keeps it open.
Streams(r) ==
    /\ req[r].at = "sent"
    /\ Move(r, [req[r] EXCEPT !.at = "body"])
    /\ UNCHANGED <<store, faults>>

\* The chunked body ends, with its last chunk or in an error of the relay,
\* which buffer_response_body takes for its end.
BodyEnds(r, resp) ==
    /\ req[r].at = "body"
    /\ resp.origin = "worker"
    /\ Replied(r, resp, TRUE)
    /\ UNCHANGED <<store, faults>>

-----------------------------------------------------------------------------
(* Behind the worker call: capture_response_for_idempotency.                 *)

\* Only the worker's own answer below 500 is a definitive outcome.
Storable(resp) == resp.origin = "worker" /\ resp.class = "outcome"

\* A key enters the queue once.
Queued(k) == IF \E i \in DOMAIN fifo : fifo[i] = k THEN fifo ELSE Append(fifo, k)

\* Fault: the evicted key leaves the queue and its entry stays.
PutKeepingEvicted(k, resp) ==
    /\ fifo' = IF Len(Queued(k)) > proc.max_live THEN Tail(Queued(k)) ELSE Queued(k)
    /\ entries' = [entries EXCEPT ![k] = [resp |-> resp, ttl |-> proc.entry_ttl]]

\* put_entry: over the cap the head of the queue is evicted.
PutEntry(k, resp) ==
    LET queue == Queued(k)
        over  == Len(queue) > proc.max_live
        put   == [entries EXCEPT ![k] = [resp |-> resp, ttl |-> proc.entry_ttl]]
    IN /\ fifo' = IF over THEN Tail(queue) ELSE queue
       /\ entries' = IF over THEN [put EXCEPT ![Head(queue)] = Null] ELSE put

Capture(r) ==
    /\ req[r].at = "replied"
    /\ IF Storable(req[r].resp) THEN PutEntry(entry_key(r), req[r].resp) ELSE UNCHANGED <<entries, fifo>>
    /\ Move(r, [req[r] EXCEPT !.at = "release"])
    /\ UNCHANGED <<locks, faults>>

\* The outcome could not be stored; the lock is let go of all the same.
CaptureFails(r) ==
    /\ req[r].at = "replied" /\ Storable(req[r].resp)
    /\ Move(r, [req[r] EXCEPT !.at = "release"])
    /\ StoreFails

\* Fault: the lock is kept behind a response that was not stored.
ReleaseStored(r) ==
    /\ req[r].at = "release"
    /\ locks' = IF Storable(req[r].resp) THEN [locks EXCEPT ![entry_key(r)] = 0] ELSE locks
    /\ Answer(r, "own", req[r].resp)
    /\ UNCHANGED <<entries, fifo, faults>>

\* release_lock removes whatever lock the key has.
Release(r) ==
    /\ req[r].at = "release"
    /\ locks' = [locks EXCEPT ![entry_key(r)] = 0]
    /\ Answer(r, "own", req[r].resp)
    /\ UNCHANGED <<entries, fifo, faults>>

\* A release that fails is passed over: the request is answered all the same.
ReleaseFails(r) ==
    /\ req[r].at = "release"
    /\ storeFaults < proc.store_faults
    /\ storeFaults' = storeFaults + 1 /\ left' = left \cup {r}
    /\ Answer(r, "own", req[r].resp)
    /\ UNCHANGED <<proc, store>>

-----------------------------------------------------------------------------
\* The request's task is dropped and nothing after it runs.
Vanish(r) ==
    /\ req[r].at \in Holding \cup {"absent", "waiting"}
    /\ Cardinality({s \in Requests : req[s].at = "gone"}) < proc.vanish
    /\ left' = IF req[r].at \in Holding THEN left \cup {r} ELSE left
    /\ Move(r, At("gone"))
    /\ UNCHANGED <<proc, store, storeFaults>>

Less(n) == IF n = 0 THEN 0 ELSE n - 1

\* A stalled worker keeps a request past max_hold; how long past is not counted.
Stalled(x) == proc.stalls /\ x.at \in NoDeadline

\* A unit of time: entries and locks lapse, waits and holds grow.
Aged(x) ==
    IF \/ x.at = "waiting" /\ x.time < proc.inflight_wait
       \/ x.at \in Holding /\ x.time < proc.max_hold
    THEN [x EXCEPT !.time = @ + 1]
    ELSE x

Tick ==
    /\ \A r \in Requests : req[r].at \in Holding => req[r].time < proc.max_hold \/ Stalled(req[r])
    /\ entries' = [k \in Slots |->
           IF entries[k] = Null \/ entries[k].ttl = 1 THEN Null ELSE [entries[k] EXCEPT !.ttl = @ - 1]]
    /\ locks' = [k \in Slots |-> Less(locks[k])]
    /\ req' = [r \in Requests |-> Aged(req[r])]
    /\ UNCHANGED <<fifo, faults>>

Decide(r) == Refuse(r) \/ GetEntry(r) \/ TryAcquireLock(r) \/ Poll(r) \/ PreDispatchFails(r)

Forward(r) ==
    \/ ConnectFails(r) \/ Written(r) \/ WriteFails(r) \/ Streams(r)
    \/ \E pooled \in BOOLEAN : Send(r, pooled)
    \/ \E did \in BOOLEAN : ClosedUnread(r, did) \/ ReadFails(r, did)
    \/ \E resp \in Replies(r) : Respond(r, resp) \/ BodyEnds(r, resp)

Settle(r) == Capture(r) \/ CaptureFails(r) \/ Release(r) \/ ReleaseFails(r)

Next ==
    \/ Tick
    \/ \E r \in Requests : Decide(r) \/ Forward(r) \/ Settle(r) \/ Vanish(r)

Spec == Init /\ [][Next]_vars

\* A request that arrived is worked on, and time passes.  The call of the worker
\* goes on where a deadline bounds it; a worker that may stall need never read
\* the rest of a request or send the rest of a chunked body.
Attend(r) ==
    \/ TryAcquireLock(r) \/ Poll(r) \/ Settle(r)
    \/ ~Stalled(req[r]) /\ Forward(r)

Live == Spec /\ WF_vars(Tick) /\ \A r \in Requests : WF_vars(Attend(r))

-----------------------------------------------------------------------------
(* Properties.                                                               *)

TypeOK ==
    /\ proc \in Procedures
    /\ \A k \in Slots : entries[k] = Null \/ entries[k] \in [resp : Response, ttl : 1..proc.entry_ttl]
    /\ locks \in [Slots -> 0..proc.lock_ttl]
    /\ fifo \in Seq(Slots)
    /\ \A r \in Requests :
        /\ req[r].at \in Holding \cup Answers \cup {"new", "absent", "waiting", "gone", "never"}
        /\ req[r].resp = Null \/ req[r].resp \in Response
        /\ req[r].time \in Nat /\ req[r].pooled \in BOOLEAN /\ req[r].resent \in BOOLEAN
        /\ req[r].ran \in 0..2
    /\ storeFaults \in 0..proc.store_faults /\ left \subseteq Requests

\* What a request is given from the store is what the request it was made for
\* was, or is about to be, answered with: a worker's answer below 500 to the
\* same caller, key and input, never the gateway's own answer and never a 5xx.
\* The store would take a 5xx (capture_response, and the test
\* error_response_is_replayed); capture_response_for_idempotency does not hand
\* it one.
OwnOutcomesReplayed ==
    \A r \in Requests : req[r].at = "hit" =>
        LET resp == req[r].resp
            of   == resp.for
        IN /\ resp.origin = "worker" /\ resp.class = "outcome"
           /\ proc.principal[of] = proc.principal[r] /\ proc.key[of] = proc.key[r]
           /\ proc.body[of] = proc.body[r]
           /\ req[of].at = "gone" \/ (req[of].at \in {"release", "own"} /\ req[of].resp = resp)

\* Nobody waits out a lock that no request holds: a lock still running belongs
\* to a request of its key between taking it and letting go, or to one whose
\* task was dropped or whose release failed.
LocksHeld ==
    \A k \in Slots : locks[k] > 0 =>
        \E r \in Keyed : entry_key(r) = k /\ (req[r].at \in Holding \/ r \in left)

\* The app never keeps more live entries than its cap, and every one of them
\* is in the queue evictions are taken from.
LiveKeysCapped ==
    LET live == {k \in Slots : entries[k] # Null}
    IN /\ Cardinality(live) <= proc.max_live
       /\ \A k \in live : \E i \in DOMAIN fifo : fifo[i] = k

\* While no dispatch outlives its lock, at most one request of a key is between
\* taking the lock and letting go of it, whatever tasks are dropped and
\* whichever releases fail.
OneInFlight ==
    proc.max_hold < proc.lock_ttl /\ ~proc.stalls => \A r, s \in Keyed :
        r # s /\ entry_key(r) = entry_key(s) => ~(req[r].at \in Holding /\ req[s].at \in Holding)

\* Every request that arrived is answered, whatever became of the request it
\* waits behind; a worker that stalls for good where the forward has no deadline
\* (write_all, relay_chunked) holds up the answer of its own request alone.
EveryRequestAnswered ==
    \A r \in Requests :
        req[r].at \in Holding \cup {"absent", "waiting"} /\ ~Stalled(req[r])
            ~> req[r].at \in Answers \cup {"gone"} \/ Stalled(req[r])

\* Locks and their holders agree, in both directions (try_acquire_lock,
\* release_lock).
LocksMatchHolders == TypeOK /\ LocksHeld /\ OneInFlight
=============================================================================
