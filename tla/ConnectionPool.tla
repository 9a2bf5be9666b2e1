--------------------------- MODULE ConnectionPool ---------------------------
(* The connection pool of compio-postgres (libs/compio-postgres/src/pool.rs):*)
(* checkout with its FIFO queue and direct hand-offs, return, housekeeping,  *)
(* cancellation and graceful close.                                          *)
(*                                                                           *)
(* The pool lives on one thread: what runs between two awaits is one step.   *)
(* A caller that awaits is polled again once its waker was taken, and may be *)
(* polled or dropped at any other time.                                      *)
EXTENDS Naturals, Sequences, FiniteSets

CONSTANTS
    Callers, Closers,
    Pools,              \* the pools looked at, as WellConfigured describes them
    Null

\* A pool: its PoolConfig sizes, who calls it and who closes it, what borrowers
\* do ("raw", "drop", "token", "timeout"), and a bound on the sessions that
\* expire, close or fail.
WellConfigured(p) ==
    /\ p.max_size \in Nat \ {0} /\ p.min_idle \in 0..p.max_size
    /\ p.callers \subseteq Callers /\ p.closers \subseteq Closers
    /\ p.uses \subseteq {"raw", "drop", "token", "timeout"}
    /\ p.spoils \in Nat

\* A session: may the pool reuse it, is a transaction open on it once all that
\* was queued has run, has the driver seen the end of all that, does it owe a
\* checkout barrier, did a cancel token outlive a lease.
Session == [ok : BOOLEAN, open : BOOLEAN, settled : BOOLEAN, dirty : BOOLEAN, token : BOOLEAN]

ASSUME PoolAssumption ==
    /\ \A p \in Pools : WellConfigured(p)
    /\ IsFiniteSet(Callers) /\ Null \notin Session

VARIABLES
    pool,               \* the pool in use; never changes
    idle,               \* sessions on the shelf; the last one is taken first
    waiters,            \* parked callers in arrival order
    slot,               \* the session handed to a parked caller who left the queue
    woken,              \* callers whose waker was taken
    total, active,      \* the hand-kept counters
    closed,
    caller,             \* where each caller is, and the session it has there
    closer,             \* callers of close: "no", "waiting", "woken", "done"
    keeper,             \* the housekeeper: "asleep", "connecting", "cancelled", "off"
    spoils

vars == <<pool, idle, waiters, slot, woken, total, active, closed, caller, closer, keeper,
          spoils>>

\* A connection just made.
Fresh == [ok |-> TRUE, open |-> FALSE, settled |-> TRUE, dirty |-> FALSE, token |-> FALSE]

At(place, s) == [at |-> place, has |-> s]
Pending == {"parked", "checking", "connecting"}

\* warm_up: max(pool.min_idle, 1) sessions on the shelf.
Warm == IF pool.min_idle = 0 THEN 1 ELSE pool.min_idle

Init ==
    /\ pool \in Pools
    /\ idle = [i \in 1..Warm |-> Fresh]
    /\ waiters = <<>> /\ slot = [c \in Callers |-> Null] /\ woken = {}
    /\ total = Warm /\ active = 0
    /\ closed = FALSE
    /\ caller = [c \in Callers |-> At("out", Null)]
    /\ closer = [k \in Closers |-> "no"]
    /\ keeper = "asleep"
    /\ spoils = 0

Put(c, where) == caller' = [caller EXCEPT ![c] = where]

\* What is left of a sequence at some of its positions, in their order.
Kept(q, at) == [i \in 1..Cardinality(at) |-> q[CHOOSE j \in at : Cardinality({l \in at : l <= j}) = i]]

Front(q) == IF q = <<>> THEN {} ELSE {Head(q)}

\* has_available_resource on an open pool.
Available(shelf, n) == shelf # <<>> \/ n < pool.max_size

\* wake_one_waiter, wake_one_waiter_if_available.
Wake(q) == IF closed THEN {} ELSE Front(q)
WakeIf(q, shelf, n) == IF Available(shelf, n) THEN Wake(q) ELSE {}

\* Fault: nobody is told of the free slot.
FreeSlotQuietly == total' = total - 1 /\ UNCHANGED woken

\* A permit is dropped: its slot is free and the head of the queue is woken.
FreeSlot ==
    /\ total' = total - 1
    /\ woken' = woken \cup Wake(waiters)

-----------------------------------------------------------------------------
(* Checkout: get_inner.                                                      *)

LastUsable(shelf) ==
    CHOOSE i \in 0..Len(shelf) :
        /\ i > 0 => shelf[i].ok
        /\ \A j \in (i + 1)..Len(shelf) : ~shelf[j].ok

\* A caller whose turn it is, with q behind it: unusable sessions are evicted
\* from the end of the shelf, the first usable one is taken to be checked;
\* without one a slot is reserved for a new connection; without a slot the
\* caller parks.
Claim(c, shelf, n, q, w) ==
    LET i     == LastUsable(shelf)
        left  == n - (Len(shelf) - i)
        alert == IF Len(shelf) > i THEN w \cup Front(q) ELSE w
    IN \/ /\ i > 0
          /\ idle' = SubSeq(shelf, 1, i - 1) /\ total' = left
          /\ Put(c, At("checking", shelf[i]))
          /\ waiters' = q /\ woken' = alert \cup WakeIf(q, idle', left)
       \/ /\ i = 0 /\ left < pool.max_size
          /\ idle' = <<>> /\ total' = left + 1
          /\ Put(c, At("connecting", Null))
          /\ waiters' = q /\ woken' = alert \cup WakeIf(q, <<>>, left + 1)
       \/ /\ i = 0 /\ left >= pool.max_size
          /\ idle' = <<>> /\ total' = left
          /\ Put(c, At("parked", Null))
          /\ waiters' = Append(q, c) /\ woken' = alert

\* Fault: a caller that finds something free takes it, whoever is queued.
ArriveFirst(c) ==
    /\ c \in pool.callers /\ caller[c].at = "out" /\ ~closed
    /\ Claim(c, idle, total, waiters, woken)
    /\ UNCHANGED <<pool, slot, active, closed, closer, keeper, spoils>>

\* A caller that finds others queued joins them before it looks at the shelf.
Arrive(c) ==
    /\ c \in pool.callers /\ caller[c].at = "out" /\ ~closed
    /\ IF waiters = <<>>
       THEN Claim(c, idle, total, waiters, woken)
       ELSE /\ Put(c, At("parked", Null))
            /\ waiters' = Append(waiters, c)
            /\ UNCHANGED <<idle, total, woken>>
    /\ UNCHANGED <<pool, slot, active, closed, closer, keeper, spoils>>

\* A poll of a parked caller: a session handed to it comes first; what is free
\* is for the head of the queue alone; otherwise its waker is in place again.
Poll(c) ==
    /\ caller[c].at = "parked" /\ ~closed
    /\ LET w == woken \ {c}
       IN IF slot[c] # Null
          THEN /\ slot' = [slot EXCEPT ![c] = Null]
               /\ Claim(c, Append(idle, slot[c]), total, waiters, w)
          ELSE /\ IF Front(waiters) = {c} /\ Available(idle, total)
                  THEN Claim(c, idle, total, Tail(waiters), w)
                  ELSE woken' = w /\ UNCHANGED <<idle, waiters, total, caller>>
               /\ UNCHANGED slot
    /\ UNCHANGED <<pool, active, closed, closer, keeper, spoils>>

\* Fault: the pool is not asked whether it is still open.
CheckPassesLate(c) ==
    /\ caller[c].at = "checking" /\ caller[c].has.ok
    /\ Put(c, At("holding", caller[c].has))
    /\ active' = active + 1
    /\ UNCHANGED <<pool, idle, waiters, slot, woken, total, closed, closer, keeper, spoils>>

\* The barrier, the liveness check and before_acquire pass, and the session is
\* still usable.
CheckPasses(c) ==
    /\ caller[c].at = "checking" /\ ~closed /\ caller[c].has.ok
    /\ Put(c, At("holding", [caller[c].has EXCEPT !.dirty = FALSE, !.settled = @ \/ caller[c].has.dirty]))
    /\ active' = active + 1
    /\ UNCHANGED <<pool, idle, waiters, slot, woken, total, closed, closer, keeper, spoils>>

\* One of them says no: the session is evicted and the caller, who keeps its
\* turn, claims again.
CheckRejects(c) ==
    /\ caller[c].at = "checking" /\ ~closed
    /\ Claim(c, idle, total - 1, waiters, woken \cup Front(waiters))
    /\ UNCHANGED <<pool, slot, active, closed, closer, keeper, spoils>>

Connected(c) ==
    /\ caller[c].at = "connecting" /\ ~closed
    /\ Put(c, At("holding", Fresh))
    /\ active' = active + 1
    /\ UNCHANGED <<pool, idle, waiters, slot, woken, total, closed, closer, keeper, spoils>>

\* The connection or after_connect fails, or before_acquire returns an error.
AcquireFails(c) ==
    /\ caller[c].at \in {"checking", "connecting"} /\ ~closed
    /\ FreeSlot
    /\ Put(c, At("out", Null))
    /\ UNCHANGED <<pool, idle, waiters, slot, active, closed, closer, keeper, spoils>>

\* deposit_freed_entry: to the head of the queue, or else on the shelf.
Deposit(s) ==
    IF waiters = <<>>
    THEN idle' = Append(idle, s) /\ UNCHANGED <<waiters, slot, woken>>
    ELSE /\ slot' = [slot EXCEPT ![Head(waiters)] = s]
         /\ waiters' = Tail(waiters)
         /\ woken' = woken \cup {Head(waiters)}
         /\ UNCHANGED idle

\* Fault: a wake-up that was meant for the dropped caller ends with it.
CancelParkedQuietly(c) ==
    /\ caller[c].at = "parked" /\ slot[c] = Null /\ ~closed
    /\ waiters' = Kept(waiters, {i \in DOMAIN waiters : waiters[i] # c})
    /\ woken' = woken \ {c}
    /\ Put(c, At("out", Null))
    /\ UNCHANGED <<pool, idle, slot, total, active, closed, closer, keeper, spoils>>

\* Fault: the dropped caller stays in the queue.
CancelParkedInPlace(c) ==
    /\ caller[c].at = "parked" /\ slot[c] = Null /\ ~closed
    /\ woken' = woken \ {c}
    /\ Put(c, At("out", Null))
    /\ UNCHANGED <<pool, idle, waiters, slot, total, active, closed, closer, keeper, spoils>>

\* The acquisition is dropped: acquire_timeout, or a caller that went away.
CancelParked(c) ==
    /\ caller[c].at = "parked" /\ slot[c] = Null /\ ~closed
    /\ waiters' = Kept(waiters, {i \in DOMAIN waiters : waiters[i] # c})
    /\ woken' = (woken \ {c}) \cup WakeIf(waiters', idle, total)
    /\ Put(c, At("out", Null))
    /\ UNCHANGED <<pool, idle, slot, total, active, closed, closer, keeper, spoils>>

\* Likewise with a session in the slot: it is passed on, or evicted.
CancelHandoff(c) ==
    /\ caller[c].at = "parked" /\ slot[c] # Null /\ ~closed
    /\ IF slot[c].ok
       THEN /\ IF waiters = <<>>
               THEN /\ idle' = Append(idle, slot[c])
                    /\ slot' = [slot EXCEPT ![c] = Null]
                    /\ woken' = woken \ {c} /\ UNCHANGED waiters
               ELSE /\ slot' = [slot EXCEPT ![c] = Null, ![Head(waiters)] = slot[c]]
                    /\ waiters' = Tail(waiters)
                    /\ woken' = (woken \ {c}) \cup {Head(waiters)} /\ UNCHANGED idle
            /\ UNCHANGED total
       ELSE /\ slot' = [slot EXCEPT ![c] = Null]
            /\ total' = total - 1 /\ woken' = (woken \ {c}) \cup Wake(waiters)
            /\ UNCHANGED <<idle, waiters>>
    /\ Put(c, At("out", Null))
    /\ UNCHANGED <<pool, active, closed, closer, keeper, spoils>>

\* Fault: the reservation of a dropped acquisition is never released.
CancelClaimLeaks(c) ==
    /\ caller[c].at \in {"checking", "connecting"} /\ ~closed
    /\ Put(c, At("out", Null))
    /\ UNCHANGED <<pool, idle, waiters, slot, woken, total, active, closed, closer, keeper, spoils>>

CancelClaim(c) ==
    /\ caller[c].at \in {"checking", "connecting"} /\ ~closed
    /\ FreeSlot
    /\ Put(c, At("out", Null))
    /\ UNCHANGED <<pool, idle, waiters, slot, active, closed, closer, keeper, spoils>>

-----------------------------------------------------------------------------
(* Borrowers.                                                                *)

Hold(c, s) ==
    /\ caller[c].at = "holding"
    /\ Put(c, At("holding", s))
    /\ UNCHANGED <<pool, idle, waiters, slot, woken, total, active, closed, closer, keeper, spoils>>

\* SQL sent as text may open or end a transaction, and a request that is given
\* up leaves its outcome unseen.
RawSql(c, open, settled) ==
    /\ "raw" \in pool.uses
    /\ Hold(c, [caller[c].has EXCEPT !.open = open, !.settled = settled])

\* Transaction::drop queues a ROLLBACK nobody waits for; that of a nested
\* transaction goes back to a savepoint only.
DropTransaction(c, savepoint) ==
    /\ "drop" \in pool.uses
    /\ Hold(c, [caller[c].has EXCEPT !.open = @ /\ savepoint, !.settled = FALSE, !.dirty = TRUE])

KeepToken(c) ==
    /\ "token" \in pool.uses
    /\ Hold(c, [caller[c].has EXCEPT !.token = TRUE])

Idle(s) == s.settled /\ ~s.open

\* run_pool_command past its deadline: a session known to be idle, with no
\* token kept, stays as it is; any other is brought back to idle, or closed.
CommandExpires(c) ==
    /\ "timeout" \in pool.uses
    /\ \/ Hold(c, [caller[c].has EXCEPT !.open = FALSE, !.settled = TRUE, !.dirty = @ /\ ~caller[c].has.open])
       \/ Hold(c, [caller[c].has EXCEPT !.ok = FALSE])
    /\ ~Idle(caller[c].has) \/ caller[c].has.token

\* Fault: a dirty session is taken to have its ROLLBACK queued already.
RolledUnlessDirty(s) ==
    IF Idle(s) \/ s.dirty THEN s ELSE [s EXCEPT !.open = FALSE, !.settled = FALSE, !.dirty = TRUE]

\* return_client once its keep-or-discard decisions are made: anything but a
\* settled idle session gets a ROLLBACK queued.
Rolled(s) == IF Idle(s) THEN s ELSE [s EXCEPT !.open = FALSE, !.settled = FALSE, !.dirty = TRUE]

\* keep is the answer of after_release; a lease that is discarded has none.
Return(c, keep) ==
    LET s == caller[c].has
    IN /\ caller[c].at = "holding" /\ ~closed
       /\ active' = active - 1
       /\ Put(c, At("out", Null))
       /\ IF s.ok /\ ~s.token /\ keep
          THEN Deposit(Rolled(s)) /\ UNCHANGED total
          ELSE FreeSlot /\ UNCHANGED <<idle, waiters, slot>>
       /\ UNCHANGED <<pool, closed, closer, keeper, spoils>>

\* Fault: the last return wakes one closer, as if only one could wait.
ReturnClosedWakesOne(c) ==
    LET waiting == {k \in Closers : closer[k] = "waiting"}
    IN /\ caller[c].at = "holding" /\ closed
       /\ active' = active - 1 /\ total' = total - 1
       /\ Put(c, At("out", Null))
       /\ closer' = IF active' = 0 /\ waiting # {}
                     THEN [closer EXCEPT ![CHOOSE k \in waiting : TRUE] = "woken"]
                     ELSE closer
       /\ UNCHANGED <<pool, idle, waiters, slot, woken, closed, keeper, spoils>>

\* On a closed pool the session is closed; the last one wakes every closer.
ReturnClosed(c) ==
    /\ caller[c].at = "holding" /\ closed
    /\ active' = active - 1 /\ total' = total - 1
    /\ Put(c, At("out", Null))
    /\ closer' = [k \in Closers |-> IF active' = 0 /\ closer[k] = "waiting" THEN "woken" ELSE closer[k]]
    /\ UNCHANGED <<pool, idle, waiters, slot, woken, closed, keeper, spoils>>

\* A session expires, its connection closes or its reader fails.
Spoiled(s) == [s EXCEPT !.ok = FALSE]

Spoil ==
    /\ spoils < pool.spoils /\ spoils' = spoils + 1
    /\ \/ /\ \E i \in DOMAIN idle : idle' = [idle EXCEPT ![i] = Spoiled(@)]
          /\ UNCHANGED <<slot, caller>>
       \/ /\ \E c \in Callers : slot[c] # Null /\ slot' = [slot EXCEPT ![c] = Spoiled(@)]
          /\ UNCHANGED <<idle, caller>>
       \/ /\ \E c \in Callers : caller[c].has # Null /\ Put(c, [caller[c] EXCEPT !.has = Spoiled(@)])
          /\ UNCHANGED <<idle, slot>>
    /\ UNCHANGED <<pool, waiters, woken, total, active, closed, closer, keeper>>

-----------------------------------------------------------------------------
(* Housekeeping.                                                             *)

\* Fault: the refill is bounded by what the shelf lacks alone.
RefillUnbounded(shelf, n, q, w) ==
    IF Len(shelf) < pool.min_idle
    THEN keeper' = "connecting" /\ total' = n + 1 /\ woken' = w \cup WakeIf(q, shelf, n + 1)
    ELSE keeper' = "asleep" /\ total' = n /\ woken' = w

\* The refill loop: while the shelf is short and a slot is free, reserve one.
Refill(shelf, n, q, w) ==
    IF Len(shelf) < pool.min_idle /\ n < pool.max_size
    THEN keeper' = "connecting" /\ total' = n + 1 /\ woken' = w \cup WakeIf(q, shelf, n + 1)
    ELSE keeper' = "asleep" /\ total' = n /\ woken' = w

\* Unusable sessions go, and of those idle too long all but pool.min_idle.  The order
\* swap_remove leaves the shelf in is not modelled.
Housekeep(keep) ==
    /\ keeper = "asleep" /\ ~closed
    /\ keep \subseteq {i \in DOMAIN idle : idle[i].ok}
    /\ \/ keep = {i \in DOMAIN idle : idle[i].ok}
       \/ Cardinality(keep) >= pool.min_idle
    /\ LET kept    == Kept(idle, keep)
           evicted == Len(idle) - Len(kept)
       IN /\ idle' = kept
          /\ Refill(kept, total - evicted, waiters, IF evicted > 0 THEN woken \cup Front(waiters) ELSE woken)
    /\ UNCHANGED <<pool, waiters, slot, active, closed, caller, closer, spoils>>

\* A refill is deposited; what spoiled on the shelf meanwhile is reaped before
\* the loop looks at its bounds again.
KeeperConnected ==
    /\ keeper = "connecting" /\ ~closed
    /\ LET q      == IF waiters = <<>> THEN <<>> ELSE Tail(waiters)
           full   == IF waiters = <<>> THEN Append(idle, Fresh) ELSE idle
           shelf  == Kept(full, {i \in DOMAIN full : full[i].ok})
           reaped == Len(full) - Len(shelf)
           w      == woken \cup Front(waiters) \cup IF reaped > 0 THEN Front(q) ELSE {}
       IN /\ slot' = [c \in Callers |-> IF c \in Front(waiters) THEN Fresh ELSE slot[c]]
          /\ waiters' = q /\ idle' = shelf
          /\ Refill(shelf, total - reaped, q, w)
    /\ UNCHANGED <<pool, active, closed, caller, closer, spoils>>

KeeperFails ==
    /\ keeper = "connecting" /\ ~closed
    /\ FreeSlot
    /\ keeper' = "asleep"
    /\ UNCHANGED <<pool, idle, waiters, slot, active, closed, caller, closer, spoils>>

-----------------------------------------------------------------------------
(* Close.                                                                    *)

Handed == {c \in Callers : slot[c] # Null}

\* begin_close drops the shelf and the hand-offs, cancels the housekeeper, empties
\* the queue and wakes every pending acquisition; close then waits for borrowers.
Close(k) ==
    /\ k \in pool.closers /\ closer[k] = "no"
    /\ closer' = [closer EXCEPT ![k] = IF active = 0 THEN "done" ELSE "waiting"]
    /\ IF closed
       THEN UNCHANGED <<idle, waiters, slot, woken, total, closed, keeper>>
       ELSE /\ closed' = TRUE
            /\ keeper' = IF keeper = "connecting" THEN "cancelled" ELSE "off"
            /\ idle' = <<>> /\ waiters' = <<>> /\ slot' = [c \in Callers |-> Null]
            /\ total' = total - Len(idle) - Cardinality(Handed)
            /\ woken' = {c \in Callers : caller[c].at \in Pending}
    /\ UNCHANGED <<pool, active, caller, spoils>>

\* The executor drops the cancelled housekeeper, whose reservation goes with it.
KeeperDropped ==
    /\ keeper = "cancelled"
    /\ keeper' = "off" /\ total' = total - 1
    /\ UNCHANGED <<pool, idle, waiters, slot, woken, active, closed, caller, closer, spoils>>

\* Fault: an acquisition that finds the pool closed keeps its slot.
AcquireClosedLeaks(c) ==
    /\ caller[c].at \in Pending /\ closed
    /\ woken' = woken \ {c}
    /\ Put(c, At("out", Null))
    /\ UNCHANGED <<pool, idle, waiters, slot, total, active, closed, closer, keeper, spoils>>

\* A pending acquisition finds the pool closed.
AcquireClosed(c) ==
    /\ caller[c].at \in Pending /\ closed
    /\ total' = IF caller[c].at = "parked" THEN total ELSE total - 1
    /\ woken' = woken \ {c}
    /\ Put(c, At("out", Null))
    /\ UNCHANGED <<pool, idle, waiters, slot, active, closed, closer, keeper, spoils>>

CloseReturns(k) ==
    /\ closer[k] = "woken" /\ active = 0
    /\ closer' = [closer EXCEPT ![k] = "done"]
    /\ UNCHANGED <<pool, idle, waiters, slot, woken, total, active, closed, caller, keeper, spoils>>

\* A close that is dropped may be called again.
CancelClose(k) ==
    /\ closer[k] \in {"waiting", "woken"}
    /\ closer' = [closer EXCEPT ![k] = "no"]
    /\ UNCHANGED <<pool, idle, waiters, slot, woken, total, active, closed, caller, keeper, spoils>>

-----------------------------------------------------------------------------
Cancel(c) == CancelParked(c) \/ CancelHandoff(c) \/ CancelClaim(c)

Check(c) == CheckPasses(c) \/ CheckRejects(c) \/ Connected(c) \/ AcquireFails(c)

Use(c) ==
    \/ \E open, settled \in BOOLEAN : RawSql(c, open, settled)
    \/ \E savepoint \in BOOLEAN : DropTransaction(c, savepoint)
    \/ KeepToken(c) \/ CommandExpires(c)

GiveBack(c) == ReturnClosed(c) \/ \E keep \in BOOLEAN : Return(c, keep)

Next ==
    \/ \E c \in Callers : \/ Arrive(c) \/ Poll(c) \/ Check(c) \/ Cancel(c)
                          \/ Use(c) \/ GiveBack(c) \/ AcquireClosed(c)
    \/ Spoil
    \/ \E keep \in SUBSET (1..pool.max_size) : Housekeep(keep)
    \/ KeeperConnected \/ KeeperFails \/ KeeperDropped
    \/ \E k \in Closers : Close(k) \/ CloseReturns(k) \/ CancelClose(k)

Spec == Init /\ [][Next]_vars

\* A woken task is polled, awaited input and output completes, and borrowers
\* give back what they borrowed.  Nobody has to arrive, cancel or close.  The
\* poll is strongly fair: the housekeeper, which may take the slot the head of
\* the queue was woken for, runs once an interval and not between every wake
\* and the poll that follows it.
Live ==
    /\ Spec
    /\ WF_vars(KeeperConnected \/ KeeperFails \/ KeeperDropped)
    /\ \A c \in Callers :
        /\ WF_vars(c \in woken /\ Poll(c))
        /\ SF_vars(c \in woken /\ Poll(c) /\ caller'[c].at # "parked")
        /\ WF_vars(AcquireClosed(c))
        /\ WF_vars(Check(c)) /\ WF_vars(GiveBack(c))
    /\ \A k \in Closers : WF_vars(CloseReturns(k))

-----------------------------------------------------------------------------
(* Properties.                                                               *)

TypeOK ==
    /\ pool \in Pools
    /\ idle \in Seq(Session) /\ waiters \in Seq(Callers) /\ woken \subseteq Callers
    /\ \A c \in Callers : slot[c] = Null \/ slot[c] \in Session
    /\ total \in 0..pool.max_size /\ active \in 0..pool.max_size
    /\ closed \in BOOLEAN
    /\ \A c \in Callers :
        /\ caller[c].at \in Pending \cup {"out", "holding"}
        /\ IF caller[c].at \in {"checking", "holding"} THEN caller[c].has \in Session ELSE caller[c].has = Null
    /\ closer \in [Closers -> {"no", "waiting", "woken", "done"}]
    /\ keeper \in {"asleep", "connecting", "cancelled", "off"}
    /\ spoils \in 0..pool.spoils

Places(P) == {c \in Callers : caller[c].at \in P}

\* The hand-kept counters tell the truth: every slot of total is a session on
\* the shelf, handed over, borrowed or being checked, or a connection being
\* made, and the pool never holds more than max_size of them.
SlotsAccounted ==
    /\ total = Len(idle) + Cardinality(Handed) + Cardinality(Places({"checking", "connecting", "holding"}))
                 + IF keeper \in {"connecting", "cancelled"} THEN 1 ELSE 0
    /\ active = Cardinality(Places({"holding"}))
    /\ total <= pool.max_size

\* No wake-up is lost: while something is free and callers are parked, the
\* head of the queue has been woken, or a session handed over is about to be
\* taken by a caller who then wakes it.
HeadAwake ==
    ~closed /\ waiters # <<>> /\ Available(idle, total) =>
        Head(waiters) \in woken \/ Handed # {}

\* A parked caller is in the queue or has a session handed to it, not both.
ParkedOnce ==
    ~closed => \A c \in Callers :
        Cardinality({i \in DOMAIN waiters : waiters[i] = c}) + (IF slot[c] # Null THEN 1 ELSE 0)
            = IF caller[c].at = "parked" THEN 1 ELSE 0

\* A session on offer carries no transaction of an earlier borrower, and no
\* token that could cancel a later one's work.
SessionsComeClean ==
    \A s \in {idle[i] : i \in DOMAIN idle}
             \cup {slot[c] : c \in Handed}
             \cup {caller[c].has : c \in Places({"checking"})} : ~s.open /\ ~s.token

\* Nobody overtakes: a caller takes a session or a slot only when no caller
\* stood before it in the queue.
NoOvertaking ==
    [][\A c \in Callers :
         caller[c].at \in {"out", "parked"} /\ caller'[c].at \in {"checking", "connecting"} =>
            slot[c] # Null \/ waiters = <<>> \/ Head(waiters) = c]_vars

\* A closed pool only empties: nobody borrows from it and it opens nothing.
ClosedOnlyDrains ==
    [][closed => closed' /\ active' <= active /\ total' <= total /\ idle' = <<>>]_vars

\* A parked caller is served, fails or gives up.
CallersServed == \A c \in Callers : caller[c].at = "parked" ~> caller[c].at # "parked"

\* Every caller of close is let go once the borrowers have given back.
CloseEnds == \A k \in Closers : closer[k] = "waiting" ~> closer[k] # "waiting" /\ closer[k] # "woken"

\* A closed pool ends with nothing held.
ClosedPoolEmpties == closed ~> total = 0

\* The pool's books agree: counters with the places of sessions, the queue with
\* the hand-offs made from it (total, active, waiters).
PoolConsistent == TypeOK /\ SlotsAccounted /\ ParkedOnce

\* Parked callers are served, and in the order they came (Pool::acquire).
ServedInOrder == NoOvertaking /\ CallersServed

\* Close drains the pool: it never fills again, ends empty, and lets its callers
\* go (close).
CloseDrains == ClosedOnlyDrains /\ CloseEnds /\ ClosedPoolEmpties
=============================================================================
