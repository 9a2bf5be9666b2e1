---------------------------- MODULE UsageOutbox ----------------------------
(* A usage producer (zeroship-metering): platform counters, the write-ahead  *)
(* log that drained windows are appended to, and the task that publishes    *)
(* that log to the broker.                                                   *)
(*                                                                           *)
(* Usage is a set of units.  A drained window is an event that carries the   *)
(* units counted since the last drain under one fresh id, so the set of its  *)
(* units stands for its id.  Both kinds of producer are modelled: the worker *)
(* and the gateway meter requests and drain; Control appends an event per    *)
(* recorded delta and its flusher only publishes.                            *)
EXTENDS Naturals, Sequences, FiniteSets, FiniteSetsExt

CONSTANTS
    Units,              \* units of usage
    MaxRetained,        \* max_retained: events kept in memory after a failed append
    MaxFaults,          \* bound on failed calls and crashes
    Null

Events == (SUBSET Units) \ {{}}

ASSUME OutboxAssumption ==
    /\ IsFiniteSet(Units)
    /\ MaxRetained \in Nat /\ MaxFaults \in Nat
    /\ Null \notin Nat

VARIABLES
    direct,             \* whether the producer is Control; never changes
    recorded,           \* history: units the producer has accepted
    lost,               \* history: units of a crash, an overflow or an undecodable row
    counted,            \* Meter: units since the last drain
    retained,           \* events whose append failed, oldest first
    wal,                \* usage_events: the row of each sequence number
    next_seq,           \* meta: next_seq
    poison,             \* rows the running build cannot decode
    pending,            \* sequence numbers the running cycle has still to publish
    awaiting,           \* the row whose publish is awaited, and whether it has landed
    abandoned,          \* events whose publish goes on with nobody waiting
    log,                \* the broker's partition
    faults

outbox == <<direct, recorded, lost, counted, retained, wal, next_seq, poison, pending, awaiting,
            abandoned, faults>>

vars == <<outbox, log>>

UnitsOf(events) == UNION events

Retained == {retained[i] : i \in DOMAIN retained}

Logged == {wal[s] : s \in DOMAIN wal}

\* The producer's events on the partition; others append to it too.
Landed == {log[i] : i \in DOMAIN log} \cap Events

Asleep == pending = {} /\ awaiting = Null

Fault == faults < MaxFaults /\ faults' = faults + 1

Init ==
    /\ direct \in BOOLEAN
    /\ recorded = {} /\ lost = {} /\ counted = {}
    /\ retained = <<>>
    /\ wal = << >> /\ next_seq = 0 /\ poison = {}
    /\ pending = {} /\ awaiting = Null /\ abandoned = {}
    /\ log = <<>>
    /\ faults = 0

-----------------------------------------------------------------------------
(* Recording.                                                              *)

\* Meter::increment and record_request.
Record(u) ==
    /\ ~direct
    /\ u \notin recorded
    /\ recorded' = recorded \cup {u}
    /\ counted' = counted \cup {u}
    /\ UNCHANGED <<direct, lost, retained, wal, next_seq, poison, pending, awaiting, abandoned,
                   log, faults>>

\* UsageWal::append: the batch in order, under consecutive sequence numbers.
Appended(batch) ==
    [s \in DOMAIN wal \cup {next_seq + i - 1 : i \in DOMAIN batch} |->
        IF s \in DOMAIN wal THEN wal[s] ELSE batch[s - next_seq + 1]]

\* record_direct_at: Control's request path appends and returns.  A failed append
\* is the caller's error and changes nothing.
Enqueue(u) ==
    /\ direct
    /\ u \notin recorded
    /\ recorded' = recorded \cup {u}
    /\ wal' = Appended(<<{u}>>)
    /\ next_seq' = next_seq + 1
    /\ UNCHANGED <<direct, lost, counted, retained, poison, pending, awaiting, abandoned, log, faults>>

-----------------------------------------------------------------------------
(* A cycle of the outbox task.                                             *)

\* Meter::drain.
Drained == IF counted = {} THEN <<>> ELSE <<counted>>

\* batch_with_retained: the backlog first.
Batch == retained \o Drained

\* Fault: Control's flusher passes over idle cycles too.
WakesForNew == Asleep /\ Batch # <<>>

\* spawn_outbox_task passes over a cycle in which it drained nothing and retains
\* nothing; Control's flusher publishes on every cycle.
Wakes == Asleep /\ (direct \/ Batch # <<>>)

\* Fault: the retry buffer has no bound.
RetainAll(batch) == batch

\* retain_for_retry: the newest max_retained events.
Retain(batch) ==
    SubSeq(batch, IF Len(batch) > MaxRetained THEN Len(batch) - MaxRetained + 1 ELSE 1,
           Len(batch))

\* Fault: the counters are not reset, since the window was not written.
AppendFailsKeepingCounts ==
    /\ Wakes /\ Batch # <<>>
    /\ Fault
    /\ retained' = Retain(Batch)
    /\ UNCHANGED <<direct, recorded, lost, counted, wal, next_seq, poison, pending, awaiting, abandoned,
                   log>>

\* The append fails: the batch is held in memory, the oldest events are dropped
\* when there are too many.
AppendFails ==
    /\ Wakes /\ Batch # <<>>
    /\ Fault
    /\ counted' = {}
    /\ retained' = Retain(Batch)
    /\ LET kept == Retain(Batch)
       IN  lost' = lost \cup (UnitsOf({Batch[i] : i \in DOMAIN Batch})
                                 \ UnitsOf({kept[i] : i \in DOMAIN kept}))
    /\ UNCHANGED <<direct, recorded, wal, next_seq, poison, pending, awaiting, abandoned, log>>

\* Fault: events whose append committed are retained as well.
ReadFailsRetaining ==
    /\ Wakes
    /\ Fault
    /\ counted' = {}
    /\ retained' = Retain(Batch)
    /\ wal' = Appended(Batch)
    /\ next_seq' = next_seq + Len(Batch)
    /\ UNCHANGED <<direct, recorded, lost, poison, pending, awaiting, abandoned, log>>

\* The append commits and the read behind it fails: the log owns the events.
ReadFails ==
    /\ Wakes
    /\ Fault
    /\ counted' = {}
    /\ retained' = <<>>
    /\ wal' = Appended(Batch)
    /\ next_seq' = next_seq + Len(Batch)
    /\ UNCHANGED <<direct, recorded, lost, poison, pending, awaiting, abandoned, log>>

\* The batch is appended and the whole log read: undecodable rows are removed as
\* far as that succeeds, every other row is to be published.
BeginCycle ==
    /\ Wakes
    /\ counted' = {}
    /\ retained' = <<>>
    /\ next_seq' = next_seq + Len(Batch)
    /\ \E kept \in SUBSET poison :
          LET rows == Appended(Batch)
          IN  /\ kept = {} \/ kept = poison
              /\ IF kept = {} THEN UNCHANGED faults ELSE Fault
              /\ wal' = [s \in DOMAIN rows \ (poison \ kept) |-> rows[s]]
              /\ poison' = kept
              /\ pending' = DOMAIN rows \ poison
              /\ lost' = lost \cup (UnitsOf({rows[s] : s \in poison \ kept})
                                       \ UnitsOf(Landed))
    /\ UNCHANGED <<direct, recorded, awaiting, abandoned, log>>

\* The next row is handed to the transport.
Send ==
    /\ awaiting = Null /\ pending # {}
    /\ awaiting' = [seq |-> Min(pending), landed |-> FALSE]
    /\ pending' = pending \ {Min(pending)}
    /\ UNCHANGED <<direct, recorded, lost, counted, retained, wal, next_seq, poison, abandoned, log,
                   faults>>

\* The broker appends the record that is being awaited.
Land ==
    /\ awaiting # Null /\ ~awaiting.landed
    /\ log' = Append(log, wal[awaiting.seq])
    /\ awaiting' = [awaiting EXCEPT !.landed = TRUE]
    /\ UNCHANGED <<direct, recorded, lost, counted, retained, wal, next_seq, poison, pending,
                   abandoned, faults>>

Trimmed(s) == [t \in DOMAIN wal \ {s} |-> wal[t]]

\* The acknowledgement arrives and the row is trimmed.
Acknowledge ==
    /\ awaiting # Null /\ awaiting.landed
    /\ wal' = Trimmed(awaiting.seq)
    /\ awaiting' = Null
    /\ UNCHANGED <<direct, recorded, lost, counted, retained, next_seq, poison, pending, abandoned,
                   log, faults>>

\* The acknowledgement arrives and the trim fails: the row will be replayed.
TrimFails ==
    /\ awaiting # Null /\ awaiting.landed
    /\ Fault
    /\ awaiting' = Null
    /\ UNCHANGED <<direct, recorded, lost, counted, retained, wal, next_seq, poison, pending,
                   abandoned, log>>

\* Fault: a publish that timed out is taken for one that failed for good.
PublishFailsTrimming(stalled) ==
    /\ awaiting # Null
    /\ Fault
    /\ abandoned' = IF awaiting.landed THEN abandoned ELSE abandoned \cup {wal[awaiting.seq]}
    /\ wal' = Trimmed(awaiting.seq)
    /\ awaiting' = Null
    /\ pending' = IF stalled THEN {} ELSE pending
    /\ UNCHANGED <<direct, recorded, lost, counted, retained, next_seq, poison, log>>

\* The publish is refused or times out, or is cut at the stall bound, which ends
\* the cycle.  The send goes on by itself, and the row stays.
PublishFails(stalled) ==
    /\ awaiting # Null
    /\ Fault
    /\ abandoned' = IF awaiting.landed THEN abandoned ELSE abandoned \cup {wal[awaiting.seq]}
    /\ awaiting' = Null
    /\ pending' = IF stalled THEN {} ELSE pending
    /\ UNCHANGED <<direct, recorded, lost, counted, retained, wal, next_seq, poison, log>>

\* An abandoned publish reaches the broker, or librdkafka gives it up.
LandLate(e) ==
    /\ abandoned' = abandoned \ {e}
    /\ log' = Append(log, e)
    /\ UNCHANGED <<direct, recorded, lost, counted, retained, wal, next_seq, poison, pending,
                   awaiting, faults>>

GiveUp(e) ==
    /\ abandoned' = abandoned \ {e}
    /\ UNCHANGED <<direct, recorded, lost, counted, retained, wal, next_seq, poison, pending,
                   awaiting, log, faults>>

\* The process ends and another opens the same file, which a new build may no
\* longer decode in full.  A publish then on the wire lands before the
\* successor's first cycle, as a Land or LandLate before this step, or never.
Crash ==
    /\ Fault
    /\ lost' = lost \cup counted \cup UnitsOf(Retained)
    /\ counted' = {}
    /\ retained' = <<>>
    /\ pending' = {} /\ awaiting' = Null /\ abandoned' = {}
    /\ poison' \in {poison} \cup {poison \cup {s} : s \in DOMAIN wal}
    /\ UNCHANGED <<direct, recorded, wal, next_seq, log>>

Work == BeginCycle \/ Send \/ Land \/ Acknowledge

Next ==
    \/ \E u \in Units : Record(u) \/ Enqueue(u)
    \/ Work
    \/ AppendFails \/ ReadFails \/ TrimFails
    \/ \E stalled \in BOOLEAN : PublishFails(stalled)
    \/ \E e \in abandoned : LandLate(e) \/ GiveUp(e)
    \/ Crash

-----------------------------------------------------------------------------
(* Properties.                                                             *)

\* The types of the producer's state.
TypeOK ==
    /\ recorded \subseteq Units /\ lost \subseteq Units /\ counted \subseteq Units
    /\ retained \in Seq(Events) /\ Len(retained) <= MaxRetained
    /\ next_seq \in Nat
    /\ DOMAIN wal \subseteq 0..(next_seq - 1)
    /\ \A s \in DOMAIN wal : wal[s] \in Events
    /\ poison \subseteq DOMAIN wal
    /\ pending \subseteq DOMAIN wal
    /\ awaiting # Null => awaiting.seq \in DOMAIN wal \ pending
    /\ abandoned \subseteq Events
    /\ direct \in BOOLEAN
    /\ faults \in 0..MaxFaults

\* Usage does not vanish: a recorded unit is still counted, retained, in the log
\* file or on the broker, unless a crash took it out of memory, the retry buffer
\* overflowed or its row no longer decodes.
UsageAccounted ==
    recorded = counted \cup UnitsOf(Retained) \cup UnitsOf(Logged) \cup UnitsOf(Landed)
               \cup lost

\* Retries are verbatim: two copies of a unit, in memory, in the log file, on the
\* wire or on the broker, are copies of one event, so a consumer that removes
\* duplicate event ids counts every unit once.
StableIdentity ==
    LET copies == Retained \cup Logged \cup abandoned \cup Landed
    IN  /\ \A e, f \in copies : e \cap f # {} => e = f
        /\ counted \cap UnitsOf(copies) = {}

\* An event is owned once: what is retained in memory is neither in the log file
\* nor on its way to the broker, no two rows carry the same event, and no two
\* retained ones do.
OwnedOnce ==
    /\ Retained \cap (Logged \cup abandoned \cup Landed) = {}
    /\ \A s, t \in DOMAIN wal : wal[s] = wal[t] => s = t
    /\ \A i, j \in DOMAIN retained : retained[i] = retained[j] => i = j

=============================================================================
