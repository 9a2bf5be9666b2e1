--------------------------- MODULE EventForwarder ---------------------------
(* The billing event forwarder of the control plane (cron/event_forwarder.rs)*)
(* as a consumer of one partition: it polls a batch, attributes each event to*)
(* its organization, hands the batch to the metering provider and commits    *)
(* the offsets behind it.                                                    *)
(*                                                                           *)
(* The transport hands a record out once: a poll moves the consumer's        *)
(* position, and only a restart or an eviction takes it back to the          *)
(* committed offset.  A cycle that fails keeps nothing of its batch.         *)
EXTENDS Naturals, Sequences

CONSTANTS
    Events,             \* whatever producers may put on the partition
    Kind,               \* "owned", "unowned" (no organization) or "garbage" (undecodable)
    BatchMax,
    Failing,            \* what may fail: "transient", "rejected", "commit", "evicted", "crash"
    MaxFailures,        \* bound on failures
    Null

VARIABLES
    log,                \* the partition
    position,           \* the consumer's next offset
    member,             \* whether the consumer belongs to its group
    committed,          \* the group's next offset
    batch,              \* the batch of the running cycle and its stage
    billed,             \* events the provider has accepted; it removes duplicate ids
    quarantined,        \* events in provider_dead_letter
    dropped,            \* history: events of batches a cycle failed with
    failures

forwarder == <<position, member, committed, batch, billed, quarantined, dropped,
               failures>>

vars == <<log, forwarder>>

Init ==
    /\ log = <<>>
    /\ position = 0 /\ member = TRUE /\ committed = 0
    /\ batch = Null
    /\ billed = {} /\ quarantined = {} /\ dropped = {}
    /\ failures = 0

Fails(what) == what \in Failing /\ failures < MaxFailures /\ failures' = failures + 1

\* The events of a range of offsets.
EventsOf(from, to) == {log[i] : i \in (from + 1)..to}

InBatch(kinds) == {e \in EventsOf(batch.from, batch.to) : Kind[e] \in kinds}

\* StreamTransport::poll: up to batch_max of the records behind the position.
Poll ==
    /\ batch = Null /\ member
    /\ \E to \in (position + 1)..Len(log) :
          /\ to - position <= BatchMax
          /\ batch' = [from |-> position, to |-> to, stage |-> "sort"]
          /\ position' = to
    /\ UNCHANGED <<log, member, committed, billed, quarantined, dropped, failures>>

\* PollExceeded: an evicted consumer rejoins at the committed offset.
Rejoin ==
    /\ batch = Null /\ ~member
    /\ member' = TRUE
    /\ position' = committed
    /\ UNCHANGED <<log, committed, batch, billed, quarantined, dropped, failures>>

\* run_cycle, the loop over the records: what does not decode or has no owner is
\* quarantined, the rest is to be ingested.
Sort ==
    /\ batch # Null /\ batch.stage = "sort"
    /\ quarantined' = quarantined \cup InBatch({"unowned", "garbage"})
    /\ batch' = [batch EXCEPT !.stage =
                    IF InBatch({"owned"}) = {} THEN "commit" ELSE "ingest"]
    /\ UNCHANGED <<log, position, member, committed, billed, dropped, failures>>

\* A database call of the loop fails: the records before it keep what was written.
SortFails ==
    /\ batch # Null /\ batch.stage = "sort"
    /\ Fails("transient")
    /\ \E upto \in batch.from..batch.to :
          quarantined' = quarantined
             \cup {e \in EventsOf(batch.from, upto) : Kind[e] \in {"unowned", "garbage"}}
    /\ dropped' = dropped \cup EventsOf(batch.from, batch.to)
    /\ batch' = Null
    /\ UNCHANGED <<log, position, member, committed, billed>>

\* Fault: the total of the batch is billed beside its events.
IngestTotals ==
    /\ batch # Null /\ batch.stage = "ingest"
    /\ billed' = billed \cup InBatch({"owned"}) \cup {UNION InBatch({"owned"})}
    /\ batch' = [batch EXCEPT !.stage = "commit"]
    /\ UNCHANGED <<log, position, member, committed, quarantined, dropped, failures>>

\* Meter::ingest accepts the batch.
Ingest ==
    /\ batch # Null /\ batch.stage = "ingest"
    /\ billed' = billed \cup InBatch({"owned"})
    /\ batch' = [batch EXCEPT !.stage = "commit"]
    /\ UNCHANGED <<log, position, member, committed, quarantined, dropped, failures>>

\* The provider rejects the batch for good: it is quarantined and committed.
Reject ==
    /\ batch # Null /\ batch.stage = "ingest"
    /\ Fails("rejected")
    /\ quarantined' = quarantined \cup InBatch({"owned"})
    /\ batch' = [batch EXCEPT !.stage = "commit"]
    /\ UNCHANGED <<log, position, member, committed, billed, dropped>>

\* The call fails in between, or its answer is lost, or the quarantine of a
\* rejected batch fails: part of it may have been taken.
IngestFails ==
    /\ batch # Null /\ batch.stage = "ingest"
    /\ Fails("transient")
    /\ \E taken \in SUBSET InBatch({"owned"}) :
          \/ billed' = billed \cup taken /\ UNCHANGED quarantined
          \/ quarantined' = quarantined \cup taken /\ UNCHANGED billed
    /\ dropped' = dropped \cup EventsOf(batch.from, batch.to)
    /\ batch' = Null
    /\ UNCHANGED <<log, position, member, committed>>

\* Fault: the commit names the end of the partition.
CommitEnd ==
    /\ batch # Null /\ batch.stage = "commit" /\ member
    /\ committed' = Len(log)
    /\ batch' = Null
    /\ UNCHANGED <<log, position, member, billed, quarantined, dropped, failures>>

\* StreamTransport::commit: the offset behind the batch.
Commit ==
    /\ batch # Null /\ batch.stage = "commit" /\ member
    /\ committed' = batch.to
    /\ batch' = Null
    /\ UNCHANGED <<log, position, member, billed, quarantined, dropped, failures>>

\* The commit fails, or its answer is lost; an evicted consumer's is refused.
CommitFails ==
    /\ batch # Null /\ batch.stage = "commit"
    /\ IF member THEN Fails("commit") /\ committed' \in {committed, batch.to}
                 ELSE UNCHANGED <<failures, committed>>
    /\ batch' = Null
    /\ UNCHANGED <<log, position, member, billed, quarantined, dropped>>

\* The consumer idled past max.poll.interval.ms.
Evict ==
    /\ member
    /\ Fails("evicted")
    /\ member' = FALSE
    /\ UNCHANGED <<log, position, committed, batch, billed, quarantined, dropped>>

\* The process ends; its successor starts at the committed offset.
Restart ==
    /\ Fails("crash")
    /\ batch' = Null
    /\ member' = TRUE
    /\ position' = committed
    /\ UNCHANGED <<log, committed, billed, quarantined, dropped>>

Forward ==
    \/ Poll \/ Rejoin \/ Sort \/ Ingest \/ Commit \/ CommitFails

Failure == SortFails \/ Reject \/ IngestFails \/ Evict \/ Restart

-----------------------------------------------------------------------------
(* Properties.                                                             *)

\* The types of the consumer's state.
TypeOK ==
    /\ log \in Seq(Events)
    /\ position \in 0..Len(log) /\ committed \in 0..Len(log)
    /\ member \in BOOLEAN
    /\ batch # Null => /\ batch.from \in 0..Len(log) /\ batch.to \in (batch.from + 1)..Len(log)
                       /\ batch.stage \in {"sort", "ingest", "commit"}
    /\ billed \cup quarantined \cup dropped \subseteq Events
    /\ failures \in 0..MaxFailures

Settled == billed \cup quarantined

\* The offset is committed only after the provider has accepted or permanently
\* rejected what lies behind it, as the module's comment says: every record below
\* the committed offset was billed or quarantined.
SettledBeforeCommit == EventsOf(0, committed) \subseteq Settled

\* Nothing is passed over silently: every record below the committed offset was
\* billed, quarantined or in a batch that a cycle failed with, through evictions,
\* restarts, lost answers and refused commits.
OnlyDroppedPassedOver == EventsOf(0, committed) \subseteq Settled \cup dropped

=============================================================================
