------------------------------ MODULE Metering ------------------------------
(* The usage pipeline from a producer to the provider: UsageOutbox and       *)
(* EventForwarder over one partition, to which others append as well.        *)
EXTENDS UsageOutbox

CONSTANTS
    Foreign,            \* events of others, none of which can be billed
    ForeignKind,        \* "unowned" (no organization) or "garbage" (undecodable)
    BatchMax,
    Failing,            \* what may fail: "transient", "rejected", "commit", "evicted", "crash"
    MaxFailures         \* bound on the forwarder's failures

\* A batch in hand: the offsets it spans and how far its cycle has come.
Batches == [from : Nat, to : Nat, stage : {"sort", "ingest", "commit"}]

ASSUME MeteringAssumption ==
    /\ Null \notin Batches
    /\ BatchMax \in Nat \ {0} /\ MaxFailures \in Nat
    /\ Foreign \cap Events = {}
    /\ ForeignKind \in [Foreign -> {"unowned", "garbage"}]
    /\ Failing \subseteq {"transient", "rejected", "commit", "evicted", "crash"}

VARIABLES position, member, committed, batch, billed, quarantined, dropped, failures

\* Producers set the app of every event, and the app has an organization.
KindOf == [e \in Events \cup Foreign |-> IF e \in Events THEN "owned" ELSE ForeignKind[e]]

F == INSTANCE EventForwarder WITH Events <- Events \cup Foreign, Kind <- KindOf

consumer == <<position, member, committed, batch, billed, quarantined, dropped, failures>>

pipeline == <<vars, consumer>>

PipelineInit == Init /\ F!Init

\* External: another producer appends.
PublishForeign(e) ==
    /\ e \notin {log[i] : i \in DOMAIN log}
    /\ log' = Append(log, e)
    /\ UNCHANGED <<outbox, consumer>>

PipelineNext ==
    \/ Next /\ UNCHANGED consumer
    \/ (F!Forward \/ F!Failure) /\ UNCHANGED outbox
    \/ \E e \in Foreign : PublishForeign(e)

PipelineSpec == PipelineInit /\ [][PipelineNext]_pipeline

\* The producer's timer fires again and again, the forwarder polls again after
\* every cycle, and failures come to an end.
PipelineFairSpec ==
    /\ PipelineSpec
    /\ WF_pipeline(Work /\ UNCHANGED consumer)
    /\ WF_pipeline((F!Poll \/ F!Rejoin \/ F!Sort) /\ UNCHANGED outbox)
    /\ WF_pipeline((F!Ingest \/ F!Reject \/ F!IngestFails) /\ UNCHANGED outbox)
    /\ WF_pipeline((F!Commit \/ F!CommitFails) /\ UNCHANGED outbox)

-----------------------------------------------------------------------------
(* Properties.  The forwarder's own, on this pipeline, and the pipeline's.  *)

\* The types of both sides' state.
PipelineTypeOK == TypeOK /\ F!TypeOK

\* The forwarder's promise: what lies below the committed offset was billed or
\* quarantined.
SettledBeforeCommit == F!SettledBeforeCommit

\* What a commit passes over without settling was in a batch a cycle failed with.
OnlyDroppedPassedOver == F!OnlyDroppedPassedOver

\* Usage is conserved from the counter to the partition and behind it: no unit
\* vanishes, copies of it are copies of one event, an event has one owner, and
\* the forwarder passes over only what a failed cycle dropped (drain, append,
\* trim, run_cycle).
UsageConserved ==
    PipelineTypeOK /\ UsageAccounted /\ StableIdentity /\ OwnedOnce /\ OnlyDroppedPassedOver

B == INSTANCE UsageBilling WITH invoices <- billed

\* The pipeline implements UsageBilling: through replays, late publishes, crashes
\* of either side, evictions and failures of the provider, no unit is invoiced
\* twice, and what was given up as lost is not invoiced afterwards.
BilledAtMostOnce == B!Spec

\* Usage that Control recorded is billed or quarantined in the end, unless its row
\* no longer decodes or a cycle of the forwarder failed with it: Control's flusher
\* publishes on every cycle, not only when there is something new.
UsageBilled ==
    \A u \in Units : (direct /\ u \in recorded) ~>
        (u \in UnitsOf((billed \cup quarantined \cup dropped) \cap Events) \cup lost)

=============================================================================
