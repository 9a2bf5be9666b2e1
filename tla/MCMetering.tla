----------------------------- MODULE MCMetering -----------------------------
(* Metering with two units of usage and two events of others.                *)
EXTENDS Metering

CONSTANTS u1, u2, x1, x2

MCForeign == {{x1}, {x2}}

MCForeignKind == [e \in MCForeign |-> IF e = {x1} THEN "unowned" ELSE "garbage"]

OnPartition == {log[i] : i \in DOMAIN log}

\* The units are alike, so u1 is recorded first; one event of others at a time,
\* with one failure beside it.
Scenes ==
    /\ u2 \in recorded => u1 \in recorded
    /\ OnPartition \cap Foreign # {} =>
          Cardinality(OnPartition \cap Foreign) = 1 /\ faults + failures <= 1
=============================================================================
