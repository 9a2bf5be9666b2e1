---------------------------- MODULE UsageBilling ----------------------------
(* What the metering pipeline promises: a unit of usage is invoiced at most  *)
(* once, only if it was recorded, and never after it was given up as lost.   *)
CONSTANT Units

VARIABLES recorded, invoices, lost

Invoiced == UNION invoices

Init == recorded = {} /\ invoices = {} /\ lost = {}

Record(u) ==
    /\ recorded' = recorded \cup {u}
    /\ UNCHANGED <<invoices, lost>>

\* New invoices are disjoint from each other and from everything before.
Invoice(new) ==
    /\ \A e \in new : e \subseteq recorded \ (Invoiced \cup lost)
    /\ \A e, f \in new : e # f => e \cap f = {}
    /\ invoices' = invoices \cup new
    /\ UNCHANGED <<recorded, lost>>

Lose(some) ==
    /\ some \subseteq recorded \ Invoiced
    /\ lost' = lost \cup some
    /\ UNCHANGED <<recorded, invoices>>

Next ==
    \/ \E u \in Units \ recorded : Record(u)
    \/ Invoice(invoices' \ invoices)
    \/ Lose(lost' \ lost)

Spec == Init /\ [][Next]_<<recorded, invoices, lost>>

=============================================================================
