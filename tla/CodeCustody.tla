---------------------------- MODULE CodeCustody ----------------------------
(***************************************************************************)
(* What retention promises of one app deployment: its code is there for as *)
(* long as anything may still run from it, and once it is reclaimed        *)
(* nothing is ever admitted on it again.                                   *)
(***************************************************************************)
CONSTANTS Work      \* everything that can depend on the deployment's code

VARIABLES
    dependents,     \* the work admitted on the deployment and not yet given up
    reclaimed       \* the code may be deleted

vars == <<dependents, reclaimed>>

Init == dependents = {} /\ reclaimed = FALSE

\* Work is admitted, and given up, while the code is there.
Depend ==
    /\ ~reclaimed
    /\ dependents' \in SUBSET Work
    /\ UNCHANGED reclaimed

\* The code goes only when nothing depends on it, for good.
Reclaim ==
    /\ dependents = {}
    /\ reclaimed' = TRUE
    /\ UNCHANGED dependents

Next == Depend \/ Reclaim

Spec == Init /\ [][Next]_vars
=============================================================================
