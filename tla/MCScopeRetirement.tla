-------------------------- MODULE MCScopeRetirement --------------------------
(* ScopeRetirement for TLC.  The constraint keeps it to two scenes that share*)
(* the constants: a host, an intent, a calendar job and one Close; and two   *)
(* pages of one duty beside two closing attempts, or beside an activation.   *)
EXTENDS ScopeRetirement

CONSTANTS adv1, act1, cron1, close1, close2, rec1, rec2, h1

\* The operation each model job is minted for.
ModelKinds ==
    [j \in Jobs |->
        CASE j = adv1 -> "advance"
          [] j = act1 -> "activate"
          [] j = cron1 -> "cron"
          [] j \in {close1, close2} -> "close"
          [] j \in {rec1, rec2} -> "reconcile"]

Minted(j) == jobs[j].state # "absent"

HostIdle == ingress_epoch[h1] = 0 /\ refused[h1] = NotRefused /\ answered[h1] = 0

\* A host accepts and a Close fences; a calendar job writes and a Close fences.
Handshake ==
    /\ \A j \in {act1, rec1, rec2, close2} : ~ Minted(j)
    /\ dispatch_cursor <= 4 /\ (~ Minted(cron1) \/ HostIdle)

\* Jobs of one kind are alike: they are minted in one order.
Maintenance ==
    /\ intents[adv1] = "none" /\ ~ Minted(cron1) /\ HostIdle
    /\ Minted(close2) => Minted(close1)
    /\ Minted(rec2) => Minted(rec1)
    /\ Minted(act1) => ~ Minted(rec2) /\ ~ Minted(close2)

Scenes == Handshake \/ Maintenance
=============================================================================
