----------------------------- MODULE PoolSession -----------------------------
(***************************************************************************)
(* What src/pool/pool_manager.hpp promises the host: a session that is up, *)
(* or down and being restored, until the host ends it or the manager gives *)
(* up for good.  The manager never starts or ends a session by itself, and *)
(* a session does not stay down for ever.  A host that calls connect again *)
(* in a session that is down or given up is promised nothing ("void")      *)
(* until it ends that session.  "dead" is a crash of the process, which    *)
(* the host's threads cannot exclude (see PoolManager).                    *)
(***************************************************************************)
VARIABLE state

Init == state = "off"

Connect == state = "off" /\ state' = "up"
Lose    == state = "up" /\ state' = "down"
Restore == state = "down" /\ state' = "up"
GiveUp  == state = "down" /\ state' = "gaveUp"
Recall  == state \in {"down", "gaveUp"} /\ state' = "void"
End     == state \in {"up", "down", "gaveUp", "void"} /\ state' = "off"
Crash   == state # "dead" /\ state' = "dead"

Next == Connect \/ Lose \/ Restore \/ GiveUp \/ Recall \/ End \/ Crash

Resolve == Restore \/ GiveUp \/ (state = "down" /\ (Recall \/ End \/ Crash))

Safety == Init /\ [][Next]_state

Spec == Safety /\ WF_state(Resolve)
=============================================================================
