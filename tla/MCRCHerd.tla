----------------------------- MODULE MCRCHerd -----------------------------
(* Key 5 is three below the middle of the range: wild distances 2 and 4 lie *)
(* one step below and above the tame ones' origin, so that tame and wild     *)
(* ones, and wild ones among themselves, meet on the same and on opposite    *)
(* points; the tame one at 9 has an x that only looks the same.                *)
EXTENDS RCHerd

MCTames == {-1, 1, 9}
MCWilds == {2, 4}
=============================================================================
