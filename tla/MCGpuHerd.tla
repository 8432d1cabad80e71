----------------------------- MODULE MCGpuHerd -----------------------------
EXTENDS GpuHerd, TLC

MCJumps == 0 :> 1 @@ 1 :> 3 @@ 2 :> 2 @@ 3 :> 5
MCTargets == {9, 12, 24, 50}
\* From 12, 24 and 50 a wild one reaches a tame one by steps back; 50 is above
\* DistMod - Order.
MCTames == {1, 6, 8, 11, 14, 19, 50}
=============================================================================
