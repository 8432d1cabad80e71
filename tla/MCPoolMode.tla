----------------------------- MODULE MCPoolMode -----------------------------
(* Two pools whose assignment numbers coincide, two slots for processes.     *)
EXTENDS PoolMode, TLC

CONSTANTS a, b

MCMaxWork == a :> 1 @@ b :> 2
=============================================================================
