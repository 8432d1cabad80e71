------------------------------ MODULE MCKangaroo ------------------------------
(* The CPU kangaroo solver on a range of 8 bits, where a walk takes few      *)
(* steps from where kangaroos start to where they meet.                      *)
(* The wild kangaroo of t2 starts off the curve: its offset is 0. That of t1  *)
(* starts where the comment says (Aliased is {FALSE}); the theorems of        *)
(* KangarooProofs are for any choice, the one of the code among them.         *)
EXTENDS Kangaroo, TLC

CONSTANTS t1, t2

MCStray == -1
MCX(p) == IF p = MCStray THEN 1 ELSE 800 - p
MCHash(x) == x % 3

OtherTarget ==
  Foreign({DP(MCX(388), 9, FALSE)})
MCTame == t1 :> {0} @@ t2 :> {3}
MCWild == t1 :> {3} @@ t2 :> {0}
MCHashOffsets == {125, 250, 255}
MCFiles == {NoFile, OtherTarget}
=============================================================================
