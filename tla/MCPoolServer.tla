---------------------------- MODULE MCPoolServer ----------------------------
(* Constants for the runs of PoolServer: a group of order 11 with key 3, in  *)
(* which the tame distance 5 and the wild distance 2 are one point, and the  *)
(* tame distance 6 and the mirrored distance 9 are the opposite one.         *)
EXTENDS PoolServer, TLC

CONSTANTS c1, c2, w1, w2

DP(t, dist, wid) == [type |-> t, d |-> dist, work |-> wid]

FourPoints    == {DP(0, 5, 1), DP(1, 2, 1), DP(0, 6, 1), DP(2, 9, 1)}
TwoWork       == {DP(0, 5, 1), DP(0, 4, 2)}
TwoHalves     == {DP(0, 5, 1), DP(1, 2, 1)}
OwnLogin      == {<<c1, w1>>, <<c2, w2>>}
MixedLogin    == {<<c1, w1>>, <<c2, w1>>, <<c2, w2>>}
(* OwnLogin is the same when the two rigs change places, with their names.   *)
SwapRigs      == {p \in Permutations({c1, c2, w1, w2}) :
                    {<<p[c1], p[w1]>>, <<p[c2], p[w2]>>} = {<<c1, w1>>, <<c2, w2>>}}
OneChunk      == {0}
TwoChunks     == {0, 1}
TheClaims     == {2, 3}
NoClaims      == {}
=============================================================================
