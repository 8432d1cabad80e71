------------------------------ MODULE GpuHerd ------------------------------
(***************************************************************************)
(* The multi-GPU kangaroo solver of kangaroo_kernel.cu: every GPU holds a  *)
(* herd of tame kangaroos (at known multiples of G), wild ones from the    *)
(* target Q and wild ones from -Q.  A kernel launch moves a herd by some   *)
(* steps, all kangaroos with one shared inversion; a host thread per GPU   *)
(* then enters the distinguished points the launch left behind into a      *)
(* table that all GPUs share, and turns two kangaroos of different types   *)
(* on one x into the key.  The caller's thread polls, and joins them.      *)
(***************************************************************************)
EXTENDS CurveKangaroo

CONSTANTS
  Gpus,
  Targets,        \* the keys that may be looked for
  TameStarts,     \* where a tame kangaroo may start
  NumJumps,       \* jumps: a power of two
  JumpDistance,   \* [0 .. NumJumps - 1 -> Nat \ {0}]
  DpMod,          \* 2^dp_bits
  StepsPerRound,  \* steps_per_round
  LowMod,         \* the low word of x, which keys the table: 2^64
  DistMod         \* distances wrap here: 2^256, above Order

ASSUME HerdAssumption ==
  /\ JumpDistance \in [0 .. NumJumps - 1 -> 1 .. Order - 1]
  /\ Targets \subseteq 1 .. Order - 1 /\ TameStarts \subseteq 1 .. Order - 1
  /\ {NumJumps, StepsPerRound} \subseteq Nat \ {0}
  /\ DistMod \in Nat /\ Order < DistMod /\ 2 * (DistMod - Order) <= Order
  /\ \A k \in TameStarts : 2 * k < DistMod   \* 128 bits

Types == {"tame", "wild1", "wild2"}
Members == 1 .. 3     \* the herd: a third of each type

VARIABLES
  target,     \* Q = target * G
  herd,       \* gpu -> its kangaroos in device memory
  table,      \* dp_table: the entries
  pc,         \* gpu -> where its host thread is
  main,       \* where the caller's thread is
  stop_flag,
  found,      \* impl_->found: a collision, or a CUDA error
  result,     \* impl_->result
  returned,   \* what solve() returned
  broken,     \* history: gpu -> a launch met a jump it stood on
  pair        \* history: the two kangaroos of the last collision

vars == <<target, herd, table, pc, main, stop_flag, found, result, returned, broken, pair>>

\* A herd itself; as a tuple TLC evaluates it once, not at every application.
Tabulated(h) == <<h[1], h[2], h[3]>>

JumpPoint == [j \in 0 .. NumJumps - 1 |-> Multiple[JumpDistance[j]]]

NoResult == [found |-> FALSE, key |-> 0]
NoPair == <<>>

Start(type, q, k) ==
  CASE type = "tame"  -> [p |-> Multiple[k], dist |-> k]
    [] type = "wild1" -> [p |-> Multiple[q], dist |-> 0]
    [] type = "wild2" -> [p |-> Affine(Multiple[q].x, FieldSize - Multiple[q].y), dist |-> 0]

TypeOf(i) == CASE i = 1 -> "tame" [] i = 2 -> "wild1" [] i = 3 -> "wild2"

Init ==
  /\ target \in Targets
  /\ \E k \in [Gpus -> TameStarts] :
       herd = [g \in Gpus |-> [i \in Members |->
                 [type |-> TypeOf(i), p |-> Start(TypeOf(i), target, k[g]).p,
                  dist |-> Start(TypeOf(i), target, k[g]).dist, flag |-> FALSE]]]
  /\ table = {}
  /\ pc = [g \in Gpus |-> "top"] /\ main = "poll"
  /\ stop_flag = FALSE /\ found = FALSE /\ result = NoResult /\ returned = NoResult
  /\ broken = [g \in Gpus |-> FALSE] /\ pair = NoPair

-----------------------------------------------------------------------------
(* The kernel.                                                              *)

\* An odd y jumps by -J and walks back, an even one by J.
Backward(p) == p.y % 2 = 1
JumpOf(p) == p.x % NumJumps
Addend(p) ==
  LET J == JumpPoint[JumpOf(p)]
  IN  IF Backward(p) THEN Affine(J.x, FieldSize (-) J.y) ELSE J
\* Mutant: a step back adds its distance.
Moved_Forward(dist, p) == (dist + JumpDistance[JumpOf(p)]) % DistMod

Moved(dist, p) ==
  LET d == JumpDistance[JumpOf(p)]
  IN  (IF Backward(p) THEN dist - d ELSE dist + d) % DistMod

\* 1/dx for a whole herd by one inversion: one dx of 0 makes them all 0
\* (batch_mod_inv itself is checked in Arithmetic, there over Z).
Stuck(h) == \E i \in Members : Addend(h[i].p).x = h[i].p.x
SharedInverse(h, i) == IF Stuck(h) THEN 0 ELSE Inv[Addend(h[i].p).x (-) h[i].p.x]

\* One step of the registers of a herd.
Step(h) ==
  Tabulated([i \in Members |->
     [h[i] EXCEPT !.p = ec_add_affine_with_inv(@, Addend(@), SharedInverse(h, i)),
                  !.dist = Moved(@, h[i].p)]])

IsDP(p) == p.x % DpMod = 0

\* A step of a launch, on the registers and on what is stored: a distinguished
\* point is stored as soon as it is reached.
OneStep(r) ==
  LET reg == Step(r.reg)
  IN  [reg |-> reg,
       mem |-> Tabulated([i \in Members |->
                 IF IsDP(reg[i].p) THEN [reg[i] EXCEPT !.flag = TRUE] ELSE r.mem[i]])]

Walk(h) ==
  LET run[s \in 0 .. StepsPerRound] ==
        IF s = 0 THEN [reg |-> h, mem |-> h] ELSE OneStep(run[s-1])
  IN  run

\* What a launch leaves: of every kangaroo the last distinguished point, and
\* one without any where it stands.
Launch(h) ==
  LET last == Walk(h)[StepsPerRound]
  IN  [i \in Members |-> IF last.mem[i].flag THEN last.mem[i] ELSE last.reg[i]]

\* Whether a launch meets a kangaroo on the x of its jump, where the shared
\* inversion has no inverse to give to any of them.
MeetsJump(h) ==
  LET run == Walk(h) IN \E s \in 0 .. StepsPerRound - 1 : Stuck(run[s].reg)

-----------------------------------------------------------------------------
(* A host thread.                                                           *)

\* while (!stop_flag && !found)
Top(g) ==
  /\ pc[g] = "top"
  /\ pc' = [pc EXCEPT ![g] = IF stop_flag \/ found THEN "exited" ELSE "launch"]
  /\ UNCHANGED <<target, herd, table, main, stop_flag, found, result, returned, broken, pair>>

RunKernel(g) ==
  /\ pc[g] = "launch"
  /\ herd' = [herd EXCEPT ![g] = Launch(@)]
  /\ broken' = [broken EXCEPT ![g] = @ \/ MeetsJump(herd[g])]
  /\ pc' = [pc EXCEPT ![g] = "points"]
  /\ UNCHANGED <<target, table, main, stop_flag, found, result, returned, pair>>

\* A launch or a synchronisation fails: found is raised to make all exit.
KernelError(g) ==
  /\ pc[g] = "launch"
  /\ found' = TRUE
  /\ pc' = [pc EXCEPT ![g] = "exited"]
  /\ UNCHANGED <<target, herd, table, main, stop_flag, result, returned, broken, pair>>

\* Mutant: the smaller distance from the larger, whose ever it is.
Key_Absolute(d, e) ==
  LET diff == IF d.dist >= e.dist THEN d.dist - e.dist ELSE e.dist - d.dist
  IN  IF "tame" \in {d.type, e.type} THEN diff ELSE diff \div 2

\* The key two kangaroos give away: distances are subtracted, a negative
\* difference is taken from N, two wild ones give twice the key.
Minus(a, b) == IF a >= b THEN a - b ELSE (Order - (b - a)) % DistMod
Key(d, e) ==
  LET of(type) == IF d.type = type THEN d.dist ELSE e.dist
      types == {d.type, e.type}
  IN  CASE types = {"tame", "wild1"}  -> Minus(of("tame"), of("wild1"))
        [] types = {"tame", "wild2"}  -> Minus(of("wild2"), of("tame"))
        [] types = {"wild1", "wild2"} -> Minus(of("wild2"), of("wild1")) \div 2

Low(p) == p.x % LowMod

\* The flagged kangaroos in order, under dp_mutex: an x_low not seen before is
\* entered; one seen with the same x and another type ends the search there.
Entered(k, s) ==
  LET same == {e \in s.tab : Low(e.p) = Low(k.p)}
      e == CHOOSE e \in same : TRUE
  IN  IF ~k.flag \/ s.hit # NoPair THEN s
      ELSE IF same = {} THEN [s EXCEPT !.tab = @ \cup {k}]
      ELSE IF e.p.x = k.p.x /\ e.type # k.type THEN [s EXCEPT !.hit = <<k, e>>]
      ELSE s

Enter(h, tab) ==
  Entered(h[3], Entered(h[2], Entered(h[1], [tab |-> tab, hit |-> NoPair])))

Points(g) ==
  LET r == Enter(herd[g], table)
  IN  /\ pc[g] = "points"
      /\ table' = r.tab
      /\ IF r.hit # NoPair
         THEN /\ result' = [found |-> TRUE, key |-> Key(r.hit[1], r.hit[2])]
              /\ found' = TRUE /\ pair' = r.hit
              /\ pc' = [pc EXCEPT ![g] = "exited"]
              /\ UNCHANGED herd
         ELSE /\ herd' = [herd EXCEPT ![g] = [i \in Members |-> [@[i] EXCEPT !.flag = FALSE]]]
              /\ pc' = [pc EXCEPT ![g] = "top"]
              /\ UNCHANGED <<result, found, pair>>
      /\ UNCHANGED <<target, main, stop_flag, returned, broken>>

-----------------------------------------------------------------------------
(* The caller's thread.                                                     *)

\* Mutant: only the callback ends the polling.
Poll_StopOnly ==
  /\ main = "poll"
  /\ IF stop_flag THEN main' = "join" /\ UNCHANGED stop_flag
     ELSE stop_flag' = ~found /\ UNCHANGED main
  /\ UNCHANGED <<target, herd, table, pc, found, result, returned, broken, pair>>

\* Every half second; the progress callback may end the search.
Poll ==
  /\ main = "poll"
  /\ IF stop_flag \/ found
     THEN main' = "join" /\ UNCHANGED stop_flag
     ELSE stop_flag' = TRUE /\ UNCHANGED main
  /\ UNCHANGED <<target, herd, table, pc, found, result, returned, broken, pair>>

Join ==
  /\ main = "join" /\ \A g \in Gpus : pc[g] = "exited"
  /\ main' = "returned"
  /\ returned' = IF found THEN result ELSE NoResult
  /\ UNCHANGED <<target, herd, table, pc, stop_flag, found, result, broken, pair>>

Done == main = "returned" /\ UNCHANGED vars

Thread(g) == Top(g) \/ KernelError(g) \/ RunKernel(g) \/ Points(g)
Next == (\E g \in Gpus : Thread(g)) \/ Poll \/ Join \/ Done

\* Threads go on, a launch ends or fails; nothing makes a search end, neither a
\* collision nor the user.
Fairness ==
  /\ \A g \in Gpus : WF_vars(Thread(g))
  /\ WF_vars(Poll /\ (stop_flag \/ found)) /\ WF_vars(Join)

Spec == Init /\ [][Next]_vars /\ Fairness

-----------------------------------------------------------------------------
Kangaroos == [type : Types, p : [x : Field, y : Field], dist : 0 .. DistMod - 1, flag : BOOLEAN]

TypeOK ==
  /\ target \in Targets
  /\ herd \in [Gpus -> [Members -> Kangaroos]]
  /\ table \subseteq Kangaroos
  /\ pc \in [Gpus -> {"top", "launch", "points", "exited"}]
  /\ main \in {"poll", "join", "returned"}
  /\ stop_flag \in BOOLEAN /\ found \in BOOLEAN
  /\ result \in [found : BOOLEAN, key : 0 .. DistMod - 1]
  /\ returned \in [found : BOOLEAN, key : 0 .. DistMod - 1]

\* A distance is signed: the upper half of DistMod stands for steps back.
Signed(d) == IF 2 * d >= DistMod THEN d - DistMod ELSE d
At(k) ==
  LET base == CASE k.type = "tame" -> 0 [] k.type = "wild1" -> target [] k.type = "wild2" -> -target
  IN  k.p = Multiple[(base + Signed(k.dist)) % Order]

(* While no launch has met a jump, every kangaroo on a GPU and every entry   *)
(* of the table is where its type and its distance say, through jumps back    *)
(* and forth, launches, and restarts from the last distinguished point; no   *)
(* number leaves its register.                                                *)
PositionsHold ==
  /\ TypeOK
  /\ (\A g \in Gpus : ~broken[g]) =>
       /\ \A g \in Gpus : \A i \in Members : At(herd[g][i])
       /\ \A e \in table : At(e)

Negative(k) == Signed(k.dist) < 0
TameMetWild == pair # NoPair /\ pair[1].p = pair[2].p /\ "tame" \in {pair[1].type, pair[2].type}

(* A tame and a wild kangaroo on one and the same point give the target's     *)
(* key, modulo N, whichever came first and from whichever GPU, as long as the *)
(* subtraction from N cannot wrap: the tame distance has not gone below zero, *)
(* and the wild one neither unless the key is below 2^256 - N.                *)
SamePointKey ==
  ( /\ TameMetWild /\ \A g \in Gpus : ~broken[g]
    /\ \A i \in 1 .. 2 : Negative(pair[i]) =>
         (pair[i].type # "tame" /\ target < DistMod - Order) )
  => result.key % Order = target

(* Once a collision, an error or the callback has ended the search, every     *)
(* thread exits and solve() returns.                                          *)
Returns == (stop_flag \/ found) ~> (main = "returned")
=============================================================================
