------------------------------ MODULE RCHerd ------------------------------
(***************************************************************************)
(* The wrapper of rckangaroo_wrapper.cu around the RCKangaroo solver: one  *)
(* thread per GPU runs kernels and adds the distinguished points they      *)
(* found to a list of fixed size; the caller's thread takes the list,      *)
(* enters every point into a table, hands it to the pool if there is one,  *)
(* and tries to turn two points on one x into the key.  All of it lives in *)
(* variables of the process, which outlive a manager: a second solve()     *)
(* starts from what the first one left.                                    *)
(***************************************************************************)
EXTENDS Integers, Sequences, SequencesExt

CONSTANTS
  Gpus,
  Order,       \* of the curve's group
  Width,       \* scalars have 2^256 values, Order < Width
  HalfRange,   \* s_Int_HalfRange
  Keys,        \* the keys of points to solve, within the range
  Offsets,     \* start offsets of the range
  Tames, Wilds, \* distances, signed, at which kangaroos meet the mask
  Reach,       \* the longest of them
  XMod,        \* the table compares 12 of the 32 bytes of x
  LowD,        \* 2^64: two wild ones of a type are told apart by that much
  ListSize,    \* MAX_CNT_LIST
  MaxDPs,      \* bound: points of one launch
  MaxPoints,   \* bound: points of one solve
  MaxSolves,   \* bound: calls of solve()
  NoKey

ASSUME RCAssumption ==
  /\ {Order, Width} \subseteq Nat /\ 0 < Order /\ Order < Width
  /\ Keys \subseteq 1 .. 2 * HalfRange - 1 /\ Offsets \subseteq Nat
  /\ ListSize \in Nat \ {0} /\ NoKey \notin Int
  /\ {HalfRange, MaxSolves, Reach} \subseteq Nat
  /\ Tames \cup Wilds \subseteq -Reach .. Reach
  /\ 2 * (HalfRange + Reach) < Order   \* 170 bits of range, 22 bytes of distance
  /\ \A o \in Offsets : o + 2 * HalfRange <= Order

VARIABLES
  solves,     \* how many solves have begun
  start,      \* start_offset
  key,        \* of s_PntToSolve: the target's key less the offset
  pc,         \* gpu -> where its thread is
  failed,     \* gpu -> Failed: Prepare failed
  StopFlag,   \* gpu -> its StopFlag
  list,       \* s_pPntList up to s_PntIndex
  main,       \* where the caller's thread is
  taken,      \* s_pPntList2 from the point in hand on
  db,         \* s_db
  s_Solved,
  s_PrivKey,
  stop_flag,
  result,     \* the private key in what solve() returned
  accepted,   \* history: what AddPointsToList took in this solve
  seen        \* history: what entered the table and went to the pool

vars == <<solves, start, key, pc, failed, StopFlag, list, main, taken, db,
          s_Solved, s_PrivKey, stop_flag, result, accepted, seen>>
gpuVars == <<pc, failed, StopFlag>>
keyVars == <<solves, start, key>>

Init ==
  /\ solves = 0 /\ start = 0 /\ key = 1
  /\ pc = [g \in Gpus |-> "exited"] /\ failed = [g \in Gpus |-> FALSE]
  /\ StopFlag = [g \in Gpus |-> FALSE]
  /\ list = <<>> /\ taken = <<>> /\ db = {}
  /\ main = "idle" /\ s_Solved = FALSE /\ s_PrivKey = 0 /\ stop_flag = FALSE
  /\ result = NoKey /\ accepted = <<>> /\ seen = <<>>

-----------------------------------------------------------------------------
(* Points.  A tame kangaroo starts at its distance, a wild one from the     *)
(* target moved down by half a range, or from the opposite of that.         *)

Types == {"tame", "wild1", "wild2"}
Position(type, d) ==
  CASE type = "tame"  -> d
    [] type = "wild1" -> (key - HalfRange) + d
    [] type = "wild2" -> (HalfRange - key) + d

\* A multiple of G and its opposite have one x.
XOf(m) == LET r == m % Order IN IF 2 * r > Order THEN Order - r ELSE r

Records ==
  {[x |-> XOf(Position(t, d)), d |-> d, type |-> t] : t \in {"tame"}, d \in Tames}
  \cup {[x |-> XOf(Position(t, d)), d |-> d, type |-> t] : t \in {"wild1", "wild2"}, d \in Wilds}

-----------------------------------------------------------------------------
(* A GPU's thread.                                                          *)

\* Start() refuses after a failed Prepare, and may fail itself.
StartThread(g) ==
  /\ pc[g] = "start"
  /\ \/ pc' = [pc EXCEPT ![g] = "exited"]
     \/ ~failed[g] /\ pc' = [pc EXCEPT ![g] = "loop"]
  /\ UNCHANGED <<keyVars, failed, StopFlag, list, main, taken, db, s_Solved, s_PrivKey, stop_flag, result, accepted, seen>>

Loop(g) ==
  /\ pc[g] = "loop"
  /\ pc' = [pc EXCEPT ![g] = IF StopFlag[g] THEN "exited" ELSE "kernel"]
  /\ UNCHANGED <<keyVars, failed, StopFlag, list, main, taken, db, s_Solved, s_PrivKey, stop_flag, result, accepted, seen>>

\* Mutant: a batch that would just fill the list is taken.
AddPointsToList_Fills(pts) ==
  IF Len(list) + Len(pts) > ListSize
  THEN UNCHANGED <<list, accepted>>
  ELSE list' = list \o pts /\ accepted' = accepted \o pts

\* AddPointsToList, under s_csAddPoints: a batch that would fill the list is
\* dropped whole.
AddPointsToList(pts) ==
  IF Len(list) + Len(pts) >= ListSize
  THEN UNCHANGED <<list, accepted>>
  ELSE list' = list \o pts /\ accepted' = accepted \o pts

\* A kernel has run; without points there is no call.
Deliver(g) ==
  /\ pc[g] = "kernel"
  /\ \E n \in 0 .. MaxDPs : \E pts \in [1 .. n -> Records] :
       /\ Len(accepted) + n <= MaxPoints
       /\ IF n = 0 THEN UNCHANGED <<list, accepted>> ELSE AddPointsToList(pts)
  /\ pc' = [pc EXCEPT ![g] = "loop"]
  /\ UNCHANGED <<keyVars, failed, StopFlag, main, taken, db, s_Solved, s_PrivKey, stop_flag, result, seen>>

KernelFails(g) ==
  /\ pc[g] = "kernel"
  /\ pc' = [pc EXCEPT ![g] = "exited"]
  /\ UNCHANGED <<keyVars, failed, StopFlag, list, main, taken, db, s_Solved, s_PrivKey, stop_flag, result, accepted, seen>>

Thread(g) == StartThread(g) \/ Loop(g) \/ Deliver(g) \/ KernelFails(g)

-----------------------------------------------------------------------------
(* Collisions.                                                              *)

\* MultiplyG sees 256 bits of a scalar.
Multiplied(k) == (k % Width) % Order
\* Both signs of p around the middle of the range.
Around(p) == {p + HalfRange, HalfRange - p}

\* Mutant: the distance t is tried with one sign only.
Collision_SOTA_OneSign(t, w, type) ==
  LET p == IF type = "tame" THEN t - w ELSE (IF t >= w THEN t - w ELSE w - t) \div 2
  IN  {k \in Around(p) : Multiplied(k) = key}

\* The candidates for the private key that stand the test: t is tried with
\* both signs, and what comes out with both.
Collision_SOTA(t, w, type) ==
  LET half(v) == (IF v >= 0 THEN v ELSE -v) \div 2
      p(v) == IF type = "tame" THEN v - w ELSE half(v - w)
  IN  {k \in Around(p(t)) \cup Around(p(-t)) : Multiplied(k) = key}

\* The private key two records on one x give, if any.  A tame one gives t; of
\* two wild ones the new one does.
KeysFrom(r, e) ==
  IF r.type = e.type /\ (r.type = "tame" \/ r.d % LowD = e.d % LowD) THEN {}
  ELSE IF e.type # "tame" THEN Collision_SOTA(r.d, e.d, r.type)
       ELSE Collision_SOTA(e.d, r.d, "tame")

SameX(r, e) == r.x % XMod = e.x % XMod

-----------------------------------------------------------------------------
(* The caller's thread.                                                     *)

\* Mutant: s_PntIndex keeps what came after the last look.
StartSolve_KeepsList ==
  /\ main = "idle" /\ solves < MaxSolves
  /\ solves' = solves + 1
  /\ start' \in Offsets /\ key' \in Keys
  /\ failed' \in [Gpus -> BOOLEAN]
  /\ pc' = [g \in Gpus |-> "start"] /\ StopFlag' = [g \in Gpus |-> FALSE]
  /\ s_Solved' = FALSE /\ stop_flag' = FALSE
  /\ accepted' = <<>> /\ seen' = <<>> /\ main' = "check"
  /\ UNCHANGED <<list, taken, db, s_PrivKey, result>>

\* solve() up to its loop.  The range begins at the offset, the solver's at 0.
\* The manager, and with it stop_flag, is a new one.
StartSolve ==
  /\ main = "idle" /\ solves < MaxSolves
  /\ solves' = solves + 1
  /\ start' \in Offsets /\ key' \in Keys
  /\ failed' \in [Gpus -> BOOLEAN]
  /\ pc' = [g \in Gpus |-> "start"] /\ StopFlag' = [g \in Gpus |-> FALSE]
  /\ list' = <<>>
  /\ s_Solved' = FALSE /\ stop_flag' = FALSE
  /\ accepted' = <<>> /\ seen' = <<>> /\ main' = "check"
  /\ UNCHANGED <<taken, db, s_PrivKey, result>>

\* CheckNewPoints takes the list, under s_csAddPoints.
Take ==
  /\ main = "check" /\ ~s_Solved /\ ~stop_flag /\ list # <<>>
  /\ taken' = list /\ list' = <<>>
  /\ main' = "points"
  /\ UNCHANGED <<keyVars, gpuVars, db, s_Solved, s_PrivKey, stop_flag, result, accepted, seen>>

\* One point: the table finds one with the same 12 bytes or stores it; the pool
\* gets it in any case; a key that fits ends the work on the list.
Process ==
  LET r == Head(taken)
      same == {e \in db : SameX(r, e)}
      keys == UNION {KeysFrom(r, e) : e \in same}
  IN  /\ main = "points"
      /\ db' = IF same = {} THEN db \cup {r} ELSE db
      /\ seen' = Append(seen, r)
      /\ IF keys # {}
         THEN /\ s_PrivKey' \in keys /\ s_Solved' = TRUE
              /\ taken' = <<>> /\ main' = "check"
         ELSE /\ taken' = Tail(taken)
              /\ main' = IF Len(taken) = 1 THEN "check" ELSE "points"
              /\ UNCHANGED <<s_PrivKey, s_Solved>>
      /\ UNCHANGED <<keyVars, gpuVars, list, stop_flag, result, accepted>>

\* Every ten seconds; the callback may end the search.
CallbackStops ==
  /\ main = "check" /\ ~stop_flag
  /\ stop_flag' = TRUE
  /\ UNCHANGED <<keyVars, gpuVars, list, main, taken, db, s_Solved, s_PrivKey, result, accepted, seen>>

\* Mutant: the threads are not told.
LoopEnds_Untold ==
  /\ main = "check" /\ (s_Solved \/ stop_flag)
  /\ main' = "wait"
  /\ UNCHANGED <<keyVars, gpuVars, list, taken, db, s_Solved, s_PrivKey, stop_flag, result, accepted, seen>>

LoopEnds ==
  /\ main = "check" /\ (s_Solved \/ stop_flag)
  /\ StopFlag' = [g \in Gpus |-> TRUE]
  /\ main' = "wait"
  /\ UNCHANGED <<keyVars, pc, failed, list, taken, db, s_Solved, s_PrivKey, stop_flag, result, accepted, seen>>

\* s_ThrCnt has come down to 0 and the threads are joined; the key is moved by
\* the offset and verified against the target itself.
Finish ==
  /\ main = "wait" /\ \A g \in Gpus : pc[g] = "exited"
  /\ s_PrivKey' = IF s_Solved THEN s_PrivKey + start ELSE s_PrivKey
  /\ result' = IF s_Solved /\ Multiplied(s_PrivKey') = (key + start) % Order
               THEN s_PrivKey' ELSE NoKey
  /\ db' = {}
  /\ main' = "idle"
  /\ UNCHANGED <<keyVars, gpuVars, list, taken, s_Solved, stop_flag, accepted, seen>>

Done == main = "idle" /\ solves = MaxSolves /\ UNCHANGED vars

Main == Take \/ Process \/ LoopEnds \/ Finish
Next == (\E g \in Gpus : Thread(g)) \/ Main \/ StartSolve \/ CallbackStops \/ Done

\* Threads go on, a kernel ends or fails; nothing makes a callback stop or
\* kangaroos meet.
Fairness == (\A g \in Gpus : WF_vars(Thread(g))) /\ WF_vars(Main)
Spec == Init /\ [][Next]_vars /\ Fairness

-----------------------------------------------------------------------------
Points == [x : 0 .. Order - 1, d : Tames \cup Wilds, type : Types]

TypeOK ==
  /\ solves \in 0 .. MaxSolves /\ start \in Offsets \cup {0} /\ key \in Keys \cup {1}
  /\ pc \in [Gpus -> {"start", "loop", "kernel", "exited"}]
  /\ failed \in [Gpus -> BOOLEAN] /\ StopFlag \in [Gpus -> BOOLEAN]
  /\ list \in Seq(Points) /\ Len(list) < ListSize
  /\ taken \in Seq(Points) /\ accepted \in Seq(Points) /\ seen \in Seq(Points)
  /\ (main = "points" => taken # <<>>)
  /\ main \in {"idle", "check", "points", "wait"}
  /\ db \subseteq Points
  /\ s_Solved \in BOOLEAN /\ stop_flag \in BOOLEAN
  /\ s_PrivKey \in Int /\ (result = NoKey \/ result \in Int)

(* The list never fills, and what it took in this solve enters the table and  *)
(* goes to the pool once, in order, whatever the threads do between two looks *)
(* and whatever the solve before has left; only what comes after the last     *)
(* look is lost, and what follows a collision.                                *)
ListKept ==
  /\ TypeOK
  /\ IF s_Solved THEN IsPrefix(seen, accepted) ELSE seen \o taken \o list = accepted

\* That r and an earlier e on one x determine the key: a tame and a wild one
\* always, two of different wild types on one and the same point, two of one
\* type on opposite points whose distances can be told apart.
Determine(r, e) ==
  /\ r.x = e.x
  /\ LET p == Position(r.type, r.d) q == Position(e.type, e.d)
     IN  IF r.type = e.type
         THEN r.type # "tame" /\ (p + q) % Order = 0 /\ r.d % LowD # e.d % LowD
         ELSE "tame" \in {r.type, e.type} \/ (p - q) % Order = 0
Met(j) == {i \in 1 .. j - 1 : SameX(seen[i], seen[j])}

(* A point that determines the key with the first one seen on its x ends the  *)
(* search, unless another x with the same 12 bytes has taken its place in the *)
(* table.                                                                     *)
PairSolves ==
  \A j \in 1 .. Len(seen) :
    LET m == Met(j)
    IN  m # {} /\ Determine(seen[j], seen[CHOOSE i \in m : \A k \in m : i <= k]) => s_Solved

(* A search that ended so returns the key of the target.                      *)
ReturnsKey == main = "idle" /\ s_Solved => result = key + start

PairGivesKey == PairSolves /\ ReturnsKey

(* A search that has its key or was told to stop ends all its threads and     *)
(* returns, with GPUs that failed at any point.                               *)
Returns == (s_Solved \/ stop_flag) /\ main # "idle" ~> main = "idle"
=============================================================================
