---------------------------- MODULE RCHerdProofs ----------------------------
(***************************************************************************)
(* Proofs about RCHerd, for any number of GPUs, points, solves and size of *)
(* the list: what the threads put into the list is what the caller's       *)
(* thread enters into the table and hands to the pool, once and in order;  *)
(* two points that determine the key end the search, and give the key.     *)
(***************************************************************************)
EXTENDS RCHerd, SequenceTheorems, WellFoundedInduction, TLAPS

-----------------------------------------------------------------------------
(* Sequences.                                                                *)

LEMMA PrefixConcat ==
  ASSUME NEW S, NEW s \in Seq(S), NEW t \in Seq(S)
  PROVE  IsPrefix(s, s \o t)
<1>1. /\ s \o t \in Seq(S) /\ Len(s \o t) = Len(s) + Len(t)
      /\ \A i \in 1 .. Len(s) : (s \o t)[i] = s[i]
  BY ConcatProperties
<1>2. Len(s) \in Nat /\ Len(t) \in Nat
  BY LenProperties
<1>3. SubSeq(s \o t, 1, Len(s)) = s /\ SubSeq(s, 1, Len(s)) = s
  <2>1. SubSeq(s, 1, Len(s)) = s
    BY SubSeqFull
  <2>2. CASE Len(s) = 0
    BY <1>2, <2>1, <2>2, SubSeqEmpty
  <2>3. CASE Len(s) # 0
    <3>1. 1 \in 1 .. Len(s) /\ Len(s) \in 1 .. Len(s)
      BY <1>2, <2>3
    <3>. QED  BY <2>1, <3>1, SubSeqOfConcat1
  <2>. QED  BY <2>2, <2>3
<1>. QED  BY <1>1, <1>2, <1>3 DEF IsPrefix

(* A prefix is continued to the whole.                                       *)
LEMMA PrefixRest ==
  ASSUME NEW S, NEW s \in Seq(S), NEW t \in Seq(S), IsPrefix(s, t)
  PROVE  \E u \in Seq(S) : t = s \o u
<1>. DEFINE n == Len(s)  m == Len(t)  u == SubSeq(t, n + 1, m)
<1>1. n \in Nat /\ m \in Nat /\ n <= m
  BY LenProperties DEF IsPrefix
<1>2. SubSeq(t, 1, n) = s
  BY SubSeqFull DEF IsPrefix
<1>3. SubSeq(t, 1, n) \o u = SubSeq(t, 1, m)
  <2>1. 1 \in 1 .. m + 1 /\ n \in 1 - 1 .. m /\ m \in n .. m
    BY <1>1
  <2>. QED  BY <2>1, ConcatAdjacentSubSeq
<1>4. SubSeq(t, 1, m) = t
  BY SubSeqFull
<1>5. u \in Seq(S)
  <2>1. \A i \in n + 1 .. m : t[i] \in S
    <3>1. \A i \in n + 1 .. m : i \in 1 .. Len(t)
      BY <1>1
    <3>. QED  BY <3>1, ElementOfSeq
  <2>. QED  BY <1>1, <2>1, SubSeqProperties
<1>. QED  BY <1>2, <1>3, <1>4, <1>5

LEMMA PrefixGrows ==
  ASSUME NEW S, NEW s \in Seq(S), NEW t \in Seq(S), NEW v \in Seq(S), IsPrefix(s, t)
  PROVE  IsPrefix(s, t \o v)
<1>1. PICK u \in Seq(S) : t = s \o u
  BY PrefixRest
<1>2. u \o v \in Seq(S) /\ (s \o u) \o v = s \o (u \o v)
  BY ConcatProperties, ConcatAssociative
<1>. QED  BY <1>1, <1>2, PrefixConcat

(* The head of what is in hand moves behind what was seen.                   *)
LEMMA HeadMoves ==
  ASSUME NEW S, NEW s \in Seq(S), NEW t \in Seq(S), t # <<>>
  PROVE  /\ Append(s, Head(t)) \in Seq(S) /\ Tail(t) \in Seq(S) /\ Head(t) \in S
         /\ Append(s, Head(t)) \o Tail(t) = s \o t
<1>1. Head(t) \in S /\ Tail(t) \in Seq(S) /\ <<Head(t)>> \in Seq(S)
  BY HeadTailProperties
<1>2. t = <<Head(t)>> \o Tail(t)
  BY <1>1
<1>3. Append(s, Head(t)) = s \o <<Head(t)>>
  BY <1>1, AppendIsConcat
<1>4. (s \o <<Head(t)>>) \o Tail(t) = s \o (<<Head(t)>> \o Tail(t))
  BY <1>1, ConcatAssociative
<1>5. Append(s, Head(t)) \in Seq(S)
  BY <1>1, AppendProperties
<1>. QED  BY <1>1, <1>2, <1>3, <1>4, <1>5

-----------------------------------------------------------------------------
(* Every record a kernel can write is one the table can hold.                *)
LEMMA RecordsArePoints ==
  ASSUME key \in Keys \cup {1}
  PROVE  Records \subseteq Points
<1>1. key \in Int /\ HalfRange \in Int /\ Order \in Nat \ {0}
  BY RCAssumption
<1>2. ASSUME NEW m \in Int PROVE XOf(m) \in 0 .. Order - 1
  <2>1. ASSUME NEW o \in Nat \ {0} PROVE m % o \in 0 .. o - 1
    OBVIOUS
  <2>2. m % Order \in 0 .. Order - 1
    BY <1>1, <2>1
  <2>3. ASSUME NEW r \in 0 .. Order - 1
        PROVE  (IF 2 * r > Order THEN Order - r ELSE r) \in 0 .. Order - 1
    BY <1>1
  <2>. QED  BY <2>2, <2>3 DEF XOf
<1>3. ASSUME NEW t \in Types, NEW x \in Tames \cup Wilds
      PROVE  Position(t, x) \in Int
  BY <1>1, RCAssumption DEF Position, Types
<1>4. ASSUME NEW t \in Types, NEW x \in Tames \cup Wilds
      PROVE  [x |-> XOf(Position(t, x)), d |-> x, type |-> t] \in Points
  BY <1>2, <1>3, <1>4 DEF Points
<1>. QED  BY <1>4 DEF Records, Types

-----------------------------------------------------------------------------
(* The inductive invariant: outside the loop over its points the caller's    *)
(* thread holds none, and it holds some only while no key is known.          *)
RCInv ==
  /\ ListKept
  /\ main # "points" => taken = <<>>
  /\ main = "points" => ~s_Solved

LEMMA RCInit == Init => RCInv
<1> SUFFICES ASSUME Init PROVE RCInv
  OBVIOUS
<1>1. <<>> \in Seq(Points) /\ Len(<<>>) = 0
  BY EmptySeq
<1>2. TypeOK
  <2>1. /\ pc \in [Gpus -> {"start", "loop", "kernel", "exited"}]
        /\ failed \in [Gpus -> BOOLEAN] /\ StopFlag \in [Gpus -> BOOLEAN]
    BY DEF Init
  <2>2. /\ list \in Seq(Points) /\ Len(list) < ListSize
        /\ taken \in Seq(Points) /\ accepted \in Seq(Points) /\ seen \in Seq(Points)
    BY <1>1, RCAssumption DEF Init
  <2>3. solves \in 0 .. MaxSolves /\ s_PrivKey \in Int /\ start = 0 /\ key = 1
    BY RCAssumption DEF Init
  <2>. QED  BY <2>1, <2>2, <2>3 DEF Init, TypeOK
<1>3. <<>> \o <<>> \o <<>> = <<>>
  BY <1>1, ConcatEmptySeq
<1>. QED  BY <1>2, <1>3 DEF Init, RCInv, ListKept

(* A thread adds to the list, or leaves everything the caller works on.      *)
LEMMA ThreadKeeps ==
  ASSUME RCInv, NEW g \in Gpus, Thread(g)
  PROVE  RCInv'
<1>. USE DEF RCInv, ListKept
<1>1. CASE StartThread(g) \/ Loop(g) \/ KernelFails(g)
  <2>1. UNCHANGED <<keyVars, failed, StopFlag, list, main, taken, db, s_Solved,
                    s_PrivKey, stop_flag, result, accepted, seen>>
    BY <1>1 DEF StartThread, Loop, KernelFails
  <2>2. pc' \in [Gpus -> {"start", "loop", "kernel", "exited"}]
    BY <1>1 DEF StartThread, Loop, KernelFails, TypeOK
  <2>3. TypeOK'
    BY <2>1, <2>2 DEF TypeOK, keyVars
  <2>. QED  BY <2>1, <2>3
<1>2. CASE Deliver(g)
  <2>1. UNCHANGED <<keyVars, failed, StopFlag, main, taken, db, s_Solved,
                    s_PrivKey, stop_flag, result, seen>>
    BY <1>2 DEF Deliver
  <2>2. pc' \in [Gpus -> {"start", "loop", "kernel", "exited"}]
    BY <1>2 DEF Deliver, TypeOK
  <2>3. CASE UNCHANGED <<list, accepted>>
    <3>1. TypeOK'
      BY <2>1, <2>2, <2>3 DEF TypeOK, keyVars
    <3>. QED  BY <2>1, <2>3, <3>1
  <2>4. CASE ~UNCHANGED <<list, accepted>>
    <3>1. PICK n \in 0 .. MaxDPs : \E pts \in [1 .. n -> Records] :
                 n # 0 /\ AddPointsToList(pts)
      BY <1>2, <2>4 DEF Deliver
    <3>2. PICK pts \in [1 .. n -> Records] : AddPointsToList(pts)
      BY <3>1
    <3>3. /\ Len(list) + Len(pts) < ListSize
          /\ list' = list \o pts /\ accepted' = accepted \o pts
      <4>1. pts \in Seq(Records)
        BY <3>2
      <4>2. Len(pts) \in Nat /\ Len(list) \in Nat
        BY <4>1, LenProperties DEF TypeOK
      <4>3. ListSize \in Nat
        BY RCAssumption
      <4>. QED  BY <2>4, <3>2, <4>2, <4>3 DEF AddPointsToList
    <3>4. /\ pts \in Seq(Points) /\ list \in Seq(Points) /\ accepted \in Seq(Points)
          /\ seen \in Seq(Points) /\ taken \in Seq(Points)
      <4>1. pts \in Seq(Records) /\ Records \subseteq Points
        BY <3>2, RecordsArePoints DEF TypeOK
      <4>. QED  BY <4>1, SeqMonotonic DEF TypeOK
    <3>5. /\ list' \in Seq(Points) /\ accepted' \in Seq(Points)
          /\ Len(list') = Len(list) + Len(pts)
      BY <3>3, <3>4, ConcatProperties
    <3>6. TypeOK'
      BY <2>1, <2>2, <3>3, <3>5 DEF TypeOK, keyVars
    <3>7. CASE s_Solved
      <4>1. IsPrefix(seen, accepted \o pts)
        BY <3>4, <3>7, PrefixGrows
      <4>. QED  BY <2>1, <3>3, <3>6, <3>7, <4>1
    <3>8. CASE ~s_Solved
      <4>1. seen \o taken \in Seq(Points)
        BY <3>4, ConcatProperties
      <4>2. ((seen \o taken) \o list) \o pts = (seen \o taken) \o (list \o pts)
        BY <3>4, <4>1, ConcatAssociative
      <4>. QED  BY <2>1, <3>3, <3>6, <3>8, <4>2
    <3>. QED  BY <3>7, <3>8
  <2>. QED  BY <2>3, <2>4
<1>. QED  BY <1>1, <1>2 DEF Thread

LEMMA KeysAreInts ==
  ASSUME NEW r \in Points, NEW e \in Points, NEW k \in KeysFrom(r, e)
  PROVE  k \in Int
<1>1. HalfRange \in Int /\ Tames \cup Wilds \subseteq Int
  BY RCAssumption
<1>2. \A p \in Int : Around(p) \subseteq Int
  BY <1>1 DEF Around
<1>3. ASSUME NEW t \in Int, NEW w \in Int, NEW type
      PROVE  Collision_SOTA(t, w, type) \subseteq Int
  <2>. DEFINE half(v) == (IF v >= 0 THEN v ELSE -v) \div 2
              q(v) == IF type = "tame" THEN v - w ELSE half(v - w)
  <2>1. \A v \in Int : half(v) \in Int
    OBVIOUS
  <2>2. q(t) \in Int /\ q(-t) \in Int
    BY <2>1
  <2>. HIDE DEF q
  <2>3. Around(q(t)) \cup Around(q(-t)) \subseteq Int
    BY <1>2, <2>2
  <2>. QED  BY <2>3 DEF Collision_SOTA, q
<1>4. r.d \in Int /\ e.d \in Int
  BY <1>1 DEF Points
<1>. QED  BY <1>3, <1>4 DEF KeysFrom

LEMMA ProcessKeeps == RCInv /\ Process => RCInv'
<1> SUFFICES ASSUME RCInv, Process
             PROVE  RCInv'
  OBVIOUS
<1>. USE DEF RCInv, ListKept
<1>. DEFINE r == Head(taken)
            same == {e \in db : SameX(r, e)}
            keys == UNION {KeysFrom(r, e) : e \in same}
            rest == Tail(taken)
<1>1. /\ main = "points" /\ ~s_Solved /\ taken # <<>>
      /\ db' = IF same = {} THEN db \cup {r} ELSE db
      /\ seen' = Append(seen, r)
      /\ IF keys # {}
         THEN s_PrivKey' \in keys /\ s_Solved' = TRUE /\ taken' = <<>> /\ main' = "check"
         ELSE /\ taken' = rest
              /\ main' = IF Len(taken) = 1 THEN "check" ELSE "points"
              /\ s_PrivKey' = s_PrivKey /\ s_Solved' = s_Solved
      /\ UNCHANGED <<keyVars, gpuVars, list, stop_flag, result, accepted>>
  BY DEF Process, TypeOK
<1>2. /\ seen \in Seq(Points) /\ taken \in Seq(Points) /\ list \in Seq(Points)
      /\ db \subseteq Points /\ accepted \in Seq(Points)
  BY DEF TypeOK
<1>3. /\ seen' \in Seq(Points) /\ rest \in Seq(Points) /\ r \in Points
      /\ seen' \o rest = seen \o taken
  BY <1>1, <1>2, HeadMoves
<1>4. \A k \in keys : k \in Int
  BY <1>2, <1>3, KeysAreInts
<1>5. accepted = seen \o taken \o list
  BY <1>1
<1>. HIDE DEF r, same, keys, rest
<1>6. CASE keys # {}
  <2>1. TypeOK'
    BY <1>1, <1>2, <1>3, <1>4, <1>6 DEF TypeOK, keyVars, gpuVars
  <2>2. IsPrefix(seen', accepted')
    <3>1. (seen' \o rest) \o list = seen' \o (rest \o list)
      <4>1. ASSUME NEW a \in Seq(Points), NEW b \in Seq(Points), NEW c \in Seq(Points)
            PROVE  (a \o b) \o c = a \o (b \o c)
        BY ConcatAssociative
      <4>. QED  BY ONLY <1>2, <1>3, <4>1
    <3>2. rest \o list \in Seq(Points)
      BY <1>2, <1>3, ConcatProperties
    <3>3. accepted' = seen' \o (rest \o list)
      BY <1>1, <1>3, <1>5, <3>1
    <3>. QED  BY <1>3, <3>2, <3>3, PrefixConcat
  <2>. QED  BY <1>1, <1>6, <2>1, <2>2
<1>7. CASE keys = {}
  <2>1. Len(taken) \in Nat \ {0} /\ Len(rest) = Len(taken) - 1
    BY <1>1, <1>2, HeadTailProperties, EmptySeq DEF rest
  <2>2. Len(taken) = 1 <=> rest = <<>>
    <3>1. rest # <<>> => Len(rest) \in Nat \ {0}
      BY ONLY <1>3, EmptySeq
    <3>2. Len(<<>>) = 0
      BY EmptySeq
    <3>. QED  BY ONLY <2>1, <3>1, <3>2
  <2>3. TypeOK'
    BY <1>1, <1>2, <1>3, <1>7, <2>2 DEF TypeOK, keyVars, gpuVars
  <2>4. seen' \o taken' \o list' = accepted'
    BY <1>1, <1>3, <1>5, <1>7
  <2>. QED  BY <1>1, <1>7, <2>2, <2>3, <2>4
<1>. QED  BY <1>6, <1>7

LEMMA RCStep == RCInv /\ [Next]_vars => RCInv'
<1> SUFFICES ASSUME RCInv, [Next]_vars
             PROVE  RCInv'
  OBVIOUS
<1>. USE DEF RCInv, ListKept
<1>0. /\ seen \in Seq(Points) /\ taken \in Seq(Points) /\ list \in Seq(Points)
      /\ <<>> \in Seq(Points) /\ Len(<<>>) = 0
  BY EmptySeq DEF TypeOK
<1>1. CASE \E g \in Gpus : Thread(g)
  BY <1>1, ThreadKeeps
<1>2. CASE StartSolve
  <2>1. taken' = <<>> /\ list' = <<>> /\ seen' = <<>> /\ accepted' = <<>>
    BY <1>2 DEF StartSolve
  <2>2. seen' \o taken' \o list' = accepted'
    BY <1>0, <2>1, ConcatEmptySeq
  <2>3. TypeOK'
    <3>1. /\ pc' \in [Gpus -> {"start", "loop", "kernel", "exited"}]
          /\ failed' \in [Gpus -> BOOLEAN] /\ StopFlag' \in [Gpus -> BOOLEAN]
      BY <1>2 DEF StartSolve
    <3>2. solves' \in 0 .. MaxSolves /\ start' \in Offsets /\ key' \in Keys
      BY <1>2, RCAssumption DEF StartSolve, TypeOK
    <3>3. Len(list') < ListSize
      BY <1>0, <2>1, RCAssumption
    <3>4. main' = "check" /\ s_Solved' = FALSE /\ stop_flag' = FALSE
      BY <1>2 DEF StartSolve
    <3>5. UNCHANGED <<db, s_PrivKey, result>>
      BY <1>2 DEF StartSolve
    <3>. QED  BY <1>0, <2>1, <3>1, <3>2, <3>3, <3>4, <3>5 DEF TypeOK
  <2>. QED  BY <1>2, <2>2, <2>3 DEF StartSolve
<1>3. CASE Take
  <2>1. taken' = list /\ list' = <<>> /\ seen' = seen /\ taken = <<>>
    BY <1>3 DEF Take
  <2>2. seen \o <<>> \o list = seen \o list \o <<>>
    <3>1. seen \o list \in Seq(Points)
      BY <1>0, ConcatProperties
    <3>. QED  BY <1>0, <3>1, ConcatEmptySeq
  <2>3. TypeOK'
    <3>1. ListSize \in Nat \ {0}
      BY RCAssumption
    <3>. QED  BY <1>0, <1>3, <3>1 DEF Take, TypeOK, keyVars, gpuVars
  <2>. QED  BY <1>3, <2>1, <2>2, <2>3 DEF Take
<1>4. CASE Process
  BY <1>4, ProcessKeeps
<1>5. CASE LoopEnds
  <2>1. StopFlag' \in [Gpus -> BOOLEAN]
    BY <1>5 DEF LoopEnds
  <2>2. TypeOK'
    BY <1>5, <2>1 DEF LoopEnds, TypeOK, keyVars
  <2>. QED  BY <1>5, <2>2 DEF LoopEnds
<1>6. CASE Finish
  <2>1. s_PrivKey' \in Int /\ (result' = NoKey \/ result' \in Int)
    <3>1. start \in Int
      BY RCAssumption DEF TypeOK
    <3>. QED  BY <1>6, <3>1 DEF Finish, TypeOK
  <2>2. TypeOK'
    BY <1>6, <2>1 DEF Finish, TypeOK, keyVars, gpuVars
  <2>. QED  BY <1>6, <2>2 DEF Finish
<1>7. CASE CallbackStops
  <2>1. TypeOK'
    BY <1>7 DEF CallbackStops, TypeOK, keyVars, gpuVars
  <2>. QED  BY <1>7, <2>1 DEF CallbackStops
<1>8. CASE Done \/ UNCHANGED vars
  <2>1. UNCHANGED vars
    BY <1>8 DEF Done
  <2>2. TypeOK'
    BY <2>1 DEF vars, TypeOK
  <2>. QED  BY <2>1, <2>2 DEF vars
<1>. QED  BY <1>1, <1>2, <1>3, <1>4, <1>5, <1>6, <1>7, <1>8 DEF Next, Main

-----------------------------------------------------------------------------
(* rckangaroo_wrapper.cu: the list between the GPUs' threads and the caller  *)
(* never fills, and every point it takes goes through the table and to the   *)
(* pool once and in order, up to the last look or the first collision.       *)
THEOREM ListCorrect == Spec => []ListKept
<1>1. RCInv => ListKept
  BY DEF RCInv
<1>. QED  BY <1>1, RCInit, RCStep, PTL DEF Spec

-----------------------------------------------------------------------------
(* Positions and keys.                                                       *)

\* No position comes to half the order, so that x tells it up to its sign.
LEMMA XIsDistance ==
  ASSUME NEW m \in Int, -(HalfRange + Reach) <= m, m <= HalfRange + Reach
  PROVE  XOf(m) = IF m >= 0 THEN m ELSE -m
<1>1. Order \in Nat \ {0} /\ 2 * (HalfRange + Reach) < Order /\ {HalfRange, Reach} \subseteq Nat
  BY RCAssumption
<1>2. ASSUME NEW o \in Nat, 2 * m < o, -(2 * m) < o
      PROVE  m % o = IF m >= 0 THEN m ELSE o + m
  BY <1>2
<1>3. 2 * m < Order /\ -(2 * m) < Order
  BY <1>1
<1>4. m % Order = IF m >= 0 THEN m ELSE Order + m
  BY <1>1, <1>2, <1>3
<1>. QED  BY <1>1, <1>3, <1>4 DEF XOf

LEMMA RecordsWithin ==
  ASSUME key \in Keys, NEW r \in Records
  PROVE  /\ r.type \in Types /\ r.d \in -Reach .. Reach
         /\ LET p == Position(r.type, r.d)
            IN  p \in Int /\ r.x = IF p >= 0 THEN p ELSE -p
<1>1. /\ {HalfRange, Reach} \subseteq Nat /\ key \in 1 .. 2 * HalfRange - 1
      /\ Tames \cup Wilds \subseteq -Reach .. Reach
  BY RCAssumption
<1>2. ASSUME NEW t \in Types, NEW v \in Tames \cup Wilds
      PROVE  /\ Position(t, v) \in Int
             /\ -(HalfRange + Reach) <= Position(t, v) /\ Position(t, v) <= HalfRange + Reach
  BY <1>1 DEF Types, Position
<1>3. PICK t \in Types, v \in Tames \cup Wilds : r = [x |-> XOf(Position(t, v)), d |-> v, type |-> t]
  BY DEF Records, Types
<1>4. XOf(Position(t, v)) = IF Position(t, v) >= 0 THEN Position(t, v) ELSE -Position(t, v)
  BY <1>2, XIsDistance
<1>5. r.type = t /\ r.d = v /\ r.x = XOf(Position(t, v))
  BY <1>3
<1>. QED  BY <1>1, <1>2, <1>4, <1>5

\* What is tried and stands the test is a key.
LEMMA TriedIsFound ==
  ASSUME key \in Keys, NEW t \in Int, NEW w \in Int, NEW type, NEW v \in {t, -t},
         LET p == IF type = "tame" THEN v - w
                  ELSE (IF v - w >= 0 THEN v - w ELSE -(v - w)) \div 2
         IN  key \in {p + HalfRange, HalfRange - p}
  PROVE  key \in Collision_SOTA(t, w, type)
<1>1. key \in 0 .. Order - 1 /\ Order \in Nat /\ Width \in Nat /\ Order < Width
  BY RCAssumption
<1>2. ASSUME NEW o \in Nat, NEW k \in 0 .. o - 1
      PROVE  k % o = k
  BY <1>2
<1>3. key % Width = key /\ key % Order = key
  BY <1>1, <1>2
<1>4. Multiplied(key) = key
  BY <1>3 DEF Multiplied
<1>. DEFINE half(x) == (IF x >= 0 THEN x ELSE -x) \div 2
            p(x) == IF type = "tame" THEN x - w ELSE half(x - w)
<1>5. key \in Around(p(v))
  BY DEF Around
<1>6. key \in Around(p(t)) \cup Around(p(-t))
  BY <1>5
<1>. HIDE DEF p
<1>. QED  BY <1>4, <1>6 DEF Collision_SOTA, p

LEMMA TameWild ==
  ASSUME key \in Keys, NEW t \in Int, NEW w \in Int,
         LET p == (key - HalfRange) + w
             q == (HalfRange - key) + w
         IN  t \in {p, -p} \/ t \in {q, -q}
  PROVE  key \in Collision_SOTA(t, w, "tame")
<1>1. HalfRange \in Int /\ key \in Int
  BY RCAssumption
<1>2. PICK v \in {t, -t} : key = (v - w) + HalfRange \/ key = HalfRange - (v - w)
  BY <1>1
<1>. QED  BY <1>2, TriedIsFound

LEMMA WildWild ==
  ASSUME key \in Keys, NEW t \in Int, NEW w \in Int, NEW type, type # "tame",
         NEW v \in {t, -t}, 2 * (key - HalfRange) \in {v - w, -(v - w)}
  PROVE  key \in Collision_SOTA(t, w, type)
<1>1. HalfRange \in Int /\ key \in Int
  BY RCAssumption
<1>2. LET p == (IF v - w >= 0 THEN v - w ELSE -(v - w)) \div 2
      IN  key \in {p + HalfRange, HalfRange - p}
  BY <1>1
<1>. QED  BY <1>2, TriedIsFound

(* Two points that determine the key give it.                                *)
LEMMA DeterminedIsFound ==
  ASSUME key \in Keys, NEW r \in Records, NEW e \in Records, Determine(r, e)
  PROVE  key \in KeysFrom(r, e)
<1>. DEFINE p == Position(r.type, r.d)
            q == Position(e.type, e.d)
<1>1. /\ r.type \in Types /\ e.type \in Types /\ r.d \in Int /\ e.d \in Int
      /\ p \in Int /\ q \in Int /\ (p = q \/ p = -q)
      /\ -(HalfRange + Reach) <= p /\ p <= HalfRange + Reach
      /\ -(HalfRange + Reach) <= q /\ q <= HalfRange + Reach
  <2>1. /\ r.type \in Types /\ e.type \in Types /\ r.d \in -Reach .. Reach /\ e.d \in -Reach .. Reach
        /\ p \in Int /\ q \in Int
        /\ r.x = (IF p >= 0 THEN p ELSE -p) /\ e.x = (IF q >= 0 THEN q ELSE -q) /\ r.x = e.x
    BY RecordsWithin DEF Determine
  <2>2. Reach \in Nat /\ HalfRange \in Nat /\ key \in 1 .. 2 * HalfRange - 1
    BY RCAssumption
  <2>3. p = q \/ p = -q
    BY ONLY <2>1
  <2>4. /\ -(HalfRange + Reach) <= p /\ p <= HalfRange + Reach
        /\ -(HalfRange + Reach) <= q /\ q <= HalfRange + Reach
    BY <2>1, <2>2 DEF Position, Types
  <2>. QED  BY <2>1, <2>2, <2>3, <2>4
<1>2. /\ r.type = "tame" => p = r.d
      /\ r.type = "wild1" => p = (key - HalfRange) + r.d
      /\ r.type = "wild2" => p = (HalfRange - key) + r.d
      /\ e.type = "tame" => q = e.d
      /\ e.type = "wild1" => q = (key - HalfRange) + e.d
      /\ e.type = "wild2" => q = (HalfRange - key) + e.d
  BY DEF Position
<1>3. HalfRange \in Nat /\ Reach \in Nat /\ key \in Int /\ Order \in Nat
      /\ 2 * (HalfRange + Reach) < Order
  BY RCAssumption
\* Within half the order, a multiple of it is 0.
<1>4. ASSUME NEW m \in Int, -(2 * (HalfRange + Reach)) <= m, m <= 2 * (HalfRange + Reach),
             m % Order = 0
      PROVE  m = 0
  <2>1. ASSUME NEW o \in Nat, -o < m, m < o, m % o = 0 PROVE m = 0
    BY <2>1
  <2>. QED  BY <1>3, <1>4, <2>1
<1>5. r.type \in {"tame", "wild1", "wild2"} /\ e.type \in {"tame", "wild1", "wild2"}
  BY <1>1 DEF Types
<1>. HIDE DEF p, q
<1>6. CASE r.type = "tame"
  <2>1. e.type # "tame"
    BY <1>6 DEF Determine
  <2>2. key \in Collision_SOTA(r.d, e.d, "tame")
    <3>1. LET a == (key - HalfRange) + e.d  b == (HalfRange - key) + e.d
          IN  r.d \in {a, -a} \/ r.d \in {b, -b}
      BY <1>1, <1>2, <1>3, <1>5, <1>6, <2>1
    <3>. QED  BY <1>1, <3>1, TameWild
  <2>. QED  BY <1>6, <2>1, <2>2 DEF KeysFrom
<1>7. CASE r.type # "tame" /\ e.type = "tame"
  <2>1. key \in Collision_SOTA(e.d, r.d, "tame")
    <3>1. LET a == (key - HalfRange) + r.d  b == (HalfRange - key) + r.d
          IN  e.d \in {a, -a} \/ e.d \in {b, -b}
      BY <1>1, <1>2, <1>3, <1>5, <1>7
    <3>. QED  BY <1>1, <3>1, TameWild
  <2>. QED  BY <1>7, <2>1 DEF KeysFrom
<1>8. CASE r.type # "tame" /\ e.type # "tame" /\ r.type # e.type
  <2>1. (p - q) % Order = 0
    BY <1>8 DEF Determine, p, q
  <2>2. p = q
    <3>1. p - q = 0
      BY <1>1, <1>3, <1>4, <2>1
    <3>. QED  BY <1>1, <3>1
  <2>3. 2 * (key - HalfRange) \in {r.d - e.d, -(r.d - e.d)}
    BY <1>1, <1>2, <1>3, <1>5, <1>8, <2>2
  <2>4. key \in Collision_SOTA(r.d, e.d, r.type)
    BY <1>1, <1>8, <2>3, WildWild
  <2>. QED  BY <1>8, <2>4 DEF KeysFrom
<1>9. CASE r.type # "tame" /\ r.type = e.type
  <2>1. (p + q) % Order = 0 /\ r.d % LowD # e.d % LowD
    BY <1>9 DEF Determine, p, q
  <2>2. p + q = 0
    BY <1>1, <1>3, <1>4, <2>1
  <2>3. 2 * (key - HalfRange) \in {(-r.d) - e.d, -((-r.d) - e.d)}
    BY <1>1, <1>2, <1>3, <1>5, <1>9, <2>2
  <2>4. key \in Collision_SOTA(r.d, e.d, r.type)
    BY <1>1, <1>9, <2>3, WildWild
  <2>. QED  BY <1>9, <2>1, <2>4 DEF KeysFrom
<1>. QED  BY <1>6, <1>7, <1>8, <1>9

\* What comes out of two points lies near the range, and stands the test.
LEMMA FoundIsNear ==
  ASSUME key \in Keys, NEW r \in Records, NEW e \in Records, NEW k \in KeysFrom(r, e)
  PROVE  k \in HalfRange - 2 * Reach .. HalfRange + 2 * Reach /\ Multiplied(k) = key
<1>1. r.d \in -Reach .. Reach /\ e.d \in -Reach .. Reach /\ {HalfRange, Reach} \subseteq Nat
  BY RecordsWithin, RCAssumption
<1>2. ASSUME NEW t \in -Reach .. Reach, NEW w \in -Reach .. Reach, NEW type,
             NEW c \in Collision_SOTA(t, w, type)
      PROVE  c \in HalfRange - 2 * Reach .. HalfRange + 2 * Reach /\ Multiplied(c) = key
  <2>. DEFINE half(x) == (IF x >= 0 THEN x ELSE -x) \div 2
              p(x) == IF type = "tame" THEN x - w ELSE half(x - w)
  <2>1. Multiplied(c) = key /\ (c \in Around(p(t)) \/ c \in Around(p(-t)))
    BY <1>2 DEF Collision_SOTA
  <2>2. ASSUME NEW x \in -Reach .. Reach
        PROVE  p(x) \in -(2 * Reach) .. 2 * Reach
    <3>1. x - w \in -(2 * Reach) .. 2 * Reach
      BY <1>1
    <3>2. ASSUME NEW y \in -(2 * Reach) .. 2 * Reach PROVE half(y) \in 0 .. 2 * Reach
      BY <1>1
    <3>. HIDE DEF half
    <3>3. half(x - w) \in 0 .. 2 * Reach
      BY <3>1, <3>2
    <3>. QED  BY <1>1, <3>1, <3>3
  <2>. HIDE DEF p
  <2>3. -t \in -Reach .. Reach
    BY <1>1
  <2>4. p(t) \in -(2 * Reach) .. 2 * Reach /\ p(-t) \in -(2 * Reach) .. 2 * Reach
    BY <2>2, <2>3
  <2>. QED  BY <1>1, <2>1, <2>4 DEF Around
<1>. QED  BY <1>1, <1>2 DEF KeysFrom

(* A negative candidate is multiplied as 2^256 less its amount, which is      *)
(* another key when the range reaches above 2^256 - Order.                    *)
NoWrap == \A k \in 1 .. 2 * Reach : (Width - k) % Order \notin Keys

LEMMA FoundIsKey ==
  ASSUME NoWrap, key \in Keys, NEW r \in Records, NEW e \in Records, NEW k \in KeysFrom(r, e)
  PROVE  k = key
<1>1. /\ {HalfRange, Reach, Order, Width} \subseteq Nat /\ Order < Width
      /\ 2 * (HalfRange + Reach) < Order
  BY RCAssumption
<1>2. k \in HalfRange - 2 * Reach .. HalfRange + 2 * Reach /\ Multiplied(k) = key
  BY FoundIsNear
<1>3. ASSUME NEW o \in Nat, NEW c \in 0 .. o - 1 PROVE c % o = c
  BY <1>3
<1>4. CASE k >= 0
  <2>1. k % Width = k /\ k % Order = k
    BY <1>1, <1>2, <1>3, <1>4
  <2>. QED  BY <1>2, <2>1 DEF Multiplied
<1>5. CASE k < 0
  <2>1. ASSUME NEW o \in Nat, NEW c \in Int, -o <= c, c < 0 PROVE c % o = o + c
    BY <2>1
  <2>2. -k \in 1 .. 2 * Reach /\ -Width <= k
    BY <1>1, <1>2, <1>5
  <2>3. k % Width = Width + k /\ Width - (-k) = Width + k
    <3>1. Width \in Nat /\ k \in Int
      BY <1>1, <1>2
    <3>2. k % Width = Width + k
      BY <1>5, <2>1, <2>2, <3>1
    <3>3. Width - (-k) = Width + k
      BY ONLY <3>1
    <3>. QED  BY <3>2, <3>3
  <2>4. (Width - (-k)) % Order = key
    BY <1>2, <2>3 DEF Multiplied
  <2>. QED  BY <2>2, <2>4 DEF NoWrap
<1>. QED  BY <1>1, <1>2, <1>4, <1>5

-----------------------------------------------------------------------------
(* The table holds the first point of every 12 bytes.                        *)

LEMMA LeastIndex ==
  ASSUME NEW S \in SUBSET Nat, S # {}
  PROVE  \E i \in S : \A j \in S : i <= j
<1>. DEFINE Less == {ss \in Nat \X Nat : ss[1] < ss[2]}
<1>1. IsWellFoundedOn(Less, Nat)
  BY NatLessThanWellFounded DEF OpToRel
<1>2. PICK i \in S : \A j \in S : <<j, i>> \notin Less
  <2>. HIDE DEF Less
  <2>. QED  BY <1>1, WFMin
<1>3. \A j \in S : ~(j < i)
  BY <1>2
<1>. QED  BY <1>3

Least(m) == CHOOSE i \in m : \A k \in m : i <= k

LEMMA LeastIsLeast ==
  ASSUME NEW S \in SUBSET Nat, S # {}
  PROVE  Least(S) \in S /\ \A j \in S : Least(S) <= j
BY LeastIndex DEF Least

Before(s, r, n) == {i \in 1 .. n : SameX(s[i], r)}
FirstIn(s) == {s[i] : i \in {j \in 1 .. Len(s) : Before(s, s[j], j - 1) = {}}}

\* The first one like r is in the table.
LEMMA FirstIsHeld ==
  ASSUME NEW S, NEW s \in Seq(S), NEW r, Before(s, r, Len(s)) # {}
  PROVE  LET f == Least(Before(s, r, Len(s)))
         IN  s[f] \in FirstIn(s) /\ SameX(r, s[f])
<1>. DEFINE m == Before(s, r, Len(s))
            f == Least(m)
<1>1. Len(s) \in Nat /\ m \in SUBSET Nat
  BY LenProperties DEF Before
<1>2. f \in m /\ \A k \in m : f <= k
  BY <1>1, LeastIsLeast
<1>. HIDE DEF f
<1>3. f \in 1 .. Len(s) /\ SameX(s[f], r)
  BY <1>2 DEF Before
<1>4. Before(s, s[f], f - 1) = {}
  <2>1. ASSUME NEW i \in Before(s, s[f], f - 1) PROVE FALSE
    <3>1. i \in 1 .. f - 1 /\ SameX(s[i], r)
      BY <1>3, <2>1 DEF Before, SameX
    <3>2. i \in m
      BY <1>1, <1>3, <3>1 DEF Before
    <3>. QED  BY <1>1, <1>2, <1>3, <3>1, <3>2
  <2>. QED  BY <2>1
<1>5. s[f] \in FirstIn(s) /\ SameX(r, s[f])
  BY <1>3, <1>4 DEF FirstIn, SameX
<1>. QED  BY <1>5 DEF f

LEMMA FirstGrows ==
  ASSUME NEW S, NEW s \in Seq(S), NEW r \in S
  PROVE  FirstIn(Append(s, r)) =
           IF {e \in FirstIn(s) : SameX(r, e)} = {} THEN FirstIn(s) \cup {r} ELSE FirstIn(s)
<1>. DEFINE u == Append(s, r)  n == Len(s)
<1>1. /\ n \in Nat /\ Len(u) = n + 1 /\ u[n + 1] = r
      /\ \A i \in 1 .. n : u[i] = s[i]
  BY LenProperties, AppendProperties
<1>. HIDE DEF u
<1>2. ASSUME NEW i \in 1 .. n PROVE Before(u, u[i], i - 1) = Before(s, s[i], i - 1)
  BY <1>1 DEF Before
<1>3. Before(u, u[n + 1], (n + 1) - 1) = Before(s, r, n)
  BY <1>1 DEF Before
<1>4. Before(s, r, n) = {} <=> {e \in FirstIn(s) : SameX(r, e)} = {}
  <2>1. ASSUME Before(s, r, n) # {} PROVE {e \in FirstIn(s) : SameX(r, e)} # {}
    BY <2>1, FirstIsHeld
  <2>2. ASSUME NEW e \in FirstIn(s), SameX(r, e) PROVE Before(s, r, n) # {}
    BY <2>2 DEF FirstIn, Before, SameX
  <2>. QED  BY <2>1, <2>2
<1>5. FirstIn(u) = IF Before(s, r, n) = {} THEN FirstIn(s) \cup {r} ELSE FirstIn(s)
  <2>1. 1 .. Len(u) = 1 .. n \cup {n + 1}
    BY <1>1
  <2>2. ASSUME NEW e PROVE e \in FirstIn(u) <=>
              e \in FirstIn(s) \/ (Before(s, r, n) = {} /\ e = r)
    BY <1>1, <1>2, <1>3, <2>1 DEF FirstIn
  <2>. QED  BY <2>2
<1>. QED  BY <1>4, <1>5 DEF u

-----------------------------------------------------------------------------
(* What is on the way is a record of this target; the table holds the first  *)
(* point of every 12 bytes, and nothing while no solve runs.                 *)
TableInv ==
  /\ RCInv
  /\ seen \in Seq(Records) /\ taken \in Seq(Records) /\ list \in Seq(Records)
  /\ main = "idle" => db = {}
  /\ main # "idle" => db = FirstIn(seen) /\ key \in Keys /\ start \in Offsets

LEMMA TableInit == Init => TableInv
<1> SUFFICES ASSUME Init PROVE TableInv
  OBVIOUS
<1>1. <<>> \in Seq(Records)
  BY EmptySeq
<1>. QED  BY <1>1, RCInit DEF Init, TableInv

LEMMA EmptyTable == FirstIn(<<>>) = {}
<1>1. Len(<<>>) = 0
  BY EmptySeq
<1>. QED  BY <1>1 DEF FirstIn

LEMMA TableStep == TableInv /\ [Next]_vars => TableInv'
<1> SUFFICES ASSUME TableInv, [Next]_vars
             PROVE  TableInv'
  OBVIOUS
<1>. USE DEF TableInv
<1>0. RCInv /\ RCInv'
  BY RCStep
<1>1. ASSUME UNCHANGED key PROVE Records' = Records
  BY <1>1 DEF Records, Position
<1>2. CASE \E g \in Gpus : Thread(g)
  <2>1. PICK g \in Gpus : StartThread(g) \/ Loop(g) \/ KernelFails(g) \/ Deliver(g)
    BY <1>2 DEF Thread
  <2>2. UNCHANGED <<key, start, seen, taken, main, db>>
    BY <2>1 DEF StartThread, Loop, KernelFails, Deliver, keyVars
  <2>3. list' = list \/ \E n \in 0 .. MaxDPs : \E pts \in [1 .. n -> Records] : list' = list \o pts
    BY <2>1 DEF StartThread, Loop, KernelFails, Deliver, AddPointsToList
  <2>4. list' \in Seq(Records)
    <3>1. ASSUME NEW n \in 0 .. MaxDPs, NEW pts \in [1 .. n -> Records], list' = list \o pts
          PROVE  list' \in Seq(Records)
      <4>1. pts \in Seq(Records)
        OBVIOUS
      <4>. QED  BY <3>1, <4>1, ConcatProperties
    <3>. QED  BY <2>3, <3>1
  <2>. QED  BY <1>0, <1>1, <2>2, <2>4
<1>3. CASE StartSolve
  <2>1. /\ main = "idle" /\ main' = "check" /\ db' = {} /\ taken = <<>>
        /\ taken' = <<>> /\ list' = <<>> /\ seen' = <<>>
        /\ key' \in Keys /\ start' \in Offsets
    BY <1>3, <1>0 DEF StartSolve, RCInv
  <2>2. <<>> \in Seq(Records')
    BY EmptySeq
  <2>. QED  BY <1>0, <2>1, <2>2, EmptyTable
<1>4. CASE Take
  <2>1. /\ main = "check" /\ main' = "points" /\ taken' = list /\ list' = <<>>
        /\ UNCHANGED <<key, start, seen, db>>
    BY <1>4 DEF Take, keyVars
  <2>2. <<>> \in Seq(Records)
    BY EmptySeq
  <2>. QED  BY <1>0, <1>1, <2>1, <2>2
<1>5. CASE Process
  <2>. DEFINE r == Head(taken)
              same == {e \in db : SameX(r, e)}
  <2>1. /\ main = "points" /\ main' \in {"check", "points"} /\ taken # <<>>
        /\ db' = (IF same = {} THEN db \cup {r} ELSE db)
        /\ seen' = Append(seen, r)
        /\ taken' = <<>> \/ taken' = Tail(taken)
        /\ UNCHANGED <<key, start, list>>
    BY <1>0, <1>5 DEF Process, keyVars, RCInv, ListKept, TypeOK
  <2>2. /\ r \in Records /\ Tail(taken) \in Seq(Records) /\ <<>> \in Seq(Records)
        /\ Append(seen, r) \in Seq(Records)
    BY <2>1, HeadMoves, EmptySeq
  <2>3. FirstIn(Append(seen, r)) =
          IF {e \in FirstIn(seen) : SameX(r, e)} = {} THEN FirstIn(seen) \cup {r} ELSE FirstIn(seen)
    BY <2>2, FirstGrows
  <2>4. db' = FirstIn(seen')
    BY <2>1, <2>3
  <2>. QED  BY <1>0, <1>1, <2>1, <2>2, <2>4
<1>6. CASE LoopEnds \/ CallbackStops
  <2>1. /\ main = "check" /\ main' \in {"check", "wait"}
        /\ UNCHANGED <<key, start, seen, taken, list, db>>
    BY <1>6 DEF LoopEnds, CallbackStops, keyVars
  <2>. QED  BY <1>0, <1>1, <2>1
<1>7. CASE Finish
  <2>1. main' = "idle" /\ db' = {} /\ UNCHANGED <<key, seen, taken, list>>
    BY <1>7 DEF Finish, keyVars
  <2>. QED  BY <1>0, <1>1, <2>1
<1>8. CASE Done \/ UNCHANGED vars
  <2>1. UNCHANGED <<key, start, seen, taken, list, main, db>>
    BY <1>8 DEF Done, vars
  <2>. QED  BY <1>0, <1>1, <2>1
<1>. QED  BY <1>2, <1>3, <1>4, <1>5, <1>6, <1>7, <1>8 DEF Next, Main

-----------------------------------------------------------------------------
(* Pairs.                                                                    *)

\* For the target of key k, the j-th point of s and the first one on its x
\* determine it.
Place(k, r) ==
  CASE r.type = "tame"  -> r.d
    [] r.type = "wild1" -> (k - HalfRange) + r.d
    [] r.type = "wild2" -> (HalfRange - k) + r.d
Tell(k, r, e) ==
  /\ r.x = e.x
  /\ LET p == Place(k, r) q == Place(k, e)
     IN  IF r.type = e.type
         THEN r.type # "tame" /\ (p + q) % Order = 0 /\ r.d % LowD # e.d % LowD
         ELSE "tame" \in {r.type, e.type} \/ (p - q) % Order = 0
Meets(k, s, j) ==
  LET m == Before(s, s[j], j - 1)
  IN  m # {} /\ Tell(k, s[j], s[Least(m)])

LEMMA TellDetermines ==
  ASSUME NEW r, NEW e
  PROVE  Determine(r, e) <=> Tell(key, r, e)
BY DEF Determine, Tell, Position, Place

LEMMA PairSolvesMeets ==
  PairSolves <=> \A j \in 1 .. Len(seen) : Meets(key, seen, j) => s_Solved
BY DEF PairSolves, Meets, Met, Before, Least, Determine, Tell, Position, Place

LEMMA PairSolvesMeetsNext ==
  PairSolves' <=> \A j \in 1 .. Len(seen') : Meets(key', seen', j) => s_Solved'
BY DEF PairSolves, Meets, Met, Before, Least, Determine, Tell, Position, Place

\* What was seen before is not changed by one more point.
LEMMA MeetsBefore ==
  ASSUME NEW S, NEW s \in Seq(S), NEW r \in S, NEW k, NEW j \in 1 .. Len(s)
  PROVE  Meets(k, Append(s, r), j) <=> Meets(k, s, j)
<1>. DEFINE u == Append(s, r)  m == Before(s, s[j], j - 1)
<1>1. /\ Len(s) \in Nat /\ \A i \in 1 .. Len(s) : u[i] = s[i]
  BY LenProperties, AppendProperties
<1>. HIDE DEF u
<1>2. Before(u, u[j], j - 1) = m
  BY <1>1 DEF Before
<1>3. m # {} => Least(m) \in 1 .. Len(s)
  <2>1. m \in SUBSET Nat /\ m \subseteq 1 .. Len(s)
    BY <1>1 DEF Before
  <2>. HIDE DEF m
  <2>. QED  BY <2>1, LeastIsLeast
<1>4. u[j] = s[j] /\ (m # {} => u[Least(m)] = s[Least(m)])
  BY <1>1, <1>3
<1>. HIDE DEF m
<1>5. Meets(k, u, j) <=> m # {} /\ Tell(k, u[j], u[Least(m)])
  BY <1>2 DEF Meets
<1>6. Meets(k, s, j) <=> m # {} /\ Tell(k, s[j], s[Least(m)])
  BY DEF Meets, m
<1>. QED  BY <1>4, <1>5, <1>6 DEF u

\* One more point meets what the table holds.
LEMMA MeetsTable ==
  ASSUME NEW S, NEW s \in Seq(S), NEW r \in S, NEW k, Meets(k, Append(s, r), Len(s) + 1)
  PROVE  \E e \in FirstIn(s) : SameX(r, e) /\ Tell(k, r, e)
<1>. DEFINE u == Append(s, r)  m == Before(s, r, Len(s))
<1>1. /\ Len(s) \in Nat /\ u[Len(s) + 1] = r /\ \A i \in 1 .. Len(s) : u[i] = s[i]
  BY LenProperties, AppendProperties
<1>. HIDE DEF u
<1>2. Before(u, u[Len(s) + 1], (Len(s) + 1) - 1) = m
  BY <1>1 DEF Before
<1>3. m # {} /\ Tell(k, r, u[Least(m)])
  <2>1. Meets(k, u, Len(s) + 1)
    BY DEF u
  <2>. QED  BY <1>1, <1>2, <2>1 DEF Meets
<1>4. Least(m) \in 1 .. Len(s)
  <2>1. m \in SUBSET Nat /\ m \subseteq 1 .. Len(s)
    BY <1>1 DEF Before
  <2>. HIDE DEF m
  <2>. QED  BY <1>3, <2>1, LeastIsLeast
<1>5. s[Least(m)] \in FirstIn(s) /\ SameX(r, s[Least(m)])
  BY <1>3, FirstIsHeld
<1>. QED  BY <1>1, <1>3, <1>4, <1>5

LEMMA PairStep == TableInv /\ PairSolves /\ [Next]_vars => PairSolves'
<1> SUFFICES ASSUME TableInv, PairSolves, [Next]_vars
             PROVE  PairSolves'
  OBVIOUS
<1>1. CASE UNCHANGED <<seen, key, s_Solved>>
  BY <1>1, PairSolvesMeets, PairSolvesMeetsNext
<1>2. CASE StartSolve
  <2>1. seen' = <<>> /\ Len(<<>>) = 0
    BY <1>2, EmptySeq DEF StartSolve
  <2>. QED  BY <2>1, PairSolvesMeetsNext
<1>3. CASE Process
  <2>. DEFINE r == Head(taken)
              same == {e \in db : SameX(r, e)}
              keys == UNION {KeysFrom(r, e) : e \in same}
  <2>1. CASE keys # {}
    <3>1. s_Solved'
      BY <1>3, <2>1 DEF Process
    <3>. QED  BY <3>1, PairSolvesMeetsNext
  <2>2. CASE keys = {}
    <3>1. /\ main = "points" /\ taken # <<>> /\ ~s_Solved
          /\ seen' = Append(seen, r) /\ key' = key
      BY <1>3, <2>2 DEF Process, keyVars, TableInv, RCInv, ListKept, TypeOK
    <3>2. /\ seen \in Seq(Records) /\ r \in Records /\ db = FirstIn(seen) /\ key \in Keys
      BY <3>1, HeadMoves DEF TableInv
    <3>3. ASSUME NEW j \in 1 .. Len(seen), Meets(key, Append(seen, r), j) PROVE FALSE
      BY <3>1, <3>2, <3>3, MeetsBefore, PairSolvesMeets
    <3>4. ASSUME Meets(key, Append(seen, r), Len(seen) + 1) PROVE FALSE
      <4>1. PICK e \in FirstIn(seen) : SameX(r, e) /\ Tell(key, r, e)
        BY <3>2, <3>4, MeetsTable
      <4>2. e \in Records
        <5>1. \A i \in 1 .. Len(seen) : seen[i] \in Records
          BY <3>2
        <5>. QED  BY <5>1 DEF FirstIn
      <4>3. key \in KeysFrom(r, e)
        BY <3>2, <4>1, <4>2, TellDetermines, DeterminedIsFound
      <4>. QED  BY <2>2, <3>2, <4>1, <4>3
    <3>5. Len(seen) \in Nat /\ Len(Append(seen, r)) = Len(seen) + 1
      BY <3>2, LenProperties, AppendProperties
    <3>6. \A j \in 1 .. Len(seen') : ~Meets(key', seen', j)
      BY <3>1, <3>3, <3>4, <3>5
    <3>. QED  BY <3>6, PairSolvesMeetsNext
  <2>. QED  BY <2>1, <2>2
<1>4. CASE Take \/ LoopEnds \/ CallbackStops \/ Finish \/ Done \/ UNCHANGED vars
  <2>1. UNCHANGED <<seen, key, s_Solved>>
    BY <1>4 DEF Take, LoopEnds, CallbackStops, Finish, Done, vars, keyVars
  <2>. QED  BY <1>1, <2>1
<1>5. CASE \E g \in Gpus : Thread(g)
  <2>1. UNCHANGED <<seen, key, s_Solved>>
    BY <1>5 DEF Thread, StartThread, Loop, KernelFails, Deliver, keyVars
  <2>. QED  BY <1>1, <2>1
<1>. QED  BY <1>2, <1>3, <1>4, <1>5 DEF Next, Main

\* A solve that knew a key knew the target's, and returns it moved by the offset.
FoundInv ==
  /\ main # "idle" /\ s_Solved => s_PrivKey = key
  /\ ReturnsKey

LEMMA FoundStep ==
  ASSUME NoWrap, TableInv, FoundInv, [Next]_vars
  PROVE  FoundInv'
<1>. USE DEF FoundInv, ReturnsKey
<1>1. CASE UNCHANGED <<s_Solved, s_PrivKey, key, start, result>> /\ (main' = "idle" <=> main = "idle")
  BY <1>1
<1>2. CASE StartSolve
  BY <1>2 DEF StartSolve
<1>3. CASE Process
  <2>. DEFINE r == Head(taken)
              same == {e \in db : SameX(r, e)}
              keys == UNION {KeysFrom(r, e) : e \in same}
  <2>1. /\ main = "points" /\ main' # "idle" /\ taken # <<>> /\ UNCHANGED key
        /\ s_PrivKey' \in keys \/ UNCHANGED <<s_PrivKey, s_Solved>>
    BY <1>3 DEF Process, keyVars, TableInv, RCInv, ListKept, TypeOK
  <2>2. /\ seen \in Seq(Records) /\ r \in Records /\ db = FirstIn(seen) /\ key \in Keys
    BY <2>1, HeadMoves DEF TableInv
  <2>3. \A e \in same : e \in Records
    <3>1. \A i \in 1 .. Len(seen) : seen[i] \in Records
      BY <2>2
    <3>. QED  BY <2>2, <3>1 DEF FirstIn
  <2>4. s_PrivKey' \in keys => s_PrivKey' = key
    BY <2>2, <2>3, FoundIsKey
  <2>. QED  BY <2>1, <2>4
<1>4. CASE Finish
  <2>1. /\ main = "wait" /\ main' = "idle" /\ UNCHANGED <<key, start, s_Solved>>
        /\ s_Solved => /\ s_PrivKey' = s_PrivKey + start
                       /\ result' = IF Multiplied(s_PrivKey') = (key + start) % Order
                                    THEN s_PrivKey' ELSE NoKey
    BY <1>4 DEF Finish, keyVars
  <2>2. key \in Keys /\ start \in Offsets
    BY <2>1 DEF TableInv
  <2>3. Multiplied(key + start) = (key + start) % Order
    <3>1. key + start \in 0 .. Width - 1 /\ Width \in Nat
      BY <2>2, RCAssumption
    <3>2. ASSUME NEW o \in Nat, NEW c \in 0 .. o - 1 PROVE c % o = c
      BY <3>2
    <3>3. (key + start) % Width = key + start
      BY <3>1, <3>2
    <3>. QED  BY <3>3 DEF Multiplied
  <2>. QED  BY <2>1, <2>3
<1>5. CASE Take \/ LoopEnds \/ CallbackStops \/ Done \/ UNCHANGED vars
  BY <1>1, <1>5 DEF Take, LoopEnds, CallbackStops, Done, vars, keyVars
<1>6. CASE \E g \in Gpus : Thread(g)
  BY <1>1, <1>6 DEF Thread, StartThread, Loop, KernelFails, Deliver, keyVars
<1>. QED  BY <1>2, <1>3, <1>4, <1>5, <1>6 DEF Next, Main

(* Collision_SOTA and the table of rckangaroo_wrapper.cu: two points on one  *)
(* x that determine the key always end the search, whichever GPUs brought    *)
(* them, in whichever order, and with whatever else in between.              *)
THEOREM PairsSolve == Spec => []PairSolves
<1>1. Init => PairSolves
  <2>1. Len(<<>>) = 0
    BY EmptySeq
  <2>. QED  BY <2>1 DEF Init, PairSolves
<1>. QED  BY <1>1, TableInit, TableStep, PairStep, PTL DEF Spec

(* And what the search returns is the key, as long as 2^256 wraps no         *)
(* candidate onto one.                                                       *)
THEOREM PairCorrect ==
  ASSUME NoWrap
  PROVE  Spec => []PairGivesKey
<1>1. Init => FoundInv
  BY DEF Init, FoundInv, ReturnsKey
<1>2. TableInv /\ FoundInv /\ [Next]_vars => FoundInv'
  BY FoundStep
<1>3. PairSolves /\ FoundInv => PairGivesKey
  BY DEF PairGivesKey, FoundInv
<1>. QED  BY <1>1, <1>2, <1>3, PairsSolve, TableInit, TableStep, PTL DEF Spec
=============================================================================
