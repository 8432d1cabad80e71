---------------------------- MODULE KangarooProofs ----------------------------
(* Theorems about Kangaroo: the types, the key that is reported, the points  *)
(* the pool was given, and the collisions the table sees.                    *)
EXTENDS Kangaroo, TLAPS

(* What a thread does has one of two forms; the four starts and the loop of  *)
(* solve() have theirs. Every proof below goes through them.                 *)
Walks(t)   == Step(t) \/ Callback(t) \/ Insert(t) \/ Hit(t)
Ends(t)    == LeaveLoop(t) \/ Win(t)
Hashes(t)  == StartHash(t) \/ HashHit(t) \/ HashMiss(t)
Decides    == LoopEnds \/ CallbackStops \/ LimitStops \/ Saved \/ SavedAndOver \/ Return
Saves      == AutoSave \/ Join

-----------------------------------------------------------------------------
(* Position and distance of a kangaroo belong together, and the wild one of  *)
(* a pair has the room for the step that follows the tame one's.             *)

Live == {"step", "callback", "insert"}
Between(t) == IF turn[t] = "tame" THEN pc[t] \in {"callback", "insert"} ELSE pc[t] = "step"

Walk(t) ==
  /\ pc[t] = "new" => turn[t] = "tame"
  /\ hybrid => /\ place[t]["tame"] \in Nat
               /\ pc[t] \notin {"callback", "insert"}
  /\ ~hybrid /\ pc[t] \in Live =>
       /\ place[t]["tame"] \in 0 .. Top /\ distance[t]["tame"] = place[t]["tame"]
       /\ place[t]["wild"] # Stray =>
            /\ place[t]["wild"] \in 0 .. Top
            /\ place[t]["wild"] = Key + distance[t]["wild"]
            /\ Between(t) => Room(place[t]["wild"])

WalkInv == \A t \in Threads : Walk(t)

LEMMA JumpIsNat == ASSUME NEW x \in Nat PROVE JumpIndex(x) \in JumpIndexes /\ JumpDistance(JumpIndex(x)) \in Nat
  <1>1. NumJumps \in Nat \ {0}
    BY KangarooAssumption
  <1>2. JumpIndex(x) \in JumpIndexes
    BY <1>1 DEF JumpIndex, JumpIndexes
  <1> QED BY <1>2, PowersAssumption

LEMMA Consts ==
  /\ Low \in Nat /\ High \in Nat /\ Key \in Nat /\ Top \in Nat /\ MaxRuns \in Nat
  /\ RangeSize \in Nat /\ Low < High /\ Stray \notin Nat /\ MaxSteps \in Nat
  /\ \A t \in Threads : TameOffsets[t] \subseteq Nat /\ WildOffsets[t] \subseteq Nat
  /\ HashOffsets \subseteq Nat
  BY KangarooAssumption, PowersAssumption DEF RangeSize

LEMMA XIsNat == /\ \A p \in 0 .. Top : X(p) \in Nat
                /\ X(Stray) \in Nat
  BY KangarooAssumption

(* Walk is kept by the steps of a thread.                                    *)
LEMMA WalkStart ==
  ASSUME TypeOK, WalkInv, NEW t \in Threads, StartWorker(t)
  PROVE  WalkInv' /\ place' \in [Threads -> [Kinds -> Nat \cup {Stray}]]
         /\ distance' \in [Threads -> [Kinds -> Nat]]
  <1>1. PICK tame \in TameOffsets[t], wild \in WildOffsets[t], aliased \in Aliased :
          /\ place' = [place EXCEPT ![t] = Pair(TameStart(tame), WildStart(wild, aliased))]
          /\ distance' = [distance EXCEPT ![t] = Pair(TameStart(tame), wild)]
    BY DEF StartWorker
  <1>2. tame \in Nat /\ wild \in Nat /\ TameStart(tame) \in 0 .. Top /\ Key + wild <= Top
        /\ Key \in Nat /\ Stray \notin Nat /\ Top \in Nat
    BY Consts, StartAssumption
  <1>3. TameStart(tame) \in Nat /\ WildStart(wild, aliased) \in Nat \cup {Stray}
        /\ (WildStart(wild, aliased) # Stray => WildStart(wild, aliased) = Key + wild /\ WildStart(wild, aliased) \in 0 .. Top)
    BY <1>2 DEF WildStart
  <1>a. Pair(TameStart(tame), WildStart(wild, aliased)) \in [Kinds -> Nat \cup {Stray}]
        /\ Pair(TameStart(tame), wild) \in [Kinds -> Nat]
    BY <1>2, <1>3 DEF Pair, Kinds
  <1>b. /\ Pair(TameStart(tame), WildStart(wild, aliased))["tame"] = TameStart(tame)
        /\ Pair(TameStart(tame), WildStart(wild, aliased))["wild"] = WildStart(wild, aliased)
        /\ Pair(TameStart(tame), wild)["tame"] = TameStart(tame)
        /\ Pair(TameStart(tame), wild)["wild"] = wild
    BY DEF Pair, Kinds
  <1>4. /\ place' \in [Threads -> [Kinds -> Nat \cup {Stray}]]
        /\ distance' \in [Threads -> [Kinds -> Nat]]
    BY <1>1, <1>a DEF TypeOK
  <1>5. /\ place'[t] = Pair(TameStart(tame), WildStart(wild, aliased))
        /\ distance'[t] = Pair(TameStart(tame), wild)
        /\ pc'[t] = "step" /\ turn'[t] = "tame" /\ ~hybrid' /\ hybrid' = hybrid
    BY <1>1 DEF TypeOK, StartWorker, WalkInv, Walk
  <1>6. Walk(t)'
    BY <1>2, <1>3, <1>5, <1>b DEF Walk, Between
  <1>7. ASSUME NEW u \in Threads, u # t PROVE Walk(u)'
    <2>1. place'[u] = place[u] /\ distance'[u] = distance[u] /\ pc'[u] = pc[u]
          /\ turn'[u] = turn[u] /\ hybrid' = hybrid
      BY <1>1, <1>7 DEF TypeOK, StartWorker
    <2> QED BY <2>1 DEF WalkInv, Walk, Between, Room
  <1> QED BY <1>4, <1>6, <1>7 DEF WalkInv

LEMMA WalkStep ==
  ASSUME TypeOK, WalkInv, NEW t \in Threads, Step(t)
  PROVE  WalkInv' /\ place' \in [Threads -> [Kinds -> Nat \cup {Stray}]]
         /\ distance' \in [Threads -> [Kinds -> Nat]]
         /\ pc' \in [Threads -> {"new", "step", "callback", "insert", "won", "done"}]
         /\ turn' \in [Threads -> Kinds]
  <1> DEFINE k == turn[t]
  <1>1. /\ pc[t] = "step" /\ ~hybrid /\ hybrid' = hybrid /\ k \in Kinds
        /\ k = "tame" => Roomy(t)
    BY DEF Step, TypeOK
  <1>2. Walk(t)
    BY DEF WalkInv
  <1>3. ASSUME place[t][k] # Stray PROVE Room(place[t][k]) /\ place[t][k] \in 0 .. Top
    BY <1>1, <1>2, <1>3, Consts DEF Walk, Roomy, Between, Kinds, Live
  <1>4. PICK j \in Nat :
          /\ \/ /\ place[t][k] # Stray /\ place' = [place EXCEPT ![t][k] = @ + j]
                /\ place[t][k] + j \in 0 .. Top
             \/ place[t][k] = Stray /\ place' = place
          /\ distance' = [distance EXCEPT ![t][k] = @ + j]
          /\ \/ pc' = [pc EXCEPT ![t] = "callback"] /\ turn' = turn
             \/ turn' = [turn EXCEPT ![t] = Other(k)] /\ pc' = pc
    <2>1. CASE place[t][k] # Stray
      <3>1. X(place[t][k]) \in Nat /\ place[t][k] \in Nat
        BY <1>3, <2>1, XIsNat, Consts
      <3>2. Jump(place[t][k]) \in Nat /\ JumpIndex(X(place[t][k])) \in JumpIndexes
        BY <3>1, JumpIsNat DEF Jump
      <3>3. place[t][k] + Jump(place[t][k]) <= Top
        BY <1>3, <2>1, <3>2 DEF Room, Jump
      <3>4. place[t][k] + Jump(place[t][k]) \in 0 .. Top
        BY <3>1, <3>2, <3>3, Consts
      <3> QED BY <2>1, <3>2, <3>4 DEF Step
    <2>2. CASE place[t][k] = Stray
      BY <2>2, PowersAssumption DEF Step
    <2> QED BY <2>1, <2>2
  <1>5. /\ place' \in [Threads -> [Kinds -> Nat \cup {Stray}]]
        /\ distance' \in [Threads -> [Kinds -> Nat]]
        /\ pc' \in [Threads -> {"new", "step", "callback", "insert", "won", "done"}]
        /\ turn' \in [Threads -> Kinds]
    <2>1. place' \in [Threads -> [Kinds -> Nat \cup {Stray}]]
      <3>1. CASE place' = [place EXCEPT ![t][k] = @ + j] /\ place[t][k] + j \in Nat
        <4>1. place[t] \in [Kinds -> Nat \cup {Stray}] /\ place \in [Threads -> [Kinds -> Nat \cup {Stray}]]
          BY DEF TypeOK
        <4>2. [place[t] EXCEPT ![k] = @ + j] \in [Kinds -> Nat \cup {Stray}]
          BY <1>1, <3>1, <4>1
        <4> QED BY <3>1, <4>1, <4>2
      <3>2. CASE place' = place
        BY <3>2 DEF TypeOK
      <3> QED BY <1>4, <3>1, <3>2, Consts
    <2>2. distance' \in [Threads -> [Kinds -> Nat]]
      BY <1>1, <1>4 DEF TypeOK
    <2>3. pc' \in [Threads -> {"new", "step", "callback", "insert", "won", "done"}]
      BY <1>4 DEF TypeOK
    <2>4. turn' \in [Threads -> Kinds]
      BY <1>4 DEF TypeOK, Other, Kinds
    <2> QED BY <2>1, <2>2, <2>3, <2>4
  <1>6. Walk(t)'
    <2>1. CASE k = "tame"
      <3>1. /\ place'[t]["tame"] \in 0 .. Top /\ distance'[t]["tame"] = place'[t]["tame"]
            /\ place'[t]["wild"] = place[t]["wild"] /\ distance'[t]["wild"] = distance[t]["wild"]
        <4>1. place[t]["tame"] \in 0 .. Top /\ distance[t]["tame"] = place[t]["tame"]
          BY <1>1, <1>2 DEF Walk, Live
        <4>2. place[t]["tame"] # Stray
          BY <4>1, Consts
        <4>3. /\ place' = [place EXCEPT ![t]["tame"] = @ + j]
              /\ distance' = [distance EXCEPT ![t]["tame"] = @ + j]
              /\ place[t]["tame"] + j \in 0 .. Top
          BY <1>4, <2>1, <4>2
        <4>4. /\ place'[t]["tame"] = place[t]["tame"] + j
              /\ distance'[t]["tame"] = distance[t]["tame"] + j
          BY <4>3 DEF TypeOK, Kinds
        <4>5. place'[t]["wild"] = place[t]["wild"] /\ distance'[t]["wild"] = distance[t]["wild"]
          BY <4>3 DEF TypeOK, Kinds
        <4> QED BY <4>1, <4>3, <4>4, <4>5
      <3>2. Roomy(t)
        BY <1>1, <2>1
      <3>3. place[t]["wild"] # Stray => Room(place[t]["wild"])
        BY <3>2 DEF Roomy, Kinds
      <3>4. place'[t]["wild"] # Stray => Room(place'[t]["wild"])
        BY <3>1, <3>3 DEF Room
      <3>5. pc'[t] # "new"
        BY <1>1, <1>4 DEF TypeOK
      <3> QED BY <1>1, <1>2, <3>1, <3>4, <3>5 DEF Walk, Live
    <2>2. CASE k = "wild"
      <3>1. /\ place'[t]["tame"] = place[t]["tame"] /\ distance'[t]["tame"] = distance[t]["tame"]
        BY <1>4, <2>2 DEF TypeOK, Kinds
      <3>2. place'[t]["wild"] # Stray => /\ place'[t]["wild"] \in 0 .. Top
                                        /\ place'[t]["wild"] = Key + distance'[t]["wild"]
        <4>1. CASE place[t]["wild"] = Stray
          BY <1>4, <2>2, <4>1
        <4>2. CASE place[t]["wild"] # Stray
          <5>1. place[t]["wild"] \in 0 .. Top /\ place[t]["wild"] = Key + distance[t]["wild"]
            BY <1>1, <1>2, <4>2 DEF Walk, Live
          <5>2. /\ place' = [place EXCEPT ![t]["wild"] = @ + j]
                /\ distance' = [distance EXCEPT ![t]["wild"] = @ + j]
                /\ place[t]["wild"] + j \in 0 .. Top
            BY <1>4, <2>2, <4>2
          <5>3. distance[t]["wild"] \in Nat /\ Key \in Nat
            BY Consts DEF TypeOK, Kinds
          <5>4. place'[t]["wild"] = place[t]["wild"] + j /\ distance'[t]["wild"] = distance[t]["wild"] + j
            BY <5>2 DEF TypeOK, Kinds
          <5> QED BY <5>1, <5>2, <5>3, <5>4
        <4> QED BY <4>1, <4>2
      <3>3. ~Between(t)'
        BY <1>1, <1>4, <2>2 DEF TypeOK, Between, Other
      <3>4. pc'[t] # "new"
        BY <1>1, <1>4 DEF TypeOK
      <3> QED BY <1>1, <1>2, <3>1, <3>2, <3>3, <3>4 DEF Walk, Live
    <2> QED BY <1>1, <2>1, <2>2 DEF Kinds
  <1>7. ASSUME NEW u \in Threads, u # t PROVE Walk(u)'
    <2>1. place'[u] = place[u] /\ distance'[u] = distance[u] /\ pc'[u] = pc[u]
          /\ turn'[u] = turn[u] /\ hybrid' = hybrid
      BY <1>1, <1>4, <1>7 DEF TypeOK
    <2> QED BY <2>1 DEF WalkInv, Walk, Between, Room
  <1> QED BY <1>5, <1>6, <1>7 DEF WalkInv

(* The rest of what threads and solve() do moves no kangaroo, or one that is *)
(* not looked at.                                                            *)
LEMMA WalkRest ==
  ASSUME TypeOK, WalkInv, UNCHANGED hybrid,
         \A t \in Threads :
           /\ \/ place'[t] = place[t] /\ distance'[t] = distance[t]
              \/ hybrid /\ place'[t]["tame"] \in Nat
           /\ \/ pc'[t] = pc[t] /\ turn'[t] = turn[t]
              \/ pc'[t] \in {"won", "done"}
              \/ pc[t] = "callback" /\ pc'[t] = "insert" /\ turn'[t] = turn[t]
              \/ pc[t] = "insert" /\ pc'[t] = "step" /\ turn'[t] = Other(turn[t])
              \/ hybrid /\ pc'[t] = "step"
  PROVE  WalkInv'
  <1> SUFFICES ASSUME NEW t \in Threads PROVE Walk(t)'
    BY DEF WalkInv
  <1>1. Walk(t) /\ hybrid' = hybrid /\ turn[t] \in Kinds
    BY DEF WalkInv, TypeOK
  <1>2. CASE hybrid
    BY <1>1, <1>2 DEF Walk
  <1>3. CASE ~hybrid
    <2>1. place'[t] = place[t] /\ distance'[t] = distance[t]
      BY <1>3
    <2>2. pc'[t] = "new" => turn'[t] = "tame"
      BY <1>1, <1>3 DEF Walk
    <2>3. pc'[t] \in Live => pc[t] \in Live /\ (Between(t)' => Between(t))
      BY <1>1, <1>3 DEF Live, Between, Other, Kinds
    <2> QED BY <1>1, <1>3, <2>1, <2>2, <2>3 DEF Walk, Room
  <1> QED BY <1>2, <1>3

-----------------------------------------------------------------------------
(* Types.                                                                    *)

LEMMA HandIsDP ==
  ASSUME TypeOK, WalkInv, NEW t \in Threads, pc[t] \in {"callback", "insert"}
  PROVE  InHand(t) \in DPs /\ ~hybrid /\ Walk(t)
  <1>1. Walk(t) /\ turn[t] \in Kinds /\ ~hybrid
    BY DEF WalkInv, TypeOK, Walk
  <1>2. place[t][turn[t]] \in 0 .. Top \cup {Stray}
    BY <1>1, Consts DEF Walk, Live, Kinds
  <1>3. X(place[t][turn[t]]) \in Nat
    BY <1>2, XIsNat
  <1>4. distance[t][turn[t]] \in Nat
    BY <1>1 DEF TypeOK
  <1> QED BY <1>1, <1>3, <1>4 DEF InHand, DP, DPs

LEMMA ContentIsFile == ASSUME TypeOK PROVE [Content EXCEPT !.altered = tainted] \in FileType
  BY DEF TypeOK, Content, NoFile, FileType

(* What a cut leaves.                                                        *)
LEMMA CutsAre ==
  ASSUME NEW c \in FileType, NEW f \in Cuts(c)
  PROVE  /\ f \in FileType
         /\ \/ f.dps \subseteq c.dps
            \/ \E o \in c.dps : \E l \in CutLine(o) :
                 /\ l.x = o.x /\ f.dps \subseteq (c.dps \ {o}) \cup {l}
                 /\ f.altered = {} => l = o
         /\ f.kind = "read" /\ f.dps # {} => f.target = c.target /\ c.altered \subseteq f.altered
  <1> DEFINE Kept == f.dps \subseteq c.dps
             Lost == \E o \in c.dps : \E l \in CutLine(o) :
                       /\ l.x = o.x /\ f.dps \subseteq (c.dps \ {o}) \cup {l}
                       /\ f.altered = {} => l = o
             Same == f.kind = "read" /\ f.dps # {} => f.target = c.target /\ c.altered \subseteq f.altered
  <1>0. /\ c.kind \in {"none", "read", "throws"} /\ {c.target, c.shape} \subseteq {"ours", "other"}
        /\ c.steps \in Nat /\ c.dps \subseteq DPs /\ c.altered \subseteq DPs
        /\ c = [kind |-> c.kind, target |-> c.target, shape |-> c.shape, steps |-> c.steps,
                dps |-> c.dps, altered |-> c.altered]
    BY DEF FileType
  <1>1. CASE f = NoFile \/ f = [NoFile EXCEPT !.kind = "throws"]
    <2>1. \E k \in {"none", "throws"} :
            f = [kind |-> k, target |-> "ours", shape |-> "ours", steps |-> 0, dps |-> {},
                 altered |-> {}]
      BY <1>1 DEF NoFile
    <2>2. f.dps = {} /\ f \in FileType
      BY <2>1 DEF FileType
    <2> QED BY <2>2
  <1>2. CASE f \in CutHeader(c)
    <2>1. PICK t, s \in {"ours", "other"}, n \in {0, MaxSteps} :
               f = [c EXCEPT !.target = t, !.shape = s, !.steps = n, !.dps = {}]
      BY <1>2 DEF CutHeader
    <2>2. f = [kind |-> c.kind, target |-> t, shape |-> s, steps |-> n, dps |-> {},
               altered |-> c.altered]
      BY <1>0, <2>1
    <2>3. f \in FileType
      BY <1>0, <2>1, <2>2, Consts DEF FileType
    <2> QED BY <2>2, <2>3
  <1>3. CASE f \in CutAfter(c)
    <2>1. PICK s \in SUBSET c.dps : f = [c EXCEPT !.dps = s]
      BY <1>3 DEF CutAfter
    <2>2. f = [kind |-> c.kind, target |-> c.target, shape |-> c.shape, steps |-> c.steps,
               dps |-> s, altered |-> c.altered]
      BY <1>0, <2>1
    <2>3. f \in FileType
      BY <1>0, <2>1, <2>2 DEF FileType
    <2> QED BY <2>2, <2>3
  <1>5. CASE \E o \in c.dps : f \in CutWithin(c, o)
    <2>1. PICK o \in c.dps : f \in CutWithin(c, o)
      BY <1>5
    <2>2. PICK s \in SUBSET (c.dps \ {o}), l \in CutLine(o) :
               f = LastCut(c, o, s, l)
      BY <2>1 DEF CutWithin
    <2>3. PICK d \in Shorter(o.distance) : l = DP(o.x, d, FALSE)
      BY DEF CutLine
    <2>4. o \in DPs
      BY <1>0
    <2>5. o.distance \in Nat /\ d \in Nat /\ o.x \in Nat
      BY <2>3, <2>4 DEF Shorter, DPs
    <2>6. l \in DPs /\ l.x = o.x
      BY <2>3, <2>5 DEF DP, DPs
    <2>7. f = [kind |-> c.kind, target |-> c.target, shape |-> c.shape, steps |-> c.steps,
               dps |-> s \cup {l}, altered |-> c.altered \cup ({l} \ {o})]
      BY <1>0, <2>2 DEF LastCut
    <2>9. f \in FileType
      BY <1>0, <2>6, <2>7 DEF FileType
    <2>10. f.dps = s \cup {l} /\ f.target = c.target /\ f.altered = c.altered \cup ({l} \ {o})
      BY <2>7
    <2>11. Lost
      BY <2>6, <2>10
    <2> QED BY <2>9, <2>10, <2>11
  <1>6. \/ f = NoFile \/ f = [NoFile EXCEPT !.kind = "throws"]
        \/ f \in CutHeader(c) \/ f \in CutAfter(c) \/ \E o \in c.dps : f \in CutWithin(c, o)
    BY DEF Cuts
  <1> QED BY <1>1, <1>2, <1>3, <1>5, <1>6

LEMMA FilesAreFiles == \A f \in Files : f \in FileType
  BY FilesAssumption

LEMMA ThreadType ==
  ASSUME TypeOK, WalkInv, NEW t \in Threads, Worker(t)
  PROVE  TypeOK' /\ WalkInv'
  <1> USE DEF history
  <1>1. CASE StartWorker(t)
    <2>1. WalkInv' /\ place' \in [Threads -> [Kinds -> Nat \cup {Stray}]]
          /\ distance' \in [Threads -> [Kinds -> Nat]]
      BY <1>1, WalkStart
    <2> QED BY <1>1, <2>1 DEF StartWorker, TypeOK, shared
  <1>2. CASE Step(t)
    <2>1. WalkInv' /\ place' \in [Threads -> [Kinds -> Nat \cup {Stray}]]
          /\ distance' \in [Threads -> [Kinds -> Nat]]
          /\ pc' \in [Threads -> {"new", "step", "callback", "insert", "won", "done"}]
          /\ turn' \in [Threads -> Kinds]
      BY <1>2, WalkStep
    <2>2. total_steps' \in Nat
      BY <1>2 DEF Step, TypeOK
    <2>3. UNCHANGED <<hybrid, result, table, stop_flag, solution_found, solution_key,
                      monitor, file, history, runs>>
      BY <1>2 DEF Step
    <2> QED BY <2>1, <2>2, <2>3 DEF TypeOK
  <1>3. CASE LeaveLoop(t)
    <2>1. TypeOK'
      BY <1>3 DEF LeaveLoop, TypeOK, shared
    <2>2. WalkInv'
      BY <1>3, WalkRest DEF LeaveLoop, TypeOK
    <2> QED BY <2>1, <2>2
  <1>4. CASE Callback(t)
    <2>1. InHand(t) \in DPs
      BY <1>4, HandIsDP DEF Callback
    <2>2. TypeOK'
      BY <1>4, <2>1 DEF Callback, TypeOK, shared
    <2>3. WalkInv'
      BY <1>4, WalkRest DEF Callback, TypeOK
    <2> QED BY <2>2, <2>3
  <1>5. CASE Insert(t)
    <2>1. InHand(t) \in DPs
      BY <1>5, HandIsDP DEF Insert
    <2>2. table' \in SUBSET DPs
      BY <1>5, <2>1 DEF Insert, Inserted, TypeOK
    <2>3. Other(turn[t]) \in Kinds
      BY DEF Other, Kinds
    <2>4. TypeOK'
      BY <1>5, <2>1, <2>2, <2>3 DEF Insert, TypeOK
    <2>5. WalkInv'
      BY <1>5, WalkRest DEF Insert, TypeOK
    <2> QED BY <2>4, <2>5
  <1>6. CASE Hit(t)
    <2>1. InHand(t) \in DPs
      BY <1>6, HandIsDP DEF Hit
    <2>2. PICK o \in Hits(InHand(t)) : result' = [result EXCEPT ![t] = KeyOf(InHand(t), o)]
      BY <1>6 DEF Hit
    <2>3. o \in DPs
      BY <2>2 DEF Hits, TypeOK
    <2>4. KeyOf(InHand(t), o) \in Int
      BY <2>1, <2>3 DEF KeyOf, DPs
    <2>5. result' \in [Threads -> Int]
      BY <2>2, <2>4 DEF TypeOK
    <2>6. TypeOK'
      BY <1>6, <2>1, <2>5 DEF Hit, TypeOK, shared
    <2>7. WalkInv'
      BY <1>6, WalkRest DEF Hit, TypeOK
    <2> QED BY <2>6, <2>7
  <1>7. CASE Win(t)
    <2>1. TypeOK'
      BY <1>7 DEF Win, TypeOK
    <2>2. WalkInv'
      BY <1>7, WalkRest DEF Win, TypeOK
    <2> QED BY <2>1, <2>2
  <1>8. CASE StartHash(t)
    <2>1. PICK r \in HashOffsets : place' = [place EXCEPT ![t]["tame"] = Low + r]
      BY <1>8 DEF StartHash
    <2>2. Low + r \in Nat
      BY Consts
    <2>3. place' \in [Threads -> [Kinds -> Nat \cup {Stray}]] /\ place'[t]["tame"] \in Nat
      BY <2>1, <2>2 DEF TypeOK, Kinds
    <2>4. TypeOK'
      BY <1>8, <2>3 DEF StartHash, TypeOK, shared
    <2>5. WalkInv'
      BY <1>8, <2>1, <2>3, WalkRest DEF StartHash, TypeOK
    <2> QED BY <2>4, <2>5
  <1>9. CASE HashHit(t)
    <2>1. TypeOK'
      BY <1>9, Consts DEF HashHit, TypeOK
    <2>2. WalkInv'
      BY <1>9, WalkRest DEF HashHit, TypeOK
    <2> QED BY <2>1, <2>2
  <1>10. CASE HashMiss(t)
    <2> DEFINE p == place[t]["tame"]
    <2>1. p \in Nat
      BY <1>10 DEF HashMiss, WalkInv, Walk
    <2>2. p + JumpDistance(JumpIndex(p)) \in Nat
      BY <2>1, JumpIsNat
    <2>3. Wrapped(p + JumpDistance(JumpIndex(p))) \in Nat
      BY <2>2, Consts DEF Wrapped, RangeSize
    <2>4. place' = [place EXCEPT ![t]["tame"] = Wrapped(p + JumpDistance(JumpIndex(p)))]
      BY <1>10 DEF HashMiss
    <2>5. place' \in [Threads -> [Kinds -> Nat \cup {Stray}]] /\ place'[t]["tame"] \in Nat
      BY <2>3, <2>4 DEF TypeOK, Kinds
    <2>6. TypeOK'
      BY <1>10, <2>5 DEF HashMiss, TypeOK
    <2>7. WalkInv'
      BY <1>10, <2>4, <2>5, WalkRest DEF HashMiss, TypeOK
    <2> QED BY <2>6, <2>7
  <1> QED BY <1>1, <1>2, <1>3, <1>4, <1>5, <1>6, <1>7, <1>8, <1>9, <1>10 DEF Worker

(* The herd of a new solve() has not started.                                *)
LEMMA HerdType ==
  ASSUME TypeOK, NewHerd, UNCHANGED hybrid
  PROVE  /\ pc' \in [Threads -> {"new", "step", "callback", "insert", "won", "done"}]
         /\ turn' \in [Threads -> Kinds] /\ result' \in [Threads -> Int]
         /\ place' \in [Threads -> [Kinds -> Nat \cup {Stray}]]
         /\ distance' \in [Threads -> [Kinds -> Nat]]
         /\ WalkInv'
  <1>1. Pair(0, 0) \in [Kinds -> Nat] /\ Pair(0, 0)["tame"] = 0
    BY DEF Pair, Kinds
  <1>2. /\ place' \in [Threads -> [Kinds -> Nat \cup {Stray}]]
        /\ distance' \in [Threads -> [Kinds -> Nat]]
    BY <1>1 DEF NewHerd
  <1>3. /\ pc' \in [Threads -> {"new", "step", "callback", "insert", "won", "done"}]
        /\ turn' \in [Threads -> Kinds] /\ result' \in [Threads -> Int]
    BY DEF NewHerd, Kinds
  <1>4. WalkInv'
    BY <1>1 DEF NewHerd, WalkInv, Walk, Live
  <1> QED BY <1>2, <1>3, <1>4

LEMMA SolveType ==
  ASSUME TypeOK, WalkInv, Monitor \/ Start \/ Kill
  PROVE  TypeOK' /\ WalkInv'
  <1> USE DEF history
  <1>1. CASE Decides
    <2>1. UNCHANGED <<hybrid, herd, history, runs, table, total_steps, solution_found,
                      solution_key, file>>
          /\ stop_flag' \in BOOLEAN
          /\ monitor' \in {"off", "loop", "saving", "join", "final", "over"}
      BY <1>1 DEF Decides, LoopEnds, CallbackStops, LimitStops, Saved, SavedAndOver, Return,
                  GivesUp, MonitorStays, shared, TypeOK
    <2>2. TypeOK'
      BY <2>1 DEF TypeOK, herd
    <2>3. WalkInv'
      BY <2>1, WalkRest DEF herd
    <2> QED BY <2>2, <2>3
  <1>2. CASE Saves
    <2>1. UNCHANGED <<hybrid, herd, history, runs, shared>>
          /\ file' \in {file, [Content EXCEPT !.altered = tainted]}
          /\ monitor' \in {"saving", "final", "over"}
      BY <1>2 DEF Saves, AutoSave, Join, MonitorStays
    <2>2. file' \in FileType
      BY <2>1, ContentIsFile DEF TypeOK
    <2>3. TypeOK'
      BY <2>1, <2>2 DEF TypeOK, herd, shared
    <2>4. WalkInv'
      BY <2>1, WalkRest DEF herd
    <2> QED BY <2>3, <2>4
  <1>3. CASE Kill
    <2>1. file' \in FileType
      BY <1>3, CutsAre DEF Kill, TypeOK
    <2>2. TypeOK'
      BY <1>3, <2>1 DEF Kill, TypeOK
    <2>3. WalkInv'
      BY <1>3, WalkRest DEF Kill
    <2> QED BY <2>2, <2>3
  <1>4. CASE Start
    <2>1. Begin
      BY <1>4 DEF Start, StartFresh, StartResumed, StartRefused, StartThrows, Begin
    <2>2. runs' \in 0 .. MaxRuns
      BY <2>1, Consts DEF Begin, TypeOK
    <2>3. file.dps \subseteq DPs /\ file.steps \in Nat /\ file.altered \subseteq DPs
      BY DEF TypeOK, FileType
    <2>4. /\ table' \subseteq DPs /\ total_steps' \in Nat
          /\ monitor' \in {"off", "loop", "over"}
          /\ handed' \subseteq DPs /\ stored' \subseteq DPs /\ tainted' \subseteq DPs
      BY <1>4, <2>3 DEF Start, StartFresh, StartResumed, StartRefused, StartThrows, TypeOK
    <2>5. /\ pc' \in [Threads -> {"new", "step", "callback", "insert", "won", "done"}]
          /\ turn' \in [Threads -> Kinds] /\ result' \in [Threads -> Int]
          /\ place' \in [Threads -> [Kinds -> Nat \cup {Stray}]]
          /\ distance' \in [Threads -> [Kinds -> Nat]]
          /\ WalkInv'
      <3>1. CASE StartFresh \/ StartResumed
        BY <2>1, <3>1, HerdType DEF StartFresh, StartResumed, Begin
      <3>2. CASE StartRefused \/ StartThrows
        <4>1. WalkInv'
          BY <2>1, <3>2, WalkRest DEF StartRefused, StartThrows, Begin
        <4> QED BY <3>2, <4>1 DEF StartRefused, StartThrows, TypeOK
      <3> QED BY <1>4, <3>1, <3>2 DEF Start
    <2>6. file' = file /\ hybrid' = hybrid /\ solution_key' = 0
          /\ stop_flag' \in BOOLEAN /\ solution_found' \in BOOLEAN
      BY <2>1, Zenon DEF Begin
    <2>7. TypeOK'
      BY <2>2, <2>4, <2>5, <2>6 DEF TypeOK
    <2> QED BY <2>5, <2>7
  <1> QED BY <1>1, <1>2, <1>3, <1>4 DEF Monitor, Decides, Saves

LEMMA StutterType == ASSUME TypeOK, WalkInv, UNCHANGED vars PROVE TypeOK' /\ WalkInv'
  <1>1. TypeOK'
    BY DEF vars, herd, shared, history, TypeOK
  <1>2. WalkInv'
    BY WalkRest DEF vars, herd
  <1> QED BY <1>1, <1>2

LEMMA InitType == ASSUME Init PROVE TypeOK /\ WalkInv
  <1>1. Pair(0, 0) \in [Kinds -> Nat] /\ Pair(0, 0)["tame"] = 0
    BY DEF Pair, Kinds
  <1>2. place \in [Threads -> [Kinds -> Nat \cup {Stray}]] /\ distance \in [Threads -> [Kinds -> Nat]]
    BY <1>1 DEF Init
  <1>3. TypeOK
    <2>1. /\ runs \in 0 .. MaxRuns /\ file \in FileType /\ result \in [Threads -> Int]
          /\ turn \in [Threads -> Kinds]
      BY Consts, FilesAreFiles DEF Init, Kinds
    <2>2. stop_flag \in BOOLEAN /\ solution_found \in BOOLEAN
      BY Zenon DEF Init
    <2>3. table \subseteq DPs /\ handed \subseteq DPs /\ stored \subseteq DPs /\ tainted \subseteq DPs
      BY DEF Init
    <2> QED BY <1>2, <2>1, <2>2, <2>3 DEF Init, TypeOK
  <1>4. WalkInv
    BY <1>1 DEF Init, WalkInv, Walk, Live
  <1> QED BY <1>3, <1>4

(* Every variable keeps its type: what solve(), its threads and load() make  *)
(* of them, for any range, jumps and files.                                  *)
THEOREM TypeCorrect == Spec => []TypeOK
  <1>1. TypeOK /\ WalkInv /\ [Next]_vars => TypeOK' /\ WalkInv'
    BY ThreadType, SolveType, StutterType DEF Next
  <1> QED BY InitType, <1>1, PTL DEF Spec

-----------------------------------------------------------------------------
(* The key. A tame point's distance is its logarithm, a wild point's is that *)
(* of its point less the key; points off the curve never meet tame ones.     *)

Sound(o) ==
  /\ o.is_tame => o.distance \in 0 .. Top /\ o.x = X(o.distance)
  /\ ~o.is_tame => \/ o.x = X(Stray)
                   \/ Key + o.distance \in 0 .. Top /\ o.x = X(Key + o.distance)

TableSound == ~hybrid /\ tainted = {} => \A o \in table : Sound(o)
FileSound ==
  ~hybrid /\ file.kind = "read" /\ file.target = "ours" /\ file.altered = {} =>
    \A o \in file.dps : Sound(o)
Won(t) == pc[t] = "won" => result[t] = Key
KeyInv == /\ TableSound /\ FileSound
          /\ tainted = {} => /\ solution_found => solution_key = Key
                            /\ \A t \in Threads : Won(t)

LEMMA HandIsSound ==
  ASSUME TypeOK, WalkInv, NEW t \in Threads, pc[t] \in {"callback", "insert"}
  PROVE  Sound(InHand(t))
  <1> DEFINE k == turn[t]
  <1>1. Walk(t) /\ ~hybrid /\ k \in Kinds
    BY HandIsDP DEF TypeOK
  <1>2. InHand(t).x = X(place[t][k]) /\ InHand(t).distance = distance[t][k]
        /\ (InHand(t).is_tame <=> k = "tame")
    BY DEF InHand, DP
  <1>3. CASE k = "tame"
    <2>1. place[t]["tame"] \in 0 .. Top /\ distance[t]["tame"] = place[t]["tame"]
      BY <1>1 DEF Walk, Live
    <2> QED BY <1>2, <1>3, <2>1 DEF Sound
  <1>4. CASE k = "wild"
    <2>1. place[t]["wild"] # Stray => /\ place[t]["wild"] \in 0 .. Top
                                      /\ place[t]["wild"] = Key + distance[t]["wild"]
      BY <1>1 DEF Walk, Live
    <2> QED BY <1>2, <1>4, <2>1 DEF Sound
  <1> QED BY <1>1, <1>3, <1>4 DEF Kinds

(* What meets is the key.                                                    *)
LEMMA MeetIsKey ==
  ASSUME NEW a \in DPs, NEW o \in DPs, Sound(a), Sound(o), a.x = o.x, a.is_tame # o.is_tame
  PROVE  KeyOf(a, o) = Key
  <1>1. ASSUME NEW m \in DPs, NEW w \in DPs, Sound(m), Sound(w), m.x = w.x, m.is_tame, ~w.is_tame
        PROVE  m.distance - w.distance = Key
    <2>1. m.distance \in 0 .. Top /\ w.x = X(m.distance)
      BY <1>1 DEF Sound
    <2>2. w.x # X(Stray)
      BY <2>1, KangarooAssumption
    <2>3. Key + w.distance \in 0 .. Top /\ X(Key + w.distance) = X(m.distance)
      BY <1>1, <2>1, <2>2 DEF Sound
    <2>4. Key + w.distance = m.distance
      BY <2>1, <2>3, KangarooAssumption
    <2> QED BY <2>4, Consts DEF DPs
  <1>2. a.is_tame \in BOOLEAN /\ o.is_tame \in BOOLEAN
    BY DEF DPs
  <1>3. CASE a.is_tame
    <2>1. a.distance - o.distance = Key
      BY <1>1, <1>2, <1>3
    <2> QED BY <1>3, <2>1 DEF KeyOf
  <1>4. CASE ~a.is_tame
    <2>1. o.is_tame
      BY <1>2, <1>4
    <2>2. o.distance - a.distance = Key
      BY <1>1, <1>4, <2>1
    <2> QED BY <1>4, <2>2 DEF KeyOf
  <1> QED BY <1>3, <1>4

LEMMA ThreadKey ==
  ASSUME TypeOK, WalkInv, KeyInv, NEW t \in Threads, Worker(t)
  PROVE  KeyInv'
  <1>1. UNCHANGED <<hybrid, file, tainted>>
    BY DEF Worker, StartWorker, LeaveLoop, Step, Callback, Insert, Hit, Win, StartHash, HashHit,
           HashMiss, history
  <1>2. FileSound'
    BY <1>1 DEF KeyInv, FileSound, Sound
  <1>3. CASE StartWorker(t) \/ LeaveLoop(t) \/ Step(t) \/ Callback(t) \/ StartHash(t) \/ HashMiss(t)
    <2>1. UNCHANGED <<table, solution_found, solution_key, result>>
          /\ \A u \in Threads : pc'[u] = "won" => pc[u] = "won"
      BY <1>3 DEF StartWorker, LeaveLoop, Step, Callback, StartHash, HashMiss, shared, TypeOK
    <2> QED BY <1>1, <1>2, <2>1 DEF KeyInv, TableSound, Won, Sound
  <1>4. CASE Insert(t)
    <2>1. UNCHANGED <<solution_found, solution_key, result>>
          /\ \A u \in Threads : pc'[u] = "won" => pc[u] = "won"
      BY <1>4 DEF Insert, TypeOK
    <2>2. TableSound'
      <3>1. Sound(InHand(t))
        BY <1>4, HandIsSound DEF Insert
      <3>2. table' \subseteq table \cup {InHand(t)}
        BY <1>4 DEF Insert, Inserted
      <3> QED BY <1>1, <3>1, <3>2 DEF KeyInv, TableSound, Sound
    <2> QED BY <1>1, <1>2, <2>1, <2>2 DEF KeyInv, Won
  <1>5. CASE Hit(t)
    <2>1. PICK o \in Hits(InHand(t)) : result' = [result EXCEPT ![t] = KeyOf(InHand(t), o)]
      BY <1>5 DEF Hit
    <2>2. InHand(t) \in DPs /\ Sound(InHand(t)) /\ ~hybrid
      BY <1>5, HandIsDP, HandIsSound DEF Hit
    <2>3. o \in table /\ o \in DPs /\ InHand(t).x = o.x /\ InHand(t).is_tame # o.is_tame
      BY <2>1 DEF Hits, TypeOK
    <2>4. ASSUME tainted = {} PROVE result'[t] = Key
      <3>1. Sound(o)
        BY <2>2, <2>3, <2>4 DEF KeyInv, TableSound
      <3> QED BY <2>1, <2>2, <2>3, <3>1, MeetIsKey DEF TypeOK
    <2>5. /\ UNCHANGED <<table, solution_found, solution_key>>
          /\ \A u \in Threads \ {t} : pc'[u] = pc[u] /\ result'[u] = result[u]
      BY <1>5, <2>1 DEF Hit, TypeOK, shared
    <2> QED BY <1>1, <1>2, <2>4, <2>5 DEF KeyInv, TableSound, Won, Sound
  <1>6. CASE Win(t)
    <2>1. /\ UNCHANGED <<table, result>> /\ pc[t] = "won" /\ solution_key' = result[t]
          /\ \A u \in Threads : pc'[u] = "won" => pc[u] = "won"
      BY <1>6 DEF Win, TypeOK
    <2> QED BY <1>1, <1>2, <2>1 DEF KeyInv, TableSound, Won, Sound
  <1>7. CASE HashHit(t)
    <2>1. /\ UNCHANGED <<table, solution_found, solution_key>> /\ result'[t] = Key
          /\ \A u \in Threads \ {t} : pc'[u] = pc[u] /\ result'[u] = result[u]
      BY <1>7 DEF HashHit, TypeOK
    <2> QED BY <1>1, <1>2, <2>1 DEF KeyInv, TableSound, Won, Sound
  <1> QED BY <1>3, <1>4, <1>5, <1>6, <1>7 DEF Worker

LEMMA CutIsSound ==
  ASSUME TypeOK, FileSound, NEW f \in Cuts(file), file.kind = "read", ~hybrid,
         f.kind = "read", f.target = "ours", f.altered = {}
  PROVE  \A o \in f.dps : Sound(o)
  <1>1. CASE f.dps = {}
    BY <1>1
  <1>2. CASE f.dps # {}
    <2>1. file \in FileType
      BY DEF TypeOK
    <2>2. f.target = file.target /\ file.altered \subseteq f.altered
      BY <1>2, <2>1, CutsAre
    <2>3. \A o \in file.dps : Sound(o)
      BY <2>2 DEF FileSound
    <2>4. f.dps \subseteq file.dps
      <3>1. \/ f.dps \subseteq file.dps
            \/ \E o \in file.dps : \E l \in CutLine(o) :
                 /\ l.x = o.x /\ f.dps \subseteq (file.dps \ {o}) \cup {l}
                 /\ f.altered = {} => l = o
        BY <2>1, CutsAre
      <3> QED BY <3>1
    <2> QED BY <2>3, <2>4
  <1> QED BY <1>1, <1>2

LEMMA SolveKey ==
  ASSUME TypeOK, WalkInv, KeyInv, Monitor \/ Start \/ Kill,
         monitor \in {"saving", "final"} => file.kind = "read"
  PROVE  KeyInv'
  <1>1. CASE Decides
    <2>1. UNCHANGED <<hybrid, pc, result, tainted, table, solution_found, solution_key, file>>
      BY <1>1 DEF Decides, LoopEnds, CallbackStops, LimitStops, Saved, SavedAndOver, Return,
                  GivesUp, MonitorStays, shared, herd, history
    <2> QED BY <2>1 DEF KeyInv, TableSound, FileSound, Won, Sound
  <1>2. CASE Saves
    <2>1. UNCHANGED <<hybrid, pc, result, tainted, table, solution_found, solution_key>>
          /\ file' \in {file, [Content EXCEPT !.altered = tainted]}
      BY <1>2 DEF Saves, AutoSave, Join, MonitorStays, shared, herd, history
    <2>2. CASE file' = file
      BY <2>1, <2>2 DEF KeyInv, TableSound, FileSound, Won, Sound
    <2>3. CASE file' = [Content EXCEPT !.altered = tainted]
      <3>1. file'.dps = table /\ file'.altered = tainted
        BY <2>3 DEF Content, NoFile
      <3>2. FileSound'
        BY <2>1, <3>1 DEF KeyInv, TableSound, FileSound, Sound
      <3> QED BY <2>1, <3>2 DEF KeyInv, TableSound, Won, Sound
    <2> QED BY <2>1, <2>2, <2>3
  <1>3. CASE Kill
    <2>1. /\ UNCHANGED <<hybrid, tainted, table>> /\ ~solution_found'
          /\ \A u \in Threads : pc'[u] # "won"
      BY <1>3 DEF Kill
    <2>2. FileSound'
      <3>1. CASE monitor \in {"saving", "final"}
        BY <1>3, <2>1, <3>1, CutIsSound DEF Kill, KeyInv, FileSound, Sound
      <3>2. CASE monitor \notin {"saving", "final"}
        BY <1>3, <2>1, <3>2 DEF Kill, KeyInv, FileSound, Sound
      <3> QED BY <3>1, <3>2
    <2> QED BY <2>1, <2>2 DEF KeyInv, TableSound, Won, Sound
  <1>4. CASE Start
    <2>1. UNCHANGED <<hybrid, file>> /\ ~solution_found' /\ \A u \in Threads : pc'[u] # "won"
      BY <1>4 DEF Start, StartFresh, StartResumed, StartRefused, StartThrows, Begin, NewHerd
    <2>2. FileSound'
      BY <2>1 DEF KeyInv, FileSound, Sound
    <2>3. TableSound'
      <3>1. CASE StartResumed
        <4>1. table' = file.dps /\ tainted' = file.altered /\ file.kind = "read"
              /\ (~hybrid => file.target = "ours")
          BY <3>1 DEF StartResumed, Resumes, Mismatch, TypeOK, FileType
        <4> QED BY <2>1, <4>1 DEF KeyInv, FileSound, TableSound, Sound
      <3>2. CASE StartFresh \/ StartRefused \/ StartThrows
        BY <3>2 DEF StartFresh, StartRefused, StartThrows, TableSound
      <3> QED BY <1>4, <3>1, <3>2 DEF Start
    <2> QED BY <2>1, <2>2, <2>3 DEF KeyInv, Won
  <1> QED BY <1>1, <1>2, <1>3, <1>4 DEF Monitor, Decides, Saves

-----------------------------------------------------------------------------
(* What is on the disk while solve() writes, and what it leaves: a run of    *)
(* the search for a public key leaves its table there, the search for an     *)
(* address leaves what it found. One point for each hash, on disk as in      *)
(* memory.                                                                   *)

OnePerHash(s) == \A o, q \in s : Hash(o.x) = Hash(q.x) => o = q

SaveInv ==
  /\ monitor \in {"saving", "final"} => file.kind = "read" /\ ~hybrid
  /\ monitor \in {"off", "final", "over"} => \A t \in Threads : pc[t] = "done"
  /\ OnePerHash(table) /\ OnePerHash(file.dps)
  /\ monitor = "final" => file.dps = table
  /\ Resumes /\ ~Mismatch(file) /\ (monitor = "over" \/ (hybrid /\ monitor # "off")) =>
       file.dps = table

LEMMA CutKeepsHashes ==
  ASSUME TypeOK, SaveInv, NEW f \in Cuts(file) PROVE OnePerHash(f.dps)
  <1>1. file \in FileType /\ OnePerHash(file.dps)
    BY DEF TypeOK, SaveInv
  <1>2. CASE f.dps \subseteq file.dps
    BY <1>1, <1>2 DEF OnePerHash
  <1>3. CASE \E o \in file.dps : \E l \in CutLine(o) :
               l.x = o.x /\ f.dps \subseteq (file.dps \ {o}) \cup {l}
    <2>1. PICK o \in file.dps : \E l \in CutLine(o) :
               l.x = o.x /\ f.dps \subseteq (file.dps \ {o}) \cup {l}
      BY <1>3
    <2>2. PICK l \in CutLine(o) : l.x = o.x /\ f.dps \subseteq (file.dps \ {o}) \cup {l}
      BY <2>1
    <2> QED BY <1>1, <2>2 DEF OnePerHash
  <1> QED BY <1>1, <1>2, <1>3, CutsAre

LEMMA ThreadSave ==
  ASSUME TypeOK, WalkInv, SaveInv, NEW t \in Threads, Worker(t)
  PROVE  SaveInv'
  <1>1. UNCHANGED <<hybrid, file, monitor>> /\ pc[t] # "done"
    BY DEF Worker, StartWorker, LeaveLoop, Step, Callback, Insert, Hit, Win, StartHash, HashHit,
           HashMiss
  <1>2. monitor \notin {"off", "final", "over"}
    BY <1>1 DEF SaveInv
  <1>3. OnePerHash(table') /\ (hybrid => table' = table)
    <2>1. CASE Insert(t)
      <3>1. ~hybrid
        BY <2>1, HandIsDP DEF Insert
      <3> QED BY <2>1, <3>1 DEF Insert, Inserted, SaveInv, OnePerHash
    <2>2. CASE ~Insert(t)
      BY <2>2 DEF Worker, StartWorker, LeaveLoop, Step, Callback, Hit, Win, StartHash, HashHit,
                  HashMiss, shared, SaveInv
    <2> QED BY <2>1, <2>2
  <1> QED BY <1>1, <1>2, <1>3 DEF SaveInv, OnePerHash, Resumes, Mismatch

LEMMA SolveSave ==
  ASSUME TypeOK, SaveInv, Monitor \/ Start \/ Kill
  PROVE  SaveInv'
  <1>1. CASE Decides
    <2>1. UNCHANGED <<hybrid, pc, table, file>> /\ monitor # "off"
      BY <1>1 DEF Decides, LoopEnds, CallbackStops, LimitStops, Saved, SavedAndOver, Return,
                  GivesUp, MonitorStays, shared, herd
    <2>2. monitor' \in {"loop", "join"} \/ (monitor = "final" /\ monitor' = "over")
      BY <1>1 DEF Decides, LoopEnds, CallbackStops, LimitStops, Saved, SavedAndOver, Return, GivesUp
    <2> QED BY <2>1, <2>2 DEF SaveInv, OnePerHash, Resumes, Mismatch
  <1>2. CASE AutoSave
    <2>1. UNCHANGED <<hybrid, table>> /\ monitor' = "saving" /\ ~hybrid
          /\ file' = [Content EXCEPT !.altered = tainted]
      BY <1>2 DEF AutoSave, MonitorStays, shared
    <2>2. file'.dps = table /\ file'.kind = "read"
      BY <2>1 DEF Content, NoFile
    <2> QED BY <2>1, <2>2 DEF SaveInv, OnePerHash, Resumes, Mismatch
  <1>3. CASE Join
    <2>1. UNCHANGED <<hybrid, table, pc>> /\ (\A t \in Threads : pc[t] = "done") /\ monitor = "join"
      BY <1>3 DEF Join, MonitorStays, shared, herd
    <2>2. CASE WorkFile /\ ~hybrid
      <3>1. file' = [Content EXCEPT !.altered = tainted] /\ monitor' = "final"
        BY <1>3, <2>2 DEF Join
      <3>2. file'.dps = table /\ file'.kind = "read"
        BY <3>1 DEF Content, NoFile
      <3> QED BY <2>1, <2>2, <3>1, <3>2 DEF SaveInv, OnePerHash
    <2>3. CASE ~(WorkFile /\ ~hybrid)
      <3>1. file' = file /\ monitor' = "over"
        BY <1>3, <2>3 DEF Join
      <3> QED BY <2>1, <2>3, <3>1 DEF SaveInv, OnePerHash, Resumes, Mismatch
    <2> QED BY <2>2, <2>3
  <1>4. CASE Kill
    <2>1. UNCHANGED <<hybrid, table>> /\ monitor' = "off" /\ \A t \in Threads : pc'[t] = "done"
      BY <1>4 DEF Kill
    <2>2. OnePerHash(file'.dps)
      BY <1>4, CutKeepsHashes DEF Kill, SaveInv
    <2> QED BY <2>1, <2>2 DEF SaveInv, OnePerHash
  <1>5. CASE Start
    <2>1. UNCHANGED <<hybrid, file>>
      BY <1>5 DEF Start, StartFresh, StartResumed, StartRefused, StartThrows, Begin
    <2>2. CASE StartFresh
      BY <2>1, <2>2 DEF StartFresh, SaveInv, OnePerHash, Resumes, Mismatch
    <2>3. CASE StartResumed
      BY <2>1, <2>3 DEF StartResumed, SaveInv, OnePerHash, Resumes, Mismatch
    <2>4. CASE StartRefused
      BY <2>1, <2>4 DEF StartRefused, SaveInv, OnePerHash, Resumes, Mismatch
    <2>5. CASE StartThrows
      BY <2>1, <2>5 DEF StartThrows, SaveInv, OnePerHash, Resumes, Mismatch
    <2> QED BY <1>5, <2>2, <2>3, <2>4, <2>5 DEF Start
  <1> QED BY <1>1, <1>2, <1>3, <1>4, <1>5 DEF Monitor, Decides

LEMMA InitSaveKey == ASSUME Init PROVE SaveInv /\ KeyInv
  <1>1. \A f \in Files : OnePerHash(f.dps) /\ (f.target = "ours" => f.dps = {})
    BY FilesAssumption DEF OnePerHash
  <1>2. OnePerHash(table) /\ OnePerHash(file.dps) /\ (file.target = "ours" => file.dps = {})
    BY <1>1 DEF Init, OnePerHash
  <1> QED BY <1>2 DEF Init, SaveInv, KeyInv, TableSound, FileSound, Won

Safe == TypeOK /\ WalkInv /\ SaveInv /\ KeyInv

LEMMA SafeStep == Safe /\ [Next]_vars => Safe'
  <1> SUFFICES ASSUME Safe, [Next]_vars PROVE Safe'
    OBVIOUS
  <1>1. ASSUME NEW t \in Threads, Worker(t) PROVE Safe'
    BY <1>1, ThreadType, ThreadSave, ThreadKey DEF Safe
  <1>2. CASE Monitor \/ Start \/ Kill
    <2>1. monitor \in {"saving", "final"} => file.kind = "read"
      BY DEF Safe, SaveInv
    <2> QED BY <1>2, <2>1, SolveType, SolveSave, SolveKey DEF Safe
  <1>3. CASE UNCHANGED vars
    <2>1. TypeOK' /\ WalkInv'
      BY <1>3, StutterType DEF Safe
    <2>2. SaveInv'
      BY <1>3 DEF Safe, SaveInv, vars, herd, shared, OnePerHash, Resumes, Mismatch
    <2>3. KeyInv'
      BY <1>3 DEF Safe, KeyInv, TableSound, FileSound, Won, Sound, vars, herd, shared, history
    <2> QED BY <2>1, <2>2, <2>3 DEF Safe
  <1> QED BY <1>1, <1>2, <1>3 DEF Next

LEMMA InitSafe == Init => Safe
  BY InitType, InitSaveKey DEF Safe

(* A key that solve() reports is the key of the target, for any number of    *)
(* threads, kills and restarts, as long as no point was loaded whose line in *)
(* the work file was cut.                                                    *)
THEOREM KeyCorrect == Spec => []KeyIsRight
  <1>1. Safe => KeyIsRight
    BY DEF Safe, KeyInv, Won, KeyIsRight
  <1> QED BY InitSafe, SafeStep, <1>1, PTL DEF Spec

-----------------------------------------------------------------------------
(* What solves the search here was given to the pool before.                 *)

Brought(k) ==
  \E a, b \in handed : a.x = b.x /\ a.is_tame /\ ~b.is_tame /\ a.distance - b.distance = k
PoolInv ==
  ~hybrid =>
    /\ monitor # "off" => table \subseteq handed
    /\ \A t \in Threads : pc[t] = "insert" => InHand(t) \in handed
    /\ \A t \in Threads : pc[t] = "won" => Brought(result[t])
    /\ solution_found => Brought(solution_key)

LEMMA ThreadPool ==
  ASSUME Safe, PoolInv, NEW t \in Threads, Worker(t)
  PROVE  PoolInv'
  <1> SUFFICES ASSUME ~hybrid PROVE PoolInv'
    BY DEF PoolInv, Worker, StartWorker, LeaveLoop, Step, Callback, Insert, Hit, Win, StartHash,
           HashHit, HashMiss
  <1> USE DEF Safe
  <1>1. monitor # "off" /\ monitor' = monitor /\ handed \subseteq handed' /\ hybrid' = hybrid
    BY DEF Worker, StartWorker, LeaveLoop, Step, Callback, Insert, Hit, Win, StartHash,
           HashHit, HashMiss, history, SaveInv
  <1>2. \A k : Brought(k) => Brought(k)'
    BY <1>1 DEF Brought
  <1>3. CASE StartWorker(t) \/ LeaveLoop(t) \/ Step(t)
    <2>1. /\ UNCHANGED <<table, handed, result, solution_found, solution_key>>
          /\ \A u \in Threads :
               /\ pc'[u] = "won" => pc[u] = "won"
               /\ pc'[u] = "insert" => pc[u] = "insert"
               /\ u # t => place'[u] = place[u] /\ distance'[u] = distance[u] /\ turn'[u] = turn[u]
          /\ pc'[t] # "insert"
      BY <1>3 DEF StartWorker, LeaveLoop, Step, shared, history, TypeOK
    <2> QED BY <1>1, <1>2, <2>1 DEF PoolInv, InHand
  <1>4. CASE Callback(t)
    <2>1. UNCHANGED <<place, distance, turn, table, result, solution_found, solution_key>>
          /\ InHand(t) \in handed'
          /\ \A u \in Threads :
               /\ pc'[u] = "won" => pc[u] = "won"
               /\ u # t => pc'[u] = pc[u]
      BY <1>4 DEF Callback, shared, TypeOK
    <2> QED BY <1>1, <1>2, <2>1 DEF PoolInv, InHand
  <1>5. CASE Insert(t)
    <2>1. UNCHANGED <<place, distance, result, handed, solution_found, solution_key>>
          /\ table' \subseteq table \cup {InHand(t)} /\ InHand(t) \in handed
          /\ \A u \in Threads :
               /\ pc'[u] = "won" => pc[u] = "won"
               /\ pc'[u] = "insert" => u # t /\ pc[u] = "insert" /\ turn'[u] = turn[u]
      BY <1>5 DEF Insert, Inserted, TypeOK, PoolInv
    <2> QED BY <1>1, <1>2, <2>1 DEF PoolInv, InHand
  <1>6. CASE Hit(t)
    <2>1. PICK o \in Hits(InHand(t)) : result' = [result EXCEPT ![t] = KeyOf(InHand(t), o)]
      BY <1>6 DEF Hit
    <2>2. o \in handed /\ InHand(t) \in handed /\ o.x = InHand(t).x
          /\ o.is_tame # InHand(t).is_tame /\ o \in DPs /\ InHand(t) \in DPs
      BY <1>1, <1>6, <2>1, HandIsDP DEF Hit, Hits, PoolInv, TypeOK
    <2>3. Brought(KeyOf(InHand(t), o))
      <3>1. o.is_tame \in BOOLEAN /\ InHand(t).is_tame \in BOOLEAN
        BY <2>2 DEF DPs
      <3>2. CASE InHand(t).is_tame
        BY <2>2, <3>1, <3>2 DEF Brought, KeyOf
      <3>3. CASE ~InHand(t).is_tame
        BY <2>2, <3>1, <3>3 DEF Brought, KeyOf
      <3> QED BY <3>2, <3>3
    <2>4. /\ UNCHANGED <<place, distance, turn, table, handed, solution_found, solution_key>>
          /\ \A u \in Threads :
               u # t => pc'[u] = pc[u] /\ result'[u] = result[u]
          /\ pc'[t] = "won" /\ result'[t] = KeyOf(InHand(t), o)
      BY <1>6, <2>1 DEF Hit, TypeOK, shared
    <2> QED BY <1>1, <1>2, <2>3, <2>4 DEF PoolInv, InHand
  <1>7. CASE Win(t)
    <2>1. UNCHANGED <<place, distance, turn, table, handed, result>>
          /\ pc[t] = "won" /\ solution_key' = result[t]
          /\ \A u \in Threads :
               /\ pc'[u] = "won" => pc[u] = "won"
               /\ pc'[u] = "insert" => pc[u] = "insert"
      BY <1>7 DEF Win, TypeOK, history
    <2> QED BY <1>1, <1>2, <2>1 DEF PoolInv, InHand
  <1> QED BY <1>3, <1>4, <1>5, <1>6, <1>7 DEF Worker, StartHash, HashHit, HashMiss

LEMMA SolvePool ==
  ASSUME Safe, PoolInv, Monitor \/ Start \/ Kill
  PROVE  PoolInv'
  <1> SUFFICES ASSUME ~hybrid PROVE PoolInv'
    BY DEF PoolInv, Monitor, LoopEnds, CallbackStops, LimitStops, AutoSave, Saved, SavedAndOver,
           Join, Return, GivesUp, MonitorStays, Start, StartFresh, StartResumed, StartRefused,
           StartThrows, Begin, Kill
  <1>1. CASE Monitor
    <2>1. UNCHANGED <<hybrid, pc, turn, place, distance, result, table, handed, solution_found,
                      solution_key>> /\ monitor # "off"
      BY <1>1 DEF Monitor, LoopEnds, CallbackStops, LimitStops, AutoSave, Saved, SavedAndOver,
                  Join, Return, GivesUp, MonitorStays, shared, herd, history
    <2> QED BY <2>1 DEF PoolInv, InHand, Brought
  <1>2. CASE Kill
    BY <1>2 DEF Kill, PoolInv
  <1>3. CASE Start
    <2>1. ~solution_found' /\ \A t \in Threads : pc'[t] \notin {"insert", "won"}
      BY <1>3 DEF Start, StartFresh, StartResumed, StartRefused, StartThrows, Begin, NewHerd
    <2>2. table' \subseteq handed'
      <3>1. CASE StartResumed
        BY <3>1 DEF StartResumed, PoolInv, Safe, SaveInv
      <3>2. CASE StartFresh \/ StartRefused \/ StartThrows
        BY <3>2 DEF StartFresh, StartRefused, StartThrows
      <3> QED BY <1>3, <3>1, <3>2 DEF Start
    <2> QED BY <2>1, <2>2 DEF PoolInv
  <1> QED BY <1>1, <1>2, <1>3

(* When the search for a public key is solved, the two points that met were  *)
(* handed to the pool before, and give it the same key.                      *)
THEOREM PoolCorrect == Spec => []PoolCanSolve
  <1>1. Init => PoolInv
    BY DEF Init, PoolInv
  <1>2. Safe /\ PoolInv /\ [Next]_vars => PoolInv'
    <2>1. CASE UNCHANGED vars
      BY <2>1 DEF PoolInv, InHand, Brought, vars, herd, shared, history
    <2> QED BY <2>1, ThreadPool, SolvePool DEF Next
  <1>3. PoolInv => PoolCanSolve
    BY DEF PoolInv, PoolCanSolve, Brought
  <1> QED BY InitSafe, SafeStep, <1>1, <1>2, <1>3, PTL DEF Spec

-----------------------------------------------------------------------------
(* A point that was stored is in the table, or shared its hash with another. *)

Solved == solution_found \/ \E t \in Threads : pc[t] = "won"
Alone(a) == \A c \in stored : Hash(c.x) = Hash(a.x) => c.x = a.x
SeenInv ==
  ~Solved => \A a \in stored :
    Alone(a) => \E o \in table : o.x = a.x /\ o.is_tame = a.is_tame

LEMMA ThreadSeen ==
  ASSUME Safe, SeenInv, NEW t \in Threads, Worker(t)
  PROVE  SeenInv'
  <1>1. CASE Insert(t)
    <2> SUFFICES ASSUME ~Solved', NEW a \in stored', Alone(a)'
                 PROVE  \E o \in table' : o.x = a.x /\ o.is_tame = a.is_tame
      BY DEF SeenInv
    <2>1. /\ table' = {o \in table : Hash(o.x) # Hash(InHand(t).x)} \cup {InHand(t)}
          /\ stored' = stored \cup {InHand(t)} /\ Hits(InHand(t)) = {}
          /\ ~Solved
      <3>1. \A u \in Threads : pc[u] = "won" => pc'[u] = "won"
        BY <1>1 DEF Insert, Safe, TypeOK
      <3> QED BY <1>1, <3>1 DEF Insert, Inserted, Solved
    <2>2. CASE a = InHand(t)
      BY <2>1, <2>2
    <2>3. CASE a # InHand(t)
      <3>1. a \in stored /\ Alone(a)
        BY <2>1, <2>3 DEF Alone
      <3>2. PICK o \in table : o.x = a.x /\ o.is_tame = a.is_tame
        BY <2>1, <3>1 DEF SeenInv
      <3>3. CASE Hash(o.x) # Hash(InHand(t).x)
        BY <2>1, <3>2, <3>3
      <3>4. CASE Hash(o.x) = Hash(InHand(t).x)
        <4>1. InHand(t).x = o.x
          BY <2>1, <3>2, <3>4 DEF Alone
        <4>2. InHand(t).is_tame = o.is_tame
          BY <2>1, <3>2, <4>1 DEF Hits
        <4> QED BY <2>1, <3>2, <4>1, <4>2
      <3> QED BY <3>3, <3>4
    <2> QED BY <2>2, <2>3
  <1>2. CASE Hit(t)
    <2>1. pc'[t] = "won"
      BY <1>2 DEF Hit, Safe, TypeOK
    <2> QED BY <2>1 DEF SeenInv, Solved
  <1>3. CASE Win(t)
    <2>1. solution_found'
      BY <1>3 DEF Win
    <2> QED BY <2>1 DEF SeenInv, Solved
  <1>4. CASE ~Insert(t) /\ ~Hit(t) /\ ~Win(t)
    <2>1. UNCHANGED <<table, stored, solution_found>>
          /\ \A u \in Threads : pc[u] = "won" => pc'[u] = "won"
      BY <1>4 DEF Worker, StartWorker, LeaveLoop, Step, Callback, StartHash, HashHit, HashMiss,
                  shared, history, Safe, TypeOK
    <2> QED BY <2>1 DEF SeenInv, Solved, Alone
  <1> QED BY <1>1, <1>2, <1>3, <1>4

LEMMA SolveSeen ==
  ASSUME Safe, SeenInv, Monitor \/ Start \/ Kill
  PROVE  SeenInv'
  <1>1. CASE Monitor
    <2>1. UNCHANGED <<pc, table, stored, solution_found>>
      BY <1>1 DEF Monitor, LoopEnds, CallbackStops, LimitStops, AutoSave, Saved, SavedAndOver,
                  Join, Return, GivesUp, MonitorStays, shared, herd, history
    <2> QED BY <2>1 DEF SeenInv, Solved, Alone
  <1>2. CASE Kill
    BY <1>2 DEF Kill, SeenInv
  <1>3. CASE StartResumed
    <2>1. CASE monitor = "over" /\ ~solution_found
      <3>1. table' = table /\ stored' = stored /\ ~Solved
        BY <1>3, <2>1 DEF StartResumed, Safe, SaveInv, Solved
      <3> QED BY <3>1 DEF SeenInv, Alone
    <2>2. CASE ~(monitor = "over" /\ ~solution_found)
      BY <1>3, <2>2 DEF StartResumed, SeenInv
    <2> QED BY <2>1, <2>2
  <1>4. CASE StartFresh \/ StartRefused \/ StartThrows
    BY <1>4 DEF StartFresh, StartRefused, StartThrows, SeenInv
  <1> QED BY <1>1, <1>2, <1>3, <1>4 DEF Start

(* The second of a tame and a wild kangaroo at one distinguished point       *)
(* solves the search, unless a point of the same hash came between.          *)
THEOREM SecondCorrect == Spec => []SecondSees
  <1>1. Init => SeenInv
    BY DEF Init, SeenInv
  <1>2. Safe /\ SeenInv /\ [Next]_vars => SeenInv'
    <2>1. CASE UNCHANGED vars
      BY <2>1 DEF SeenInv, Solved, Alone, vars, herd, shared, history
    <2> QED BY <2>1, ThreadSeen, SolveSeen DEF Next
  <1>3. Safe /\ SeenInv => SecondSees
    <2> SUFFICES ASSUME Safe, SeenInv, ~Solved, NEW a \in stored, NEW b \in stored,
                        a.x = b.x, a.is_tame, ~b.is_tame, Alone(a)
                 PROVE  FALSE
      BY DEF SecondSees, Solved, Alone
    <2>1. Alone(b)
      BY DEF Alone
    <2>2. PICK o \in table : o.x = a.x /\ o.is_tame = a.is_tame
      BY DEF SeenInv
    <2>3. PICK q \in table : q.x = b.x /\ q.is_tame = b.is_tame
      BY <2>1 DEF SeenInv
    <2>4. o = q
      BY <2>2, <2>3 DEF Safe, SaveInv, OnePerHash
    <2> QED BY <2>2, <2>3, <2>4
  <1> QED BY InitSafe, SafeStep, <1>1, <1>2, <1>3, PTL DEF Spec
=============================================================================
