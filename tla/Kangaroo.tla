------------------------------- MODULE Kangaroo -------------------------------
(***************************************************************************)
(* The CPU kangaroo solver of src/core/kangaroo.hpp: the worker threads,   *)
(* their table of distinguished points, the loop of solve() that watches   *)
(* them, and the work file over stops, kills and restarts.                 *)
(*                                                                         *)
(*   hybrid    use_h160_target_: an address is searched, not a public key  *)
(*   pc, turn  where a thread is; which of its two kangaroos is in hand    *)
(*   place     the discrete logarithm of a kangaroo's point, or Stray for  *)
(*             a point that is not on the curve; the position of a thread  *)
(*             of the hybrid search is that of its tame one                *)
(*   distance  what the kangaroo believes it travelled                     *)
(*   result    result_key, the key a thread computed                       *)
(*   table     dp_table_, at most one point for each hash                  *)
(*   total_steps, stop_flag, solution_found, solution_key   as in the code *)
(*   monitor   where solve() is; "off" when there is no process            *)
(*   file      the work file, as load() would read it                      *)
(*   handed    history: the points given to the callback, over restarts    *)
(*   stored    history: the points given to the table, over clean restarts *)
(*   tainted   history: the points loaded whose line in the file was cut   *)
(*   runs      history: how often solve() was called                       *)
(*                                                                         *)
(* The group of the curve is the integers. That is exact as long as no     *)
(* kangaroo comes to half the order of the group, where x-coordinates      *)
(* repeat: Top stands for that point, and bounds the model.                *)
(***************************************************************************)
EXTENDS Integers, FiniteSets

CONSTANTS
  Threads,
  Low, High,    \* range_start_, range_end_
  Key,          \* the logarithm of the target
  Top,          \* half the order of the group; bound: no kangaroo walks further
  X(_),         \* the x-coordinate of a point
  Hash(_),      \* DPHash
  Stray,        \* the place of a point that is not on the curve
  NumJumps,     \* NUM_JUMPS
  WordBits,     \* the bits of a counter and of a limb
  DpBits,       \* dp_bits
  UserMaxSteps, \* max_steps as the caller set it, 0 when it did not
  TameOffsets, WildOffsets, \* what the generators of a thread may yield;
  HashOffsets,  \* at most as many bits as the size of the range has
  Aliased,      \* whether ec_add writes its result over its argument: TRUE
                \* as built, FALSE as the comments say, or either
  WorkFile,     \* a work file was set
  Files,        \* the work files there may be at first
  MaxRuns, MaxTotal \* bounds: calls of solve, steps of the hybrid search

Kinds == {"tame", "wild"}
Pair(tame, wild) == [k \in Kinds |-> IF k = "tame" THEN tame ELSE wild]

ASSUME KangarooAssumption ==
  /\ {Low, High, Key, Top, UserMaxSteps, DpBits, MaxRuns, MaxTotal} \subseteq Nat
  /\ {NumJumps, WordBits} \subseteq Nat \ {0}
  /\ {TameOffsets, WildOffsets} \subseteq [Threads -> SUBSET Nat]
  /\ HashOffsets \subseteq Nat
  /\ Low < High /\ Stray \notin Nat
  /\ Aliased \subseteq BOOLEAN /\ WorkFile \in BOOLEAN
  /\ \A p \in 0 .. Top : X(p) \in Nat /\ X(p) # X(Stray)
  /\ X(Stray) \in Nat
  /\ \A p, q \in 0 .. Top : X(p) = X(q) => p = q

VARIABLES hybrid, pc, turn, place, distance, result, table, total_steps, stop_flag,
          solution_found, solution_key, monitor, file, handed, stored,
          tainted, runs

herd    == <<pc, turn, place, distance, result>>
shared  == <<table, total_steps, stop_flag, solution_found, solution_key>>
history == <<handed, stored, tainted>>
vars    == <<hybrid, herd, shared, monitor, file, history, runs>>

-----------------------------------------------------------------------------
(* What set_range makes of the bounds of the range.                          *)

RangeSize    == High - Low
BitLength(n) == IF n = 0 THEN 0 ELSE CHOOSE b \in 1 .. n : 2 ^ (b - 1) <= n /\ n < 2 ^ b
SqrtBits     == BitLength(RangeSize) \div 2

Larger(a, b)  == IF a > b THEN a ELSE b
Smaller(a, b) == IF a < b THEN a ELSE b

(* JumpTable::init. Every jump is a multiple of the first.                   *)
JumpDistance(i) ==
  2 ^ Smaller(250, Larger(1, SqrtBits \div 4 + (i * SqrtBits * 3) \div (4 * NumJumps)))

JumpIndexes == 0 .. NumJumps - 1
JumpIndex(x) == x % NumJumps
Jump(p) == JumpDistance(JumpIndex(X(p)))

(* The steps after which solve() gives up; 0 is no limit. The product may    *)
(* overflow to 0.                                                            *)
ExpBits == BitLength(RangeSize) \div 2 + 2
MaxSteps ==
  IF UserMaxSteps # 0 THEN UserMaxSteps
  ELSE IF ExpBits >= WordBits - 1 THEN 2 ^ WordBits - 1
  ELSE (4 * 2 ^ ExpBits) % 2 ^ WordBits

(* Powers of two are numbers; said because the provers know no powers.       *)
ASSUME PowersAssumption == MaxSteps \in Nat /\ \A i \in JumpIndexes : JumpDistance(i) \in Nat

IsDistinguished(x) ==
  IF DpBits >= WordBits THEN x % 2 ^ WordBits = 0 ELSE x % 2 ^ DpBits = 0

-----------------------------------------------------------------------------
(* Distinguished points, and the table of them. A point that hits another of *)
(* the other kind solves the search and is not inserted; otherwise it takes  *)
(* the place of whatever has its hash.                                       *)

DP(x, d, tame) == [x |-> x, distance |-> d, is_tame |-> tame]

(* mutant: only a wild kangaroo looks for one of the other kind *)
Hits_WildOnly(dp) == {o \in table : o.x = dp.x /\ o.is_tame /\ ~dp.is_tame}

Hits(dp) == {o \in table : o.x = dp.x /\ o.is_tame # dp.is_tame}

Inserted(dp) == {o \in table : Hash(o.x) # Hash(dp.x)} \cup {dp}

KeyOf(dp, other) ==
  IF dp.is_tame THEN dp.distance - other.distance
                ELSE other.distance - dp.distance

-----------------------------------------------------------------------------
(* The work file. load() reads what a kill inside save() left as the first   *)
(* of these that fits: nothing; a number that cannot be parsed, on which the *)
(* program ends; a header without its last lines, whose missing members are  *)
(* uninitialised; some of the points; some of the points and a last one that *)
(* lost its type, and counts as wild, and perhaps digits of its distance.    *)

NoFile == [kind |-> "none", target |-> "ours", shape |-> "ours", steps |-> 0,
           dps |-> {}, altered |-> {}]
Foreign(dps) == [NoFile EXCEPT !.kind = "read", !.target = "other", !.dps = dps]
Content == [NoFile EXCEPT !.kind = "read", !.steps = total_steps, !.dps = table]

Shorter(d) == {n \in 0 .. d : \E k \in 0 .. 3 : n = d \div 16 ^ k}
CutLine(o) == {DP(o.x, d, FALSE) : d \in Shorter(o.distance)}

CutHeader(c) ==
  {[c EXCEPT !.target = t, !.shape = s, !.steps = n, !.dps = {}] :
     t \in {"ours", "other"}, s \in {"ours", "other"}, n \in {0, MaxSteps}}
CutAfter(c) == {[c EXCEPT !.dps = s] : s \in SUBSET c.dps}
LastCut(c, o, s, l) == [c EXCEPT !.dps = s \cup {l}, !.altered = @ \cup ({l} \ {o})]
CutWithin(c, o) == {LastCut(c, o, s, l) : s \in SUBSET (c.dps \ {o}), l \in CutLine(o)}

Cuts(c) == {NoFile, [NoFile EXCEPT !.kind = "throws"]} \cup CutHeader(c) \cup CutAfter(c)
           \cup UNION {CutWithin(c, o) : o \in c.dps}

DPs == [x : Nat, distance : Nat, is_tame : BOOLEAN]
FileType == [kind : {"none", "read", "throws"}, target : {"ours", "other"},
             shape : {"ours", "other"}, steps : Nat, dps : SUBSET DPs,
             altered : SUBSET DPs]

(* At first there is no file, or one of another search.                      *)
ASSUME FilesAssumption ==
  \A f \in Files :
    /\ f \in FileType /\ (f.target = "ours" => f.dps = {})
    /\ \A o, q \in f.dps : Hash(o.x) = Hash(q.x) => o = q

(* mutant: a file for another target is accepted *)
Mismatch_ShapeOnly(f) == f.shape # "ours"

(* The target is compared only when the solver has one.                      *)
Mismatch(f) == f.shape # "ours" \/ (~hybrid /\ f.target # "ours")

-----------------------------------------------------------------------------
(* solve(), up to the creation of its threads.                               *)

NewHerd ==
  /\ pc' = [t \in Threads |-> "new"] /\ turn' = [t \in Threads |-> "tame"]
  /\ place' = [t \in Threads |-> Pair(0, 0)]
  /\ distance' = [t \in Threads |-> Pair(0, 0)]
  /\ result' = [t \in Threads |-> 0]

Begin ==
  /\ monitor \in {"off", "over"} /\ runs < MaxRuns
  /\ runs' = runs + 1
  /\ stop_flag' = FALSE /\ solution_found' = FALSE /\ solution_key' = 0
  /\ UNCHANGED <<hybrid, file>>

Resumes == WorkFile /\ file.kind = "read"

StartFresh ==
  /\ Begin /\ ~Resumes /\ (WorkFile => file.kind # "throws")
  /\ table' = {} /\ total_steps' = 0
  /\ NewHerd
  /\ monitor' = "loop"
  /\ handed' = {} /\ stored' = {} /\ tainted' = {}

StartResumed ==
  /\ Begin /\ Resumes /\ ~Mismatch(file)
  /\ table' = file.dps /\ total_steps' = file.steps
  /\ NewHerd
  /\ monitor' = "loop"
  /\ handed' = IF monitor = "over" THEN handed ELSE file.dps
  /\ stored' = IF monitor = "over" /\ ~solution_found THEN stored ELSE file.dps
  /\ tainted' = file.altered

(* A file of another search is refused: nothing was found.                   *)
StartRefused ==
  /\ Begin /\ Resumes /\ Mismatch(file)
  /\ table' = {} /\ total_steps' = 0
  /\ monitor' = "over"
  /\ pc' = [t \in Threads |-> "done"]
  /\ handed' = {} /\ stored' = {} /\ tainted' = {}
  /\ UNCHANGED <<turn, place, distance, result>>

(* stoul throws, and nobody catches it: the process ends, each time anew.    *)
StartThrows ==
  /\ Begin /\ WorkFile /\ file.kind = "throws"
  /\ monitor' = "off"
  /\ table' = {} /\ total_steps' = 0
  /\ pc' = [t \in Threads |-> "done"]
  /\ handed' = {} /\ stored' = {} /\ tainted' = {}
  /\ UNCHANGED <<turn, place, distance, result>>

-----------------------------------------------------------------------------
(* A worker thread. Its tame kangaroo starts near the middle of the range,   *)
(* its wild one at the target plus a small offset: ec_add is called with its *)
(* result in place of its argument, and an offset of 0 is the point (0, 0)   *)
(* to it; either way the point is not on the curve.                          *)

TameStart(o) == RangeSize \div 2 + o + Low
WildStart(o, aliased) == IF aliased \/ o = 0 THEN Stray ELSE Key + o

ASSUME StartAssumption ==
  \A t \in Threads : /\ \A o \in TameOffsets[t] : TameStart(o) \in 0 .. Top
                    /\ \A o \in WildOffsets[t] : Key + o <= Top

StartWorker(t) ==
  /\ pc[t] = "new" /\ ~hybrid
  /\ \E tame \in TameOffsets[t], wild \in WildOffsets[t], aliased \in Aliased :
       /\ place' = [place EXCEPT ![t] = Pair(TameStart(tame), WildStart(wild, aliased))]
       /\ distance' = [distance EXCEPT ![t] = Pair(TameStart(tame), wild)]
  /\ pc' = [pc EXCEPT ![t] = "step"]
  /\ UNCHANGED <<hybrid, turn, result, shared, monitor, file, history, runs>>

Stopping == stop_flag \/ solution_found
Room(n) == \A i \in JumpIndexes : n + JumpDistance(i) <= Top
Roomy(t) == \A k \in Kinds : place[t][k] # Stray => Room(place[t][k])

(* mutant: another thread's key is not looked at *)
LeaveLoop_StopOnly(t) ==
  /\ pc[t] = "step" /\ turn[t] = "tame" /\ stop_flag
  /\ pc' = [pc EXCEPT ![t] = "done"]
  /\ UNCHANGED <<hybrid, turn, place, distance, result, shared, monitor, file,
                 history, runs>>

(* The head of the loop, before the step of the tame kangaroo.               *)
LeaveLoop(t) ==
  /\ pc[t] = "step" /\ turn[t] = "tame" /\ Stopping
  /\ pc' = [pc EXCEPT ![t] = "done"]
  /\ UNCHANGED <<hybrid, turn, place, distance, result, shared, monitor, file,
                 history, runs>>

Other(k) == IF k = "tame" THEN "wild" ELSE "tame"

(* step_kangaroo and the test of the point it leads to. The walk of a point  *)
(* that is not on the curve may take any jump.                               *)
Step(t) ==
  LET k == turn[t] IN
  /\ pc[t] = "step" /\ ~hybrid
  /\ k = "tame" => ~Stopping /\ Roomy(t)
  /\ total_steps' = total_steps + 1
  /\ \/ /\ place[t][k] # Stray
        /\ LET j == Jump(place[t][k]) IN
           /\ place' = [place EXCEPT ![t][k] = @ + j]
           /\ distance' = [distance EXCEPT ![t][k] = @ + j]
           /\ IF IsDistinguished(X(place[t][k] + j))
              THEN pc' = [pc EXCEPT ![t] = "callback"] /\ UNCHANGED turn
              ELSE turn' = [turn EXCEPT ![t] = Other(k)] /\ UNCHANGED pc
     \/ /\ place[t][k] = Stray
        /\ UNCHANGED place
        /\ \E i \in JumpIndexes :
             distance' = [distance EXCEPT ![t][k] = @ + JumpDistance(i)]
        /\ \/ pc' = [pc EXCEPT ![t] = "callback"] /\ UNCHANGED turn
           \/ turn' = [turn EXCEPT ![t] = Other(k)] /\ UNCHANGED pc
  /\ UNCHANGED <<hybrid, result, table, stop_flag, solution_found, solution_key,
                 monitor, file, history, runs>>

InHand(t) == DP(X(place[t][turn[t]]), distance[t][turn[t]], turn[t] = "tame")

(* mutant: the table sees it first *)
Callback_Late(t) ==
  /\ pc[t] = "callback"
  /\ handed' = IF Hits(InHand(t)) = {} THEN handed \cup {InHand(t)} ELSE handed
  /\ pc' = [pc EXCEPT ![t] = "insert"]
  /\ UNCHANGED <<hybrid, turn, place, distance, result, shared, monitor, file,
                 stored, tainted, runs>>

(* The point is handed to the pool before the table sees it.                 *)
Callback(t) ==
  /\ pc[t] = "callback"
  /\ handed' = handed \cup {InHand(t)}
  /\ pc' = [pc EXCEPT ![t] = "insert"]
  /\ UNCHANGED <<hybrid, turn, place, distance, result, shared, monitor, file,
                 stored, tainted, runs>>

(* insert_and_check, under the lock of the table. The result stays with the  *)
(* thread until it has the lock of the solution.                             *)
Insert(t) ==
  /\ pc[t] = "insert" /\ Hits(InHand(t)) = {}
  /\ table' = Inserted(InHand(t))
  /\ stored' = stored \cup {InHand(t)}
  /\ pc' = [pc EXCEPT ![t] = "step"]
  /\ turn' = [turn EXCEPT ![t] = Other(@)]
  /\ UNCHANGED <<hybrid, place, distance, result, total_steps, stop_flag, solution_found,
                 solution_key, monitor, file, handed, tainted, runs>>

Hit(t) ==
  /\ pc[t] = "insert" /\ Hits(InHand(t)) # {}
  /\ stored' = stored \cup {InHand(t)}
  /\ \E other \in Hits(InHand(t)) :
       result' = [result EXCEPT ![t] = KeyOf(InHand(t), other)]
  /\ pc' = [pc EXCEPT ![t] = "won"]
  /\ UNCHANGED <<hybrid, turn, place, distance, shared, monitor, file,
                 handed, tainted, runs>>

(* Under the lock of the solution; a second thread that won overwrites it.   *)
Win(t) ==
  /\ pc[t] = "won"
  /\ solution_key' = result[t] /\ solution_found' = TRUE
  /\ pc' = [pc EXCEPT ![t] = "done"]
  /\ UNCHANGED <<hybrid, turn, place, distance, result, table, total_steps,
                 stop_flag, monitor, file, history, runs>>

-----------------------------------------------------------------------------
(* A thread of the search for an address: it compares the address of its     *)
(* position, and jumps by the low bits of the position itself.               *)

StartHash(t) ==
  /\ pc[t] = "new" /\ hybrid
  /\ \E r \in HashOffsets :
       place' = [place EXCEPT ![t]["tame"] = Low + r]
  /\ pc' = [pc EXCEPT ![t] = "step"]
  /\ UNCHANGED <<hybrid, turn, distance, result, shared, monitor, file,
                 history, runs>>

HashHit(t) ==
  /\ pc[t] = "step" /\ hybrid /\ ~Stopping
  /\ place[t]["tame"] = Key
  /\ total_steps' = total_steps + 1
  /\ result' = [result EXCEPT ![t] = place[t]["tame"]]
  /\ pc' = [pc EXCEPT ![t] = "won"]
  /\ UNCHANGED <<hybrid, turn, place, distance, table, stop_flag, solution_found,
                 solution_key, monitor, file, history, runs>>

(* mutant: at every jump *)
Wrapped_Always(p) == p - RangeSize

Wrapped(p) == IF p >= High THEN p - RangeSize ELSE p

HashMiss(t) ==
  /\ pc[t] = "step" /\ hybrid /\ ~Stopping /\ total_steps < MaxTotal
  /\ place[t]["tame"] # Key
  /\ total_steps' = total_steps + 1
  /\ place' = [place EXCEPT ![t]["tame"] = Wrapped(@ + JumpDistance(JumpIndex(@)))]
  /\ UNCHANGED <<hybrid, pc, turn, distance, result, table, stop_flag,
                 solution_found, solution_key, monitor, file, history, runs>>

-----------------------------------------------------------------------------
(* The loop of solve(), once a second: the callback, which may stop the      *)
(* search; perhaps a save; the limit of steps. Then it waits for the threads *)
(* and saves once more. The hybrid search never saves.                       *)

MonitorStays == UNCHANGED <<hybrid, herd, history, runs>>

LoopEnds ==
  /\ monitor = "loop" /\ Stopping
  /\ monitor' = "join"
  /\ MonitorStays /\ UNCHANGED <<shared, file>>

(* The callback says no, or the limit is reached.                            *)
Over(steps) == MaxSteps > 0 /\ steps >= MaxSteps
GivesUp ==
  /\ stop_flag' = TRUE /\ monitor' = "join"
  /\ MonitorStays
  /\ UNCHANGED <<table, total_steps, solution_found, solution_key, file>>

CallbackStops == monitor = "loop" /\ ~Stopping /\ GivesUp

LimitStops == monitor = "loop" /\ ~Stopping /\ Over(total_steps) /\ GivesUp

(* save() opens the file, and empties it, and then writes it: file is what   *)
(* it will hold. The steps were read before the callback was called, and are *)
(* compared with the limit after the save.                                   *)
AutoSave ==
  /\ monitor = "loop" /\ ~Stopping /\ WorkFile /\ ~hybrid
  /\ file' = [Content EXCEPT !.altered = tainted]
  /\ monitor' = "saving"
  /\ MonitorStays /\ UNCHANGED shared

Saved ==
  /\ monitor = "saving" /\ ~Over(file.steps)
  /\ monitor' = "loop"
  /\ MonitorStays /\ UNCHANGED <<shared, file>>

SavedAndOver == monitor = "saving" /\ Over(file.steps) /\ GivesUp

Join ==
  /\ monitor = "join" /\ \A t \in Threads : pc[t] = "done"
  /\ IF WorkFile /\ ~hybrid
     THEN /\ file' = [Content EXCEPT !.altered = tainted]
          /\ monitor' = "final"
     ELSE monitor' = "over" /\ UNCHANGED file
  /\ MonitorStays /\ UNCHANGED shared

Return ==
  /\ monitor = "final"
  /\ monitor' = "over"
  /\ MonitorStays /\ UNCHANGED <<shared, file>>

(* The process is killed; a file that is being written is cut anywhere.      *)
Kill ==
  /\ monitor \notin {"off", "over"}
  /\ monitor' = "off"
  /\ pc' = [t \in Threads |-> "done"]
  /\ stop_flag' = FALSE /\ solution_found' = FALSE
  /\ IF monitor \in {"saving", "final"}
     THEN file' \in Cuts(file) ELSE UNCHANGED file
  /\ handed' = {} /\ stored' = {}
  /\ UNCHANGED <<hybrid, turn, place, distance, result, table, total_steps,
                 solution_key, tainted, runs>>

-----------------------------------------------------------------------------

Init ==
  /\ hybrid \in BOOLEAN
  /\ pc = [t \in Threads |-> "done"] /\ turn = [t \in Threads |-> "tame"]
  /\ place = [t \in Threads |-> Pair(0, 0)]
  /\ distance = [t \in Threads |-> Pair(0, 0)]
  /\ result = [t \in Threads |-> 0]
  /\ table = {} /\ total_steps = 0
  /\ stop_flag = FALSE /\ solution_found = FALSE /\ solution_key = 0
  /\ monitor = "off"
  /\ file \in Files
  /\ handed = {} /\ stored = {} /\ tainted = {}
  /\ runs = 0

Worker(t) ==
  \/ StartWorker(t) \/ LeaveLoop(t) \/ Step(t) \/ Callback(t) \/ Insert(t) \/ Hit(t)
  \/ Win(t) \/ StartHash(t) \/ HashHit(t) \/ HashMiss(t)

Monitor == LoopEnds \/ CallbackStops \/ LimitStops \/ AutoSave \/ Saved
           \/ SavedAndOver \/ Join \/ Return

Start == StartFresh \/ StartResumed \/ StartRefused \/ StartThrows

Next == (\E t \in Threads : Worker(t)) \/ Monitor \/ Start \/ Kill

Spec == Init /\ [][Next]_vars

(* Threads are scheduled, and the loop wakes up every second.                *)
FairSpec == Spec /\ (\A t \in Threads : WF_vars(Worker(t))) /\ WF_vars(Monitor)

-----------------------------------------------------------------------------
(* Every variable keeps its type: what solve(), its threads and load() make  *)
(* of them.                                                                  *)
TypeOK ==
  /\ hybrid \in BOOLEAN
  /\ pc \in [Threads -> {"new", "step", "callback", "insert", "won", "done"}]
  /\ turn \in [Threads -> Kinds]
  /\ place \in [Threads -> [Kinds -> Nat \cup {Stray}]]
  /\ distance \in [Threads -> [Kinds -> Nat]]
  /\ result \in [Threads -> Int]
  /\ table \in SUBSET DPs /\ total_steps \in Nat
  /\ stop_flag \in BOOLEAN /\ solution_found \in BOOLEAN
  /\ solution_key \in Int
  /\ monitor \in {"off", "loop", "saving", "join", "final", "over"}
  /\ file \in FileType
  /\ handed \subseteq DPs /\ stored \subseteq DPs /\ tainted \subseteq DPs
  /\ runs \in 0 .. MaxRuns

(* A key that solve() reports is the key of the target: over interleaved     *)
(* threads, points of other runs and cut files, as long as no last line lost *)
(* its type. solve() does not verify what insert_and_check computes.         *)
KeyIsRight ==
  tainted = {} => /\ solution_found => solution_key = Key
              /\ \A t \in Threads : pc[t] = "won" => result[t] = Key

(* Of a tame and a wild kangaroo at the same distinguished point, the second *)
(* to reach the table solves the search, whichever threads they belong to    *)
(* and whichever run they were of, unless another point took the place of    *)
(* the first under the same hash.                                            *)
SecondSees ==
  \A a, b \in stored :
    a.x = b.x /\ a.is_tame /\ ~b.is_tame
      /\ (\A c \in stored : Hash(c.x) = Hash(a.x) => c.x = a.x)
    => solution_found \/ \E t \in Threads : pc[t] = "won"

(* When the search for a public key is solved here, the pool can solve it    *)
(* too: both points were handed to the callback, in this run or in the one   *)
(* whose file was loaded, before the search ended.                           *)
PoolCanSolve ==
  solution_found /\ ~hybrid =>
    \E a, b \in handed :
      a.x = b.x /\ a.is_tame /\ ~b.is_tame /\ a.distance - b.distance = solution_key

(* solve() returns when a key was found, when the callback stopped it, and   *)
(* when the limit of steps is reached.                                       *)
Returns ==
  monitor # "off" /\ (Stopping \/ Over(total_steps)) ~> monitor \in {"off", "over"}

=============================================================================
