--------------------------- MODULE ZoneSearchProofs ---------------------------
(***************************************************************************)
(* Proofs about ZoneSearch and GpuSearch, for every range, batch size, key *)
(* and number of devices, kills and interrupts: their types, that a search *)
(* never skips a key, and that the search on GPUs is such a search.        *)
(***************************************************************************)
EXTENDS GpuSearch, TLAPS

USE DEF NumZones

-----------------------------------------------------------------------------
(* The bounds of the zones are keys.                                         *)

LEMMA PositionsAreKeys ==
  /\ Position(0) = Low /\ Position(100) = High
  /\ \A p \in {0, 30, 50, 60, 85, 100} : Position(p) \in Nat
<1>1. Low \in Nat /\ High \in Nat /\ High - Low \in Nat
  BY SearchAssumption
<1>2. ASSUME NEW l \in Nat, NEW w \in Nat
      PROVE  /\ l + (w * 0) \div 100 = l
             /\ l + (w * 100) \div 100 = l + w
             /\ l + (w * 30) \div 100 \in Nat
             /\ l + (w * 50) \div 100 \in Nat
             /\ l + (w * 60) \div 100 \in Nat
             /\ l + (w * 85) \div 100 \in Nat
  OBVIOUS
<1>3. /\ Position(0) = Low
      /\ Position(100) = Low + (High - Low)
      /\ Position(30) \in Nat /\ Position(50) \in Nat
      /\ Position(60) \in Nat /\ Position(85) \in Nat
  BY ONLY <1>1, <1>2 DEF Position
<1>. QED  BY <1>1, <1>3

LEMMA BoundsAreKeys ==
  \A z \in 1 .. NumZones : From(z) \in Nat /\ To(z) \in Nat
<1>1. \A z \in 1 .. NumZones :
        {PuzzleZones[z][1], PuzzleZones[z][2]} \subseteq {0, 30, 50, 60, 85, 100}
  <2>1. 1 .. NumZones = {1, 2, 3, 4, 5}
    OBVIOUS
  <2>. QED  BY <2>1 DEF PuzzleZones
<1>. QED  BY <1>1, PositionsAreKeys DEF From, To

(* The zones leave no gap: every key of the range but the last is in one.    *)

LEMMA ZonesCover ==
  ASSUME NEW k \in Low .. High - 1
  PROVE  \E z \in 1 .. NumZones : k \in Keys(z)
<1>1. /\ Keys(1) = Position(60) .. Position(85) - 1
      /\ Keys(2) = Position(30) .. Position(50) - 1
      /\ Keys(3) = Position(50) .. Position(60) - 1
      /\ Keys(4) = Position(85) .. Position(100) - 1
      /\ Keys(5) = Position(0) .. Position(30) - 1
  BY DEF Keys, From, To, PuzzleZones
<1>2. k \in Keys(1) \cup Keys(2) \cup Keys(3) \cup Keys(4) \cup Keys(5)
  <2>1. ASSUME NEW a \in Int, NEW b \in Int, NEW c \in Int, NEW d \in Int
        PROVE  k \in (c .. d - 1) \cup (a .. b - 1) \cup (b .. c - 1)
                    \cup (d .. High - 1) \cup (Low .. a - 1)
    BY SearchAssumption
  <2>2. /\ Position(30) \in Int /\ Position(50) \in Int
        /\ Position(60) \in Int /\ Position(85) \in Int
    BY PositionsAreKeys
  <2>3. k \in (Position(60) .. Position(85) - 1)
             \cup (Position(30) .. Position(50) - 1)
             \cup (Position(50) .. Position(60) - 1)
             \cup (Position(85) .. High - 1) \cup (Low .. Position(30) - 1)
    BY ONLY <2>1, <2>2
  <2>4. Position(100) = High /\ Position(0) = Low
    BY PositionsAreKeys
  <2>. QED  BY ONLY <2>3, <2>4, <1>1, Zenon
<1>. QED  BY <1>2

-----------------------------------------------------------------------------
(* Types.                                                                    *)

LEMMA TypeInit == Init => TypeOK
<1>1. From(1) \in Nat /\ 0 \in 0 .. MaxKills /\ 0 \in 0 .. MaxQuits
  <2>1. 1 \in 1 .. NumZones /\ MaxKills \in Nat /\ MaxQuits \in Nat
    BY SearchAssumption
  <2>. QED  BY <2>1, BoundsAreKeys
<1>2. NoFile \in Files
  BY DEF Files
<1>3. ASSUME Init PROVE kills \in 0 .. MaxKills /\ quits \in 0 .. MaxQuits
  BY <1>1, <1>3 DEF Init
<1>4. ASSUME Init PROVE zone \in 1 .. NumZones + 1 /\ pos \in Nat /\ total \in Nat
  BY <1>1, <1>4 DEF Init
<1>. QED  BY <1>2, <1>3, <1>4 DEF Init, TypeOK

LEMMA CutsAreFiles ==
  ASSUME NEW c \in [zone : 1 .. NumZones + 1, pos : Nat, total : Nat,
                    sum : {"none", "ok", "bad"}]
  PROVE  Cuts(c) \subseteq Files
<1>1. c.total \div 10 \in Nat
  <2>1. PICK t \in Nat : t = c.total
    OBVIOUS
  <2>2. t \div 10 \in Nat
    OBVIOUS
  <2>. QED  BY <2>1, <2>2
<1>2. Empty \in Files
  BY DEF Files, Empty, NoFile
<1>3. /\ [c EXCEPT !.total = @ \div 10, !.sum = "none"] \in Files
      /\ [c EXCEPT !.sum = "none"] \in Files
      /\ [c EXCEPT !.sum = "bad"] \in Files
  BY <1>1 DEF Files
<1>. QED  BY <1>2, <1>3 DEF Cuts

LEMMA TypeStep == TypeOK /\ [Next]_vars => TypeOK'
<1> SUFFICES ASSUME TypeOK, [Next]_vars
             PROVE  TypeOK'
  OBVIOUS
<1>. USE DEF TypeOK, process, disk, history, bounds
<1>1. CASE Start
  <2>1. Accepts(file) => file.zone \in 1 .. NumZones + 1
    BY DEF Accepts, Files, NoFile
  <2>2. Accepts(file) => file.pos \in Nat /\ file.total \in Nat
    BY DEF Files, NoFile
  <2>3. 1 \in 1 .. NumZones + 1 /\ From(1) \in Nat
    BY BoundsAreKeys
  <2>4. zone' \in 1 .. NumZones + 1 /\ pos' \in Nat /\ total' \in Nat
    BY <1>1, <2>1, <2>2, <2>3 DEF Start
  <2>. QED  BY <1>1, <2>4 DEF Start
<1>2. CASE NextZone
  BY <1>2, BoundsAreKeys DEF NextZone, Looping
<1>3. CASE AllZones
  BY <1>3 DEF AllZones, Looping
<1>4. CASE SearchBatch
  <2>1. Window \subseteq Nat /\ pos + Batch \in Nat /\ total + Batch \in Nat
    BY SearchAssumption DEF Window
  <2>2. checked' \subseteq Nat /\ missed' \subseteq Nat
    BY <1>4, <2>1 DEF SearchBatch
  <2>. QED  BY <1>4, <2>1, <2>2 DEF SearchBatch, Looping, Advance
<1>5. CASE Found
  BY <1>5 DEF Found
<1>6. CASE Clear
  BY <1>6 DEF Clear, Files
<1>7. CASE Interrupt
  BY <1>7, SearchAssumption DEF Interrupt
<1>8. CASE SaveAndQuit
  BY <1>8 DEF SaveAndQuit
<1>9. CASE Finish
  BY <1>9 DEF Finish
<1>10. CASE Write
  <2>1. /\ Content \in Files
        /\ Cuts(Content) \subseteq Files
    BY CutsAreFiles DEF Content, Files
  <2>. QED  BY <1>10, <2>1 DEF Write
<1>11. CASE Rename
  BY <1>11 DEF Rename, Files
<1>12. CASE RenameFails
  BY <1>12 DEF RenameFails
<1>13. CASE Remove
  BY <1>13 DEF Remove, Files
<1>14. CASE Kill
  BY <1>14, SearchAssumption DEF Kill
<1>15. CASE UNCHANGED vars
  BY <1>15 DEF vars
<1>. QED  BY <1>1, <1>2, <1>3, <1>4, <1>5, <1>6, <1>7, <1>8, <1>9, <1>10, <1>11,
            <1>12, <1>13, <1>14, <1>15 DEF Next, Search, Save

(* puzzle_solver.cpp and search_state.hpp: the variables have their types,   *)
(* and a saved zone index is at most one behind the last zone.               *)
THEOREM TypeCorrect == Spec => []TypeOK
BY TypeInit, TypeStep, PTL DEF Spec

-----------------------------------------------------------------------------
(* Nothing is skipped. Accepts of a file that lost its end says little about *)
(* its position, so the invariant is about every file.                       *)

FileSearched(f) == Searched(f.zone, f.pos)

SearchInv ==
  /\ TypeOK
  /\ pc # "off" => Searched(zone, pos)
  /\ FileSearched(file) /\ FileSearched(temp)
  /\ complete => Low .. High - 1 \subseteq Counted
  /\ key \notin checked

(* Before the first key of a zone, and at it, nothing of that zone counts.   *)
LEMMA StartsSearched ==
  /\ Searched(1, From(1)) /\ FileSearched(NoFile) /\ FileSearched(Empty)
<1>1. \A z \in 1 .. NumZones : \A k \in Keys(z) : k \in Int /\ k >= From(z) /\ k >= 0
  BY BoundsAreKeys DEF Keys
<1>. QED  BY <1>1, BoundsAreKeys DEF Searched, FileSearched, NoFile, Empty

LEMMA SearchInit == Init => SearchInv
BY TypeInit, StartsSearched DEF Init, SearchInv

(* At the end of its zone, a position is one before the next zone.           *)
LEMMA ZoneEnds ==
  ASSUME TypeOK, Searched(zone, pos), IsDone
  PROVE  /\ \A i \in 1 .. NumZones : i <= zone => Keys(i) \subseteq Counted
         /\ zone < NumZones => Searched(zone + 1, From(zone + 1))
         /\ Searched(NumZones + 1, pos) \/ zone < NumZones
<1>1. \A z \in 1 .. NumZones : \A k \in Keys(z) :
        k \in Int /\ From(z) <= k /\ k < To(z)
  BY BoundsAreKeys DEF Keys
<1>2. \A i \in 1 .. NumZones : i <= zone => Keys(i) \subseteq Counted
  BY <1>1, BoundsAreKeys DEF IsDone, Behind, Searched, TypeOK
<1>. QED  BY <1>1, <1>2, BoundsAreKeys DEF Searched, TypeOK

LEMMA SearchStep == SearchInv /\ [Next]_vars => SearchInv'
<1> SUFFICES ASSUME SearchInv, [Next]_vars
             PROVE  SearchInv'
  OBVIOUS
<1>0. TypeOK /\ TypeOK'
  BY TypeStep DEF SearchInv
<1>1. ASSUME UNCHANGED <<Counted, file, temp>>
      PROVE  FileSearched(file)' /\ FileSearched(temp)'
  BY <1>1 DEF SearchInv, FileSearched, Searched
<1>2. ASSUME UNCHANGED <<Counted, zone, pos>>, Searched(zone, pos)
      PROVE  Searched(zone, pos)'
  BY <1>2 DEF Searched
<1>. USE DEF process, disk, history, bounds, Counted
<1>3. CASE Start
  <2>1. Searched(zone, pos)'
    <3>1. CASE Accepts(file)
      BY <1>3, <3>1 DEF Start, SearchInv, FileSearched, Searched
    <3>2. CASE ~Accepts(file)
      BY <1>3, <3>2, StartsSearched DEF Start, Searched
    <3>. QED  BY <3>1, <3>2
  <2>. QED  BY <1>0, <1>1, <1>3, <2>1 DEF Start, SearchInv
<1>4. CASE NextZone
  <2>1. Searched(zone + 1, From(zone + 1))
    BY <1>0, <1>4, ZoneEnds DEF NextZone, Looping, SearchInv
  <2>2. Searched(zone, pos)'
    BY <1>4, <2>1 DEF NextZone, Searched
  <2>. QED  BY <1>0, <1>1, <1>4, <2>2 DEF NextZone, SearchInv
<1>5. CASE AllZones
  <2>1. /\ \A i \in 1 .. NumZones : i <= zone => Keys(i) \subseteq Counted
        /\ Searched(NumZones + 1, pos)
    BY <1>0, <1>5, ZoneEnds DEF AllZones, Looping, SearchInv, TypeOK
  <2>2. \A i \in 1 .. NumZones : Keys(i) \subseteq Counted
    BY <1>0, <1>5, <2>1 DEF AllZones, TypeOK
  <2>3. Low .. High - 1 \subseteq Counted
    BY <2>2, ZonesCover
  <2>4. Searched(zone, pos)'
    BY <1>5, <2>1 DEF AllZones, Searched
  <2>. QED  BY <1>0, <1>1, <1>5, <2>3, <2>4 DEF AllZones, SearchInv
<1>6. CASE SearchBatch
  <2>0. PICK failed \in SUBSET Window :
          /\ key \notin Window \ failed
          /\ checked' = checked \cup (Window \ failed) /\ missed' = missed \cup failed
    BY <1>6 DEF SearchBatch
  <2>1. Counted' = Counted \cup Window /\ key' \notin checked'
    BY <1>6, <2>0 DEF SearchBatch, SearchInv
  <2>2. FileSearched(file)' /\ FileSearched(temp)'
    BY <1>6, <2>1 DEF SearchBatch, SearchInv, FileSearched, Searched
  <2>3. \A k \in pos .. pos + Batch - 1 : k \in Counted'
    BY <2>1 DEF Window
  <2>4. Searched(zone, pos)'
    <3>1. SUFFICES ASSUME NEW i \in 1 .. NumZones, NEW k \in Keys(i),
                          i < zone \/ (i = zone /\ k < pos + Batch)
                   PROVE  k \in Counted'
      BY <1>6 DEF SearchBatch, Searched, Advance
    <3>2. CASE i < zone \/ k < pos
      BY <1>6, <2>1, <3>1, <3>2 DEF SearchBatch, Looping, SearchInv, Searched
    <3>3. CASE i = zone /\ ~(k < pos)
      <4>1. k \in Int
        BY BoundsAreKeys DEF Keys
      <4>2. k \in pos .. pos + Batch - 1
        BY <1>0, <3>1, <3>3, <4>1, SearchAssumption DEF TypeOK
      <4>. QED  BY <2>3, <4>2
    <3>. QED  BY <3>1, <3>2, <3>3
  <2>. QED  BY <1>0, <1>6, <2>1, <2>2, <2>4 DEF SearchBatch, SearchInv
<1>7. CASE Found
  <2>1. Searched(zone, pos)'
    BY <1>2, <1>7 DEF Found, Looping, SearchInv
  <2>. QED  BY <1>0, <1>1, <1>7, <2>1 DEF Found, SearchInv
<1>8. CASE Clear
  <2>1. FileSearched(NoFile)'
    BY <1>8, StartsSearched DEF Clear, FileSearched, Searched
  <2>. QED  BY <1>0, <1>8, <2>1 DEF Clear, SearchInv, FileSearched
<1>9. CASE Interrupt \/ SaveAndQuit
  <2>1. Searched(zone, pos)'
    BY <1>2, <1>9 DEF Interrupt, SaveAndQuit, SearchInv
  <2>. QED  BY <1>0, <1>1, <1>9, <2>1 DEF Interrupt, SaveAndQuit, SearchInv
<1>10. CASE Finish \/ Kill
  BY <1>0, <1>1, <1>10 DEF Finish, Kill, SearchInv
<1>11. CASE Write
  <2>1. Searched(zone, pos)'
    BY <1>2, <1>11 DEF Write, SearchInv
  <2>2. \A f \in {Content} \cup Cuts(Content) : FileSearched(f)
    <3>1. Content.zone = zone /\ Content.pos = pos
      BY DEF Content
    <3>2. \A f \in {Content} \cup Cuts(Content) :
            f = Empty \/ (f.zone = zone /\ f.pos = pos)
      BY <3>1 DEF Cuts, Content
    <3>3. Searched(zone, pos)
      BY <1>11 DEF Write, SearchInv
    <3>. QED  BY <3>2, <3>3, StartsSearched DEF FileSearched
  <2>3. \A f : FileSearched(f) => FileSearched(f)'
    BY <1>11 DEF Write, FileSearched, Searched
  <2>4. FileSearched(temp)
    BY DEF SearchInv
  <2>5. \A f : f = temp' => (FileSearched(f)' => FileSearched(temp)')
    BY DEF FileSearched
  <2>6. temp' \in {Content} \cup Cuts(Content) \/ temp' = temp
    BY <1>11 DEF Write
  <2>7. FileSearched(temp)'
    BY <2>2, <2>3, <2>4, <2>5, <2>6
  <2>8. FileSearched(file)'
    BY <1>11 DEF Write, SearchInv, FileSearched, Searched
  <2>. QED  BY <1>0, <1>11, <2>1, <2>7, <2>8 DEF Write, SearchInv
<1>12. CASE Rename
  <2>1. Searched(zone, pos)'
    BY <1>2, <1>12 DEF Rename, SearchInv
  <2>2. FileSearched(file)'
    BY <1>12 DEF Rename, SearchInv, FileSearched, Searched
  <2>3. FileSearched(temp)'
    BY <1>12, StartsSearched DEF Rename, FileSearched, Searched
  <2>. QED  BY <1>0, <1>12, <2>1, <2>2, <2>3 DEF Rename, SearchInv
<1>13. CASE RenameFails
  <2>1. Searched(zone, pos)'
    BY <1>2, <1>13 DEF RenameFails, SearchInv
  <2>. QED  BY <1>0, <1>1, <1>13, <2>1 DEF RenameFails, SearchInv
<1>14. CASE Remove
  <2>1. Searched(zone, pos)'
    BY <1>2, <1>14 DEF Remove, SearchInv
  <2>2. FileSearched(file)'
    BY <1>14, StartsSearched DEF Remove, FileSearched, Searched
  <2>3. FileSearched(temp)'
    BY <1>14 DEF Remove, SearchInv, FileSearched, Searched
  <2>. QED  BY <1>0, <1>14, <2>1, <2>2, <2>3 DEF Remove, SearchInv
<1>15. CASE UNCHANGED vars
  BY <1>0, <1>1, <1>2, <1>15 DEF vars, SearchInv
<1>. QED  BY <1>3, <1>4, <1>5, <1>6, <1>7, <1>8, <1>9, <1>10, <1>11, <1>12, <1>13,
            <1>14, <1>15 DEF Next, Search, Save

(* puzzle_solver.cpp GPU loop over search_state.hpp: the position of the     *)
(* search and of every file it accepts stand for what was searched, and      *)
(* "all zones checked" for the whole range but its last key.                 *)
THEOREM SkipCorrect == Spec => []NothingSkipped
<1>1. SearchInv => NothingSkipped
  BY DEF SearchInv, NothingSkipped, FileSearched
<1>. QED  BY <1>1, SearchInit, SearchStep, PTL DEF Spec

-----------------------------------------------------------------------------
(***************************************************************************)
(* GpuSearch implements ZoneSearch, for any number of devices, range and   *)
(* batch size, so that what is proved above holds of a search on many GPUs *)
(* that start, fail and end in any order.                                  *)
(***************************************************************************)

-----------------------------------------------------------------------------
(* The shares of a batch.                                                    *)

LEMMA TimesMono ==
  ASSUME NEW q \in Nat, NEW a \in Nat, NEW b \in Nat, a <= b
  PROVE  q * a <= q * b
<1>1. PICK c \in Nat : b = a + c
  <2>1. b - a \in Nat /\ b = a + (b - a)
    OBVIOUS
  <2>. QED  BY <2>1
<1>2. q * (a + c) = q * a + q * c /\ q * c \in Nat /\ q * a \in Nat
  OBVIOUS
<1>. QED  BY <1>1, <1>2

(* A quotient times its divisor is at most what was divided, and every       *)
(* number below that lies in one of the steps of that quotient.              *)
LEMMA Steps ==
  ASSUME NEW q \in Nat \ {0}, NEW k \in Nat
  PROVE  q * (k \div q) <= k /\ k < q * (k \div q) + q /\ k \div q \in Nat
OBVIOUS

LEMMA StepsBelow ==
  ASSUME NEW n \in Nat \ {0}, NEW w \in Nat
  PROVE  w \div n \in Nat /\ (w \div n) * n <= w
OBVIOUS
LEMMA SharesFit ==
  ASSUME solvers \in Seq(Devices), solvers # <<>>
  PROVE  /\ Shares \in Nat \ {0} /\ PerGpu \in Nat
         /\ PerGpu * Shares <= Batch /\ Batch \in Nat
<1>1. Len(solvers) \in Nat \ {0}
  OBVIOUS
<1>2. Batch \in Nat
  BY SearchAssumption
<1>. QED  BY <1>1, <1>2, StepsBelow DEF Shares, PerGpu

(* Where share i begins, and the one after it: a share ends before the next  *)
(* begins, and the last ends with the batch.                                 *)
Offset(i) == IF i > Shares THEN Batch ELSE PerGpu * (i - 1)

LEMMA ShareBounds ==
  ASSUME solvers \in Seq(Devices), solvers # <<>>, pos \in Nat
  PROVE  /\ \A i \in 1 .. Shares :
              Share(i) = pos + Offset(i) .. pos + Offset(i + 1) - 1
         /\ \A i, j \in 1 .. Shares + 1 : i <= j => Offset(i) <= Offset(j)
         /\ \A i \in 1 .. Shares + 1 : Offset(i) \in Nat
         /\ Offset(1) = 0 /\ Offset(Shares + 1) = Batch
<1>. DEFINE q == PerGpu  n == Shares
<1>1. q \in Nat /\ n \in Nat \ {0} /\ q * n <= Batch /\ Batch \in Nat
  BY SharesFit
<1>. HIDE DEF q, n
<1>2. \A i \in 1 .. n + 1 : i - 1 \in Nat /\ q * (i - 1) \in Nat
  BY <1>1
<1>3. \A i \in 1 .. n : q * (i - 1) <= q * n
  BY <1>1, TimesMono
<1>4. Offset(1) = 0 /\ Offset(n + 1) = Batch
  <2>1. q * (1 - 1) = 0
    BY <1>1
  <2>. QED  BY <1>1, <2>1 DEF Offset, q, n
<1>5. \A i \in 1 .. n + 1 : Offset(i) \in Nat
  BY <1>1, <1>2 DEF Offset, q, n
<1>6. ASSUME NEW i \in 1 .. n + 1, NEW j \in 1 .. n + 1, i <= j
      PROVE  Offset(i) <= Offset(j)
  <2>1. CASE j > n
    <3>1. Offset(j) = Batch
      BY <2>1 DEF Offset, n
    <3>2. i > n \/ i \in 1 .. n
      BY <1>1
    <3>. QED  BY <1>1, <1>2, <1>3, <3>1, <3>2 DEF Offset, q, n
  <2>2. CASE ~(j > n)
    <3>1. i - 1 \in Nat /\ j - 1 \in Nat /\ i - 1 <= j - 1 /\ ~(i > n)
      BY <1>1, <1>6, <2>2
    <3>2. q * (i - 1) <= q * (j - 1)
      BY <1>1, <3>1, TimesMono
    <3>. QED  BY <2>2, <3>1, <3>2 DEF Offset, q, n
  <2>. QED  BY <2>1, <2>2
<1>7. ASSUME NEW i \in 1 .. n
      PROVE  Share(i) = pos + Offset(i) .. pos + Offset(i + 1) - 1
  <2>1. CASE i = n
    <3>1. Offset(i) = q * (i - 1) /\ Offset(i + 1) = Batch
      BY <1>1, <2>1 DEF Offset, q, n
    <3>2. Share(i) = pos + q * (i - 1) .. pos + q * (i - 1) + (Batch - q * (i - 1)) - 1
      BY <2>1 DEF Share, q, n
    <3>3. pos + q * (i - 1) + (Batch - q * (i - 1)) - 1 = pos + Batch - 1
      BY <1>1, <1>2
    <3>. QED  BY <3>1, <3>2, <3>3
  <2>2. CASE i # n
    <3>1. Offset(i) = q * (i - 1) /\ Offset(i + 1) = q * ((i + 1) - 1)
      BY <1>1, <2>2 DEF Offset, q, n
    <3>2. Share(i) = pos + q * (i - 1) .. pos + q * (i - 1) + q - 1
      BY <2>2 DEF Share, q, n
    <3>3. q * ((i + 1) - 1) = q * (i - 1) + q
      BY <1>1
    <3>4. pos + q * (i - 1) + q - 1 = pos + q * ((i + 1) - 1) - 1
      BY <1>1, <1>2, <3>3
    <3>. QED  BY <3>1, <3>2, <3>4
  <2>. QED  BY <2>1, <2>2
<1>. QED  BY <1>4, <1>5, <1>6, <1>7 DEF n

(* search_batch divides the batch: no key belongs to two shares, and the     *)
(* shares are together the keys of the batch.                                *)
THEOREM SharesDivide ==
  ASSUME solvers \in Seq(Devices), solvers # <<>>, pos \in Nat
  PROVE  /\ \A i, j \in 1 .. Shares : i # j => Share(i) \cap Share(j) = {}
         /\ UNION {Share(i) : i \in 1 .. Shares} = Window
<1>. DEFINE n == Shares
<1>1. /\ \A i \in 1 .. n : Share(i) = pos + Offset(i) .. pos + Offset(i + 1) - 1
      /\ \A i, j \in 1 .. n + 1 : i <= j => Offset(i) <= Offset(j)
      /\ \A i \in 1 .. n + 1 : Offset(i) \in Nat
      /\ Offset(1) = 0 /\ Offset(n + 1) = Batch
  BY ShareBounds
<1>2. n \in Nat \ {0} /\ Batch \in Nat
  BY SharesFit
<1>. HIDE DEF n
<1>3. ASSUME NEW i \in 1 .. n, NEW j \in 1 .. n, i < j
      PROVE  Share(i) \cap Share(j) = {}
  <2>1. i + 1 \in 1 .. n + 1 /\ j \in 1 .. n + 1 /\ i + 1 <= j /\ i \in 1 .. n + 1
        /\ j + 1 \in 1 .. n + 1
    BY <1>2, <1>3
  <2>2. Offset(i + 1) <= Offset(j) /\ Offset(i + 1) \in Nat /\ Offset(j) \in Nat
        /\ Offset(i) \in Nat /\ Offset(j + 1) \in Nat
    BY <1>1, <2>1
  <2>. QED  BY <1>1, <2>2
<1>4. \A i, j \in 1 .. n : i # j => Share(i) \cap Share(j) = {}
  <2>1. \A i, j \in 1 .. n : i # j => i < j \/ j < i
    BY <1>2
  <2>. QED  BY <1>3, <2>1
<1>5. ASSUME NEW i \in 1 .. n PROVE Share(i) \subseteq Window
  <2>1. i \in 1 .. n + 1 /\ i + 1 \in 1 .. n + 1 /\ n + 1 \in 1 .. n + 1 /\ i + 1 <= n + 1
    BY <1>2
  <2>2. Offset(i) \in Nat /\ Offset(i + 1) \in Nat /\ Offset(i + 1) <= Batch
    BY <1>1, <2>1
  <2>3. Share(i) = pos + Offset(i) .. pos + Offset(i + 1) - 1
    BY <1>1
  <2>4. ASSUME NEW a \in Nat, NEW b \in Nat, b <= Batch
        PROVE  pos + a .. pos + b - 1 \subseteq pos .. pos + Batch - 1
    BY <1>2, <2>4
  <2>. QED  BY <2>2, <2>3, <2>4 DEF Window
<1>6. ASSUME NEW k \in Window PROVE \E i \in 1 .. n : k \in Share(i)
  <2>1. k \in Int /\ pos <= k /\ k < pos + Batch /\ k - pos \in Nat
    BY <1>2 DEF Window
  <2>. DEFINE q == PerGpu  o == k - pos
  <2>2. q \in Nat /\ q * n <= Batch
    BY SharesFit DEF n
  <2>. HIDE DEF q
  <2>3. CASE o >= q * (n - 1)
    <3>1. Offset(n) = q * (n - 1) /\ Offset(n + 1) = Batch /\ n \in 1 .. n
      BY <1>1, <1>2 DEF Offset, q, n
    <3>2. q * (n - 1) \in Nat
      BY <1>2, <2>2
    <3>3. k \in pos + q * (n - 1) .. pos + Batch - 1
      BY <1>2, <2>1, <2>3, <3>2
    <3>. QED  BY <1>1, <3>1, <3>3
  <2>4. CASE ~(o >= q * (n - 1))
    <3>1. q \in Nat \ {0}
      <4>1. q = 0 => q * (n - 1) = 0
        BY <1>2
      <4>. QED  BY <2>1, <2>2, <2>4, <4>1
    <3>2. q * (o \div q) <= o /\ o < q * (o \div q) + q /\ o \div q \in Nat
      BY <2>1, <3>1, Steps
    <3>. DEFINE i == (o \div q) + 1
    <3>3. i < n
      <4>1. ASSUME n - 1 <= o \div q PROVE FALSE
        <5>1. q * (n - 1) <= q * (o \div q)
          BY <1>2, <2>2, <3>2, <4>1, TimesMono
        <5>2. q * (n - 1) \in Nat /\ q * (o \div q) \in Nat
          BY <1>2, <2>2, <3>2
        <5>. QED  BY <2>1, <2>4, <3>2, <5>1, <5>2
      <4>. QED  BY <1>2, <3>2, <4>1
    <3>4. i \in 1 .. n /\ ~(i > n) /\ ~(i + 1 > n)
      BY <1>2, <3>2, <3>3
    <3>5. Offset(i) = q * (o \div q) /\ Offset(i + 1) = q * ((o \div q) + 1)
      <4>1. i - 1 = o \div q /\ (i + 1) - 1 = (o \div q) + 1
        BY <3>2
      <4>. QED  BY <3>4, <4>1 DEF Offset, q, n
    <3>6. q * ((o \div q) + 1) = q * (o \div q) + q /\ q * (o \div q) \in Nat
      BY <2>2, <3>2
    <3>7. k \in pos + q * (o \div q) .. pos + q * ((o \div q) + 1) - 1
      BY <2>1, <2>2, <3>2, <3>6
    <3>8. Share(i) = pos + Offset(i) .. pos + Offset(i + 1) - 1
      BY <1>1, <3>4
    <3>. QED  BY <3>4, <3>5, <3>7, <3>8
  <2>. QED  BY <2>3, <2>4
<1>. QED  BY <1>4, <1>5, <1>6 DEF n
-----------------------------------------------------------------------------
(* The inductive invariant: a batch is in flight only where the loop would   *)
(* search one, and its keys are those gone through, those lost and those of  *)
(* the threads that still run, each in one of these places.                  *)

Running == UNION {Share(i) : i \in threads}

FlightInv ==
  /\ Looping /\ IsOpen
  /\ compared \cup lost \cup Running = Window
  /\ compared \cap lost = {} /\ (compared \cup lost) \cap Running = {}
  /\ hit <=> key \in compared

GpuInv ==
  /\ TypeOK /\ GpuTypeOK
  /\ pc # "off" => next = 0 /\ solvers # <<>>
  /\ threads # {} => batch
  /\ batch => FlightInv

LEMMA GpuInitInv == GpuInit => Init /\ GpuInv
<1> SUFFICES ASSUME GpuInit PROVE Init /\ GpuInv
  OBVIOUS
<1>1. Init /\ TypeOK /\ pc = "off"
  BY TypeInit DEF GpuInit, Init
<1>2. <<>> \in Seq(Devices) /\ threads = {}
  BY DEF GpuInit
<1>3. next \in 0 .. NumDevices + 1 /\ faults \in 0 .. MaxFaults
  BY DeviceAssumption DEF GpuInit
<1>4. table \in [Devices -> {"null", "built", "freed", "dead"}]
  BY DEF GpuInit
<1>5. solvers \in Seq(Devices) /\ threads \subseteq 1 .. Len(solvers)
  BY <1>2 DEF GpuInit
<1>6. GpuTypeOK
  BY <1>3, <1>4, <1>5 DEF GpuInit, GpuTypeOK
<1>. QED  BY <1>1, <1>6 DEF GpuInit, GpuInv

(* What is in flight stays what it is while pos, key, solvers and pc do.     *)
LEMMA SameFlight ==
  ASSUME UNCHANGED <<key, pc, zone, pos, quit, solvers, threads, hit, compared, lost>>
  PROVE  FlightInv' = FlightInv
<1>1. Shares' = Shares /\ PerGpu' = PerGpu
  BY DEF Shares, PerGpu
<1>2. \A i : Share(i)' = Share(i)
  BY <1>1 DEF Share
<1>3. Running' = Running /\ Window' = Window
  BY <1>2 DEF Running, Window
<1>4. Looping' = Looping /\ IsOpen' = IsOpen
  BY DEF Looping, IsOpen, Behind
<1>. QED  BY <1>3, <1>4 DEF FlightInv
-----------------------------------------------------------------------------
(* Every step of the GPUs is a step of the zone search or none.              *)

LEMMA JoinedBatch ==
  ASSUME GpuInv, Joined
  PROVE  /\ Looping /\ IsOpen
         /\ Window \ lost = compared /\ lost \in SUBSET Window
         /\ hit <=> key \in compared
<1>1. FlightInv /\ threads = {}
  BY DEF GpuInv, Joined
<1>2. Running = {}
  BY <1>1 DEF Running
<1>. QED  BY <1>1, <1>2 DEF FlightInv

LEMMA Implements == GpuInv /\ [GpuNext]_gpuVars => [Next]_vars
<1> SUFFICES ASSUME GpuInv, [GpuNext]_gpuVars
             PROVE  [Next]_vars
  OBVIOUS
<1>1. CASE InitDevices
  <2>1. CASE StartLoop
    BY <2>1 DEF StartLoop, Next
  <2>. QED  BY <1>1, <2>1 DEF InitDevices, InitStarts, DeviceReady, DeviceFails,
                              DeviceFull, NoDevice
<1>2. CASE Launch \/ (\E i \in threads : Compute(i) \/ Fail(i))
  BY <1>2 DEF Launch, Compute, Fail
<1>3. CASE BatchFound
  <2>1. Looping /\ IsOpen /\ key \in Window
    BY <1>3, JoinedBatch DEF BatchFound
  <2>2. Found
    BY <1>3, <2>1 DEF BatchFound, Found, bounds
  <2>. QED  BY <2>2 DEF Next, Search
<1>4. CASE BatchSearched
  <2>1. Looping /\ IsOpen /\ key \notin Window \ lost
    BY <1>4, JoinedBatch DEF BatchSearched
  <2>2. /\ lost \in SUBSET Window
        /\ checked' = checked \cup (Window \ lost) /\ missed' = missed \cup lost
    BY <1>4, JoinedBatch DEF BatchSearched
  <2>3. SearchBatch
    BY <1>4, <2>1, <2>2 DEF BatchSearched, SearchBatch
  <2>. QED  BY <2>3 DEF Next, Search
<1>5. CASE Between \/ InterruptLoop \/ KillAll
  BY <1>5 DEF Between, InterruptLoop, KillAll, Next, Search
<1>6. CASE UNCHANGED gpuVars
  BY <1>6 DEF gpuVars
<1>. QED  BY <1>1, <1>2, <1>3, <1>4, <1>5, <1>6 DEF GpuNext, Progress

-----------------------------------------------------------------------------
(* The invariant is one.                                                     *)

LEMMA LaunchStep == GpuInv /\ Launch => GpuInv'
<1> SUFFICES ASSUME GpuInv, Launch
             PROVE  GpuInv'
  OBVIOUS
<1>1. pc # "off" /\ solvers \in Seq(Devices) /\ solvers # <<>> /\ pos \in Nat
  BY DEF GpuInv, GpuTypeOK, TypeOK, Launch, Looping
<1>2. UNCHANGED <<vars, devices, faults>>
  BY DEF Launch
<1>3. TypeOK'
  BY <1>2, TypeStep DEF GpuInv
<1>4. GpuTypeOK'
  BY <1>2 DEF GpuInv, GpuTypeOK, Launch, devices, Shares
<1>5. Window' = Window /\ Shares' = Shares /\ PerGpu' = PerGpu
  BY <1>2 DEF Window, Shares, PerGpu, vars, process, devices
<1>6. \A i : Share(i)' = Share(i)
  BY <1>2, <1>5 DEF Share, vars, process, devices
<1>7. Running' = UNION {Share(i) : i \in 1 .. Shares}
  BY <1>6 DEF Running, Launch
<1>8. Running' = Window
  BY <1>1, <1>7, SharesDivide
<1>9. Looping' /\ IsOpen'
  BY <1>2 DEF Launch, Looping, IsOpen, Behind, vars, process
<1>10. /\ compared' \cup lost' \cup Running' = Window'
       /\ compared' \cap lost' = {} /\ (compared' \cup lost') \cap Running' = {}
  BY <1>5, <1>8 DEF Launch
<1>11. hit' <=> key' \in compared'
  <2>1. ~hit' /\ compared' = {}
    BY DEF Launch
  <2>. QED  BY <2>1
<1>12. FlightInv'
  BY <1>9, <1>10, <1>11 DEF FlightInv
<1>. QED  BY <1>1, <1>2, <1>3, <1>4, <1>12 DEF GpuInv, Launch, vars, process, devices

(* A thread that ends moves its share from those that run.                   *)
LEMMA ThreadStep ==
  ASSUME GpuInv, batch, NEW i \in threads, threads' = threads \ {i},
         UNCHANGED <<vars, next, solvers>>
  PROVE  /\ Running = Running' \cup Share(i) /\ Running' \cap Share(i) = {}
         /\ Looping' /\ IsOpen' /\ Window' = Window /\ FlightInv
         /\ Share(i) \subseteq Window
<1>1. solvers \in Seq(Devices) /\ solvers # <<>> /\ pos \in Nat /\ threads \subseteq 1 .. Shares
  BY DEF GpuInv, GpuTypeOK, TypeOK, FlightInv, Looping, Shares
<1>2. Shares' = Shares /\ PerGpu' = PerGpu /\ Window' = Window
  BY DEF Shares, PerGpu, Window, vars, process
<1>3. \A j : Share(j)' = Share(j)
  BY <1>2 DEF Share, vars, process
<1>4. Running' = UNION {Share(j) : j \in threads \ {i}}
  BY <1>3 DEF Running
<1>5. \A j \in threads \ {i} : Share(j) \cap Share(i) = {}
  BY <1>1, SharesDivide
<1>6. Looping' /\ IsOpen' /\ FlightInv
  BY DEF GpuInv, FlightInv, Looping, IsOpen, Behind, vars, process
<1>7. Share(i) \subseteq Window
  BY <1>1, SharesDivide
<1>. QED  BY <1>2, <1>4, <1>5, <1>6, <1>7 DEF Running

LEMMA ComputeStep ==
  ASSUME GpuInv, batch, NEW i \in threads, Compute(i)
  PROVE  GpuInv'
<1>1. /\ Running = Running' \cup Share(i) /\ Running' \cap Share(i) = {}
      /\ Looping' /\ IsOpen' /\ Window' = Window /\ FlightInv
      /\ Share(i) \subseteq Window
  BY ThreadStep DEF Compute, devices
<1>2. FlightInv'
  <2>1. compared' = compared \cup Share(i) /\ lost' = lost /\ key' = key
    BY DEF Compute, vars, process
  <2>2. /\ compared' \cup lost' \cup Running' = Window'
        /\ compared' \cap lost' = {} /\ (compared' \cup lost') \cap Running' = {}
    BY <1>1, <2>1 DEF FlightInv
  <2>3. hit' <=> key' \in compared'
    <3>1. hit' <=> hit \/ key \in Share(i)
      BY Zenon DEF Compute
    <3>2. hit <=> key \in compared
      BY <1>1 DEF FlightInv
    <3>. QED  BY <2>1, <3>1, <3>2, Zenon
  <2>. QED  BY <1>1, <2>2, <2>3 DEF FlightInv
<1>3. TypeOK'
  BY TypeStep DEF GpuInv, Compute
<1>4. Window \subseteq Nat
  BY SearchAssumption DEF Window, GpuInv, TypeOK
<1>5. GpuTypeOK'
  BY <1>1, <1>4 DEF GpuInv, GpuTypeOK, Compute, devices
<1>. QED  BY <1>2, <1>3, <1>5 DEF GpuInv, Compute, devices, vars, process

LEMMA FailStep ==
  ASSUME GpuInv, batch, NEW i \in threads, Fail(i)
  PROVE  GpuInv'
<1>1. /\ Running = Running' \cup Share(i) /\ Running' \cap Share(i) = {}
      /\ Looping' /\ IsOpen' /\ Window' = Window /\ FlightInv
      /\ Share(i) \subseteq Window
  BY ThreadStep DEF Fail
<1>2. FlightInv'
  <2>1. /\ compared' = compared /\ lost' = lost \cup Share(i)
        /\ key' = key /\ hit' = hit
    BY DEF Fail, vars, process
  <2>2. /\ compared' \cup lost' \cup Running' = Window'
        /\ compared' \cap lost' = {} /\ (compared' \cup lost') \cap Running' = {}
    BY <1>1, <2>1 DEF FlightInv
  <2>3. hit' <=> key' \in compared'
    BY <1>1, <2>1, Zenon DEF FlightInv
  <2>. QED  BY <1>1, <2>2, <2>3 DEF FlightInv
<1>3. TypeOK'
  BY TypeStep DEF GpuInv, Fail
<1>4. Window \subseteq Nat
  BY SearchAssumption DEF Window, GpuInv, TypeOK
<1>5. faults' \in 0 .. MaxFaults
  BY DeviceAssumption DEF GpuInv, GpuTypeOK, Fail, MayFail
<1>6. table' \in [Devices -> {"null", "built", "freed", "dead"}]
  BY DEF GpuInv, GpuTypeOK, Fail
<1>7. GpuTypeOK'
  BY <1>1, <1>4, <1>5, <1>6 DEF GpuInv, GpuTypeOK, Fail
<1>. QED  BY <1>2, <1>3, <1>7 DEF GpuInv, Fail, vars, process

(* init goes on while the process is off, and no batch is in flight.         *)
LEMMA InitStep == GpuInv /\ InitDevices => GpuInv'
<1> SUFFICES ASSUME GpuInv, InitDevices
             PROVE  GpuInv'
  OBVIOUS
<1>. USE DEF GpuInv, GpuTypeOK, Devices
<1>0. TypeOK' /\ UNCHANGED <<backend, flight>>
  <2>1. [Next]_vars
    BY Implements DEF GpuNext
  <2>2. TypeOK'
    BY <2>1, TypeStep
  <2>. QED  BY <2>2 DEF InitDevices, InitStarts, DeviceReady, DeviceFails,
                  DeviceFull, StartLoop, NoDevice
<1>1. pc = "off" /\ ~batch
  <2>1. pc = "off"
    BY DeviceAssumption DEF InitDevices, InitStarts, DeviceReady, DeviceFails,
         DeviceFull, StartLoop, NoDevice
  <2>. QED  BY <2>1 DEF FlightInv, Looping
<1>2. next' \in 0 .. NumDevices + 1
  <2>1. next \in Devices /\ OnToNext => next' \in 0 .. NumDevices + 1
    BY DeviceAssumption DEF OnToNext
  <2>. QED  BY <2>1, DeviceAssumption DEF InitDevices, InitStarts, DeviceReady,
                 DeviceFails, DeviceFull, StartLoop, NoDevice
<1>3. table' \in [Devices -> {"null", "built", "freed", "dead"}]
  BY DEF InitDevices, InitStarts, DeviceReady, DeviceFails, DeviceFull,
       StartLoop, NoDevice
<1>4. solvers' \in Seq(Devices)
  <2>1. CASE DeviceReady
    <3>1. ASSUME NEW S, NEW s \in Seq(S), NEW e \in S PROVE Append(s, e) \in Seq(S)
      OBVIOUS
    <3>2. solvers \in Seq(Devices) /\ next \in Devices /\ solvers' = Append(solvers, next)
      BY <2>1 DEF DeviceReady
    <3>. QED  BY ONLY <3>1, <3>2
  <2>2. CASE ~DeviceReady
    <3>1. solvers' = <<>> \/ solvers' = solvers
      BY <2>2 DEF InitDevices, InitStarts, DeviceFails, DeviceFull, StartLoop, NoDevice
    <3>2. <<>> \in Seq(Devices) /\ solvers \in Seq(Devices)
      OBVIOUS
    <3>. QED  BY ONLY <3>1, <3>2
  <2>. QED  BY <2>1, <2>2
<1>5. threads' = {}
  BY <1>0, <1>1 DEF flight
<1>6. faults' \in 0 .. MaxFaults
  BY DeviceAssumption DEF InitDevices, InitStarts, DeviceReady, DeviceFails, DeviceFull,
       StartLoop, NoDevice, MayFail
<1>7. pc' # "off" => next' = 0 /\ solvers' # <<>>
  <2>1. CASE StartLoop
    BY <2>1 DEF StartLoop
  <2>2. CASE ~StartLoop
    BY <1>1, <2>2 DEF InitDevices, InitStarts, DeviceReady, DeviceFails, DeviceFull,
         NoDevice, vars, process
  <2>. QED  BY <2>1, <2>2
<1>8. GpuTypeOK'
  BY <1>0, <1>2, <1>3, <1>4, <1>5, <1>6 DEF flight
<1>. QED  BY <1>0, <1>1, <1>5, <1>7, <1>8 DEF flight

(* The batch is over, or there was none: nothing is in flight after it.      *)
LEMMA LandedStep ==
  ASSUME GpuInv, TypeOK', UNCHANGED <<devices, faults>>,
         pc' # "off" => pc # "off",
         ~batch', threads' = {}, hit' \in BOOLEAN, batch' \in BOOLEAN,
         compared' \subseteq Nat, lost' \subseteq Nat
  PROVE  GpuInv'
BY DEF GpuInv, GpuTypeOK, devices

LEMMA GpuStep == GpuInv /\ [GpuNext]_gpuVars => GpuInv'
<1> SUFFICES ASSUME GpuInv, [GpuNext]_gpuVars
             PROVE  GpuInv'
  OBVIOUS
<1>0. TypeOK' /\ GpuTypeOK
  BY Implements, TypeStep DEF GpuInv
<1>1. CASE InitDevices
  BY <1>1, InitStep
<1>2. CASE Launch
  BY <1>2, LaunchStep
<1>3. CASE \E i \in threads : Compute(i) \/ Fail(i)
  <2>1. PICK i \in threads : Compute(i) \/ Fail(i)
    BY <1>3
  <2>2. batch
    BY <2>1 DEF GpuInv
  <2>. QED  BY <2>1, <2>2, ComputeStep, FailStep
<1>4. CASE BatchFound
  <2>1. UNCHANGED <<devices, faults>> /\ pc # "off" /\ threads' = {}
    BY <1>4, JoinedBatch DEF BatchFound, Return, Joined, Looping
  <2>2. ~batch' /\ batch' \in BOOLEAN /\ hit' \in BOOLEAN /\ compared' = {} /\ lost' = {}
    BY <1>4, Zenon DEF BatchFound, Return
  <2>. QED  BY <1>0, <2>1, <2>2, LandedStep
<1>5. CASE BatchSearched
  <2>1. UNCHANGED <<devices, faults>> /\ pc # "off" /\ threads' = {}
    BY <1>5, JoinedBatch DEF BatchSearched, Return, Joined, Looping
  <2>2. ~batch' /\ batch' \in BOOLEAN /\ hit' \in BOOLEAN /\ compared' = {} /\ lost' = {}
    BY <1>5, Zenon DEF BatchSearched, Return
  <2>. QED  BY <1>0, <2>1, <2>2, LandedStep
<1>6. CASE Between \/ InterruptLoop
  <2>1. UNCHANGED <<devices, flight, faults>> /\ ~batch
    BY <1>6 DEF Between, InterruptLoop
  <2>2. pc # "off"
    BY <1>6 DEF Between, InterruptLoop, NextZone, AllZones, Clear, Finish, Save,
         SaveAndQuit, Write, Rename, RenameFails, Remove, Interrupt, Looping
  <2>3. threads = {}
    BY <2>1 DEF GpuInv
  <2>. QED  BY <1>0, <2>1, <2>2, <2>3, LandedStep DEF flight, GpuTypeOK
<1>7. CASE KillAll
  <2>1. UNCHANGED <<devices, faults>> /\ pc # "off" /\ threads' = {}
    BY <1>7 DEF KillAll, Kill
  <2>2. ~batch' /\ batch' \in BOOLEAN /\ hit' \in BOOLEAN /\ compared' = {} /\ lost' = {}
    BY <1>7, Zenon DEF KillAll
  <2>. QED  BY <1>0, <2>1, <2>2, LandedStep
<1>8. CASE UNCHANGED gpuVars
  <2>1. UNCHANGED <<vars, devices, flight, faults>>
    BY <1>8 DEF gpuVars
  <2>2. FlightInv' = FlightInv
    BY <2>1, SameFlight DEF vars, process, devices, flight
  <2>3. GpuTypeOK'
    BY <1>0, <2>1 DEF GpuTypeOK, devices, flight
  <2>. QED  BY <1>0, <2>1, <2>2, <2>3 DEF GpuInv, vars, process, devices, flight
<1>. QED  BY <1>1, <1>2, <1>3, <1>4, <1>5, <1>6, <1>7, <1>8 DEF GpuNext, Progress

-----------------------------------------------------------------------------
(* The variables of the GPUs keep their types.                               *)
THEOREM GpuTypeCorrect == GpuSpec => []GpuTypeOK
<1>1. GpuInv => GpuTypeOK
  BY DEF GpuInv
<1>. QED  BY <1>1, GpuInitInv, GpuStep, PTL DEF GpuSpec

(* MultiGPUPuzzleSolver::search_batch is one search of the batch: whichever  *)
(* devices could be initialised, fail, or end first, what the loop does is   *)
(* what ZoneSearch does.                                                     *)
THEOREM GpuRefines == GpuSpec => ZoneSpec
<1>. QED  BY GpuInitInv, GpuStep, Implements, PTL DEF GpuSpec, ZoneSpec, Spec

(* A search on many GPUs skips no key: behind where it is, every key of a    *)
(* zone was compared or lost on a GPU that failed.                           *)
THEOREM GpuSkipsNothing == GpuSpec => []NothingSkipped
<1>. QED  BY GpuRefines, SkipCorrect, PTL DEF ZoneSpec
=============================================================================
