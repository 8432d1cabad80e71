---------------------------- MODULE GpuHerdProofs ----------------------------
(***************************************************************************)
(* Proofs about GpuHerd, for any curve, number of GPUs, jumps, steps of a  *)
(* launch and distinguished points: position and distance of a kangaroo    *)
(* stay together, and two that meet on one point give the key.             *)
(***************************************************************************)
EXTENDS GpuHerd, WellFoundedInduction, TLAPS

-----------------------------------------------------------------------------
(* Remainders.  A product with an unknown modulus is kept out of the solver's *)
(* arithmetic by its name.                                                    *)
Times(n, q) == n * q

LEMMA TimesPlus ==
  ASSUME NEW n \in Nat, NEW p \in Int, NEW q \in Int
  PROVE  Times(n, p) \in Int /\ Times(n, p) + Times(n, q) = Times(n, p + q)
         /\ -Times(n, p) = Times(n, -p)
BY DEF Times

LEMMA Divided ==
  ASSUME NEW n \in Nat, n > 0, NEW a \in Int
  PROVE  \E q \in Int : \E r \in 0 .. n - 1 : a = Times(n, q) + r /\ a % n = r
<1>1. a \div n \in Int /\ n * (a \div n) \in Int /\ a % n \in 0 .. n - 1
  OBVIOUS
<1>2. a - n * (a \div n) = a % n
  BY SMTT(30)
<1>3. PICK q \in Int, r \in 0 .. n - 1 : q = a \div n /\ r = a % n
  BY <1>1
<1>4. a - n * q = r /\ n * q \in Int
  BY <1>1, <1>2, <1>3, Zenon
<1>5. ASSUME NEW m \in Int, a - m = r PROVE a = m + r
  BY <1>5
<1>6. a = n * q + r
  BY <1>4, <1>5, Zenon
<1>. QED  BY <1>3, <1>6, Zenon DEF Times

LEMMA Remainder ==
  ASSUME NEW n \in Nat, n > 0, NEW q \in Int, NEW r \in 0 .. n - 1
  PROVE  (Times(n, q) + r) % n = r
BY DEF Times

LEMMA ModDrop ==
  ASSUME NEW n \in Nat, n > 0, NEW q \in Int, NEW c \in Int
  PROVE  (Times(n, q) + c) % n = c % n
<1>1. PICK p \in Int, r \in 0 .. n - 1 : c = Times(n, p) + r /\ c % n = r
  BY Divided
<1>2. /\ Times(n, q) \in Int /\ Times(n, p) \in Int /\ q + p \in Int
      /\ Times(n, q) + Times(n, p) = Times(n, q + p)
  <2>1. q + p \in Int
    OBVIOUS
  <2>. QED  BY <2>1, TimesPlus, Zenon
<1>3. ASSUME NEW t \in Int, NEW u \in Int, c = u + r
      PROVE  t + c = (t + u) + r
  BY <1>3
<1>4. Times(n, q) + c = Times(n, q + p) + r
  BY <1>1, <1>2, <1>3, Zenon
<1>5. (Times(n, q + p) + r) % n = r
  BY <1>2, Remainder
<1>. QED  BY <1>1, <1>4, <1>5, Zenon

LEMMA ModPlus ==
  ASSUME NEW n \in Nat, n > 0, NEW a \in Int, NEW b \in Int
  PROVE  /\ a % n \in 0 .. n - 1
         /\ ((a % n) + b) % n = (a + b) % n
         /\ (b - (a % n)) % n = (b - a) % n
<1>1. PICK q \in Int, r \in 0 .. n - 1 : a = Times(n, q) + r /\ a % n = r
  BY Divided
<1>2. Times(n, q) \in Int /\ -Times(n, q) = Times(n, -q) /\ Times(n, -q) \in Int /\ -q \in Int
  BY TimesPlus
<1>3. ASSUME NEW t \in Int, NEW u \in Int, u = -t, a = t + r
      PROVE  r + b = u + (a + b) /\ b - r = t + (b - a)
  BY <1>3
<1>4. r + b = Times(n, -q) + (a + b) /\ b - r = Times(n, q) + (b - a)
  BY <1>1, <1>2, <1>3, Zenon
<1>5. a + b \in Int /\ b - a \in Int
  OBVIOUS
<1>6. (Times(n, -q) + (a + b)) % n = (a + b) % n /\ (Times(n, q) + (b - a)) % n = (b - a) % n
  BY <1>2, <1>5, ModDrop
<1>. QED  BY <1>1, <1>4, <1>6

-----------------------------------------------------------------------------
(* Induction over 0 .. n, as a fact about sets.                              *)
LEMMA LeastIndex ==
  ASSUME NEW S \in SUBSET Nat, S # {}
  PROVE  \E i \in S : \A j \in S : i <= j
<1>. DEFINE Less == {ss \in Nat \X Nat : ss[1] < ss[2]}
<1>1. IsWellFoundedOn(Less, Nat)
  BY NatLessThanWellFounded DEF OpToRel
<1>2. PICK i \in S : \A j \in S : <<j, i>> \notin Less
  <2>. HIDE DEF Less
  <2>. QED  BY <1>1, WFMin
<1>3. \A j \in S : ~(j < i)
  BY <1>2
<1>. QED  BY <1>3

LEMMA Inductive ==
  ASSUME NEW n \in Nat, NEW D, 0 \in D, \A i \in 0 .. n - 1 : i \in D => i + 1 \in D
  PROVE  0 .. n \subseteq D
<1>. DEFINE S == 0 .. n \ D
<1>1. SUFFICES ASSUME S # {} PROVE FALSE
  OBVIOUS
<1>2. S \in SUBSET Nat
  OBVIOUS
<1>3. PICK m \in S : \A j \in S : m <= j
  <2>. HIDE DEF S
  <2>. QED  BY <1>1, <1>2, LeastIndex
<1>4. m \in 0 .. n /\ m \notin D /\ m - 1 \notin S
  BY <1>3
<1>. QED  BY <1>4

(* A recursion over 0 .. n has a value.                                      *)
Recurses(f, n, S, a, F) ==
  f \in [0 .. n -> S] /\ f[0] = a /\ \A i \in 1 .. n : f[i] = F[f[i-1]]

LEMMA Recursion ==
  ASSUME NEW n \in Nat, NEW S, NEW a \in S, NEW F \in [S -> S]
  PROVE  \E f : Recurses(f, n, S, a, F)
<1>. DEFINE Ok(m, f) == f[0] = a /\ \A i \in 1 .. m : f[i] = F[f[i-1]]
            D == {m \in 0 .. n : \E f \in [0 .. m -> S] : Ok(m, f)}
<1>1. 0 \in D
  <2>1. [i \in 0 .. 0 |-> a] \in [0 .. 0 -> S] /\ Ok(0, [i \in 0 .. 0 |-> a])
    OBVIOUS
  <2>2. 0 \in 0 .. n
    OBVIOUS
  <2>. HIDE DEF Ok
  <2>. QED  BY <2>1, <2>2
<1>2. ASSUME NEW m \in 0 .. n - 1, m \in D PROVE m + 1 \in D
  <2>1. PICK f \in [0 .. m -> S] : Ok(m, f)
    BY <1>2
  <2>. DEFINE g == [i \in 0 .. m + 1 |-> IF i = m + 1 THEN F[f[m]] ELSE f[i]]
  <2>2. F[f[m]] \in S
    OBVIOUS
  <2>3. g \in [0 .. m + 1 -> S]
    BY <2>2
  <2>4. \A i \in 0 .. m : g[i] = f[i]
    OBVIOUS
  <2>5. g[m + 1] = F[f[m]]
    OBVIOUS
  <2>. HIDE DEF g
  <2>6. Ok(m + 1, g)
    BY <2>1, <2>4, <2>5
  <2>. QED  BY <2>3, <2>6
<1>3. n \in D
  <2>. HIDE DEF D
  <2>. QED  BY <1>1, <1>2, Inductive
<1>. QED  BY <1>3 DEF Recurses
-----------------------------------------------------------------------------
(* Herds.                                                                    *)

Pts   == [x : Field, y : Field]
Herds == [Members -> Kangaroos]

LEMMA TabulatedIs ==
  ASSUME NEW S, NEW h \in [Members -> S]
  PROVE  Tabulated(h) = h
BY DEF Tabulated, Members

LEMMA FieldIs == FieldSize \in Nat /\ FieldSize > 0 /\ Order \in Nat /\ Order > 3
BY CurveAssumption

\* Field operations stay in the field.
LEMMA InField ==
  ASSUME NEW a \in Int, NEW b \in Int
  PROVE  a (-) b \in Field /\ a (.) b \in Field
<1>1. a - b \in Int /\ a * b \in Int
  OBVIOUS
<1>2. ASSUME NEW c \in Int PROVE c % FieldSize \in 0 .. FieldSize - 1
  BY FieldIs
<1>. QED  BY <1>1, <1>2 DEF Field, (-), (.)

LEMMA MinusTwice ==
  ASSUME NEW a \in Int, NEW u \in Int, NEW v \in Int
  PROVE  (a (-) u) (-) v = a (-) (u + v)
<1>1. a - u \in Int /\ -v \in Int /\ (a - u) + (-v) = a - (u + v)
  OBVIOUS
<1>2. ((a - u) % FieldSize) + (-v) = ((a - u) % FieldSize) - v
  <2>1. (a - u) % FieldSize \in Int
    BY <1>1, FieldIs, ModPlus
  <2>2. ASSUME NEW w \in Int PROVE w + (-v) = w - v
    OBVIOUS
  <2>. QED  BY <2>1, <2>2, Zenon
<1>3. (((a - u) % FieldSize) + (-v)) % FieldSize = ((a - u) + (-v)) % FieldSize
  BY <1>1, FieldIs, ModPlus, Zenon
<1>. QED  BY <1>1, <1>2, <1>3, Zenon DEF (-)

LEMMA InvInField == \A a \in Field : Inv[a] \in Field
<1>1. 0 \in Field
  BY FieldIs DEF Field
<1>. QED  BY <1>1, FieldLaw DEF Inv

\* The addition of the kernel is the group's, for points with different x.
LEMMA AddIsPlus ==
  ASSUME NEW p \in Pts, NEW q \in Pts, p # O, q # O, p.x # q.x
  PROVE  ec_add_affine_with_inv(p, q, Inv[q.x (-) p.x]) = Plus(p, q)
<1>1. /\ p.x \in Int /\ p.y \in Int /\ q.x \in Int /\ q.y \in Int
  BY FieldIs DEF Pts, Field
<1>2. Neg(p).x = p.x
  BY DEF Neg, Affine
<1>3. q # Neg(p) /\ p # q
  BY <1>2
<1>. DEFINE s == (q.y - p.y) (.) Inv[q.x (-) p.x]
<1>4. Sqr(s) \in Int
  <2>1. Field \subseteq Int
    BY DEF Field
  <2>2. q.y - p.y \in Int
    BY <1>1
  <2>3. q.x (-) p.x \in Field
    BY <1>1, InField
  <2>4. Inv[q.x (-) p.x] \in Int
    BY <2>1, <2>3, InvInField
  <2>5. s \in Int
    BY <2>1, <2>2, <2>4, InField
  <2>. HIDE DEF s
  <2>. QED  BY <2>1, <2>5, InField DEF Sqr
<1>5. (Sqr(s) (-) p.x) (-) q.x = Sqr(s) (-) (p.x + q.x)
  BY <1>1, <1>4, MinusTwice
<1>. QED  BY <1>3, <1>5 DEF ec_add_affine_with_inv, Plus

-----------------------------------------------------------------------------
(* One jump.                                                                 *)

\* Modulo n, n more is no more.
LEMMA OneRound ==
  ASSUME NEW n \in Nat, n > 0, NEW c \in Int
  PROVE  (n + c) % n = c % n
<1>1. Times(n, 1) = n /\ 1 \in Int
  BY DEF Times
<1>2. (Times(n, 1) + c) % n = c % n
  BY <1>1, ModDrop
<1>. QED  BY <1>1, <1>2, Zenon

LEMMA Small ==
  ASSUME NEW n \in Nat, NEW c \in Int, -n <= c, c < n
  PROVE  c % n = IF c >= 0 THEN c ELSE n + c
OBVIOUS

\* A signed distance that stays below half of DistMod does not wrap.
LEMMA SignedMoves ==
  ASSUME NEW d \in 0 .. DistMod - 1, NEW e \in Int,
         -DistMod < 2 * (Signed(d) + e), 2 * (Signed(d) + e) < DistMod
  PROVE  (d + e) % DistMod \in 0 .. DistMod - 1 /\ Signed((d + e) % DistMod) = Signed(d) + e
<1>1. DistMod \in Nat /\ DistMod > 0
  BY HerdAssumption, FieldIs
<1>2. Signed(d) \in Int
  BY <1>1 DEF Signed
<1>3. PICK s \in Int : s = Signed(d) + e
  BY <1>2
<1>4. (d + e) % DistMod = s % DistMod
  <2>1. CASE Signed(d) = d
    BY <1>3, <2>1
  <2>2. CASE Signed(d) = d - DistMod
    <3>1. d + e = DistMod + s
      BY <1>1, <1>3, <2>2
    <3>. QED  BY <1>1, <3>1, OneRound
  <2>. QED  BY <2>1, <2>2 DEF Signed
<1>5. -DistMod < 2 * s /\ 2 * s < DistMod
  BY <1>3
<1>6. s % DistMod = IF s >= 0 THEN s ELSE DistMod + s
  <2>1. -DistMod <= s /\ s < DistMod
    BY <1>1, <1>5
  <2>. QED  BY <1>1, <2>1, Small, Zenon
<1>7. PICK r \in Int : r = s % DistMod
  BY <1>1, <1>6
<1>8. r \in 0 .. DistMod - 1 /\ (IF 2 * r >= DistMod THEN r - DistMod ELSE r) = s
  BY <1>1, <1>5, <1>6, <1>7
<1>. QED  BY <1>3, <1>4, <1>7, <1>8 DEF Signed

BaseOf(t, type) ==
  CASE type = "tame" -> 0 [] type = "wild1" -> t [] type = "wild2" -> -t
On(t, k) == k.p = Multiple[(BaseOf(t, k.type) + Signed(k.dist)) % Order]

\* k is where its type and distance say, not at infinity, and at most b away
\* from its start.
Good(t, k, b) ==
  /\ On(t, k) /\ k.p # O
  /\ -b <= Signed(k.dist) /\ Signed(k.dist) <= b
AllGood(t, h, b) == \A i \in Members : Good(t, h[i], b)

JumpsWithin(J) == \A i \in 0 .. NumJumps - 1 : JumpDistance[i] <= J

LEMMA JumpIs ==
  ASSUME NEW p \in Pts
  PROVE  LET j == JumpDistance[JumpOf(p)]
             m == IF Backward(p) THEN Order - j ELSE j
         IN  j \in 1 .. Order - 1 /\ m \in 1 .. Order - 1 /\ Addend(p) = Multiple[m]
<1>. DEFINE j == JumpDistance[JumpOf(p)]
<1>1. JumpOf(p) \in 0 .. NumJumps - 1
  <2>1. p.x \in Int /\ NumJumps \in Nat /\ NumJumps > 0
    BY HerdAssumption, FieldIs DEF Pts, Field
  <2>. QED  BY <2>1, ModPlus DEF JumpOf
<1>2. j \in 1 .. Order - 1 /\ j \in Scalar \ {0} /\ Order - j \in 1 .. Order - 1
  <2>1. JumpDistance \in [0 .. NumJumps - 1 -> 1 .. Order - 1]
    BY HerdAssumption
  <2>2. j \in 1 .. Order - 1
    BY <1>1, <2>1
  <2>. HIDE DEF j
  <2>. QED  BY <2>2, FieldIs DEF Scalar
<1>3. JumpPoint[JumpOf(p)] = Multiple[j]
  BY <1>1 DEF JumpPoint
<1>. HIDE DEF j
<1>4. Affine(Multiple[j].x, FieldSize (-) Multiple[j].y) = Multiple[Order - j]
  <2>1. Multiple[j].y \in Field \ {0} /\ Neg(Multiple[j]) = Multiple[Order - j]
    BY <1>2, GroupLaw
  <2>2. Multiple[j] # O
    BY <2>1 DEF O, Affine
  <2>3. ASSUME NEW y \in Field PROVE (FieldSize - y) % FieldSize = (0 - y) % FieldSize
    <3>1. 0 - y \in Int /\ FieldSize + (0 - y) = FieldSize - y
      BY FieldIs DEF Field
    <3>. QED  BY <3>1, FieldIs, OneRound
  <2>. QED  BY <2>1, <2>2, <2>3 DEF Neg, (-)
<1>5. CASE Backward(p)
  BY <1>2, <1>3, <1>4, <1>5 DEF Addend, j
<1>6. CASE ~Backward(p)
  BY <1>2, <1>3, <1>6 DEF Addend, j
<1>. QED  BY <1>2, <1>5, <1>6 DEF j

LEMMA JumpKeeps ==
  ASSUME NEW t \in Int, NEW k \in Kangaroos, NEW b \in Nat, NEW J \in Nat,
         JumpsWithin(J), 2 * (b + J) < Order, Good(t, k, b), Addend(k.p).x # k.p.x
  PROVE  LET q == ec_add_affine_with_inv(k.p, Addend(k.p), Inv[Addend(k.p).x (-) k.p.x])
             d == Moved(k.dist, k.p)
         IN  /\ q \in Pts /\ d \in 0 .. DistMod - 1
             /\ Good(t, [k EXCEPT !.p = q, !.dist = d], b + J)
<1>. DEFINE j == JumpDistance[JumpOf(k.p)]
            m == IF Backward(k.p) THEN Order - j ELSE j
            e == IF Backward(k.p) THEN -j ELSE j
            s == Signed(k.dist)
            c == BaseOf(t, k.type)
            a == (c + s) % Order
            q == ec_add_affine_with_inv(k.p, Addend(k.p), Inv[Addend(k.p).x (-) k.p.x])
            d == Moved(k.dist, k.p)
<1>1. /\ k.p \in Pts /\ k.dist \in 0 .. DistMod - 1 /\ k.type \in Types
      /\ Order \in Nat /\ Order > 3 /\ DistMod \in Nat /\ Order < DistMod
  BY HerdAssumption, FieldIs DEF Kangaroos, Pts
<1>2. j \in 1 .. Order - 1 /\ m \in 1 .. Order - 1 /\ Addend(k.p) = Multiple[m] /\ j <= J
  <2>1. JumpOf(k.p) \in 0 .. NumJumps - 1
    <3>1. k.p.x \in Int
      BY <1>1, FieldIs DEF Pts, Field
    <3>2. NumJumps \in Nat /\ NumJumps > 0
      BY HerdAssumption
    <3>. QED  BY <3>1, <3>2, ModPlus DEF JumpOf
  <2>. QED  BY <1>1, <2>1, JumpIs DEF JumpsWithin
<1>3. s \in Int /\ c \in Int /\ -b <= s /\ s <= b
  BY <1>1 DEF Signed, BaseOf, Types, Good
<1>4. a \in 0 .. Order - 1 /\ k.p = Multiple[a] /\ a # 0
  <2>1. c + s \in Int
    BY <1>3
  <2>2. a \in 0 .. Order - 1
    <3>. HIDE DEF c, s
    <3>. QED  BY <1>1, <2>1, ModPlus
  <2>3. k.p = Multiple[a] /\ k.p # O
    BY DEF Good, On
  <2>. HIDE DEF a
  <2>. QED  BY <2>2, <2>3, GroupLaw
<1>5. e \in Int /\ (m = e \/ m = Order + e) /\ -J <= e /\ e <= J
  <2>. HIDE DEF j
  <2>. QED  BY <1>1, <1>2
<1>6. d = (k.dist + e) % DistMod
  <2>1. CASE Backward(k.p)
    <3>1. k.dist - j = k.dist + (-j)
      <4>. HIDE DEF j
      <4>. QED  BY <1>1, <1>2
    <3>. QED  BY <2>1, <3>1 DEF Moved
  <2>2. CASE ~Backward(k.p)
    BY <2>2 DEF Moved
  <2>. QED  BY <2>1, <2>2
<1>. HIDE DEF j, m, e, c, s, a, d, q
<1>7. d \in 0 .. DistMod - 1 /\ Signed(d) = s + e
  <2>1. -DistMod < 2 * (s + e) /\ 2 * (s + e) < DistMod
    BY <1>1, <1>3, <1>5
  <2>. QED  BY <1>1, <1>5, <1>6, <2>1, SignedMoves DEF s
<1>8. q = Plus(k.p, Addend(k.p))
  <2>1. Addend(k.p) \in Pts /\ Addend(k.p) # O
    <3>1. m \in Scalar \ {0}
      BY <1>1, <1>2 DEF Scalar
    <3>2. Multiple[m] \in [x : Field, y : Field \ {0}]
      BY <3>1, GroupLaw
    <3>. QED  BY <1>2, <3>2 DEF Pts, O, Affine
  <2>. QED  BY <1>1, <2>1, AddIsPlus DEF q, Good
<1>9. q = Multiple[(a + m) % Order]
  <2>1. a \in Scalar /\ m \in Scalar
    BY <1>1, <1>2, <1>4 DEF Scalar
  <2>. QED  BY <1>2, <1>4, <1>8, <2>1, GroupLaw
<1>10. (a + m) % Order = (c + (s + e)) % Order
  <2>1. c + s \in Int /\ m \in Int /\ c + (s + e) \in Int
    BY <1>2, <1>3, <1>5
  <2>2. (a + m) % Order = ((c + s) + m) % Order
    <3>1. Order > 0
      BY <1>1
    <3>. QED  BY <1>1, <2>1, <3>1, ModPlus, Zenon DEF a
  <2>3. (c + s) + m = c + (s + e) \/ (c + s) + m = Order + (c + (s + e))
    BY <1>1, <1>3, <1>5, <2>1
  <2>4. (Order + (c + (s + e))) % Order = (c + (s + e)) % Order
    <3>1. Order > 0
      BY <1>1
    <3>. QED  BY <1>1, <2>1, <3>1, OneRound, Zenon
  <2>. QED  BY <2>2, <2>3, <2>4, Zenon
<1>11. (a + m) % Order \in 1 .. Order - 1
  <2>1. (a + m) % Order \in 0 .. Order - 1
    BY <1>1, <1>2, <1>4, ModPlus
  <2>2. ASSUME (a + m) % Order = 0 PROVE FALSE
    <3>1. a + m = Order
      <4>1. a + m \in 2 .. 2 * Order - 2
        BY <1>1, <1>2, <1>4
      <4>2. ASSUME NEW n \in Nat, NEW v \in 1 .. 2 * n - 1, v % n = 0 PROVE v = n
        BY <4>2
      <4>. QED  BY <1>1, <2>2, <4>1, <4>2
    <3>2. m = Order - a /\ a \in Scalar \ {0}
      BY <1>1, <1>2, <1>4, <3>1 DEF Scalar
    <3>3. Addend(k.p) = Neg(k.p)
      BY <1>2, <1>4, <3>2, GroupLaw
    <3>4. Neg(k.p).x = k.p.x
      BY DEF Neg, Affine
    <3>. QED  BY <3>3, <3>4
  <2>. QED  BY <2>1, <2>2
<1>12. q \in Pts /\ q # O
  <2>1. (a + m) % Order \in Scalar \ {0}
    BY <1>1, <1>11 DEF Scalar
  <2>2. q \in [x : Field, y : Field \ {0}]
    BY <1>9, <2>1, GroupLaw
  <2>. QED  BY <2>2 DEF Pts, O, Affine
<1>13. Good(t, [k EXCEPT !.p = q, !.dist = d], b + J)
  <2>1. k \in [type : Types, p : [x : Field, y : Field], dist : 0 .. DistMod - 1, flag : BOOLEAN]
    BY DEF Kangaroos
  <2>2. PICK n : n = [k EXCEPT !.p = q, !.dist = d]
    OBVIOUS
  <2>3. n.p = q /\ n.dist = d /\ n.type = k.type
    BY <2>1, <2>2
  <2>4. -(b + J) <= s + e /\ s + e <= b + J
    BY <1>3, <1>5
  <2>5. q = Multiple[(c + (s + e)) % Order]
    BY <1>9, <1>10
  <2>. QED  BY <1>7, <1>12, <2>2, <2>3, <2>4, <2>5 DEF Good, On, c
<1>. QED  BY <1>7, <1>12, <1>13 DEF q, d

-----------------------------------------------------------------------------
(* A launch.                                                                 *)

LEMMA AddInPts ==
  ASSUME NEW p \in Pts, NEW q \in Pts, NEW i \in Int
  PROVE  ec_add_affine_with_inv(p, q, i) \in Pts
<1>1. /\ p.x \in Int /\ p.y \in Int /\ q.x \in Int /\ q.y \in Int
      /\ Field \subseteq Int
  BY FieldIs DEF Pts, Field
<1>. DEFINE s == (q.y - p.y) (.) i
            x == (Sqr(s) (-) p.x) (-) q.x
            y == (s (.) (p.x - x)) (-) p.y
<1>2. s \in Int
  <2>1. q.y - p.y \in Int
    BY <1>1
  <2>. QED  BY <1>1, <2>1, InField
<1>. HIDE DEF s
<1>3. Sqr(s) \in Int
  BY <1>1, <1>2, InField DEF Sqr
<1>4. x \in Field /\ x \in Int
  BY <1>1, <1>3, InField
<1>. HIDE DEF x
<1>5. y \in Field
  <2>1. p.x - x \in Int
    BY <1>1, <1>4
  <2>2. s (.) (p.x - x) \in Int
    BY <1>1, <1>2, <2>1, InField
  <2>. QED  BY <1>1, <2>2, InField
<1>6. Affine(x, y) \in Pts
  <2>. HIDE DEF y
  <2>. QED  BY <1>4, <1>5 DEF Affine, Pts
<1>. QED  BY <1>6 DEF ec_add_affine_with_inv, s, x, y

LEMMA AddendInPts ==
  ASSUME NEW p \in Pts
  PROVE  Addend(p) \in Pts /\ JumpDistance[JumpOf(p)] \in 1 .. Order - 1
<1>. DEFINE j == JumpDistance[JumpOf(p)]
            m == IF Backward(p) THEN Order - j ELSE j
<1>1. j \in 1 .. Order - 1 /\ m \in 1 .. Order - 1 /\ Addend(p) = Multiple[m]
  BY JumpIs
<1>. HIDE DEF m
<1>2. m \in Scalar \ {0}
  BY <1>1, FieldIs DEF Scalar
<1>3. Multiple[m] \in [x : Field, y : Field \ {0}]
  BY <1>2, GroupLaw
<1>. QED  BY <1>1, <1>3 DEF Pts

Runs == [reg : Herds, mem : Herds]

LEMMA StepTypes ==
  ASSUME NEW h \in Herds
  PROVE  /\ Step(h) \in Herds
         /\ \A i \in Members :
              Step(h)[i] = [h[i] EXCEPT
                !.p = ec_add_affine_with_inv(h[i].p, Addend(h[i].p), SharedInverse(h, i)),
                !.dist = Moved(h[i].dist, h[i].p)]
<1>. DEFINE q(i) == ec_add_affine_with_inv(h[i].p, Addend(h[i].p), SharedInverse(h, i))
            d(i) == Moved(h[i].dist, h[i].p)
            n(i) == [h[i] EXCEPT !.p = q(i), !.dist = d(i)]
<1>1. ASSUME NEW i \in Members PROVE n(i) \in Kangaroos
  <2>1. /\ h[i] \in Kangaroos /\ h[i].p \in Pts /\ h[i].dist \in Int
        /\ DistMod \in Nat /\ DistMod > 0
    BY HerdAssumption, FieldIs DEF Herds, Kangaroos, Pts
  <2>2. Addend(h[i].p) \in Pts /\ JumpDistance[JumpOf(h[i].p)] \in Int
    BY <2>1, AddendInPts
  <2>3. SharedInverse(h, i) \in Int
    <3>1. Addend(h[i].p).x (-) h[i].p.x \in Field
      <4>1. Addend(h[i].p).x \in Int /\ h[i].p.x \in Int
        BY <2>1, <2>2 DEF Pts, Field
      <4>. QED  BY <4>1, InField
    <3>2. Inv[Addend(h[i].p).x (-) h[i].p.x] \in Int
      BY <3>1, InvInField DEF Field
    <3>. QED  BY <3>2 DEF SharedInverse
  <2>4. q(i) \in Pts
    BY <2>1, <2>2, <2>3, AddInPts
  <2>5. d(i) \in 0 .. DistMod - 1
    <3>1. PICK v \in Int : v = JumpDistance[JumpOf(h[i].p)]
      BY <2>2
    <3>2. PICK w \in Int : w = h[i].dist
      BY <2>1
    <3>3. w - v \in Int /\ w + v \in Int
      OBVIOUS
    <3>4. (w - v) % DistMod \in 0 .. DistMod - 1 /\ (w + v) % DistMod \in 0 .. DistMod - 1
      BY <2>1, <3>3, ModPlus
    <3>. QED  BY <3>1, <3>2, <3>4 DEF Moved
  <2>. HIDE DEF q, d
  <2>. QED  BY <2>1, <2>4, <2>5 DEF Kangaroos, Pts
<1>2. [i \in Members |-> n(i)] \in [Members -> Kangaroos]
  <2>. HIDE DEF n
  <2>. QED  BY <1>1
<1>3. Step(h) = Tabulated([i \in Members |-> n(i)])
  BY DEF Step
<1>4. Step(h) = [i \in Members |-> n(i)]
  <2>. HIDE DEF n
  <2>. QED  BY <1>2, <1>3, TabulatedIs
<1>5. \A i \in Members : Step(h)[i] = n(i)
  <2>. HIDE DEF n
  <2>. QED  BY <1>4
<1>. QED  BY <1>2, <1>4, <1>5 DEF Herds

LEMMA OneStepTypes ==
  ASSUME NEW r \in Runs
  PROVE  /\ OneStep(r) \in Runs /\ OneStep(r).reg = Step(r.reg)
         /\ \A i \in Members :
              OneStep(r).mem[i] = IF IsDP(Step(r.reg)[i].p)
                                  THEN [Step(r.reg)[i] EXCEPT !.flag = TRUE] ELSE r.mem[i]
<1>1. r.reg \in Herds /\ r.mem \in Herds /\ Step(r.reg) \in Herds
  BY StepTypes DEF Runs
<1>2. PICK h \in Herds : h = Step(r.reg)
  BY <1>1
<1>. DEFINE m(i) == IF IsDP(h[i].p) THEN [h[i] EXCEPT !.flag = TRUE] ELSE r.mem[i]
<1>3. ASSUME NEW i \in Members PROVE m(i) \in Kangaroos
  <2>1. h[i] \in Kangaroos /\ r.mem[i] \in Kangaroos
    BY <1>1 DEF Herds
  <2>2. [h[i] EXCEPT !.flag = TRUE] \in Kangaroos
    BY <2>1 DEF Kangaroos
  <2>. QED  BY <2>1, <2>2
<1>. HIDE DEF m
<1>4. Tabulated([i \in Members |-> m(i)]) = [i \in Members |-> m(i)]
  <2>1. [i \in Members |-> m(i)] \in [Members -> Kangaroos]
    BY <1>3
  <2>. QED  BY <2>1, TabulatedIs
<1>5. OneStep(r) = [reg |-> h, mem |-> [i \in Members |-> m(i)]]
  BY <1>2, <1>4, Zenon DEF OneStep, m
<1>. QED  BY <1>2, <1>3, <1>5 DEF Runs, Herds, m

\* The recursion of a launch has a value.
LEMMA WalkIs ==
  ASSUME NEW h \in Herds
  PROVE  /\ Walk(h) \in [0 .. StepsPerRound -> Runs]
         /\ Walk(h)[0] = [reg |-> h, mem |-> h]
         /\ \A s \in 1 .. StepsPerRound : Walk(h)[s] = OneStep(Walk(h)[s-1])
<1>. DEFINE a == [reg |-> h, mem |-> h]
            Is(f) == f = [s \in 0 .. StepsPerRound |-> IF s = 0 THEN a ELSE OneStep(f[s-1])]
            F == [r \in Runs |-> OneStep(r)]
<1>1. StepsPerRound \in Nat /\ a \in Runs
  BY HerdAssumption DEF Runs
<1>2. F \in [Runs -> Runs]
  BY OneStepTypes
<1>3. \A r \in Runs : F[r] = OneStep(r)
  OBVIOUS
<1>. HIDE DEF F, a
<1>4. PICK f : Recurses(f, StepsPerRound, Runs, a, F)
  BY <1>1, <1>2, Recursion, Zenon
<1>5. Is(f)
  <2>1. ASSUME NEW s \in 1 .. StepsPerRound PROVE f[s] = OneStep(f[s-1])
    <3>1. s - 1 \in 0 .. StepsPerRound
      BY <1>1
    <3>2. f[s-1] \in Runs
      BY <1>4, <3>1 DEF Recurses
    <3>. QED  BY <1>3, <1>4, <3>2 DEF Recurses
  <2>. QED  BY <1>1, <1>4, <2>1 DEF Recurses
<1>6. Walk(h) = CHOOSE g : Is(g)
  BY Zenon DEF Walk, a
<1>7. Is(Walk(h))
  <2>. HIDE DEF Is
  <2>. QED  BY <1>5, <1>6, Zenon
<1>8. PICK w : w = Walk(h)
  OBVIOUS
<1>9. w = [s \in 0 .. StepsPerRound |-> IF s = 0 THEN a ELSE OneStep(w[s-1])]
  BY <1>7, <1>8
<1>10. w[0] = a /\ \A s \in 1 .. StepsPerRound : w[s] = OneStep(w[s-1])
  BY <1>1, <1>9
<1>. DEFINE D == {s \in 0 .. StepsPerRound : w[s] \in Runs}
<1>11. 0 .. StepsPerRound \subseteq D
  <2>1. 0 \in D
    BY <1>1, <1>10
  <2>2. ASSUME NEW s \in 0 .. StepsPerRound - 1, s \in D PROVE s + 1 \in D
    <3>1. s + 1 \in 1 .. StepsPerRound /\ (s + 1) - 1 = s
      BY <1>1
    <3>2. w[s+1] = OneStep(w[s])
      BY <1>10, <3>1
    <3>. QED  BY <1>1, <2>2, <3>2, OneStepTypes
  <2>. HIDE DEF D
  <2>. QED  BY <1>1, <2>1, <2>2, Inductive
<1>12. w \in [0 .. StepsPerRound -> Runs]
  BY <1>9, <1>11
<1>. QED  BY <1>8, <1>10, <1>12 DEF a

LEMMA GoodMore ==
  ASSUME NEW t, NEW k \in Kangaroos, NEW b \in Int, NEW c \in Int, b <= c, Good(t, k, b)
  PROVE  Good(t, k, c)
<1>1. Signed(k.dist) \in Int
  BY HerdAssumption, FieldIs DEF Kangaroos, Signed
<1>. QED  BY <1>1 DEF Good

LEMMA FlagKeeps ==
  ASSUME NEW t, NEW k \in Kangaroos, NEW b \in Int, NEW f \in BOOLEAN
  PROVE  /\ [k EXCEPT !.flag = f] \in Kangaroos
         /\ Good(t, k, b) => Good(t, [k EXCEPT !.flag = f], b)
         /\ On(t, k) => On(t, [k EXCEPT !.flag = f])
<1>1. PICK n : n = [k EXCEPT !.flag = f]
  OBVIOUS
<1>2. n \in Kangaroos /\ n.p = k.p /\ n.dist = k.dist /\ n.type = k.type
  BY <1>1 DEF Kangaroos
<1>. QED  BY <1>1, <1>2 DEF Good, On

LEMMA StepKeeps ==
  ASSUME NEW t \in Int, NEW h \in Herds, NEW b \in Nat, NEW J \in Nat,
         JumpsWithin(J), 2 * (b + J) < Order, AllGood(t, h, b), ~Stuck(h)
  PROVE  AllGood(t, Step(h), b + J)
<1>1. SUFFICES ASSUME NEW i \in Members PROVE Good(t, Step(h)[i], b + J)
  BY DEF AllGood
<1>2. h[i] \in Kangaroos /\ Good(t, h[i], b) /\ Addend(h[i].p).x # h[i].p.x
  BY DEF AllGood, Herds, Stuck
<1>3. SharedInverse(h, i) = Inv[Addend(h[i].p).x (-) h[i].p.x]
  BY DEF SharedInverse
<1>. DEFINE n == [h[i] EXCEPT
                !.p = ec_add_affine_with_inv(h[i].p, Addend(h[i].p), Inv[Addend(h[i].p).x (-) h[i].p.x]),
                !.dist = Moved(h[i].dist, h[i].p)]
<1>4. Step(h)[i] = n
  BY <1>3, StepTypes
<1>5. Good(t, n, b + J)
  <2>. HIDE DEF Good
  <2>. QED  BY <1>2, JumpKeeps
<1>. QED  BY <1>4, <1>5

LEMMA TimesMore ==
  ASSUME NEW n \in Nat, NEW J \in Nat, NEW s \in 0 .. n
  PROVE  /\ Times(0, J) = 0 /\ Times(s, J) \in Nat /\ Times(n, J) \in Nat
         /\ Times(s, J) <= Times(n, J) /\ Times(s + 1, J) = Times(s, J) + J
<1>1. ASSUME NEW a \in Nat PROVE a * J \in Nat
  BY <1>1
<1>2. n * J = s * J + (n - s) * J
  OBVIOUS
<1>3. (s + 1) * J = s * J + J
  OBVIOUS
<1>4. s * J <= n * J
  BY <1>1, <1>2
<1>. QED  BY <1>1, <1>3, <1>4 DEF Times

LEMMA LaunchTypes ==
  ASSUME NEW h \in Herds
  PROVE  /\ Launch(h) \in Herds
         /\ \A i \in Members : Launch(h)[i] \in {Walk(h)[StepsPerRound].mem[i], Walk(h)[StepsPerRound].reg[i]}
<1>1. StepsPerRound \in 0 .. StepsPerRound
  BY HerdAssumption
<1>2. PICK l \in Runs : l = Walk(h)[StepsPerRound]
  BY <1>1, WalkIs
<1>3. Launch(h) = [i \in Members |-> IF l.mem[i].flag THEN l.mem[i] ELSE l.reg[i]]
  BY <1>2 DEF Launch
<1>. QED  BY <1>2, <1>3 DEF Runs, Herds

\* A launch that meets no jump keeps position and distance together, in the
\* registers and in what it stores.
LEMMA LaunchKeeps ==
  ASSUME NEW t \in Int, NEW h \in Herds, NEW b \in Nat, NEW J \in Nat,
         JumpsWithin(J), 2 * (b + Times(StepsPerRound, J)) < Order,
         AllGood(t, h, b), ~MeetsJump(h)
  PROVE  AllGood(t, Launch(h), b + Times(StepsPerRound, J))
<1>1. StepsPerRound \in Nat /\ StepsPerRound \in 0 .. StepsPerRound /\ Order \in Nat
  BY HerdAssumption, FieldIs
<1>2. PICK w \in [0 .. StepsPerRound -> Runs] :
        /\ w = Walk(h) /\ w[0] = [reg |-> h, mem |-> h]
        /\ \A s \in 1 .. StepsPerRound : w[s] = OneStep(w[s-1])
  BY WalkIs
<1>3. \A s \in 0 .. StepsPerRound - 1 : ~Stuck(w[s].reg)
  BY <1>2 DEF MeetsJump
<1>. DEFINE B(s) == b + Times(s, J)
            D == {s \in 0 .. StepsPerRound :
                    AllGood(t, w[s].reg, B(s)) /\ AllGood(t, w[s].mem, B(s))}
<1>4. 0 \in D
  <2>1. B(0) = b
    BY <1>1, TimesMore
  <2>2. w[0].reg = h /\ w[0].mem = h
    BY <1>2
  <2>. QED  BY <1>1, <2>1, <2>2
<1>5. ASSUME NEW s \in 0 .. StepsPerRound - 1, s \in D PROVE s + 1 \in D
  <2>1. /\ s \in 0 .. StepsPerRound /\ s + 1 \in 0 .. StepsPerRound
        /\ s + 1 \in 1 .. StepsPerRound /\ (s + 1) - 1 = s
    BY <1>1
  <2>2. B(s) \in Nat /\ B(s + 1) \in Nat /\ B(s + 1) = B(s) + J /\ 2 * (B(s) + J) < Order
    <3>1. /\ Times(s, J) \in Nat /\ Times(s + 1, J) = Times(s, J) + J
          /\ Times(s + 1, J) <= Times(StepsPerRound, J) /\ Times(StepsPerRound, J) \in Nat
      BY <1>1, <2>1, TimesMore
    <3>. QED  BY <1>1, <3>1
  <2>. HIDE DEF B
  <2>3. PICK r \in Runs : r = w[s]
    BY <2>1
  <2>4. r.reg \in Herds /\ r.mem \in Herds /\ ~Stuck(r.reg)
    BY <1>3, <2>3 DEF Runs
  <2>5. AllGood(t, r.reg, B(s)) /\ AllGood(t, r.mem, B(s))
    BY <1>5, <2>3
  <2>6. AllGood(t, Step(r.reg), B(s + 1))
    BY <2>2, <2>4, <2>5, StepKeeps
  <2>7. w[s + 1] = OneStep(r)
    BY <1>2, <2>1, <2>3
  <2>8. ASSUME NEW i \in Members
        PROVE  Good(t, w[s + 1].reg[i], B(s + 1)) /\ Good(t, w[s + 1].mem[i], B(s + 1))
    <3>1. PICK k \in Kangaroos : k = Step(r.reg)[i]
      BY <2>4, StepTypes DEF Herds
    <3>2. PICK l \in Kangaroos : l = r.mem[i]
      BY <2>4 DEF Herds
    <3>3. Good(t, l, B(s + 1))
      BY <2>2, <2>5, <3>2, GoodMore DEF AllGood
    <3>4. Good(t, k, B(s + 1)) /\ Good(t, [k EXCEPT !.flag = TRUE], B(s + 1))
      <4>1. Good(t, k, B(s + 1)) /\ B(s + 1) \in Int /\ TRUE \in BOOLEAN
        BY <2>2, <2>6, <3>1 DEF AllGood
      <4>. QED  BY <4>1, FlagKeeps
    <3>5. w[s + 1].reg[i] = k /\ w[s + 1].mem[i] \in {[k EXCEPT !.flag = TRUE], l}
      BY <2>7, <3>1, <3>2, OneStepTypes
    <3>. QED  BY <3>3, <3>4, <3>5
  <2>. QED  BY <2>1, <2>8 DEF AllGood
<1>6. StepsPerRound \in D
  <2>. HIDE DEF D
  <2>. QED  BY <1>1, <1>4, <1>5, Inductive
<1>. QED  BY <1>2, <1>6, LaunchTypes DEF AllGood

-----------------------------------------------------------------------------
(* The key.                                                                  *)

LEMMA Around ==
  ASSUME NEW n \in Nat, n > 0, NEW c \in Int, -n <= c, c < 2 * n
  PROVE  c % n = IF c < 0 THEN n + c ELSE IF c < n THEN c ELSE c - n
<1>1. CASE c < n
  BY <1>1, Small
<1>2. CASE c >= n
  <2>1. c - n \in Int /\ n + (c - n) = c /\ 0 <= c - n /\ c - n < n
    BY <1>2
  <2>2. c % n = (c - n) % n
    BY <2>1, OneRound
  <2>3. (c - n) % n = c - n
    BY <2>1, Small
  <2>. QED  BY <1>2, <2>2, <2>3
<1>. QED  BY <1>1, <1>2

LEMMA MinusIs ==
  ASSUME NEW a \in 0 .. DistMod - 1, NEW c \in 0 .. DistMod - 1
  PROVE  /\ Minus(a, c) \in 0 .. DistMod - 1
         /\ Minus(a, c) = IF a >= c THEN a - c
                          ELSE IF c - a <= Order THEN Order - (c - a)
                          ELSE DistMod + (Order - (c - a))
<1>1. Order \in Nat /\ DistMod \in Nat /\ Order < DistMod /\ DistMod > 0
  BY HerdAssumption, FieldIs
<1>2. CASE a >= c
  BY <1>1, <1>2 DEF Minus
<1>3. CASE a < c
  <2>1. Order - (c - a) \in Int /\ -DistMod <= Order - (c - a) /\ Order - (c - a) < DistMod
    BY <1>1, <1>3
  <2>2. (Order - (c - a)) % DistMod
          = IF Order - (c - a) >= 0 THEN Order - (c - a) ELSE DistMod + (Order - (c - a))
    BY <1>1, <2>1, Small
  <2>3. Minus(a, c) = (Order - (c - a)) % DistMod
    BY <1>3 DEF Minus
  <2>. QED  BY <1>1, <1>3, <2>2, <2>3
<1>. QED  BY <1>2, <1>3

LEMMA KeyTypes ==
  ASSUME NEW d \in Kangaroos, NEW e \in Kangaroos, d.type # e.type
  PROVE  Key(d, e) \in 0 .. DistMod - 1
<1>1. /\ d.type \in Types /\ e.type \in Types
      /\ d.dist \in 0 .. DistMod - 1 /\ e.dist \in 0 .. DistMod - 1
  BY DEF Kangaroos
<1>2. Minus(d.dist, e.dist) \in 0 .. DistMod - 1 /\ Minus(e.dist, d.dist) \in 0 .. DistMod - 1
  BY <1>1, MinusIs
<1>3. PICK x \in 0 .. DistMod - 1, y \in 0 .. DistMod - 1 :
        x = Minus(d.dist, e.dist) /\ y = Minus(e.dist, d.dist)
  BY <1>2
<1>4. x \div 2 \in 0 .. DistMod - 1 /\ y \div 2 \in 0 .. DistMod - 1
  BY HerdAssumption
<1>5. Key(d, e) \in {x, y, x \div 2, y \div 2}
  BY <1>1, <1>3 DEF Key, Types
<1>. QED  BY <1>4, <1>5

\* A tame kangaroo u and a wild one v on one point.
LEMMA TameAndWild ==
  ASSUME NEW t \in 1 .. Order - 1, NEW u \in Kangaroos, NEW v \in Kangaroos,
         NEW b \in Nat, 4 * b < Order, Good(t, u, b), Good(t, v, b), u.p = v.p,
         u.type = "tame", v.type # "tame", Signed(u.dist) >= 0,
         Signed(v.dist) < 0 => t < DistMod - Order
  PROVE  (IF v.type = "wild1" THEN Minus(u.dist, v.dist) ELSE Minus(v.dist, u.dist)) % Order = t
<1>1. PICK a \in 0 .. DistMod - 1, c \in 0 .. DistMod - 1 : a = u.dist /\ c = v.dist
  BY DEF Kangaroos
<1>2. /\ Order \in Nat /\ Order > 3 /\ DistMod \in Nat /\ Order < DistMod
      /\ 2 * (DistMod - Order) <= Order
  BY HerdAssumption, FieldIs
<1>3. PICK w \in Int : w = Signed(c)
  <2>1. Signed(c) \in Int
    BY <1>2 DEF Signed
  <2>. QED  BY <2>1
<1>4. a <= b /\ Signed(a) = a /\ -b <= w /\ w <= b /\ (w >= 0 => c = w) /\ (w < 0 => c = DistMod + w)
  BY <1>1, <1>2, <1>3 DEF Good, Signed
<1>5. v.type \in {"wild1", "wild2"}
  BY DEF Kangaroos, Types
<1>6. w < 0 => t < DistMod - Order
  BY <1>1, <1>3
<1>. DEFINE f == IF v.type = "wild1" THEN t ELSE -t
<1>7. BaseOf(t, u.type) = 0 /\ BaseOf(t, v.type) = f
  BY <1>5 DEF BaseOf
<1>8. a % Order = (f + w) % Order
  <2>1. Multiple[a % Order] = Multiple[(f + w) % Order]
    <3>1. u.p = Multiple[(0 + Signed(a)) % Order] /\ v.p = Multiple[(f + w) % Order]
      BY <1>1, <1>3, <1>7, Zenon DEF Good, On
    <3>2. 0 + Signed(a) = a
      BY <1>4
    <3>. QED  BY <3>1, <3>2, Zenon
  <2>2. f + w \in Int /\ Order > 0
    BY <1>2
  <2>3. a % Order \in Scalar /\ (f + w) % Order \in Scalar
    BY <1>2, <2>2, ModPlus DEF Scalar
  <2>. QED  BY <2>1, <2>3, GroupLaw
<1>9. a % Order = a
  <2>1. a \in Int /\ -Order <= a /\ a < Order /\ a >= 0
    BY <1>2, <1>4
  <2>. QED  BY <1>2, <2>1, Small
<1>10. CASE v.type = "wild1"
  <2>1. a = IF t + w < 0 THEN Order + (t + w) ELSE IF t + w < Order THEN t + w ELSE (t + w) - Order
    BY <1>2, <1>4, <1>8, <1>9, <1>10, Around
  <2>2. PICK x \in 0 .. DistMod - 1 : x = Minus(a, c)
    BY MinusIs
  <2>3. x = t \/ x = Order + t
    <3>1. x = IF a >= c THEN a - c ELSE IF c - a <= Order THEN Order - (c - a)
              ELSE DistMod + (Order - (c - a))
      BY <2>2, MinusIs
    <3>. QED  BY <1>2, <1>4, <1>6, <2>1, <3>1
  <2>4. t % Order = t /\ (Order + t) % Order = t
    BY <1>2, Around
  <2>. QED  BY <1>1, <1>10, <2>2, <2>3, <2>4
<1>11. CASE v.type = "wild2"
  <2>1. a = IF w - t < 0 THEN Order + (w - t) ELSE w - t
    BY <1>2, <1>4, <1>8, <1>9, <1>11, Around
  <2>2. PICK x \in 0 .. DistMod - 1 : x = Minus(c, a)
    BY MinusIs
  <2>3. x = t
    <3>1. x = IF c >= a THEN c - a ELSE IF a - c <= Order THEN Order - (a - c)
              ELSE DistMod + (Order - (a - c))
      BY <2>2, MinusIs
    <3>. QED  BY <1>2, <1>4, <1>6, <2>1, <3>1
  <2>4. t % Order = t
    BY <1>2, Around
  <2>. QED  BY <1>1, <1>11, <2>2, <2>3, <2>4
<1>. QED  BY <1>5, <1>10, <1>11

LEMMA KeyIs ==
  ASSUME NEW d \in Kangaroos, NEW e \in Kangaroos, d.type # e.type, "tame" \in {d.type, e.type}
  PROVE  \E u \in Kangaroos, v \in Kangaroos :
           /\ {<<u, v>>} \subseteq {<<d, e>>, <<e, d>>} /\ u.type = "tame" /\ v.type # "tame"
           /\ Key(d, e) = IF v.type = "wild1" THEN Minus(u.dist, v.dist) ELSE Minus(v.dist, u.dist)
<1>1. d.type \in Types /\ e.type \in Types
  BY DEF Kangaroos
<1>2. CASE d.type = "tame"
  <2>1. Key(d, e) = IF e.type = "wild1" THEN Minus(d.dist, e.dist) ELSE Minus(e.dist, d.dist)
    BY <1>1, <1>2 DEF Key, Types
  <2>. QED  BY <1>2, <2>1
<1>3. CASE e.type = "tame"
  <2>1. Key(d, e) = IF d.type = "wild1" THEN Minus(e.dist, d.dist) ELSE Minus(d.dist, e.dist)
    BY <1>1, <1>3 DEF Key, Types
  <2>. QED  BY <1>3, <2>1
<1>. QED  BY <1>2, <1>3

-----------------------------------------------------------------------------
(* The table.                                                                *)

Hit(K, hit) == hit = NoPair \/ (hit \in K \X K /\ hit[1].type # hit[2].type)
Entries(K) == {s \in [tab : SUBSET K, hit : {NoPair} \cup (K \X K)] : Hit(K, s.hit)}

LEMMA EnteredIn ==
  ASSUME NEW K, NEW k \in K, NEW s \in Entries(K)
  PROVE  Entered(k, s) \in Entries(K)
<1>. DEFINE same == {e \in s.tab : Low(e.p) = Low(k.p)}
            e == CHOOSE e \in same : TRUE
<1>1. s \in [tab : SUBSET K, hit : {NoPair} \cup (K \X K)] /\ Hit(K, s.hit)
  BY DEF Entries
<1>2. same # {} => e \in K
  BY <1>1
<1>3. [s EXCEPT !.tab = @ \cup {k}] \in Entries(K)
  BY <1>1 DEF Entries
<1>4. e \in K /\ e.type # k.type => [s EXCEPT !.hit = <<k, e>>] \in Entries(K)
  <2>. HIDE DEF e
  <2>. QED  BY <1>1 DEF Entries, Hit
<1>5. Entered(k, s) \in {s, [s EXCEPT !.tab = @ \cup {k}]}
      \/ (same # {} /\ e.type # k.type /\ Entered(k, s) = [s EXCEPT !.hit = <<k, e>>])
  BY DEF Entered
<1>. HIDE DEF same, e
<1>. QED  BY <1>2, <1>3, <1>4, <1>5

LEMMA EnterIn ==
  ASSUME NEW K, NEW h \in [Members -> K], NEW tab \in SUBSET K
  PROVE  Enter(h, tab) \in Entries(K)
<1>1. h[1] \in K /\ h[2] \in K /\ h[3] \in K
  BY DEF Members
<1>2. [tab |-> tab, hit |-> NoPair] \in Entries(K)
  BY DEF Entries, Hit
<1>. QED  BY <1>1, <1>2, EnteredIn DEF Enter

-----------------------------------------------------------------------------
(* Types, and what a collision leaves.                                       *)

PairOK ==
  /\ Hit(Kangaroos, pair)
  /\ pair # NoPair => result.key = Key(pair[1], pair[2])

HerdInv == TypeOK /\ broken \in [Gpus -> BOOLEAN] /\ PairOK

LEMMA StartIs ==
  ASSUME NEW q \in 1 .. Order - 1, NEW k \in 1 .. Order - 1
  PROVE  /\ Start("tame", q, k) = [p |-> Multiple[k], dist |-> k]
         /\ Start("wild1", q, k) = [p |-> Multiple[q], dist |-> 0]
         /\ Start("wild2", q, k) = [p |-> Multiple[Order - q], dist |-> 0]
         /\ \A j \in {k, q, Order - q} : j \in Scalar \ {0} /\ Multiple[j] \in Pts /\ Multiple[j] # O
<1>1. \A j \in {k, q, Order - q} : j \in Scalar \ {0}
  BY FieldIs DEF Scalar
<1>2. \A j \in Scalar \ {0} : Multiple[j] \in [x : Field, y : Field \ {0}]
  BY GroupLaw
<1>3. \A j \in Scalar \ {0} : Multiple[j] \in Pts /\ Multiple[j] # O
  BY <1>2 DEF Pts, O, Affine
<1>4. Affine(Multiple[q].x, FieldSize - Multiple[q].y) = Multiple[Order - q]
  <2>1. PICK y \in Field \ {0} : y = Multiple[q].y
    BY <1>1, <1>2
  <2>2. FieldSize - y = 0 (-) y
    <3>1. -y \in Int /\ -FieldSize <= -y /\ -y < FieldSize /\ -y < 0 /\ 0 - y = -y
      BY <2>1, FieldIs DEF Field
    <3>2. (-y) % FieldSize = FieldSize + (-y)
      BY <3>1, FieldIs, Small
    <3>. QED  BY <2>1, <3>1, <3>2, FieldIs DEF (-), Field
  <2>3. Neg(Multiple[q]) = Multiple[Order - q]
    BY <1>1, GroupLaw
  <2>4. Neg(Multiple[q]) = Affine(Multiple[q].x, 0 (-) Multiple[q].y)
    BY <1>1, <1>3 DEF Neg
  <2>. QED  BY <2>1, <2>2, <2>3, <2>4
<1>. QED  BY <1>1, <1>3, <1>4 DEF Start

LEMMA TypesInit == Init => HerdInv
<1>. SUFFICES ASSUME Init PROVE HerdInv
  OBVIOUS
<1>1. target \in 1 .. Order - 1 /\ target \in Targets
  BY HerdAssumption DEF Init
<1>2. PICK k \in [Gpus -> TameStarts] :
        herd = [g \in Gpus |-> [i \in Members |->
                 [type |-> TypeOf(i), p |-> Start(TypeOf(i), target, k[g]).p,
                  dist |-> Start(TypeOf(i), target, k[g]).dist, flag |-> FALSE]]]
  BY DEF Init
<1>3. ASSUME NEW g \in Gpus, NEW i \in Members
      PROVE  [type |-> TypeOf(i), p |-> Start(TypeOf(i), target, k[g]).p,
              dist |-> Start(TypeOf(i), target, k[g]).dist, flag |-> FALSE] \in Kangaroos
  <2>1. k[g] \in 1 .. Order - 1
    BY HerdAssumption
  <2>2. i \in {1, 2, 3}
    BY DEF Members
  <2>3. TypeOf(i) \in Types
    BY <2>2 DEF TypeOf, Types
  <2>4. Start(TypeOf(i), target, k[g]).p \in Pts
    BY <1>1, <2>1, <2>3, StartIs DEF Types
  <2>5. Start(TypeOf(i), target, k[g]).dist \in {0, k[g]}
    BY <1>1, <2>1, <2>3, StartIs DEF Types
  <2>6. Start(TypeOf(i), target, k[g]).dist \in 0 .. DistMod - 1
    BY <2>1, <2>5, HerdAssumption, FieldIs
  <2>. QED  BY <2>3, <2>4, <2>6 DEF Kangaroos, Pts
<1>4. herd \in [Gpus -> [Members -> Kangaroos]]
  BY <1>2, <1>3
<1>5. 0 \in 0 .. DistMod - 1
  BY HerdAssumption, FieldIs
<1>. QED  BY <1>1, <1>4, <1>5 DEF Init, HerdInv, TypeOK, PairOK, Hit, NoResult

\* What Points enters and what it finds to collide come from this GPU's herd
\* and from the table.
LEMMA PointsFind ==
  ASSUME NEW K \in SUBSET Kangaroos, NEW g \in Gpus, TypeOK, Points(g),
         herd[g] \in [Members -> K], table \subseteq K
  PROVE  LET r == Enter(herd[g], table)
         IN  r \in Entries(K) /\ table' = r.tab
BY EnterIn DEF Points

LEMMA TypesStep == HerdInv /\ [Next]_vars => HerdInv'
<1>. SUFFICES ASSUME HerdInv, [Next]_vars PROVE HerdInv'
  OBVIOUS
<1>. USE DEF HerdInv
<1>1. ASSUME NEW g \in Gpus, Top(g) PROVE HerdInv'
  BY <1>1 DEF Top, TypeOK, PairOK
<1>2. ASSUME NEW g \in Gpus, KernelError(g) PROVE HerdInv'
  BY <1>2 DEF KernelError, TypeOK, PairOK
<1>3. ASSUME NEW g \in Gpus, RunKernel(g) PROVE HerdInv'
  <2>1. Launch(herd[g]) \in [Members -> Kangaroos]
    BY LaunchTypes DEF TypeOK, Herds
  <2>2. herd' \in [Gpus -> [Members -> Kangaroos]]
    BY <1>3, <2>1 DEF RunKernel, TypeOK
  <2>3. MeetsJump(herd[g]) \in BOOLEAN
    BY Zenon DEF MeetsJump
  <2>4. broken' \in [Gpus -> BOOLEAN]
    BY <1>3, <2>3 DEF RunKernel
  <2>5. pc' \in [Gpus -> {"top", "launch", "points", "exited"}]
    BY <1>3 DEF RunKernel, TypeOK
  <2>. QED  BY <1>3, <2>2, <2>4, <2>5 DEF RunKernel, TypeOK, PairOK
<1>4. ASSUME NEW g \in Gpus, Points(g) PROVE HerdInv'
  <2>. DEFINE r == Enter(herd[g], table)
  <2>1. r \in Entries(Kangaroos) /\ table' = r.tab
    <3>1. Kangaroos \in SUBSET Kangaroos /\ herd[g] \in [Members -> Kangaroos] /\ table \subseteq Kangaroos
      BY DEF TypeOK
    <3>. QED  BY <1>4, <3>1, PointsFind
  <2>2. table' \subseteq Kangaroos /\ Hit(Kangaroos, r.hit)
    BY <2>1 DEF Entries
  <2>3. pc' \in [Gpus -> {"top", "launch", "points", "exited"}]
    BY <1>4 DEF Points, TypeOK
  <2>4. CASE r.hit # NoPair
    <3>1. /\ result' = [found |-> TRUE, key |-> Key(r.hit[1], r.hit[2])]
          /\ found' = TRUE /\ pair' = r.hit /\ herd' = herd
      BY <1>4, <2>4 DEF Points
    <3>2. Key(r.hit[1], r.hit[2]) \in 0 .. DistMod - 1
      BY <2>2, <2>4, KeyTypes DEF Hit
    <3>3. result' \in [found : BOOLEAN, key : 0 .. DistMod - 1]
      BY <3>1, <3>2
    <3>4. PairOK'
      <4>. HIDE DEF r
      <4>. QED  BY <2>2, <3>1 DEF PairOK
    <3>. QED  BY <1>4, <2>2, <2>3, <3>1, <3>3, <3>4 DEF Points, TypeOK
  <2>5. CASE r.hit = NoPair
    <3>1. /\ herd' = [herd EXCEPT ![g] = [i \in Members |-> [@[i] EXCEPT !.flag = FALSE]]]
          /\ UNCHANGED <<result, found, pair>>
      BY <1>4, <2>5 DEF Points
    <3>2. [i \in Members |-> [herd[g][i] EXCEPT !.flag = FALSE]] \in [Members -> Kangaroos]
      <4>1. ASSUME NEW k \in Kangaroos PROVE [k EXCEPT !.flag = FALSE] \in Kangaroos
        BY <4>1 DEF Kangaroos
      <4>2. \A i \in Members : herd[g][i] \in Kangaroos
        BY DEF TypeOK
      <4>. QED  BY <4>1, <4>2
    <3>3. herd' \in [Gpus -> [Members -> Kangaroos]]
      BY <3>1, <3>2 DEF TypeOK
    <3>. QED  BY <1>4, <2>2, <2>3, <3>1, <3>3 DEF Points, TypeOK, PairOK
  <2>. QED  BY <2>4, <2>5
<1>5. CASE Poll
  BY <1>5 DEF Poll, TypeOK, PairOK
<1>6. CASE Join
  <2>1. NoResult \in [found : BOOLEAN, key : 0 .. DistMod - 1]
    BY HerdAssumption, FieldIs DEF NoResult
  <2>. QED  BY <1>6, <2>1 DEF Join, TypeOK, PairOK
<1>7. CASE UNCHANGED vars
  BY <1>7 DEF vars, TypeOK, PairOK
<1>. QED  BY <1>1, <1>2, <1>3, <1>4, <1>5, <1>6, <1>7 DEF Next, Thread, Done

(* A kangaroo, a table entry, a result: everything keeps its type, whatever   *)
(* the curve, the jumps and the number of GPUs.                               *)
THEOREM HerdTypes == Spec => []TypeOK
<1>1. HerdInv => TypeOK
  BY DEF HerdInv
<1>. QED  BY <1>1, TypesInit, TypesStep, PTL DEF Spec

-----------------------------------------------------------------------------
(* Positions.                                                                *)

\* No kangaroo of a GPU is further than b from its start.
Near(b) ==
  \A g \in Gpus : \A i \in Members :
    -b <= Signed(herd[g][i].dist) /\ Signed(herd[g][i].dist) <= b

Unbroken == \A g \in Gpus : ~broken[g]

Placed(t, b) == {k \in Kangaroos : Good(t, k, b)}

\* Every kangaroo, entry and colliding pair is where its distance says.
Positions(b) ==
  Unbroken =>
    /\ \A g \in Gpus : herd[g] \in [Members -> Placed(target, b)]
    /\ table \subseteq Placed(target, b)
    /\ Hit(Placed(target, b), pair)

LEMMA PositionsInit ==
  ASSUME NEW b \in Nat PROVE Init /\ Near(b) => Positions(b)
<1>. SUFFICES ASSUME Init, Near(b) PROVE Positions(b)
  OBVIOUS
<1>1. target \in 1 .. Order - 1
  BY HerdAssumption DEF Init
<1>2. PICK k \in [Gpus -> TameStarts] :
        herd = [g \in Gpus |-> [i \in Members |->
                 [type |-> TypeOf(i), p |-> Start(TypeOf(i), target, k[g]).p,
                  dist |-> Start(TypeOf(i), target, k[g]).dist, flag |-> FALSE]]]
  BY DEF Init
<1>3. herd \in [Gpus -> [Members -> Kangaroos]]
  BY TypesInit DEF HerdInv, TypeOK
<1>4. ASSUME NEW g \in Gpus, NEW i \in Members
      PROVE  Good(target, herd[g][i], b)
  <2>1. k[g] \in 1 .. Order - 1 /\ 2 * k[g] < DistMod
    BY HerdAssumption
  <2>2. i \in {1, 2, 3}
    BY DEF Members
  <2>3. TypeOf(i) \in Types
    BY <2>2 DEF TypeOf, Types
  <2>4. PICK s : s = Start(TypeOf(i), target, k[g])
    OBVIOUS
  <2>5. herd[g][i] = [type |-> TypeOf(i), p |-> s.p, dist |-> s.dist, flag |-> FALSE]
    BY <1>2, <2>4
  <2>6. Signed(k[g]) = k[g] /\ Signed(0) = 0
    BY <2>1, HerdAssumption, FieldIs DEF Signed
  <2>7. /\ (0 + k[g]) % Order = k[g] /\ (target + 0) % Order = target
        /\ (-target + 0) % Order = Order - target
    <3>1. 0 + k[g] = k[g] /\ target + 0 = target /\ -target + 0 = -target /\ -target \in Int
      BY <1>1, <2>1
    <3>2. -Order <= -target /\ -target < 0 /\ -target < Order /\ Order + (-target) = Order - target
      BY <1>1, FieldIs
    <3>3. (-target) % Order = Order + (-target)
      BY <3>1, <3>2, FieldIs, Small
    <3>4. k[g] % Order = k[g] /\ target % Order = target
      <4>1. ASSUME NEW j \in 1 .. Order - 1 PROVE j % Order = j
        <5>1. -Order <= j /\ j < Order /\ j >= 0 /\ j \in Int
          BY FieldIs
        <5>. QED  BY <5>1, FieldIs, Small
      <4>. QED  BY <1>1, <2>1, <4>1
    <3>. QED  BY <3>1, <3>2, <3>3, <3>4
  <2>8. s.p = Multiple[(BaseOf(target, TypeOf(i)) + Signed(s.dist)) % Order] /\ s.p # O
    <3>1. CASE TypeOf(i) = "tame"
      BY <1>1, <2>1, <2>4, <2>6, <2>7, <3>1, StartIs DEF BaseOf
    <3>2. CASE TypeOf(i) = "wild1"
      BY <1>1, <2>1, <2>4, <2>6, <2>7, <3>2, StartIs DEF BaseOf
    <3>3. CASE TypeOf(i) = "wild2"
      BY <1>1, <2>1, <2>4, <2>6, <2>7, <3>3, StartIs DEF BaseOf
    <3>. QED  BY <2>3, <3>1, <3>2, <3>3 DEF Types
  <2>. QED  BY <2>5, <2>8 DEF Good, On, Near
<1>5. \A g \in Gpus : herd[g] \in [Members -> Placed(target, b)]
  BY <1>3, <1>4 DEF Placed
<1>. QED  BY <1>5 DEF Init, Positions, Hit

LEMMA PositionsStep ==
  ASSUME NEW b \in Nat, NEW J \in Nat, JumpsWithin(J),
         2 * (b + Times(StepsPerRound, J)) < Order
  PROVE  HerdInv /\ Near(b)' /\ Positions(b) /\ [Next]_vars => Positions(b)'
<1>. SUFFICES ASSUME HerdInv, Near(b)', Positions(b), [Next]_vars PROVE Positions(b)'
  OBVIOUS
<1>. DEFINE K == Placed(target, b)
<1>1. ASSUME UNCHANGED <<target, herd, table, broken, pair>> PROVE Positions(b)'
  BY <1>1 DEF Positions, Unbroken
<1>2. ASSUME NEW g \in Gpus, RunKernel(g) PROVE Positions(b)'
  <2>1. SUFFICES ASSUME Unbroken'
                 PROVE  \A f \in Gpus : herd'[f] \in [Members -> K]
    <3>1. UNCHANGED <<target, table, pair>>
      BY <1>2 DEF RunKernel
    <3>2. Unbroken' => Unbroken
      BY <1>2 DEF RunKernel, Unbroken, HerdInv
    <3>. QED  BY <3>1, <3>2 DEF Positions
  <2>2. broken' = [broken EXCEPT ![g] = broken[g] \/ MeetsJump(herd[g])]
    BY <1>2 DEF RunKernel
  <2>3. ~MeetsJump(herd[g]) /\ Unbroken
    BY <2>1, <2>2 DEF HerdInv, Unbroken
  <2>4. herd[g] \in Herds /\ AllGood(target, herd[g], b) /\ target \in Int
    BY <2>3, HerdAssumption, FieldIs DEF Positions, Placed, AllGood, HerdInv, TypeOK, Herds
  <2>5. AllGood(target, Launch(herd[g]), b + Times(StepsPerRound, J))
    BY <2>3, <2>4, LaunchKeeps
  <2>6. Launch(herd[g]) \in Herds
    BY <2>4, LaunchTypes
  <2>7. herd' = [herd EXCEPT ![g] = Launch(herd[g])]
    BY <1>2 DEF RunKernel
  <2>8. herd'[g] = Launch(herd[g]) /\ \A f \in Gpus \ {g} : herd'[f] = herd[f]
    BY <2>7 DEF HerdInv, TypeOK
  <2>9. ASSUME NEW i \in Members PROVE Launch(herd[g])[i] \in K
    <3>1. Good(target, Launch(herd[g])[i], b + Times(StepsPerRound, J))
      BY <2>5 DEF AllGood
    <3>2. /\ -b <= Signed(herd'[g][i].dist) /\ Signed(herd'[g][i].dist) <= b
      BY DEF Near
    <3>3. Good(target, Launch(herd[g])[i], b)
      BY <2>8, <3>1, <3>2 DEF Good
    <3>. QED  BY <2>6, <3>3 DEF Placed, Herds
  <2>10. Launch(herd[g]) \in [Members -> K]
    BY <2>6, <2>9 DEF Herds
  <2>11. \A f \in Gpus : herd[f] \in [Members -> K]
    BY <2>3 DEF Positions
  <2>. QED  BY <2>8, <2>10, <2>11
<1>3. ASSUME NEW g \in Gpus, Points(g) PROVE Positions(b)'
  <2>1. UNCHANGED <<target, broken>>
    BY <1>3 DEF Points
  <2>2. SUFFICES ASSUME Unbroken
                 PROVE  /\ \A f \in Gpus : herd'[f] \in [Members -> K]
                        /\ table' \subseteq K /\ Hit(K, pair')
    BY <2>1 DEF Positions, Unbroken
  <2>3. /\ \A f \in Gpus : herd[f] \in [Members -> K]
        /\ table \subseteq K /\ Hit(K, pair) /\ K \in SUBSET Kangaroos
    BY <2>2 DEF Positions, Placed
  <2>. DEFINE r == Enter(herd[g], table)
  <2>. HIDE DEF K
  <2>4. r \in Entries(K) /\ table' = r.tab
    BY <1>3, <2>3, PointsFind DEF HerdInv
  <2>5. table' \subseteq K /\ Hit(K, r.hit)
    BY <2>4 DEF Entries
  <2>6. CASE r.hit # NoPair
    <3>1. pair' = r.hit /\ herd' = herd
      BY <1>3, <2>6 DEF Points
    <3>. QED  BY <2>3, <2>5, <3>1
  <2>7. CASE r.hit = NoPair
    <3>1. /\ herd' = [herd EXCEPT ![g] = [i \in Members |-> [@[i] EXCEPT !.flag = FALSE]]]
          /\ pair' = pair
      BY <1>3, <2>7 DEF Points
    <3>2. ASSUME NEW i \in Members PROVE [herd[g][i] EXCEPT !.flag = FALSE] \in K
      <4>1. PICK k \in K : k = herd[g][i]
        BY <2>3
      <4>2. k \in Kangaroos /\ Good(target, k, b) /\ FALSE \in BOOLEAN
        BY <4>1 DEF K, Placed
      <4>3. [k EXCEPT !.flag = FALSE] \in Kangaroos
        BY <4>2 DEF Kangaroos
      <4>4. b \in Int
        OBVIOUS
      <4>5. Good(target, [k EXCEPT !.flag = FALSE], b)
        BY <4>2, <4>4, FlagKeeps, Zenon
      <4>. QED  BY <4>1, <4>3, <4>5 DEF K, Placed
    <3>3. [i \in Members |-> [herd[g][i] EXCEPT !.flag = FALSE]] \in [Members -> K]
      BY <3>2
    <3>4. \A f \in Gpus : herd'[f] \in [Members -> K]
      BY <2>3, <3>1, <3>3 DEF HerdInv, TypeOK
    <3>. QED  BY <2>3, <2>5, <3>1, <3>4
  <2>. QED  BY <2>6, <2>7
<1>4. ASSUME NEW g \in Gpus, Top(g) \/ KernelError(g) PROVE Positions(b)'
  BY <1>1, <1>4 DEF Top, KernelError
<1>5. ASSUME Poll \/ Join \/ UNCHANGED vars PROVE Positions(b)'
  BY <1>1, <1>5 DEF Poll, Join, vars
<1>. QED  BY <1>2, <1>3, <1>4, <1>5 DEF Next, Thread, Done

LEMMA PositionsShow ==
  ASSUME NEW b \in Nat, HerdInv, Positions(b) PROVE PositionsHold
<1>1. SUFFICES ASSUME Unbroken
               PROVE  /\ \A g \in Gpus : \A i \in Members : At(herd[g][i])
                      /\ \A e \in table : At(e)
  BY DEF PositionsHold, Unbroken, HerdInv
<1>2. ASSUME NEW k \in Placed(target, b) PROVE At(k)
  <2>1. k.type \in Types /\ On(target, k)
    BY DEF Placed, Good, Kangaroos
  <2>. QED  BY <2>1 DEF At, On, BaseOf
<1>. QED  BY <1>1, <1>2 DEF Positions

LEMMA PairShows ==
  ASSUME NEW b \in Nat, 4 * b < Order, HerdInv, Positions(b) PROVE SamePointKey
<1>1. SUFFICES ASSUME TameMetWild, Unbroken,
                      \A i \in 1 .. 2 : Negative(pair[i]) =>
                        (pair[i].type # "tame" /\ target < DistMod - Order)
               PROVE  result.key % Order = target
  BY DEF SamePointKey, Unbroken
<1>2. PICK d \in Placed(target, b), e \in Placed(target, b) :
        d = pair[1] /\ e = pair[2] /\ d.type # e.type
  BY <1>1 DEF Positions, Hit, TameMetWild
<1>3. d \in Kangaroos /\ e \in Kangaroos /\ Good(target, d, b) /\ Good(target, e, b)
  BY DEF Placed
<1>4. d.p = e.p /\ "tame" \in {d.type, e.type} /\ result.key = Key(d, e)
  BY <1>1, <1>2 DEF TameMetWild, HerdInv, PairOK
<1>5. \A k \in {d, e} : Signed(k.dist) < 0 => (k.type # "tame" /\ target < DistMod - Order)
  BY <1>1, <1>2 DEF Negative
<1>6. PICK u \in Kangaroos, v \in Kangaroos :
        /\ {<<u, v>>} \subseteq {<<d, e>>, <<e, d>>} /\ u.type = "tame" /\ v.type # "tame"
        /\ Key(d, e) = IF v.type = "wild1" THEN Minus(u.dist, v.dist) ELSE Minus(v.dist, u.dist)
  BY <1>2, <1>3, <1>4, KeyIs
<1>7. u \in {d, e} /\ v \in {d, e} /\ u.p = v.p
  BY <1>4, <1>6
<1>8. /\ target \in 1 .. Order - 1 /\ Good(target, u, b) /\ Good(target, v, b)
      /\ ~(Signed(u.dist) < 0) /\ (Signed(v.dist) < 0 => target < DistMod - Order)
  BY <1>3, <1>5, <1>6, <1>7, HerdAssumption DEF HerdInv, TypeOK
<1>9. Signed(u.dist) >= 0
  <2>1. u.dist \in 0 .. DistMod - 1 /\ DistMod \in Nat
    BY HerdAssumption DEF Kangaroos
  <2>2. Signed(u.dist) \in Int
    BY <2>1 DEF Signed
  <2>. QED  BY <1>8, <2>2
<1>. QED  BY <1>4, <1>6, <1>7, <1>8, <1>9, TameAndWild

LEMMA PositionsAlways ==
  ASSUME NEW b \in Nat, NEW J \in Nat, JumpsWithin(J),
         2 * (b + Times(StepsPerRound, J)) < Order
  PROVE  Spec /\ []Near(b) => [](HerdInv /\ Positions(b))
<1>1. Init /\ Near(b) => HerdInv /\ Positions(b)
  BY TypesInit, PositionsInit
<1>2. HerdInv /\ Positions(b) /\ Near(b)' /\ [Next]_vars => (HerdInv /\ Positions(b))'
  BY TypesStep, PositionsStep
<1>. QED  BY <1>1, <1>2, PTL DEF Spec

\* J bounds the jumps and b how far kangaroos get.  In the code jumps have 64
\* bits, starts 128 and the order 256, so b is far below a quarter of it.
LEMMA FarBelow ==
  ASSUME NEW b \in Nat, NEW J \in Nat, 4 * (b + StepsPerRound * J) < Order
  PROVE  2 * (b + Times(StepsPerRound, J)) < Order /\ 4 * b < Order
<1>1. Times(StepsPerRound, J) \in Nat
  <2>1. StepsPerRound \in Nat /\ 0 \in 0 .. StepsPerRound
    BY HerdAssumption
  <2>. QED  BY <2>1, TimesMore
<1>2. StepsPerRound * J = Times(StepsPerRound, J)
  BY DEF Times
<1>. QED  BY <1>1, <1>2, FieldIs

(* As long as no kangaroo gets so far that distances would meet around the    *)
(* group's order, every kangaroo of every GPU and every entry of the table is *)
(* where its type and distance say, until a launch meets a jump it stands on. *)
THEOREM PositionsCorrect ==
  ASSUME NEW b \in Nat, NEW J \in Nat, JumpsWithin(J), 4 * (b + StepsPerRound * J) < Order
  PROVE  Spec /\ []Near(b) => []PositionsHold
<1>1. Spec /\ []Near(b) => [](HerdInv /\ Positions(b))
  BY FarBelow, PositionsAlways
<1>2. HerdInv /\ Positions(b) => PositionsHold
  BY PositionsShow
<1>. QED  BY <1>1, <1>2, PTL

(* Under the same bound a tame and a wild kangaroo that meet on one point     *)
(* leave the target's key, whichever way the two walked there.                *)
THEOREM KeyCorrect ==
  ASSUME NEW b \in Nat, NEW J \in Nat, JumpsWithin(J), 4 * (b + StepsPerRound * J) < Order
  PROVE  Spec /\ []Near(b) => []SamePointKey
<1>1. Spec /\ []Near(b) => [](HerdInv /\ Positions(b))
  BY FarBelow, PositionsAlways
<1>2. HerdInv /\ Positions(b) => SamePointKey
  BY FarBelow, PairShows
<1>. QED  BY <1>1, <1>2, PTL
=============================================================================
