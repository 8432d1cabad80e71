------------------------------- MODULE Curve -------------------------------
(***************************************************************************)
(* The curve y^2 = x^3 + 7 over the integers modulo FieldSize: its group   *)
(* law, which is what the four copies of the point arithmetic have to      *)
(* compute, and the two Jacobian formulas that three of them share.  The   *)
(* copies themselves are CurveCpu, CurveKangaroo, CurvePuzzle and           *)
(* CurveSecp; the words under the field elements are those of Words.        *)
(***************************************************************************)
EXTENDS Integers

CONSTANTS
  FieldSize,  \* p
  Order,      \* n, the number of points
  Gx, Gy      \* the generator

ASSUME CurveAssumption ==
  /\ FieldSize \in Nat /\ Order \in Nat /\ Order > 3
  /\ Gx \in 0 .. FieldSize - 1 /\ Gy \in 0 .. FieldSize - 1
  /\ (Gy * Gy) % FieldSize = (Gx * Gx * Gx + 7) % FieldSize

Field  == 0 .. FieldSize - 1
Scalar == 0 .. Order - 1

a (+) b == (a + b) % FieldSize
a (-) b == (a - b) % FieldSize
a (.) b == (a * b) % FieldSize
Sqr(a)  == a (.) a

\* 1/a, and 0 for 0: a^(p-2) in every copy (Inverse checks their chains).
Inv == [a \in Field |-> IF a = 0 THEN 0 ELSE CHOOSE b \in Field : a (.) b = 1]

Affine(x, y) == [x |-> x, y |-> y]
O == Affine(0, 0)          \* how the code writes infinity in affine coordinates
G == Affine(Gx, Gy)
Neg(p) == IF p = O THEN O ELSE Affine(p.x, 0 (-) p.y)

\* The group law.
Plus(p, q) ==
  LET chord(s) == LET x == Sqr(s) (-) (p.x + q.x) IN Affine(x, (s (.) (p.x - x)) (-) p.y)
  IN  IF p = O THEN q
      ELSE IF q = O THEN p
      ELSE IF q = Neg(p) THEN O
      ELSE IF p = q THEN chord((3 * p.x * p.x) (.) Inv[2 (.) p.y])
      ELSE chord((q.y - p.y) (.) Inv[q.x (-) p.x])

\* k * G, for every scalar.
Multiple[k \in Scalar] == IF k = 0 THEN O ELSE Plus(Multiple[k - 1], G)

\* FieldSize is a prime and G a point of odd order Order: what the parameters
\* of secp256k1 are chosen for.
ASSUME FieldLaw == \A a \in Field \ {0} : \E b \in Field : a (.) b = 1
ASSUME GroupLaw ==
  /\ Multiple[0] = O
  /\ \A i \in Scalar \ {0} :
       /\ Multiple[i] \in [x : Field, y : Field \ {0}]
       /\ Neg(Multiple[i]) = Multiple[Order - i]
  /\ \A i, j \in Scalar :
       /\ Plus(Multiple[i], Multiple[j]) = Multiple[(i + j) % Order]
       /\ Multiple[i] = Multiple[j] => i = j

Jacobian(X, Y, Z) == [X |-> X, Y |-> Y, Z |-> Z]
IsInfinity(J) == J.Z = 0

\* The affine point a Jacobian one stands for, i the inverse of its Z.
Scaled(J, i) == IF IsInfinity(J) THEN O ELSE Affine(J.X (.) Sqr(i), J.Y (.) (Sqr(i) (.) i))
ToAffine(J) == Scaled(J, Inv[J.Z])

-----------------------------------------------------------------------------
(* The two formulas, for points that are not special cases.                 *)

DoubleFormula(J) ==
  LET Y2 == Sqr(J.Y)
      S  == 4 (.) (J.X (.) Y2)
      M  == 3 (.) Sqr(J.X)
      X  == Sqr(M) (-) (2 * S)
  IN  Jacobian(X, (M (.) (S - X)) (-) (8 * Sqr(Y2)), 2 (.) (J.Y (.) J.Z))

\* Mixed addition: H and r tell p = q (both 0) from p = -q (H alone).
MixedH(J, q) == (q.x (.) Sqr(J.Z)) (-) J.X
MixedR(J, q) == (q.y (.) (J.Z (.) Sqr(J.Z))) (-) J.Y

AddFormula(J, q) ==
  LET H == MixedH(J, q)
      r == 2 (.) MixedR(J, q)
      I == 4 (.) Sqr(H)
      HI == H (.) I
      V == J.X (.) I
      X == Sqr(r) (-) (HI + 2 * V)
  IN  Jacobian(X, (r (.) (V - X)) (-) (2 * (J.Y (.) HI)), 2 (.) (J.Z (.) H))
=============================================================================
