----------------------------- MODULE CurveSecp -----------------------------
(* The point arithmetic of the batch kernels, secp256k1.cu, and its table    *)
(* multiplication: the table holds every window's multiples with the power   *)
(* of two of the window in them, so the windows are only added up.            *)
EXTENDS Curve, Sequences

CONSTANTS
  WindowSize,   \* bits per window: 5
  NumWindows    \* windows that cover a scalar: 52

TableSize == 2 ^ WindowSize
ScalarBits == WindowSize * NumWindows
WindowOf(k, w) == (k \div TableSize ^ w) % TableSize
Bit(k, i) == (k \div 2^i) % 2

Infinity == Jacobian(1, 1, 0)

ec_double_jacobian(J) == IF IsInfinity(J) THEN Infinity ELSE DoubleFormula(J)

\* Mutant: equal x is taken for opposite points.
ec_add_mixed_NoDouble(J, q) ==
  IF IsInfinity(J) THEN Jacobian(q.x, q.y, 1)
  ELSE IF MixedH(J, q) # 0 THEN AddFormula(J, q)
  ELSE Infinity

ec_add_mixed(J, q) ==
  IF IsInfinity(J) THEN Jacobian(q.x, q.y, 1)
  ELSE IF MixedH(J, q) # 0 THEN AddFormula(J, q)
  ELSE IF 2 (.) MixedR(J, q) = 0 THEN ec_double_jacobian(J)
  ELSE Infinity

jacobian_to_affine(J) == ToAffine(J)

\* n doublings.
Doubled(J, n) == LET D[i \in 0 .. n] == IF i = 0 THEN J ELSE ec_double_jacobian(D[i-1]) IN D[n]

\* The table: window 0 by adding G, each later window by doubling the one
\* before WindowSize times.
Table ==
  LET point[i \in 0 .. TableSize - 1] ==
        IF i = 0 THEN Infinity
        ELSE IF i = 1 THEN Jacobian(Gx, Gy, 1)
        ELSE ec_add_mixed(point[i-1], G)
      window[w \in 0 .. NumWindows - 1] ==
        IF w = 0 THEN point
        ELSE LET last == window[w-1] IN [i \in 0 .. TableSize - 1 |-> Doubled(last[i], WindowSize)]
  IN  [w \in 0 .. NumWindows - 1 |->
         LET points == window[w] IN [i \in 0 .. TableSize - 1 |-> jacobian_to_affine(points[i])]]

\* Adds the entry of window w of the table to R.
AddWindow(R, k, w) == IF WindowOf(k, w) = 0 THEN R ELSE ec_add_mixed(R, Table[w][WindowOf(k, w)])

ec_mul_windowed(k) ==
  LET R[w \in 0 .. NumWindows] == IF w = 0 THEN Infinity ELSE AddWindow(R[w-1], k, w - 1)
  IN  jacobian_to_affine(R[NumWindows])

ec_mul_simple(k) ==
  LET R[i \in 0 .. ScalarBits] ==
        IF i = 0 THEN Infinity
        ELSE LET T == ec_double_jacobian(R[i-1])
             IN  IF Bit(k, ScalarBits - i) = 1 THEN ec_add_mixed(T, G) ELSE T
  IN  jacobian_to_affine(R[ScalarBits])

\* The inverses of z by one inversion, the running products in a scratch
\* array of their own.
batch_invert(z) ==
  LET n == Len(z)
      products[i \in 1 .. n] == IF i = 1 THEN z[1] ELSE products[i-1] (.) z[i]
      inv_all[i \in 1 .. n] == IF i = n THEN Inv[products[n]] ELSE inv_all[i+1] (.) z[i+1]
  IN  [i \in 1 .. n |-> IF i = 1 THEN inv_all[1] ELSE inv_all[i] (.) products[i-1]]

\* The points of a block by one inversion.
parallel_batch_jacobian_to_affine(points) ==
  LET z_inv == batch_invert([i \in 1 .. Len(points) |-> points[i].Z])
  IN  [i \in 1 .. Len(points) |-> Scaled(points[i], z_inv[i])]
=============================================================================
