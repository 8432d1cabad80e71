---------------------------- MODULE CurvePuzzle ----------------------------
(* The point arithmetic of the puzzle kernel, puzzle_optimized.cu, and its   *)
(* search of consecutive keys: a key is split along the endomorphism          *)
(* (x, y) -> (beta x, y), the two short halves are multiplied out together,   *)
(* and the keys after it are reached by adding G, sharing one inversion.      *)
EXTENDS Curve, Sequences

CONSTANTS
  Beta,                    \* GLV_BETA: lambda * (x, y) = (Beta * x, y)
  A1, B1, A2,              \* GLV_A1, GLV_B1 and a2: the short lattice vectors
  G1, G2, Shift,           \* GLV_G1, GLV_G2, and the 384 they are scaled by
  Width,                   \* the bits of a scalar register: 256
  WindowBits, MaxWindow,   \* WINDOW_SIZE and the windows of a half: 4 and 33
  KeysPerThread            \* KEYS_PER_THREAD: 256

Infinity == Jacobian(1, 1, 0)

ec_double(J) == IF IsInfinity(J) THEN Infinity ELSE DoubleFormula(J)

ec_add_mixed(J, q) ==
  IF IsInfinity(J) THEN Jacobian(q.x, q.y, 1)
  ELSE IF MixedH(J, q) # 0 THEN AddFormula(J, q)
  ELSE IF 2 (.) MixedR(J, q) = 0 THEN ec_double(J)
  ELSE Infinity

\* Both points Jacobian.
ec_add_full(P, Q) ==
  LET U1 == P.X (.) Sqr(Q.Z)
      U2 == Q.X (.) Sqr(P.Z)
      S1 == P.Y (.) (Q.Z (.) Sqr(Q.Z))
      S2 == Q.Y (.) (P.Z (.) Sqr(P.Z))
      H  == U2 (-) U1
      r  == 2 (.) (S2 (-) S1)
      I  == 4 (.) Sqr(H)
      J  == H (.) I
      V  == U1 (.) I
      X  == Sqr(r) (-) (J + 2 * V)
      Z  == ((Sqr(P.Z (+) Q.Z) (-) Sqr(P.Z)) (-) Sqr(Q.Z)) (.) H
  IN  IF IsInfinity(P) THEN Q
      ELSE IF IsInfinity(Q) THEN P
      ELSE IF H # 0 THEN Jacobian(X, (r (.) (V - X)) (-) (2 * (S1 (.) J)), Z)
      ELSE IF r = 0 THEN ec_double(P)
      ELSE Infinity

apply_endomorphism(p) == Affine(p.x (.) Beta, p.y)
ec_negate(p) == Affine(p.x, FieldSize (-) p.y)

\* The inverses of z by one inversion.
batch_invert(z) ==
  LET n == Len(z)
      inv[i \in 1 .. n] == IF i = 1 THEN z[1] ELSE inv[i-1] (.) z[i]
      acc[i \in 1 .. n] == IF i = n THEN Inv[inv[n]] ELSE acc[i+1] (.) z[i+1]
  IN  [i \in 1 .. n |-> IF i = 1 THEN acc[1] ELSE acc[i] (.) inv[i-1]]

\* A difference in a register of Width bits, its borrow, and its top bit.
Diff(a, b) == (a - b) % 2^Width
TopBit(a) == a >= 2^(Width - 1)

\* k = k1 + k2 * lambda with two short halves and their signs: the halves are
\* computed modulo 2^Width, and a set top bit means a negative one.  B2 is A1.
glv_decompose(k) ==
  LET c1 == (k * G1) \div 2^Shift
      c2 == (k * G2) \div 2^Shift
      k1 == Diff(Diff(k, c1 * A1), c2 * A2)
      k2 == Diff(c1 * B1, c2 * A1)
      k1_neg == TopBit(k1)
      k2_neg == c1 * B1 < c2 * A1 \/ TopBit(k2)
  IN  [k1 |-> IF k1_neg THEN Diff(0, k1) ELSE k1,
       k2 |-> IF k2_neg THEN Diff(c2 * A1, c1 * B1) ELSE k2,
       neg1 |-> k1_neg, neg2 |-> k2_neg]

\* Window 0 of the two tables, the only one that is read: i * G, i * lambda G.
Row(p) ==
  LET points[i \in 0 .. 2^WindowBits - 1] ==
        IF i = 0 THEN Infinity
        ELSE IF i = 1 THEN Jacobian(p.x, p.y, 1)
        ELSE ec_add_mixed(points[i-1], p)
  IN  [i \in 0 .. 2^WindowBits - 1 |-> ToAffine(points[i])]
PrecompTable == Row(G)
PrecompTableLambda == Row(apply_endomorphism(G))

\* Adds the multiple of a window, negated when its half is negative.
AddWindow(R, table, n, neg) ==
  IF n = 0 THEN R ELSE ec_add_mixed(R, IF neg THEN ec_negate(table[n]) ELSE table[n])

\* Both halves from the top window down, with doublings in between.
ec_mul_glv(k) ==
  LET s == glv_decompose(k)
      Window(h, w) == (h \div 2^(w * WindowBits)) % 2^WindowBits
      Doubled(J) == LET D[i \in 0 .. WindowBits] == IF i = 0 THEN J ELSE ec_double(D[i-1])
                    IN  D[WindowBits]
      R[i \in 0 .. MaxWindow] ==
        IF i = 0 THEN Infinity
        ELSE LET w == MaxWindow - i
                 R1 == AddWindow(Doubled(R[i-1]), PrecompTable, Window(s.k1, w), s.neg1)
             IN  AddWindow(R1, PrecompTableLambda, Window(s.k2, w), s.neg2)
  IN  R[MaxWindow]

\* The public keys of base, base + 1, ..., as the thread compares them.
PublicKeys(base, keys) ==
  LET points[i \in 1 .. keys] ==
        IF i = 1 THEN ec_mul_glv(base) ELSE ec_add_mixed(points[i-1], G)
      z_inv == batch_invert([i \in 1 .. keys |-> points[i].Z])
  IN  [i \in 1 .. keys |-> Scaled(points[i], z_inv[i])]

\* The keys of a thread that it reports for the target, the first match only.
search_strided(base, keys, target) ==
  LET pub == PublicKeys(base, keys)
      match == {i \in 1 .. keys : pub[i] = target}
  IN  {base + i - 1 : i \in {j \in match : \A l \in match : j <= l}}
=============================================================================
