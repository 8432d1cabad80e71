----------------------------- MODULE CurveMetal ----------------------------
(* The point arithmetic of the Metal kernels, kangaroo.metal and             *)
(* puzzle.metal: the Jacobian formulas of the CUDA kangaroos, affine points   *)
(* for the self test, a shared inversion that survives a point at infinity,   *)
(* and the search of consecutive keys, one thread for each.                   *)
EXTENDS CurveKangaroo

CONSTANTS
  WindowSize, NumWindows,   \* the table of puzzle.metal: 8 bits, 32 windows
  Bits                      \* the width of a scalar: 256

jac_double(J) == IF IsInfinity(J) \/ J.Y = 0 THEN Infinity ELSE DoubleFormula(J)

\* puzzle.metal takes an addend (0, 0) for infinity; kangaroo.metal has none.
jac_add_mixed(J, q) == IF q = O THEN J ELSE ec_add_mixed(J, q)

point_add_distinct(p, q) == ec_add_affine_with_inv(p, q, Inv[q.x (-) p.x])

point_double_affine(p) ==
  LET s == (3 * Sqr(p.x)) (.) Inv[2 (.) p.y]
      x == Sqr(s) (-) (2 * p.x)
  IN  Affine(x, (s (.) (p.x - x)) (-) p.y)

point_op_affine(p, q) ==
  IF p.x # q.x THEN point_add_distinct(p, q)
  ELSE IF p.y = q.y THEN point_double_affine(p) ELSE O

\* From the lowest bit up: the sum of the powers of two in the scalar, and
\* the next power.
priv_to_pub(k) ==
  LET step[i \in 0 .. Bits] ==
        IF i = 0 THEN [have |-> FALSE, r |-> O, base |-> G]
        ELSE LET s == step[i-1]
                 set == (k \div 2^(i-1)) % 2 = 1
             IN  [have |-> s.have \/ set,
                  r    |-> IF ~set THEN s.r ELSE IF s.have THEN point_op_affine(s.r, s.base) ELSE s.base,
                  base |-> point_double_affine(s.base)]
      last == step[Bits]
  IN  IF last.have THEN last.r ELSE O

\* The points of a threadgroup by one inversion.  A point at infinity takes
\* part in it with Z = 1, and comes out as (0, 0).
tg_batch_jac_to_affine(points) ==
  LET z == [lane \in 1 .. Len(points) |-> IF IsInfinity(points[lane]) THEN 1 ELSE points[lane].Z]
      z_inv == batch_mod_inv(z)
  IN  [lane \in 1 .. Len(points) |-> Scaled(points[lane], z_inv[lane])]

\* The table the host fills with the CPU arithmetic: entry d of window w is
\* d times 2^(WindowSize * w) * G; entry 0 is never read.
Host == INSTANCE CurveCpu

build_g_table ==
  [w \in 0 .. NumWindows - 1 |->
     LET base_point == Host!ec_to_affine(Host!ec_mul(2^(WindowSize * w)))
         acc[d \in 1 .. 2^WindowSize - 1] ==
           IF d = 1 THEN Jacobian(base_point.x, base_point.y, 1) ELSE Host!ec_add(acc[d-1], base_point)
     IN  [d \in 0 .. 2^WindowSize - 1 |-> IF d = 0 THEN O ELSE Host!ec_to_affine(acc[d])]]

scalar_mul_g(k) ==
  LET R[w \in 0 .. NumWindows] ==
        IF w = 0 THEN Infinity
        ELSE LET byte_val == (k \div 2^(WindowSize * (w - 1))) % 2^WindowSize
             IN  IF byte_val = 0 THEN R[w-1] ELSE jac_add_mixed(R[w-1], build_g_table[w-1][byte_val])
  IN  R[NumWindows]

\* The keys of a dispatch whose point is the target: thread gid tries
\* start + gid, and leaves when its point is infinity.
puzzle_search(start, total_keys, target) ==
  {k \in {start + gid : gid \in 0 .. total_keys - 1} :
     LET J == scalar_mul_g(k) IN ~IsInfinity(J) /\ ToAffine(J) = target}
=============================================================================
