--------------------------- MODULE CurveKangaroo ---------------------------
(* The point arithmetic of the GPU kangaroos, kangaroo_kernel.cu: Jacobian   *)
(* points with a formula of their own, and affine points that share one       *)
(* inversion per group of kangaroos.                                          *)
EXTENDS Curve, Sequences

Infinity == Jacobian(0, 0, 0)

ec_double_jacobian(J) == IF IsInfinity(J) \/ J.Y = 0 THEN Infinity ELSE DoubleFormula(J)

ec_add_mixed(J, q) ==
  LET h  == MixedH(J, q)
      r  == MixedR(J, q)
      h3 == h (.) Sqr(h)
      v  == J.X (.) Sqr(h)
      X  == Sqr(r) (-) (h3 + 2 * v)
  IN  IF IsInfinity(J) THEN Jacobian(q.x, q.y, 1)
      ELSE IF h # 0 THEN Jacobian(X, (r (.) (v - X)) (-) (J.Y * h3), J.Z (.) h)
      ELSE IF r = 0 THEN ec_double_jacobian(J)
      ELSE Infinity

ec_to_affine(J) == ToAffine(J)

\* The inverses of a sequence by one inversion: running products forward, the
\* inverse of the last, and back down through the saved numbers.
batch_mod_inv(dx) ==
  LET n == Len(dx)
      products[g \in 1 .. n] == IF g = 1 THEN dx[1] ELSE products[g-1] (.) dx[g]
      inv_all[g \in 1 .. n] == IF g = n THEN Inv[products[n]] ELSE inv_all[g+1] (.) dx[g+1]
  IN  [g \in 1 .. n |-> IF g = 1 THEN inv_all[1] ELSE inv_all[g] (.) products[g-1]]

\* The same over the Z of a warp's points; a lane at infinity reports (0, 0).
warp_batch_jacobian_to_affine(points) ==
  LET z_inv == batch_mod_inv([lane \in 1 .. Len(points) |-> points[lane].Z])
  IN  [lane \in 1 .. Len(points) |-> Scaled(points[lane], z_inv[lane])]

\* p + q with 1/(q.x - p.x) already known; nothing checks that it exists.
ec_add_affine_with_inv(p, q, dx_inv) ==
  LET s == (q.y - p.y) (.) dx_inv
      x == (Sqr(s) (-) p.x) (-) q.x
  IN  Affine(x, (s (.) (p.x - x)) (-) p.y)
=============================================================================
