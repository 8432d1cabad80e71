------------------------------ MODULE CurveCpu -----------------------------
(* The point arithmetic of the CPU solver, crypto_cpu.hpp, for a result that *)
(* is a different object from the arguments; a caller that passes one point   *)
(* as both is Kangaroo's business (its Aliased).                               *)
EXTENDS Curve

CONSTANT Bits   \* the width of a scalar and of an exponent: 256

Bit(k, i) == (k \div 2^i) % 2

\* base^exp, from the lowest bit up.
mod_pow(base, exp) ==
  LET step[i \in 0 .. Bits] ==
        IF i = 0 THEN [r |-> 1, base |-> base]
        ELSE LET s == step[i-1]
             IN  [r |-> IF Bit(exp, i-1) = 1 THEN s.r (.) s.base ELSE s.r,
                  base |-> Sqr(s.base)]
      last == step[Bits]
  IN  last.r

mod_inv(a) == mod_pow(a, FieldSize - 2)

\* The point with this x whose y has the parity of the prefix, if there is one.
NoPoint == Affine(-1, -1)
decompress_pubkey(odd, x) ==
  LET y2 == (x (.) Sqr(x)) (+) 7
      y  == mod_pow(y2, (FieldSize + 1) \div 4)
  IN  IF Sqr(y) # y2 THEN NoPoint
      ELSE Affine(x, IF y % 2 = odd THEN y ELSE FieldSize - y)

Infinity == Jacobian(1, 1, 0)

ec_double(J) == IF IsInfinity(J) THEN Infinity ELSE DoubleFormula(J)

ec_add(J, q) ==
  IF IsInfinity(J) THEN Jacobian(q.x, q.y, 1)
  ELSE IF MixedH(J, q) # 0 THEN AddFormula(J, q)
  ELSE IF 2 (.) MixedR(J, q) = 0 THEN ec_double(J)
  ELSE Infinity

\* Double and add from the top bit, through a temporary.
ec_mul(k) ==
  LET R[i \in 0 .. Bits] ==
        IF i = 0 THEN Infinity
        ELSE LET T == ec_double(R[i-1])
             IN  IF Bit(k, Bits - i) = 1 THEN ec_add(T, G) ELSE T
  IN  R[Bits]

ec_to_affine(J) == Scaled(J, mod_inv(J.Z))
=============================================================================
