------------------------------ MODULE Inverse ------------------------------
(***************************************************************************)
(* The exponents by which the code takes inverses and square roots, at     *)
(* their real size: a^e is written as the set of the bits of e, so that a  *)
(* squaring shifts the set and a product adds two sets as numbers.         *)
(***************************************************************************)
EXTENDS Integers

RECURSIVE Times(_, _)
Times(e, f) ==
  IF e \cap f = {} THEN e \cup f
  ELSE Times((e \ f) \cup (f \ e), {b + 1 : b \in e \cap f})

Squared(e, n) == {b + n : b \in e}

a == {0}     \* the number itself: exponent 1

\* The constants as they are written: p = FF...FF FFFFFFFE FFFFFC2F, and the
\* exponent of the square root 3FF...FF FFFFFFFF BFFFFF0C.
SECP256K1_P == (0 .. 255) \ {4, 6, 7, 8, 9, 32}
exp_sqrt    == (0 .. 253) \ {0, 1, 4, 5, 6, 7, 30}

\* The addition chain of all four copies: xN = a^(2^N - 1), three bits at a
\* time, then by doubling the length, then 223 ones by another factor of
\* three bits; the rest of p - 2 is 0, 22 ones, 0000, 1, 0, 11, 0, 1.
x2 == Times(Squared(a, 1), a)
x3 == Times(Squared(x2, 1), a)
Longer(x, y, n) == Times(Squared(x, n), y)
Chain(threeBits) ==
  LET x6   == Longer(x3, x3, 3)
      x9   == Longer(x6, x3, 3)
      x11  == Longer(x9, x2, 2)
      x22  == Longer(x11, x11, 11)
      x44  == Longer(x22, x22, 22)
      x88  == Longer(x44, x44, 44)
      x176 == Longer(x88, x88, 88)
      x220 == Longer(x176, x44, 44)
      x223 == Longer(x220, threeBits, 3)
      t1   == Longer(x223, x22, 23)
      t2   == Longer(t1, a, 5)
      t3   == Longer(t2, x2, 3)
  IN  Longer(t3, a, 2)

kangaroo_mod_inv == Chain(x3)
puzzle_mod_inv   == Chain(x3)
secp_mod_inv     == Chain(x3)
metal_mod_inv    == Chain(x3)

-----------------------------------------------------------------------------
\* The written p is 2^256 - 2^32 - 977 (977 is 1111010001), the chains raise
\* to p - 2, and four times the square root's exponent is p + 1.
PIsRight    == Times(Times(SECP256K1_P, {32}), {0, 4, 6, 7, 8, 9}) = {256}
InvIsRight(chain) == Times(chain, {1}) = SECP256K1_P
SqrtIsRight == Squared(exp_sqrt, 2) = Times(SECP256K1_P, {0})
=============================================================================
