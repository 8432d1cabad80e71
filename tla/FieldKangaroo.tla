--------------------------- MODULE FieldKangaroo ---------------------------
(* The field arithmetic of the GPU kangaroos, kangaroo_kernel.cu.           *)
EXTENDS Words

kangaroo_add256_carry(a, b) == Carried([i \in Idx |-> a[i] + b[i]])

\* a - b as a + ~b + 1, the last carry dropped: every caller ignores it.
kangaroo_sub256(a, b) ==
  Carried([i \in Idx |-> a[i] + (B - 1 - b[i]) + (IF i = 0 THEN 1 ELSE 0)]).w

kangaroo_mod_p(a) == IF Geq(a, P) THEN kangaroo_sub256(a, P) ELSE a

\* 2^256 = C modulo p: a lost carry is worth C, and so is a second one.
kangaroo_mod_add(a, b) ==
  LET s == kangaroo_add256_carry(a, b)
      t == kangaroo_add256_carry(s.w, FourWords(C, 0, 0, 0))
      u == kangaroo_add256_carry(t.w, FourWords(C, 0, 0, 0))
  IN  kangaroo_mod_p(IF s.carry = 0 THEN s.w ELSE IF t.carry = 0 THEN t.w ELSE u.w)

kangaroo_mod_sub(a, b) ==
  IF Geq(a, b) THEN kangaroo_sub256(a, b) ELSE kangaroo_sub256(P, kangaroo_sub256(b, a))

kangaroo_mul256_512(a, b) == Product(a, b)

\* high * C onto low, as high * K and then high shifted by half a word; the
\* fifth word gathers what does not fit.
kangaroo_FoldHigh(prod) ==
  LET byK  == MulRow(prod.low, K, prod.high)
      half == MulRow(byK.w, Half, prod.high)
  IN  [w |-> half.w, extra |-> (byK.carry + half.carry) % B]

\* One pass of the loop: extra * C onto the lowest two words, and the carry
\* through the others.
kangaroo_FoldExtra(acc) ==
  LET m == acc.extra * C
      s == Carried(FourWords(acc.w[0] + (m % B), acc.w[1] + m \div B, acc.w[2], acc.w[3]))
  IN  [w |-> s.w, extra |-> s.carry]

\* The loop runs while something is left over; three times are enough, and
\* a fourth would show as a wrong product.
kangaroo_Loop(acc) == IF acc.extra > 0 THEN kangaroo_FoldExtra(acc) ELSE acc
kangaroo_reduce_512(prod) ==
  kangaroo_mod_p(kangaroo_Loop(kangaroo_Loop(kangaroo_Loop(kangaroo_FoldHigh(prod)))).w)

kangaroo_mod_mul(a, b) == kangaroo_reduce_512(kangaroo_mul256_512(a, b))
=============================================================================
