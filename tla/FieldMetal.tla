---------------------------- MODULE FieldMetal -----------------------------
(* The field arithmetic of the Metal kernels, kangaroo.metal and             *)
(* puzzle.metal: Metal has no 128-bit type, so a product is put together      *)
(* from half words and every carry is passed on by hand.                      *)
EXTENDS Words

\* The words of a sum and of a difference, with the last carry or borrow.
metal_addc(a, b) == Carried([i \in Idx |-> a[i] + b[i]])
metal_subb(a, b) == Carried([i \in Idx |-> a[i] - b[i]])

\* x * y by halves: the two words of the product, each in a word's width.
metal_mul128(x, y) ==
  LET xl == x % Half   xh == x \div Half
      yl == y % Half   yh == y \div Half
      p1 == xl * yh
      p2 == xh * yl
      mid == (((xl * yl) \div Half) + (p1 % Half) + (p2 % Half)) % B
  IN  [lo |-> ((xl * yl) % Half) + ((mid * Half) % B),
       hi |-> ((xh * yh) + (p1 \div Half) + (p2 \div Half) + (mid \div Half)) % B]

\* acc + x * y + carry, with both carries passed on.
metal_Sums(acc, m, carry) ==
  LET s0 == acc + m.lo
      s1 == (s0 % B) + carry
  IN  [word |-> s1 % B, carry |-> (m.hi + s0 \div B + s1 \div B) % B]
metal_Column(acc, x, y, carry) == metal_Sums(acc, metal_mul128(x, y), carry)

\* A row of a product: acc + x * y, in four words and a carry.
metal_Row(acc, x, y) ==
  LET c0 == metal_Column(acc[0], x, y[0], 0)
      c1 == metal_Column(acc[1], x, y[1], c0.carry)
      c2 == metal_Column(acc[2], x, y[2], c1.carry)
      c3 == metal_Column(acc[3], x, y[3], c2.carry)
  IN  [w |-> FourWords(c0.word, c1.word, c2.word, c3.word), carry |-> c3.carry]

metal_Product(a, b) ==
  LET r0 == metal_Row(Zero, a[0], b)
      r1 == metal_Row(Above(r0), a[1], b)
      r2 == metal_Row(Above(r1), a[2], b)
      r3 == metal_Row(Above(r2), a[3], b)
  IN  [low |-> FourWords(r0.w[0], r1.w[0], r2.w[0], r3.w[0]), high |-> Above(r3)]

\* What every operation ends with: P off a number that reached it.
metal_BelowP(t) == IF Geq(t, P) THEN metal_subb(t, P).w ELSE t

\* A carry out of the top word is worth C.
metal_AddCarry(s) == IF s.carry # 0 THEN metal_addc(s.w, FourWords(C, 0, 0, 0)).w ELSE s.w

metal_mod_add(a, b) == metal_BelowP(metal_AddCarry(metal_addc(a, b)))

metal_mod_sub(a, b) ==
  LET d == metal_subb(a, b) IN IF d.carry # 0 THEN metal_addc(d.w, P).w ELSE d.w

\* The high half times C is added to the low one, then what is above four
\* words times C.
metal_FoldHigh(prod) ==
  LET h == metal_Row(Zero, C, prod.high)
      t == metal_addc(prod.low, h.w)
  IN  [w |-> t.w, carry |-> (t.carry + h.carry) % B]

metal_FoldTop(f) ==
  LET o == metal_mul128(f.carry, C)
  IN  metal_addc(f.w, FourWords(o.lo, o.hi, 0, 0))

metal_mod_mul(a, b) ==
  metal_BelowP(metal_AddCarry(metal_FoldTop(metal_FoldHigh(metal_Product(a, b)))))
=============================================================================
