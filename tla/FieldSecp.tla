----------------------------- MODULE FieldSecp -----------------------------
(* The field arithmetic of the batch kernels, secp256k1.cu: eight words of  *)
(* half the width.                                                          *)
EXTENDS Words

Limbs == 0 .. 7
P8 == [i \in Limbs |-> IF i = 0 THEN Half - K ELSE IF i = 1 THEN Half - 2 ELSE Half - 1]

\* The eight words of four, and back.
ToLimbs(a)   == [i \in Limbs |-> IF i % 2 = 0 THEN a[i \div 2] % Half ELSE a[i \div 2] \div Half]
FromLimbs(l) == [i \in Idx |-> l[2*i] + Half * l[2*i + 1]]

\* Eight sums, each with the carry of the one below it, and the last carry
\* above them; a borrow is a carry of -1.
CarriedLimbs(t) ==
  LET s0 == t[0]
      s1 == t[1] + s0 \div Half
      s2 == t[2] + s1 \div Half
      s3 == t[3] + s2 \div Half
      s4 == t[4] + s3 \div Half
      s5 == t[5] + s4 \div Half
      s6 == t[6] + s5 \div Half
      s7 == t[7] + s6 \div Half
      l  == <<s0 % Half, s1 % Half, s2 % Half, s3 % Half, s4 % Half, s5 % Half, s6 % Half,
              s7 % Half, s7 \div Half>>
  IN  [i \in 0 .. 8 |-> l[i + 1]]

Low(l) == [i \in Limbs |-> l[i]]

uint256_add(a, b) == CarriedLimbs([i \in Limbs |-> a[i] + b[i]])
uint256_sub(a, b) == CarriedLimbs([i \in Limbs |-> a[i] - b[i]])

\* uint256_cmp(a, b) >= 0
AtLeast(a, b) == Geq(FromLimbs(a), FromLimbs(b))

\* mod_reduce subtracts p until it is below, which is at most once.
mod_reduce(a) == IF AtLeast(a, P8) THEN Low(uint256_sub(a, P8)) ELSE a

secp_mod_add(a, b) ==
  LET s == uint256_add(a, b)
  IN  IF s[8] # 0 \/ AtLeast(s, P8) THEN Low(uint256_sub(s, P8)) ELSE Low(s)

secp_mod_sub(a, b) ==
  LET d == uint256_sub(a, b)
  IN  IF d[8] # 0 THEN Low(uint256_add(d, P8)) ELSE Low(d)

\* A row's lowest limb is one of the product, the next row starts from the
\* others.
LimbRow(below, x, b) == CarriedLimbs([j \in Limbs |-> below[j+1] + x * b[j]])

\* Sixteen limbs.
uint256_mul_512_ptx(a, b) ==
  LET r0 == LimbRow([i \in 0 .. 8 |-> 0], a[0], b)
      r1 == LimbRow(r0, a[1], b)
      r2 == LimbRow(r1, a[2], b)
      r3 == LimbRow(r2, a[3], b)
      r4 == LimbRow(r3, a[4], b)
      r5 == LimbRow(r4, a[5], b)
      r6 == LimbRow(r5, a[6], b)
      r7 == LimbRow(r6, a[7], b)
      l  == <<r0[0], r1[0], r2[0], r3[0], r4[0], r5[0], r6[0], r7[0]>>
  IN  [low |-> [i \in Limbs |-> l[i + 1]], high |-> [i \in Limbs |-> r7[i + 1]]]

\* high * C in ten limbs: high * K, then high added one limb further up.
HighTimesC(high) ==
  LET k == CarriedLimbs([i \in Limbs |-> high[i] * K])
      u == CarriedLimbs([i \in Limbs |-> k[i+1] + high[i]])
  IN  [i \in 0 .. 9 |-> IF i = 0 THEN k[0] ELSE u[i-1]]

\* A word (two limbs wide) times C onto the lowest limbs, carried to the top.
AddExtra(a, extra) ==
  LET m == (extra * K) % B
      x(i) == CASE i = 0 -> m % Half
                [] i = 1 -> m \div Half + (extra % Half)
                [] i = 2 -> extra \div Half
                [] OTHER -> 0
  IN  CarriedLimbs([i \in Limbs |-> a[i] + x(i)])

\* The high half times C is added to the low one; extra is what is above it.
secp_FoldHigh(prod) ==
  LET hc  == HighTimesC(prod.high)
      sum == uint256_add(prod.low, hc)
  IN  [sum |-> sum, extra |-> (hc[9] * Half + hc[8] + sum[8]) % B]

\* The carry that leaves the top is worth one C more.
secp_FoldExtra(f) ==
  LET once == AddExtra(f.sum, f.extra)
  IN  IF once[8] # 0 THEN AddExtra(once, once[8]) ELSE once

secp_mod_mul(a, b) ==
  mod_reduce(Low(secp_FoldExtra(secp_FoldHigh(uint256_mul_512_ptx(a, b)))))
=============================================================================
