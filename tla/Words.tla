------------------------------- MODULE Words -------------------------------
(***************************************************************************)
(* The machine numbers of the field arithmetic: a 256-bit number is four   *)
(* words of base B, every word operation keeps B's width, and the prime of *)
(* the curve is B^4 - C.  The 64-bit word is Half*Half and C is Half + K,  *)
(* as 2^64 = 2^32 * 2^32 and 0x1000003D1 = 2^32 + 977 in the code; the      *)
(* code that works with eight 32-bit words works in base Half.             *)
(***************************************************************************)
EXTENDS Integers

CONSTANTS
  Half,   \* half a word: 2^32
  K       \* the low part of C: 977

ASSUME WordsAssumption ==
  /\ Half \in Nat /\ K \in Nat \ {0}
  /\ Half > 2 * K /\ (Half + K + 2) * K < Half * Half

B == Half * Half
C == Half + K

Idx  == 0 .. 3
Word == 0 .. B - 1
U256 == [Idx -> Word]

FourWords(w0, w1, w2, w3) ==
  [i \in Idx |-> IF i = 0 THEN w0 ELSE IF i = 1 THEN w1 ELSE IF i = 2 THEN w2 ELSE w3]

\* The number four words stand for, and the words of a number.
Val(a) == a[0] + B * (a[1] + B * (a[2] + B * a[3]))
ToWords(n) == FourWords(n % B, (n \div B) % B, (n \div (B * B)) % B, n \div (B * B * B))

Zero == FourWords(0, 0, 0, 0)
P    == FourWords(B - C, B - 1, B - 1, B - 1)
Prime == B * B * B * B - C

Bit(test) == IF test THEN 1 ELSE 0

\* operator>= on 256-bit numbers: from the top word down.
Geq(a, b) ==
  \/ a[3] > b[3]
  \/ a[3] = b[3] /\ a[2] > b[2]
  \/ a[3] = b[3] /\ a[2] = b[2] /\ a[1] > b[1]
  \/ a[3] = b[3] /\ a[2] = b[2] /\ a[1] = b[1] /\ a[0] >= b[0]

-----------------------------------------------------------------------------
(* What the copies of the field arithmetic share.                           *)

\* Four sums of words, each with the carry of the one below it.  \div rounds
\* down, so that a borrow is a carry of -1.
Carried(t) ==
  LET s0 == t[0]
      s1 == t[1] + s0 \div B
      s2 == t[2] + s1 \div B
      s3 == t[3] + s2 \div B
  IN  [w |-> FourWords(s0 % B, s1 % B, s2 % B, s3 % B), carry |-> s3 \div B]

\* One word of a product: acc + x*y + carry, every sum wrapped to a word and
\* its carry read off the wrapped sum, as the code does.
MulAdd(acc, x, y, carry) ==
  LET s1 == (acc + ((x * y) % B)) % B
      s2 == (s1 + carry) % B
  IN  [word |-> s2, carry |-> ((x * y) \div B + Bit(s1 < acc) + Bit(s2 < carry)) % B]

\* One row of a schoolbook product: acc + x * b, in four words and a carry.
MulRow(acc, x, b) ==
  LET m0 == MulAdd(acc[0], x, b[0], 0)
      m1 == MulAdd(acc[1], x, b[1], m0.carry)
      m2 == MulAdd(acc[2], x, b[2], m1.carry)
      m3 == MulAdd(acc[3], x, b[3], m2.carry)
  IN  [w |-> FourWords(m0.word, m1.word, m2.word, m3.word), carry |-> m3.carry]

\* The lowest word of a row is a word of the product; the next row starts
\* from the others and the carry, which goes into a word no row has touched.
Above(r) == FourWords(r.w[1], r.w[2], r.w[3], r.carry)

\* The eight words of a * b.
Product(a, b) ==
  LET r0 == MulRow(Zero, a[0], b)
      r1 == MulRow(Above(r0), a[1], b)
      r2 == MulRow(Above(r1), a[2], b)
      r3 == MulRow(Above(r2), a[3], b)
  IN  [low |-> FourWords(r0.w[0], r1.w[0], r2.w[0], r3.w[0]), high |-> Above(r3)]

-----------------------------------------------------------------------------
(* What the field arithmetic has to compute, on numbers (b is taken word by *)
(* word, so that TLC's integers suffice).                                   *)

FieldAdd(x, y) == (x + y) % Prime
FieldSub(x, y) == (x - y) % Prime
FieldMul(x, y) ==
  LET w == ToWords(y)
      h == (((x * w[3]) % Prime) * B + x * w[2]) % Prime
  IN  (((h * B + x * w[1]) % Prime) * B + x * w[0]) % Prime
=============================================================================
