---------------------------- MODULE FieldProofs ----------------------------
(***************************************************************************)
(* The copies of the field arithmetic are right for every size of the word *)
(* and every prime of the form B^4 - C, so for the prime of secp256k1, and  *)
(* for any operands: FieldCorrect. Each carry, borrow and comparison on     *)
(* words is turned into a fact about the numbers the words stand for (Val); *)
(* each fold of a product into a multiple of the prime taken away (Leaves). *)
(***************************************************************************)
EXTENDS FieldRegisters, TLAPS

-----------------------------------------------------------------------------
(* Numbers: the sizes, division, the prime.                                  *)

(* What is assumed of half a word and of the low part of C, and what         *)
(* follows.                                                                  *)
LEMMA Sizes == /\ Half \in Nat /\ K \in Nat /\ B \in Nat /\ C \in Nat
               /\ K >= 1 /\ Half > 2 * K /\ B > 2 * C /\ C > Half
<1>. QED  BY WordsAssumption DEF B, C

(* Division with a remainder, rounding down.                                 *)
LEMMA Divides ==
  ASSUME NEW m \in Nat, m > 0, NEW n \in Int
  PROVE  n \div m \in Int /\ n % m \in 0 .. m - 1 /\ n = (n % m) + m * (n \div m)
<1>1. n \div m \in Int /\ m * (n \div m) \in Int /\ n % m \in 0 .. m - 1
  OBVIOUS
<1>2. n - m * (n \div m) = n % m
  BY SMTT(30)
<1>. QED  BY <1>1, <1>2

(* There is only one quotient with a remainder in range.                     *)
LEMMA DivUnique ==
  ASSUME NEW m \in Nat, m > 0, NEW q \in Int, NEW r \in 0 .. m - 1
  PROVE  (r + m * q) \div m = q /\ (r + m * q) % m = r
OBVIOUS

(* B^4, what a carry out of the top word is worth.                           *)
Top == B * B * B * B

Numbers == [Idx -> Int]

(* One more digit.                                                           *)
LEMMA OneMore ==
  ASSUME NEW m \in Nat, NEW b \in Nat, NEW u \in 0 .. m - 1, NEW w \in 0 .. b - 1
  PROVE  w + b * u \in 0 .. b * m - 1
<1>1. b * u \in Int /\ b * m \in Int /\ b * (m - 1) = b * m - b
  OBVIOUS
<1>2. b * u <= b * (m - 1) /\ b * u >= 0
  OBVIOUS
<1>. QED  BY <1>1, <1>2

(* What four words are, one by one and as a function.                        *)
LEMMA FourWordsAre ==
  ASSUME NEW w0, NEW w1, NEW w2, NEW w3
  PROVE  LET f == FourWords(w0, w1, w2, w3)
         IN  /\ f[0] = w0 /\ f[1] = w1 /\ f[2] = w2 /\ f[3] = w3
             /\ w0 \in Int /\ w1 \in Int /\ w2 \in Int /\ w3 \in Int => f \in Numbers
             /\ w0 \in Word /\ w1 \in Word /\ w2 \in Word /\ w3 \in Word => f \in U256
BY DEF FourWords, Idx, Numbers, U256

(* The number of four words, written out.                                    *)
LEMMA ValWords ==
  ASSUME NEW w0, NEW w1, NEW w2, NEW w3
  PROVE  Val(FourWords(w0, w1, w2, w3)) = w0 + B * (w1 + B * (w2 + B * w3))
<1>. DEFINE f == FourWords(w0, w1, w2, w3)
<1>1. f[0] = w0 /\ f[1] = w1 /\ f[2] = w2 /\ f[3] = w3
  BY FourWordsAre
<1>2. Val(f) = f[0] + B * (f[1] + B * (f[2] + B * f[3]))
  BY DEF Val
<1>. HIDE DEF f
<1>3. Val(f) = w0 + B * (w1 + B * (w2 + B * w3))
  BY <1>1, <1>2, Zenon
<1>. QED  BY <1>3 DEF f

(* The prime is C below 2^256, and two C still leave much.                   *)
LEMMA TopIs == Top \in Nat /\ Top = B * (B * (B * B)) /\ Top > 4 * C * C /\ Prime \in Nat
               /\ Prime = Top - C /\ Prime > C
<1>. USE Sizes
<1>1. B * B \in Nat /\ B * (B * B) \in Nat /\ B * (B * (B * B)) \in Nat
  OBVIOUS
<1>2. Top = B * (B * (B * B))
  BY DEF Top
<1>3. B * B > 4 * (C * C)
  <2>1. B * B >= B * (2 * C) /\ B * (2 * C) >= (2 * C) * (2 * C)
    OBVIOUS
  <2>. QED BY <2>1
<1>. QED  BY <1>1, <1>2, <1>3 DEF Top, Prime

(* Four words are below 2^256.                                               *)
LEMMA ValFits ==
  ASSUME NEW a \in U256
  PROVE  a \in Numbers /\ Val(a) \in 0 .. Top - 1
<1>. USE Sizes
<1>1. a[0] \in 0 .. B - 1 /\ a[1] \in 0 .. B - 1 /\ a[2] \in 0 .. B - 1 /\ a[3] \in 0 .. B - 1
  BY DEF U256, Idx, Word
<1>2. B * B \in Nat /\ B * (B * B) \in Nat
  OBVIOUS
<1>3. a[2] + B * a[3] \in 0 .. B * B - 1
  BY <1>1, OneMore
<1>4. a[1] + B * (a[2] + B * a[3]) \in 0 .. B * (B * B) - 1
  BY <1>1, <1>2, <1>3, OneMore
<1>5. a[0] + B * (a[1] + B * (a[2] + B * a[3])) \in 0 .. B * (B * (B * B)) - 1
  BY <1>1, <1>2, <1>4, OneMore
<1>6. a \in Numbers
  BY DEF U256, Word, Idx, Numbers
<1>. QED  BY <1>5, <1>6, TopIs DEF Val

(* Four additions with carry as one.                                         *)
LEMMA FourSums ==
  ASSUME NEW v0 \in Int, NEW v1 \in Int, NEW v2 \in Int, NEW v3 \in Int,
         NEW w0 \in Int, NEW w1 \in Int, NEW w2 \in Int, NEW w3 \in Int,
         NEW c0 \in Int, NEW c1 \in Int, NEW c2 \in Int, NEW q \in Int,
         v0 = w0 + B * c0, v1 + c0 = w1 + B * c1, v2 + c1 = w2 + B * c2, v3 + c2 = w3 + B * q
  PROVE  v0 + B * (v1 + B * (v2 + B * v3)) = w0 + B * (w1 + B * (w2 + B * w3)) + Top * q
<1>. USE Sizes
<1>1. v0 = w0 + B * c0 /\ v1 = w1 + B * c1 - c0 /\ v2 = w2 + B * c2 - c1 /\ v3 = w3 + B * q - c2
  OBVIOUS
<1>2. v0 + B * (v1 + B * (v2 + B * v3))
        = w0 + B * (w1 + B * (w2 + B * w3)) + (B * (B * (B * B))) * q
  BY <1>1
<1>. QED  BY <1>2, TopIs, Zenon

(* A number is its lowest word and what is above it.                         *)
LEMMA Split ==
  ASSUME NEW s \in Int
  PROVE  \E c \in Int, w \in Word : c = s \div B /\ w = s % B /\ s = w + B * c
BY Sizes, Divides DEF Word

(* Carrying loses nothing.                                                   *)
LEMMA CarriedIs ==
  ASSUME NEW t \in Numbers
  PROVE  LET s == Carried(t)
         IN  /\ s.w \in U256 /\ s.carry \in Int
             /\ Val(t) = Val(s.w) + Top * s.carry
<1>1. PICK v0 \in Int, v1 \in Int, v2 \in Int, v3 \in Int :
        v0 = t[0] /\ v1 = t[1] /\ v2 = t[2] /\ v3 = t[3]
  BY DEF Numbers, Idx
<1>2. PICK c0 \in Int, w0 \in Word : c0 = v0 \div B /\ w0 = v0 % B /\ v0 = w0 + B * c0
  BY Split
<1>3. PICK c1 \in Int, w1 \in Word : c1 = (v1 + c0) \div B /\ w1 = (v1 + c0) % B /\ v1 + c0 = w1 + B * c1
  <2>1. v1 + c0 \in Int
    OBVIOUS
  <2>. QED  BY <2>1, Split
<1>4. PICK c2 \in Int, w2 \in Word : c2 = (v2 + c1) \div B /\ w2 = (v2 + c1) % B /\ v2 + c1 = w2 + B * c2
  <2>1. v2 + c1 \in Int
    OBVIOUS
  <2>. QED  BY <2>1, Split
<1>5. PICK c3 \in Int, w3 \in Word : c3 = (v3 + c2) \div B /\ w3 = (v3 + c2) % B /\ v3 + c2 = w3 + B * c3
  <2>1. v3 + c2 \in Int
    OBVIOUS
  <2>. QED  BY <2>1, Split
<1>6. Carried(t) = [w |-> FourWords(w0, w1, w2, w3), carry |-> c3]
  BY <1>1, <1>2, <1>3, <1>4, <1>5, Zenon DEF Carried
<1>7. w0 \in Int /\ w1 \in Int /\ w2 \in Int /\ w3 \in Int
  BY Sizes DEF Word
<1>8. v0 = w0 + B * c0 /\ v1 + c0 = w1 + B * c1 /\ v2 + c1 = w2 + B * c2 /\ v3 + c2 = w3 + B * c3
  BY <1>2, <1>3, <1>4, <1>5
<1>9. v0 + B * (v1 + B * (v2 + B * v3)) = w0 + B * (w1 + B * (w2 + B * w3)) + Top * c3
  BY <1>7, <1>8, FourSums
<1>10. Val(t) = v0 + B * (v1 + B * (v2 + B * v3))
  BY <1>1, Zenon DEF Val
<1>11. /\ FourWords(w0, w1, w2, w3) \in U256
       /\ Val(FourWords(w0, w1, w2, w3)) = w0 + B * (w1 + B * (w2 + B * w3))
  BY FourWordsAre DEF Val
<1>. QED  BY <1>6, <1>9, <1>10, <1>11

(* How the carry tells where the sum was.                                    *)
LEMMA CarryTells ==
  ASSUME NEW t \in Numbers
  PROVE  LET s == Carried(t)
         IN  /\ Val(t) \in 0 .. Top - 1 => s.carry = 0 /\ Val(s.w) = Val(t)
             /\ Val(t) \in Top .. 2 * Top - 1 => s.carry = 1 /\ Val(s.w) = Val(t) - Top
             /\ Val(t) \in -Top .. -1 => s.carry = -1 /\ Val(s.w) = Val(t) + Top
<1>. DEFINE w == Carried(t).w
            q == Carried(t).carry
<1>1. w \in U256 /\ q \in Int /\ Val(t) = Val(w) + Top * q
  BY CarriedIs
<1>2. Top \in Nat /\ Top > 0 /\ Val(w) \in 0 .. Top - 1
  <2>1. Top > 0
    BY TopIs, Sizes
  <2>. QED  BY <1>1, <2>1, ValFits, TopIs
<1>. HIDE DEF w, q
<1>3. ASSUME NEW v \in 0 .. Top - 1, NEW n \in Int, n = v + Top * q
      PROVE  /\ n \in 0 .. Top - 1 => q = 0 /\ v = n
             /\ n \in Top .. 2 * Top - 1 => q = 1 /\ v = n - Top
             /\ n \in -Top .. -1 => q = -1 /\ v = n + Top
  <2>1. q >= 2 => Top * q >= Top * 2
    BY <1>1, <1>2
  <2>2. q <= -2 => Top * q <= -(2 * Top)
    BY <1>1, <1>2
  <2>3. q \in {-1, 0, 1} \/ q >= 2 \/ q <= -2
    BY <1>1
  <2>4. q = 0 => Top * q = 0
    BY <1>2
  <2>5. q = 1 => Top * q = Top
    BY <1>2
  <2>6. q = -1 => Top * q = -Top
    BY <1>2
  <2>7. Top * q \in Int
    BY <1>1, <1>2
  <2>. QED  BY <1>1, <1>2, <1>3, <2>1, <2>2, <2>3, <2>4, <2>5, <2>6, <2>7
<1>4. Val(t) \in Int
  BY <1>1, <1>2
<1>. QED  BY <1>1, <1>2, <1>3, <1>4 DEF w, q

(* The higher digit decides, the lower one when they are equal.              *)
LEMMA Lexical ==
  ASSUME NEW w \in Word, NEW u \in Int, NEW y \in Word, NEW v \in Int
  PROVE  w + B * u >= y + B * v <=> u > v \/ (u = v /\ w >= y)
<1>. USE Sizes DEF Word
<1>1. u >= v + 1 => B * u >= B * v + B
  <2>1. u >= v + 1 => B * u >= B * (v + 1)
    OBVIOUS
  <2>. QED  BY <2>1
<1>2. v >= u + 1 => B * v >= B * u + B
  <2>1. v >= u + 1 => B * v >= B * (u + 1)
    OBVIOUS
  <2>. QED  BY <2>1
<1>3. B * u \in Int /\ B * v \in Int /\ (u = v => B * u = B * v)
  OBVIOUS
<1>. QED  BY <1>1, <1>2, <1>3

(* The comparison from the top word down compares the numbers.               *)
LEMMA GeqIs ==
  ASSUME NEW a \in U256, NEW b \in U256
  PROVE  Geq(a, b) <=> Val(a) >= Val(b)
<1>1. PICK a0 \in Word, a1 \in Word, a2 \in Word, a3 \in Word :
        a0 = a[0] /\ a1 = a[1] /\ a2 = a[2] /\ a3 = a[3]
  BY DEF U256, Idx
<1>2. PICK b0 \in Word, b1 \in Word, b2 \in Word, b3 \in Word :
        b0 = b[0] /\ b1 = b[1] /\ b2 = b[2] /\ b3 = b[3]
  BY DEF U256, Idx
<1>3. a0 \in Int /\ a1 \in Int /\ a2 \in Int /\ a3 \in Int
      /\ b0 \in Int /\ b1 \in Int /\ b2 \in Int /\ b3 \in Int
  BY Sizes DEF Word
<1>4. PICK u1 \in Int, u2 \in Int, v1 \in Int, v2 \in Int :
        /\ u2 = a2 + B * a3 /\ u1 = a1 + B * u2
        /\ v2 = b2 + B * b3 /\ v1 = b1 + B * v2
  BY <1>3, Sizes
<1>5. u2 > v2 \/ u2 = v2 <=> a3 > b3 \/ (a3 = b3 /\ a2 >= b2)
  BY <1>3, <1>4, Lexical
<1>6. v2 > u2 \/ u2 = v2 <=> b3 > a3 \/ (a3 = b3 /\ b2 >= a2)
  BY <1>3, <1>4, Lexical
<1>7. u1 > v1 \/ u1 = v1 <=> u2 > v2 \/ (u2 = v2 /\ a1 >= b1)
  BY <1>3, <1>4, Lexical
<1>8. v1 > u1 \/ u1 = v1 <=> v2 > u2 \/ (u2 = v2 /\ b1 >= a1)
  BY <1>3, <1>4, Lexical
<1>9. Val(a) >= Val(b) <=> u1 > v1 \/ (u1 = v1 /\ a0 >= b0)
  <2>1. Val(a) = a0 + B * u1 /\ Val(b) = b0 + B * v1
    BY <1>1, <1>2, <1>4, Zenon DEF Val
  <2>. QED  BY <2>1, Lexical
<1>. QED  BY <1>1, <1>2, <1>3, <1>4, <1>5, <1>6, <1>7, <1>8, <1>9 DEF Geq

(* The value of words that are combined one by one.                          *)
LEMMA ValSums ==
  ASSUME NEW a \in Numbers, NEW b \in Numbers
  PROVE  /\ [i \in Idx |-> a[i] + b[i]] \in Numbers
         /\ Val([i \in Idx |-> a[i] + b[i]]) = Val(a) + Val(b)
         /\ [i \in Idx |-> a[i] - b[i]] \in Numbers
         /\ Val([i \in Idx |-> a[i] - b[i]]) = Val(a) - Val(b)
<1>1. PICK a0 \in Int, a1 \in Int, a2 \in Int, a3 \in Int :
        a0 = a[0] /\ a1 = a[1] /\ a2 = a[2] /\ a3 = a[3]
  BY DEF Numbers, Idx
<1>2. PICK b0 \in Int, b1 \in Int, b2 \in Int, b3 \in Int :
        b0 = b[0] /\ b1 = b[1] /\ b2 = b[2] /\ b3 = b[3]
  BY DEF Numbers, Idx
<1>3. Val(a) = a0 + B * (a1 + B * (a2 + B * a3)) /\ Val(b) = b0 + B * (b1 + B * (b2 + B * b3))
  BY <1>1, <1>2, Zenon DEF Val
<1>4. Val([i \in Idx |-> a[i] + b[i]])
        = (a0 + b0) + B * ((a1 + b1) + B * ((a2 + b2) + B * (a3 + b3)))
  BY <1>1, <1>2 DEF Val, Idx
<1>5. Val([i \in Idx |-> a[i] - b[i]])
        = (a0 - b0) + B * ((a1 - b1) + B * ((a2 - b2) + B * (a3 - b3)))
  BY <1>1, <1>2 DEF Val, Idx
<1>6. [i \in Idx |-> a[i] + b[i]] \in Numbers /\ [i \in Idx |-> a[i] - b[i]] \in Numbers
  BY DEF Numbers
<1>. QED  BY Sizes, <1>3, <1>4, <1>5, <1>6

(* The words of p, C and 0 stand for them.                                   *)
LEMMA Constants ==
  /\ P \in U256 /\ Val(P) = Prime
  /\ FourWords(C, 0, 0, 0) \in U256 /\ Val(FourWords(C, 0, 0, 0)) = C
  /\ Zero \in U256 /\ Val(Zero) = 0
<1>. USE Sizes
<1>1. {B - C, B - 1, C, 0} \subseteq Word
  BY DEF Word
<1>2. P \in U256 /\ FourWords(C, 0, 0, 0) \in U256 /\ Zero \in U256
  BY <1>1, FourWordsAre DEF P, Zero
<1>3. Val(FourWords(C, 0, 0, 0)) = C + B * (0 + B * (0 + B * 0)) /\ Val(Zero) = 0 + B * (0 + B * (0 + B * 0))
  BY ValWords DEF Zero
<1>4. Val(P) = (B - C) + B * ((B - 1) + B * ((B - 1) + B * (B - 1)))
  BY ValWords DEF P
<1>5. (B - C) + B * ((B - 1) + B * ((B - 1) + B * (B - 1))) = B * (B * (B * B)) - C
  OBVIOUS
<1>6. Val(P) = Prime
  BY <1>4, <1>5, TopIs
<1>. QED  BY <1>2, <1>3, <1>6

-----------------------------------------------------------------------------
(* Numbers and their words.                                                  *)

Element == {a \in U256 : Val(a) < Prime}

(* Four words are the words of their number,                                 *)
LEMMA WordsOfVal ==
  ASSUME NEW a \in U256
  PROVE  ToWords(Val(a)) = a
<1>. USE Sizes
<1>1. PICK a0 \in Word, a1 \in Word, a2 \in Word, a3 \in Word :
        a0 = a[0] /\ a1 = a[1] /\ a2 = a[2] /\ a3 = a[3]
  BY DEF U256, Idx
<1>2. a0 \in 0 .. B - 1 /\ a1 \in 0 .. B - 1 /\ a2 \in 0 .. B - 1 /\ a3 \in 0 .. B - 1
  BY DEF Word
<1>3. PICK u1 \in Int, u2 \in Int : u2 = a2 + B * a3 /\ u1 = a1 + B * u2
  BY <1>2
<1>4. PICK n \in Int : n = a0 + B * u1
  BY <1>2
<1>5. Val(a) = n
  BY <1>1, <1>3, <1>4, Zenon DEF Val
<1>6. n % B = a0 /\ n \div B = u1
  BY <1>2, <1>4, DivUnique
<1>7. u1 % B = a1
  BY <1>2, <1>3, DivUnique
<1>8. n \div (B * B) = u2
  <2>1. B * B \in Nat /\ B * B > 0
    OBVIOUS
  <2>2. a0 + B * a1 \in 0 .. B * B - 1
    BY <1>2, OneMore
  <2>3. n = (a0 + B * a1) + (B * B) * u2
    BY <1>2, <1>3, <1>4
  <2>. HIDE Sizes
  <2>. QED  BY <2>1, <2>2, <2>3, DivUnique
<1>9. n \div (B * B * B) = a3
  <2>1. B * B * B \in Nat /\ B * B * B > 0 /\ B * B * B = B * (B * B)
    <3>1. B * B \in Nat /\ B * B > 0
      OBVIOUS
    <3>. QED  BY <3>1
  <2>2. a0 + B * (a1 + B * a2) \in 0 .. B * (B * B) - 1
    <3>1. a1 + B * a2 \in 0 .. B * B - 1
      BY <1>2, OneMore
    <3>2. B * B \in Nat
      OBVIOUS
    <3>. QED  BY <1>2, <3>1, <3>2, OneMore
  <2>3. n = (a0 + B * (a1 + B * a2)) + (B * B * B) * a3
    BY <1>2, <1>3, <1>4
  <2>. HIDE Sizes
  <2>. QED  BY <1>2, <2>1, <2>2, <2>3, DivUnique
<1>10. u2 % B = a2
  BY <1>2, <1>3, DivUnique
<1>11. ToWords(n) = FourWords(a0, a1, a2, a3)
  BY <1>6, <1>7, <1>8, <1>9, <1>10, Zenon DEF ToWords
<1>12. FourWords(a0, a1, a2, a3) = a
  BY <1>1 DEF FourWords, U256, Idx
<1>. QED  BY <1>5, <1>11, <1>12

(* and a number below 2^256 is the number of its words.                      *)
LEMMA ValOfWords ==
  ASSUME NEW n \in 0 .. Top - 1
  PROVE  ToWords(n) \in U256 /\ Val(ToWords(n)) = n
<1>. USE Sizes
<1>1. n \in Int
  BY TopIs
<1>2. PICK u1 \in Int, a0 \in Word : u1 = n \div B /\ a0 = n % B /\ n = a0 + B * u1
  BY <1>1, Split
<1>3. PICK u2 \in Int, a1 \in Word : u2 = u1 \div B /\ a1 = u1 % B /\ u1 = a1 + B * u2
  BY Split
<1>4. PICK a3 \in Int, a2 \in Word : a3 = u2 \div B /\ a2 = u2 % B /\ u2 = a2 + B * a3
  BY Split
<1>5. a0 \in 0 .. B - 1 /\ a1 \in 0 .. B - 1 /\ a2 \in 0 .. B - 1
  BY DEF Word
<1>6. PICK l \in Int : l = a0 + B * (a1 + B * a2) /\ l \in 0 .. B * (B * B) - 1
  <2>1. B * B \in Nat
    OBVIOUS
  <2>2. a1 + B * a2 \in 0 .. B * B - 1
    BY <1>5, OneMore
  <2>3. a0 + B * (a1 + B * a2) \in 0 .. B * (B * B) - 1
    BY <1>5, <2>1, <2>2, OneMore
  <2>. QED  BY <2>3
<1>7. PICK m \in Nat : m = B * (B * B) /\ m > 0 /\ Top = B * m
  <2>1. B * B \in Nat /\ B * B > 0
    OBVIOUS
  <2>2. B * (B * B) \in Nat /\ B * (B * B) > 0
    BY <2>1
  <2>. QED  BY <2>2, TopIs
<1>8. n = l + m * a3
  <2>1. n = a0 + B * (a1 + B * (a2 + B * a3))
    BY <1>2, <1>3, <1>4
  <2>2. n = (a0 + B * (a1 + B * a2)) + (B * (B * B)) * a3
    BY <1>5, <2>1
  <2>. QED  BY <1>6, <1>7, <2>2
<1>9. a3 \in Word
  <2>1. a3 <= -1 => m * a3 <= m * (-1)
    BY <1>7
  <2>2. a3 >= B => m * a3 >= m * B
    BY <1>7
  <2>3. m * a3 \in Int /\ m * B = B * m /\ m * (-1) = -m
    BY <1>7
  <2>4. 0 <= n /\ n < B * m /\ B * m \in Int
    BY <1>7, TopIs
  <2>. QED  BY <1>6, <1>7, <1>8, <2>1, <2>2, <2>3, <2>4 DEF Word
<1>. DEFINE a == FourWords(a0, a1, a2, a3)
<1>10. a \in U256
  BY <1>9, FourWordsAre
<1>11. Val(a) = n
  <2>1. Val(a) = a0 + B * (a1 + B * (a2 + B * a3))
    BY ValWords
  <2>. HIDE DEF a
  <2>. QED  BY <1>2, <1>3, <1>4, <2>1
<1>. HIDE DEF a
<1>. QED  BY <1>10, <1>11, WordsOfVal

-----------------------------------------------------------------------------
(* Remainders by the prime.                                                  *)

(* n leaves r, up to multiples of the prime.                                 *)
Leaves(n, r) == \E q \in Int : n = r + Prime * q

(* A remainder in range is the remainder.                                    *)
LEMMA LeavesMod ==
  ASSUME NEW n \in Int, NEW r \in 0 .. Prime - 1, Leaves(n, r)
  PROVE  n % Prime = r
<1>1. PICK q \in Int : n = r + Prime * q
  BY DEF Leaves
<1>2. Prime \in Nat /\ Prime > 0
  BY TopIs, Sizes
<1>. HIDE DEF Prime
<1>. QED  BY <1>1, <1>2, DivUnique

(* A number leaves itself, plus or minus multiples of the prime.             *)
LEMMA LeavesSelf ==
  ASSUME NEW n \in Int, NEW q \in Int
  PROVE  /\ Leaves(n, n) /\ Leaves(n, n + Prime * q) /\ Leaves(n + Prime * q, n)
         /\ n % Prime \in 0 .. Prime - 1 /\ Leaves(n, n % Prime) /\ Leaves(n % Prime, n)
<1>1. Prime \in Nat /\ Prime > 0
  BY TopIs, Sizes
<1>2. n = n + Prime * 0 /\ n + Prime * q = n + Prime * q /\ n = (n + Prime * q) + Prime * (-q)
  BY <1>1
<1>3. PICK d \in Int, r \in 0 .. Prime - 1 : d = n \div Prime /\ r = n % Prime /\ n = r + Prime * d
  BY <1>1, Divides
<1>4. r = n + Prime * (-d)
  BY <1>1, <1>3
<1>. QED  BY <1>2, <1>3, <1>4 DEF Leaves

(* The remainder of a remainder.                                             *)
LEMMA LeavesTwice ==
  ASSUME NEW n \in Int, NEW m \in Int, NEW r \in Int, Leaves(n, m), Leaves(m, r)
  PROVE  Leaves(n, r)
<1>1. PICK p \in Int : n = m + Prime * p
  BY DEF Leaves
<1>2. PICK q \in Int : m = r + Prime * q
  BY DEF Leaves
<1>3. n = r + Prime * (q + p)
  BY <1>1, <1>2, TopIs
<1>. QED  BY <1>3 DEF Leaves

(* Remainders go through products and sums.                                  *)
LEMMA LeavesCombined ==
  ASSUME NEW n \in Int, NEW m \in Int, NEW r \in Int, NEW s \in Int, NEW k \in Int,
         Leaves(n, r), Leaves(m, s)
  PROVE  Leaves(n * k + m, r * k + s)
<1>1. PICK p \in Int : n = r + Prime * p
  BY DEF Leaves
<1>2. PICK q \in Int : m = s + Prime * q
  BY DEF Leaves
<1>3. n * k + m = (r * k + s) + Prime * (p * k + q)
  BY <1>1, <1>2, TopIs
<1>4. p * k + q \in Int
  OBVIOUS
<1>. QED  BY <1>3, <1>4 DEF Leaves

(* One step of a Horner chain, reduced as it goes.                           *)
LEMMA LeavesStep ==
  ASSUME NEW n \in Int, NEW h \in Int, NEW k \in Int, NEW t \in Int, NEW r \in Int,
         Leaves(n, h), Leaves(h * k + t, r)
  PROVE  Leaves(n * k + t, r)
<1>1. Leaves(t, t)
  BY LeavesSelf
<1>2. Leaves(n * k + t, h * k + t)
  BY <1>1, LeavesCombined
<1>3. n * k + t \in Int /\ h * k + t \in Int
  OBVIOUS
<1>. QED  BY <1>2, <1>3, LeavesTwice

(* Words: the reference sum, difference and product are what they say.       *)
LEMMA SumMod ==
  ASSUME NEW m \in 0 .. Prime - 1, NEW n \in 0 .. Prime - 1
  PROVE  /\ FieldAdd(m, n) = IF m + n >= Prime THEN m + n - Prime ELSE m + n
         /\ FieldSub(m, n) = IF m >= n THEN m - n ELSE m - n + Prime
<1>1. Prime \in Nat /\ Prime > 0
  BY TopIs, Sizes
<1>2. ASSUME NEW r \in Int
      PROVE  /\ r \in 0 .. Prime - 1 => r % Prime = r
             /\ r - Prime \in 0 .. Prime - 1 => r % Prime = r - Prime
             /\ r + Prime \in 0 .. Prime - 1 => r % Prime = r + Prime
  <2>1. r + Prime * 1 = r + Prime /\ r + Prime * (-1) = r - Prime
    BY <1>1
  <2>2. Leaves(r, r) /\ Leaves(r, r + Prime * 1) /\ Leaves(r, r + Prime * (-1))
    BY LeavesSelf
  <2>3. Leaves(r, r) /\ Leaves(r, r + Prime) /\ Leaves(r, r - Prime)
    BY <2>1, <2>2, Zenon
  <2>. QED  BY <2>3, LeavesMod, Zenon
<1>. HIDE DEF Prime
<1>3. PICK s \in Int, d \in Int : s = m + n /\ d = m - n
  BY <1>1
<1>4. FieldAdd(m, n) = s % Prime /\ FieldSub(m, n) = d % Prime
  BY <1>3, Zenon DEF FieldAdd, FieldSub
<1>. QED  BY <1>1, <1>2, <1>3, <1>4

(* FieldMul, which takes its second factor word by word, is the product mod  *)
(* p.                                                                        *)
LEMMA ProductMod ==
  ASSUME NEW m \in 0 .. Prime - 1, NEW b \in U256
  PROVE  FieldMul(m, Val(b)) = (m * Val(b)) % Prime
<1>1. B \in Nat /\ B \in Int /\ Prime \in Nat /\ Prime > 0
  BY TopIs, Sizes
<1>2. PICK w0 \in Int, w1 \in Int, w2 \in Int, w3 \in Int :
        w0 = b[0] /\ w1 = b[1] /\ w2 = b[2] /\ w3 = b[3]
  BY ValFits DEF Numbers, Idx
<1>3. m \in Int
  BY <1>1
<1>4. PICK t0 \in Int, t1 \in Int, t2 \in Int, t3 \in Int :
        t0 = m * w0 /\ t1 = m * w1 /\ t2 = m * w2 /\ t3 = m * w3
  BY <1>3
<1>5. PICK h3 \in Int : h3 = t3 % Prime /\ Leaves(t3, h3)
  BY <1>1, LeavesSelf
<1>6. PICK h2 \in Int : h2 = (h3 * B + t2) % Prime /\ Leaves(h3 * B + t2, h2)
  <2>1. h3 * B + t2 \in Int
    BY <1>1
  <2>. QED  BY <1>1, <2>1, LeavesSelf
<1>7. PICK h1 \in Int : h1 = (h2 * B + t1) % Prime /\ Leaves(h2 * B + t1, h1)
  <2>1. h2 * B + t1 \in Int
    BY <1>1
  <2>. QED  BY <1>1, <2>1, LeavesSelf
<1>8. PICK h0 \in 0 .. Prime - 1 : h0 = (h1 * B + t0) % Prime /\ Leaves(h1 * B + t0, h0)
  <2>1. h1 * B + t0 \in Int
    BY <1>1
  <2>. QED  BY <1>1, <2>1, LeavesSelf
<1>9. FieldMul(m, Val(b)) = h0
  BY <1>2, <1>4, <1>5, <1>6, <1>7, <1>8, WordsOfVal, Zenon DEF FieldMul
<1>10. PICK n2 \in Int : n2 = t3 * B + t2 /\ Leaves(n2, h2)
  <2>1. t3 * B + t2 \in Int
    BY <1>1
  <2>2. Leaves(t3 * B + t2, h2)
    BY <1>1, <1>5, <1>6, LeavesStep, Zenon
  <2>. QED  BY <2>1, <2>2
<1>11. PICK n1 \in Int : n1 = n2 * B + t1 /\ Leaves(n1, h1)
  <2>1. n2 * B + t1 \in Int
    BY <1>1
  <2>2. Leaves(n2 * B + t1, h1)
    BY <1>1, <1>7, <1>10, LeavesStep, Zenon
  <2>. QED  BY <2>1, <2>2
<1>12. PICK n0 \in Int : n0 = n1 * B + t0 /\ Leaves(n0, h0)
  <2>1. n1 * B + t0 \in Int
    BY <1>1
  <2>2. h0 \in Int
    BY <1>1
  <2>3. Leaves(n1 * B + t0, h0)
    BY <1>1, <1>8, <1>11, <2>2, LeavesStep, Zenon
  <2>. QED  BY <2>1, <2>3
<1>13. n0 = m * (w0 + B * (w1 + B * (w2 + B * w3)))
  BY <1>1, <1>3, <1>4, <1>10, <1>11, <1>12
<1>14. Val(b) = w0 + B * (w1 + B * (w2 + B * w3))
  BY <1>2, Zenon DEF Val
<1>15. n0 % Prime = h0
  BY <1>12, LeavesMod
<1>. QED  BY <1>9, <1>13, <1>14, <1>15, Zenon

-----------------------------------------------------------------------------
(* Sums and differences of four words, and the sums of the copies that take  *)
(* them: one comparison and one correction by p suffice.                     *)

Sum(a, b)  == Carried([i \in Idx |-> a[i] + b[i]])
Diff(a, b) == Carried([i \in Idx |-> a[i] - b[i]])

(* The carry of a sum tells whether 2^256 went out of it,                    *)
LEMMA SumIs ==
  ASSUME NEW a \in U256, NEW b \in U256
  PROVE  LET s == Sum(a, b)
         IN  /\ s.w \in U256 /\ Val(s.w) \in 0 .. Top - 1
             /\ \/ s.carry = 0 /\ Val(s.w) = Val(a) + Val(b)
                \/ s.carry = 1 /\ Val(s.w) = Val(a) + Val(b) - Top
<1>1. a \in Numbers /\ b \in Numbers /\ Val(a) \in 0 .. Top - 1 /\ Val(b) \in 0 .. Top - 1
  BY ValFits
<1>. DEFINE t == [i \in Idx |-> a[i] + b[i]]
<1>2. t \in Numbers /\ Val(t) = Val(a) + Val(b)
  BY <1>1, ValSums
<1>3. Sum(a, b) = Carried(t)
  BY DEF Sum
<1>. HIDE DEF t
<1>4. Carried(t).w \in U256
  BY <1>2, CarriedIs
<1>5. Val(t) \in 0 .. Top - 1 \/ Val(t) \in Top .. 2 * Top - 1
  BY <1>1, <1>2, TopIs
<1>6. \/ Carried(t).carry = 0 /\ Val(Carried(t).w) = Val(t)
      \/ Carried(t).carry = 1 /\ Val(Carried(t).w) = Val(t) - Top
  BY <1>2, <1>5, CarryTells
<1>7. Val(Carried(t).w) \in 0 .. Top - 1
  BY <1>4, ValFits
<1>8. \/ Carried(t).carry = 0 /\ Val(Carried(t).w) = Val(a) + Val(b)
      \/ Carried(t).carry = 1 /\ Val(Carried(t).w) = Val(a) + Val(b) - Top
  BY <1>1, <1>2, <1>6, TopIs
<1>. QED  BY <1>3, <1>4, <1>7, <1>8, Zenon

(* and the borrow of a difference whether it came in.                        *)
LEMMA DiffIs ==
  ASSUME NEW a \in U256, NEW b \in U256
  PROVE  LET d == Diff(a, b)
         IN  /\ d.w \in U256 /\ Val(d.w) \in 0 .. Top - 1
             /\ \/ d.carry = 0 /\ Val(d.w) = Val(a) - Val(b)
                \/ d.carry = -1 /\ Val(d.w) = Val(a) - Val(b) + Top
<1>1. a \in Numbers /\ b \in Numbers /\ Val(a) \in 0 .. Top - 1 /\ Val(b) \in 0 .. Top - 1
  BY ValFits
<1>. DEFINE t == [i \in Idx |-> a[i] - b[i]]
<1>2. t \in Numbers /\ Val(t) = Val(a) - Val(b)
  BY <1>1, ValSums
<1>3. Diff(a, b) = Carried(t)
  BY DEF Diff
<1>. HIDE DEF t
<1>4. Carried(t).w \in U256
  BY <1>2, CarriedIs
<1>5. Val(t) \in 0 .. Top - 1 \/ Val(t) \in -Top .. -1
  BY <1>1, <1>2, TopIs
<1>6. \/ Carried(t).carry = 0 /\ Val(Carried(t).w) = Val(t)
      \/ Carried(t).carry = -1 /\ Val(Carried(t).w) = Val(t) + Top
  BY <1>2, <1>5, CarryTells
<1>7. Val(Carried(t).w) \in 0 .. Top - 1
  BY <1>4, ValFits
<1>. QED  BY <1>2, <1>3, <1>4, <1>6, <1>7, Zenon

(* The last step of every operation: P off a number that reached it.        *)
Below(t) == IF Geq(t, P) THEN Diff(t, P).w ELSE t

(* Taking p away once brings any four words below p.                         *)
LEMMA BelowIs ==
  ASSUME NEW t \in U256
  PROVE  /\ Below(t) \in Element
         /\ Val(Below(t)) = IF Val(t) >= Prime THEN Val(t) - Prime ELSE Val(t)
         /\ Val(Below(t)) \in 0 .. Prime - 1
<1>1. P \in U256 /\ Val(P) = Prime /\ (Geq(t, P) <=> Val(t) >= Prime)
  BY Constants, GeqIs
<1>2. Val(t) \in 0 .. Top - 1 /\ Top \in Nat /\ Prime \in Nat /\ Prime = Top - C /\ Prime > C /\ C \in Nat
  BY ValFits, TopIs, Sizes
<1>. HIDE DEF Prime
<1>3. CASE Val(t) >= Prime
  <2>1. Diff(t, P).w \in U256 /\ Val(Diff(t, P).w) = Val(t) - Prime
    BY <1>1, <1>2, <1>3, DiffIs
  <2>. QED  BY <1>1, <1>2, <1>3, <2>1 DEF Below, Element
<1>4. CASE Val(t) < Prime
  BY <1>1, <1>2, <1>4 DEF Below, Element
<1>. QED  BY <1>2, <1>3, <1>4

(* A sum that reached P or left the words takes P off once.                 *)
LEMMA AddOnce ==
  ASSUME NEW a \in Element, NEW b \in Element
  PROVE  LET s == Sum(a, b)
             r == IF s.carry # 0 \/ Geq(s.w, P) THEN Diff(s.w, P).w ELSE s.w
         IN  r \in U256 /\ Val(r) = FieldAdd(Val(a), Val(b))
<1>. DEFINE s == Sum(a, b)
<1>1. a \in U256 /\ b \in U256 /\ Val(a) \in 0 .. Prime - 1 /\ Val(b) \in 0 .. Prime - 1
  BY ValFits, TopIs DEF Element
<1>2. /\ s.w \in U256 /\ Val(s.w) \in 0 .. Top - 1
      /\ \/ s.carry = 0 /\ Val(s.w) = Val(a) + Val(b)
         \/ s.carry = 1 /\ Val(s.w) = Val(a) + Val(b) - Top
  BY <1>1, SumIs
<1>. HIDE DEF s
<1>3. P \in U256 /\ Val(P) = Prime /\ (Geq(s.w, P) <=> Val(s.w) >= Prime)
  BY <1>2, Constants, GeqIs
<1>. DEFINE d == Diff(s.w, P)
<1>4. /\ d.w \in U256 /\ Val(d.w) \in 0 .. Top - 1
      /\ Val(d.w) = Val(s.w) - Prime \/ Val(d.w) = Val(s.w) - Prime + Top
  BY <1>2, <1>3, DiffIs
<1>. HIDE DEF d
<1>5. Top \in Nat /\ Prime \in Nat /\ Prime = Top - C /\ Prime > C /\ C \in Nat
  BY TopIs, Sizes
<1>6. FieldAdd(Val(a), Val(b)) = IF Val(a) + Val(b) >= Prime THEN Val(a) + Val(b) - Prime
                                 ELSE Val(a) + Val(b)
  BY <1>1, SumMod
<1>. HIDE DEF Prime, Val
<1>. DEFINE r == IF s.carry # 0 \/ Geq(s.w, P) THEN d.w ELSE s.w
<1>7. r \in U256 /\ Val(r) = FieldAdd(Val(a), Val(b))
  BY <1>1, <1>2, <1>3, <1>4, <1>5, <1>6
<1>. QED  BY <1>7 DEF s, d

(* A borrow, made up for by p once, is the difference in the field.          *)
LEMMA SubOnce ==
  ASSUME NEW a \in Element, NEW b \in Element
  PROVE  LET d == Diff(a, b)
             r == IF d.carry # 0 THEN Sum(d.w, P).w ELSE d.w
         IN  r \in U256 /\ Val(r) = FieldSub(Val(a), Val(b))
<1>. DEFINE d == Diff(a, b)
<1>1. a \in U256 /\ b \in U256 /\ Val(a) \in 0 .. Prime - 1 /\ Val(b) \in 0 .. Prime - 1
  BY ValFits, TopIs DEF Element
<1>2. /\ d.w \in U256 /\ Val(d.w) \in 0 .. Top - 1
      /\ \/ d.carry = 0 /\ Val(d.w) = Val(a) - Val(b)
         \/ d.carry = -1 /\ Val(d.w) = Val(a) - Val(b) + Top
  BY <1>1, DiffIs
<1>. HIDE DEF d
<1>. DEFINE s == Sum(d.w, P)
<1>3. /\ s.w \in U256 /\ Val(s.w) \in 0 .. Top - 1
      /\ Val(s.w) = Val(d.w) + Prime \/ Val(s.w) = Val(d.w) + Prime - Top
  BY <1>2, Constants, SumIs
<1>. HIDE DEF s
<1>4. Top \in Nat /\ Prime \in Nat /\ Prime = Top - C /\ Prime > C /\ C \in Nat
  BY TopIs, Sizes
<1>5. FieldSub(Val(a), Val(b)) = IF Val(a) >= Val(b) THEN Val(a) - Val(b)
                                 ELSE Val(a) - Val(b) + Prime
  BY <1>1, SumMod
<1>. HIDE DEF Prime, Val
<1>. DEFINE r == IF d.carry # 0 THEN s.w ELSE d.w
<1>6. r \in U256 /\ Val(r) = FieldSub(Val(a), Val(b))
  BY <1>1, <1>2, <1>3, <1>4, <1>5
<1>. QED  BY <1>6 DEF s, d

(* The CPU copy.                                                             *)
LEMMA CpuSums ==
  ASSUME NEW a \in Element, NEW b \in Element
  PROVE  /\ cpu_mod_add(a, b) \in U256 /\ Val(cpu_mod_add(a, b)) = FieldAdd(Val(a), Val(b))
         /\ cpu_mod_sub(a, b) \in U256 /\ Val(cpu_mod_sub(a, b)) = FieldSub(Val(a), Val(b))
<1>1. \A u, v : cpu_add256(u, v) = Sum(u, v) /\ cpu_sub256(u, v) = Diff(u, v)
  BY Zenon DEF cpu_add256, cpu_sub256, Sum, Diff
<1>. QED  BY <1>1, AddOnce, SubOnce DEF cpu_mod_add, cpu_mod_sub

(* Three words of ones and a low word from B - C on: the puzzle copy's       *)
(* comparison with P.                                                        *)
LEMMA OnesGeq ==
  ASSUME NEW w \in U256
  PROVE  (w[3] = B - 1 /\ w[2] = B - 1 /\ w[1] = B - 1 /\ w[0] >= B - C) <=> Geq(w, P)
<1>1. P[0] = B - C /\ P[1] = B - 1 /\ P[2] = B - 1 /\ P[3] = B - 1
  BY FourWordsAre DEF P
<1>2. w[0] \in 0 .. B - 1 /\ w[1] \in 0 .. B - 1 /\ w[2] \in 0 .. B - 1 /\ w[3] \in 0 .. B - 1
  BY DEF U256, Idx, Word
<1>. QED  BY <1>1, <1>2, Sizes DEF Geq

(* The puzzle copy.                                                          *)
LEMMA PuzzleSums ==
  ASSUME NEW a \in Element, NEW b \in Element
  PROVE  /\ puzzle_mod_add(a, b) \in U256 /\ Val(puzzle_mod_add(a, b)) = FieldAdd(Val(a), Val(b))
         /\ puzzle_mod_sub(a, b) \in U256 /\ Val(puzzle_mod_sub(a, b)) = FieldSub(Val(a), Val(b))
<1>1. \A u, v : puzzle_AddWords(u, v) = Sum(u, v) /\ puzzle_SubWords(u, v) = Diff(u, v)
  BY Zenon DEF puzzle_AddWords, puzzle_SubWords, Sum, Diff
<1>. DEFINE s == Sum(a, b)
<1>2. s.w \in U256
  BY SumIs DEF Element
<1>3. puzzle_mod_add(a, b) = IF s.carry # 0 \/ Geq(s.w, P) THEN Diff(s.w, P).w ELSE s.w
  BY <1>1, <1>2, OnesGeq DEF puzzle_mod_add
<1>. QED  BY <1>1, <1>3, AddOnce, SubOnce DEF puzzle_mod_sub

(* a + ~b + 1 is a - b and a carry out of the top word.                     *)
LEMMA KangarooDiff ==
  ASSUME NEW a \in U256, NEW b \in U256
  PROVE  LET d == kangaroo_sub256(a, b)
         IN  /\ d \in U256
             /\ Val(d) = IF Val(a) >= Val(b) THEN Val(a) - Val(b) ELSE Val(a) - Val(b) + Top
<1>1. a \in Numbers /\ b \in Numbers /\ Val(a) \in 0 .. Top - 1 /\ Val(b) \in 0 .. Top - 1
  BY ValFits
<1>2. PICK a0 \in Int, a1 \in Int, a2 \in Int, a3 \in Int :
        a0 = a[0] /\ a1 = a[1] /\ a2 = a[2] /\ a3 = a[3]
  BY <1>1 DEF Numbers, Idx
<1>3. PICK b0 \in Int, b1 \in Int, b2 \in Int, b3 \in Int :
        b0 = b[0] /\ b1 = b[1] /\ b2 = b[2] /\ b3 = b[3]
  BY <1>1 DEF Numbers, Idx
<1>4. Val(a) = a0 + B * (a1 + B * (a2 + B * a3)) /\ Val(b) = b0 + B * (b1 + B * (b2 + B * b3))
  BY <1>2, <1>3, Zenon DEF Val
<1>. DEFINE t == [i \in Idx |-> a[i] + (B - 1 - b[i]) + (IF i = 0 THEN 1 ELSE 0)]
<1>5. Val(t) = (a0 + (B - 1 - b0) + 1)
                 + B * ((a1 + (B - 1 - b1) + 0) + B * ((a2 + (B - 1 - b2) + 0)
                                                        + B * (a3 + (B - 1 - b3) + 0)))
  BY <1>2, <1>3 DEF Val, Idx
<1>6. t \in Numbers
  BY <1>1, Sizes DEF Numbers
<1>7. kangaroo_sub256(a, b) = Carried(t).w
  BY DEF kangaroo_sub256
<1>. HIDE DEF t
<1>8. (a0 + (B - 1 - b0) + 1)
         + B * ((a1 + (B - 1 - b1) + 0) + B * ((a2 + (B - 1 - b2) + 0)
                                                + B * (a3 + (B - 1 - b3) + 0)))
       = (a0 + B * (a1 + B * (a2 + B * a3))) - (b0 + B * (b1 + B * (b2 + B * b3)))
           + B * (B * (B * B))
  BY Sizes
<1>9. Val(t) = Val(a) - Val(b) + Top
  BY <1>4, <1>5, <1>8, TopIs, Zenon
<1>10. Carried(t).w \in U256
  BY <1>6, CarriedIs
<1>11. /\ Val(t) \in 0 .. Top - 1 => Val(Carried(t).w) = Val(t)
       /\ Val(t) \in Top .. 2 * Top - 1 => Val(Carried(t).w) = Val(t) - Top
  BY <1>6, CarryTells
<1>. QED  BY <1>1, <1>7, <1>9, <1>10, <1>11, TopIs

(* Its reduction takes p away once.                                          *)
LEMMA KangarooBelow ==
  ASSUME NEW t \in U256
  PROVE  kangaroo_mod_p(t) = Below(t)
<1>1. P \in U256 /\ Val(P) = Prime /\ (Geq(t, P) <=> Val(t) >= Prime)
  BY Constants, GeqIs
<1>2. Val(t) \in 0 .. Top - 1 /\ Top \in Nat /\ Prime \in Nat /\ Prime = Top - C /\ C \in Nat
  BY ValFits, TopIs, Sizes
<1>. HIDE DEF Prime
<1>3. ASSUME Val(t) >= Prime
      PROVE  kangaroo_sub256(t, P) = Diff(t, P).w
  <2>1. kangaroo_sub256(t, P) \in U256 /\ Val(kangaroo_sub256(t, P)) = Val(t) - Prime
    BY <1>1, <1>2, <1>3, KangarooDiff
  <2>2. Diff(t, P).w \in U256 /\ Val(Diff(t, P).w) = Val(t) - Prime
    BY <1>1, <1>2, <1>3, DiffIs
  <2>. QED  BY <2>1, <2>2, WordsOfVal
<1>. QED  BY <1>1, <1>3 DEF kangaroo_mod_p, Below

(* It subtracts in the order that does not borrow.                           *)
LEMMA KangarooSub ==
  ASSUME NEW a \in Element, NEW b \in Element
  PROVE  kangaroo_mod_sub(a, b) \in U256 /\ Val(kangaroo_mod_sub(a, b)) = FieldSub(Val(a), Val(b))
<1>1. a \in U256 /\ b \in U256 /\ Val(a) \in 0 .. Prime - 1 /\ Val(b) \in 0 .. Prime - 1
  BY ValFits, TopIs DEF Element
<1>2. /\ kangaroo_sub256(a, b) \in U256 /\ kangaroo_sub256(b, a) \in U256
      /\ Val(a) >= Val(b) => Val(kangaroo_sub256(a, b)) = Val(a) - Val(b)
      /\ Val(a) < Val(b) => Val(kangaroo_sub256(b, a)) = Val(b) - Val(a)
  <2>1. Val(a) \in Int /\ Val(b) \in Int
    BY <1>1, TopIs
  <2>. QED  BY <1>1, <2>1, KangarooDiff
<1>3. P \in U256 /\ Val(P) = Prime /\ (Geq(a, b) <=> Val(a) >= Val(b)) /\ Prime \in Nat
  BY <1>1, Constants, GeqIs, TopIs
<1>. HIDE DEF Prime
<1>4. ASSUME Val(a) < Val(b)
      PROVE  /\ kangaroo_sub256(P, kangaroo_sub256(b, a)) \in U256
             /\ Val(kangaroo_sub256(P, kangaroo_sub256(b, a))) = Val(a) - Val(b) + Prime
  <2>1. PICK d \in U256 : d = kangaroo_sub256(b, a) /\ Val(d) = Val(b) - Val(a)
    BY <1>2, <1>4
  <2>2. Prime >= Val(d) /\ Prime - Val(d) = Val(a) - Val(b) + Prime
    BY <1>1, <1>3, <1>4, <2>1
  <2>3. kangaroo_sub256(P, d) \in U256 /\ Val(kangaroo_sub256(P, d)) = Prime - Val(d)
    BY <1>3, <2>2, KangarooDiff
  <2>. QED  BY <2>1, <2>2, <2>3
<1>5. FieldSub(Val(a), Val(b)) = IF Val(a) >= Val(b) THEN Val(a) - Val(b)
                                 ELSE Val(a) - Val(b) + Prime
  BY <1>1, SumMod
<1>. QED  BY <1>1, <1>2, <1>3, <1>4, <1>5 DEF kangaroo_mod_sub

(* A carry out of the top word is worth C: what the sum of two elements      *)
(* left above the top is small enough to take it.                            *)
LEMMA AddC ==
  ASSUME NEW a \in Element, NEW b \in Element
  PROVE  LET s == Sum(a, b)
             t == Sum(s.w, FourWords(C, 0, 0, 0))
             r == Below(IF s.carry = 0 THEN s.w ELSE t.w)
         IN  /\ r \in U256 /\ Val(r) = FieldAdd(Val(a), Val(b))
             /\ s.carry # 0 => t.carry = 0
             /\ s.w \in U256 /\ t.w \in U256
<1>. DEFINE s == Sum(a, b)
<1>1. a \in U256 /\ b \in U256 /\ Val(a) \in 0 .. Prime - 1 /\ Val(b) \in 0 .. Prime - 1
  BY ValFits, TopIs DEF Element
<1>2. /\ s.w \in U256 /\ Val(s.w) \in 0 .. Top - 1
      /\ \/ s.carry = 0 /\ Val(s.w) = Val(a) + Val(b)
         \/ s.carry = 1 /\ Val(s.w) = Val(a) + Val(b) - Top
  BY <1>1, SumIs
<1>. HIDE DEF s
<1>. DEFINE t == Sum(s.w, FourWords(C, 0, 0, 0))
<1>3. /\ t.w \in U256 /\ Val(t.w) \in 0 .. Top - 1
      /\ \/ t.carry = 0 /\ Val(t.w) = Val(s.w) + C
         \/ t.carry = 1 /\ Val(t.w) = Val(s.w) + C - Top
  BY <1>2, Constants, SumIs
<1>. HIDE DEF t
<1>4. Top \in Nat /\ Prime \in Nat /\ Prime = Top - C /\ Prime > C /\ C \in Nat
  BY TopIs, Sizes
<1>5. FieldAdd(Val(a), Val(b)) = IF Val(a) + Val(b) >= Prime THEN Val(a) + Val(b) - Prime
                                 ELSE Val(a) + Val(b)
  BY <1>1, SumMod
<1>. HIDE DEF Prime, Val
<1>. DEFINE u == IF s.carry = 0 THEN s.w ELSE t.w
<1>6. s.carry # 0 => t.carry = 0
  BY <1>1, <1>2, <1>3, <1>4
<1>7. u \in U256 /\ (IF Val(u) >= Prime THEN Val(u) - Prime ELSE Val(u)) = FieldAdd(Val(a), Val(b))
  BY <1>1, <1>2, <1>3, <1>4, <1>5
<1>. HIDE DEF u
<1>8. Below(u) \in U256 /\ Val(Below(u)) = FieldAdd(Val(a), Val(b))
  BY <1>7, BelowIs DEF Element
<1>. QED  BY <1>2, <1>3, <1>6, <1>8 DEF s, t, u

(* The kangaroo copy.                                                        *)
LEMMA KangarooSums ==
  ASSUME NEW a \in Element, NEW b \in Element
  PROVE  /\ kangaroo_mod_add(a, b) \in U256
         /\ Val(kangaroo_mod_add(a, b)) = FieldAdd(Val(a), Val(b))
         /\ kangaroo_mod_sub(a, b) \in U256
         /\ Val(kangaroo_mod_sub(a, b)) = FieldSub(Val(a), Val(b))
<1>1. \A u, v : kangaroo_add256_carry(u, v) = Sum(u, v)
  BY Zenon DEF kangaroo_add256_carry, Sum
<1>. DEFINE s == Sum(a, b)
            t == Sum(s.w, FourWords(C, 0, 0, 0))
            u == IF s.carry = 0 THEN s.w ELSE t.w
<1>2. /\ Below(u) \in U256 /\ Val(Below(u)) = FieldAdd(Val(a), Val(b))
      /\ s.carry # 0 => t.carry = 0
      /\ s.w \in U256 /\ t.w \in U256
  BY AddC
<1>3. kangaroo_mod_add(a, b) = kangaroo_mod_p(u)
  BY <1>1, <1>2 DEF kangaroo_mod_add
<1>4. kangaroo_mod_p(u) = Below(u)
  BY <1>2, KangarooBelow
<1>. QED  BY <1>2, <1>3, <1>4, KangarooSub

(* The Metal copy.                                                           *)
LEMMA MetalSums ==
  ASSUME NEW a \in Element, NEW b \in Element
  PROVE  /\ metal_mod_add(a, b) \in U256 /\ Val(metal_mod_add(a, b)) = FieldAdd(Val(a), Val(b))
         /\ metal_mod_sub(a, b) \in U256 /\ Val(metal_mod_sub(a, b)) = FieldSub(Val(a), Val(b))
<1>1. \A u, v : metal_addc(u, v) = Sum(u, v) /\ metal_subb(u, v) = Diff(u, v)
  BY Zenon DEF metal_addc, metal_subb, Sum, Diff
<1>. DEFINE s == Sum(a, b)
            u == IF s.carry = 0 THEN s.w ELSE Sum(s.w, FourWords(C, 0, 0, 0)).w
<1>2. Below(u) \in U256 /\ Val(Below(u)) = FieldAdd(Val(a), Val(b))
  BY AddC
<1>3. metal_mod_add(a, b) = Below(u)
  BY <1>1 DEF metal_mod_add, metal_AddCarry, metal_BelowP, Below
<1>. QED  BY <1>1, <1>2, <1>3, SubOnce DEF metal_mod_sub

-----------------------------------------------------------------------------
(* The eight words of half the width of the batch kernels carry as the four  *)
(* words they make up.                                                       *)

Limb == 0 .. Half - 1

(* l0 and l1 are the limbs of t0 and t1 with the carry q into them.         *)
Pair(t0, t1, q, l0, l1, c) ==
  LET s0 == t0 + q
      s1 == t1 + s0 \div Half
  IN  /\ l0 = s0 % Half /\ l1 = s1 % Half /\ c = s1 \div Half
      /\ l0 + Half * l1 \in Word
      /\ l0 + Half * l1 = (t0 + Half * t1 + q) % B
      /\ c = (t0 + Half * t1 + q) \div B

(* Two limbs make a word: the carry of the upper one is the carry of the    *)
(* word.                                                                     *)
LEMMA TwoLimbs ==
  ASSUME NEW t0 \in Int, NEW t1 \in Int, NEW q \in Int
  PROVE  \E l0 \in Limb, l1 \in Limb, c \in Int : Pair(t0, t1, q, l0, l1, c)
<1>1. Half \in Nat /\ Half > 0 /\ B = Half * Half /\ B \in Nat /\ B > 0
  BY Sizes DEF B
<1>2. PICK s0 \in Int : s0 = t0 + q
  OBVIOUS
<1>3. PICK l0 \in Limb, c0 \in Int : l0 = s0 % Half /\ c0 = s0 \div Half /\ s0 = l0 + Half * c0
  BY <1>1, Divides DEF Limb
<1>4. PICK s1 \in Int : s1 = t1 + c0
  OBVIOUS
<1>5. PICK l1 \in Limb, c \in Int : l1 = s1 % Half /\ c = s1 \div Half /\ s1 = l1 + Half * c
  BY <1>1, Divides DEF Limb
<1>6. l0 \in Int /\ l1 \in Int
  BY <1>1 DEF Limb
<1>7. PICK r \in Int : r = l0 + Half * l1 /\ r \in 0 .. B - 1
  BY <1>1, OneMore DEF Limb
<1>8. t0 + Half * t1 + q = r + B * c
  BY <1>1, <1>2, <1>3, <1>4, <1>5, <1>6, <1>7
<1>9. r = (r + B * c) % B /\ c = (r + B * c) \div B
  BY <1>1, <1>7, DivUnique
<1>10. r = (t0 + Half * t1 + q) % B /\ c = (t0 + Half * t1 + q) \div B /\ r \in Word
  BY <1>7, <1>8, <1>9 DEF Word
<1>. QED  BY <1>2, <1>3, <1>4, <1>5, <1>7, <1>10, Zenon DEF Pair

Limbs8 == [Limbs -> Limb]

(* Sums of limbs are the sums of their words.                                *)
LEMMA LimbsCarried ==
  ASSUME NEW t \in [Limbs -> Int]
  PROVE  LET l == CarriedLimbs(t)
         IN  /\ FromLimbs(t) \in Numbers
             /\ \A i \in Limbs : l[i] \in Limb
             /\ Low(l) \in Limbs8 /\ FromLimbs(Low(l)) = FromLimbs(l)
             /\ FromLimbs(l) = Carried(FromLimbs(t)).w
             /\ l[8] = Carried(FromLimbs(t)).carry /\ l[8] \in Int
<1>1. PICK t0 \in Int, t1 \in Int, t2 \in Int, t3 \in Int, t4 \in Int, t5 \in Int, t6 \in Int,
           t7 \in Int :
        /\ t0 = t[0] /\ t1 = t[1] /\ t2 = t[2] /\ t3 = t[3]
        /\ t4 = t[4] /\ t5 = t[5] /\ t6 = t[6] /\ t7 = t[7]
  <2>1. /\ t[0] \in Int /\ t[1] \in Int /\ t[2] \in Int /\ t[3] \in Int
        /\ t[4] \in Int /\ t[5] \in Int /\ t[6] \in Int /\ t[7] \in Int
    BY DEF Limbs
  <2>. QED  BY <2>1, Zenon
<1>2. PICK l0 \in Limb, l1 \in Limb, c0 \in Int :
        Pair(t0, t1, 0, l0, l1, c0)
  <2>1. 0 \in Int
    OBVIOUS
  <2>. QED  BY <2>1, TwoLimbs
<1>3. PICK l2 \in Limb, l3 \in Limb, c1 \in Int :
        Pair(t2, t3, c0, l2, l3, c1)
  BY TwoLimbs
<1>4. PICK l4 \in Limb, l5 \in Limb, c2 \in Int :
        Pair(t4, t5, c1, l4, l5, c2)
  BY TwoLimbs
<1>5. PICK l6 \in Limb, l7 \in Limb, c3 \in Int :
        Pair(t6, t7, c2, l6, l7, c3)
  BY TwoLimbs
<1>6. t0 + 0 = t0 /\ t0 + Half * t1 + 0 = t0 + Half * t1 /\ t0 + Half * t1 \in Int
      /\ t2 + Half * t3 \in Int /\ t4 + Half * t5 \in Int /\ t6 + Half * t7 \in Int
  BY Sizes
<1>7. CarriedLimbs(t) = [i \in 0 .. 8 |-> <<l0, l1, l2, l3, l4, l5, l6, l7, c3>>[i + 1]]
  BY <1>1, <1>2, <1>3, <1>4, <1>5, <1>6, Zenon DEF CarriedLimbs, Pair
<1>. DEFINE l == CarriedLimbs(t)
<1>8. /\ l[0] = l0 /\ l[1] = l1 /\ l[2] = l2 /\ l[3] = l3 /\ l[4] = l4 /\ l[5] = l5 /\ l[6] = l6
      /\ l[7] = l7 /\ l[8] = c3
  BY <1>7
<1>. HIDE DEF l
<1>9. \A i \in Limbs : l[i] \in Limb
  BY <1>8 DEF Limbs
<1>10. Low(l) \in Limbs8 /\ FromLimbs(Low(l)) = FromLimbs(l)
  BY <1>9 DEF Low, Limbs8, FromLimbs, Limbs, Idx
<1>. DEFINE f == FromLimbs(t)
<1>11. f[0] = t0 + Half * t1 /\ f[1] = t2 + Half * t3 /\ f[2] = t4 + Half * t5
       /\ f[3] = t6 + Half * t7 /\ f \in Numbers
  BY <1>1, <1>6 DEF FromLimbs, Idx, Numbers
<1>. HIDE DEF f
<1>12. Carried(f) = [w |-> FourWords(l0 + Half * l1, l2 + Half * l3, l4 + Half * l5, l6 + Half * l7),
                     carry |-> c3]
  BY <1>2, <1>3, <1>4, <1>5, <1>6, <1>11, Zenon DEF Carried, Pair
<1>13. FromLimbs(l) = FourWords(l0 + Half * l1, l2 + Half * l3, l4 + Half * l5, l6 + Half * l7)
  BY <1>8 DEF FromLimbs, FourWords, Idx
<1>. QED  BY <1>8, <1>9, <1>10, <1>11, <1>12, <1>13 DEF l, f

(* Taking words apart into limbs and back changes nothing.                   *)
LEMMA LimbsOfWords ==
  ASSUME NEW a \in U256
  PROVE  ToLimbs(a) \in Limbs8 /\ FromLimbs(ToLimbs(a)) = a
<1>1. Half \in Nat /\ Half > 0 /\ B = Half * Half
  BY Sizes DEF B
<1>2. ASSUME NEW w \in Word
      PROVE  /\ w % Half \in Limb /\ w \div Half \in Limb
             /\ (w % Half) + Half * (w \div Half) = w
  <2>1. w \in 0 .. Half * Half - 1 /\ w \in Int
    BY <1>1 DEF Word
  <2>2. PICK l \in Limb, h \in Int : l = w % Half /\ h = w \div Half /\ w = l + Half * h
    BY <1>1, <2>1, Divides DEF Limb
  <2>3. h \in Limb
    <3>1. h <= -1 => Half * h <= Half * (-1)
      BY <1>1
    <3>2. h >= Half => Half * h >= Half * Half
      BY <1>1
    <3>. QED  BY <1>1, <2>1, <2>2, <3>1, <3>2 DEF Limb
  <2>. QED  BY <2>2, <2>3
<1>3. \A i \in Limbs : /\ i \div 2 \in Idx
                       /\ ToLimbs(a)[i] = IF i % 2 = 0 THEN a[i \div 2] % Half ELSE a[i \div 2] \div Half
  BY DEF ToLimbs, Limbs, Idx
<1>4. \A i \in Idx : a[i] \in Word
  BY DEF U256
<1>5. ToLimbs(a) \in Limbs8
  BY <1>2, <1>3, <1>4 DEF ToLimbs, Limbs8
<1>6. \A i \in Idx : /\ 2*i \in Limbs /\ 2*i + 1 \in Limbs /\ (2*i) % 2 = 0 /\ (2*i + 1) % 2 = 1
                     /\ (2*i) \div 2 = i /\ (2*i + 1) \div 2 = i
  BY DEF Idx, Limbs
<1>7. \A i \in Idx : FromLimbs(ToLimbs(a))[i] = a[i]
  <2>. TAKE i \in Idx
  <2>1. ToLimbs(a)[2*i] = a[i] % Half /\ ToLimbs(a)[2*i + 1] = a[i] \div Half
    BY <1>3, <1>6
  <2>2. (a[i] % Half) + Half * (a[i] \div Half) = a[i]
    BY <1>2, <1>4
  <2>3. FromLimbs(ToLimbs(a))[i] = ToLimbs(a)[2*i] + Half * ToLimbs(a)[2*i + 1]
    BY DEF FromLimbs
  <2>. QED  BY <2>1, <2>2, <2>3, Zenon
<1>8. DOMAIN a = Idx /\ a = [i \in Idx |-> a[i]]
  BY DEF U256
<1>9. FromLimbs(ToLimbs(a)) = [i \in Idx |-> FromLimbs(ToLimbs(a))[i]]
  BY DEF FromLimbs
<1>. QED  BY <1>5, <1>7, <1>8, <1>9

(* Pairs of limbs are words.                                                 *)
LEMMA WordsOfLimbs ==
  ASSUME NEW l, \A i \in Limbs : l[i] \in Limb
  PROVE  FromLimbs(l) \in U256 /\ \A i \in Idx : FromLimbs(l)[i] = l[2*i] + Half * l[2*i + 1]
<1>1. Half \in Nat /\ Half > 0 /\ B = Half * Half
  BY Sizes DEF B
<1>2. ASSUME NEW i \in Idx PROVE l[2*i] + Half * l[2*i + 1] \in Word
  <2>1. 2*i \in Limbs /\ 2*i + 1 \in Limbs
    BY DEF Idx, Limbs
  <2>2. PICK u \in 0 .. Half - 1, w \in 0 .. Half - 1 : w = l[2*i] /\ u = l[2*i + 1]
    BY <2>1 DEF Limb
  <2>3. w + Half * u \in 0 .. Half * Half - 1
    BY <1>1, OneMore
  <2>. QED  BY <1>1, <2>2, <2>3 DEF Word
<1>. QED  BY <1>2 DEF FromLimbs, U256

(* Sums and differences of limbs are those of their words.                   *)
LEMMA LimbSums ==
  ASSUME NEW l, NEW m, \A i \in Limbs : l[i] \in Limb, \A i \in Limbs : m[i] \in Limb
  PROVE  LET s == uint256_add(l, m)
             d == uint256_sub(l, m)
         IN  /\ FromLimbs(s) = Sum(FromLimbs(l), FromLimbs(m)).w
             /\ s[8] = Sum(FromLimbs(l), FromLimbs(m)).carry
             /\ FromLimbs(d) = Diff(FromLimbs(l), FromLimbs(m)).w
             /\ d[8] = Diff(FromLimbs(l), FromLimbs(m)).carry
             /\ \A i \in Limbs : s[i] \in Limb /\ d[i] \in Limb
             /\ FromLimbs(Low(s)) = FromLimbs(s) /\ FromLimbs(Low(d)) = FromLimbs(d)
<1>. DEFINE u == [i \in Limbs |-> l[i] + m[i]]
            v == [i \in Limbs |-> l[i] - m[i]]
<1>1. u \in [Limbs -> Int] /\ v \in [Limbs -> Int]
  BY Sizes DEF Limb
<1>2. FromLimbs(u) = [i \in Idx |-> FromLimbs(l)[i] + FromLimbs(m)[i]]
      /\ FromLimbs(v) = [i \in Idx |-> FromLimbs(l)[i] - FromLimbs(m)[i]]
  <2>1. ASSUME NEW i \in Idx
        PROVE  /\ u[2*i] + Half * u[2*i + 1]
                    = (l[2*i] + Half * l[2*i + 1]) + (m[2*i] + Half * m[2*i + 1])
               /\ v[2*i] + Half * v[2*i + 1]
                    = (l[2*i] + Half * l[2*i + 1]) - (m[2*i] + Half * m[2*i + 1])
    <3>1. 2*i \in Limbs /\ 2*i + 1 \in Limbs
      BY DEF Idx, Limbs
    <3>2. PICK p \in Int, q \in Int, r \in Int, t \in Int :
            p = l[2*i] /\ q = l[2*i + 1] /\ r = m[2*i] /\ t = m[2*i + 1]
      BY <3>1, Sizes DEF Limb
    <3>3. u[2*i] = p + r /\ u[2*i + 1] = q + t /\ v[2*i] = p - r /\ v[2*i + 1] = q - t
      BY <3>1, <3>2
    <3>4. (p + r) + Half * (q + t) = (p + Half * q) + (r + Half * t)
          /\ (p - r) + Half * (q - t) = (p + Half * q) - (r + Half * t)
      BY Sizes
    <3>. QED  BY <3>2, <3>3, <3>4, Zenon
  <2>. HIDE DEF u, v
  <2>. QED  BY <2>1, Zenon DEF FromLimbs
<1>3. uint256_add(l, m) = CarriedLimbs(u) /\ uint256_sub(l, m) = CarriedLimbs(v)
  BY DEF uint256_add, uint256_sub
<1>. HIDE DEF u, v
<1>4. Carried(FromLimbs(u)) = Sum(FromLimbs(l), FromLimbs(m))
      /\ Carried(FromLimbs(v)) = Diff(FromLimbs(l), FromLimbs(m))
  BY <1>2, Zenon DEF Sum, Diff
<1>. QED  BY <1>1, <1>3, <1>4, LimbsCarried, Zenon

(* The limbs of p are its words.                                             *)
LEMMA PLimbs == (\A i \in Limbs : P8[i] \in Limb) /\ FromLimbs(P8) = P
<1>1. Half \in Nat /\ K \in Nat /\ K >= 1 /\ Half > 2 * K /\ B = Half * Half /\ C = Half + K
  BY Sizes DEF B, C
<1>2. \A i \in Limbs : P8[i] \in Limb
  BY <1>1 DEF P8, Limb, Limbs
<1>3. (Half - K) + Half * (Half - 2) = B - C /\ (Half - 1) + Half * (Half - 1) = B - 1
  BY <1>1
<1>4. P8[0] = Half - K /\ P8[1] = Half - 2
      /\ \A i \in 2 .. 7 : P8[i] = Half - 1
  BY DEF P8, Limbs
<1>5. FromLimbs(P8) = [i \in Idx |-> IF i = 0 THEN (Half - K) + Half * (Half - 2)
                                     ELSE (Half - 1) + Half * (Half - 1)]
  BY <1>4 DEF FromLimbs, Idx
<1>6. P = [i \in Idx |-> IF i = 0 THEN B - C ELSE B - 1]
  BY DEF P, FourWords, Idx
<1>. QED  BY <1>2, <1>3, <1>5, <1>6, Zenon

(* The copy of the batch kernels.                                            *)
LEMMA SecpSums ==
  ASSUME NEW a \in Element, NEW b \in Element
  PROVE  LET s == FromLimbs(secp_mod_add(ToLimbs(a), ToLimbs(b)))
             d == FromLimbs(secp_mod_sub(ToLimbs(a), ToLimbs(b)))
         IN  /\ s \in U256 /\ Val(s) = FieldAdd(Val(a), Val(b))
             /\ d \in U256 /\ Val(d) = FieldSub(Val(a), Val(b))
<1>1. PICK l, m : /\ l = ToLimbs(a) /\ FromLimbs(l) = a /\ \A i \in Limbs : l[i] \in Limb
                  /\ m = ToLimbs(b) /\ FromLimbs(m) = b /\ \A i \in Limbs : m[i] \in Limb
  BY LimbsOfWords DEF Element, Limbs8
<1>2. PICK s, d : /\ s = uint256_add(l, m) /\ d = uint256_sub(l, m)
                  /\ FromLimbs(s) = Sum(a, b).w /\ s[8] = Sum(a, b).carry
                  /\ FromLimbs(d) = Diff(a, b).w /\ d[8] = Diff(a, b).carry
                  /\ \A i \in Limbs : s[i] \in Limb
                  /\ \A i \in Limbs : d[i] \in Limb
                  /\ FromLimbs(Low(s)) = FromLimbs(s) /\ FromLimbs(Low(d)) = FromLimbs(d)
  BY <1>1, LimbSums
<1>3. /\ FromLimbs(Low(uint256_sub(s, P8))) = Diff(Sum(a, b).w, P).w
      /\ FromLimbs(Low(uint256_add(d, P8))) = Sum(Diff(a, b).w, P).w
  BY <1>2, PLimbs, LimbSums
<1>4. AtLeast(s, P8) <=> Geq(Sum(a, b).w, P)
  BY <1>2, PLimbs DEF AtLeast
<1>5. FromLimbs(secp_mod_add(l, m))
        = IF Sum(a, b).carry # 0 \/ Geq(Sum(a, b).w, P) THEN Diff(Sum(a, b).w, P).w ELSE Sum(a, b).w
  BY <1>2, <1>3, <1>4 DEF secp_mod_add
<1>6. FromLimbs(secp_mod_sub(l, m)) = IF Diff(a, b).carry # 0 THEN Sum(Diff(a, b).w, P).w ELSE Diff(a, b).w
  BY <1>2, <1>3 DEF secp_mod_sub
<1>. QED  BY <1>1, <1>5, <1>6, AddOnce, SubOnce

-----------------------------------------------------------------------------
(* Products of four words, row by row.                                       *)

(* A sum of two words carries when it wraps below either of them.           *)
LEMMA Wraps ==
  ASSUME NEW u \in Word, NEW v \in Word
  PROVE  /\ (u + v) % B \in Word
         /\ ((u + v) % B) + B * Bit((u + v) % B < u) = u + v
         /\ ((u + v) % B) + B * Bit((u + v) % B < v) = u + v
         /\ Bit((u + v) % B < u) = (u + v) \div B
         /\ Bit((u + v) % B < v) = (u + v) \div B
<1>1. B \in Nat /\ B > 0 /\ u \in 0 .. B - 1 /\ v \in 0 .. B - 1
  BY Sizes DEF Word
<1>2. CASE u + v < B
  <2>1. u + v \in 0 .. B - 1 /\ (u + v) + B * 0 = u + v /\ 0 \in Int
    BY <1>1, <1>2
  <2>2. ((u + v) + B * 0) % B = u + v /\ ((u + v) + B * 0) \div B = 0
    BY <1>1, <2>1, DivUnique
  <2>. QED  BY <1>1, <1>2, <2>1, <2>2 DEF Bit, Word
<1>3. CASE u + v >= B
  <2>1. PICK r \in 0 .. B - 1 : r = u + v - B /\ r + B * 1 = u + v /\ r < u /\ r < v
    BY <1>1, <1>3
  <2>2. (r + B * 1) % B = r /\ (r + B * 1) \div B = 1
    BY <1>1, DivUnique
  <2>3. (u + v) % B = r /\ (u + v) \div B = 1
    BY <2>1, <2>2
  <2>. QED  BY <1>1, <2>1, <2>3 DEF Bit, Word
<1>. QED  BY <1>1, <1>2, <1>3

(* A product of two words leaves room for two carries.                      *)
LEMMA WordProduct ==
  ASSUME NEW u \in Word, NEW v \in Word
  PROVE  u * v \in Int /\ u * v >= 0 /\ u * v + B + B - 2 < B * B
<1>1. B \in Nat /\ B > 0 /\ u \in 0 .. B - 1 /\ v \in 0 .. B - 1
  BY Sizes DEF Word
<1>2. u * v <= (B - 1) * (B - 1) /\ u * v >= 0
  <2>1. u * v <= u * (B - 1) /\ u * v >= 0
    BY <1>1
  <2>2. u * (B - 1) <= (B - 1) * (B - 1)
    BY <1>1
  <2>3. u * v \in Int /\ u * (B - 1) \in Int /\ (B - 1) * (B - 1) \in Int
    BY <1>1
  <2>. QED  BY <2>1, <2>2, <2>3
<1>. QED  BY <1>1, <1>2

(* What is below B*B has two words.                                          *)
LEMMA Quotient ==
  ASSUME NEW n \in Int, n >= 0, n < B * B
  PROVE  n \div B \in Word /\ n % B \in Word /\ n = (n % B) + B * (n \div B)
<1>1. B \in Nat /\ B > 0
  BY Sizes
<1>2. PICK q \in Int, r \in 0 .. B - 1 : q = n \div B /\ r = n % B /\ n = r + B * q
  BY <1>1, Divides
<1>3. q <= -1 => B * q <= B * (-1)
  BY <1>1
<1>4. q >= B => B * q >= B * B
  BY <1>1
<1>5. q \in 0 .. B - 1
  BY <1>1, <1>2, <1>3, <1>4
<1>. QED  BY <1>2, <1>5 DEF Word

(* acc + x*y + carry never exceeds two words, and MulAdd returns both.       *)
LEMMA MulAddIs ==
  ASSUME NEW acc \in Word, NEW u \in Word, NEW v \in Word, NEW carry \in Word
  PROVE  LET m == MulAdd(acc, u, v, carry)
         IN  /\ m.word \in Word /\ m.carry \in Word
             /\ m.word + B * m.carry = acc + u * v + carry
<1>1. B \in Nat /\ B > 0 /\ acc \in 0 .. B - 1 /\ carry \in 0 .. B - 1
  BY Sizes DEF Word
<1>2. PICK n \in Int : n = u * v /\ n >= 0 /\ n + B + B - 2 < B * B
  BY WordProduct
<1>3. PICK lo \in Word, hi \in Word : lo = n % B /\ hi = n \div B /\ n = lo + B * hi
  <2>1. n < B * B
    BY <1>1, <1>2
  <2>. QED  BY <1>2, <2>1, Quotient
<1>4. PICK s1 \in Word, c1 \in {0, 1} :
        s1 = (acc + lo) % B /\ c1 = Bit(s1 < acc) /\ s1 + B * c1 = acc + lo
  BY Wraps DEF Bit
<1>5. PICK s2 \in Word, c2 \in {0, 1} :
        s2 = (s1 + carry) % B /\ c2 = Bit(s2 < carry) /\ s2 + B * c2 = s1 + carry
  BY Wraps DEF Bit
<1>6. PICK h \in Int : h = hi + c1 + c2
  BY Sizes DEF Word
<1>7. s2 + B * h = acc + n + carry
  <2>1. /\ s1 \in Int /\ s2 \in Int /\ lo \in Int /\ hi \in Int /\ c1 \in Int /\ c2 \in Int
        /\ acc \in Int /\ carry \in Int /\ B \in Int
    BY <1>1 DEF Word
  <2>2. B * h = B * hi + B * c1 + B * c2
    BY <1>6, <2>1
  <2>3. B * hi \in Int /\ B * c1 \in Int /\ B * c2 \in Int /\ B * h \in Int
    BY <2>1
  <2>4. n = lo + B * hi /\ s1 + B * c1 = acc + lo /\ s2 + B * c2 = s1 + carry
    BY <1>3, <1>4, <1>5
  <2>. QED  BY <2>1, <2>2, <2>3, <2>4
<1>8. h \in 0 .. B - 1
  <2>1. h >= B => B * h >= B * B
    BY <1>1
  <2>2. hi \in 0 .. B - 1 /\ s2 \in 0 .. B - 1
    BY DEF Word
  <2>3. h >= 0
    BY <1>1, <1>6, <2>2
  <2>4. B * h \in Int /\ B * B \in Int
    BY <1>1
  <2>5. h < B
    BY <1>1, <1>2, <1>7, <2>1, <2>2, <2>4
  <2>. QED  BY <1>1, <2>3, <2>5
<1>9. h % B = h
  BY <1>1, <1>8
<1>10. MulAdd(acc, u, v, carry) = [word |-> s2, carry |-> h]
  BY <1>2, <1>3, <1>4, <1>5, <1>6, <1>9, Zenon DEF MulAdd
<1>. QED  BY <1>2, <1>7, <1>8, <1>10 DEF Word

(* The words of a sum that is known are unique.                             *)
LEMMA WordCarry ==
  ASSUME NEW w \in Word, NEW c \in Int, NEW y \in Word, NEW d \in Int, w + B * c = y + B * d
  PROVE  w = y /\ c = d
<1>1. B \in Nat /\ B > 0 /\ w \in 0 .. B - 1 /\ y \in 0 .. B - 1
  BY Sizes DEF Word
<1>2. (w + B * c) % B = w /\ (w + B * c) \div B = c /\ (y + B * d) % B = y /\ (y + B * d) \div B = d
  BY <1>1, DivUnique
<1>. QED  BY <1>2, Zenon

(* What a row of four words and a carry is worth.                           *)
RowVal(r) == Val(r.w) + Top * r.carry

(* A row is the word times the number, added to what was there.              *)
LEMMA MulRowIs ==
  ASSUME NEW acc \in U256, NEW u \in Word, NEW b \in U256
  PROVE  LET r == MulRow(acc, u, b)
         IN  /\ r.w \in U256 /\ r.carry \in Word
             /\ RowVal(r) = Val(acc) + u * Val(b)
<1>1. PICK a0 \in Word, a1 \in Word, a2 \in Word, a3 \in Word :
        a0 = acc[0] /\ a1 = acc[1] /\ a2 = acc[2] /\ a3 = acc[3]
  BY DEF U256, Idx
<1>2. PICK b0 \in Word, b1 \in Word, b2 \in Word, b3 \in Word :
        b0 = b[0] /\ b1 = b[1] /\ b2 = b[2] /\ b3 = b[3]
  BY DEF U256, Idx
<1>3. PICK w0 \in Word, c0 \in Word : /\ w0 = MulAdd(a0, u, b0, 0).word
                                      /\ c0 = MulAdd(a0, u, b0, 0).carry
                                      /\ w0 + B * c0 = a0 + u * b0 + 0
  <2>1. 0 \in Word
    BY Sizes DEF Word
  <2>. QED  BY <2>1, MulAddIs
<1>4. PICK w1 \in Word, c1 \in Word : /\ w1 = MulAdd(a1, u, b1, c0).word
                                      /\ c1 = MulAdd(a1, u, b1, c0).carry
                                      /\ w1 + B * c1 = a1 + u * b1 + c0
  BY MulAddIs
<1>5. PICK w2 \in Word, c2 \in Word : /\ w2 = MulAdd(a2, u, b2, c1).word
                                      /\ c2 = MulAdd(a2, u, b2, c1).carry
                                      /\ w2 + B * c2 = a2 + u * b2 + c1
  BY MulAddIs
<1>6. PICK w3 \in Word, c3 \in Word : /\ w3 = MulAdd(a3, u, b3, c2).word
                                      /\ c3 = MulAdd(a3, u, b3, c2).carry
                                      /\ w3 + B * c3 = a3 + u * b3 + c2
  BY MulAddIs
<1>7. MulRow(acc, u, b) = [w |-> FourWords(w0, w1, w2, w3), carry |-> c3]
  BY <1>1, <1>2, <1>3, <1>4, <1>5, <1>6, Zenon DEF MulRow
<1>8. /\ a0 \in Int /\ a1 \in Int /\ a2 \in Int /\ a3 \in Int /\ b0 \in Int /\ b1 \in Int
      /\ b2 \in Int /\ b3 \in Int /\ u \in Int /\ w0 \in Int /\ w1 \in Int /\ w2 \in Int
      /\ w3 \in Int /\ c0 \in Int /\ c1 \in Int /\ c2 \in Int /\ c3 \in Int
  BY Sizes DEF Word
<1>9. PICK v0 \in Int, v1 \in Int, v2 \in Int, v3 \in Int :
        v0 = a0 + u * b0 /\ v1 = a1 + u * b1 /\ v2 = a2 + u * b2 /\ v3 = a3 + u * b3
  BY <1>8
<1>10. v0 = w0 + B * c0 /\ v1 + c0 = w1 + B * c1 /\ v2 + c1 = w2 + B * c2 /\ v3 + c2 = w3 + B * c3
  BY <1>3, <1>4, <1>5, <1>6, <1>8, <1>9, Sizes
<1>11. v0 + B * (v1 + B * (v2 + B * v3)) = w0 + B * (w1 + B * (w2 + B * w3)) + Top * c3
  BY <1>8, <1>10, FourSums
<1>12. v0 + B * (v1 + B * (v2 + B * v3))
         = (a0 + B * (a1 + B * (a2 + B * a3))) + u * (b0 + B * (b1 + B * (b2 + B * b3)))
  BY <1>8, <1>9, Sizes
<1>13. /\ Val(acc) = a0 + B * (a1 + B * (a2 + B * a3))
       /\ Val(b) = b0 + B * (b1 + B * (b2 + B * b3))
  BY <1>1, <1>2, Zenon DEF Val
<1>14. /\ FourWords(w0, w1, w2, w3) \in U256
       /\ Val(FourWords(w0, w1, w2, w3)) = w0 + B * (w1 + B * (w2 + B * w3))
  BY FourWordsAre, ValWords
<1>. QED  BY <1>7, <1>11, <1>12, <1>13, <1>14 DEF RowVal

(* The lowest word of a row, and the words above it.                        *)
LEMMA AboveIs ==
  ASSUME NEW r, r.w \in U256, r.carry \in Word
  PROVE  /\ Above(r) \in U256 /\ r.w[0] \in Word
         /\ RowVal(r) = r.w[0] + B * Val(Above(r))
<1>1. PICK w0 \in Word, w1 \in Word, w2 \in Word, w3 \in Word :
        w0 = r.w[0] /\ w1 = r.w[1] /\ w2 = r.w[2] /\ w3 = r.w[3]
  BY DEF U256, Idx
<1>2. PICK c \in Word : c = r.carry
  OBVIOUS
<1>3. w0 \in Int /\ w1 \in Int /\ w2 \in Int /\ w3 \in Int /\ c \in Int
  BY Sizes DEF Word
<1>4. Above(r) = FourWords(w1, w2, w3, c)
  BY <1>1, <1>2, Zenon DEF Above
<1>5. Above(r) \in U256 /\ Val(Above(r)) = w1 + B * (w2 + B * (w3 + B * c))
  <2>1. /\ FourWords(w1, w2, w3, c) \in U256
        /\ Val(FourWords(w1, w2, w3, c)) = w1 + B * (w2 + B * (w3 + B * c))
    BY FourWordsAre, ValWords
  <2>. QED  BY <1>4, <2>1, Zenon
<1>6. (w0 + B * (w1 + B * (w2 + B * w3))) + (B * (B * (B * B))) * c
        = w0 + B * (w1 + B * (w2 + B * (w3 + B * c)))
  BY <1>3, Sizes
<1>7. RowVal(r) = (w0 + B * (w1 + B * (w2 + B * w3))) + (B * (B * (B * B))) * c
  <2>1. RowVal(r) = (w0 + B * (w1 + B * (w2 + B * w3))) + Top * c
    BY <1>1, <1>2, Zenon DEF RowVal, Val
  <2>2. Top = B * (B * (B * B))
    BY TopIs
  <2>. QED  BY <2>1, <2>2, Zenon
<1>. QED  BY <1>1, <1>5, <1>6, <1>7, Zenon

(* Four rows as one product.                                                 *)
LEMMA FourRows ==
  ASSUME NEW a0 \in Int, NEW a1 \in Int, NEW a2 \in Int, NEW a3 \in Int, NEW b \in Int,
         NEW l0 \in Int, NEW l1 \in Int, NEW l2 \in Int, NEW l3 \in Int,
         NEW h0 \in Int, NEW h1 \in Int, NEW h2 \in Int, NEW h3 \in Int,
         a0 * b = l0 + B * h0, h0 + a1 * b = l1 + B * h1,
         h1 + a2 * b = l2 + B * h2, h2 + a3 * b = l3 + B * h3
  PROVE  l0 + B * (l1 + B * (l2 + B * l3)) + Top * h3 = (a0 + B * (a1 + B * (a2 + B * a3))) * b
<1>1. PICK t0 \in Int, t1 \in Int, t2 \in Int, t3 \in Int :
        t0 = a0 * b /\ t1 = a1 * b /\ t2 = a2 * b /\ t3 = a3 * b
  OBVIOUS
<1>2. t0 = l0 + B * h0 /\ t1 + h0 = l1 + B * h1 /\ t2 + h1 = l2 + B * h2 /\ t3 + h2 = l3 + B * h3
  BY <1>1
<1>3. t0 + B * (t1 + B * (t2 + B * t3)) = l0 + B * (l1 + B * (l2 + B * l3)) + Top * h3
  BY <1>2, FourSums
<1>4. t0 + B * (t1 + B * (t2 + B * t3)) = (a0 + B * (a1 + B * (a2 + B * a3))) * b
  BY <1>1, Sizes
<1>. QED  BY <1>3, <1>4, Zenon

(* What the words of a product are worth.                                   *)
Worth(prod) == Val(prod.low) + Top * Val(prod.high)

(* A row adds one word of a product, and hands the words above it on.       *)
RowParts(r, n, l, h) == Above(r) \in U256 /\ l = r.w[0] /\ h = Val(Above(r)) /\ n = l + B * h

LEMMA RowStep ==
  ASSUME NEW acc \in U256, NEW u \in Word, NEW b \in U256
  PROVE  \E l \in Word, h \in Int : RowParts(MulRow(acc, u, b), Val(acc) + u * Val(b), l, h)
<1>1. PICK r : r = MulRow(acc, u, b) /\ r.w \in U256 /\ r.carry \in Word
               /\ RowVal(r) = Val(acc) + u * Val(b)
  BY MulRowIs
<1>2. Above(r) \in U256 /\ r.w[0] \in Word /\ RowVal(r) = r.w[0] + B * Val(Above(r))
  BY <1>1, AboveIs
<1>3. Val(Above(r)) \in Int
  BY <1>2, ValFits, TopIs
<1>. QED  BY <1>1, <1>2, <1>3, Zenon DEF RowParts

(* The eight words of a product are the product.                             *)
LEMMA ProductIs ==
  ASSUME NEW a \in U256, NEW b \in U256
  PROVE  LET p == Product(a, b)
         IN  p.low \in U256 /\ p.high \in U256 /\ Worth(p) = Val(a) * Val(b)
<1>1. PICK a0 \in Word, a1 \in Word, a2 \in Word, a3 \in Word :
        a0 = a[0] /\ a1 = a[1] /\ a2 = a[2] /\ a3 = a[3]
  BY DEF U256, Idx
<1>2. PICK n \in Int : n = Val(b)
  BY ValFits, TopIs
<1>. DEFINE r0 == MulRow(Zero, a0, b)
            r1 == MulRow(Above(r0), a1, b)
            r2 == MulRow(Above(r1), a2, b)
            r3 == MulRow(Above(r2), a3, b)
<1>3. PICK l0 \in Word, h0 \in Int : RowParts(r0, 0 + a0 * n, l0, h0)
  BY <1>2, Constants, RowStep
<1>4. PICK l1 \in Word, h1 \in Int : RowParts(r1, h0 + a1 * n, l1, h1)
  <2>. HIDE DEF r0
  <2>1. Above(r0) \in U256 /\ Val(Above(r0)) = h0
    BY <1>3, Zenon DEF RowParts
  <2>2. \E l \in Word, h \in Int : RowParts(r1, Val(Above(r0)) + a1 * Val(b), l, h)
    BY <2>1, RowStep, Zenon
  <2>. QED  BY <1>2, <2>1, <2>2, Zenon
<1>5. PICK l2 \in Word, h2 \in Int : RowParts(r2, h1 + a2 * n, l2, h2)
  <2>. HIDE DEF r1
  <2>1. Above(r1) \in U256 /\ Val(Above(r1)) = h1
    BY <1>4, Zenon DEF RowParts
  <2>2. \E l \in Word, h \in Int : RowParts(r2, Val(Above(r1)) + a2 * Val(b), l, h)
    BY <2>1, RowStep, Zenon
  <2>. QED  BY <1>2, <2>1, <2>2, Zenon
<1>6. PICK l3 \in Word, h3 \in Int : RowParts(r3, h2 + a3 * n, l3, h3)
  <2>. HIDE DEF r2
  <2>1. Above(r2) \in U256 /\ Val(Above(r2)) = h2
    BY <1>5, Zenon DEF RowParts
  <2>2. \E l \in Word, h \in Int : RowParts(r3, Val(Above(r2)) + a3 * Val(b), l, h)
    BY <2>1, RowStep, Zenon
  <2>. QED  BY <1>2, <2>1, <2>2, Zenon
<1>7. Product(a, b) = [low |-> FourWords(l0, l1, l2, l3), high |-> Above(r3)]
  BY <1>1, <1>3, <1>4, <1>5, <1>6, Zenon DEF Product, RowParts
<1>. HIDE DEF r0, r1, r2, r3
<1>8. l0 \in Int /\ l1 \in Int /\ l2 \in Int /\ l3 \in Int
      /\ a0 \in Int /\ a1 \in Int /\ a2 \in Int /\ a3 \in Int
  BY Sizes DEF Word
<1>9. /\ 0 + a0 * n = l0 + B * h0 /\ h0 + a1 * n = l1 + B * h1
      /\ h1 + a2 * n = l2 + B * h2 /\ h2 + a3 * n = l3 + B * h3
      /\ Above(r3) \in U256 /\ h3 = Val(Above(r3))
  BY <1>3, <1>4, <1>5, <1>6, Zenon DEF RowParts
<1>10. a0 * n = l0 + B * h0
  BY <1>8, <1>9
<1>11. l0 + B * (l1 + B * (l2 + B * l3)) + Top * h3 = (a0 + B * (a1 + B * (a2 + B * a3))) * n
  BY <1>8, <1>9, <1>10, FourRows
<1>12. Val(a) = a0 + B * (a1 + B * (a2 + B * a3))
  BY <1>1, Zenon DEF Val
<1>13. /\ FourWords(l0, l1, l2, l3) \in U256
       /\ Val(FourWords(l0, l1, l2, l3)) = l0 + B * (l1 + B * (l2 + B * l3))
  BY FourWordsAre, ValWords
<1>. QED  BY <1>2, <1>7, <1>9, <1>11, <1>12, <1>13 DEF Worth

-----------------------------------------------------------------------------
(* Reduction. 2^256 is C more than a multiple of the prime, so that a high part*)
(* comes in as C times itself; each fold leaves less above the low four words,*)
(* and what each leaves differs from the product by a multiple of the prime. *)

(* C times the high part stands for the high part.                           *)
LEMMA LeavesFold ==
  ASSUME NEW m \in Int, NEW n \in Int
  PROVE  Leaves(m + Top * n, m + C * n)
<1>1. Top \in Int /\ C \in Int /\ Prime \in Int /\ Prime = Top - C
  BY TopIs, Sizes
<1>. HIDE DEF Prime
<1>2. m + Top * n = (m + C * n) + Prime * n
  BY <1>1
<1>. QED  BY <1>2 DEF Leaves

(* The high words come in as C times themselves: what is left above four    *)
(* words is at most C.                                                       *)
LEMMA FirstFold ==
  ASSUME NEW m \in 0 .. Top - 1, NEW n \in 0 .. Top - 1, NEW w \in 0 .. Top - 1, NEW c \in Int,
         w + Top * c = m + C * n
  PROVE  c \in 0 .. C /\ Leaves(m + Top * n, w + Top * c)
<1>1. Top \in Nat /\ C \in Nat
  BY TopIs, Sizes
<1>2. n \in Int /\ m \in Int
  BY <1>1
<1>3. c >= C + 1 => Top * c >= Top * (C + 1)
  BY <1>1
<1>4. c <= -1 => Top * c <= Top * (-1)
  BY <1>1
<1>5. C * n <= C * (Top - 1) /\ C * n >= 0 /\ C * n \in Int /\ Top * c \in Int
  BY <1>1
<1>6. Top * (C + 1) = C * (Top - 1) + C + Top /\ Top * (-1) = -Top /\ C * (Top - 1) \in Int
  BY <1>1
<1>7. c < C + 1 /\ c > -1
  BY <1>1, <1>3, <1>4, <1>5, <1>6
<1>8. Leaves(m + Top * n, m + C * n)
  BY <1>2, LeavesFold
<1>. QED  BY <1>1, <1>7, <1>8

(* After the second fold at most one is left over, and then so little is    *)
(* below it that a third leaves nothing.                                     *)
LEMMA SecondFold ==
  ASSUME NEW m \in 0 .. Top - 1, NEW n \in 0 .. C, NEW w \in 0 .. Top - 1, NEW c \in Int,
         w + Top * c = m + C * n
  PROVE  /\ c \in {0, 1} /\ (c = 1 => w + C < Top)
         /\ Leaves(m + Top * n, w + Top * c)
<1>1. Top \in Nat /\ C \in Nat /\ C > 0 /\ Top > 4 * (C * C)
  <2>1. 4 * C * C = 4 * (C * C)
    BY Sizes
  <2>. QED  BY <2>1, TopIs, Sizes
<1>2. n \in Int /\ m \in Int
  BY <1>1
<1>3. C * n <= C * C /\ C * n >= 0 /\ C * n \in Int /\ Top * c \in Int /\ C * C >= C /\ C * C \in Int
  BY <1>1
<1>4. c >= 2 => Top * c >= Top * 2
  BY <1>1
<1>5. c <= -1 => Top * c <= Top * (-1)
  BY <1>1
<1>6. c = 1 => Top * c = Top
  BY <1>1
<1>7. Top * 2 = Top + Top /\ Top * (-1) = -Top
  BY <1>1
<1>8. c < 2 /\ c > -1
  BY <1>1, <1>2, <1>3, <1>4, <1>5, <1>7
<1>9. c = 1 => w + C < Top
  BY <1>1, <1>2, <1>3, <1>6
<1>10. Leaves(m + Top * n, m + C * n)
  BY <1>2, LeavesFold
<1>. QED  BY <1>8, <1>9, <1>10

LEMMA ThirdFold ==
  ASSUME NEW m \in 0 .. Top - 1, NEW n \in {0, 1}, n = 1 => m + C < Top,
         NEW w \in 0 .. Top - 1, NEW c \in Int, w + Top * c = m + C * n
  PROVE  c = 0 /\ Leaves(m + Top * n, w)
<1>1. Top \in Nat /\ C \in Nat
  BY TopIs, Sizes
<1>2. n \in Int /\ m \in Int
  BY <1>1
<1>3. m + C * n \in 0 .. Top - 1
  BY <1>1
<1>4. c >= 1 => Top * c >= Top * 1
  BY <1>1
<1>5. c <= -1 => Top * c <= Top * (-1)
  BY <1>1
<1>6. c = 0 => Top * c = 0
  BY <1>1
<1>7. Top * 1 = Top /\ Top * (-1) = -Top /\ Top * c \in Int
  BY <1>1
<1>8. c = 0
  BY <1>1, <1>3, <1>4, <1>5, <1>7
<1>9. w = m + C * n
  BY <1>1, <1>3, <1>6, <1>8
<1>10. Leaves(m + Top * n, m + C * n)
  BY <1>2, LeavesFold
<1>. QED  BY <1>8, <1>9, <1>10

(* Words that are the product but for multiples of p, reduced, are the       *)
(* product.                                                                  *)
LEMMA Reduced ==
  ASSUME NEW m \in 0 .. Prime - 1, NEW b \in U256, NEW t \in U256, Leaves(m * Val(b), Val(t))
  PROVE  Below(t) \in U256 /\ Val(Below(t)) = FieldMul(m, Val(b))
<1>1. Prime \in Nat
  BY TopIs
<1>2. Val(b) \in Int /\ Val(t) \in Int /\ m \in Int
  BY <1>1, ValFits, TopIs
<1>3. PICK n \in Int : n = m * Val(b)
  BY <1>2
<1>4. PICK v \in Int : v = Val(t)
  BY <1>2
<1>5. PICK r \in 0 .. Prime - 1 : /\ r = Val(Below(t)) /\ Below(t) \in U256
                                  /\ r = IF v >= Prime THEN v - Prime ELSE v
  BY <1>4, BelowIs DEF Element
<1>. HIDE DEF Prime
<1>6. v + Prime * 0 = v /\ v + Prime * (-1) = v - Prime
  BY <1>1
<1>7. Leaves(v, r)
  <2>1. 0 \in Int /\ -1 \in Int
    OBVIOUS
  <2>2. Leaves(v, v) /\ Leaves(v, v + Prime * (-1))
    BY <2>1, LeavesSelf
  <2>. QED  BY <1>5, <1>6, <2>2
<1>8. Leaves(n, r)
  <2>1. r \in Int
    BY <1>1
  <2>. QED  BY <1>3, <1>4, <1>7, <2>1, LeavesTwice
<1>9. n % Prime = r
  BY <1>8, LeavesMod
<1>. QED  BY <1>3, <1>5, <1>9, ProductMod

LEMMA LeavesThrice ==
  ASSUME NEW n \in Int, NEW m \in Int, NEW k \in Int, NEW r \in Int,
         Leaves(n, m), Leaves(m, k), Leaves(k, r)
  PROVE  Leaves(n, r)
BY LeavesTwice, Zenon

(* C is a word.                                                              *)
LEMMA CWord == C \in Word /\ K \in Word /\ Half \in Word /\ 0 \in Word /\ 1 \in Word
<1>1. B \in Nat /\ C \in Nat /\ K \in Nat /\ Half \in Nat /\ B > 2 * C /\ C > Half /\ Half > 2 * K /\ K >= 1
  BY Sizes
<1>. QED  BY <1>1 DEF Word

(* A word alone.                                                             *)
LEMMA SmallHigh ==
  ASSUME NEW w \in Word
  PROVE  FourWords(w, 0, 0, 0) \in U256 /\ Val(FourWords(w, 0, 0, 0)) = w
<1>1. FourWords(w, 0, 0, 0) \in U256
  BY CWord, FourWordsAre
<1>2. Val(FourWords(w, 0, 0, 0)) = w + B * (0 + B * (0 + B * 0))
  BY ValWords
<1>3. w + B * (0 + B * (0 + B * 0)) = w
  BY Sizes DEF Word
<1>. QED  BY <1>1, <1>2, <1>3, Zenon

LEMMA RowSum ==
  ASSUME NEW acc \in U256, NEW u \in Word, NEW b \in U256
  PROVE  \E r : /\ r = MulRow(acc, u, b) /\ r.w \in U256 /\ r.carry \in Word
                /\ Val(r.w) + Top * r.carry = Val(acc) + u * Val(b)
<1>1. PICK r : r = MulRow(acc, u, b)
  OBVIOUS
<1>2. r.w \in U256 /\ r.carry \in Word /\ RowVal(r) = Val(acc) + u * Val(b)
  BY <1>1, MulRowIs
<1>. QED  BY <1>1, <1>2, Zenon DEF RowVal

(* A round of the CPU's reduction.                                           *)
LEMMA CpuFold ==
  ASSUME NEW prod, prod.low \in U256, prod.high \in U256
  PROVE  LET f == cpu_Fold(prod)
         IN  /\ f.low \in U256 /\ f.high \in U256
             /\ Worth(f) = Val(prod.low) + C * Val(prod.high)
<1>1. CASE prod.high = Zero
  <2>1. cpu_Fold(prod) = prod
    BY <1>1, Zenon DEF cpu_Fold
  <2>2. Val(prod.high) = 0 /\ Top * 0 = 0 /\ C * 0 = 0
    BY <1>1, Constants, TopIs, Sizes
  <2>. QED  BY <2>1, <2>2, Zenon DEF Worth
<1>2. CASE prod.high # Zero
  <2>1. PICK r : /\ r = MulRow(prod.low, C, prod.high) /\ r.w \in U256 /\ r.carry \in Word
                 /\ RowVal(r) = Val(prod.low) + C * Val(prod.high)
    BY CWord, MulRowIs
  <2>2. cpu_Fold(prod) = [low |-> r.w, high |-> FourWords(r.carry, 0, 0, 0)]
    BY <1>2, <2>1, Zenon DEF cpu_Fold
  <2>3. FourWords(r.carry, 0, 0, 0) \in U256 /\ Val(FourWords(r.carry, 0, 0, 0)) = r.carry
    BY <2>1, SmallHigh
  <2>. QED  BY <2>1, <2>2, <2>3 DEF Worth, RowVal
<1>. QED  BY <1>1, <1>2

(* Three rounds are enough for the CPU copy.                                 *)
LEMMA CpuMul ==
  ASSUME NEW a \in Element, NEW b \in Element
  PROVE  cpu_mod_mul(a, b) \in U256 /\ Val(cpu_mod_mul(a, b)) = FieldMul(Val(a), Val(b))
<1>1. a \in U256 /\ b \in U256 /\ Val(a) \in 0 .. Prime - 1
  BY ValFits, TopIs DEF Element
<1>2. PICK p : p = Product(a, b) /\ p.low \in U256 /\ p.high \in U256
               /\ Val(p.low) + Top * Val(p.high) = Val(a) * Val(b)
  BY <1>1, ProductIs, Zenon DEF Worth
<1>3. PICK f : f = cpu_Fold(p) /\ f.low \in U256 /\ f.high \in U256
               /\ Val(f.low) + Top * Val(f.high) = Val(p.low) + C * Val(p.high)
  BY <1>2, CpuFold, Zenon DEF Worth
<1>4. PICK g : g = cpu_Fold(f) /\ g.low \in U256 /\ g.high \in U256
               /\ Val(g.low) + Top * Val(g.high) = Val(f.low) + C * Val(f.high)
  BY <1>3, CpuFold, Zenon DEF Worth
<1>5. PICK h : h = cpu_Fold(g) /\ h.low \in U256 /\ h.high \in U256
               /\ Val(h.low) + Top * Val(h.high) = Val(g.low) + C * Val(g.high)
  BY <1>4, CpuFold, Zenon DEF Worth
<1>6. PICK p0 \in 0 .. Top - 1, p1 \in 0 .. Top - 1 : p0 = Val(p.low) /\ p1 = Val(p.high)
  BY <1>2, ValFits
<1>7. PICK f0 \in 0 .. Top - 1, f1 \in Int : f0 = Val(f.low) /\ f1 = Val(f.high)
  BY <1>3, ValFits, TopIs
<1>8. PICK g0 \in 0 .. Top - 1, g1 \in Int : g0 = Val(g.low) /\ g1 = Val(g.high)
  BY <1>4, ValFits, TopIs
<1>9. PICK h0 \in 0 .. Top - 1, h1 \in Int : h0 = Val(h.low) /\ h1 = Val(h.high)
  BY <1>5, ValFits, TopIs
<1>10. f1 \in 0 .. C /\ Leaves(p0 + Top * p1, f0 + Top * f1)
  <2>1. f0 + Top * f1 = p0 + C * p1
    BY <1>3, <1>6, <1>7, Zenon
  <2>. QED  BY <2>1, FirstFold
<1>11. /\ g1 \in {0, 1} /\ (g1 = 1 => g0 + C < Top)
       /\ Leaves(f0 + Top * f1, g0 + Top * g1)
  <2>1. g0 + Top * g1 = f0 + C * f1
    BY <1>4, <1>7, <1>8, Zenon
  <2>. QED  BY <1>10, <2>1, SecondFold
<1>12. Leaves(g0 + Top * g1, h0)
  <2>1. h0 + Top * h1 = g0 + C * g1
    BY <1>5, <1>8, <1>9, Zenon
  <2>. QED  BY <1>11, <2>1, ThirdFold
<1>13. Leaves(p0 + Top * p1, h0)
  <2>1. p0 + Top * p1 \in Int /\ f0 + Top * f1 \in Int /\ g0 + Top * g1 \in Int /\ h0 \in Int
    BY TopIs
  <2>. QED  BY <1>10, <1>11, <1>12, <2>1, LeavesThrice, Zenon
<1>14. Leaves(Val(a) * Val(b), Val(h.low))
  BY <1>2, <1>6, <1>9, <1>13, Zenon
<1>15. cpu_mod_mul(a, b) = Below(h.low)
  <2>1. \A u, v : cpu_sub256(u, v) = Diff(u, v)
    BY Zenon DEF cpu_sub256, Diff
  <2>. QED  BY <1>2, <1>3, <1>4, <1>5, <2>1, Zenon DEF cpu_mod_mul, cpu_mod_p, Below
<1>. QED  BY <1>1, <1>5, <1>14, <1>15, Reduced

(* A number of two words onto the lowest two of four.                       *)
LEMMA LowSum ==
  ASSUME NEW w \in U256, NEW m \in Int
  PROVE  LET s == Carried(FourWords(w[0] + (m % B), w[1] + m \div B, w[2], w[3]))
         IN  /\ s.w \in U256 /\ s.carry \in Int /\ Val(s.w) + Top * s.carry = Val(w) + m
<1>1. PICK w0 \in Int, w1 \in Int, w2 \in Int, w3 \in Int :
        w0 = w[0] /\ w1 = w[1] /\ w2 = w[2] /\ w3 = w[3]
  <2>1. w[0] \in Int /\ w[1] \in Int /\ w[2] \in Int /\ w[3] \in Int
    BY ValFits DEF Numbers, Idx
  <2>. QED  BY <2>1
<1>2. PICK q \in Int, l \in Int : q = m \div B /\ l = m % B /\ m = l + B * q
  <2>1. PICK q \in Int, l \in Word : q = m \div B /\ l = m % B /\ m = l + B * q
    BY Split
  <2>2. l \in Int
    BY Sizes DEF Word
  <2>. QED  BY <2>1, <2>2
<1>. DEFINE t == FourWords(w0 + l, w1 + q, w2, w3)
<1>3. Carried(FourWords(w[0] + (m % B), w[1] + m \div B, w[2], w[3])) = Carried(t)
  BY <1>1, <1>2, Zenon
<1>4. t \in Numbers /\ Val(t) = (w0 + l) + B * ((w1 + q) + B * (w2 + B * w3))
  BY FourWordsAre, ValWords
<1>5. Val(w) = w0 + B * (w1 + B * (w2 + B * w3))
  BY <1>1, Zenon DEF Val
<1>6. (w0 + l) + B * ((w1 + q) + B * (w2 + B * w3)) = (w0 + B * (w1 + B * (w2 + B * w3))) + (l + B * q)
  BY Sizes
<1>. HIDE DEF t
<1>7. Val(t) = Val(w) + m
  BY <1>2, <1>4, <1>5, <1>6, Zenon
<1>. QED  BY <1>3, <1>4, <1>7, CarriedIs, Zenon

(* The kangaroo copy adds high * K and high half a word further up.          *)
LEMMA KangarooFoldHigh ==
  ASSUME NEW prod, prod.low \in U256, prod.high \in U256
  PROVE  LET f == kangaroo_FoldHigh(prod)
         IN  /\ f.w \in U256 /\ f.extra \in 0 .. C
             /\ Val(f.w) + Top * f.extra = Val(prod.low) + C * Val(prod.high)
             /\ Leaves(Worth(prod), Val(f.w) + Top * f.extra)
<1>2. PICK r : /\ r = MulRow(prod.low, K, prod.high) /\ r.w \in U256 /\ r.carry \in Word
               /\ Val(r.w) + Top * r.carry = Val(prod.low) + K * Val(prod.high)
  BY CWord, RowSum
<1>1. PICK s : /\ s = MulRow(r.w, Half, prod.high) /\ s.w \in U256 /\ s.carry \in Word
               /\ Val(s.w) + Top * s.carry = Val(r.w) + Half * Val(prod.high)
  BY <1>2, CWord, RowSum
<1>3. PICK l \in 0 .. Top - 1, h \in 0 .. Top - 1, w \in 0 .. Top - 1, v \in Int :
        l = Val(prod.low) /\ h = Val(prod.high) /\ w = Val(s.w) /\ v = Val(r.w)
  BY <1>1, <1>2, ValFits, TopIs
<1>4. PICK c \in Int, d \in Int : c = r.carry /\ d = s.carry
  BY <1>1, <1>2, Sizes DEF Word
<1>5. w + Top * (c + d) = l + C * h
  <2>1. v + Top * c = l + K * h /\ w + Top * d = v + Half * h
    BY <1>1, <1>2, <1>3, <1>4, Zenon
  <2>2. Top \in Int /\ K \in Int /\ Half \in Int /\ C = Half + K
    BY TopIs, Sizes DEF C
  <2>3. Top * c \in Int /\ Top * d \in Int /\ K * h \in Int /\ Half * h \in Int
        /\ Top * (c + d) = Top * c + Top * d /\ C * h = Half * h + K * h /\ l \in Int /\ w \in Int
    BY <2>2
  <2>. QED  BY <2>1, <2>3
<1>6. c + d \in 0 .. C /\ Leaves(l + Top * h, w + Top * (c + d))
  <2>1. c + d \in Int
    OBVIOUS
  <2>. QED  BY <1>5, <2>1, FirstFold
<1>7. (c + d) % B = c + d
  BY <1>6, Sizes
<1>8. kangaroo_FoldHigh(prod) = [w |-> s.w, extra |-> c + d]
  BY <1>1, <1>2, <1>4, <1>7, Zenon DEF kangaroo_FoldHigh
<1>. QED  BY <1>1, <1>2, <1>3, <1>5, <1>6, <1>8 DEF Worth

LEMMA KangarooExtra ==
  ASSUME NEW acc, acc.w \in U256, acc.extra \in Int
  PROVE  LET f == kangaroo_FoldExtra(acc)
         IN  /\ f.w \in U256 /\ f.extra \in Int
             /\ Val(f.w) + Top * f.extra = Val(acc.w) + C * acc.extra
<1>1. PICK m \in Int : m = acc.extra * C /\ m = C * acc.extra
  BY Sizes
<1>2. PICK s : /\ s = Carried(FourWords(acc.w[0] + (m % B), acc.w[1] + m \div B, acc.w[2], acc.w[3]))
               /\ s.w \in U256 /\ s.carry \in Int /\ Val(s.w) + Top * s.carry = Val(acc.w) + m
  BY LowSum
<1>3. kangaroo_FoldExtra(acc) = [w |-> s.w, extra |-> s.carry]
  BY <1>1, <1>2, Zenon DEF kangaroo_FoldExtra
<1>. QED  BY <1>1, <1>2, <1>3

LEMMA KangarooLoop ==
  ASSUME NEW acc, acc.w \in U256, acc.extra \in Nat
  PROVE  LET f == kangaroo_Loop(acc)
         IN  /\ f.w \in U256 /\ f.extra \in Int
             /\ Val(f.w) + Top * f.extra = Val(acc.w) + C * acc.extra
<1>1. CASE acc.extra > 0
  BY <1>1, KangarooExtra DEF kangaroo_Loop
<1>2. CASE acc.extra = 0
  <2>1. kangaroo_Loop(acc) = acc
    BY <1>2 DEF kangaroo_Loop
  <2>2. C * 0 = 0 /\ Top * 0 = 0
    BY TopIs, Sizes
  <2>. QED  BY <1>2, <2>1, <2>2
<1>. QED  BY <1>1, <1>2

(* Its loop has nothing left to do after two rounds.                         *)
LEMMA KangarooMul ==
  ASSUME NEW a \in Element, NEW b \in Element
  PROVE  kangaroo_mod_mul(a, b) \in U256 /\ Val(kangaroo_mod_mul(a, b)) = FieldMul(Val(a), Val(b))
<1>1. a \in U256 /\ b \in U256 /\ Val(a) \in 0 .. Prime - 1
  BY ValFits, TopIs DEF Element
<1>2. PICK p : p = Product(a, b) /\ p.low \in U256 /\ p.high \in U256
               /\ Worth(p) = Val(a) * Val(b)
  BY <1>1, ProductIs, Zenon
<1>3. PICK f : /\ f = kangaroo_FoldHigh(p) /\ f.w \in U256 /\ f.extra \in 0 .. C
               /\ Leaves(Worth(p), Val(f.w) + Top * f.extra)
  BY <1>2, KangarooFoldHigh, Zenon
<1>4. PICK f0 \in 0 .. Top - 1, f1 \in 0 .. C : f0 = Val(f.w) /\ f1 = f.extra
  BY <1>3, ValFits
<1>5. PICK g : /\ g = kangaroo_Loop(f) /\ g.w \in U256 /\ g.extra \in Int
               /\ Val(g.w) + Top * g.extra = f0 + C * f1
  <2>1. f.extra \in Nat
    BY <1>3, Sizes
  <2>. QED  BY <1>3, <1>4, <2>1, KangarooLoop
<1>6. PICK g0 \in 0 .. Top - 1, g1 \in Int : g0 = Val(g.w) /\ g1 = g.extra
  BY <1>5, ValFits
<1>7. /\ g1 \in {0, 1} /\ (g1 = 1 => g0 + C < Top)
      /\ Leaves(f0 + Top * f1, g0 + Top * g1)
  <2>1. g0 + Top * g1 = f0 + C * f1
    BY <1>5, <1>6, Zenon
  <2>. QED  BY <2>1, SecondFold
<1>8. PICK h : /\ h = kangaroo_Loop(g) /\ h.w \in U256 /\ h.extra \in Int
               /\ Val(h.w) + Top * h.extra = g0 + C * g1
  <2>1. g.extra \in Nat
    BY <1>6, <1>7
  <2>. QED  BY <1>5, <1>6, <2>1, KangarooLoop
<1>9. PICK h0 \in 0 .. Top - 1, h1 \in Int : h0 = Val(h.w) /\ h1 = h.extra
  BY <1>8, ValFits
<1>10. h1 = 0 /\ Leaves(g0 + Top * g1, h0)
  <2>1. h0 + Top * h1 = g0 + C * g1
    BY <1>8, <1>9, Zenon
  <2>. QED  BY <1>7, <2>1, ThirdFold
<1>11. kangaroo_Loop(h) = h
  BY <1>9, <1>10 DEF kangaroo_Loop
<1>12. Leaves(Worth(p), h0)
  <2>1. Worth(p) \in Int /\ f0 + Top * f1 \in Int /\ g0 + Top * g1 \in Int /\ h0 \in Int
    <3>1. Val(a) \in Int /\ Val(b) \in Int
      BY <1>1, ValFits, TopIs
    <3>2. Worth(p) \in Int
      BY <1>2, <3>1
    <3>. QED  BY <1>7, <3>2, TopIs, Sizes
  <2>2. Leaves(Worth(p), f0 + Top * f1)
    BY <1>3, <1>4, Zenon
  <2>. QED  BY <1>7, <1>10, <2>1, <2>2, LeavesThrice, Zenon
<1>13. kangaroo_mod_mul(a, b) = kangaroo_mod_p(h.w)
  BY <1>2, <1>3, <1>5, <1>8, <1>11, Zenon
     DEF kangaroo_mod_mul, kangaroo_mul256_512, kangaroo_reduce_512
<1>14. kangaroo_mod_p(h.w) = Below(h.w)
  BY <1>8, KangarooBelow
<1>15. Leaves(Val(a) * Val(b), Val(h.w))
  BY <1>2, <1>9, <1>12, Zenon
<1>. QED  BY <1>1, <1>8, <1>13, <1>14, <1>15, Reduced

(* What the two folds of the puzzle copy leave is four words and at most one *)
(* carry out of them.                                                         *)
LEMMA PuzzleFolds ==
  ASSUME NEW a \in Element, NEW b \in Element
  PROVE  \E t \in U256, c \in {0, 1} :
           /\ c = puzzle_FoldCarry(puzzle_FoldOnce(Product(a, b))).carry
           /\ puzzle_mod_mul(a, b) = Below(t)
           /\ Leaves(Val(a) * Val(b), Val(t) + Top * c)
<1>1. a \in U256 /\ b \in U256
  BY DEF Element
<1>2. PICK p : p = Product(a, b) /\ p.low \in U256 /\ p.high \in U256
               /\ Val(p.low) + Top * Val(p.high) = Val(a) * Val(b)
  BY <1>1, ProductIs, Zenon DEF Worth
<1>3. PICK f : /\ f = puzzle_FoldOnce(p) /\ f.w \in U256 /\ f.carry \in Word
               /\ Val(f.w) + Top * f.carry = Val(p.low) + C * Val(p.high)
  BY <1>2, CWord, RowSum DEF puzzle_FoldOnce
<1>4. PICK p0 \in 0 .. Top - 1, p1 \in 0 .. Top - 1 : p0 = Val(p.low) /\ p1 = Val(p.high)
  BY <1>2, ValFits
<1>5. PICK f0 \in 0 .. Top - 1, f1 \in Int : f0 = Val(f.w) /\ f1 = f.carry
  BY <1>3, ValFits, Sizes DEF Word
<1>6. PICK m \in Int : m = f1 * C /\ m = C * f1
  BY Sizes
<1>7. PICK g : /\ g = puzzle_FoldCarry(f) /\ g.w \in U256 /\ g.carry \in Int
               /\ Val(g.w) + Top * g.carry = f0 + m
  <2>1. puzzle_FoldCarry(f) = Carried(FourWords(f.w[0] + (m % B), f.w[1] + m \div B, f.w[2], f.w[3]))
    BY <1>5, <1>6, Zenon DEF puzzle_FoldCarry
  <2>. QED  BY <1>3, <1>5, <2>1, LowSum
<1>8. PICK g0 \in 0 .. Top - 1, c \in Int : g0 = Val(g.w) /\ c = g.carry
  BY <1>7, ValFits
<1>9. f1 \in 0 .. C /\ Leaves(p0 + Top * p1, f0 + Top * f1)
  <2>1. f0 + Top * f1 = p0 + C * p1
    BY <1>3, <1>4, <1>5, Zenon
  <2>. QED  BY <2>1, FirstFold
<1>10. c \in {0, 1} /\ Leaves(f0 + Top * f1, g0 + Top * c)
  <2>1. g0 + Top * c = f0 + C * f1
    BY <1>6, <1>7, <1>8, Zenon
  <2>. QED  BY <1>9, <2>1, SecondFold
<1>11. Leaves(p0 + Top * p1, g0 + Top * c)
  <2>1. p0 + Top * p1 \in Int /\ f0 + Top * f1 \in Int /\ g0 + Top * c \in Int
    BY TopIs
  <2>. QED  BY <1>9, <1>10, <2>1, LeavesTwice, Zenon
<1>12. puzzle_mod_mul(a, b) = Below(g.w)
  <2>1. \A u, v : puzzle_SubWords(u, v) = Diff(u, v)
    BY Zenon DEF puzzle_SubWords, Diff
  <2>. QED  BY <1>2, <1>3, <1>7, <2>1, Zenon DEF puzzle_mod_mul, puzzle_Reduce, Below
<1>13. Leaves(Val(a) * Val(b), Val(g.w) + Top * c)
  BY <1>2, <1>4, <1>8, <1>11, Zenon
<1>. QED  BY <1>2, <1>3, <1>7, <1>8, <1>10, <1>12, <1>13, Zenon

(* When there is none, the product is right.                                *)
LEMMA PuzzleMul ==
  ASSUME NEW a \in Element, NEW b \in Element, puzzle_NothingDropped(a, b)
  PROVE  puzzle_mod_mul(a, b) \in U256 /\ Val(puzzle_mod_mul(a, b)) = FieldMul(Val(a), Val(b))
<1>1. a \in U256 /\ b \in U256 /\ Val(a) \in 0 .. Prime - 1
  BY ValFits, TopIs DEF Element
<1>2. PICK t \in U256, c \in {0, 1} :
           /\ c = puzzle_FoldCarry(puzzle_FoldOnce(Product(a, b))).carry
           /\ puzzle_mod_mul(a, b) = Below(t)
           /\ Leaves(Val(a) * Val(b), Val(t) + Top * c)
  BY PuzzleFolds, Zenon
<1>3. Val(t) + Top * c = Val(t)
  <2>1. c = 0
    BY <1>2, Zenon DEF puzzle_NothingDropped
  <2>. QED  BY <2>1, ValFits, TopIs
<1>4. Leaves(Val(a) * Val(b), Val(t))
  BY <1>2, <1>3, Zenon
<1>5. Below(t) \in U256 /\ Val(Below(t)) = FieldMul(Val(a), Val(b))
  BY <1>1, <1>4, Reduced
<1>. QED  BY <1>2, <1>5, Zenon

(* A carry that is dropped is not made up for: the product is then wrong.    *)
THEOREM PuzzleDrops ==
  ASSUME NEW a \in Element, NEW b \in Element, ~puzzle_NothingDropped(a, b)
  PROVE  Val(puzzle_mod_mul(a, b)) # FieldMul(Val(a), Val(b))
<1>. SUFFICES ASSUME Val(puzzle_mod_mul(a, b)) = FieldMul(Val(a), Val(b))
              PROVE  FALSE
  OBVIOUS
<1>1. a \in U256 /\ b \in U256 /\ Val(a) \in 0 .. Prime - 1 /\ Val(b) \in Int
  BY ValFits, TopIs DEF Element
<1>2. PICK t \in U256, c \in {0, 1} :
           /\ c = puzzle_FoldCarry(puzzle_FoldOnce(Product(a, b))).carry
           /\ puzzle_mod_mul(a, b) = Below(t)
           /\ Leaves(Val(a) * Val(b), Val(t) + Top * c)
  BY PuzzleFolds, Zenon
<1>3. c = 1
  BY <1>2 DEF puzzle_NothingDropped
<1>4. Top \in Nat /\ Prime \in Nat /\ Prime = Top - C /\ C \in Nat /\ C > 0 /\ C < Prime
  BY TopIs, Sizes
<1>5. PICK n \in Int, v \in Int : n = Val(a) * Val(b) /\ v = Val(t)
  BY <1>1, <1>4, ValFits
<1>6. PICK r \in Int : r = n % Prime /\ r = Val(Below(t))
  <2>1. FieldMul(Val(a), Val(b)) = n % Prime
    BY <1>1, <1>5, ProductMod, Zenon
  <2>2. Val(Below(t)) \in Int
    BY <1>4, BelowIs
  <2>. QED  BY <1>2, <2>1, <2>2, Zenon
<1>7. Leaves(v, r)
  <2>1. 0 \in Int /\ -1 \in Int
    OBVIOUS
  <2>2. Leaves(v, v) /\ Leaves(v, v + Prime * (-1))
    BY <2>1, LeavesSelf
  <2>3. r = IF v >= Prime THEN v - Prime ELSE v
    BY <1>5, <1>6, BelowIs
  <2>. HIDE DEF Prime
  <2>4. v + Prime * (-1) = v - Prime
    BY <1>4
  <2>. QED  BY <2>2, <2>3, <2>4
<1>8. Leaves(r, n)
  <2>1. 0 \in Int
    OBVIOUS
  <2>. QED  BY <1>6, <2>1, LeavesSelf, Zenon
<1>9. Leaves(n, v + Top)
  <2>1. v + Top * c = v + Top
    BY <1>3, <1>4
  <2>. QED  BY <1>2, <1>5, <2>1, Zenon
<1>10. Leaves(v, v + Top)
  <2>1. v + Top \in Int
    BY <1>4
  <2>. QED  BY <1>7, <1>8, <1>9, <2>1, LeavesThrice, Zenon
<1>. HIDE DEF Prime
<1>11. PICK q \in Int : v = v + Top + Prime * q
  BY <1>10 DEF Leaves
<1>12. PICK s \in Int : s = Prime * q
  BY <1>4
<1>13. q >= -1 => Prime * q >= Prime * (-1)
  BY <1>4
<1>14. q <= -2 => Prime * q <= Prime * (-2)
  BY <1>4
<1>15. Prime * (-1) = -Prime /\ Prime * (-2) = -(Prime + Prime)
  BY <1>4
<1>. QED  BY <1>4, <1>11, <1>12, <1>13, <1>14, <1>15

-----------------------------------------------------------------------------
(* The Metal copy puts a product of words together from half words.          *)

(* A product of half words is two of them.                                   *)
LEMMA HalfQuotient ==
  ASSUME NEW u \in 0 .. Half - 1, NEW v \in 0 .. Half - 1
  PROVE  \E l \in 0 .. Half - 1, h \in 0 .. Half - 1 :
           l = (u * v) % Half /\ h = (u * v) \div Half /\ u * v = l + Half * h
<1>1. Half \in Nat /\ Half > 0
  BY Sizes
<1>2. u * v \in Int /\ u * v >= 0 /\ u * v < Half * Half
  <2>1. u * v <= u * (Half - 1) /\ u * v >= 0
    BY <1>1
  <2>2. u * (Half - 1) <= (Half - 1) * (Half - 1)
    BY <1>1
  <2>3. (Half - 1) * (Half - 1) = Half * Half - Half - Half + 1
    BY <1>1
  <2>4. u * v \in Int /\ u * (Half - 1) \in Int /\ Half * Half \in Int
    BY <1>1
  <2>. QED  BY <1>1, <2>1, <2>2, <2>3, <2>4
<1>3. PICK n \in Int : n = u * v /\ n >= 0 /\ n < Half * Half
  BY <1>2
<1>4. PICK h \in Int, l \in 0 .. Half - 1 : h = n \div Half /\ l = n % Half /\ n = l + Half * h
  BY <1>1, Divides
<1>5. h <= -1 => Half * h <= Half * (-1)
  BY <1>1
<1>6. h >= Half => Half * h >= Half * Half
  BY <1>1
<1>7. h \in 0 .. Half - 1
  <2>1. Half * h \in Int /\ Half * (-1) = -Half /\ Half * Half \in Int
    BY <1>1
  <2>. QED  BY <1>1, <1>3, <1>4, <1>5, <1>6, <2>1
<1>. QED  BY <1>3, <1>4, <1>7

(* Cross products.                                                           *)
LEMMA Cross ==
  ASSUME NEW a \in Int, NEW b \in Int, NEW c \in Int, NEW d \in Int, NEW h \in Int
  PROVE  /\ (a + h * b) * (c + h * d) = a * c + h * (a * d + b * c) + (h * h) * (b * d)
         /\ (a + h * b) * h = h * a + (h * h) * b
OBVIOUS

(* The product put together from half words is the product.                 *)
LEMMA MetalMul128 ==
  ASSUME NEW u \in Word, NEW v \in Word
  PROVE  LET m == metal_mul128(u, v)
         IN  m.lo \in Word /\ m.hi \in Word /\ m.lo + B * m.hi = u * v
<1>1. /\ Half \in Nat /\ Half >= 3 /\ B = Half * Half /\ B \in Nat /\ B >= 3 * Half
      /\ u \in 0 .. B - 1 /\ v \in 0 .. B - 1
  <2>1. Half \in Nat /\ Half >= 3 /\ B = Half * Half
    BY Sizes DEF B
  <2>2. Half * Half >= Half * 3 /\ Half * Half \in Nat
    BY <2>1
  <2>. QED  BY <2>1, <2>2 DEF Word
<1>2. ASSUME NEW w \in 0 .. B - 1
      PROVE  \E l \in 0 .. Half - 1, h \in 0 .. Half - 1 :
               l = w % Half /\ h = w \div Half /\ w = l + Half * h
  <2>1. PICK h \in Int, l \in 0 .. Half - 1 : h = w \div Half /\ l = w % Half /\ w = l + Half * h
    BY <1>1, Divides
  <2>2. h <= -1 => Half * h <= Half * (-1)
    BY <1>1
  <2>3. h >= Half => Half * h >= Half * Half
    BY <1>1
  <2>4. Half * h \in Int /\ Half * (-1) = -Half /\ Half * Half \in Int
    BY <1>1
  <2>5. h \in 0 .. Half - 1
    BY <1>1, <2>1, <2>2, <2>3, <2>4
  <2>. QED  BY <2>1, <2>5
<1>3. PICK xl \in 0 .. Half - 1, xh \in 0 .. Half - 1 :
        xl = u % Half /\ xh = u \div Half /\ u = xl + Half * xh
  BY <1>1, <1>2
<1>4. PICK yl \in 0 .. Half - 1, yh \in 0 .. Half - 1 :
        yl = v % Half /\ yh = v \div Half /\ v = yl + Half * yh
  BY <1>1, <1>2
<1>5. PICK l0 \in 0 .. Half - 1, h0 \in 0 .. Half - 1 :
        l0 = (xl * yl) % Half /\ h0 = (xl * yl) \div Half /\ xl * yl = l0 + Half * h0
  BY HalfQuotient
<1>6. PICK l1 \in 0 .. Half - 1, h1 \in 0 .. Half - 1 :
        l1 = (xl * yh) % Half /\ h1 = (xl * yh) \div Half /\ xl * yh = l1 + Half * h1
  BY HalfQuotient
<1>7. PICK l2 \in 0 .. Half - 1, h2 \in 0 .. Half - 1 :
        l2 = (xh * yl) % Half /\ h2 = (xh * yl) \div Half /\ xh * yl = l2 + Half * h2
  BY HalfQuotient
<1>8. PICK mid \in 0 .. B - 1 : mid = h0 + l1 + l2 /\ mid = (h0 + l1 + l2) % B
  <2>1. h0 + l1 + l2 \in 0 .. B - 1
    BY <1>1
  <2>. QED  BY <1>1, <2>1
<1>9. PICK ml \in 0 .. Half - 1, mh \in 0 .. Half - 1 :
        ml = mid % Half /\ mh = mid \div Half /\ mid = ml + Half * mh
  BY <1>2
<1>10. PICK s \in Int : s = xh * yh
  BY <1>1
<1>11. PICK hi \in Int : hi = s + h1 + h2 + mh
  BY <1>1
<1>12. PICK lo \in 0 .. B - 1 : lo = l0 + Half * ml
  BY <1>1, OneMore
<1>13. (mid * Half) % B = Half * ml
  <2>1. 0 + Half * ml \in 0 .. Half * Half - 1 /\ 0 + Half * ml = Half * ml
    <3>1. 0 \in 0 .. Half - 1
      BY <1>1
    <3>2. 0 + Half * ml \in 0 .. Half * Half - 1
      BY <1>1, <3>1, OneMore
    <3>. QED  BY <1>1, <3>2
  <2>2. PICK r \in 0 .. B - 1 : r = Half * ml
    BY <1>1, <2>1
  <2>3. mid * Half = r + B * mh
    <3>1. ml \in Int /\ mh \in Int /\ Half \in Int
      BY <1>1
    <3>2. (ml + Half * mh) * Half = Half * ml + (Half * Half) * mh
      BY <3>1, Cross
    <3>. QED  BY <1>1, <1>9, <2>2, <3>2, Zenon
  <2>4. mh \in Int /\ B > 0
    BY <1>1
  <2>5. (r + B * mh) % B = r
    BY <1>1, <2>4, DivUnique
  <2>. QED  BY <2>2, <2>3, <2>5
<1>14. lo + B * hi = u * v
  <2>1. /\ xl \in Int /\ xh \in Int /\ yl \in Int /\ yh \in Int /\ ml \in Int /\ mh \in Int
        /\ l0 \in Int /\ h0 \in Int /\ l1 \in Int /\ h1 \in Int /\ l2 \in Int /\ h2 \in Int
    BY <1>1
  <2>2. u * v = xl * yl + Half * (xl * yh + xh * yl) + (Half * Half) * (xh * yh)
    <3>1. Half \in Int
      BY <1>1
    <3>2. (xl + Half * xh) * (yl + Half * yh)
            = xl * yl + Half * (xl * yh + xh * yl) + (Half * Half) * (xh * yh)
      BY <2>1, <3>1, Cross
    <3>. QED  BY <1>3, <1>4, <3>2, Zenon
  <2>3. u * v = (l0 + Half * h0) + Half * ((l1 + Half * h1) + (l2 + Half * h2)) + (Half * Half) * s
    BY <1>5, <1>6, <1>7, <1>10, <2>2, Zenon
  <2>4. lo + B * hi = (l0 + Half * ml) + (Half * Half) * (s + h1 + h2 + mh)
    BY <1>1, <1>11, <1>12, Zenon
  <2>5. h0 + l1 + l2 = ml + Half * mh
    BY <1>8, <1>9, Zenon
  <2>6. Half * (h0 + l1 + l2) = Half * (ml + Half * mh)
    BY <2>5, Zenon
  <2>7. /\ (l0 + Half * h0) + Half * ((l1 + Half * h1) + (l2 + Half * h2)) + (Half * Half) * s
             = l0 + Half * (h0 + l1 + l2) + (Half * Half) * (s + h1 + h2)
        /\ (l0 + Half * ml) + (Half * Half) * (s + h1 + h2 + mh)
             = l0 + Half * (ml + Half * mh) + (Half * Half) * (s + h1 + h2)
    BY <1>1, <2>1
  <2>. QED  BY <2>3, <2>4, <2>6, <2>7, Zenon
<1>15. hi \in 0 .. B - 1
  <2>1. u * v \in Int /\ u * v >= 0 /\ u * v + B + B - 2 < B * B
    BY WordProduct
  <2>2. hi <= -1 => B * hi <= B * (-1)
    BY <1>1
  <2>3. hi >= B => B * hi >= B * B
    BY <1>1
  <2>4. B * hi \in Int /\ B * (-1) = -B /\ B * B \in Int /\ B >= 3
    BY <1>1
  <2>5. hi < B /\ hi > -1
    BY <1>1, <1>12, <1>14, <2>1, <2>2, <2>3, <2>4
  <2>. QED  BY <1>1, <2>5
<1>16. metal_mul128(u, v) = [lo |-> lo, hi |-> hi]
  <2>1. hi % B = hi
    BY <1>1, <1>15
  <2>. QED  BY <1>3, <1>4, <1>5, <1>6, <1>7, <1>8, <1>9, <1>10, <1>11, <1>12, <1>13, <2>1, Zenon
            DEF metal_mul128
<1>. QED  BY <1>12, <1>14, <1>15, <1>16 DEF Word

(* A column adds what MulAdd adds, with its carries counted differently.     *)
LEMMA MetalColumn ==
  ASSUME NEW acc \in Word, NEW u \in Word, NEW v \in Word, NEW carry \in Word
  PROVE  LET m == metal_Column(acc, u, v, carry)
         IN  /\ m.word = MulAdd(acc, u, v, carry).word
             /\ m.carry = MulAdd(acc, u, v, carry).carry
<1>1. B \in Nat /\ B > 0 /\ acc \in 0 .. B - 1 /\ carry \in 0 .. B - 1
  BY Sizes DEF Word
<1>2. PICK n \in Int : n = u * v /\ n >= 0 /\ n + B + B - 2 < B * B
  BY WordProduct
<1>3. PICK lo \in Word, hi \in Word :
        lo = metal_mul128(u, v).lo /\ hi = metal_mul128(u, v).hi /\ lo + B * hi = n
  BY <1>2, MetalMul128
<1>4. lo \in Int /\ hi \in Int /\ lo \in 0 .. B - 1 /\ hi \in 0 .. B - 1
  BY <1>1, <1>3 DEF Word
<1>5. PICK s0 \in Int : s0 = acc + lo
  BY <1>1, <1>4
<1>6. PICK q0 \in Int, r0 \in 0 .. B - 1 : q0 = s0 \div B /\ r0 = s0 % B /\ s0 = r0 + B * q0
  BY <1>1, Divides
<1>7. PICK s1 \in Int : s1 = r0 + carry
  BY <1>1
<1>8. PICK q1 \in Int, r1 \in 0 .. B - 1 : q1 = s1 \div B /\ r1 = s1 % B /\ s1 = r1 + B * q1
  BY <1>1, Divides
<1>9. PICK h \in Int : h = hi + q0 + q1
  BY <1>4
<1>10. r1 + B * h = acc + n + carry
  <2>1. r0 \in Int /\ r1 \in Int /\ acc \in Int /\ carry \in Int /\ B \in Int
    BY <1>1
  <2>2. B * h = B * hi + B * q0 + B * q1
    BY <1>4, <1>9, <2>1
  <2>3. B * hi \in Int /\ B * q0 \in Int /\ B * q1 \in Int /\ B * h \in Int
    BY <1>4, <2>1
  <2>4. n = lo + B * hi /\ r0 + B * q0 = acc + lo /\ r1 + B * q1 = r0 + carry
    BY <1>3, <1>5, <1>6, <1>7, <1>8
  <2>. QED  BY <1>4, <2>1, <2>2, <2>3, <2>4
<1>11. PICK w \in Word, c \in Word : /\ w = MulAdd(acc, u, v, carry).word
                                      /\ c = MulAdd(acc, u, v, carry).carry
                                      /\ w + B * c = acc + n + carry
  BY <1>2, MulAddIs
<1>12. r1 = w /\ h = c
  <2>1. r1 \in Word /\ c \in Int
    BY <1>1 DEF Word
  <2>2. r1 + B * h = w + B * c
    BY <1>10, <1>11, Zenon
  <2>. QED  BY <2>1, <2>2, WordCarry
<1>13. h % B = h
  <2>1. h \in 0 .. B - 1
    BY <1>12 DEF Word
  <2>. QED  BY <1>1, <2>1
<1>14. metal_Column(acc, u, v, carry) = [word |-> r1, carry |-> h]
  BY <1>3, <1>5, <1>6, <1>7, <1>8, <1>9, <1>13, Zenon DEF metal_Column, metal_Sums
<1>. QED  BY <1>11, <1>12, <1>14

(* m is the column of both copies.                                           *)
ColumnOf(m, acc, u, v, carry) ==
  /\ m = MulAdd(acc, u, v, carry) /\ m.carry \in Word
  /\ metal_Column(acc, u, v, carry).word = m.word
  /\ metal_Column(acc, u, v, carry).carry = m.carry

LEMMA ColumnStep ==
  ASSUME NEW acc \in Word, NEW u \in Word, NEW v \in Word, NEW carry \in Word
  PROVE  \E m : ColumnOf(m, acc, u, v, carry)
<1>1. MulAdd(acc, u, v, carry).carry \in Word
  BY MulAddIs
<1>. QED  BY <1>1, MetalColumn DEF ColumnOf

(* Its rows are the rows of the other copies,                                *)
LEMMA MetalRow ==
  ASSUME NEW acc \in U256, NEW u \in Word, NEW b \in U256
  PROVE  metal_Row(acc, u, b) = MulRow(acc, u, b)
<1>1. /\ acc[0] \in Word /\ acc[1] \in Word /\ acc[2] \in Word /\ acc[3] \in Word
      /\ b[0] \in Word /\ b[1] \in Word /\ b[2] \in Word /\ b[3] \in Word /\ 0 \in Word
  BY CWord DEF U256, Idx
<1>2. PICK m0 : ColumnOf(m0, acc[0], u, b[0], 0)
  BY <1>1, ColumnStep, Zenon
<1>3. PICK m1 : ColumnOf(m1, acc[1], u, b[1], m0.carry)
  <2>1. m0.carry \in Word
    BY <1>2, Zenon DEF ColumnOf
  <2>. QED  BY <1>1, <2>1, ColumnStep, Zenon
<1>4. PICK m2 : ColumnOf(m2, acc[2], u, b[2], m1.carry)
  <2>1. m1.carry \in Word
    BY <1>3, Zenon DEF ColumnOf
  <2>. QED  BY <1>1, <2>1, ColumnStep, Zenon
<1>5. PICK m3 : ColumnOf(m3, acc[3], u, b[3], m2.carry)
  <2>1. m2.carry \in Word
    BY <1>4, Zenon DEF ColumnOf
  <2>. QED  BY <1>1, <2>1, ColumnStep, Zenon
<1>6. metal_Row(acc, u, b)
        = [w |-> FourWords(m0.word, m1.word, m2.word, m3.word), carry |-> m3.carry]
  BY <1>2, <1>3, <1>4, <1>5, Zenon DEF metal_Row, ColumnOf
<1>. QED  BY <1>2, <1>3, <1>4, <1>5, <1>6, Zenon DEF MulRow, ColumnOf

LEMMA RowAbove ==
  ASSUME NEW acc \in U256, NEW u \in Word, NEW b \in U256
  PROVE  \E r : r = MulRow(acc, u, b) /\ r = metal_Row(acc, u, b) /\ Above(r) \in U256
<1>1. MulRow(acc, u, b).w \in U256 /\ MulRow(acc, u, b).carry \in Word
  BY MulRowIs
<1>2. Above(MulRow(acc, u, b)) \in U256
  BY <1>1, AboveIs
<1>. QED  BY <1>2, MetalRow

(* and so is its product.                                                    *)
LEMMA MetalProduct ==
  ASSUME NEW a \in U256, NEW b \in U256
  PROVE  metal_Product(a, b) = Product(a, b)
<1>1. a[0] \in Word /\ a[1] \in Word /\ a[2] \in Word /\ a[3] \in Word /\ Zero \in U256
  BY Constants DEF U256, Idx
<1>2. PICK r0 : r0 = MulRow(Zero, a[0], b) /\ r0 = metal_Row(Zero, a[0], b) /\ Above(r0) \in U256
  BY <1>1, RowAbove, Zenon
<1>3. PICK r1 : r1 = MulRow(Above(r0), a[1], b) /\ r1 = metal_Row(Above(r0), a[1], b)
                /\ Above(r1) \in U256
  BY <1>1, <1>2, RowAbove, Zenon
<1>4. PICK r2 : r2 = MulRow(Above(r1), a[2], b) /\ r2 = metal_Row(Above(r1), a[2], b)
                /\ Above(r2) \in U256
  BY <1>1, <1>3, RowAbove, Zenon
<1>5. PICK r3 : r3 = MulRow(Above(r2), a[3], b) /\ r3 = metal_Row(Above(r2), a[3], b)
  BY <1>1, <1>4, MetalRow
<1>. QED  BY <1>2, <1>3, <1>4, <1>5, Zenon DEF metal_Product, Product

(* It folds twice and makes up for the last carry.                           *)
LEMMA MetalMul ==
  ASSUME NEW a \in Element, NEW b \in Element
  PROVE  metal_mod_mul(a, b) \in U256 /\ Val(metal_mod_mul(a, b)) = FieldMul(Val(a), Val(b))
<1>1. a \in U256 /\ b \in U256 /\ Val(a) \in 0 .. Prime - 1
  BY ValFits, TopIs DEF Element
<1>2. PICK p : /\ p = metal_Product(a, b) /\ p.low \in U256 /\ p.high \in U256
               /\ Val(p.low) + Top * Val(p.high) = Val(a) * Val(b)
  BY <1>1, ProductIs, MetalProduct, Zenon DEF Worth
<1>3. PICK h : /\ h = metal_Row(Zero, C, p.high) /\ h.w \in U256 /\ h.carry \in Word
               /\ Val(h.w) + Top * h.carry = 0 + C * Val(p.high)
  <2>1. PICK h : /\ h = MulRow(Zero, C, p.high) /\ h.w \in U256 /\ h.carry \in Word
                 /\ Val(h.w) + Top * h.carry = Val(Zero) + C * Val(p.high)
    BY <1>2, CWord, Constants, RowSum
  <2>2. Val(Zero) = 0 /\ metal_Row(Zero, C, p.high) = MulRow(Zero, C, p.high)
    BY <1>2, CWord, Constants, MetalRow
  <2>. QED  BY <2>1, <2>2, Zenon
<1>4. \A u, v : metal_addc(u, v) = Sum(u, v) /\ metal_subb(u, v) = Diff(u, v)
  BY Zenon DEF metal_addc, metal_subb, Sum, Diff
<1>5. PICK t : /\ t = metal_addc(p.low, h.w) /\ t.w \in U256
               /\ \/ t.carry = 0 /\ Val(t.w) = Val(p.low) + Val(h.w)
                  \/ t.carry = 1 /\ Val(t.w) = Val(p.low) + Val(h.w) - Top
  BY <1>2, <1>3, <1>4, SumIs
<1>6. PICK p0 \in 0 .. Top - 1, p1 \in 0 .. Top - 1, h0 \in 0 .. Top - 1, t0 \in 0 .. Top - 1 :
        p0 = Val(p.low) /\ p1 = Val(p.high) /\ h0 = Val(h.w) /\ t0 = Val(t.w)
  BY <1>2, <1>3, <1>5, ValFits
<1>7. PICK c \in Int, d \in Int : c = h.carry /\ d = t.carry /\ d \in {0, 1}
  BY <1>3, <1>5, Sizes DEF Word
<1>8. PICK e \in Int : e = d + c /\ e \in 0 .. C
                       /\ Leaves(p0 + Top * p1, t0 + Top * e)
  <2>1. Top \in Int /\ C \in Int
    BY TopIs, Sizes
  <2>2. h0 + Top * c = C * p1
    <3>1. h0 + Top * c = 0 + C * p1
      BY <1>3, <1>6, <1>7, Zenon
    <3>. QED  BY <2>1, <3>1
  <2>3. t0 + Top * d = p0 + h0
    BY <1>5, <1>6, <1>7, <2>1
  <2>4. t0 + Top * (d + c) = p0 + C * p1
    <3>1. Top * (d + c) = Top * d + Top * c /\ Top * c \in Int /\ Top * d \in Int /\ C * p1 \in Int
      BY <2>1
    <3>. QED  BY <2>1, <2>2, <2>3, <3>1
  <2>5. d + c \in Int
    OBVIOUS
  <2>6. d + c \in 0 .. C /\ Leaves(p0 + Top * p1, t0 + Top * (d + c))
    BY <2>4, <2>5, FirstFold
  <2>. QED  BY <2>5, <2>6
<1>9. e \in Word /\ (t.carry + h.carry) % B = e
  <2>1. B \in Nat /\ C \in Nat /\ B > 2 * C
    BY Sizes
  <2>. QED  BY <1>7, <1>8, <2>1 DEF Word
<1>10. PICK lo \in Word, hi \in Word :
         lo = metal_mul128(e, C).lo /\ hi = metal_mul128(e, C).hi /\ lo + B * hi = e * C
  <2>1. /\ metal_mul128(e, C).lo \in Word /\ metal_mul128(e, C).hi \in Word
        /\ metal_mul128(e, C).lo + B * metal_mul128(e, C).hi = e * C
    BY <1>9, CWord, MetalMul128, Zenon
  <2>. QED  BY <2>1, Zenon
<1>. DEFINE x2 == FourWords(lo, hi, 0, 0)
<1>11. x2 \in U256 /\ Val(x2) = C * e
  <2>1. x2 \in U256 /\ Val(x2) = lo + B * (hi + B * (0 + B * 0))
    BY CWord, FourWordsAre, ValWords
  <2>2. lo + B * (hi + B * (0 + B * 0)) = lo + B * hi /\ e * C = C * e
    BY Sizes DEF Word
  <2>. QED  BY <1>10, <2>1, <2>2, Zenon
<1>. HIDE DEF x2
<1>12. PICK g : /\ g = metal_addc(t.w, x2) /\ g.w \in U256
                /\ \/ g.carry = 0 /\ Val(g.w) = Val(t.w) + Val(x2)
                   \/ g.carry = 1 /\ Val(g.w) = Val(t.w) + Val(x2) - Top
  BY <1>4, <1>5, <1>11, SumIs
<1>13. PICK g0 \in 0 .. Top - 1, g1 \in Int :
         g0 = Val(g.w) /\ g1 = g.carry /\ g0 + Top * g1 = t0 + C * e
  <2>1. Val(g.w) \in 0 .. Top - 1 /\ g.carry \in Int /\ Top \in Int /\ C * e \in Int
    BY <1>12, ValFits, TopIs, Sizes
  <2>2. Val(g.w) + Top * g.carry = t0 + C * e
    BY <1>6, <1>11, <1>12, <2>1
  <2>. QED  BY <2>1, <2>2
<1>14. g1 \in {0, 1} /\ (g1 = 1 => g0 + C < Top) /\ Leaves(t0 + Top * e, g0 + Top * g1)
  BY <1>8, <1>13, SecondFold
<1>15. PICK f : f = metal_AddCarry(g) /\ f \in U256 /\ Leaves(g0 + Top * g1, Val(f))
  <2>1. Top \in Int /\ C \in Int
    BY TopIs, Sizes
  <2>2. CASE g1 = 0
    <3>1. metal_AddCarry(g) = g.w
      BY <1>13, <2>2 DEF metal_AddCarry
    <3>2. g0 + Top * g1 = g0 /\ 0 \in Int /\ g0 \in Int
      BY <2>1, <2>2
    <3>3. Leaves(g0, g0)
      BY <3>2, LeavesSelf
    <3>. QED  BY <1>12, <1>13, <3>1, <3>2, <3>3
  <2>3. CASE g1 = 1
    <3>1. metal_AddCarry(g) = Sum(g.w, FourWords(C, 0, 0, 0)).w
      BY <1>4, <1>13, <2>3 DEF metal_AddCarry
    <3>2. PICK s : /\ s = Sum(g.w, FourWords(C, 0, 0, 0)) /\ s.w \in U256 /\ Val(s.w) \in 0 .. Top - 1
                   /\ Val(s.w) = g0 + C \/ Val(s.w) = g0 + C - Top
      BY <1>12, <1>13, Constants, SumIs
    <3>3. Val(s.w) = g0 + C * g1
      BY <1>14, <2>1, <2>3, <3>2
    <3>4. Leaves(g0 + Top * g1, g0 + C * g1)
      <4>1. g0 \in Int
        BY <2>1
      <4>. QED  BY <4>1, LeavesFold
    <3>. QED  BY <3>1, <3>2, <3>3, <3>4
  <2>. QED  BY <1>14, <2>2, <2>3
<1>16. Leaves(p0 + Top * p1, Val(f))
  <2>1. p0 + Top * p1 \in Int /\ t0 + Top * e \in Int /\ g0 + Top * g1 \in Int /\ Val(f) \in Int
    BY <1>15, ValFits, TopIs
  <2>. QED  BY <1>8, <1>14, <1>15, <2>1, LeavesThrice, Zenon
<1>17. metal_mod_mul(a, b) = Below(f)
  <2>1. PICK fold : fold = metal_FoldHigh(p) /\ fold.w = t.w /\ fold.carry = e
    <3>1. metal_FoldHigh(p) = [w |-> t.w, carry |-> e]
      BY <1>3, <1>5, <1>9, Zenon DEF metal_FoldHigh
    <3>2. metal_FoldHigh(p).w = t.w /\ metal_FoldHigh(p).carry = e
      BY <3>1
    <3>. QED  BY <3>2, Zenon
  <2>2. metal_FoldTop(fold) = g
    BY <1>10, <1>12, <2>1, Zenon DEF metal_FoldTop, x2
  <2>. QED  BY <1>2, <1>4, <1>15, <2>1, <2>2, Zenon DEF metal_mod_mul, metal_BelowP, Below
<1>18. Leaves(Val(a) * Val(b), Val(f))
  BY <1>2, <1>6, <1>16, Zenon
<1>. QED  BY <1>1, <1>15, <1>17, <1>18, Reduced

-----------------------------------------------------------------------------
(* The batch kernels: rows of eight limbs, and a fold in ten.                *)

LimbVal(l) == Val(FromLimbs(l))

(* The number of eight limbs, written out.                                   *)
LEMMA LimbValWords ==
  ASSUME NEW l, \A i \in Limbs : l[i] \in Int
  PROVE  /\ LimbVal(l) = (l[0] + Half * l[1])
                           + B * ((l[2] + Half * l[3])
                           + B * ((l[4] + Half * l[5]) + B * (l[6] + Half * l[7])))
         /\ LimbVal(l) \in Int
<1>1. PICK l0 \in Int, l1 \in Int, l2 \in Int, l3 \in Int, l4 \in Int, l5 \in Int, l6 \in Int,
           l7 \in Int :
        /\ l0 = l[0] /\ l1 = l[1] /\ l2 = l[2] /\ l3 = l[3]
        /\ l4 = l[4] /\ l5 = l[5] /\ l6 = l[6] /\ l7 = l[7]
  <2>1. /\ l[0] \in Int /\ l[1] \in Int /\ l[2] \in Int /\ l[3] \in Int
        /\ l[4] \in Int /\ l[5] \in Int /\ l[6] \in Int /\ l[7] \in Int
    BY DEF Limbs
  <2>. QED  BY <2>1, Zenon
<1>2. /\ FromLimbs(l)[0] = l0 + Half * l1 /\ FromLimbs(l)[1] = l2 + Half * l3
      /\ FromLimbs(l)[2] = l4 + Half * l5 /\ FromLimbs(l)[3] = l6 + Half * l7
  BY <1>1 DEF FromLimbs, Idx
<1>3. LimbVal(l) = (l0 + Half * l1) + B * ((l2 + Half * l3)
                     + B * ((l4 + Half * l5) + B * (l6 + Half * l7)))
  BY <1>2, Zenon DEF LimbVal, Val
<1>. QED  BY <1>1, <1>3, Sizes

(* t is p + c*q limb by limb; and what the carried limbs of it are worth.   *)
LinearOf(t, p, q, c) == \A i \in Limbs : p[i] \in Int /\ q[i] \in Int /\ t[i] = p[i] + c * q[i]
LimbsWorth(s, v) ==
  /\ \A i \in Limbs : s[i] \in Limb
  /\ s[8] \in Int
  /\ LimbVal(s) \in 0 .. Top - 1
  /\ LimbVal(s) + Top * s[8] = v

(* Carrying p + c*q loses nothing.                                           *)
LEMMA LimbLinear ==
  ASSUME NEW t \in [Limbs -> Int], NEW p, NEW q, NEW c \in Int, LinearOf(t, p, q, c)
  PROVE  LimbsWorth(CarriedLimbs(t), LimbVal(p) + c * LimbVal(q))
<1>1. \A i \in Limbs : p[i] \in Int /\ q[i] \in Int /\ t[i] = p[i] + c * q[i]
  BY DEF LinearOf
<1>2. PICK p0 \in Int, p1 \in Int, p2 \in Int, p3 \in Int, p4 \in Int, p5 \in Int, p6 \in Int,
           p7 \in Int :
        /\ p0 = p[0] /\ p1 = p[1] /\ p2 = p[2] /\ p3 = p[3]
        /\ p4 = p[4] /\ p5 = p[5] /\ p6 = p[6] /\ p7 = p[7]
  <2>1. /\ p[0] \in Int /\ p[1] \in Int /\ p[2] \in Int /\ p[3] \in Int
        /\ p[4] \in Int /\ p[5] \in Int /\ p[6] \in Int /\ p[7] \in Int
    BY <1>1 DEF Limbs
  <2>. QED  BY <2>1, Zenon
<1>3. PICK q0 \in Int, q1 \in Int, q2 \in Int, q3 \in Int, q4 \in Int, q5 \in Int, q6 \in Int,
           q7 \in Int :
        /\ q0 = q[0] /\ q1 = q[1] /\ q2 = q[2] /\ q3 = q[3]
        /\ q4 = q[4] /\ q5 = q[5] /\ q6 = q[6] /\ q7 = q[7]
  <2>1. /\ q[0] \in Int /\ q[1] \in Int /\ q[2] \in Int /\ q[3] \in Int
        /\ q[4] \in Int /\ q[5] \in Int /\ q[6] \in Int /\ q[7] \in Int
    BY <1>1 DEF Limbs
  <2>. QED  BY <2>1, Zenon
<1>4. /\ t[0] = p0 + c * q0 /\ t[1] = p1 + c * q1 /\ t[2] = p2 + c * q2 /\ t[3] = p3 + c * q3
      /\ t[4] = p4 + c * q4 /\ t[5] = p5 + c * q5 /\ t[6] = p6 + c * q6 /\ t[7] = p7 + c * q7
  <2>1. /\ t[0] = p[0] + c * q[0] /\ t[1] = p[1] + c * q[1] /\ t[2] = p[2] + c * q[2]
        /\ t[3] = p[3] + c * q[3] /\ t[4] = p[4] + c * q[4] /\ t[5] = p[5] + c * q[5]
        /\ t[6] = p[6] + c * q[6] /\ t[7] = p[7] + c * q[7]
    BY <1>1 DEF Limbs
  <2>. QED  BY <1>2, <1>3, <2>1, Zenon
<1>5. /\ LimbVal(p) = (p0 + Half * p1) + B * ((p2 + Half * p3)
                        + B * ((p4 + Half * p5) + B * (p6 + Half * p7)))
      /\ LimbVal(q) = (q0 + Half * q1) + B * ((q2 + Half * q3)
                        + B * ((q4 + Half * q5) + B * (q6 + Half * q7)))
  BY <1>1, <1>2, <1>3, LimbValWords
<1>6. LimbVal(t) = ((p0 + c * q0) + Half * (p1 + c * q1))
                     + B * (((p2 + c * q2) + Half * (p3 + c * q3))
                     + B * (((p4 + c * q4) + Half * (p5 + c * q5))
                     + B * ((p6 + c * q6) + Half * (p7 + c * q7))))
  <2>1. \A i \in Limbs : t[i] \in Int
    OBVIOUS
  <2>2. LimbVal(t) = (t[0] + Half * t[1])
                       + B * ((t[2] + Half * t[3])
                       + B * ((t[4] + Half * t[5]) + B * (t[6] + Half * t[7])))
    BY <2>1, LimbValWords, Zenon
  <2>. QED  BY <1>4, <2>2, Zenon
<1>7. LimbVal(t) = LimbVal(p) + c * LimbVal(q)
  <2>1. ASSUME NEW h \in Int, NEW b \in Int
        PROVE  ((p0 + c * q0) + h * (p1 + c * q1))
                 + b * (((p2 + c * q2) + h * (p3 + c * q3))
                 + b * (((p4 + c * q4) + h * (p5 + c * q5))
                 + b * ((p6 + c * q6) + h * (p7 + c * q7))))
               = ((p0 + h * p1) + b * ((p2 + h * p3) + b * ((p4 + h * p5) + b * (p6 + h * p7))))
                 + c * ((q0 + h * q1) + b * ((q2 + h * q3) + b * ((q4 + h * q5) + b * (q6 + h * q7))))
    OBVIOUS
  <2>2. Half \in Int /\ B \in Int
    BY Sizes
  <2>3. ((p0 + c * q0) + Half * (p1 + c * q1))
          + B * (((p2 + c * q2) + Half * (p3 + c * q3))
          + B * (((p4 + c * q4) + Half * (p5 + c * q5))
          + B * ((p6 + c * q6) + Half * (p7 + c * q7))))
        = ((p0 + Half * p1) + B * ((p2 + Half * p3) + B * ((p4 + Half * p5) + B * (p6 + Half * p7))))
          + c * ((q0 + Half * q1) + B * ((q2 + Half * q3)
                 + B * ((q4 + Half * q5) + B * (q6 + Half * q7))))
    BY <2>1, <2>2
  <2>. QED  BY <1>5, <1>6, <2>3, Zenon
<1>8. PICK s : /\ s = CarriedLimbs(t) /\ FromLimbs(t) \in Numbers
               /\ \A i \in Limbs : s[i] \in Limb
               /\ FromLimbs(s) = Carried(FromLimbs(t)).w
               /\ s[8] = Carried(FromLimbs(t)).carry /\ s[8] \in Int
  BY LimbsCarried, Zenon
<1>9. /\ Carried(FromLimbs(t)).w \in U256
      /\ Val(FromLimbs(t)) = Val(Carried(FromLimbs(t)).w) + Top * Carried(FromLimbs(t)).carry
  BY <1>8, CarriedIs, Zenon
<1>10. LimbVal(s) \in 0 .. Top - 1
  BY <1>8, <1>9, ValFits DEF LimbVal
<1>11. LimbVal(t) = LimbVal(s) + Top * s[8]
  BY <1>8, <1>9, Zenon DEF LimbVal
<1>. QED  BY <1>7, <1>8, <1>10, <1>11, Zenon DEF LimbsWorth

(* The lowest limb of nine, and the eight above it.                         *)
Upper(s) == [j \in Limbs |-> s[j+1]]

(* Nine limbs are the lowest and the eight above.                            *)
LEMMA UpperIs ==
  ASSUME NEW s, \A i \in 0 .. 8 : s[i] \in Int
  PROVE  LimbVal(s) + Top * s[8] = s[0] + Half * LimbVal(Upper(s))
<1>1. PICK s0 \in Int, s1 \in Int, s2 \in Int, s3 \in Int, s4 \in Int, s5 \in Int, s6 \in Int,
           s7 \in Int, s8 \in Int :
        /\ s0 = s[0] /\ s1 = s[1] /\ s2 = s[2] /\ s3 = s[3]
        /\ s4 = s[4] /\ s5 = s[5] /\ s6 = s[6] /\ s7 = s[7] /\ s8 = s[8]
  <2>1. /\ s[0] \in Int /\ s[1] \in Int /\ s[2] \in Int /\ s[3] \in Int
        /\ s[4] \in Int /\ s[5] \in Int /\ s[6] \in Int /\ s[7] \in Int /\ s[8] \in Int
    OBVIOUS
  <2>. QED  BY <2>1, Zenon
<1>2. LimbVal(s) = (s0 + Half * s1) + B * ((s2 + Half * s3)
                        + B * ((s4 + Half * s5) + B * (s6 + Half * s7)))
  <2>1. \A i \in Limbs : s[i] \in Int
    BY DEF Limbs
  <2>. QED  BY <1>1, <2>1, LimbValWords
<1>3. LimbVal(Upper(s)) = (s1 + Half * s2) + B * ((s3 + Half * s4)
                        + B * ((s5 + Half * s6) + B * (s7 + Half * s8)))
  <2>1. PICK u : u = Upper(s)
    OBVIOUS
  <2>2. /\ u[0] = s1 /\ u[1] = s2 /\ u[2] = s3 /\ u[3] = s4 /\ u[4] = s5 /\ u[5] = s6
        /\ u[6] = s7 /\ u[7] = s8
    BY <1>1, <2>1 DEF Upper, Limbs
  <2>3. \A i \in Limbs : u[i] \in Int
    BY <2>1 DEF Upper, Limbs
  <2>4. LimbVal(u) = (u[0] + Half * u[1])
                       + B * ((u[2] + Half * u[3])
                       + B * ((u[4] + Half * u[5]) + B * (u[6] + Half * u[7])))
    BY <2>3, LimbValWords, Zenon
  <2>. QED  BY <2>1, <2>2, <2>4, Zenon
<1>4. ASSUME NEW h \in Int
      PROVE  ((s0 + h * s1) + (h * h) * ((s2 + h * s3)
                        + (h * h) * ((s4 + h * s5) + (h * h) * (s6 + h * s7))))
               + ((h * h) * ((h * h) * ((h * h) * (h * h)))) * s8
             = s0 + h * ((s1 + h * s2) + (h * h) * ((s3 + h * s4)
                        + (h * h) * ((s5 + h * s6) + (h * h) * (s7 + h * s8))))
  OBVIOUS
<1>5. Half \in Int /\ Half * Half = B /\ B * (B * (B * B)) = Top
  BY Sizes, TopIs DEF B
<1>6. ((s0 + Half * s1) + (Half * Half) * ((s2 + Half * s3)
          + (Half * Half) * ((s4 + Half * s5) + (Half * Half) * (s6 + Half * s7))))
        + ((Half * Half) * ((Half * Half) * ((Half * Half) * (Half * Half)))) * s8
      = s0 + Half * ((s1 + Half * s2) + (Half * Half) * ((s3 + Half * s4)
          + (Half * Half) * ((s5 + Half * s6) + (Half * Half) * (s7 + Half * s8))))
  BY <1>4, <1>5
<1>7. ((s0 + Half * s1) + B * ((s2 + Half * s3) + B * ((s4 + Half * s5) + B * (s6 + Half * s7))))
        + Top * s8
      = s0 + Half * ((s1 + Half * s2) + B * ((s3 + Half * s4)
          + B * ((s5 + Half * s6) + B * (s7 + Half * s8))))
  <2>1. ((s0 + Half * s1) + B * ((s2 + Half * s3) + B * ((s4 + Half * s5) + B * (s6 + Half * s7))))
          + (B * (B * (B * B))) * s8
        = s0 + Half * ((s1 + Half * s2) + B * ((s3 + Half * s4)
            + B * ((s5 + Half * s6) + B * (s7 + Half * s8))))
    BY <1>5, <1>6, Zenon
  <2>. QED  BY <1>5, <2>1, Zenon
<1>. QED  BY <1>1, <1>2, <1>3, <1>7, Zenon

Limbs9(s) == \A i \in 0 .. 8 : s[i] \in Limb

LEMMA LimbInt == \A u \in Limb : u \in Int /\ u \in 0 .. Half - 1
BY Sizes DEF Limb

LEMMA UpperFits ==
  ASSUME NEW s, Limbs9(s)
  PROVE  /\ \A i \in Limbs : s[i] \in Limb /\ s[i] \in Int /\ Upper(s)[i] \in Limb /\ Upper(s)[i] \in Int
         /\ LimbVal(Upper(s)) \in 0 .. Top - 1 /\ LimbVal(Upper(s)) \in Int
         /\ Upper(s) \in Limbs8
<1>1. \A i \in Limbs : s[i] \in Limb /\ Upper(s)[i] \in Limb
  BY DEF Limbs9, Upper, Limbs
<1>2. \A i \in Limbs : s[i] \in Int /\ Upper(s)[i] \in Int
  BY <1>1, LimbInt
<1>3. LimbVal(Upper(s)) \in 0 .. Top - 1
  BY <1>1, WordsOfLimbs, ValFits DEF LimbVal
<1>4. Upper(s) \in Limbs8
  BY <1>1 DEF Upper, Limbs8
<1>. QED  BY <1>1, <1>2, <1>3, <1>4, TopIs

(* A row: one limb of the product, and what the next row starts from.       *)
LimbParts(r, n, l, h) ==
  Limbs9(r) /\ l = r[0] /\ h = LimbVal(Upper(r)) /\ n = l + Half * h

(* A row adds one limb of a product, and hands the limbs above it on.        *)
LEMMA LimbRowStep ==
  ASSUME NEW s, Limbs9(s), NEW u \in Limb, NEW b \in Limbs8
  PROVE  \E l \in Int, h \in Int :
           LimbParts(LimbRow(s, u, b), LimbVal(Upper(s)) + u * LimbVal(b), l, h)
<1>. DEFINE t == [j \in Limbs |-> s[j+1] + u * b[j]]
<1>1. \A i \in Limbs : Upper(s)[i] = s[i+1] /\ Upper(s)[i] \in Int
  BY UpperFits DEF Upper
<1>2. \A i \in Limbs : b[i] \in Limb /\ b[i] \in Int
  BY LimbInt DEF Limbs8
<1>3. u \in Int
  BY LimbInt
<1>4. \A i \in Limbs : /\ Upper(s)[i] \in Int /\ b[i] \in Int
                       /\ t[i] = Upper(s)[i] + u * b[i] /\ t[i] \in Int
  BY <1>1, <1>2, <1>3
<1>5. t \in [Limbs -> Int]
  BY <1>4
<1>6. LimbRow(s, u, b) = CarriedLimbs(t)
  BY DEF LimbRow
<1>. HIDE DEF t
<1>7. PICK r : /\ r = CarriedLimbs(t) /\ \A i \in Limbs : r[i] \in Limb
               /\ r[8] \in Int /\ LimbVal(r) \in 0 .. Top - 1
               /\ LimbVal(r) + Top * r[8] = LimbVal(Upper(s)) + u * LimbVal(b)
  <2>1. LinearOf(t, Upper(s), b, u)
    BY <1>4 DEF LinearOf
  <2>2. LimbsWorth(CarriedLimbs(t), LimbVal(Upper(s)) + u * LimbVal(b))
    BY <1>3, <1>5, <2>1, LimbLinear, Zenon
  <2>. QED  BY <2>2, Zenon DEF LimbsWorth
<1>8. r[8] \in Limb
  <2>1. PICK a \in 0 .. Top - 1, v \in 0 .. Top - 1, w \in 0 .. Top - 1, c \in Int :
          a = LimbVal(Upper(s)) /\ v = LimbVal(b) /\ w = LimbVal(r) /\ c = r[8]
    BY <1>2, <1>7, UpperFits, WordsOfLimbs, ValFits DEF LimbVal
  <2>2. w + Top * c = a + u * v
    BY <1>7, <2>1, Zenon
  <2>3. Top \in Nat /\ Half \in Nat /\ u \in 0 .. Half - 1 /\ Half > 0
    BY TopIs, Sizes, LimbInt
  <2>4. u * v <= u * (Top - 1) /\ u * v >= 0
    BY <2>3
  <2>5. u * (Top - 1) <= (Half - 1) * (Top - 1)
    BY <2>3
  <2>6. (Half - 1) * (Top - 1) = Top * Half - Top - Half + 1
    BY <2>3
  <2>7. c >= Half => Top * c >= Top * Half
    BY <2>3
  <2>8. c <= -1 => Top * c <= Top * (-1)
    BY <2>3
  <2>9. u * v \in Int /\ u * (Top - 1) \in Int /\ Top * Half \in Int /\ Top * c \in Int /\ Top * (-1) = -Top
    BY <2>3
  <2>10. a + u * v < Top * Half
    BY <2>3, <2>4, <2>5, <2>6, <2>9
  <2>11. c < Half /\ c > -1
    BY <2>2, <2>3, <2>4, <2>7, <2>8, <2>9, <2>10
  <2>. QED  BY <2>1, <2>3, <2>11 DEF Limb
<1>9. Limbs9(r)
  BY <1>7, <1>8 DEF Limbs9, Limbs
<1>10. \A i \in 0 .. 8 : r[i] \in Int
  BY <1>9, LimbInt DEF Limbs9
<1>11. LimbVal(r) + Top * r[8] = r[0] + Half * LimbVal(Upper(r))
  BY <1>10, UpperIs
<1>12. r[0] \in Int /\ LimbVal(Upper(r)) \in Int
  BY <1>9, <1>10, UpperFits
<1>13. LimbParts(r, LimbVal(Upper(s)) + u * LimbVal(b), r[0], LimbVal(Upper(r)))
  BY <1>7, <1>9, <1>11, Zenon DEF LimbParts
<1>. QED  BY <1>6, <1>7, <1>12, <1>13, Zenon

(* One row of a product: n times a, on top of m, is a digit l and h above it. *)
RowIs(m, a, n, l, b, h) == m + a * n = l + b * h

(* Two rows of limbs are one of words,                                       *)
LEMMA TwoRows ==
  ASSUME NEW m \in Int, NEW a0 \in Int, NEW a1 \in Int, NEW n \in Int,
         NEW l0 \in Int, NEW h0 \in Int, NEW l1 \in Int, NEW h1 \in Int,
         RowIs(m, a0, n, l0, Half, h0), RowIs(h0, a1, n, l1, Half, h1)
  PROVE  RowIs(m, a0 + Half * a1, n, l0 + Half * l1, B, h1)
<1>1. ASSUME NEW h \in Int, m + a0 * n = l0 + h * h0, h0 + a1 * n = l1 + h * h1
      PROVE  m + (a0 + h * a1) * n = (l0 + h * l1) + (h * h) * h1
  <2>1. h0 = l1 + h * h1 - a1 * n
    BY <1>1
  <2>2. m + a0 * n = l0 + h * (l1 + h * h1 - a1 * n)
    BY <1>1, <2>1, Zenon
  <2>. QED  BY <2>2
<1>2. Half \in Int /\ B = Half * Half
  BY Sizes DEF B
<1>3. m + (a0 + Half * a1) * n = (l0 + Half * l1) + (Half * Half) * h1
  BY <1>1, <1>2 DEF RowIs
<1>. QED  BY <1>2, <1>3, Zenon DEF RowIs

(* and four of words are the product.                                        *)
LEMMA FourRowsAre ==
  ASSUME NEW a0 \in Int, NEW a1 \in Int, NEW a2 \in Int, NEW a3 \in Int, NEW n \in Int,
         NEW l0 \in Int, NEW l1 \in Int, NEW l2 \in Int, NEW l3 \in Int,
         NEW h0 \in Int, NEW h1 \in Int, NEW h2 \in Int, NEW h3 \in Int,
         RowIs(0, a0, n, l0, B, h0), RowIs(h0, a1, n, l1, B, h1),
         RowIs(h1, a2, n, l2, B, h2), RowIs(h2, a3, n, l3, B, h3)
  PROVE  l0 + B * (l1 + B * (l2 + B * l3)) + Top * h3 = (a0 + B * (a1 + B * (a2 + B * a3))) * n
<1>1. /\ a0 * n = l0 + B * h0 /\ h0 + a1 * n = l1 + B * h1
      /\ h1 + a2 * n = l2 + B * h2 /\ h2 + a3 * n = l3 + B * h3
  BY DEF RowIs
<1>. QED  BY <1>1, FourRows

(* The sixteen limbs of a product are the product.                           *)
LEMMA LimbProduct ==
  ASSUME NEW a \in Limbs8, NEW b \in Limbs8
  PROVE  LET p == uint256_mul_512_ptx(a, b)
         IN  /\ p.low \in Limbs8 /\ p.high \in Limbs8
             /\ LimbVal(p.low) + Top * LimbVal(p.high) = LimbVal(a) * LimbVal(b)
<1>1. PICK a0 \in Limb, a1 \in Limb, a2 \in Limb, a3 \in Limb, a4 \in Limb, a5 \in Limb,
           a6 \in Limb, a7 \in Limb :
        /\ a0 = a[0] /\ a1 = a[1] /\ a2 = a[2] /\ a3 = a[3]
        /\ a4 = a[4] /\ a5 = a[5] /\ a6 = a[6] /\ a7 = a[7]
  <2>1. /\ a[0] \in Limb /\ a[1] \in Limb /\ a[2] \in Limb /\ a[3] \in Limb
        /\ a[4] \in Limb /\ a[5] \in Limb /\ a[6] \in Limb /\ a[7] \in Limb
    BY DEF Limbs8, Limbs
  <2>. QED  BY <2>1, Zenon
<1>. DEFINE z  == [i \in 0 .. 8 |-> 0]
            r0 == LimbRow(z, a0, b)
            r1 == LimbRow(r0, a1, b)
            r2 == LimbRow(r1, a2, b)
            r3 == LimbRow(r2, a3, b)
            r4 == LimbRow(r3, a4, b)
            r5 == LimbRow(r4, a5, b)
            r6 == LimbRow(r5, a6, b)
            r7 == LimbRow(r6, a7, b)
<1>2. PICK n \in Int : n = LimbVal(b)
  <2>1. \A i \in Limbs : b[i] \in Limb
    BY DEF Limbs8
  <2>. QED  BY <2>1, WordsOfLimbs, ValFits, TopIs DEF LimbVal
<1>3. Limbs9(z) /\ LimbVal(Upper(z)) = 0
  <2>1. Limbs9(z)
    BY Sizes DEF Limbs9, Limb
  <2>2. PICK u : u = Upper(z)
    OBVIOUS
  <2>3. \A i \in Limbs : u[i] = 0
    BY <2>2 DEF Upper, Limbs
  <2>4. LimbVal(u) = (0 + Half * 0) + B * ((0 + Half * 0) + B * ((0 + Half * 0) + B * (0 + Half * 0)))
    <3>1. \A i \in Limbs : u[i] \in Int
      BY <2>3
    <3>2. /\ u[0] = 0 /\ u[1] = 0 /\ u[2] = 0 /\ u[3] = 0 /\ u[4] = 0 /\ u[5] = 0
          /\ u[6] = 0 /\ u[7] = 0
      BY <2>3 DEF Limbs
    <3>3. LimbVal(u) = (u[0] + Half * u[1])
                           + B * ((u[2] + Half * u[3])
                           + B * ((u[4] + Half * u[5]) + B * (u[6] + Half * u[7])))
      BY <3>1, LimbValWords, Zenon
    <3>. QED  BY <3>2, <3>3, Zenon
  <2>5. (0 + Half * 0) + B * ((0 + Half * 0) + B * ((0 + Half * 0) + B * (0 + Half * 0))) = 0
    BY Sizes
  <2>. QED  BY <2>1, <2>2, <2>4, <2>5, Zenon
<1>4. PICK l0 \in Int, h0 \in Int : LimbParts(r0, 0 + a0 * n, l0, h0)
  <2>. HIDE DEF z
  <2>1. \E l \in Int, h \in Int : LimbParts(r0, LimbVal(Upper(z)) + a0 * LimbVal(b), l, h)
    BY <1>3, LimbRowStep, Zenon
  <2>. QED  BY <1>2, <1>3, <2>1, Zenon
<1>5. PICK l1 \in Int, h1 \in Int : LimbParts(r1, h0 + a1 * n, l1, h1)
  <2>. HIDE DEF r0
  <2>1. Limbs9(r0) /\ LimbVal(Upper(r0)) = h0
    BY <1>4, Zenon DEF LimbParts
  <2>2. \E l \in Int, h \in Int : LimbParts(r1, LimbVal(Upper(r0)) + a1 * LimbVal(b), l, h)
    BY <2>1, LimbRowStep, Zenon
  <2>. QED  BY <1>2, <2>1, <2>2, Zenon
<1>6. PICK l2 \in Int, h2 \in Int : LimbParts(r2, h1 + a2 * n, l2, h2)
  <2>. HIDE DEF r1
  <2>1. Limbs9(r1) /\ LimbVal(Upper(r1)) = h1
    BY <1>5, Zenon DEF LimbParts
  <2>2. \E l \in Int, h \in Int : LimbParts(r2, LimbVal(Upper(r1)) + a2 * LimbVal(b), l, h)
    BY <2>1, LimbRowStep, Zenon
  <2>. QED  BY <1>2, <2>1, <2>2, Zenon
<1>7. PICK l3 \in Int, h3 \in Int : LimbParts(r3, h2 + a3 * n, l3, h3)
  <2>. HIDE DEF r2
  <2>1. Limbs9(r2) /\ LimbVal(Upper(r2)) = h2
    BY <1>6, Zenon DEF LimbParts
  <2>2. \E l \in Int, h \in Int : LimbParts(r3, LimbVal(Upper(r2)) + a3 * LimbVal(b), l, h)
    BY <2>1, LimbRowStep, Zenon
  <2>. QED  BY <1>2, <2>1, <2>2, Zenon
<1>8. PICK l4 \in Int, h4 \in Int : LimbParts(r4, h3 + a4 * n, l4, h4)
  <2>. HIDE DEF r3
  <2>1. Limbs9(r3) /\ LimbVal(Upper(r3)) = h3
    BY <1>7, Zenon DEF LimbParts
  <2>2. \E l \in Int, h \in Int : LimbParts(r4, LimbVal(Upper(r3)) + a4 * LimbVal(b), l, h)
    BY <2>1, LimbRowStep, Zenon
  <2>. QED  BY <1>2, <2>1, <2>2, Zenon
<1>9. PICK l5 \in Int, h5 \in Int : LimbParts(r5, h4 + a5 * n, l5, h5)
  <2>. HIDE DEF r4
  <2>1. Limbs9(r4) /\ LimbVal(Upper(r4)) = h4
    BY <1>8, Zenon DEF LimbParts
  <2>2. \E l \in Int, h \in Int : LimbParts(r5, LimbVal(Upper(r4)) + a5 * LimbVal(b), l, h)
    BY <2>1, LimbRowStep, Zenon
  <2>. QED  BY <1>2, <2>1, <2>2, Zenon
<1>10. PICK l6 \in Int, h6 \in Int : LimbParts(r6, h5 + a6 * n, l6, h6)
  <2>. HIDE DEF r5
  <2>1. Limbs9(r5) /\ LimbVal(Upper(r5)) = h5
    BY <1>9, Zenon DEF LimbParts
  <2>2. \E l \in Int, h \in Int : LimbParts(r6, LimbVal(Upper(r5)) + a6 * LimbVal(b), l, h)
    BY <2>1, LimbRowStep, Zenon
  <2>. QED  BY <1>2, <2>1, <2>2, Zenon
<1>11. PICK l7 \in Int, h7 \in Int : LimbParts(r7, h6 + a7 * n, l7, h7)
  <2>. HIDE DEF r6
  <2>1. Limbs9(r6) /\ LimbVal(Upper(r6)) = h6
    BY <1>10, Zenon DEF LimbParts
  <2>2. \E l \in Int, h \in Int : LimbParts(r7, LimbVal(Upper(r6)) + a7 * LimbVal(b), l, h)
    BY <2>1, LimbRowStep, Zenon
  <2>. QED  BY <1>2, <2>1, <2>2, Zenon
<1>12. uint256_mul_512_ptx(a, b)
         = [low  |-> [i \in Limbs |-> <<r0[0], r1[0], r2[0], r3[0], r4[0], r5[0], r6[0], r7[0]>>[i + 1]],
            high |-> [i \in Limbs |-> r7[i + 1]]]
  BY <1>1, Zenon DEF uint256_mul_512_ptx
<1>. HIDE DEF z, r0, r1, r2, r3, r4, r5, r6, r7
<1>13. /\ l0 = r0[0] /\ l1 = r1[0] /\ l2 = r2[0] /\ l3 = r3[0]
       /\ l4 = r4[0] /\ l5 = r5[0] /\ l6 = r6[0] /\ l7 = r7[0]
       /\ r0[0] \in Limb /\ r1[0] \in Limb /\ r2[0] \in Limb /\ r3[0] \in Limb
       /\ r4[0] \in Limb /\ r5[0] \in Limb /\ r6[0] \in Limb /\ r7[0] \in Limb
       /\ Limbs9(r7) /\ h7 = LimbVal(Upper(r7))
  BY <1>4, <1>5, <1>6, <1>7, <1>8, <1>9, <1>10, <1>11 DEF LimbParts, Limbs9
<1>14. /\ RowIs(0, a0, n, l0, Half, h0)  /\ RowIs(h0, a1, n, l1, Half, h1)
       /\ RowIs(h1, a2, n, l2, Half, h2) /\ RowIs(h2, a3, n, l3, Half, h3)
       /\ RowIs(h3, a4, n, l4, Half, h4) /\ RowIs(h4, a5, n, l5, Half, h5)
       /\ RowIs(h5, a6, n, l6, Half, h6) /\ RowIs(h6, a7, n, l7, Half, h7)
  BY <1>4, <1>5, <1>6, <1>7, <1>8, <1>9, <1>10, <1>11, Zenon DEF LimbParts, RowIs
<1>15. /\ a0 \in Int /\ a1 \in Int /\ a2 \in Int /\ a3 \in Int
       /\ a4 \in Int /\ a5 \in Int /\ a6 \in Int /\ a7 \in Int
  BY LimbInt
<1>16. PICK x0 \in Int, x1 \in Int, x2 \in Int, x3 \in Int :
         /\ x0 = a0 + Half * a1 /\ x1 = a2 + Half * a3 /\ x2 = a4 + Half * a5 /\ x3 = a6 + Half * a7
  BY <1>15, Sizes
<1>17. PICK y0 \in Int, y1 \in Int, y2 \in Int, y3 \in Int :
         /\ y0 = l0 + Half * l1 /\ y1 = l2 + Half * l3 /\ y2 = l4 + Half * l5 /\ y3 = l6 + Half * l7
  BY Sizes
<1>18. /\ RowIs(0, x0, n, y0, B, h1) /\ RowIs(h1, x1, n, y1, B, h3)
       /\ RowIs(h3, x2, n, y2, B, h5) /\ RowIs(h5, x3, n, y3, B, h7)
  <2>1. RowIs(0, a0 + Half * a1, n, l0 + Half * l1, B, h1)
    <3>1. 0 \in Int
      OBVIOUS
    <3>. QED  BY <1>14, <1>15, <3>1, TwoRows, Zenon
  <2>2. RowIs(h1, a2 + Half * a3, n, l2 + Half * l3, B, h3)
    BY <1>14, <1>15, TwoRows, Zenon
  <2>3. RowIs(h3, a4 + Half * a5, n, l4 + Half * l5, B, h5)
    BY <1>14, <1>15, TwoRows, Zenon
  <2>4. RowIs(h5, a6 + Half * a7, n, l6 + Half * l7, B, h7)
    BY <1>14, <1>15, TwoRows, Zenon
  <2>. QED  BY <1>16, <1>17, <2>1, <2>2, <2>3, <2>4, Zenon
<1>19. y0 + B * (y1 + B * (y2 + B * y3)) + Top * h7 = (x0 + B * (x1 + B * (x2 + B * x3))) * n
  BY <1>18, FourRowsAre
<1>20. LimbVal(a) = x0 + B * (x1 + B * (x2 + B * x3))
  <2>1. \A i \in Limbs : a[i] \in Int
    BY LimbInt DEF Limbs8
  <2>2. LimbVal(a) = (a[0] + Half * a[1]) + B * ((a[2] + Half * a[3])
                        + B * ((a[4] + Half * a[5]) + B * (a[6] + Half * a[7])))
    BY <2>1, LimbValWords, Zenon
  <2>. QED  BY <1>1, <1>16, <2>2, Zenon
<1>21. PICK low : /\ low = uint256_mul_512_ptx(a, b).low /\ low \in Limbs8
                  /\ LimbVal(low) = y0 + B * (y1 + B * (y2 + B * y3))
  <2>1. PICK low : low = uint256_mul_512_ptx(a, b).low
    OBVIOUS
  <2>2. low = [i \in Limbs |-> <<l0, l1, l2, l3, l4, l5, l6, l7>>[i + 1]]
    BY <1>12, <1>13, <2>1
  <2>3. /\ low[0] = l0 /\ low[1] = l1 /\ low[2] = l2 /\ low[3] = l3
        /\ low[4] = l4 /\ low[5] = l5 /\ low[6] = l6 /\ low[7] = l7
    BY <2>2 DEF Limbs
  <2>4. \A i \in Limbs : low[i] \in Limb
    BY <1>13, <2>3 DEF Limbs
  <2>5. low \in Limbs8
    BY <2>2, <2>4 DEF Limbs8
  <2>6. \A i \in Limbs : low[i] \in Int
    BY <2>4, LimbInt
  <2>7. LimbVal(low) = (low[0] + Half * low[1]) + B * ((low[2] + Half * low[3])
                         + B * ((low[4] + Half * low[5]) + B * (low[6] + Half * low[7])))
    BY <2>6, LimbValWords, Zenon
  <2>8. LimbVal(low) = y0 + B * (y1 + B * (y2 + B * y3))
    BY <1>17, <2>3, <2>7, Zenon
  <2>. QED  BY <2>1, <2>5, <2>8
<1>22. uint256_mul_512_ptx(a, b).high = Upper(r7) /\ Upper(r7) \in Limbs8
  BY <1>12, <1>13, UpperFits DEF Upper
<1>. QED  BY <1>2, <1>13, <1>19, <1>20, <1>21, <1>22, Zenon

LEMMA SameLimbs ==
  ASSUME NEW l, NEW m, \A i \in Limbs : l[i] = m[i]
  PROVE  LimbVal(l) = LimbVal(m)
<1>1. \A i \in Idx : l[2*i] = m[2*i] /\ l[2*i + 1] = m[2*i + 1]
  <2>1. \A i \in Idx : 2*i \in Limbs /\ 2*i + 1 \in Limbs
    BY DEF Idx, Limbs
  <2>. QED  BY <2>1
<1>2. FromLimbs(l) = FromLimbs(m)
  BY <1>1, Zenon DEF FromLimbs
<1>. QED  BY <1>2, Zenon DEF LimbVal

LEMMA ZeroLimbs ==
  ASSUME NEW z, \A i \in Limbs : z[i] = 0
  PROVE  LimbVal(z) = 0
<1>1. \A i \in Limbs : z[i] \in Int
  OBVIOUS
<1>2. /\ z[0] = 0 /\ z[1] = 0 /\ z[2] = 0 /\ z[3] = 0 /\ z[4] = 0 /\ z[5] = 0 /\ z[6] = 0 /\ z[7] = 0
  BY DEF Limbs
<1>3. LimbVal(z) = (z[0] + Half * z[1]) + B * ((z[2] + Half * z[3])
                     + B * ((z[4] + Half * z[5]) + B * (z[6] + Half * z[7])))
  BY <1>1, LimbValWords, Zenon
<1>4. (0 + Half * 0) + B * ((0 + Half * 0) + B * ((0 + Half * 0) + B * (0 + Half * 0))) = 0
  BY Sizes
<1>. QED  BY <1>2, <1>3, <1>4, Zenon

LEMMA LimbsFit ==
  ASSUME NEW l \in Limbs8
  PROVE  /\ LimbVal(l) \in 0 .. Top - 1 /\ LimbVal(l) \in Int
         /\ \A i \in Limbs : l[i] \in Limb /\ l[i] \in Int
<1>1. \A i \in Limbs : l[i] \in Limb
  BY DEF Limbs8
<1>2. LimbVal(l) \in 0 .. Top - 1
  BY <1>1, WordsOfLimbs, ValFits DEF LimbVal
<1>. QED  BY <1>1, <1>2, LimbInt, TopIs

(* Two rows and a shift make a product with C.                               *)
LEMMA TimesC ==
  ASSUME NEW T \in Int, NEW h \in Int, NEW g \in Int, NEW n \in Int, NEW a \in Int,
         NEW k0 \in Int, NEW w \in Int, NEW e \in Int, NEW y \in Int, NEW d \in Int,
         RowIs(0, g, n, k0, h, a), RowIs(a, 1, n, w, T, e), RowIs(k0, h, w, y, T, d)
  PROVE  y + T * (d + h * e) = (h + g) * n
<1>1. 0 + g * n = k0 + h * a /\ a + 1 * n = w + T * e /\ k0 + h * w = y + T * d
  BY DEF RowIs
<1>2. h * (w + T * e) = h * (a + 1 * n)
  BY <1>1, Zenon
<1>3. PICK p \in Int, q \in Int, r \in Int, s \in Int, t \in Int, v \in Int :
        p = h * w /\ q = h * (T * e) /\ r = h * a /\ s = h * n /\ t = g * n /\ v = T * d
  OBVIOUS
<1>4. h * (w + T * e) = p + q /\ h * (a + 1 * n) = r + s
  BY <1>3
<1>5. y + T * (d + h * e) = y + (v + q) /\ (h + g) * n = s + t
  BY <1>3
<1>6. t = k0 + r /\ k0 + p = y + v
  BY <1>1, <1>3
<1>7. p + q = r + s
  BY <1>2, <1>4, Zenon
<1>8. y + (v + q) = s + t
  BY <1>6, <1>7
<1>. QED  BY <1>5, <1>8, Zenon

(* high * C: high * K, and high half a word further up.                     *)
LEMMA HighTimesCIs ==
  ASSUME NEW high \in Limbs8
  PROVE  LET hc == HighTimesC(high)
         IN  /\ \A i \in Limbs : hc[i] \in Limb
             /\ hc[8] \in Int /\ hc[9] \in Int
             /\ LimbVal(hc) + Top * (hc[8] + Half * hc[9]) = C * LimbVal(high)
<1>1. PICK n \in 0 .. Top - 1 : n = LimbVal(high) /\ n \in Int
  BY LimbsFit
<1>2. Half \in Nat /\ Half > 0 /\ K \in Nat /\ K < Half /\ Top \in Nat /\ Top > 0 /\ C = Half + K
  BY Sizes, TopIs DEF C
<1>. DEFINE t == [i \in Limbs |-> high[i] * K]
            z == [i \in Limbs |-> 0]
            k == CarriedLimbs(t)
            v == [i \in Limbs |-> k[i+1] + high[i]]
            u == CarriedLimbs(v)
            hc == [i \in 0 .. 9 |-> IF i = 0 THEN k[0] ELSE u[i-1]]
<1>3. HighTimesC(high) = hc
  BY DEF HighTimesC
<1>4. t \in [Limbs -> Int] /\ LinearOf(t, z, high, K)
  <2>1. \A i \in Limbs : high[i] \in Int
    BY LimbsFit
  <2>. QED  BY <1>2, <2>1 DEF LinearOf
<1>5. LimbVal(z) = 0
  BY ZeroLimbs
<1>. HIDE DEF t, z
<1>6. LimbsWorth(k, 0 + K * n)
  <2>1. K \in Int
    BY <1>2
  <2>2. LimbsWorth(CarriedLimbs(t), LimbVal(z) + K * LimbVal(high))
    BY <1>4, <2>1, LimbLinear, Zenon
  <2>. QED  BY <1>1, <1>5, <2>2, Zenon
<1>. HIDE DEF k
<1>7. k[8] \in Limb
  <2>1. PICK w \in 0 .. Top - 1, c \in Int : w = LimbVal(k) /\ c = k[8] /\ w + Top * c = 0 + K * n
    BY <1>6 DEF LimbsWorth
  <2>2. K * n <= K * (Top - 1) /\ K * n >= 0 /\ K * (Top - 1) = Top * K - K
    BY <1>2
  <2>3. c >= K => Top * c >= Top * K
    BY <1>2
  <2>4. c <= -1 => Top * c <= Top * (-1)
    BY <1>2
  <2>5. Top * c \in Int /\ Top * (-1) = -Top /\ Top * K \in Int /\ K * n \in Int
    BY <1>2
  <2>6. c > -1 /\ (c < K \/ K = 0)
    BY <1>2, <2>1, <2>2, <2>3, <2>4, <2>5
  <2>7. K > 0
    BY Sizes
  <2>. QED  BY <1>2, <2>1, <2>6, <2>7 DEF Limb
<1>8. Limbs9(k)
  BY <1>6, <1>7 DEF Limbs9, LimbsWorth, Limbs
<1>9. PICK a \in Int : a = LimbVal(Upper(k)) /\ K * n = k[0] + Half * a /\ k[0] \in Int /\ k[0] \in Limb
  <2>1. \A i \in 0 .. 8 : k[i] \in Int
    BY <1>8, LimbInt DEF Limbs9
  <2>2. LimbVal(k) + Top * k[8] = k[0] + Half * LimbVal(Upper(k))
    BY <2>1, UpperIs
  <2>3. LimbVal(k) + Top * k[8] = 0 + K * n
    BY <1>6, Zenon DEF LimbsWorth
  <2>4. K * n \in Int /\ LimbVal(Upper(k)) \in Int /\ k[0] \in Int /\ k[0] \in Limb
    BY <1>2, <1>8, <2>1, UpperFits DEF Limbs9
  <2>. QED  BY <2>2, <2>3, <2>4
<1>10. v \in [Limbs -> Int] /\ LinearOf(v, Upper(k), high, 1)
  <2>1. \A i \in Limbs : high[i] \in Int /\ Upper(k)[i] \in Int /\ Upper(k)[i] = k[i+1]
    BY <1>8, LimbsFit, UpperFits DEF Upper
  <2>. QED  BY <2>1 DEF LinearOf
<1>. HIDE DEF v
<1>11. LimbsWorth(u, a + 1 * n)
  <2>1. 1 \in Int
    OBVIOUS
  <2>2. LimbsWorth(CarriedLimbs(v), LimbVal(Upper(k)) + 1 * LimbVal(high))
    BY <1>10, <2>1, LimbLinear, Zenon
  <2>. QED  BY <1>1, <1>9, <2>2, Zenon
<1>. HIDE DEF u
<1>12. (\A i \in Limbs : u[i] \in Limb) /\ u[8] \in Int
  BY <1>11 DEF LimbsWorth
<1>13. /\ \A i \in Limbs : hc[i] \in Limb
       /\ hc[8] = u[7] /\ hc[9] = u[8] /\ hc[0] = k[0] /\ u[7] \in Int
       /\ \A i \in 0 .. 8 : hc[i] \in Int
       /\ \A i \in Limbs : Upper(hc)[i] = u[i]
  <2>1. \A i \in 1 .. 8 : hc[i] = u[i-1] /\ u[i-1] \in Limb
    BY <1>12 DEF Limbs
  <2>2. hc[8] = u[7] /\ hc[9] = u[8] /\ hc[0] = k[0] /\ u[7] \in Limb
    BY <1>12 DEF Limbs
  <2>3. \A i \in 0 .. 8 : hc[i] \in Limb
    BY <1>9, <2>1, <2>2
  <2>4. \A i \in Limbs : Upper(hc)[i] = u[i]
    BY DEF Upper, Limbs
  <2>. HIDE DEF hc
  <2>. QED  BY <2>2, <2>3, <2>4, LimbInt DEF Limbs
<1>. HIDE DEF hc
<1>14. LimbVal(hc) + Top * hc[8] = hc[0] + Half * LimbVal(Upper(hc))
  BY <1>13, UpperIs
<1>15. LimbVal(Upper(hc)) = LimbVal(u)
  BY <1>13, SameLimbs
<1>16. PICK w \in Int, low \in Int, d \in Int, e \in Int, k0 \in Int :
         /\ w = LimbVal(u) /\ low = LimbVal(hc) /\ d = hc[8] /\ e = hc[9] /\ k0 = k[0]
         /\ w + Top * e = a + n /\ low + Top * d = k0 + Half * w /\ K * n = k0 + Half * a
  <2>1. LimbVal(u) \in Int
    BY <1>11, TopIs DEF LimbsWorth
  <2>2. LimbVal(hc) \in Int
    <3>1. \A i \in Limbs : hc[i] \in Int
      BY <1>13, LimbInt
    <3>. QED  BY <3>1, LimbValWords
  <2>3. LimbVal(u) + Top * u[8] = a + n
    <3>1. LimbVal(u) + Top * u[8] = a + 1 * n
      BY <1>11, Zenon DEF LimbsWorth
    <3>2. a + 1 * n = a + n
      BY <1>1
    <3>. QED  BY <3>1, <3>2, Zenon
  <2>. QED  BY <1>9, <1>12, <1>13, <1>14, <1>15, <2>1, <2>2, <2>3
<1>17. low + Top * (d + Half * e) = C * n
  <2>1. RowIs(0, K, n, k0, Half, a) /\ RowIs(a, 1, n, w, Top, e) /\ RowIs(k0, Half, w, low, Top, d)
    <3>1. 0 + K * n = k0 + a * Half /\ a + 1 * n = w + e * Top /\ k0 + Half * w = low + d * Top
      <4>1. /\ K * n \in Int /\ Half * a = a * Half /\ 1 * n = n /\ Top * e = e * Top
            /\ Top * d = d * Top /\ Half * w \in Int /\ a * Half \in Int /\ e * Top \in Int /\ d * Top \in Int
        BY <1>1, <1>2
      <4>2. w + Top * e = a + n /\ low + Top * d = k0 + Half * w /\ K * n = k0 + Half * a
        BY <1>16
      <4>. QED  BY <4>1, <4>2, <1>1
    <3>2. Half * a = a * Half /\ Top * e = e * Top /\ Top * d = d * Top
      BY <1>1, <1>2
    <3>. QED  BY <3>1, <3>2, Zenon DEF RowIs
  <2>2. Top \in Int /\ Half \in Int /\ K \in Int
    BY <1>2
  <2>3. low + Top * (d + Half * e) = (Half + K) * n
    BY <1>1, <2>1, <2>2, TimesC
  <2>. QED  BY <1>2, <2>3, Zenon
<1>. QED  BY <1>1, <1>3, <1>13, <1>16, <1>17

(* A word times C, as a word times K and the word half a word further up.   *)
LEMMA AddExtraIs ==
  ASSUME NEW l, \A i \in Limbs : l[i] \in Limb, NEW extra \in 0 .. C
  PROVE  LimbsWorth(AddExtra(l, extra), LimbVal(l) + 1 * (C * extra))
<1>1. /\ Half \in Nat /\ Half > 0 /\ K \in Nat /\ C = Half + K /\ C \in Nat /\ B \in Nat
      /\ B = Half * Half /\ C * K < B /\ B > 0
  <2>1. (Half + K + 2) * K < Half * Half
    BY WordsAssumption
  <2>2. (Half + K) * K <= (Half + K + 2) * K
    BY Sizes
  <2>3. (Half + K) * K \in Int /\ (Half + K + 2) * K \in Int /\ Half * Half \in Int
    BY Sizes
  <2>4. (Half + K) * K < Half * Half
    BY <2>1, <2>2, <2>3
  <2>. QED  BY <2>4, Sizes DEF B, C
<1>2. PICK m \in 0 .. B - 1 : m = extra * K /\ m = (extra * K) % B
  <2>1. extra * K <= C * K /\ extra * K >= 0 /\ extra * K \in Int /\ C * K \in Int
    BY <1>1
  <2>. QED  BY <1>1, <2>1
<1>3. PICK m0 \in Int, m1 \in Int : m0 = m % Half /\ m1 = m \div Half /\ m = m0 + Half * m1
  <2>1. m \in Int
    BY <1>1
  <2>2. m % Half \in Int
    BY <1>1, <2>1
  <2>. QED  BY <1>1, <2>1, <2>2, Divides
<1>4. PICK e0 \in Int, e1 \in Int : e0 = extra % Half /\ e1 = extra \div Half /\ extra = e0 + Half * e1
  <2>1. extra \in Int
    BY <1>1
  <2>2. extra % Half \in Int
    BY <1>1, <2>1
  <2>. QED  BY <1>1, <2>1, <2>2, Divides
<1>. DEFINE limb(i) == CASE i = 0 -> ((extra * K) % B) % Half
                      [] i = 1 -> ((extra * K) % B) \div Half + (extra % Half)
                      [] i = 2 -> extra \div Half
                      [] OTHER -> 0
            y == [i \in Limbs |-> limb(i)]
            t == [i \in Limbs |-> l[i] + limb(i)]
<1>5. AddExtra(l, extra) = CarriedLimbs(t)
  BY Zenon DEF AddExtra
<1>6. y[0] = m0 /\ y[1] = m1 + e0 /\ y[2] = e1 /\ y[3] = 0 /\ y[4] = 0 /\ y[5] = 0 /\ y[6] = 0 /\ y[7] = 0
  <2>1. /\ y[0] = ((extra * K) % B) % Half /\ y[1] = ((extra * K) % B) \div Half + (extra % Half)
        /\ y[2] = extra \div Half /\ y[3] = 0 /\ y[4] = 0 /\ y[5] = 0 /\ y[6] = 0 /\ y[7] = 0
    BY DEF Limbs
  <2>. HIDE DEF y
  <2>. QED  BY <1>2, <1>3, <1>4, <2>1, Zenon
<1>7. \A i \in Limbs : y[i] \in Int /\ t[i] = l[i] + y[i]
  BY <1>6 DEF Limbs
<1>. HIDE DEF limb
<1>8. t \in [Limbs -> Int] /\ LinearOf(t, l, y, 1)
  <2>1. \A i \in Limbs : l[i] \in Int
    BY LimbInt
  <2>2. \A i \in Limbs : t[i] \in Int /\ t[i] = l[i] + 1 * y[i]
    BY <1>7, <2>1
  <2>. QED  BY <1>7, <2>1, <2>2 DEF LinearOf
<1>. HIDE DEF t, y
<1>9. LimbVal(y) = C * extra
  <2>1. \A i \in Limbs : y[i] \in Int
    BY <1>7
  <2>2. LimbVal(y) = (y[0] + Half * y[1]) + B * ((y[2] + Half * y[3])
                       + B * ((y[4] + Half * y[5]) + B * (y[6] + Half * y[7])))
    BY <2>1, LimbValWords, Zenon
  <2>3. LimbVal(y) = (m0 + Half * (m1 + e0)) + B * ((e1 + Half * 0)
                       + B * ((0 + Half * 0) + B * (0 + Half * 0)))
    BY <1>6, <2>2, Zenon
  <2>4. LimbVal(y) = (m0 + Half * m1) + Half * (e0 + Half * e1)
    BY <1>1, <2>3
  <2>5. LimbVal(y) = extra * K + Half * extra
    BY <1>2, <1>3, <1>4, <2>4, Zenon
  <2>6. extra * K + Half * extra = C * extra
    BY <1>1
  <2>. QED  BY <2>5, <2>6, Zenon
<1>10. LimbsWorth(CarriedLimbs(t), LimbVal(l) + 1 * LimbVal(y))
  <2>1. 1 \in Int
    OBVIOUS
  <2>. QED  BY <1>8, <2>1, LimbLinear, Zenon
<1>. QED  BY <1>5, <1>9, <1>10, Zenon

(* mod_reduce takes p away once.                                             *)
LEMMA LimbsReduced ==
  ASSUME NEW s, \A i \in Limbs : s[i] \in Limb
  PROVE  FromLimbs(mod_reduce(Low(s))) = Below(FromLimbs(s))
<1>1. PICK t : /\ t = Low(s) /\ (\A i \in Limbs : t[i] \in Limb) /\ FromLimbs(t) = FromLimbs(s)
  <2>1. \A i \in Limbs : Low(s)[i] = s[i]
    BY DEF Low
  <2>2. \A i \in Idx : 2*i \in Limbs /\ 2*i + 1 \in Limbs
    BY DEF Idx, Limbs
  <2>3. FromLimbs(Low(s)) = FromLimbs(s)
    <3>1. \A i \in Idx : Low(s)[2*i] = s[2*i] /\ Low(s)[2*i + 1] = s[2*i + 1]
      BY <2>1, <2>2
    <3>. QED  BY <3>1, Zenon DEF FromLimbs
  <2>. QED  BY <2>1, <2>3
<1>2. PICK d : d = uint256_sub(t, P8) /\ FromLimbs(d) = Diff(FromLimbs(t), P).w
               /\ FromLimbs(Low(d)) = FromLimbs(d)
  BY <1>1, PLimbs, LimbSums
<1>3. AtLeast(t, P8) <=> Geq(FromLimbs(t), P)
  BY PLimbs, Zenon DEF AtLeast
<1>4. FromLimbs(mod_reduce(t)) = Below(FromLimbs(t))
  BY <1>2, <1>3, Zenon DEF mod_reduce, Below
<1>. QED  BY <1>1, <1>4, Zenon

(* The three overflows of the first fold taken together: what is above the  *)
(* low words of low + high*C.                                                *)
LEMMA SecpExtra ==
  ASSUME NEW low \in Limbs8, NEW high \in Limbs8
  PROVE  LET hc  == HighTimesC(high)
             sum == uint256_add(low, hc)
             extra == (hc[9] * Half + hc[8] + sum[8]) % B
         IN  /\ \A i \in Limbs : sum[i] \in Limb
             /\ LimbVal(sum) \in 0 .. Top - 1 /\ extra \in 0 .. C
             /\ LimbVal(sum) + Top * extra = LimbVal(low) + C * LimbVal(high)
             /\ Leaves(LimbVal(low) + Top * LimbVal(high), LimbVal(sum) + Top * extra)
<1>1. PICK m \in 0 .. Top - 1, n \in 0 .. Top - 1 : m = LimbVal(low) /\ n = LimbVal(high)
  BY LimbsFit
<1>2. /\ Half \in Nat /\ C \in Nat /\ B \in Nat /\ Top \in Nat /\ C < B
  BY Sizes, TopIs
<1>3. PICK hc : /\ hc = HighTimesC(high) /\ \A i \in Limbs : hc[i] \in Limb
                /\ hc[8] \in Int /\ hc[9] \in Int
                /\ LimbVal(hc) + Top * (hc[8] + Half * hc[9]) = C * n
  BY <1>1, HighTimesCIs
<1>. DEFINE t == [i \in Limbs |-> low[i] + hc[i]]
<1>4. t \in [Limbs -> Int] /\ LinearOf(t, low, hc, 1)
  <2>1. \A i \in Limbs : low[i] \in Int /\ hc[i] \in Int
    BY <1>3, LimbsFit, LimbInt
  <2>. QED  BY <2>1 DEF LinearOf
<1>5. PICK sum : sum = uint256_add(low, hc) /\ sum = CarriedLimbs(t)
  BY DEF uint256_add
<1>. HIDE DEF t
<1>6. LimbsWorth(sum, m + 1 * LimbVal(hc))
  <2>1. 1 \in Int
    OBVIOUS
  <2>. QED  BY <1>1, <1>4, <1>5, <2>1, LimbLinear, Zenon
<1>7. PICK w \in 0 .. Top - 1, c \in Int, u \in Int, d \in Int, e \in Int :
        /\ w = LimbVal(sum) /\ c = sum[8] /\ u = LimbVal(hc) /\ d = hc[8] /\ e = hc[9]
        /\ w + Top * c = m + 1 * u /\ u + Top * (d + Half * e) = C * n
  <2>1. LimbVal(hc) \in Int
    <3>1. \A i \in Limbs : hc[i] \in Int
      BY <1>3, LimbInt
    <3>. QED  BY <3>1, LimbValWords
  <2>. QED  BY <1>3, <1>6, <2>1 DEF LimbsWorth
<1>8. PICK x0 \in Int : x0 = e * Half + d + c
  BY <1>2
<1>9. w + Top * x0 = m + C * n
  <2>1. Top * x0 = Top * (d + Half * e) + Top * c
    BY <1>2, <1>8
  <2>2. Top * (d + Half * e) \in Int /\ Top * c \in Int /\ C * n \in Int /\ 1 * u = u
    BY <1>2
  <2>. QED  BY <1>7, <2>1, <2>2
<1>10. x0 \in 0 .. C /\ Leaves(m + Top * n, w + Top * x0)
  BY <1>9, FirstFold
<1>11. (hc[9] * Half + hc[8] + sum[8]) % B = x0
  <2>1. x0 % B = x0
    BY <1>2, <1>10
  <2>2. hc[9] * Half + hc[8] + sum[8] = x0
    BY <1>7, <1>8, Zenon
  <2>. QED  BY <2>1, <2>2, Zenon
<1>12. \A i \in Limbs : sum[i] \in Limb
  BY <1>6 DEF LimbsWorth
<1>. QED  BY <1>1, <1>3, <1>5, <1>7, <1>9, <1>10, <1>11, <1>12, Zenon

(* Two folds and at most one more are enough for the batch kernels.          *)
LEMMA SecpMul ==
  ASSUME NEW a \in Element, NEW b \in Element
  PROVE  LET r == FromLimbs(secp_mod_mul(ToLimbs(a), ToLimbs(b)))
         IN  r \in U256 /\ Val(r) = FieldMul(Val(a), Val(b))
<1>1. a \in U256 /\ b \in U256 /\ Val(a) \in 0 .. Prime - 1
  BY ValFits, TopIs DEF Element
<1>2. PICK l \in Limbs8, m \in Limbs8 : l = ToLimbs(a) /\ LimbVal(l) = Val(a) /\ m = ToLimbs(b) /\ LimbVal(m) = Val(b)
  BY <1>1, LimbsOfWords DEF LimbVal
<1>3. PICK p : p = uint256_mul_512_ptx(l, m) /\ p.low \in Limbs8 /\ p.high \in Limbs8
               /\ LimbVal(p.low) + Top * LimbVal(p.high) = Val(a) * Val(b)
  BY <1>2, LimbProduct
<1>4. PICK hc, sum : hc = HighTimesC(p.high) /\ sum = uint256_add(p.low, hc)
  OBVIOUS
<1>5. PICK extra \in 0 .. C :
         /\ extra = (hc[9] * Half + hc[8] + sum[8]) % B
         /\ \A i \in Limbs : sum[i] \in Limb
         /\ LimbVal(sum) \in 0 .. Top - 1
         /\ LimbVal(sum) + Top * extra = LimbVal(p.low) + C * LimbVal(p.high)
         /\ Leaves(LimbVal(p.low) + Top * LimbVal(p.high), LimbVal(sum) + Top * extra)
  <2>1. PICK e : e = (hc[9] * Half + hc[8] + sum[8]) % B
    OBVIOUS
  <2>2. /\ \A i \in Limbs : sum[i] \in Limb
        /\ LimbVal(sum) \in 0 .. Top - 1 /\ e \in 0 .. C
        /\ LimbVal(sum) + Top * e = LimbVal(p.low) + C * LimbVal(p.high)
        /\ Leaves(LimbVal(p.low) + Top * LimbVal(p.high), LimbVal(sum) + Top * e)
    BY <1>3, <1>4, <2>1, SecpExtra, Zenon
  <2>. QED  BY <2>1, <2>2, Zenon
<1>6. PICK n \in Int, s0 \in 0 .. Top - 1 :
        n = Val(a) * Val(b) /\ s0 = LimbVal(sum) /\ Leaves(n, s0 + Top * extra)
  <2>1. Val(a) * Val(b) \in Int
    BY <1>1, ValFits, TopIs
  <2>. QED  BY <1>3, <1>4, <1>5, <2>1
<1>7. PICK once : once = AddExtra(sum, extra) /\ LimbsWorth(once, s0 + 1 * (C * extra))
  BY <1>4, <1>5, <1>6, AddExtraIs, Zenon
<1>8. PICK o0 \in 0 .. Top - 1, o1 \in Int :
        o0 = LimbVal(once) /\ o1 = once[8] /\ o0 + Top * o1 = s0 + C * extra
  <2>1. 1 * (C * extra) = C * extra
    BY Sizes
  <2>. QED  BY <1>7, <2>1 DEF LimbsWorth
<1>9. o1 \in {0, 1} /\ (o1 = 1 => o0 + C < Top) /\ Leaves(s0 + Top * extra, o0 + Top * o1)
  BY <1>8, SecondFold
<1>10. \A i \in Limbs : once[i] \in Limb
  BY <1>7 DEF LimbsWorth
<1>11. PICK twice : twice = AddExtra(once, once[8]) /\ LimbsWorth(twice, o0 + 1 * (C * o1))
  <2>1. o1 \in 0 .. C
    BY <1>9, Sizes
  <2>. QED  BY <1>8, <1>10, <2>1, AddExtraIs, Zenon
<1>12. PICK t0 \in 0 .. Top - 1, t1 \in Int :
        t0 = LimbVal(twice) /\ t0 + Top * t1 = o0 + C * o1
  <2>1. 1 * (C * o1) = C * o1
    BY Sizes
  <2>. QED  BY <1>11, <2>1 DEF LimbsWorth
<1>13. Leaves(o0 + Top * o1, t0)
  BY <1>9, <1>12, ThirdFold
<1>14. PICK last : /\ last = IF once[8] # 0 THEN twice ELSE once
                   /\ \A i \in Limbs : last[i] \in Limb
                   /\ Leaves(o0 + Top * o1, LimbVal(last))
  <2>1. CASE o1 = 0
    <3>1. o0 + Top * o1 = o0
      BY <2>1, TopIs
    <3>2. o0 \in Int /\ 0 \in Int
      BY TopIs
    <3>3. Leaves(o0, o0)
      BY <3>2, LeavesSelf, Zenon
    <3>4. Leaves(o0 + Top * o1, LimbVal(once))
      BY <1>8, <3>1, <3>3, Zenon
    <3>. QED  BY <1>8, <1>10, <2>1, <3>4, Zenon
  <2>2. CASE o1 # 0
    <3>1. \A i \in Limbs : twice[i] \in Limb
      BY <1>11 DEF LimbsWorth
    <3>. QED  BY <1>8, <1>12, <1>13, <2>2, <3>1, Zenon
  <2>. QED  BY <2>1, <2>2
<1>15. FromLimbs(last) \in U256
  BY <1>14, WordsOfLimbs
<1>16. PICK v \in Int : v = LimbVal(last) /\ v = Val(FromLimbs(last))
  BY <1>15, ValFits, TopIs DEF LimbVal
<1>17. Leaves(n, v)
  <2>1. s0 + Top * extra \in Int /\ o0 + Top * o1 \in Int
    BY TopIs, Sizes
  <2>2. Leaves(o0 + Top * o1, v)
    BY <1>14, <1>16, Zenon
  <2>. QED  BY <1>6, <1>9, <2>1, <2>2, LeavesThrice, Zenon
<1>18. secp_mod_mul(l, m) = mod_reduce(Low(last))
  <2>1. PICK fold : fold = secp_FoldHigh(p) /\ fold.sum = sum /\ fold.extra = extra
    <3>1. secp_FoldHigh(p) = [sum |-> sum, extra |-> extra]
      BY <1>4, <1>5, Zenon DEF secp_FoldHigh
    <3>2. secp_FoldHigh(p).sum = sum /\ secp_FoldHigh(p).extra = extra
      BY <3>1
    <3>. QED  BY <3>2, Zenon
  <2>2. secp_FoldExtra(fold) = last
    BY <1>7, <1>11, <1>14, <2>1, Zenon DEF secp_FoldExtra
  <2>. QED  BY <1>3, <2>1, <2>2, Zenon DEF secp_mod_mul
<1>19. FromLimbs(secp_mod_mul(l, m)) = Below(FromLimbs(last))
  BY <1>14, <1>18, LimbsReduced, Zenon
<1>20. Leaves(Val(a) * Val(b), Val(FromLimbs(last)))
  BY <1>6, <1>16, <1>17, Zenon
<1>21. /\ Below(FromLimbs(last)) \in U256
       /\ Val(Below(FromLimbs(last))) = FieldMul(Val(a), Val(b))
  BY <1>1, <1>15, <1>20, Reduced
<1>. QED  BY <1>2, <1>19, <1>21, Zenon

-----------------------------------------------------------------------------
(* The registers. The invariant says that the number is an element of the    *)
(* field, so that a register that agrees with it is one, too, which is what the*)
(* sums and products need.                                                   *)

Correct(r, n) == r \in U256 /\ Val(r) = n

LEMMA RegisterIs ==
  ASSUME NEW r, NEW n, Correct(r, n)
  PROVE  r = ToWords(n)
BY WordsOfVal, Zenon DEF Correct

LEMMA ElementWords ==
  ASSUME NEW n \in 0 .. Prime - 1
  PROVE  ToWords(n) \in Element /\ Val(ToWords(n)) = n
<1>1. n \in 0 .. Top - 1 /\ n < Prime
  BY TopIs, Sizes
<1>. QED  BY <1>1, ValOfWords DEF Element

(* The field is closed under its operations.                                 *)
LEMMA FieldClosed ==
  ASSUME NEW m \in 0 .. Prime - 1, NEW n \in 0 .. Prime - 1
  PROVE  /\ FieldAdd(m, n) \in 0 .. Prime - 1
         /\ FieldSub(m, n) \in 0 .. Prime - 1
         /\ FieldMul(m, n) \in 0 .. Prime - 1
<1>1. Prime \in Nat
  BY TopIs
<1>2. PICK b \in U256 : Val(b) = n
  BY ElementWords DEF Element
<1>3. FieldMul(m, n) = (m * n) % Prime
  BY <1>2, ProductMod
<1>. HIDE DEF Prime
<1>4. m + n \in Int /\ m - n \in Int /\ m * n \in Int
  BY <1>1
<1>5. ASSUME NEW v \in Int
      PROVE  v % Prime \in 0 .. Prime - 1
  <2>1. 0 \in Int
    OBVIOUS
  <2>. QED  BY <2>1, LeavesSelf
<1>. QED  BY <1>3, <1>4, <1>5, Zenon DEF FieldAdd, FieldSub

InRange == x \in 0 .. Prime - 1
FieldInv == InRange /\ FieldAgrees

(* A step puts right registers in place of right registers.                  *)
LEMMA EachRegister ==
  ASSUME NEW x2 \in 0 .. Prime - 1, NEW cpu, NEW kangaroo, NEW puzzle, NEW secp, NEW metal,
         FieldStep(x2, cpu, kangaroo, puzzle, secp, metal),
         Correct(cpu, x2), Correct(kangaroo, x2), Correct(secp, x2), Correct(metal, x2),
         ~lost' => Correct(puzzle, x2)
  PROVE  FieldInv'
<1>1. x' = x2
  BY DEF FieldStep
<1>2. /\ word'["cpu"] = cpu /\ word'["kangaroo"] = kangaroo /\ word'["puzzle"] = puzzle
      /\ word'["secp"] = secp /\ word'["metal"] = metal
  BY DEF FieldStep, Copies
<1>3. \A c \in Copies \ {"puzzle"} : word'[c] = ToWords(x2)
  <2>1. \A c \in Copies \ {"puzzle"} : c \in {"cpu", "kangaroo", "secp", "metal"}
    BY DEF Copies
  <2>. QED  BY <1>2, <2>1, RegisterIs, Zenon
<1>4. ~lost' => word'["puzzle"] = ToWords(x2)
  BY <1>2, RegisterIs, Zenon
<1>. QED  BY <1>1, <1>3, <1>4 DEF FieldInv, InRange, FieldAgrees

(* The number is an element, and every register its words.                   *)
LEMMA StartRight == FieldInit => FieldInv
<1>. SUFFICES ASSUME NEW n \in Operands, Load(n)
              PROVE  FieldInv
  BY DEF FieldInit
<1>1. x \in 0 .. Prime - 1
  BY RegistersAssumption DEF Load
<1>2. \A c \in Copies : word[c] = ToWords(x)
  BY DEF Load
<1>3. "puzzle" \in Copies
  BY DEF Copies
<1>. QED  BY <1>1, <1>2, <1>3 DEF FieldInv, InRange, FieldAgrees

(* Each operation takes elements to the element it should.                   *)
LEMMA StaysRight == FieldInv /\ [FieldNext]_fieldVars => FieldInv'
<1>. SUFFICES ASSUME FieldInv, [FieldNext]_fieldVars
              PROVE  FieldInv'
  OBVIOUS
<1>1. x \in 0 .. Prime - 1 /\ FieldAgrees
  BY DEF FieldInv, InRange
<1>2. PICK a \in Element : a = ToWords(x) /\ Val(a) = x
  BY <1>1, ElementWords
<1>3. /\ word["cpu"] = a /\ word["kangaroo"] = a /\ word["secp"] = a /\ word["metal"] = a
      /\ ~lost => word["puzzle"] = a
  <2>1. \A c \in {"cpu", "kangaroo", "secp", "metal"} : c \in Copies \ {"puzzle"}
    BY DEF Copies
  <2>. QED  BY <1>1, <1>2, <2>1, Zenon DEF FieldAgrees
<1>4. ASSUME NEW n \in Operands, Add(n) \/ Sub(n) \/ Mul(n)
      PROVE  FieldInv'
  <2>1. n \in 0 .. Prime - 1
    BY RegistersAssumption
  <2>2. PICK b \in Element : b = ToWords(n) /\ Val(b) = n
    BY <2>1, ElementWords
  <2>3. CASE Add(n)
    <3>1. FieldStep(FieldAdd(x, n), cpu_mod_add(a, b),
                    kangaroo_mod_add(a, b), puzzle_mod_add(word["puzzle"], b),
                    FromLimbs(secp_mod_add(ToLimbs(a), ToLimbs(b))),
                    metal_mod_add(a, b)) /\ lost' = lost
      BY <1>3, <2>2, <2>3, Zenon DEF Add
    <3>2. /\ Correct(cpu_mod_add(a, b), FieldAdd(x, n))
          /\ Correct(kangaroo_mod_add(a, b), FieldAdd(x, n))
          /\ Correct(puzzle_mod_add(a, b), FieldAdd(x, n))
          /\ Correct(FromLimbs(secp_mod_add(ToLimbs(a), ToLimbs(b))), FieldAdd(x, n))
          /\ Correct(metal_mod_add(a, b), FieldAdd(x, n))
      <4>0. FieldAdd(Val(a), Val(b)) = FieldAdd(x, n)
        BY <1>2, <2>2
      <4>1. Correct(cpu_mod_add(a, b), FieldAdd(x, n))
        BY <4>0, CpuSums, Zenon DEF Correct
      <4>2. Correct(kangaroo_mod_add(a, b), FieldAdd(x, n))
        BY <4>0, KangarooSums, Zenon DEF Correct
      <4>3. Correct(puzzle_mod_add(a, b), FieldAdd(x, n))
        BY <4>0, PuzzleSums, Zenon DEF Correct
      <4>4. Correct(FromLimbs(secp_mod_add(ToLimbs(a), ToLimbs(b))), FieldAdd(x, n))
        BY <4>0, SecpSums, Zenon DEF Correct
      <4>5. Correct(metal_mod_add(a, b), FieldAdd(x, n))
        BY <4>0, MetalSums, Zenon DEF Correct
      <4>. QED  BY <4>1, <4>2, <4>3, <4>4, <4>5
    <3>3. FieldAdd(x, n) \in 0 .. Prime - 1
      BY <1>1, <2>1, FieldClosed
    <3>4. ~lost' => Correct(puzzle_mod_add(word["puzzle"], b), FieldAdd(x, n))
      BY <1>3, <3>1, <3>2, Zenon
    <3>. QED  BY <3>1, <3>2, <3>3, <3>4, EachRegister, Zenon
  <2>4. CASE Sub(n)
    <3>1. FieldStep(FieldSub(x, n), cpu_mod_sub(a, b),
                    kangaroo_mod_sub(a, b), puzzle_mod_sub(word["puzzle"], b),
                    FromLimbs(secp_mod_sub(ToLimbs(a), ToLimbs(b))),
                    metal_mod_sub(a, b)) /\ lost' = lost
      BY <1>3, <2>2, <2>4, Zenon DEF Sub
    <3>2. /\ Correct(cpu_mod_sub(a, b), FieldSub(x, n))
          /\ Correct(kangaroo_mod_sub(a, b), FieldSub(x, n))
          /\ Correct(puzzle_mod_sub(a, b), FieldSub(x, n))
          /\ Correct(FromLimbs(secp_mod_sub(ToLimbs(a), ToLimbs(b))), FieldSub(x, n))
          /\ Correct(metal_mod_sub(a, b), FieldSub(x, n))
      <4>0. FieldSub(Val(a), Val(b)) = FieldSub(x, n)
        BY <1>2, <2>2
      <4>1. Correct(cpu_mod_sub(a, b), FieldSub(x, n))
        BY <4>0, CpuSums, Zenon DEF Correct
      <4>2. Correct(kangaroo_mod_sub(a, b), FieldSub(x, n))
        BY <4>0, KangarooSums, Zenon DEF Correct
      <4>3. Correct(puzzle_mod_sub(a, b), FieldSub(x, n))
        BY <4>0, PuzzleSums, Zenon DEF Correct
      <4>4. Correct(FromLimbs(secp_mod_sub(ToLimbs(a), ToLimbs(b))), FieldSub(x, n))
        BY <4>0, SecpSums, Zenon DEF Correct
      <4>5. Correct(metal_mod_sub(a, b), FieldSub(x, n))
        BY <4>0, MetalSums, Zenon DEF Correct
      <4>. QED  BY <4>1, <4>2, <4>3, <4>4, <4>5
    <3>3. FieldSub(x, n) \in 0 .. Prime - 1
      BY <1>1, <2>1, FieldClosed
    <3>4. ~lost' => Correct(puzzle_mod_sub(word["puzzle"], b), FieldSub(x, n))
      BY <1>3, <3>1, <3>2, Zenon
    <3>. QED  BY <3>1, <3>2, <3>3, <3>4, EachRegister, Zenon
  <2>5. CASE Mul(n)
    <3>1. FieldStep(FieldMul(x, n), cpu_mod_mul(a, b),
                    kangaroo_mod_mul(a, b), puzzle_mod_mul(word["puzzle"], b),
                    FromLimbs(secp_mod_mul(ToLimbs(a), ToLimbs(b))),
                    metal_mod_mul(a, b))
          /\ lost' = (lost \/ ~puzzle_NothingDropped(word["puzzle"], b))
      BY <1>3, <2>2, <2>5, Zenon DEF Mul
    <3>2. /\ Correct(cpu_mod_mul(a, b), FieldMul(x, n))
          /\ Correct(kangaroo_mod_mul(a, b), FieldMul(x, n))
          /\ puzzle_NothingDropped(a, b) => Correct(puzzle_mod_mul(a, b), FieldMul(x, n))
          /\ Correct(FromLimbs(secp_mod_mul(ToLimbs(a), ToLimbs(b))), FieldMul(x, n))
          /\ Correct(metal_mod_mul(a, b), FieldMul(x, n))
      <4>0. FieldMul(Val(a), Val(b)) = FieldMul(x, n)
        BY <1>2, <2>2
      <4>1. Correct(cpu_mod_mul(a, b), FieldMul(x, n))
        BY <4>0, CpuMul, Zenon DEF Correct
      <4>2. Correct(kangaroo_mod_mul(a, b), FieldMul(x, n))
        BY <4>0, KangarooMul, Zenon DEF Correct
      <4>3. puzzle_NothingDropped(a, b) => Correct(puzzle_mod_mul(a, b), FieldMul(x, n))
        BY <4>0, PuzzleMul, Zenon DEF Correct
      <4>4. Correct(FromLimbs(secp_mod_mul(ToLimbs(a), ToLimbs(b))), FieldMul(x, n))
        BY <4>0, SecpMul, Zenon DEF Correct
      <4>5. Correct(metal_mod_mul(a, b), FieldMul(x, n))
        BY <4>0, MetalMul, Zenon DEF Correct
      <4>. QED  BY <4>1, <4>2, <4>3, <4>4, <4>5
    <3>3. FieldMul(x, n) \in 0 .. Prime - 1
      BY <1>1, <2>1, FieldClosed
    <3>4. ~lost' => Correct(puzzle_mod_mul(word["puzzle"], b), FieldMul(x, n))
      BY <1>3, <3>1, <3>2, Zenon
    <3>. QED  BY <3>1, <3>2, <3>3, <3>4, EachRegister, Zenon
  <2>. QED  BY <1>4, <2>3, <2>4, <2>5
<1>5. CASE UNCHANGED fieldVars
  BY <1>1, <1>5 DEF fieldVars, FieldInv, InRange, FieldAgrees
<1>. QED  BY <1>4, <1>5 DEF FieldNext

(* Whatever is added, subtracted and multiplied, in any order and for any    *)
(* size of the word, every copy of the arithmetic has the right element in   *)
(* its register, the puzzle copy as long as no product dropped a carry.      *)
THEOREM FieldCorrect == FieldSpec => []FieldAgrees
<1>1. FieldInv => FieldAgrees
  BY DEF FieldInv
<1>. QED  BY <1>1, StartRight, StaysRight, PTL DEF FieldSpec
=============================================================================
