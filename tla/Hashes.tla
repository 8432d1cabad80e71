------------------------------- MODULE Hashes -------------------------------
(***************************************************************************)
(* Hashing, as the standards have it, for the copies of HashKernel,        *)
(* HashDevice and HashCpu to be compared with.  Bytes are numbers below    *)
(* 256 and a byte string is a sequence of them.  What a compression        *)
(* function does to its sixteen words stays abstract: Compress is a small  *)
(* mixing function that tells blocks apart.  Everything around it is       *)
(* concrete: which bytes fill which block, which end of a word comes       *)
(* first, padding, lengths, keys and counters.                             *)
(***************************************************************************)
EXTENDS Integers, Sequences, Bitwise

Zeros(n) == [i \in 1 .. n |-> 0]

\* Byte k of a number, k = 0 the lowest; numbers stay below 2^24.
ByteOf(v, k) == IF k > 2 THEN 0 ELSE (v \div 256^k) % 256

BigEndian(v, n) == [i \in 1 .. n |-> ByteOf(v, n - i)]
LittleEndian(v, n) == [i \in 1 .. n |-> ByteOf(v, i - 1)]

XorBytes(a, b) == [i \in DOMAIN a |-> a[i] ^^ b[i]]
XorAll(a, byte) == [i \in DOMAIN a |-> a[i] ^^ byte]

\* An iterated mac and what has been combined so far.
First(u) == <<u, u>>
Combined(u, before) == <<u, XorBytes(before, u)>>

\* A hash function: bytes of a block, of a word and of the length, words of
\* the digest, byte order.
Function == [
  sha256    |-> [size |-> 64,  word |-> 4, tail |-> 8,  words |-> 8, big |-> TRUE,  start |-> 11],
  sha512    |-> [size |-> 128, word |-> 8, tail |-> 16, words |-> 8, big |-> TRUE,  start |-> 12],
  sha1      |-> [size |-> 64,  word |-> 4, tail |-> 8,  words |-> 5, big |-> TRUE,  start |-> 13],
  md5       |-> [size |-> 64,  word |-> 4, tail |-> 8,  words |-> 4, big |-> FALSE, start |-> 14],
  ripemd160 |-> [size |-> 64,  word |-> 4, tail |-> 8,  words |-> 5, big |-> FALSE, start |-> 15]]

\* The blocks of a byte string, one after the other; what does not fill a
\* block is left.
RECURSIVE Compress(_, _), Process(_, _, _, _, _)

\* The sixteen words of a block, each with its high byte first.
Words(block, n, big) ==
  [i \in 1 .. 16 |-> [j \in 1 .. n |-> block[n * (i - 1) + (IF big THEN j ELSE n + 1 - j)]]]

\* A word has four bytes, or eight.
Weight(word) ==
  LET pair(i) == word[2 * i - 1] * 256 + word[2 * i]
  IN  (17 * pair(1) + pair(2) + (IF Len(word) = 8 THEN 5 * pair(3) + 29 * pair(4) ELSE 0)) % 65521

\* A state is never negative.
Compress(state, words) ==
  IF state < 0 \/ words = << >> THEN state
  ELSE Compress((state * 257 + Weight(Head(words)) + Len(words)) % 65521, Tail(words))

\* The digest: words of the state, written in a byte order.
Output(state, words, n, big) ==
  [i \in 1 .. words * n |->
     LET w == (i - 1) \div n
         j == IF big THEN (i - 1) % n ELSE n - 1 - ((i - 1) % n)
     IN  (state * (7 * w + j + 1) + w) % 256]

Process(state, bytes, size, n, big) ==
  IF state < 0 \/ Len(bytes) < size THEN state
  ELSE Process(Compress(state, Words(SubSeq(bytes, 1, size), n, big)),
               SubSeq(bytes, size + 1, Len(bytes)), size, n, big)

-----------------------------------------------------------------------------
(* The standards: FIPS 180-4, RFC 1321, the RIPEMD-160 paper, RFC 2104,      *)
(* RFC 8018.                                                                 *)
Padded(f, bytes) ==
  LET length == IF f.big THEN BigEndian(8 * Len(bytes), f.tail) ELSE LittleEndian(8 * Len(bytes), f.tail)
      fill   == CHOOSE z \in 0 .. f.size - 1 : (Len(bytes) + 1 + z + f.tail) % f.size = 0
  IN  bytes \o <<128>> \o Zeros(fill) \o length

Standard(f, bytes) ==
  Output(Process(f.start, Padded(f, bytes), f.size, f.word, f.big), f.words, f.word, f.big)

StandardHmac(f, key, bytes) ==
  LET short == IF Len(key) > f.size THEN Standard(f, key) ELSE key
      k0    == short \o Zeros(f.size - Len(short))
  IN  Standard(f, XorAll(k0, 92) \o Standard(f, XorAll(k0, 54) \o bytes))

StandardPbkdf2(f, password, salt, iterations, length) ==
  LET u[n \in 1 .. 100, i \in 1 .. iterations] ==
        IF i = 1 THEN First(StandardHmac(f, password, salt \o BigEndian(n, 4)))
        ELSE LET before == u[n, i - 1] IN Combined(StandardHmac(f, password, before[1]), before[2])
      all[n \in 0 .. 100] == IF n = 0 THEN << >> ELSE all[n - 1] \o u[n, iterations][2]
  IN  SubSeq(all[1 + (length \div (f.words * f.word))], 1, length)

Hash160(bytes) == Standard(Function.ripemd160, Standard(Function.sha256, bytes))
=============================================================================
