----------------------------- MODULE HashKernel -----------------------------
(***************************************************************************)
(* The hashes of the searching kernels: sha256.cu and ripemd160.cu, and    *)
(* the ones written for keys of 33 bytes in puzzle_optimized.cu and        *)
(* puzzle.metal.  Most fill the words of their only block by hand.         *)
(***************************************************************************)
EXTENDS Hashes

LOCAL Sha == Function.sha256
LOCAL Ripe == Function.ripemd160

\* One block, for messages of up to 55 bytes; at 56 and more the length
\* covers the mark of the end, and what does not fit is left out.
sha256_hash(bytes) ==
  LET len   == Len(bytes)
      block == [i \in 1 .. 64 |-> IF i > 56 THEN BigEndian(8 * len, 8)[i - 56]
                                  ELSE IF i = len + 1 THEN 128
                                  ELSE IF i <= len /\ i <= 55 THEN bytes[i] ELSE 0]
  IN  Output(Compress(Sha.start, Words(block, 4, TRUE)), 8, 4, TRUE)

\* Byte i of the padded message depends on its position only.
sha256_hash_long(bytes) ==
  LET len        == Len(bytes)
      num_blocks == (len + 9 + 63) \div 64
      Byte(blk, i) == LET pos == 64 * blk + i
                      IN  IF pos < len THEN bytes[pos + 1]
                          ELSE IF pos = len THEN 128
                          ELSE IF blk = num_blocks - 1 /\ i >= 56 THEN ByteOf(8 * len, 63 - i)
                          ELSE 0
      state[b \in 0 .. num_blocks] ==
        IF b = 0 THEN Sha.start
        ELSE Compress(state[b - 1], Words([i \in 1 .. 64 |-> Byte(b - 1, i - 1)], 4, TRUE))
  IN  Output(state[num_blocks], 8, 4, TRUE)

\* The thread with index idx hashes its slice, if it has one.
sha256_batch_kernel(bytes, offsets, lengths, idx) ==
  IF idx > Len(offsets) THEN << >>
  ELSE sha256_hash(SubSeq(bytes, offsets[idx] + 1, offsets[idx] + lengths[idx]))

\* As many blocks of threads as cover all messages.
sha256_batch(bytes, offsets, lengths, threads) ==
  LET count  == Len(offsets)
      blocks == (count + threads - 1) \div threads
  IN  [idx \in 1 .. blocks * threads |-> sha256_batch_kernel(bytes, offsets, lengths, idx)]

-----------------------------------------------------------------------------
(* 33 bytes: eight words of the key, one with its last byte and the mark,    *)
(* and the length, 264, in the last word.                                    *)
sha256_pubkey33_kernel(key) ==
  LET W == [i \in 1 .. 16 |-> IF i <= 8 THEN SubSeq(key, 4 * i - 3, 4 * i)
                              ELSE IF i = 9 THEN <<key[33], 128, 0, 0>>
                              ELSE IF i = 16 THEN BigEndian(264, 4) ELSE Zeros(4)]
  IN  Output(Compress(Sha.start, W), 8, 4, TRUE)

sha256_pubkey65_kernel(key) == sha256_hash_long(SubSeq(key, 1, 65))

sha256_33bytes_opt(key) ==
  LET W == [i \in 1 .. 8 |-> SubSeq(key, 4 * i - 3, 4 * i)]
             \o <<<<key[33], 128, 0, 0>>>> \o [i \in 1 .. 6 |-> Zeros(4)] \o <<BigEndian(264, 4)>>
  IN  Output(Compress(Sha.start, W), 8, 4, TRUE)

sha256_33bytes(key) ==
  LET W == [i \in 1 .. 8 |-> SubSeq(key, 4 * i - 3, 4 * i)]
             \o <<<<key[33], 128, 0, 0>>>> \o [i \in 1 .. 6 |-> Zeros(4)] \o <<BigEndian(264, 4)>>
  IN  Output(Compress(Sha.start, W), 8, 4, TRUE)

-----------------------------------------------------------------------------
(* RIPEMD-160 of the 32 bytes of a SHA-256; words have their low byte first  *)
(* in memory, so the length of 256 bits is a one in byte 57.                 *)
ripemd160_hash(digest) ==
  LET block == [i \in 1 .. 64 |-> IF i <= 32 THEN digest[i]
                                  ELSE IF i = 33 THEN 128 ELSE IF i = 58 THEN 1 ELSE 0]
  IN  Output(Compress(Ripe.start, Words(block, 4, FALSE)), 5, 4, FALSE)

LowFirst(digest, i) == [j \in 1 .. 4 |-> digest[4 * i + 1 - j]]

ripemd160_32bytes_opt(digest) ==
  LET X == [i \in 1 .. 8 |-> LowFirst(digest, i)]
             \o <<<<0, 0, 0, 128>>>> \o [i \in 1 .. 5 |-> Zeros(4)] \o <<BigEndian(256, 4), Zeros(4)>>
  IN  Output(Compress(Ripe.start, X), 5, 4, FALSE)

ripemd160_32bytes(digest) ==
  LET X == [i \in 1 .. 8 |-> LowFirst(digest, i)]
             \o <<<<0, 0, 0, 128>>>> \o [i \in 1 .. 5 |-> Zeros(4)] \o <<BigEndian(256, 4), Zeros(4)>>
  IN  Output(Compress(Ripe.start, X), 5, 4, FALSE)

\* The x of a point from its four words, the highest word first, behind the
\* sign of y.
compress_pubkey(x, odd) ==
  <<2 + odd>> \o [i \in 1 .. 32 |-> x[4 - ((i - 1) \div 8)][1 + ((i - 1) % 8)]]

\* What the two searching kernels compare with their target.
Hash160Opt(key) == ripemd160_32bytes_opt(sha256_33bytes_opt(key))
Hash160Metal(key) == ripemd160_32bytes(sha256_33bytes(key))
Hash160Batch(key) == ripemd160_hash(sha256_pubkey33_kernel(key))
=============================================================================
