------------------------------ MODULE HashCpu -------------------------------
(***************************************************************************)
(* The hashes that run on the host: the streaming classes of               *)
(* crypto_cpu.hpp, the ones that pad a copy of the message in              *)
(* rckangaroo_wrapper.cu, and the references of sha512_cpu.hpp and         *)
(* address_derive_cpu.hpp, which the kernels are tested against.           *)
(***************************************************************************)
EXTENDS Hashes

LOCAL Sha == Function.sha256
LOCAL Ripe == Function.ripemd160

(* crypto_cpu.hpp.                                                           *)
\* SHA256: bytes go into a buffer that is compressed whenever it is full.
Sha256Update(data) ==
  LET blocks == Len(data) \div 64
  IN  [state |-> Process(Sha.start, data, 64, 4, TRUE), bitlen |-> 512 * blocks,
       buffer |-> SubSeq(data, 64 * blocks + 1, Len(data))]

Sha256Finalize_Early(c) ==
  LET buflen == Len(c.buffer)
      marked == c.buffer \o <<128>>
      early  == buflen <= 56
      state  == IF early THEN c.state
                ELSE Compress(c.state, Words(marked \o Zeros(64 - Len(marked)), 4, TRUE))
      block  == (IF early THEN SubSeq(marked \o Zeros(64 - Len(marked)), 1, 56) ELSE Zeros(56))
                  \o BigEndian(c.bitlen + 8 * buflen, 8)
  IN  Output(Compress(state, Words(block, 4, TRUE)), 8, 4, TRUE)

Sha256Finalize(c) ==
  LET buflen == Len(c.buffer)
      marked == c.buffer \o <<128>>
      early  == buflen < 56
      state  == IF early THEN c.state
                ELSE Compress(c.state, Words(marked \o Zeros(64 - Len(marked)), 4, TRUE))
      block  == (IF early THEN marked \o Zeros(56 - Len(marked)) ELSE Zeros(56))
                  \o BigEndian(c.bitlen + 8 * buflen, 8)
  IN  Output(Compress(state, Words(block, 4, TRUE)), 8, 4, TRUE)

SHA256_hash(data) == Sha256Finalize(Sha256Update(data))

\* RIPEMD160: the count of bits says how much of the buffer is in use.
LOCAL Overwrite(buffer, at, data) ==
  [i \in 1 .. 64 |-> IF i > at /\ i <= at + Len(data) THEN data[i - at] ELSE buffer[i]]

Ripemd160Update(c, data) ==
  LET idx     == (c.count \div 8) % 64
      partLen == 64 - idx
      len     == Len(data)
      done    == IF len >= partLen THEN partLen + 64 * ((len - partLen) \div 64) ELSE 0
      filled  == Overwrite(c.buffer, idx, SubSeq(data, 1, partLen))
  IN  IF len >= partLen
      THEN [count  |-> c.count + 8 * len,
            state  |-> Process(c.state, filled \o SubSeq(data, partLen + 1, done), 64, 4, FALSE),
            buffer |-> Overwrite(filled, 0, SubSeq(data, done + 1, len))]
      ELSE [c EXCEPT !.count = @ + 8 * len, !.buffer = Overwrite(@, idx, data)]

Ripemd160Finalize(c) ==
  LET idx    == (c.count \div 8) % 64
      padLen == IF idx < 56 THEN 56 - idx ELSE 120 - idx
      padded == Ripemd160Update(c, <<128>> \o Zeros(padLen - 1))
      ended  == Ripemd160Update(padded, LittleEndian(c.count, 8))
  IN  Output(ended.state, 5, 4, FALSE)

RIPEMD160_hash(data) ==
  Ripemd160Finalize(Ripemd160Update([count |-> 0, state |-> Ripe.start, buffer |-> Zeros(64)], data))

\* From the coordinates of a public key, as four words of eight bytes each,
\* the lowest word first, to what an address holds.
compute_hash160(x, odd) ==
  RIPEMD160_hash(SHA256_hash(<<IF odd = 1 THEN 3 ELSE 2>> \o x[4] \o x[3] \o x[2] \o x[1]))

\* The sixteen bytes of a small key, at the end of 32.
key_to_bytes(lo, hi) == Zeros(16) \o hi \o lo

\* A digit that is none counts as zero; 16 stands for one.
hex_to_hash160(hex) ==
  LET val == [i \in DOMAIN hex |-> IF hex[i] < 16 THEN hex[i] ELSE 0]
  IN  [i \in 1 .. 20 |-> 16 * val[2 * i - 1] + val[2 * i]]

-----------------------------------------------------------------------------
(* rckangaroo_wrapper.cu: a copy of the message, padded at once.             *)
LOCAL PaddedLen(len) == ((len + 9 + 63) \div 64) * 64

cpu_sha256(data) ==
  LET len    == Len(data)
      padded == [i \in 1 .. PaddedLen(len) |->
                   IF i > PaddedLen(len) - 8 THEN ByteOf(8 * len, PaddedLen(len) - i)
                   ELSE IF i = len + 1 THEN 128 ELSE IF i <= len THEN data[i] ELSE 0]
  IN  Output(Process(Sha.start, padded, 64, 4, TRUE), 8, 4, TRUE)

cpu_ripemd160(data) ==
  LET len    == Len(data)
      padded == [i \in 1 .. PaddedLen(len) |->
                   IF i > PaddedLen(len) - 8 THEN ByteOf(8 * len, i - PaddedLen(len) + 7)
                   ELSE IF i = len + 1 THEN 128 ELSE IF i <= len THEN data[i] ELSE 0]
  IN  Output(Process(Ripe.start, padded, 64, 4, FALSE), 5, 4, FALSE)

cpu_hash160(data) == cpu_ripemd160(cpu_sha256(data))

-----------------------------------------------------------------------------
(* sha512_cpu.hpp and address_derive_cpu.hpp.                                *)
LOCAL Finish(f, data, length) ==
  LET off   == f.size * (Len(data) \div f.size)
      block == SubSeq(data, off + 1, Len(data)) \o <<128>>
      room  == f.size - f.tail
      state == Process(f.start, data, f.size, f.word, f.big)
      two   == Len(block) + f.tail > f.size
      after == IF two THEN Compress(state, Words(block \o Zeros(f.size - Len(block)), f.word, f.big))
               ELSE state
      last  == (IF two THEN Zeros(room) ELSE block \o Zeros(room - Len(block))) \o length
  IN  Output(Compress(after, Words(last, f.word, f.big)), f.words, f.word, f.big)

sha256(data) == Finish(Function.sha256, data, BigEndian(8 * Len(data), 8))
ripemd160(data) == Finish(Function.ripemd160, data, LittleEndian(8 * Len(data), 8))
sha512(data) == Finish(Function.sha512, data, Zeros(8) \o BigEndian(8 * Len(data), 8))
hash160(data) == ripemd160(sha256(data))

hmac_sha512(key, msg) ==
  LET k0 == IF Len(key) > 128 THEN sha512(key) \o Zeros(64) ELSE key \o Zeros(128 - Len(key))
  IN  sha512(XorAll(k0, 92) \o sha512(XorAll(k0, 54) \o msg))

hmac_sha256(key, msg) ==
  LET k0 == IF Len(key) > 64 THEN sha256(key) \o Zeros(32) ELSE key \o Zeros(64 - Len(key))
  IN  sha256(XorAll(k0, 92) \o sha256(XorAll(k0, 54) \o msg))

\* Block i of the output combines the iterated macs of the salt with i; of the
\* last block as much is copied as is asked for.
LOCAL Blocks(f, iterations, length, size) ==
  LET all[i \in 0 .. (length + size - 1) \div size] ==
        IF i = 0 THEN << >>
        ELSE all[i - 1] \o SubSeq(f[i, iterations][2], 1,
                             IF length - (i - 1) * size < size THEN length - (i - 1) * size ELSE size)
  IN  all[(length + size - 1) \div size]

pbkdf2_hmac_sha512(password, salt, iterations, length) ==
  LET f[i \in 1 .. 100, j \in 1 .. iterations] ==
        IF j = 1 THEN First(hmac_sha512(password, salt \o BigEndian(i, 4)))
        ELSE Combined(hmac_sha512(password, f[i, j - 1][1]), f[i, j - 1][2])
  IN  Blocks(f, iterations, length, 64)

pbkdf2_hmac_sha256(password, salt, iterations, length) ==
  LET f[i \in 1 .. 100, j \in 1 .. iterations] ==
        IF j = 1 THEN First(hmac_sha256(password, salt \o BigEndian(i, 4)))
        ELSE Combined(hmac_sha256(password, f[i, j - 1][1]), f[i, j - 1][2])
  IN  Blocks(f, iterations, length, 32)

cpu_compressed_pubkey(x, y) == <<IF y[32] % 2 = 1 THEN 3 ELSE 2>> \o x
cpu_bip86_tap_tweak(x) ==
  LET tag_hash == sha256(<<84, 97, 112, 84, 119, 101, 97, 107>>)
  IN  sha256(tag_hash \o tag_hash \o x)

\* The kinds of address.
cpu_derive_address_fingerprint(which, x, y) ==
  CASE which = "P2PKH_UNCOMPRESSED" -> hash160(<<4>> \o x \o y)
    [] which \in {"P2PKH_COMPRESSED", "P2WPKH_V0"} -> hash160(cpu_compressed_pubkey(x, y))
    [] which = "P2SH_P2WPKH" -> hash160(<<0, 20>> \o hash160(cpu_compressed_pubkey(x, y)))
    [] which = "P2TR_BIP86_TWEAK" -> cpu_bip86_tap_tweak(x)
=============================================================================
