----------------------------- MODULE HashDevice -----------------------------
(***************************************************************************)
(* device_hashes.cuh: the hashes, keyed hashes and key derivations of the  *)
(* v2 kernels, and the addresses of multi_address_kernel.cu built on them. *)
(***************************************************************************)
EXTENDS Hashes

LOCAL Rest(bytes, size) == SubSeq(bytes, size * (Len(bytes) \div size) + 1, Len(bytes))

\* The end of a message: mark, zeros, and the length in the last bytes of a
\* block, which is one more block when there is no room for it.
LOCAL Finish(f, state, rest, length) ==
  LET rem  == Len(rest)
      full == rem + 1 + f.tail > f.size
      room == f.size - f.tail
      block == rest \o <<128>> \o Zeros(f.size - rem - 1)
      next == IF full THEN Compress(state, Words(block, f.word, f.big)) ELSE state
      last == (IF full THEN Zeros(room) ELSE SubSeq(block, 1, room)) \o length
  IN  Compress(next, Words(last, f.word, f.big))

LOCAL Whole(f, bytes, length) ==
  Output(Finish(f, Process(f.start, bytes, f.size, f.word, f.big), Rest(bytes, f.size), length),
         f.words, f.word, f.big)

sha256(bytes) == Whole(Function.sha256, bytes, BigEndian(8 * Len(bytes), 8))
sha512(bytes) == Whole(Function.sha512, bytes, Zeros(8) \o BigEndian(8 * Len(bytes), 8))
sha1(bytes) == Whole(Function.sha1, bytes, BigEndian(8 * Len(bytes), 8))
md5(bytes) == Whole(Function.md5, bytes, LittleEndian(8 * Len(bytes), 8))
ripemd160(bytes) == Whole(Function.ripemd160, bytes, LittleEndian(8 * Len(bytes), 8))

hash160(bytes) == ripemd160(sha256(bytes))

-----------------------------------------------------------------------------
sha512_finish_block(state, rest, bits) ==
  Finish(Function.sha512, state, rest, Zeros(8) \o BigEndian(bits, 8))

kHmacSha512MaxMsg == 256

\* The keyed block first, then the message block by block: no copy of both
\* is made, so the length counts the keyed block by hand.
hmac_sha512(key, msg) ==
  LET f     == Function.sha512
      short == IF Len(key) > 128 THEN sha512(key) ELSE key
      k0    == short \o Zeros(128 - Len(short))
      After(pad, bytes) == Process(Compress(f.start, Words(XorAll(k0, pad), 8, TRUE)), bytes, 128, 8, TRUE)
      inner == Output(sha512_finish_block(After(54, msg), Rest(msg, 128), 8 * (128 + Len(msg))), 8, 8, TRUE)
  IN  IF Len(msg) > kHmacSha512MaxMsg THEN Zeros(64)
      ELSE Output(sha512_finish_block(After(92, << >>), inner, 8 * (128 + 64)), 8, 8, TRUE)

\* One block of output; what a salt has beyond 208 bytes is left out.
pbkdf2_hmac_sha512_one_block(password, salt, iterations) ==
  LET short == IF Len(salt) > 208 THEN SubSeq(salt, 1, 208) ELSE salt
      f[i \in 1 .. iterations] ==
        IF i = 1 THEN First(hmac_sha512(password, short \o <<0, 0, 0, 1>>))
        ELSE Combined(hmac_sha512(password, f[i - 1][1]), f[i - 1][2])
  IN  f[iterations][2]

-----------------------------------------------------------------------------
(* BIP-32.  Numbers are byte strings, the highest byte first.                *)
BitcoinSeed == <<66, 105, 116, 99, 111, 105, 110, 32, 115, 101, 101, 100>>

bip32_root_key(seed) ==
  LET mac == hmac_sha512(BitcoinSeed, seed)
  IN  [key |-> SubSeq(mac, 1, 32), chain |-> SubSeq(mac, 33, 64)]

u256_add_be(a, b) ==
  LET n == Len(a)
      s[i \in 1 .. n + 1] == IF i = n + 1 THEN 0 ELSE a[i] + b[i] + (s[i + 1] \div 256)
  IN  [out |-> [i \in 1 .. n |-> s[i] % 256], overflow |-> s[1] >= 256]

u256_cmp_be(a, b) ==
  IF a = b THEN 0
  ELSE LET i == CHOOSE j \in DOMAIN a : a[j] # b[j] /\ \A l \in 1 .. j - 1 : a[l] = b[l]
       IN  IF a[i] < b[i] THEN 0 - 1 ELSE 1

u256_sub_be(a, b) ==
  LET n == Len(a)
      d[i \in 1 .. n + 1] == IF i = n + 1 THEN 0 ELSE a[i] - b[i] - (IF d[i + 1] < 0 THEN 1 ELSE 0)
  IN  [i \in 1 .. n |-> d[i] % 256]

\* A sum that overflows, or reaches the order, is brought back below it.
bip32_add_mod_n(IL, parent_key, order) ==
  LET sum == u256_add_be(IL, parent_key)
  IN  IF sum.overflow \/ u256_cmp_be(sum.out, order) >= 0 THEN u256_sub_be(sum.out, order)
      ELSE sum.out

bip32_derive_child_nonhardened(key, chain, pub, index, order) ==
  LET mac == hmac_sha512(chain, SubSeq(pub, 1, 33) \o BigEndian(index, 4))
  IN  [key |-> bip32_add_mod_n(SubSeq(mac, 1, 32), key, order), chain |-> SubSeq(mac, 33, 64)]

\* The parent's key goes into the mac but is not added to what comes out.
bip32_derive_child_hardened(key, chain, index) ==
  LET mac == hmac_sha512(chain, <<0>> \o key \o index)
  IN  [key |-> SubSeq(mac, 1, 32), chain |-> SubSeq(mac, 33, 64)]

-----------------------------------------------------------------------------
(* Addresses of a point given by its coordinates, 32 bytes each.             *)
derive_p2pkh_uncompressed(x, y) == hash160(<<4>> \o x \o y)
compressed_pubkey(x, y) == <<IF y[32] % 2 = 1 THEN 3 ELSE 2>> \o x
derive_p2pkh_compressed(x, y) == hash160(compressed_pubkey(x, y))
derive_p2wpkh_v0(x, y) == derive_p2pkh_compressed(x, y)
derive_p2sh_p2wpkh(x, y) == hash160(<<0, 20>> \o derive_p2pkh_compressed(x, y))

TapTweak == <<84, 97, 112, 84, 119, 101, 97, 107>>
bip86_tap_tweak(x) == sha256(sha256(TapTweak) \o sha256(TapTweak) \o x)
=============================================================================
