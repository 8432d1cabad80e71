------------------------------ MODULE Digests -------------------------------
(***************************************************************************)
(* What the copies of the hashes have to return, next to one another: the  *)
(* standards of Hashes, but for four exceptions.  Each is stated, where it *)
(* applies, as what the code returns in place of the standard:             *)
(* CutBlock, Device!hmac_sha512 in MacRight, CutSalt, and the key of       *)
(* HardenedRight.                                                          *)
(***************************************************************************)
EXTENDS Hashes, FiniteSets

Kernel == INSTANCE HashKernel
Device == INSTANCE HashDevice
Cpu == INSTANCE HashCpu

Message(n) == [i \in 1 .. n |-> (37 * i + n) % 256]

\* sha256.cu:83 makes one block of any message.  Of 56 to 63 bytes it takes
\* the first 55, and the length covers the mark of the end; from 64 on it
\* writes the mark behind its block, which is undefined.
CutBlock(bytes) ==
  LET block == SubSeq(bytes, 1, 55) \o <<0>> \o BigEndian(8 * Len(bytes), 8)
  IN  Output(Compress(Function.sha256.start, Words(block, 4, TRUE)), 8, 4, TRUE)

Sha256Right(bytes) ==
  LET right == Standard(Function.sha256, bytes)
      n     == Len(bytes)
  IN  /\ Kernel!sha256_hash_long(bytes) = right
      /\ n <= 55 => Kernel!sha256_hash(bytes) = right
      /\ n \in 56 .. 63 => Kernel!sha256_hash(bytes) = CutBlock(bytes)
      /\ n = 33 => right \in {Kernel!sha256_pubkey33_kernel(bytes)}
                     \cap {Kernel!sha256_33bytes_opt(bytes)} \cap {Kernel!sha256_33bytes(bytes)}
      /\ n = 65 => Kernel!sha256_pubkey65_kernel(bytes) = right
      /\ Device!sha256(bytes) = right
      /\ Cpu!SHA256_hash(bytes) = right
      /\ Cpu!cpu_sha256(bytes) = right
      /\ Cpu!sha256(bytes) = right

Ripemd160Right(bytes) ==
  LET right == Standard(Function.ripemd160, bytes)
  IN  /\ Len(bytes) = 32 => right \in {Kernel!ripemd160_hash(bytes)}
           \cap {Kernel!ripemd160_32bytes_opt(bytes)} \cap {Kernel!ripemd160_32bytes(bytes)}
      /\ Device!ripemd160(bytes) = right
      /\ Cpu!RIPEMD160_hash(bytes) = right
      /\ Cpu!cpu_ripemd160(bytes) = right
      /\ Cpu!ripemd160(bytes) = right

OthersRight(bytes) ==
  /\ Device!sha1(bytes) = Standard(Function.sha1, bytes)
  /\ Device!md5(bytes) = Standard(Function.md5, bytes)
  /\ Device!sha512(bytes) = Standard(Function.sha512, bytes)
  /\ Cpu!sha512(bytes) = Standard(Function.sha512, bytes)

\* A batch of messages that lie in one buffer, hashed by more threads than
\* there are messages.
BatchRight(bytes) ==
  LET n == Len(bytes)
      out == Kernel!sha256_batch(bytes, <<0, n \div 3, n \div 2>>, <<n \div 3, 0, n \div 4>>, 2)
  IN  n <= 150 =>
        /\ out[1] = Standard(Function.sha256, SubSeq(bytes, 1, n \div 3))
        /\ out[2] = Standard(Function.sha256, << >>)
        /\ out[3] = Standard(Function.sha256, SubSeq(bytes, (n \div 2) + 1, (n \div 2) + (n \div 4)))
        /\ out[4] = << >>

\* A mac of the message under keys that fill a block, or not, or are hashed.
\* The kernels have zeros for a message of more than 256 bytes.
MacRight(key, bytes) ==
  /\ Cpu!hmac_sha256(key, bytes) = StandardHmac(Function.sha256, key, bytes)
  /\ Cpu!hmac_sha512(key, bytes) = StandardHmac(Function.sha512, key, bytes)
  /\ Device!hmac_sha512(key, bytes)
       = IF Len(bytes) <= 256 THEN StandardHmac(Function.sha512, key, bytes) ELSE Zeros(64)

\* The kernels take no more of a salt than 208 bytes.
CutSalt(salt) == SubSeq(salt, 1, IF Len(salt) > 208 THEN 208 ELSE Len(salt))

KeyRight(password, salt) ==
  LET right == StandardPbkdf2(Function.sha512, password, salt, 3, 100)
  IN  /\ Cpu!pbkdf2_hmac_sha512(password, salt, 3, 100) = right
      /\ Cpu!pbkdf2_hmac_sha256(password, salt, 3, 64)
           = StandardPbkdf2(Function.sha256, password, salt, 3, 64)
      /\ Device!pbkdf2_hmac_sha512_one_block(password, salt, 3)
           = StandardPbkdf2(Function.sha512, password, CutSalt(salt), 3, 64)

-----------------------------------------------------------------------------
(* Addresses: every way from a public key to the hash an address holds.      *)
AddressRight(x, y) ==
  LET key == <<2 + (y[32] % 2)>> \o x
      limb == [i \in 1 .. 4 |-> SubSeq(x, 33 - 8 * i, 40 - 8 * i)]
      witness == <<0, 20>> \o Hash160(key)
      tag == Standard(Function.sha256, Device!TapTweak)
  IN  /\ Kernel!compress_pubkey(limb, y[32] % 2) = key
      /\ LET h == Hash160(key)
             digits == [i \in 1 .. 40 |-> IF i % 2 = 1 THEN h[(i + 1) \div 2] \div 16 ELSE h[i \div 2] % 16]
         IN  Cpu!hex_to_hash160(digits) = h
      /\ Cpu!key_to_bytes(limb[1], limb[2]) = Zeros(16) \o SubSeq(x, 17, 32)
      /\ \A hash \in {Kernel!Hash160Opt(key), Kernel!Hash160Metal(key), Kernel!Hash160Batch(key),
                      Cpu!cpu_hash160(key), Cpu!compute_hash160(limb, y[32] % 2),
                      Device!derive_p2pkh_compressed(x, y), Device!derive_p2wpkh_v0(x, y),
                      Cpu!cpu_derive_address_fingerprint("P2PKH_COMPRESSED", x, y)} :
           hash = Hash160(key)
      /\ \A hash \in {Device!derive_p2pkh_uncompressed(x, y),
                      Cpu!cpu_derive_address_fingerprint("P2PKH_UNCOMPRESSED", x, y)} :
           hash = Hash160(<<4>> \o x \o y)
      /\ \A hash \in {Device!derive_p2sh_p2wpkh(x, y),
                      Cpu!cpu_derive_address_fingerprint("P2SH_P2WPKH", x, y)} :
           hash = Hash160(witness)
      /\ \A hash \in {Device!bip86_tap_tweak(x),
                      Cpu!cpu_derive_address_fingerprint("P2TR_BIP86_TWEAK", x, y)} :
           hash = Standard(Function.sha256, tag \o tag \o x)

\* The child keys of BIP-32 that are not hardened: the sum modulo the order,
\* whatever overflows, and the mac of the parent's point and the index.
Num(bytes) == LET f[i \in 0 .. Len(bytes)] == IF i = 0 THEN 0 ELSE 256 * f[i - 1] + bytes[i] IN f[Len(bytes)]

LargeOrder == [i \in 1 .. 32 |-> IF i = 16 THEN 254 ELSE 255]

NonhardenedRight(root, pub, index) ==
  \A mac \in {StandardHmac(Function.sha512, root.chain, pub \o BigEndian(index, 4))},
     child \in {Device!bip32_derive_child_nonhardened(root.key, root.chain, pub, index, LargeOrder)} :
    /\ child.chain = SubSeq(mac, 33, 64)
    /\ Device!u256_cmp_be(child.key, LargeOrder) < 0
    /\ \A sum \in {Device!u256_add_be(SubSeq(mac, 1, 32), root.key).out} :
         child.key \in {sum, Device!u256_sub_be(sum, LargeOrder)}

\* The chain code of a hardened child is the one of BIP-32.  Its key is not:
\* it is the first half of the mac, to which BIP-32 adds the parent's key
\* modulo the order and device_hashes.cuh:837 adds nothing.
HardenedRight(root, index) ==
  \A mac \in {StandardHmac(Function.sha512, root.chain, <<0>> \o root.key \o index)},
     child \in {Device!bip32_derive_child_hardened(root.key, root.chain, index)} :
    /\ child.chain = SubSeq(mac, 33, 64)
    /\ child.key = SubSeq(mac, 1, 32)

ChildRight(edges, order) ==
  /\ \A a, b \in {<<h, l>> : h, l \in edges} :
       Num(a) < Num(order) /\ Num(b) < Num(order) =>
         Num(Device!bip32_add_mod_n(a, b, order)) = (Num(a) + Num(b)) % Num(order)
  /\ \A root \in {Device!bip32_root_key(Message(64))} :
       /\ root.key \o root.chain = StandardHmac(Function.sha512, Device!BitcoinSeed, Message(64))
       /\ NonhardenedRight(root, <<2>> \o Message(32), 7)
       /\ HardenedRight(root, <<128, 0, 0, 7>>)

\* All of it for a message of n bytes.
AllRight(n) ==
  LET bytes == Message(n)
  IN  /\ Sha256Right(bytes) /\ Ripemd160Right(bytes) /\ OthersRight(bytes) /\ BatchRight(bytes)
      /\ \A k \in {12, 64, 65, 128, 129} : MacRight(Message(k), bytes)
      /\ KeyRight(Message(20), bytes)
      /\ n = 0 => ChildRight({0, 1, 64, 65, 66, 255}, <<255, 65>>)
      /\ n \in {32, 33} => AddressRight(Message(32), [Message(32) EXCEPT ![32] = n])
=============================================================================
