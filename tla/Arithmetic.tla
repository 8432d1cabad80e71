----------------------------- MODULE Arithmetic -----------------------------
(***************************************************************************)
(* The five copies of the field and point arithmetic, driven side by side: *)
(* the field registers of FieldRegisters, or a point that goes through      *)
(* doublings and mixed additions in a register of every copy, or the hash   *)
(* of a message.  What the points have to be is the group law of Curve.      *)
(***************************************************************************)
EXTENDS FieldRegisters, Sequences

CONSTANTS
  FieldSize, Order, Gx, Gy,                  \* the small curve (Curve)
  Bits, WindowSize, NumWindows,              \* CurveCpu, CurveSecp, CurveMetal
  Beta, A1, B1, A2, G1, G2, Shift, Width, WindowBits, MaxWindow, KeysPerThread,
  Addends,                                   \* multiples of G to add
  Lengths                                    \* of messages to hash

E == INSTANCE Curve
Cpu == INSTANCE CurveCpu
Kangaroo == INSTANCE CurveKangaroo
Puzzle == INSTANCE CurvePuzzle
Secp == INSTANCE CurveSecp
Metal == INSTANCE CurveMetal

Exponent == INSTANCE Inverse
Hash == INSTANCE Digests

VARIABLES
  unit,     \* what is exercised: "field", "point", "inverse" or "digest"
  k,        \* the point, as a multiple of G
  point,    \* copy -> its register, a Jacobian point
  length    \* of the message

vars == <<unit, fieldVars, k, point, length>>

NoPoints == [c \in Copies |-> E!Jacobian(0, 0, 0)]
Idle     == steps = 0 /\ x = 0 /\ word = [c \in Copies |-> Zero] /\ lost = FALSE

-----------------------------------------------------------------------------
\* A point comes out of a table or a file in affine form; 0 is where every
\* multiplication starts.
LoadPoint(m) ==
  /\ k = m
  /\ point = [c \in Copies |->
       IF m = 0 THEN (IF c \in {"kangaroo", "metal"} THEN Kangaroo!Infinity ELSE Cpu!Infinity)
       ELSE E!Jacobian(E!Multiple[m].x, E!Multiple[m].y, 1)]

Init ==
  \/ unit = "field" /\ FieldInit /\ k = 0 /\ point = NoPoints /\ length = 0
  \/ unit = "point" /\ (\E m \in E!Scalar : LoadPoint(m)) /\ Idle /\ length = 0
  \/ unit = "inverse" /\ Idle /\ k = 0 /\ point = NoPoints /\ length = 0
  \/ unit = "digest" /\ length \in Lengths /\ Idle /\ k = 0 /\ point = NoPoints

FieldSteps == unit = "field" /\ FieldNext /\ UNCHANGED <<unit, k, point, length>>

PointStep(k2, cpu, kangaroo, puzzle, secp, metal) ==
  /\ unit = "point" /\ steps < MaxSteps /\ steps' = steps + 1
  /\ k' = k2 % Order
  /\ point' = [c \in Copies |-> CASE c = "cpu" -> cpu [] c = "kangaroo" -> kangaroo
                                  [] c = "puzzle" -> puzzle [] c = "secp" -> secp
                                 [] c = "metal" -> metal]
  /\ UNCHANGED <<unit, x, word, lost, length>>

Double ==
  PointStep(2 * k, Cpu!ec_double(point["cpu"]), Kangaroo!ec_double_jacobian(point["kangaroo"]),
            Puzzle!ec_double(point["puzzle"]), Secp!ec_double_jacobian(point["secp"]),
            Metal!jac_double(point["metal"]))

\* The addend is affine, and never infinity: tables are read at 1 and up.
AddPoint(m) ==
  LET q == E!Multiple[m]
  IN  PointStep(k + m, Cpu!ec_add(point["cpu"], q), Kangaroo!ec_add_mixed(point["kangaroo"], q),
                Puzzle!ec_add_mixed(point["puzzle"], q), Secp!ec_add_mixed(point["secp"], q),
                Metal!jac_add_mixed(point["metal"], q))

Next ==
  \/ FieldSteps
  \/ Double
  \/ \E m \in (Addends \cup {k, Order - k}) \cap 1 .. Order - 1 : AddPoint(m)

Spec == Init /\ [][Next]_vars

-----------------------------------------------------------------------------
(* At the real size, the chains of the inversions raise to p - 2 and the      *)
(* square root to (p + 1) / 4.                                                *)
InversesAgree ==
  unit = "inverse" =>
    /\ Exponent!PIsRight /\ Exponent!SqrtIsRight
    /\ \A chain \in {Exponent!kangaroo_mod_inv, Exponent!puzzle_mod_inv, Exponent!secp_mod_inv,
                     Exponent!metal_mod_inv} :
         Exponent!InvIsRight(chain)

(* The points of all copies are the same multiple of G, with whatever Z,     *)
(* through doubling, infinity, equal points and opposite points; and their   *)
(* conversions to affine coordinates say so.                                  *)
PointsAgree ==
  unit = "point" =>
    LET p == E!Multiple[k]
    IN  /\ Cpu!ec_to_affine(point["cpu"]) = p
        /\ Kangaroo!ec_to_affine(point["kangaroo"]) = p
        /\ E!ToAffine(point["puzzle"]) = p
        /\ Secp!jacobian_to_affine(point["secp"]) = p
        /\ E!ToAffine(point["metal"]) = p

(* Every way to multiply G gives the same point: double and add, the table   *)
(* of windows, and the two halves along the endomorphism, whose bits the     *)
(* windows must all cover; and the full addition adds two of them up.         *)
MultiplesAgree ==
  unit = "point" /\ steps = 0 =>
    LET p == E!Multiple[k]
    IN  /\ Cpu!ec_to_affine(Cpu!ec_mul(k)) = p
        /\ Secp!ec_mul_simple(k) = p
        /\ Secp!ec_mul_windowed(k) = p
        /\ E!ToAffine(Metal!scalar_mul_g(k)) = p
        /\ Metal!priv_to_pub(k) = p
        /\ E!ToAffine(Puzzle!ec_mul_glv(k)) = p
        /\ \A m \in Addends \cup {k, Order - k} :
             E!ToAffine(Puzzle!ec_add_full(Puzzle!ec_mul_glv(k), Puzzle!ec_mul_glv(m % Order)))
               = E!Multiple[(k + m) % Order]

(* Every copy of a hash, of a keyed hash, of a derived key and of an address  *)
(* returns what the standard says, whatever the length of the message does to  *)
(* the last block, with four exceptions, for which the property says what the  *)
(* code returns instead: the hash of sha256.cu:83 for more than 55 bytes, the  *)
(* mac of the kernels for more than 256 bytes (device_hashes.cuh:350, zeros),  *)
(* their PBKDF2 for a salt of more than 208 (:702, cut), and the key of a      *)
(* hardened child of BIP-32 (:837, the parent's key is not added).  Of         *)
(* sha256.cu it says nothing from 64 bytes on, where the block is overrun.     *)
DigestsAgree == unit = "digest" => Hash!AllRight(length)

\* The registers and multiples that share an inversion: different Z, infinity
\* at any place.
Batch == <<point["secp"], Secp!ec_double_jacobian(point["secp"]), E!Jacobian(Gx, Gy, 1)>>
Multiples == <<k, (2 * k) % Order, 1>>

(* Points that share one inversion all come out right, unless one of them is *)
(* infinity: then each of them comes out as (0, 0), but only that one in the  *)
(* Metal copy.                                                                *)
BatchesAgree ==
  unit = "point" =>
    LET right == [i \in 1 .. 3 |-> E!Multiple[Multiples[i]]]
        wrong == [i \in 1 .. 3 |-> E!O]
        want  == IF \E i \in 1 .. 3 : E!IsInfinity(Batch[i]) THEN wrong ELSE right
    IN  /\ Secp!parallel_batch_jacobian_to_affine(Batch) = want
        /\ Kangaroo!warp_batch_jacobian_to_affine(Batch) = want
        /\ Metal!tg_batch_jac_to_affine(Batch) = right

(* A public key given in compressed form is the point it came from, and an x  *)
(* without a point is refused; and a thread that searches consecutive keys    *)
(* for a public key reports the key exactly when it is one of its keys, and so  *)
(* does a Metal dispatch.                                                       *)
TargetFound ==
  unit = "point" /\ steps = 0 =>
    LET p == E!Multiple[k]
    IN  /\ k # 0 => Cpu!decompress_pubkey(p.y % 2, p.x) = p
        /\ (\A m \in E!Scalar : E!Multiple[m].x # k % FieldSize) =>
             \A odd \in {0, 1} : Cpu!decompress_pubkey(odd, k % FieldSize) = Cpu!NoPoint
        /\ \A start \in {s \in {1} \cup (k - KeysPerThread .. k + 1) :
                           s > 0 /\ s + KeysPerThread <= Order} :
             /\ Puzzle!search_strided(start, KeysPerThread, p)
                  = {k} \cap (start .. start + KeysPerThread - 1)
             /\ k # 0 => Metal!puzzle_search(start, KeysPerThread, p)
                           = {k} \cap (start .. start + KeysPerThread - 1)

(* What the copies compute of points is what the group says: sums, multiples, *)
(* inversions, shared ones too, and the search built on them.                 *)
CurvesAgree == PointsAgree /\ MultiplesAgree /\ InversesAgree /\ BatchesAgree /\ TargetFound
=============================================================================
