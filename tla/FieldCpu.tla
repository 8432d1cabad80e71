----------------------------- MODULE FieldCpu ------------------------------
(* The field arithmetic of the CPU solver, crypto_cpu.hpp.                  *)
EXTENDS Words

cpu_add256(a, b) == Carried([i \in Idx |-> a[i] + b[i]])
cpu_sub256(a, b) == Carried([i \in Idx |-> a[i] - b[i]])

\* Mutant: the carry out of the top word is forgotten.
cpu_mod_add_NoCarry(a, b) ==
  LET s == cpu_add256(a, b) IN IF Geq(s.w, P) THEN cpu_sub256(s.w, P).w ELSE s.w

cpu_mod_add(a, b) ==
  LET s == cpu_add256(a, b)
  IN  IF s.carry # 0 \/ Geq(s.w, P) THEN cpu_sub256(s.w, P).w ELSE s.w

cpu_mod_sub(a, b) ==
  LET d == cpu_sub256(a, b)
  IN  IF d.carry # 0 THEN cpu_add256(d.w, P).w ELSE d.w

\* mod_p: subtract p while a >= p, which is at most once for 256 bits.
cpu_mod_p(a) == IF Geq(a, P) THEN cpu_sub256(a, P).w ELSE a

\* A round of the reduction: the high words times C onto the low ones; what
\* is left over becomes the only high word.  There is none to do when the
\* high words are 0.
cpu_Fold(prod) ==
  LET r == MulRow(prod.low, C, prod.high)
  IN  IF prod.high = Zero THEN prod
      ELSE [low |-> r.w, high |-> FourWords(r.carry, 0, 0, 0)]

cpu_mod_mul(a, b) == cpu_mod_p(cpu_Fold(cpu_Fold(cpu_Fold(Product(a, b)))).low)
=============================================================================
