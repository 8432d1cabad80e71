---------------------------- MODULE FieldPuzzle ----------------------------
(* The field arithmetic of the puzzle kernel, puzzle_optimized.cu.          *)
EXTENDS Words

\* add_cc, addc_cc: a word sum and its carry; sub_cc, subc_cc: a word
\* difference and its borrow.
puzzle_AddWords(a, b) == Carried([i \in Idx |-> a[i] + b[i]])
puzzle_SubWords(a, b) == Carried([i \in Idx |-> a[i] - b[i]])

\* The comparison with p looks for three words of ones.
puzzle_mod_add(a, b) ==
  LET s == puzzle_AddWords(a, b)
      atLeastP == /\ s.w[3] = B - 1 /\ s.w[2] = B - 1 /\ s.w[1] = B - 1
                  /\ s.w[0] >= B - C
  IN  IF s.carry # 0 \/ atLeastP THEN puzzle_SubWords(s.w, P).w ELSE s.w

puzzle_mod_sub(a, b) ==
  LET d == puzzle_SubWords(a, b)
  IN  IF d.carry # 0 THEN puzzle_AddWords(d.w, P).w ELSE d.w

\* The first fold: the high words times C onto the low ones.
puzzle_FoldOnce(prod) == MulRow(prod.low, C, prod.high)

\* The second: what was left over times C, once.  The carry that leaves the
\* top word here is dropped.
puzzle_FoldCarry(f) ==
  LET m == f.carry * C
  IN  Carried(FourWords(f.w[0] + (m % B), f.w[1] + m \div B, f.w[2], f.w[3]))

puzzle_Reduce(w) == IF Geq(w, P) THEN puzzle_SubWords(w, P).w ELSE w

puzzle_mod_mul(a, b) == puzzle_Reduce(puzzle_FoldCarry(puzzle_FoldOnce(Product(a, b))).w)

\* The products that come out right: nothing left the top word.
puzzle_NothingDropped(a, b) == puzzle_FoldCarry(puzzle_FoldOnce(Product(a, b))).carry = 0
=============================================================================
