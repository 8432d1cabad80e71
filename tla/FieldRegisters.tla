--------------------------- MODULE FieldRegisters ---------------------------
(***************************************************************************)
(* The five copies of the field arithmetic side by side: a field element    *)
(* goes through additions, subtractions and products, and every copy keeps  *)
(* its own register of it.                                                   *)
(***************************************************************************)
EXTENDS FieldCpu, FieldKangaroo, FieldPuzzle, FieldSecp, FieldMetal

CONSTANTS
  Operands,   \* field elements to load and to combine
  MaxSteps    \* bound: operations after a load

ASSUME RegistersAssumption == Operands \subseteq 0 .. Prime - 1

VARIABLES
  steps,    \* operations since the load
  x,        \* the field element, as a number
  word,     \* copy -> its register of four words
  lost      \* a product of the puzzle copy has dropped a carry

fieldVars == <<steps, x, word, lost>>

Copies == {"cpu", "kangaroo", "puzzle", "secp", "metal"}

Load(n) == x = n /\ word = [c \in Copies |-> ToWords(n)] /\ steps = 0 /\ lost = FALSE

FieldStep(x2, cpu, kangaroo, puzzle, secp, metal) ==
  /\ steps < MaxSteps /\ steps' = steps + 1
  /\ x' = x2
  /\ word' = [c \in Copies |-> CASE c = "cpu" -> cpu [] c = "kangaroo" -> kangaroo
                                 [] c = "puzzle" -> puzzle [] c = "secp" -> secp
                                 [] c = "metal" -> metal]

Add(n) ==
  LET y == ToWords(n)
  IN  /\ FieldStep(FieldAdd(x, n), cpu_mod_add(word["cpu"], y),
                   kangaroo_mod_add(word["kangaroo"], y), puzzle_mod_add(word["puzzle"], y),
                   FromLimbs(secp_mod_add(ToLimbs(word["secp"]), ToLimbs(y))),
                   metal_mod_add(word["metal"], y))
      /\ UNCHANGED lost

Sub(n) ==
  LET y == ToWords(n)
  IN  /\ FieldStep(FieldSub(x, n), cpu_mod_sub(word["cpu"], y),
                   kangaroo_mod_sub(word["kangaroo"], y), puzzle_mod_sub(word["puzzle"], y),
                   FromLimbs(secp_mod_sub(ToLimbs(word["secp"]), ToLimbs(y))),
                   metal_mod_sub(word["metal"], y))
      /\ UNCHANGED lost

Mul(n) ==
  LET y == ToWords(n)
  IN  /\ FieldStep(FieldMul(x, n), cpu_mod_mul(word["cpu"], y),
                   kangaroo_mod_mul(word["kangaroo"], y), puzzle_mod_mul(word["puzzle"], y),
                   FromLimbs(secp_mod_mul(ToLimbs(word["secp"]), ToLimbs(y))),
                   metal_mod_mul(word["metal"], y))
      /\ lost' = (lost \/ ~puzzle_NothingDropped(word["puzzle"], y))

FieldInit == \E n \in Operands : Load(n)
FieldNext == \E n \in Operands : Add(n) \/ Sub(n) \/ Mul(n)
FieldSpec == FieldInit /\ [][FieldNext]_fieldVars

-----------------------------------------------------------------------------
(* The copies of the field agree with the field, except that the puzzle     *)
(* copy may have dropped a carry: no carry, borrow or comparison at a word   *)
(* boundary goes wrong, whatever the operands.                                *)
FieldAgrees ==
  /\ \A c \in Copies \ {"puzzle"} : word[c] = ToWords(x)
  /\ ~lost => word["puzzle"] = ToWords(x)
=============================================================================
