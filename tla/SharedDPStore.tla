--------------------------- MODULE SharedDPStore ---------------------------
(***************************************************************************)
(* What a kangaroo pool promises its workers, without connections, tables  *)
(* or transactions: workers deposit distinguished points in one store and  *)
(* are credited for every record of a deposit at the moment it is stored;  *)
(* a tame and a wild point that coincide, whoever deposited them, solve    *)
(* the puzzle if nothing was deposited at the opposite point, which has    *)
(* the same x; and nothing but two points of one x or the key itself does. *)
(***************************************************************************)
EXTENDS Integers, Sequences

CONSTANTS
  Workers,      \* worker names
  DPs,          \* distinguished points
  Point(_),     \* the curve point of a DP
  X(_),         \* its x coordinate, by which the pool compares DPs
  Deposits,     \* the batches of DPs a worker may deposit at once
  Brought       \* whether a worker may find the key on its own

VARIABLES
  store,        \* the set of DPs deposited
  credit,       \* credit[w]: how many records w deposited
  solved        \* whether the key is known to the pool

storeVars == <<store, credit, solved>>

(* Two kangaroos of different types with one x; a tame and a wild one at one *)
(* point, and nobody at the opposite one.                                    *)
Meeting   == \E s, t \in store : X(s) = X(t) /\ s.type # t.type
Collision ==
  \E s, t \in store :
    /\ Point(s) = Point(t) /\ s.type = 0 /\ t.type # 0
    /\ \A u \in store : X(u) = X(s) => Point(u) = Point(s)

Init == store = {} /\ credit = [w \in Workers |-> 0] /\ solved = FALSE

Deposit(w, b) ==
  /\ store' = store \cup {b[i] : i \in DOMAIN b}
  /\ credit' = [credit EXCEPT ![w] = @ + Len(b)]
  /\ UNCHANGED solved

(* The pool learns the key from two kangaroos that met. *)
Discover ==
  /\ Meeting /\ ~solved
  /\ solved' = TRUE
  /\ UNCHANGED <<store, credit>>

(* A worker that solved the puzzle on its own brings the key. *)
Bring == Brought /\ ~solved /\ solved' = TRUE /\ UNCHANGED <<store, credit>>

Next ==
  \/ \E w \in Workers, b \in Deposits : Deposit(w, b)
  \/ Discover
  \/ Bring

Spec == Init /\ [][Next]_storeVars

(* The pool does not sit on a tame and a wild kangaroo that met. *)
LiveSpec == Spec /\ WF_storeVars(Collision /\ Discover)

(* A solved puzzle stays solved, and credit is never taken back. *)
Kept == [][/\ solved => solved'
           /\ store \subseteq store'
           /\ \A w \in Workers : credit[w] <= credit'[w]]_storeVars
=============================================================================
