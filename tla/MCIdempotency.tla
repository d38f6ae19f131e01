--------------------------- MODULE MCIdempotency ---------------------------
(***************************************************************************)
(* Instances of Idempotency for TLC.                                       *)
(***************************************************************************)
EXTENDS Idempotency, TLC

CONSTANTS c1, c2, c3, f1

OneRequest == [c \in Calls |-> f1]
Symmetry == Permutations(Calls)
=============================================================================
