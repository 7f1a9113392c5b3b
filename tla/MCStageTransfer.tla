--------------------------- MODULE MCStageTransfer ---------------------------
(* Instances of StageTransfer for TLC. *)
EXTENDS StageTransfer, TLC

CONSTANTS e1, e2, w1, w2

Symmetric == Permutations({e1, e2}) \cup Permutations({w1, w2})
=============================================================================
