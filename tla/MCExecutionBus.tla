--------------------------- MODULE MCExecutionBus ---------------------------
(* Small instances of ExecutionBus for TLC. *)
EXTENDS ExecutionBusInv, TLC

Symmetry == Permutations(Workers)
=============================================================================
