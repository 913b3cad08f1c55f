-------------------------- MODULE MCTaskExecution --------------------------
(* TaskExecution on small instances; worker slots are interchangeable. *)
EXTENDS TaskExecution, TLC

Symmetry == Permutations(Workers)
=============================================================================
