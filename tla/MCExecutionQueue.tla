-------------------------- MODULE MCExecutionQueue --------------------------
(* Small instances of ExecutionQueue for TLC. *)
EXTENDS ExecutionQueue, TLC
Three == 1..3
Two == 1..2
\* Users and runners are compared for equality only.
Symmetry == Permutations(User) \union Permutations(Runner)
=============================================================================
