-------------------------- MODULE MCExecutionService --------------------------
(* Instances of ExecutionService for TLC. *)
EXTENDS ExecutionInvariants, TLC

CONSTANTS c1, c2, c3, c4, c5, k1

OneKey == [c \in Caller |-> k1]
Symmetry == Permutations(Caller)

AllFaults == FaultKind
===============================================================================
