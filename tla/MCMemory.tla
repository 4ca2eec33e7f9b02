------------------------------ MODULE MCMemory ------------------------------
(* Instances of MemoryTransaction for TLC. *)
EXTENDS MemoryTransaction, TLC

\* Ids are random and contents only compared for equality: both are symmetric.
Symmetric == Permutations(Ids) \cup Permutations(Values)
=============================================================================
