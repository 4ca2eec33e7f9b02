------------------------------ MODULE MCUpdate ------------------------------
(* BinaryUpdate on a small installation: three releases, two updaters.        *)
EXTENDS BinaryUpdate, TLC

CONSTANTS A, B, C, u1, u2

Symmetric == Permutations({A, B, C}) \cup Permutations({u1, u2})
=============================================================================
