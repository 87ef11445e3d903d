------------------------------ MODULE MCPackage -------------------------------
(* Package for TLC: one process whose texts are longer than the others'.     *)
EXTENDS Package, TLC

CONSTANT Verbose
Symmetry == Permutations(Proc \ {Verbose})
Lengths == [p \in Proc |-> IF p = Verbose THEN 2 ELSE 1]
=============================================================================
