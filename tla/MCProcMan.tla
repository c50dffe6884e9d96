------------------------------- MODULE MCProcMan -------------------------------
(* Instances of ProcMan for TLC: process ids are interchangeable.           *)
EXTENDS ProcMan, TLC

Symmetry == Permutations(Pids)
=============================================================================
