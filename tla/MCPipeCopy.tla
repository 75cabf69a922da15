----------------------------- MODULE MCPipeCopy -----------------------------
(***************************************************************************)
(* Model checking of PipeCopy: the nodes are interchangeable.              *)
(***************************************************************************)
EXTENDS PipeCopy, TLC

Symmetry == Permutations(Receivers) \cup Permutations(Data)
=============================================================================
