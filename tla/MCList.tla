------------------------------- MODULE MCList -------------------------------
(* An instance of List for TLC.                                            *)
EXTENDS List, TLC

Symmetry == Permutations(Nodes)
=============================================================================
