----------------------------- MODULE MCJmmLife ------------------------------
(* Instances of JmmLife for TLC.                                           *)
EXTENDS JmmLife, TLC

(* The starts are interchangeable: used without liveness properties.       *)
RunSymmetry == Permutations(Runs)
=============================================================================
