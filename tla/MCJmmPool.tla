----------------------------- MODULE MCJmmPool ------------------------------
(* Instances of JmmPool for TLC.                                           *)
EXTENDS JmmPool, TLC

(* Connections are interchangeable: no constant or property tells them     *)
(* apart.  Used in the runs without liveness properties.                   *)
ConnSymmetry == Permutations(Conns)
=============================================================================
