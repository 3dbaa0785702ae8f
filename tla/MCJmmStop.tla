----------------------------- MODULE MCJmmStop ------------------------------
(* An instance of JmmStop for TLC.                                         *)
EXTENDS JmmStop, TLC
=============================================================================
