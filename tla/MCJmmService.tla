---------------------------- MODULE MCJmmService ----------------------------
(* An instance of JmmService for TLC: one peer sends more than the others. *)
EXTENDS JmmService, TLC

CONSTANTS Talker, Most

PeerBytes == [c \in Conns |-> IF c = Talker THEN Most ELSE 1]
=============================================================================
