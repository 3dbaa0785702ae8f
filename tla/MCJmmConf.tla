----------------------------- MODULE MCJmmConf ------------------------------
(* An instance of JmmConf for TLC.                                         *)
EXTENDS JmmConf, TLC

AskedKeys == <<"LOG_TERM_LEVEL", "PROC_NUM">>
=============================================================================
