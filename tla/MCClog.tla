------------------------------- MODULE MCClog -------------------------------
(* An instance of Clog for TLC.                                            *)
EXTENDS Clog, TLC

(* What jmm_sock_event_wf_cb logs: an error with its number, which the     *)
(* console takes too, and the end of a connection.                         *)
CallbackMessages == {Message(400, TRUE), Message(200, FALSE)}

(* One such message in the control process.                                *)
CallbacksOf == [p \in Workers \cup {Ctrl} |-> IF p = Ctrl THEN 1 ELSE 0]

(* The control process and one worker meet the failures, malloc's in the   *)
(* worker, which has a stream to keep; the other worker meets none.        *)
CONSTANTS w1, w2
FaultsOfEach ==
  (Ctrl :> FaultKinds \ {"malloc"}) @@ (w1 :> FaultKinds) @@ (w2 :> {})
=============================================================================
