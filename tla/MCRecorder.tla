----------------------------- MODULE MCRecorder -----------------------------
(* Values for TLC: connections of the agent itself and of a descendant to  *)
(* the same remote end.                                                    *)
EXTENDS Recorder

OneConn == {<<1, "a">>, <<2, "a">>}
=============================================================================
