----------------------------- MODULE MCShutdown -----------------------------
(* Values for TLC: the child, one descendant, a clock of one or two ticks a wait. *)
EXTENDS GracefulShutdown
=============================================================================
