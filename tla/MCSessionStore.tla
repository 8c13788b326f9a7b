--------------------------- MODULE MCSessionStore ---------------------------
(* Values for TLC: two sessions, one of them kept, clean run by one or two. *)
EXTENDS SessionStore
=============================================================================
