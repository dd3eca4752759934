------------------------- MODULE MCSessionLifecycle -------------------------
(* SessionLifecycle for TLC.  Three connections are enough for one session *)
(* to be accepted, one to be closed and one to be deleted at the same      *)
(* time, and for a batch to hold events of several sessions.               *)
EXTENDS SessionLifecycle
=============================================================================
