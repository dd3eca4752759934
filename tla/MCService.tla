----------------------------- MODULE MCService ------------------------------
(* Service for TLC.  Two sessions let one open while the close of another  *)
(* is handled; a behaviour can log for ever.                               *)
EXTENDS Service
=============================================================================
