---------------------------- MODULE MCEventQueue ----------------------------
(* EventQueue for TLC: two producers, so that two threads compete with     *)
(* update() for the lock, and two packets that can be told apart.  Four    *)
(* posts fill both deques and reach across several swaps.                  *)
EXTENDS EventQueue
=============================================================================
