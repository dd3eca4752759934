----------------------------- MODULE MCDigests ------------------------------
(* Digests for TLC.  A word has 12 bits, so that both counters run over in  *)
(* a message of 530 bytes; each byte of it is known by its place.           *)
EXTENDS Digests

MCByte == 0..1000
MCMessage == [i \in 1..530 |-> 200 + i]
=============================================================================
