-------------------------- MODULE MCLockFreeQueue --------------------------
(* LockFreeQueue for TLC.  Threads of one kind are interchangeable, and so *)
(* are the values: nothing in the specification or in the safety           *)
(* properties tells them apart.                                            *)
EXTENDS LockFreeQueue, TLC

ThreadSymmetry == Permutations(Producers) \cup Permutations(Consumers)

ThreadAndValueSymmetry == ThreadSymmetry \cup Permutations(Value)
=============================================================================
