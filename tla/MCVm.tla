-------------------------------- MODULE MCVm ---------------------------------
(* Few identifiers, so that they roll over; few frames, so that copying can   *)
(* fail.                                                                      *)
EXTENDS Vm, TLC

CONSTANTS t1, t2, t3, f1, f2

Interchangeable == Permutations(Frame) \cup Permutations(Task \ {Boot})
=============================================================================
