----------------------------- MODULE MCNdkSocket -----------------------------
(* Instances of NdkSocket for TLC.                                          *)
EXTENDS NdkSocket, TLC

(* The pairs of the I/O queues differ only in their names.                  *)
Symmetry == Permutations(Pairs \ {Admin})
=============================================================================
