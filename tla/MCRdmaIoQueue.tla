---------------------------- MODULE MCRdmaIoQueue ----------------------------
(* Instances of RdmaIoQueue for TLC.                                        *)
EXTENDS RdmaIoQueue, TLC

(* Which slot a scan meets first is left open and the I/Os differ only in   *)
(* their names, so both may be permuted.                                    *)
Symmetry == Permutations(Slots) \cup Permutations(Ios)
=============================================================================
