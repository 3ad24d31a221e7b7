---------------------------- MODULE MCAdminQueue ----------------------------
(* Instances of AdminQueue for TLC.                                         *)
EXTENDS AdminQueue, TLC

(* Callers differ only in their names, and so do event requests.            *)
Symmetry == Permutations(Calls) \cup Permutations(Events)
=============================================================================
