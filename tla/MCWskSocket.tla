----------------------------- MODULE MCWskSocket -----------------------------
(* Instances of WskSocket for TLC.                                          *)
EXTENDS WskSocket, TLC
=============================================================================
