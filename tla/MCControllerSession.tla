------------------------ MODULE MCControllerSession ------------------------
(* Instances of ControllerSession for TLC: one controller with commands, or *)
(* one with I/O queues beside one that is only connected and given up.      *)
EXTENDS ControllerSession, TLC
CONSTANTS c1, c2

MCUses == {c1 :> "commands" @@ c2 :> "none", c1 :> "queues" @@ c2 :> "connection"}
=============================================================================
