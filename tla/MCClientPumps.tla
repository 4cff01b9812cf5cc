---------------------------- MODULE MCClientPumps ----------------------------
(* Instances of ClientPumps for TLC: messages are numbered, so that the      *)
(* bounds of the configurations are all it takes.                            *)
EXTENDS ClientPumps
=============================================================================
