---------------------------- MODULE MCRoomEntry ----------------------------
(* Instances of RoomEntry for TLC.                                         *)
EXTENDS RoomEntry, TLC

CONSTANTS A, B, r1, r2
=============================================================================
