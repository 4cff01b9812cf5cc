--------------------------- MODULE MCRoomRegistry ---------------------------
(* The instance of RoomRegistry for TLC; ids, codes and requests are model   *)
(* values.                                                                   *)
EXTENDS RoomRegistry
=============================================================================
