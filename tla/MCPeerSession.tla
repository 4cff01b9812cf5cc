---------------------------- MODULE MCPeerSession ---------------------------
(* The instances of PeerSession for TLC; its constants are numbers and       *)
(* strings.                                                                  *)
EXTENDS PeerSession
=============================================================================
