-------------------------- MODULE MCSignalingClient -------------------------
(* The instance of SignalingClient for TLC; its constants are numbers.      *)
EXTENDS SignalingClient
=============================================================================
