----------------------------- MODULE MCTransfer -----------------------------
(* Instances of Transfer for TLC; streams are model values.               *)
EXTENDS Transfer
=============================================================================
