--------------------------- MODULE MCVoiceRecorder ---------------------------
(* Instances of VoiceRecorder for TLC: recorders are numbered, so that the  *)
(* bounds of the configurations are all it takes.                           *)
EXTENDS VoiceRecorder
=============================================================================
