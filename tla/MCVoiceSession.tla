--------------------------- MODULE MCVoiceSession ---------------------------
(* TLC instance of VoiceSession: small bounds for turns and audio chunks.   *)
EXTENDS VoiceSession
=============================================================================
