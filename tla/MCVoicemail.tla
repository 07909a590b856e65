---------------------------- MODULE MCVoicemail ----------------------------
(* Instances of Voicemail for TLC.                                         *)
EXTENDS Voicemail
=============================================================================
