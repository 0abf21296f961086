--------------------------- MODULE MCVoiceSender ----------------------------
(***************************************************************************)
(* Instances of VoiceSender for TLC.                                       *)
(***************************************************************************)
EXTENDS VoiceSender
=============================================================================
