---------------------------- MODULE MCVoiceCodec ----------------------------
(***************************************************************************)
(* VoiceCodec with a few cancellers and detectors to create.               *)
(***************************************************************************)
EXTENDS VoiceCodecInv
=============================================================================
