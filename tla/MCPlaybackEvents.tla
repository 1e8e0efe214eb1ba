--------------------------- MODULE MCPlaybackEvents ---------------------------
(***************************************************************************)
(* PlaybackEvents with gaps of a few frames.                               *)
(***************************************************************************)
EXTENDS PlaybackEventsInv
=============================================================================
