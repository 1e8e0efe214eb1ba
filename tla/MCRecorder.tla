----------------------------- MODULE MCRecorder -----------------------------
(***************************************************************************)
(* Recorder on a small instance: a ring of two or three frames, one or two *)
(* sessions of a few frames.                                               *)
(***************************************************************************)
EXTENDS RecorderInv
=============================================================================
