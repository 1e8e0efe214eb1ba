------------------------------ MODULE MCSignal ------------------------------
(***************************************************************************)
(* Signal with a few threads, each free to wait, with or without a time    *)
(* limit, and to notify.                                                   *)
(***************************************************************************)
EXTENDS Signal
=============================================================================
