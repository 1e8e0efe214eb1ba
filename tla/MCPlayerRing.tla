---------------------------- MODULE MCPlayerRing ----------------------------
(***************************************************************************)
(* PlayerRing with a ring of a few short frames.                           *)
(***************************************************************************)
EXTENDS PlayerRingInv
=============================================================================
