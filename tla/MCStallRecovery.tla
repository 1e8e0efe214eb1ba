--------------------------- MODULE MCStallRecovery ---------------------------
(***************************************************************************)
(* StallRecovery with low limits, over a restart.                          *)
(***************************************************************************)
EXTENDS StallRecoveryInv
=============================================================================
