-------------------------- MODULE MCLatencyMeasurer --------------------------
(***************************************************************************)
(* LatencyMeasurer with a second of a few short frames.                    *)
(***************************************************************************)
EXTENDS LatencyMeasurerInv
=============================================================================
