--------------------------- MODULE MCJitterBuffer ---------------------------
(***************************************************************************)
(* JitterBuffer on a small instance.  The order of the thresholds is that  *)
(* of the code: rewind < recovery < speed-up < drop < capacity.            *)
(***************************************************************************)
EXTENDS JitterBufferInv

MCCatchUp == <<2, 2, 2, 3>>
=============================================================================
