---------------------------- MODULE PlayerRingInv ----------------------------
(***************************************************************************)
(* The inductive invariant of PlayerRing.                                  *)
(***************************************************************************)
EXTENDS PlayerRing

\* The player goes by whole frames.
Aligned ==
  /\ \E k \in 0..write : write = k * SPF
  /\ write =< MaxFrames * SPF

\* What was queued stays in the ring until the decoder comes round again: it
\* writes less than two frames past `write`.
Remembered ==
  \A p \in Stream :
    p < Handed /\ p + Size >= write + 2 * SPF => ring[p % Size] = heard[p]

\* What is decoded ahead is there, but for the spill and what the decoder missed.
DecodedAhead ==
  \A p \in Handed..(pending - 1) :
    p % Size >= SPF /\ p \notin missed => ring[p % Size].pos = p

\* A frame being shaped is one that has been published.
Published == player \in {"published", "shaped"} => write >= SPF

\* What the encoder has loaded, against what it is now.
Loaded ==
  /\ recWrite =< recRead + MaxLag * SPF
  /\ enc # "test" => recRead + SPF =< recWrite
  /\ seenRec # None => recRead + SPF =< seenRec /\ seenRec =< recRead + MaxLag * SPF
  /\ seenPlay # None => seenPlay =< write /\ write =< seenPlay + late * SPF
  /\ enc = "test" => seenRec = None /\ seenPlay = None
  /\ enc = "encode" => seenRec # None /\ seenPlay # None
  /\ enc = "encode" => offset \in Offsets /\ read = recRead - RecPlayOffset(offset)
  /\ enc = "encode" => sure # None /\ seenPlay =< sure + SPF /\ sure =< Handed

\* The part of the reference over the end of the ring has been copied there.
SpillCopied ==
  enc = "encode" /\ read >= 0 =>
    \A i \in 0..(SPF - 1) :
      posPlay + i >= Size /\ read + i < sure => ring[posPlay + i] = heard[read + i]

\* The inductive invariant: the counts keep the three users of the ring apart.
RingInv ==
  /\ TypeOK
  /\ Aligned
  /\ Published
  /\ Remembered
  /\ DecodedAhead
  /\ OnlyLapHeadStale
  /\ Loaded
  /\ SpillCopied
=============================================================================
