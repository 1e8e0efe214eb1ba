---------------------------- MODULE PlayoutQueue ----------------------------
(***************************************************************************)
(* What the listener is promised of the queue between the network and the  *)
(* loudspeaker: a voice frame that is decoded is one that has arrived, it  *)
(* is recent, it stays what it is until the codec is done with it, and     *)
(* voice is heard once and in order of arrival.  Frames may be left out    *)
(* (they are silent, or there were too many).                              *)
(*                                                                         *)
(* The one exception is a step back: frames already given up are played    *)
(* after all, possibly before others that were heard.                      *)
(***************************************************************************)
EXTENDS Integers

CONSTANT Depth   \* how many arrivals old a frame may be when it is heard

VARIABLES
  arrived,    \* frames that have arrived; they are numbered from 0
  decoding,   \* the voice frame the codec is reading, or Nothing
  heard,      \* one more than the voice frame heard last
  stepBack    \* frames already given up are being played

queueVars == <<arrived, decoding, heard, stepBack>>

Nothing == -1

Arrive ==
  /\ arrived' = arrived + 1
  /\ UNCHANGED <<decoding, heard, stepBack>>

\* The frames that may be played, newest last.
Recent == {i \in arrived - Depth..arrived - 1 : i >= 0}

Begin(i) ==
  /\ decoding = Nothing
  /\ heard <= i \/ stepBack
  /\ decoding' = i
  /\ UNCHANGED <<arrived, heard, stepBack>>

End ==
  /\ decoding # Nothing
  /\ heard' = decoding + 1
  /\ decoding' = Nothing
  /\ UNCHANGED <<arrived, stepBack>>

StepBack ==
  /\ decoding = Nothing
  /\ stepBack' = TRUE
  /\ UNCHANGED <<arrived, decoding, heard>>

\* Playback is past everything heard so far again.
Recover ==
  /\ decoding = Nothing
  /\ stepBack' = FALSE
  /\ UNCHANGED <<arrived, decoding, heard>>

Init == arrived = 0 /\ decoding = Nothing /\ heard = 0 /\ stepBack = FALSE

Next ==
  \/ Arrive \/ End \/ StepBack \/ Recover
  \/ \E i \in Recent : Begin(i)

Spec == Init /\ [][Next]_queueVars
=============================================================================
