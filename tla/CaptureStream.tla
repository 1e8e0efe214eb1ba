--------------------------- MODULE CaptureStream ---------------------------
(***************************************************************************)
(* What Java is promised of recording: of each session it gets frames that *)
(* the device has recorded in it, recent ones, each once, without a gap    *)
(* after the first, and none of an earlier session once it has got one.    *)
(* The frame the codec reads stays what it is until the codec is done.     *)
(*                                                                         *)
(* Which frame of a session comes first is left open.                      *)
(***************************************************************************)
EXTENDS Integers

CONSTANT Depth   \* how many frames old a frame may be when it is encoded

VARIABLES
  rolling,    \* the device is recording
  session,    \* the sessions opened so far; the first is 1
  recorded,   \* the frames recorded in this session and not discarded
  encoding,   \* the frame the codec is reading, or Nothing
  encoded     \* the frame it read last, or Nothing

streamVars == <<rolling, session, recorded, encoding, encoded>>

Frame(s, n) == [ses |-> s, num |-> n]
Nothing     == Frame(0, 0)

\* A new session; the device starts to record when its position is zero.
Open ==
  /\ ~rolling /\ encoding = Nothing
  /\ session' = session + 1 /\ recorded' = 0
  /\ UNCHANGED <<rolling, encoding, encoded>>

Roll ==
  /\ ~rolling /\ recorded = 0 /\ encoded.ses < session
  /\ rolling' = TRUE
  /\ UNCHANGED <<session, recorded, encoding, encoded>>

Record ==
  /\ rolling
  /\ recorded' = recorded + 1
  /\ UNCHANGED <<rolling, session, encoding, encoded>>

Stop ==
  /\ rolling' = FALSE
  /\ UNCHANGED <<session, recorded, encoding, encoded>>

\* What was recorded is thrown away; a new session has to be opened.
Discard ==
  /\ encoding = Nothing
  /\ rolling' = FALSE /\ recorded' = 0
  /\ UNCHANGED <<session, encoding, encoded>>

Recent == {n \in recorded - Depth..recorded - 1 : n >= 0}

Begin(n) ==
  /\ encoding = Nothing
  /\ session = encoded.ses => n = encoded.num + 1
  /\ encoding' = Frame(session, n)
  /\ UNCHANGED <<rolling, session, recorded, encoded>>

End ==
  /\ encoding # Nothing
  /\ encoded' = encoding
  /\ encoding' = Nothing
  /\ UNCHANGED <<rolling, session, recorded>>

Init ==
  /\ rolling = FALSE /\ session = 0 /\ recorded = 0
  /\ encoding = Nothing /\ encoded = Nothing

Next ==
  \/ Open \/ Roll \/ Record \/ Stop \/ Discard \/ End
  \/ \E n \in Recent : Begin(n)

Spec == Init /\ [][Next]_streamVars
=============================================================================
