----------------------------- MODULE RecorderInv -----------------------------
(***************************************************************************)
(* The inductive invariant behind FrameIntact and ImplementsStream, for an *)
(* application that stops before it starts again and an encoder that never *)
(* is as far behind as the ring is long.                                   *)
(***************************************************************************)
EXTENDS Recorder

\* What the application and the scheduler are trusted with.
KeepsUp == Orderly /\ MaxBacklog < RingFrames

Starting  == ctl \in {"prepare", "halt", "rearm", "record", "play", "started"}
Releasing == ctl \in {"release", "close", "delete"}

\* While recording is being started no frame is being encoded, since the
\* encoder of the last session is gone and mRecording is not yet set.
StartUndisturbed ==
  Starting => ~recording /\ ~destroying /\ enc \in {"out", "test", "waitstart", "loop"}

\* The object is destroyed when the encoder is gone.
DestroyUndisturbed ==
  /\ Releasing => destroying
  /\ destroying => ctl # "idle"
  /\ destroying \/ ~initialized => enc = "out"
  /\ codec # "open" => destroying \/ ~initialized
  /\ enc # "skip"

\* Between the reset of mRecorderWrite and the start of the device nothing is
\* recorded, and slot 0 is what the device is going to fill.
Rearmed ==
  /\ ctl \in {"rearm", "record"} => cb = "idle" /\ device # "recording"
  /\ ctl = "record" => queue = 0 /\ recorderWrite = 0 /\ encoded.ses < session

\* The buffer the device has is the one mRecorderWrite selects; the callback
\* has just been given it back, by a device that is recording.
DeviceSlot ==
  /\ cb # "idle" => device = "recording"
  /\ queue # NoSlot => queue = SlotOf(recorderWrite) /\ cb \in {"idle", "notify"}
  /\ cb = "notify" => queue # NoSlot
  /\ cb = "advance" => ring[SlotOf(recorderWrite)] = Frame(session, recorderWrite)

\* Nothing is recorded before the first start.
OnlyInSession == queue # NoSlot \/ cb # "idle" \/ recorderWrite > 0 => session > 0

\* The encoder is less than a ring behind, also when the frame just filled has
\* been counted.
Backlog ==
  /\ recorderWrite - recorderRead <= MaxBacklog
  /\ cb = "advance" => recorderWrite - recorderRead < MaxBacklog

\* Every frame not yet encoded is in its slot.
Unread ==
  \A i \in recorderRead..recorderWrite - 1 : ring[SlotOf(i)] = Frame(session, i)

\* The frame being encoded is the oldest of them.
Encoding ==
  enc = "encode" =>
    /\ recorderRead < recorderWrite
    /\ pos = SlotOf(recorderRead)
    /\ held = Frame(session, recorderRead)

\* The counters have been zeroed and nothing can be recorded before a start.
Blank ==
  /\ recorderRead = 0 /\ recorderWrite = 0
  /\ device # "recording" /\ queue = NoSlot /\ cb = "idle"
  /\ ctl \notin {"record", "play", "started"}

\* The encoder goes on where it left off, and in a new session with a frame of
\* that session.
Progress ==
  /\ encoded.ses <= session
  /\ encoded.ses = session =>
       \/ recorderRead = encoded.num + 1 /\ recorderRead <= recorderWrite
       \/ Blank

RecInv ==
  /\ TypeOK
  /\ StartUndisturbed /\ DestroyUndisturbed /\ Rearmed
  /\ DeviceSlot /\ OnlyInSession /\ Backlog /\ Unread /\ Encoding /\ Progress

-----------------------------------------------------------------------------
(***************************************************************************)
(* The loop of recorderCallback that drops frames.                         *)
(***************************************************************************)

\* The callback is in it.
Trapped == cb = "trim" /\ NoRoom

\* A callback that enters the loop never leaves it: each turn, every step of the
\* encoder and whatever the application does keep its condition true.
TrappedForEver == [][Trapped => Trapped']_vars

\* Java got as many frames of an earlier session as would leave no room in this
\* one, as far as it has got.
OldCountTooLarge ==
  encoded.ses < session /\ encoded.num + 1 - recorderWrite >= RingFrames

\* It enters it only in a restart without a new prepareRecording, at a frame that
\* is a ring's length or more short of those Java got of an earlier session.
TrapNeedsOldCount == Trapped => OldCountTooLarge

\* mRecorderRead is what the last preparation or the last frame encoded left, until
\* the loop moves it.
Leftover ==
  \/ recorderRead = 0
  \/ recorderRead = encoded.num + 1
  \/ Trapped /\ OldCountTooLarge

-----------------------------------------------------------------------------
\* An encoder that has found mRecording set once stays in its loop until the
\* application asks for a stop, whatever starts fail: if it returns early it is
\* because a notification ended its wait for the start.
OnceInside ==
  enc \in {"look", "encode", "skip", "pause"} => recording \/ stopAsked
=============================================================================
