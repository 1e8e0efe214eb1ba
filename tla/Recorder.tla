------------------------------ MODULE Recorder ------------------------------
(***************************************************************************)
(* The capture path of YeeCallRecorder and its life cycle.                 *)
(*                                                                         *)
(* The control thread prepares, starts, stops and destroys; OpenSL records *)
(* into the buffer it was given and calls recorderCallback, which moves    *)
(* mRecorderWrite on, enqueues the next buffer and notifies mSignal; the   *)
(* Java thread in runEncoding encodes frames from mRecorderRead up to      *)
(* mRecorderWrite and otherwise waits on mSignal.  mRecording, the two     *)
(* counters and the codec pointer are shared without a lock.               *)
(*                                                                         *)
(* The counters are counts of samples that only change by whole frames;    *)
(* they are counted in frames here.  A frame is known by its session and   *)
(* its number in it.  The echo reference (mPlayerRead), the request flags, *)
(* stall recovery, muting and the latency measurer are left out; of the    *)
(* player callback only its notify() remains.  CSignal is used by its      *)
(* contract, AutoResetEvent.                                               *)
(*                                                                         *)
(* OpenSL: while a recorder is being stopped or destroyed its callback is  *)
(* not running, and a cleared queue holds no buffer.                       *)
(***************************************************************************)
EXTENDS Integers

CONSTANTS
  RingFrames,   \* BUFFER_COUNT_MAX: frames mRecorderBuffer holds        (200)
  Orderly,      \* whether the application stops before it starts again or
                \* destroys, and waits for runEncoding to return in between
  Failures,     \* whether OpenSL calls may fail
  MaxBacklog,   \* scheduling: frames the encoder may be behind
  MaxFrames,    \* bound of the model: frames recorded in a session
  MaxSessions,  \* bound of the model: sessions
  MaxRead       \* bound of the model: where mRecorderRead stops growing

ASSUME RingAssumption == RingFrames \in Nat \ {0}
ASSUME SchedulingAssumption ==
  Orderly \in BOOLEAN /\ Failures \in BOOLEAN /\ MaxBacklog \in Nat
ASSUME BoundsAssumption ==
  MaxFrames \in Nat /\ MaxSessions \in Nat /\ MaxRead \in Nat

VARIABLES
  initialized,   \* mInitialized
  prepared,      \* mPrepared
  recording,     \* mRecording
  codec,         \* what mVoiceCodec points to: "open", "deleted" or "null"
  ctl,           \* where the control thread is
  destroying,    \* its stopRecording was called by destroyOpenSLEngine
  stopAsked,     \* history: stopRecording called since runEncoding was
  session,       \* history: times startRecording has reset mRecorderWrite
  device,        \* the OpenSL recorder: "none", "stopped" or "recording"
  queue,         \* the slot in its buffer queue, NoSlot if it is empty
  playing,       \* whether the OpenSL player is playing
  ring,          \* the frame in each slot of mRecorderBuffer
  recorderRead,  \* mRecorderRead, in frames
  recorderWrite, \* mRecorderWrite, in frames
  cb,            \* where recorderCallback is
  enc,           \* where the encoder thread is
  pos,           \* its posRecord, while it encodes
  held,          \* history: what was in that slot when it began
  encoded,       \* history: the last frame encoded
  signal,        \* mSignal
  waiting        \* what the encoder is waiting in

lifeVars   == <<initialized, prepared, recording, codec>>
ctlVars    == <<ctl, destroying, stopAsked, session>>
deviceVars == <<device, queue, playing>>
ringVars   == <<ring, recorderRead, recorderWrite>>
encVars    == <<enc, pos, held, encoded>>
eventVars  == <<signal, waiting>>
vars == <<lifeVars, ctlVars, deviceVars, ringVars, cb, encVars, eventVars>>

NoSlot == -1
Encoder == "encoder"

Event == INSTANCE AutoResetEvent WITH Threads <- {Encoder}, set <- signal

Frame(s, n) == [ses |-> s, num |-> n]
NoFrame     == Frame(0, 0)   \* also what a buffer being filled holds

SlotOf(n) == n % RingFrames

Returns == ctl' = "idle" /\ destroying' = FALSE

-----------------------------------------------------------------------------
(***************************************************************************)
(* The control thread: prepareRecording and startRecording.                *)
(***************************************************************************)

\* createAudioRecorder and createAudioPlayer.
Create ==
  /\ recorderRead' = 0 /\ recorderWrite' = 0
  /\ ring' = [s \in 0..RingFrames - 1 |-> NoFrame]
  /\ queue' = NoSlot /\ playing' = FALSE
  /\ device' = "stopped"

PrepareOK ==
  /\ Create
  /\ prepared' = TRUE
  /\ UNCHANGED recording

\* One of the OpenSL calls fails; the counters are reset before the first.
PrepareFails ==
  /\ Failures
  /\ recorderRead' = 0 /\ recorderWrite' = 0
  /\ ring' = [s \in 0..RingFrames - 1 |-> NoFrame]
  /\ queue' = NoSlot /\ playing' = FALSE
  /\ device' \in {"none", "stopped"}
  /\ prepared' = FALSE
  /\ recording' = FALSE

\* Called from Java before the first start, or to start afresh.
Prepare ==
  /\ ctl = "idle" /\ initialized /\ ~recording
  /\ cb = "idle"
  /\ Orderly => enc = "out"
  /\ PrepareOK \/ PrepareFails
  /\ UNCHANGED <<initialized, codec, ctlVars, cb, encVars, eventVars>>

\* The last session has been stopped, and no runEncoding of it is left.
Joined == ~recording /\ enc \in {"out", "test", "waitstart"}

StartCall ==
  /\ ctl = "idle" /\ initialized
  /\ session < MaxSessions
  /\ Orderly => Joined
  /\ ctl' = IF prepared THEN "halt" ELSE "prepare"
  /\ UNCHANGED <<destroying, stopAsked, session, lifeVars, deviceVars, ringVars, cb, encVars, eventVars>>

\* if (!mPrepared) prepareRecording()
StartPrepare ==
  /\ ctl = "prepare"
  /\ cb = "idle"
  /\ \/ PrepareOK /\ ctl' = "halt" /\ UNCHANGED destroying
     \/ PrepareFails /\ Returns
  /\ UNCHANGED <<initialized, codec, stopAsked, session, cb, encVars, eventVars>>

Fail ==
  /\ Failures
  /\ Returns
  /\ UNCHANGED <<stopAsked, session, lifeVars, ringVars, cb, encVars, eventVars>>

\* Both devices are stopped and their queues cleared.
Halt(next) ==
  /\ cb = "idle"
  /\ \/ /\ device' = "stopped" /\ queue' = NoSlot /\ playing' = FALSE
        /\ ctl' = next
        /\ UNCHANGED <<destroying, stopAsked, session, lifeVars, ringVars, cb, encVars, eventVars>>
     \/ /\ Fail
        /\ \/ UNCHANGED deviceVars
           \/ device' = "stopped" /\ UNCHANGED playing /\ queue' \in {queue, NoSlot}

StartHalt == ctl = "halt" /\ Halt("rearm")

\* mRecorderWrite = 0, mRecorderRead stays.  The first buffer is enqueued (and
\* one of silence for the player).
StartRearm ==
  /\ ctl = "rearm"
  /\ recorderWrite' = 0
  /\ session' = session + 1
  /\ \/ /\ queue' = 0
        /\ ring' = [ring EXCEPT ![0] = NoFrame]
        /\ ctl' = "record"
        /\ UNCHANGED destroying
     \/ /\ Failures
        /\ queue' \in {NoSlot, 0}
        /\ UNCHANGED ring
        /\ Returns
  /\ UNCHANGED <<stopAsked, device, playing, recorderRead, lifeVars, cb, encVars, eventVars>>

\* SetRecordState(RECORDING): from here on the callback may run.
StartRecord ==
  /\ ctl = "record"
  /\ \/ /\ device' = "recording"
        /\ ctl' = "play"
        /\ UNCHANGED <<destroying, stopAsked, session, lifeVars, ringVars, cb, encVars, eventVars>>
     \/ Fail /\ UNCHANGED device
  /\ UNCHANGED <<queue, playing>>

StartPlay ==
  /\ ctl = "play"
  /\ \/ /\ playing' = TRUE
        /\ ctl' = "started"
        /\ UNCHANGED <<destroying, stopAsked, session, lifeVars, ringVars, cb, encVars, eventVars>>
     \/ Fail /\ UNCHANGED playing
  /\ UNCHANGED <<device, queue>>

\* mRecording = true; nobody is notified.
Started ==
  /\ ctl = "started"
  /\ recording' = TRUE
  /\ Returns
  /\ UNCHANGED <<stopAsked, session, initialized, prepared, codec, deviceVars, ringVars, cb,
                 encVars, eventVars>>

-----------------------------------------------------------------------------
(***************************************************************************)
(* stopRecording and destroyOpenSLEngine.                                  *)
(***************************************************************************)

StopCall ==
  /\ ctl = "idle"
  /\ ctl' = "stop"
  /\ UNCHANGED <<destroying, stopAsked, session, lifeVars, deviceVars, ringVars, cb, encVars, eventVars>>

AfterStop == IF destroying THEN "release" ELSE "idle"

\* Not in recording state, ignore.  Otherwise mRecording = false comes first.
Stop ==
  /\ ctl = "stop"
  /\ ctl' = IF recording THEN "stophalt" ELSE AfterStop
  /\ recording' = FALSE
  /\ stopAsked' = TRUE
  /\ UNCHANGED <<destroying, session, initialized, prepared, codec, deviceVars, ringVars,
                 cb, encVars, eventVars>>

StopHalt ==
  /\ ctl = "stophalt"
  /\ cb = "idle"
  /\ \/ /\ device' = "stopped" /\ queue' = NoSlot /\ playing' = FALSE
        /\ ctl' = "stopnotify"
     \/ /\ Failures  \* an early return: the encoder is not notified
        /\ \/ UNCHANGED deviceVars
           \/ device' = "stopped" /\ UNCHANGED playing /\ queue' \in {queue, NoSlot}
        /\ ctl' = AfterStop
  /\ UNCHANGED <<destroying, stopAsked, session, lifeVars, ringVars, cb, encVars, eventVars>>

StopNotify ==
  /\ ctl = "stopnotify"
  /\ Event!Set
  /\ ctl' = AfterStop
  /\ UNCHANGED <<destroying, stopAsked, session, lifeVars, deviceVars, ringVars, cb, encVars>>

\* A destroyed object ignores the call; a recording one is stopped first.
DestroyCall ==
  /\ ctl = "idle" /\ initialized
  /\ Orderly => enc = "out"
  /\ destroying' = TRUE
  /\ stopAsked' = TRUE
  /\ ctl' = IF recording THEN "stop" ELSE "release"
  /\ UNCHANGED <<session, lifeVars, deviceVars, ringVars, cb, encVars, eventVars>>

\* The OpenSL objects are destroyed and the counters zeroed.
Release ==
  /\ ctl = "release"
  /\ cb = "idle"
  /\ device' = "none" /\ queue' = NoSlot /\ playing' = FALSE
  /\ recorderRead' = 0 /\ recorderWrite' = 0
  /\ ctl' = "close"
  /\ UNCHANGED <<destroying, stopAsked, session, lifeVars, ring, cb, encVars, eventVars>>

\* mVoiceCodec = NULL, then the codec is closed and deleted: a pointer read
\* before is left dangling.
CloseCodec ==
  /\ ctl = "close"
  /\ codec' = "null"
  /\ ctl' = "delete"
  /\ UNCHANGED <<destroying, stopAsked, session, initialized, prepared, recording, deviceVars,
                 ringVars, cb, encVars, eventVars>>

Destroyed ==
  /\ ctl = "delete"
  /\ codec' = "deleted"
  /\ initialized' = FALSE /\ prepared' = FALSE /\ recording' = FALSE
  /\ Returns
  /\ UNCHANGED <<stopAsked, session, deviceVars, ringVars, cb, encVars, eventVars>>

ControlStep ==
  \/ StartPrepare \/ StartHalt \/ StartRearm \/ StartRecord \/ StartPlay \/ Started
  \/ Stop \/ StopHalt \/ StopNotify \/ Release \/ CloseCodec \/ Destroyed

Control == Prepare \/ StartCall \/ StopCall \/ DestroyCall \/ ControlStep

-----------------------------------------------------------------------------
(***************************************************************************)
(* The OpenSL recorder and recorderCallback.                               *)
(***************************************************************************)

\* The device has filled the buffer at the head of its queue.
Capture ==
  /\ device = "recording" /\ queue # NoSlot
  /\ cb = "idle"
  /\ recorderWrite < MaxFrames
  /\ recorderWrite - recorderRead < MaxBacklog
  /\ ring' = [ring EXCEPT ![queue] = Frame(session, recorderWrite)]
  /\ queue' = NoSlot
  /\ cb' = "advance"
  /\ UNCHANGED <<lifeVars, ctlVars, device, playing, recorderRead, recorderWrite, encVars,
                 eventVars>>

Advance ==
  /\ cb = "advance"
  /\ recorderWrite' = recorderWrite + 1
  /\ cb' = "trim"
  /\ UNCHANGED <<lifeVars, ctlVars, deviceVars, ring, recorderRead, encVars, eventVars>>

\* Fault: a frame is dropped although there is room.
NoRoomAlways == recorderRead <= recorderWrite

\* mRecorderRead - mRecorderWrite > mRecorderSize - mSamplesPerFrame
NoRoom == recorderRead - recorderWrite > RingFrames - 1

\* One turn of the loop that makes room.  The bound is above anything that
\* would end the loop.
Trim ==
  /\ cb = "trim"
  /\ NoRoom
  /\ recorderRead' = IF recorderRead < MaxRead THEN recorderRead + 1 ELSE recorderRead
  /\ UNCHANGED <<lifeVars, ctlVars, deviceVars, ring, recorderWrite, cb, encVars, eventVars>>

\* Fault: the buffer just filled is enqueued again.
SameSlot == SlotOf(recorderWrite - 1)

NextSlot == SlotOf(recorderWrite)

\* The device will write to the next position; a failed Enqueue ends the
\* callback before the notification.
Enqueue ==
  /\ cb = "trim"
  /\ ~NoRoom
  /\ \/ /\ queue' = NextSlot
        /\ ring' = [ring EXCEPT ![NextSlot] = NoFrame]
        /\ cb' = "notify"
     \/ /\ Failures
        /\ cb' = "idle"
        /\ UNCHANGED <<queue, ring>>
  /\ UNCHANGED <<lifeVars, ctlVars, device, playing, recorderRead, recorderWrite, encVars,
                 eventVars>>

Notify ==
  /\ cb = "notify"
  /\ Event!Set
  /\ cb' = "idle"
  /\ UNCHANGED <<lifeVars, ctlVars, deviceVars, ringVars, encVars>>

\* The player callback raised a request flag.  It does not in the very first
\* callbacks: a new recorder has skipped silence to use up.
PlayerNotify ==
  /\ playing
  /\ recording \/ session > 1
  /\ Event!Set
  /\ UNCHANGED <<lifeVars, ctlVars, deviceVars, ringVars, cb, encVars>>

CallbackStep == Advance \/ Trim \/ Enqueue \/ Notify

-----------------------------------------------------------------------------
(***************************************************************************)
(* The encoder: runEncoding.                                               *)
(***************************************************************************)

\* Called when the object is not ready it returns at once.
RunEncoding ==
  /\ enc = "out"
  /\ initialized /\ prepared
  /\ Orderly => ~destroying
  /\ enc' = "test"
  /\ stopAsked' = FALSE
  /\ UNCHANGED <<lifeVars, ctl, destroying, session, deviceVars, ringVars, cb, pos, held, encoded, eventVars>>

\* if (mInitialized && mPrepared && !mRecording): wait recording to start
TestStarted ==
  /\ enc = "test"
  /\ IF initialized /\ prepared /\ ~recording
     THEN enc' = "waitstart" /\ Event!Wait(Encoder, Event!Untimed)
     ELSE enc' = "loop" /\ UNCHANGED eventVars
  /\ UNCHANGED <<lifeVars, ctlVars, deviceVars, ringVars, cb, pos, held, encoded>>

WaitStart ==
  /\ enc = "waitstart"
  /\ Event!Consume(Encoder)
  /\ enc' = "loop"
  /\ UNCHANGED <<lifeVars, ctlVars, deviceVars, ringVars, cb, pos, held, encoded>>

\* while (mRecording)
Loop ==
  /\ enc = "loop"
  /\ enc' = IF recording THEN "look" ELSE "out"
  /\ UNCHANGED <<lifeVars, ctlVars, deviceVars, ringVars, cb, pos, held, encoded, eventVars>>

\* Fault: a frame is ready only when another one is, too.
FrameReadyLate == recorderRead + 1 < recorderWrite

\* mRecorderRead + mSamplesPerFrame <= mRecorderWrite
FrameReady == recorderRead + 1 <= recorderWrite

\* A frame has been recorded: with the codec pointer read, it is encoded.
Look ==
  /\ enc = "look"
  /\ FrameReady
  /\ enc' = IF codec = "open" THEN "encode" ELSE "skip"
  /\ pos' = SlotOf(recorderRead)
  /\ held' = ring[SlotOf(recorderRead)]
  /\ UNCHANGED <<lifeVars, ctlVars, deviceVars, ringVars, cb, encoded, eventVars>>

\* Fault: the frame is not consumed.
ConsumedNone == recorderRead

Consumed == recorderRead + 1

\* NativeVoiceCodec::encode and notifyRecordDataAvailable have returned (or
\* there is no codec): the frame is consumed.
Encode ==
  /\ enc \in {"encode", "skip"}
  /\ encoded' = IF enc = "encode" THEN held ELSE encoded
  /\ recorderRead' = Consumed
  /\ pos' = NoSlot /\ held' = NoFrame
  /\ enc' = "loop"
  /\ UNCHANGED <<lifeVars, ctlVars, deviceVars, ring, recorderWrite, cb, eventVars>>

\* Fault: the encoder waits without a time limit.
PauseUntimed == Event!Untimed

PauseKind == Event!Timed

\* Nothing recorded: wait until signalled, or RECORDER_DURATION_MS.
Sleep ==
  /\ enc = "look"
  /\ ~FrameReady
  /\ Event!Wait(Encoder, PauseKind)
  /\ enc' = "pause"
  /\ UNCHANGED <<lifeVars, ctlVars, deviceVars, ringVars, cb, pos, held, encoded>>

WakeUp ==
  /\ enc = "pause"
  /\ Event!Consume(Encoder) \/ Event!Expire(Encoder)
  /\ enc' = "loop"
  /\ UNCHANGED <<lifeVars, ctlVars, deviceVars, ringVars, cb, pos, held, encoded>>

EncoderStep == TestStarted \/ WaitStart \/ Loop \/ Look \/ Encode \/ Sleep \/ WakeUp

-----------------------------------------------------------------------------
\* After createOpenSLEngine.
Init ==
  /\ initialized = TRUE /\ prepared = FALSE /\ recording = FALSE
  /\ codec = "open"
  /\ ctl = "idle" /\ destroying = FALSE /\ stopAsked = FALSE /\ session = 0
  /\ device = "none" /\ queue = NoSlot /\ playing = FALSE
  /\ ring = [s \in 0..RingFrames - 1 |-> NoFrame]
  /\ recorderRead = 0 /\ recorderWrite = 0
  /\ cb = "idle"
  /\ enc = "out" /\ pos = NoSlot /\ held = NoFrame /\ encoded = NoFrame
  /\ signal = FALSE /\ waiting = [t \in {Encoder} |-> Event!No]

Next == Control \/ Capture \/ CallbackStep \/ PlayerNotify \/ RunEncoding \/ EncoderStep

(***************************************************************************)
(* Calls that have begun go on: each thread runs when it can.  Nobody has  *)
(* to call anything, and the device need not record.                       *)
(***************************************************************************)
Fairness == WF_vars(ControlStep) /\ WF_vars(CallbackStep) /\ WF_vars(EncoderStep)

Spec     == Init /\ [][Next]_vars
FairSpec == Spec /\ Fairness

-----------------------------------------------------------------------------
(***************************************************************************)
(* Properties.                                                             *)
(***************************************************************************)

Frames == [ses : Nat, num : Nat]
Slots  == 0..RingFrames - 1

TypeOK ==
  /\ initialized \in BOOLEAN /\ prepared \in BOOLEAN /\ recording \in BOOLEAN
  /\ codec \in {"open", "null", "deleted"}
  /\ ctl \in {"idle", "prepare", "halt", "rearm", "record", "play", "started",
              "stop", "stophalt", "stopnotify", "release", "close", "delete"}
  /\ destroying \in BOOLEAN /\ stopAsked \in BOOLEAN /\ session \in Nat
  /\ device \in {"none", "stopped", "recording"}
  /\ queue \in Slots \cup {NoSlot} /\ playing \in BOOLEAN
  /\ ring \in [Slots -> Frames]
  /\ recorderRead \in Nat /\ recorderWrite \in Nat
  /\ cb \in {"idle", "advance", "trim", "notify"}
  /\ enc \in {"out", "test", "waitstart", "loop", "look", "encode", "skip", "pause"}
  /\ pos \in Slots \cup {NoSlot} /\ held \in Frames /\ encoded \in Frames
  /\ signal \in BOOLEAN /\ waiting \in [{Encoder} -> {Event!No} \cup Event!Waits]

\* The frame being encoded is one that was recorded, whole, and the device does
\* not write over it meanwhile.
FrameIntact == enc = "encode" => held # NoFrame /\ ring[pos] = held

\* What the codec is reading.
Reading == IF enc = "encode" THEN ring[pos] ELSE NoFrame

\* What Java gets of a session is every frame from the first one it got, once and
\* in order, and nothing of an earlier session any more; the device does not write
\* over a frame while the codec reads it; no frame counts as recorded while the
\* device stands.  So across failures, restarts and new preparations.
Stream == INSTANCE CaptureStream
            WITH Depth <- MaxBacklog, rolling <- device = "recording",
                 recorded <- recorderWrite, encoding <- Reading
ImplementsStream == Stream!Spec

\* "loop internal, exit until stopRecording called": runEncoding, once it has
\* passed its checks, does not return before the application stops or destroys.
EncoderStaysUntilStop == [][ enc # "out" /\ enc' = "out" => stopAsked ]_enc

\* "no enough buffer to run recording ... now drop a audio frame": the loop that
\* drops frames ends.
CallbackReturns == cb = "trim" ~> cb = "idle"

InLoop == enc \in {"loop", "look", "encode", "skip", "pause"}

\* When mRecording is reset the encoder leaves its loop, whether or not
\* stopRecording gets as far as notifying it.
EncoderLeaves == InLoop /\ ~recording ~> enc = "out" \/ recording

\* While recording lasts, a recorded frame gets encoded.
FramesGetEncoded ==
  \A n \in 0..MaxFrames :
    InLoop /\ recording /\ recorderRead = n /\ recorderWrite > n
      ~> recorderRead # n \/ ~recording \/ recorderWrite <= n
=============================================================================
