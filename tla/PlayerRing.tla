----------------------------- MODULE PlayerRing -----------------------------
(***************************************************************************)
(* mPlayerBuffer of YeeCallRecorder: one ring of samples, written by the   *)
(* decoder at mPlayerPending, played by the device up to mPlayerWrite and  *)
(* read again by the encoder, at mPlayerRead, as the reference of the echo *)
(* canceller.  Nothing locks it; the three counts keep the users apart.    *)
(*                                                                         *)
(* A frame decoded to catch up is resampled and keeps less than its        *)
(* samples, so that mPlayerPending need not be aligned to a frame.  The    *)
(* array has one frame more than the ring: what does not fit in the last   *)
(* one spills there.                                                       *)
(*                                                                         *)
(* A cell holds the position in the played stream its sample was decoded   *)
(* for, and whether it has been shaped: faded, muted or replaced by a tone *)
(* in place.  That comes after mPlayerWrite is advanced past the frame, so *)
(* that the encoder may meet a frame which is neither shaped nor queued.   *)
(* A decoder that fails, or returns fewer samples than a frame, leaves     *)
(* cells as they were; its result is ignored.                              *)
(*                                                                         *)
(* Whether a frame is waiting in the jitter buffer is left open, and       *)
(* whether the device takes what it is given.  The loop-back of the debug  *)
(* mode, the recorder's own ring and a second session are not modelled.    *)
(***************************************************************************)
EXTENDS Integers

CONSTANTS
  SPF,        \* mSamplesPerFrame                               (160 or 320)
  Frames,     \* BUFFER_COUNT_MAX, frames in the ring                  (200)
  Kept,       \* samples a decoded frame may leave: (r - 1) / r of it, or all
  Short,      \* samples a decoder may write that fails or returns less than a frame
  Offsets,    \* values of mConfigRecPlayOffset, in samples
  MaxLag,     \* scheduling: frames recorded and not yet encoded
  MaxLate,    \* scheduling: callbacks of the player in one turn of the encoder
  MaxFrames,  \* bound of the model: frames played
  FailsAt     \* bound of the model: positions at which the decoder may fail

Size == Frames * SPF           \* mPlayerSize

ASSUME RingAssumption ==
  /\ SPF \in Nat \ {0} /\ Frames \in Nat /\ Frames >= 3
  /\ Kept \subseteq 1..SPF /\ Short \subseteq 0..(SPF - 1)
  /\ Offsets \subseteq Nat /\ MaxLag \in Nat /\ MaxLate \in Nat
  /\ MaxFrames \in Nat /\ FailsAt \subseteq Nat

\* The ring is long enough for the offset and for a late encoder.  Of the 200
\* frames, the offset takes at most 100 (two seconds).
ASSUME WindowAssumption ==
  \A o \in Offsets : o + (MaxLag + MaxLate + 2) * SPF =< Size

VARIABLES
  ring,          \* mPlayerBuffer
  pending,       \* mPlayerPending
  write,         \* mPlayerWrite
  player,        \* where playerCallback is; "idle" between callbacks
  recWrite,      \* mRecorderWrite
  recRead,       \* mRecorderRead
  read,          \* mPlayerRead
  enc,           \* where the encoder thread is
  seenRec,       \* mRecorderWrite as loaded for the offset
  seenPlay,      \* mPlayerWrite as loaded for the offset
  late,          \* scheduling: callbacks of the player since the encoder's test
  offset,        \* history: mConfigRecPlayOffset when the reference was located
  sure,          \* history: what had been handed to the device by then
  heard,         \* history: the samples the device has been handed
  missed         \* history: positions appended that the decoder has not written

playing  == <<ring, pending, write, player, heard, missed>>
encoding == <<recRead, read, enc, seenRec, seenPlay, offset, sure>>
vars == <<playing, recWrite, encoding, late>>

Cells  == 0..(Size + SPF - 1)
Stream == 0..(MaxFrames * SPF - 1)
None   == -1                     \* not loaded

\* The sample of a position as it was decoded, or a silent one put there.
Decoded(p) == [pos |-> p, shaped |-> FALSE]

\* Zero, or samples of no one position, which the resampling leaves behind.
Blank == Decoded(-1)

\* The remainder of C, which has the sign of the dividend.
CRemainder(a) == IF a >= 0 THEN a % Size ELSE -((-a) % Size)

-----------------------------------------------------------------------------
(***************************************************************************)
(* playerCallback and decodeNextFrame.                                     *)
(***************************************************************************)

\* A frame put at `pending`, of which n samples count and the first f are new.  A
\* whole frame leaves the other cells alone; a resampled one leaves nothing certain.
Filled(n, f) ==
  LET at == pending % Size
  IN  [c \in Cells |->
        IF c \in at..(at + f - 1) THEN Decoded(pending + (c - at))
        ELSE IF n < SPF /\ c \in (at + f)..(at + SPF - 1) THEN Blank
        ELSE ring[c]]

\* Fault: frames are decoded as long as the ring has room.
HungryForMore == pending - write < Size - SPF

\* decodeNextFrame looks for another frame.
Hungry == pending - write < SPF

\* Fault: the samples the resampling saved are counted.
AdvancedWhole(n) == pending + SPF

\* Where the next frame goes.
Advanced(n) == pending + n

Append(n, f) ==
  /\ ring' = Filled(n, f)
  /\ pending' = Advanced(n)
  /\ missed' = missed \union (pending + f)..(pending + n - 1)

Callback ==
  /\ player = "idle"
  /\ player' = "before"
  /\ UNCHANGED <<ring, pending, write, heard, missed, recWrite, encoding, late>>

\* A frame of the jitter buffer, before or after the one to play is queued.
DecodeFrame ==
  /\ player \in {"before", "after"}
  /\ Hungry
  /\ \E n \in Kept : \E f \in Short \union {n} :
       /\ f =< n
       /\ f < n => pending \in FailsAt
       /\ Append(n, f)
  /\ UNCHANGED <<write, player, heard, recWrite, encoding, late>>

\* Nothing to decode: a frame of silence.
EmptyFrame ==
  /\ player = "before"
  /\ pending - write < SPF
  /\ Append(SPF, SPF)
  /\ UNCHANGED <<write, player, heard, recWrite, encoding, late>>

\* mPlayerWrite passes the frame to play.
Publish ==
  /\ player = "before"
  /\ pending - write >= SPF
  /\ write + SPF =< MaxFrames * SPF
  /\ enc # "test" => late < MaxLate
  /\ write' = write + SPF
  /\ late' = IF enc = "test" THEN 0 ELSE late + 1
  /\ player' = "published"
  /\ UNCHANGED <<ring, pending, heard, missed, recWrite, encoding>>

\* The frame is faded, muted or replaced by a tone, in place.  If it is not, its
\* samples are the same before and after.
Shape ==
  /\ player = "published"
  /\ LET at == (write - SPF) % Size
     IN  ring' = [c \in Cells |->
                   IF c \in at..(at + SPF - 1) THEN [ring[c] EXCEPT !.shaped = TRUE] ELSE ring[c]]
  /\ player' = "shaped"
  /\ UNCHANGED <<pending, write, heard, missed, recWrite, encoding, late>>

\* Fault: newPos is queued, as recorderCallback does.
QueuedNew == write % Size

\* pos, taken before mPlayerWrite was advanced.
Queued == (write - SPF) % Size

\* The device is handed the frame.
Enqueue ==
  /\ player = "shaped"
  /\ heard' = [p \in Stream |->
                IF p \in (write - SPF)..(write - 1)
                  THEN ring[Queued + (p - (write - SPF))] ELSE heard[p]]
  /\ player' = "after"
  /\ UNCHANGED <<ring, pending, write, missed, recWrite, encoding, late>>

\* Enough decoded ahead, or nothing more to decode.
Return ==
  /\ player = "after"
  /\ player' = "idle"
  /\ UNCHANGED <<ring, pending, write, heard, missed, recWrite, encoding, late>>

PlayerStep ==
  Callback \/ DecodeFrame \/ EmptyFrame \/ Publish \/ Shape \/ Enqueue \/ Return

\* What the device has been handed: mPlayerWrite is ahead of it while a frame is
\* being shaped.
Handed == IF player \in {"published", "shaped"} THEN write - SPF ELSE write

-----------------------------------------------------------------------------
(***************************************************************************)
(* recorderCallback, as far as the ring of the player is concerned.        *)
(***************************************************************************)
RecorderCallback ==
  /\ recWrite + SPF =< MaxFrames * SPF
  /\ recWrite + SPF =< recRead + MaxLag * SPF
  /\ recWrite' = recWrite + SPF
  /\ UNCHANGED <<playing, encoding, late>>

-----------------------------------------------------------------------------
(***************************************************************************)
(* runEncoding.                                                            *)
(***************************************************************************)

\* A frame has been recorded.
Test ==
  /\ enc = "test"
  /\ recRead + SPF =< recWrite
  /\ enc' = "align"
  /\ late' = 0
  /\ UNCHANGED <<playing, recWrite, recRead, read, seenRec, seenPlay, offset, sure>>

\* mRecorderWrite - mPlayerWrite: two loads, in the order the compiler likes.
LoadRecorder ==
  /\ enc = "align" /\ seenRec = None
  /\ seenRec' = recWrite
  /\ UNCHANGED <<playing, recWrite, recRead, read, enc, seenPlay, offset, sure, late>>

LoadPlayer ==
  /\ enc = "align" /\ seenPlay = None
  /\ seenPlay' = write
  /\ UNCHANGED <<playing, recWrite, recRead, read, enc, seenRec, offset, sure, late>>

\* Fault: the queue between recorder and player is left out of the offset.
FixedOffset(o) == o

\* recPlayOffset
RecPlayOffset(o) == o + (seenRec - seenPlay)

\* Fault: a reference over the end of the ring is read as it stands.
NotAssembled(at) == ring

\* The frame that follows the ring, completed for a reference that ends in it.
Assembled(at) ==
  [c \in Cells |-> IF at + SPF > Size /\ c >= Size THEN ring[c - Size] ELSE ring[c]]

Locate ==
  /\ enc = "align" /\ seenRec # None /\ seenPlay # None
  /\ \E o \in Offsets :
       /\ read' = recRead - RecPlayOffset(o)
       /\ offset' = o
  /\ ring' = Assembled(CRemainder(read'))
  /\ enc' = "encode"
  /\ sure' = Handed
  /\ UNCHANGED <<pending, write, player, heard, missed, recWrite, recRead, seenRec, seenPlay,
                 late>>

posPlay == CRemainder(read)

\* NativeVoiceCodec::encode has read the reference at posPlay.
Encode ==
  /\ enc = "encode"
  /\ read' = read + SPF
  /\ recRead' = recRead + SPF
  /\ enc' = "test"
  /\ seenRec' = None /\ seenPlay' = None /\ offset' = None /\ sure' = None
  /\ UNCHANGED <<playing, recWrite, late>>

\* No frame recorded: the wait is timed, and the test is made again.
Wait ==
  /\ enc = "test"
  /\ recRead + SPF > recWrite
  /\ UNCHANGED vars

EncoderStep == Test \/ Wait \/ LoadRecorder \/ LoadPlayer \/ Locate \/ Encode

-----------------------------------------------------------------------------
\* prepareRecording and startRecording have run: the ring is all zero.
Init ==
  /\ ring = [c \in Cells |-> Blank]
  /\ pending = 0 /\ write = 0 /\ player = "idle"
  /\ recWrite = 0 /\ recRead = 0 /\ read = 0
  /\ enc = "test" /\ seenRec = None /\ seenPlay = None /\ late = 0
  /\ offset = None /\ sure = None
  /\ heard = [p \in Stream |-> Blank] /\ missed = {}

Next == PlayerStep \/ RecorderCallback \/ EncoderStep

Spec == Init /\ [][Next]_vars

-----------------------------------------------------------------------------
(***************************************************************************)
(* Correctness.                                                            *)
(***************************************************************************)

Sample == [pos : Int, shaped : BOOLEAN]

\* The types of the counts, the cells and the places.  At most two frames are
\* decoded ahead; nothing is ever played that was not appended.
TypeOK ==
  /\ ring \in [Cells -> Sample] /\ heard \in [Stream -> Sample] /\ missed \subseteq Nat
  /\ write \in Nat /\ pending \in write..(write + 2 * SPF - 1)
  /\ player \in {"idle", "before", "published", "shaped", "after"}
  /\ recWrite \in Nat /\ recRead \in 0..recWrite
  /\ read \in Int /\ posPlay \in (1 - Size)..(Size - 1)
  /\ enc \in {"test", "align", "encode"}
  /\ seenRec \in Nat \union {None} /\ seenPlay \in Nat \union {None}
  /\ offset \in Offsets \union {None} /\ sure \in Nat \union {None}
  /\ late \in 0..MaxLate

\* The frame the device is playing is left as it was queued, however far the
\* decoder runs ahead (decodeNextFrame writes in the same ring, unlocked).
DeviceFrameIntact ==
  player \in {"idle", "after"} /\ write > 0 =>
    \A i \in 0..(SPF - 1) :
      ring[((write - SPF) % Size) + i] = heard[(write - SPF) + i]

\* Every sample the decoder has written is heard at its own position, except in the
\* first frame of a lap: what an unaligned frame spills over the end of the ring is
\* not brought back to its start, where the samples of the lap before are heard.  So
\* they are wherever a decoder fails or returns less than a frame.
OnlyLapHeadStale ==
  \A p \in Stream : p < Handed /\ heard[p].pos # p => p % Size < SPF \/ p \in missed

\* The reference of the echo canceller is never a frame still to be played: it is
\* mConfigRecPlayOffset behind mPlayerWrite at least.  Of a frame that the callback
\* is shaping, it has at most what the offset lacks to a whole frame, and nothing if
\* the offset is a frame or more, however the two threads interleave.
ReferencePlayed ==
  enc = "encode" =>
    /\ read + SPF + offset =< write
    /\ offset >= SPF => read + SPF =< sure

\* The reference is what the device was given at that place of the stream, stale
\* samples included, as faded, muted or replaced, until the encoder has read it.
\* Neither the wrap at the end of the ring nor the player a lap later falsifies it.
\* Of a frame not yet queued when the reference was located, nothing is said: the
\* encoder may have read it before it was shaped.
ReferenceFaithful ==
  enc = "encode" /\ read >= 0 =>
    \A i \in 0..(SPF - 1) : read + i < sure => ring[posPlay + i] = heard[read + i]
=============================================================================
