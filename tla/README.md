# Verification of the DemoStep1 voice engine

DemoStep1 is an Android demonstration around a VoIP voice engine.  Its own code is the
C++ engine under `app/src/main/cpp/jni` (built by `Android.mk` into `libzayhu`), a small
OpenSL recorder under `app/src/main/cpp` (built by gradle into `native-lib`) and six Java
classes.  The rest of the tree (WebRTC, Opus, Speex, rnnoise, an FFT) is third party.

This directory holds TLA+ modules of the engine's own logic, the TLC runs that check
them on small instances and the TLAPS proofs of the properties that matter most.

## The system

`YeeCallRecorder` owns everything.  Five threads share its fields without a lock:

| thread | entry point | what it does |
| --- | --- | --- |
| player | `playerCallback`, on every buffer the device has played | decodes queued frames into the playback ring, enqueues one frame, raises request flags |
| recorder | `recorderCallback`, on every buffer the device has filled | advances the recording ring, enqueues the next buffer, wakes the encoder |
| encoder | `runEncoding`, a Java thread | cancels echo, encodes recorded frames and calls Java; also delivers the request flags |
| network | `playDataAvailable`, a Java thread | appends an encoded frame to the play queue |
| control | `create`, `prepareRecording`, `startRecording`, `stopRecording`, `setConfig`, `destroy` | the life cycle |

They interact through counters that only grow (`mPlayerRead/Write/Pending`,
`mRecorderRead/Write`, `mPendingRead/Write`), boolean request flags, pointers handed
over by assignment (`mLatencyMeasurer`, the codec's canceller) and one `CSignal`.

### Components

| component | state | operations | correct when |
| --- | --- | --- | --- |
| Play queue and decoder | `mPendingBuffer`, `mPendingRead/Write`, `mSkippedFrameCount`, `mInJitterRecovery` | `playDataAvailable`, `decodeNextFrame`, the enqueue part of `playerCallback` | the two writers of `mPendingRead` never let the backlog outgrow the slots; frames in use are not overwritten; voice is played once and in order; only silence is dropped or repeated; the backlog drains |
| CSignal | mutex, condition, a boolean | `wait`, timed `wait`, `notify` | a notification is not lost; one wakes one waiter; the deadline is a legal time |
| Capture loop | recorder and player counters, `mRecording` | `recorderCallback`, `runEncoding` | every recorded frame is encoded once; the encoder runs as long as recording does and stops with it |
| Life cycle | `mInitialized/mPrepared/mRecording`, OpenSL objects | `create`, `prepareRecording`, `startRecording`, `stopRecording`, `destroy` | restart starts from a consistent state; a failed step leaves nothing half done |
| Playback events | `mRequest*`, `mNoTraffic*` | `playerCallback`, `runEncoding` | each outage is reported, with its duration, and its end once |
| Playback ring | `mPlayerBuffer` and its three counters | `decodeNextFrame`, `playerCallback`, `runEncoding` | frames that straddle the end of the ring are whole when played and when used for echo cancellation |
| Latency measurer | its state machine and peak buffers, `mLatencyMeasurer` | `startMeasuring`, `processInput`, `processOutput`, its disposal | it ends; its result lies between its rounds; it is disposed of once and not used afterwards |
| Stall recovery | `mLast*PosFor*`, `mStallLevel*`, `mCurrentStallLevel` | the ends of both callbacks, `runEncoding` | a device that stands still is noticed and one that goes on is not; a recovery ends |
| Device latency | a histogram, `mDeviceLatency`, `mLatencyCount` | `calculateAudioLatency`, parts of `setConfig`, `stopRecording` | a configured latency survives hands-free changes |
| Voice codec | codec, cancellers, pending canceller, howling detector | `open`, `close`, `setCodecState`, `encode`, `decode` | a component replaced by one thread is not freed under another; open and close balance |
| Opus and Speex codecs | encoder, decoder, `mOpenRef` | `open`, `close`, `setBitrate` | resources balance whatever step fails |
| Smoothing | previous levels | `smoothVoicePlay`, `smoothVoiceRecord` | samples stay in 16 bits |
| AListener, YCRecorder | OpenSL objects, a buffer | create, start, callback | the file is closed once, the callback stops |
| AvcEncoder, AvcDecoder, AudioPlayer | MediaCodec buffers, threads | `offerEncoder`, `decode`, record loop | codec buffers are returned; the thread ends |

### What is hard in this code

* plain 64 bit counters written by two threads; `mPendingRead++` against an assignment;
* pointers into a buffer the other thread goes on filling;
* decisions taken on values another thread changes before they take effect;
* a flag set in a callback and cleared by the handler of another flag;
* `mRecording` set after the callbacks have been started;
* counters that a restart resets only in part;
* a timed wait with a hand made deadline;
* objects deleted by the thread that finishes with them first.

`PROJECT.json` lists every such hazard at its line, with the properties that cover it.

## Modules

| modules | model | state |
| --- | --- | --- |
| `PlayoutQueue` | what the listener is promised of the play queue | abstract specification |
| `JitterBuffer`, `JitterBufferInv`, `JitterBufferProofs` | play queue and decoder, shown to implement `PlayoutQueue` | checked and proved |
| `AutoResetEvent` | what the users of `CSignal` rely on | abstract specification |
| `Signal`, `SignalProofs` | `CSignal`, shown to implement `AutoResetEvent` | checked and proved |
| `CaptureStream` | what Java is promised of recording | abstract specification |
| `Recorder`, `RecorderInv`, `RecorderProofs` | capture loop and life cycle, shown to implement `CaptureStream`; uses `AutoResetEvent` in place of `CSignal` | checked and proved |
| `VoiceCodec`, `VoiceCodecInv`, `VoiceCodecProofs` | what `encode` and `setCodecState` share | checked and proved |
| `PlaybackEvents`, `PlaybackEventsInv`, `PlaybackEventsProofs` | the request flags between the player and the encoder | checked and proved |
| `PlayerRing`, `PlayerRingInv`, `PlayerRingProofs` | the ring of samples and the echo reference | checked and proved |
| `LatencyMeasurer`, `LatencyMeasurerInv`, `LatencyMeasurerProofs` | the rounds of a measurement and its disposal | checked and proved |
| `StallRecovery`, `StallRecoveryInv`, `StallRecoveryProofs` | the stall counters and the recovery | checked and proved |
| `MC...` | instances for TLC | |

`X` is the model, `XInv` its inductive invariant, `XProofs` the theorems.  Each module
leaves open what another one models: `PlayerRing` and `PlaybackEvents` whether a frame can
be decoded, which `JitterBuffer` decides; `StallRecovery` the frames that `Recorder`
follows; `VoiceCodec` takes it that the codec is not closed under the encoder, as `Recorder`
does of an application that is `Orderly`.

Worth doing next: a composition of `Recorder` with `VoiceCodec` that discharges what the
latter assumes of `close`; `create` and the failures of `createOpenSLEngine` in
`Recorder`.

The runs check the properties a reader would ask about and, per component, one invariant
that includes the types (`RecInv`, `CodecInv`, `EventsInv`, `RingInv`, `MeasurerInv`,
`StallInv`; `CountInv` in `jitter_live`).  Two kinds of facts are theorems, proved for every
value of the constants, and have no run of their own:

* weaker facts that follow from the invariants: `TypeOK`, `BacklogBounded`,
  `RingFillBounded`, `NoDebtInRecovery`, `RoundsPaid`, and `SlotInv`;
* what complements a property or a finding, held on the same instances as its run before
  it was proved.  Liveness is beyond the provers, its safety core is not: that every step
  uses up something bounded (`TakesUseUp` with `RemainingBounded`, `FramesSpent` with
  `RestBounded`, `CountsDown`).  A finding is a trace, the theorem says that there is no
  other way to it (`TrappedForEver` and `TrapNeedsOldCount`, `OnceInside`,
  `AlarmLeftByRace`, `NeverCutOff`).

What only TLC checks: the ten liveness properties (`BacklogDrains`, the three of `signal`,
`EncoderLeaves`, `FramesGetEncoded`, `PendingIsDropped`, `RequestsTaken`, `MeasurementEnds`,
`RecoveryEnds`) and the three findings, which are counterexamples.  Every safety property
of a run is a theorem.

## JitterBuffer

`pendingRead`, `pendingWrite`, `slots` are the shared fields; `cur`, `next`, `action`,
`samples` the locals of `decodeNextFrame`; `gap` is `mPlayerPending - mPlayerWrite`.
`pc` says between which statements the player is, `net` the network thread.  Frames are
numbered by arrival; a payload is `Voice` or `Silence`, which is all that `length <= 1`
tells apart.

| code | action |
| --- | --- |
| `playDataAvailable` 1654-1659, 1662, 1664, 1666 | `StoreFrame`, `Publish`, `CheckOverrun`, `Jump` |
| the same stores seen out of order (ARMv7) | `PublishEarly`, `StoreFrameLate` |
| `mPendingRead++` of a decode, 702-705 | `Take` (load), `StoreTaken` |
| `frameNext`, 708 | `Peek` |
| the codec call, 714-763 | `Decode` |
| post decode decision, 768-855, one test per step | `DecideSkip`, `DecideRepeat`, `DecideSpeed`, `EndRecoveryByBacklog`, `EndRecoveryByCount`, `DecideStretch` |
| its effect, 857-939 | `Apply`, `StoreAdjusted` |
| drop all, 942-949 | `Trim` (test and load), `Drop` |
| end of `decodeNextFrame`, enqueue | `LoopExit`, `Play` |

Because the two threads write `mPendingRead`, every update of the player is split into
the load and the store, so the model has the lost updates the machine can produce.  Where
the compiler may keep a value in a register, both values are allowed (`Peek`).

Scheduling assumptions.  Nothing in the code stops the network from delivering a whole
ring while one frame is decoded, or the player from overtaking an overrun whose
assignment is delayed.  Two constants say how much of that is assumed away: `MaxBurst`
frames arrive during one decode (27 with the real sizes, half a second of audio against
a decode of a millisecond) and the player passes `MaxLag` frames between the overrun test
and its assignment (36, or 0.7 s).  `SchedulingAssumption` relates them to the sizes; the
bounds are tight: with one more, TLC finds an overwritten frame and a voice frame played
twice.

`PlayoutQueue` is the promise in the listener's terms: a voice frame that is decoded has
arrived, is at most `Depth` arrivals old, stays what it is until the codec is done with it,
and comes after the ones heard before; frames may be left out.  Under the mapping
`arrived` is `pendingWrite`, `decoding` the voice frame in the slot the codec reads (so an
overwritten slot shows), `Depth` a full backlog and the frames of one decode, and
`stepBack` is `undone`: set by a drop that an overrun, found before it, undoes, reset at
the callback that finds the player past all it has heard.

Not in this module: the volume ramps, the request flags and counters for Java
(`PlaybackEvents`), the samples (`PlayerRing`).

### Runs

| run | instance | shows |
| --- | --- | --- |
| `jitter` | 7 slots, drop above 4, 8 frames, burst 2, lag 1 | `PendingFramesStored`, `HeldFramesIntact`, that `JitterBuffer` implements `PlayoutQueue` (`ImplementsQueue`), `OnlySilenceAdjusted`; the queue wraps, overruns, drops, skips, rewinds, recovers |
| `jitter_live` | 5 slots, drop above 3, 5 frames, `InOrder = FALSE` | `BacklogDrains`, and that neither it nor `CountInv` rests on the memory order |

The bounds keep the order of the code's thresholds (rewind < recovery < speed up < drop <
capacity) and are large enough for a slot to be reused, for an overrun during a decode
and for a second recovery; `MaxWrites` is the only bound on the length of a run.

Fairness: OpenSL calls back after every buffer and every callback enqueues one, so the
player keeps running (`WF(Player)`); a call of `playDataAvailable` that has begun returns
(`WF(Returning)`).  No frame need ever arrive.

### Proofs

`JitterBufferProofs` proves, for all constants that satisfy the three assumptions:

* `CountInvHolds`: `CountInv` is inductive by itself.  It bounds the backlog not only by
  what `mPendingRead` is but by what the player is about to store in it (`Register`),
  since that store may undo an overrun.  From it `TypeCorrect`, `BacklogIsBounded`,
  `RingFillIsBounded`, `RecoveryOwesNothing`, whatever the memory order.
* `SlotInvHolds`: with stores in order `SlotInv` is inductive relative to `CountInv`.
  `SlotsHold` and `Window` say that the frames in use are within a ring's length of the
  last one stored; `Order` and `Overtaken` that an overrun's assignment, and every lost
  update, stays at or above what was heard.  `Overtaken` carries the bound from the test
  to the assignment, which is why `lag` is needed.  From it `PendingFramesAreStored`,
  `HeldFramesAreIntact`, `SilenceOnlyAdjusted`, and action by action the refinement,
  `QueueIsImplemented`.
* `TakesAreUsedUp`, `RemainingIsBounded`: skips and rewinds move `mPendingRead` both ways,
  but the backlog and the silence owed together (`Remaining`) never grow by a step of the
  player and shrink with each frame taken; so without new packets it takes a bounded
  number of frames.  Whatever the memory order.  `Remaining` counts from what is about to
  be stored (`ReadSoon`), which is what lost updates call for.

Model-checked only: `BacklogDrains` (liveness), of which the last item is the safety core.

Seen on the way.  The comment at YeeCallRecorder.cpp:941 says "drop all if
latency too large".  A frame is published, `playDataAvailable` finds an overrun, the player
drops the backlog, and then the assignment of `mPendingRead` puts dropped frames back; the
next ones played are older than one already dropped.  The step back of `PlayoutQueue`
allows for exactly this exception.

`RecoveryOwesNothing` has a consequence worth knowing: in recovery mode the code settles on
a rewind to "insert more silence" (850-854), but a rewind is carried out only while
`mSkippedFrameCount > 0` (874), which recovery excludes.  That branch never has an effect.

With `InOrder = FALSE` a published frame may not be in its slot yet: the code has no
barrier between the `memcpy` and `mPendingWrite++`, so everything about the contents of
the slots is claimed for ordered stores only.

## Signal

One step is one pthread call with the work on the flag before the next.  `internalState`,
`mutex` are the fields; `pc`, `call`, `ts` belong to each thread; `asked` remembers when a
timed wait was due.

| code (CSignal.cpp) | action |
| --- | --- |
| entry and `pthread_mutex_lock`, 24-27, 40-55 | `CallWait`, `CallTimedWait`, `EnterWait` (computes `Deadline`) |
| the loops 29-31, 57-63 | `TakeSignal`, `Block`, `Refused` |
| return from the library | `WakeSpuriously`, `TimeOut`, `Relock` |
| the way out 33-37, 64-69 | `TakeSignal`, `TakeExpired`, `Unlock` |
| `notify` 72-81 | `CallNotify`, `EnterNotify`, `Raise`, `CondSignal`, `Unlock` |

POSIX is external: a wait releases the mutex while it blocks, may wake for no reason and
takes the mutex again; a deadline of a second or more of nanoseconds is refused with
`EINVAL` at once, the mutex still held.

| run | instance | shows |
| --- | --- | --- |
| `signal` | 3 threads, a second of 4 ticks, limits 1 and 6, a clock reading of 3 | `NoLostWakeup`, `DeadlineExact`, that `Signal` implements `AutoResetEvent`; that timed waits and notifications return and a notification is taken |

Three threads are a waiter that expires, one that sleeps on and a notifier, which is the
case the flag alone would lose.  The limits make a deadline that falls on a whole second
and one that needs the carry, so that legal and refused deadlines meet in one run.

Fairness: a thread that holds the mutex goes on (weak); a thread that
asks for the mutex gets it some time although others take it in between (strong); a
deadline is absolute, so a thread that blocks again after a wakeup still times out
(strong).  Nobody need call anything.

Seen on the way: CSignal.cpp:52 carries while `tv_nsec > 1000000000L`, so nanoseconds of
exactly a second are passed on and refused; the loop (57-63) tests only for `ETIMEDOUT` and
spins, holding the mutex that `notify` needs.  The liveness properties make an exception
for a thread in this loop (`OnTheSecond`); without it `TimedWaitReturns` fails.

Proofs, for any set of threads, any length of the second, any time limits and readings:
`Inv` is inductive: it adds to the types that a thread is inside a wait exactly while
`call` says so.  With `Exclusion` (`MutexExcludes`) it gives `WakeupsNotLost`; with the two
lemmas on `Deadline`, `DeadlinesAreExact`; and step by step `EventIsImplemented`.
Model-checked only: the three liveness properties.

## Recorder

`ctl`, `cb`, `enc` say where the control thread, the recorder callback and the encoder are.
Counters are in frames (they only change by whole frames), a frame is its session and its
number.  `device`, `queue`, `playing` are what OpenSL has been told.

| code (YeeCallRecorder.cpp) | action |
| --- | --- |
| `prepareRecording` 972-989, with 1712-1897 | `Prepare`, `StartPrepare` (`PrepareOK`, `PrepareFails`) |
| `startRecording` 992-1031, one OpenSL call per step | `StartCall`, `StartHalt`, `StartRearm`, `StartRecord`, `StartPlay`, `Started` |
| `stopRecording` 1033-1069 | `StopCall`, `Stop`, `StopHalt`, `StopNotify` |
| `destroyOpenSLEngine` 1900-2020 | `DestroyCall`, `Release`, `CloseCodec`, `Destroyed` |
| `recorderCallback` 592-697 | `Capture` (the device), `Advance`, `Trim` (one turn of the loop 616-622), `Enqueue`, `Notify` |
| `playerCallback` 568-576 | `PlayerNotify` |
| `runEncoding` 1312-1647 | `RunEncoding`, `TestStarted`, `WaitStart`, `Loop`, `Look`, `Encode`, `Sleep`, `WakeUp` |

Every `RETURNIF_ERROR_BOOL` is a failing alternative of its action when `Failures` is set;
what a failed call has done to the device is left open.

Assumptions: OpenSL does not run the callback while it stops, clears or destroys the
recorder; one control thread; `MaxBacklog`, how far the encoder may fall behind, which is
four seconds of audio in the real ring of 200 frames.  `Orderly` says that the application
stops before it starts again or destroys, and joins `runEncoding` in between.  Nothing in
the code enforces it: `destroyOpenSLEngine` stops a recording in progress itself
(1906-1909) and deletes the codec (1962) that `runEncoding` may be in.  No property speaks
of that case, which `Orderly` rules out.

`CaptureStream` is the promise in Java's terms: of each session it gets frames recorded in
it, recent ones, each once and without a gap after the first, none of an earlier session
afterwards, and the frame the codec reads does not change.  Which frame comes first is left
open, since a restart keeps `mRecorderRead`.  The mapping reads the frame out of the slot
(`Reading`), not out of what the encoder believes it to be, and takes `rolling` from the
device, so that nothing may count as recorded while it stands.

| run | instance | shows |
| --- | --- | --- |
| `recorder` | ring of 3, backlog 2, 4 frames a session, 3 sessions, failing OpenSL calls | `FrameIntact`, `RecInv`, that `Recorder` implements `CaptureStream` (`ImplementsStream`), `EncoderLeaves`, `FramesGetEncoded` |
| `recorder_early` | 1 session | finding: the encoder returns before anything is recorded |
| `recorder_hang` | ring of 2, 2 sessions | finding: the callback never returns after a restart |

Four frames go round a ring of three; three sessions are a restart whose counters were left
by a failed start.  `MaxFrames`, `MaxSessions` bound the run, `MaxRead` stops the counter
of the endless loop above any value that would end it.

Fairness: each thread inside a call goes on (`WF` of `ControlStep`, `CallbackStep`,
`EncoderStep`; the encoder's timed wait expires).  The application need not call anything
and the device need not record.

The findings.  `recorder_early`: the device runs (1019) before `mRecording` is set (1025),
and `mSignal` keeps what was left of the last session, so an encoder that waits for the
start (1367) is woken, finds `mRecording` false (1378) and returns, although the header
(YeeCallRecorder.h:154) says "loop internal, exit until stopRecording called".
`recorder_hang`: `startRecording` resets `mRecorderWrite` and not `mRecorderRead` (1010); if
the old count is more than a ring ahead the loop at 616 moves it further away.  With less
it makes the encoder sleep on recorded frames, as long as the last session was.

Proofs, for every ring length above the backlog: `RecInv` is inductive for an orderly
application.  `FrameIntact` alone is not: that the slot being encoded is not the one being
filled needs `DeviceSlot` (the device has the slot `mRecorderWrite` selects), `Backlog`
and `Unread` (each frame between the counters is in its slot); that a restart disturbs none
of it needs `StartUndisturbed` and `Rearmed`; the order across sessions needs `Progress`.
`TypeCorrect` needs no assumption.  `StreamIsImplemented`: every step of each thread
maps to a step of `CaptureStream` or to a stutter; it needs of `DeviceSlot` that a callback
runs only while the device records, since its counting a frame is the stream's `Record`.

Proofs about the findings.  `TrappedStays`, for every application: a callback in the loop of
616-622 stays in it.  `TrapComesFromOldCount`, for an orderly one: it gets there only if Java
got as many frames of an earlier session as leave no room in this one; `Leftover` says where
`mRecorderRead` comes from.  `EncoderStaysOnceInside`: an encoder that has found
`mRecording` set once stays until a stop is asked for, so that the early return is confined
to the wait for the start.

Model-checked only: `EncoderLeaves`, `FramesGetEncoded` and the findings.

## VoiceCodec

`aec`, `pending`, `howling`, `howlOn`, `stateAEC` are the shared fields, `life` and
`detector` what has become of each object; `ctl` and `enc` say between which accesses to
them the two threads are.

| code (NativeVoiceCodec.cpp) | action |
| --- | --- |
| `open` 138-285, `close` 287-353 | `Open`; `Close`, `CloseAEC`, `DeleteAEC`, `ClearAEC`, `FreeHowling`, `UnsetHowling` |
| `TYPE_AEC`, full and mobile 1075-1103, reset 1104-1132 | `SwitchAEC`, `ResetAEC`, then `Install`, `Retire` |
| `TYPE_AEC`, disable 1066-1074 | `DisableAEC`, `CloseAEC`, `DeleteAEC`, `ClearAEC` |
| `TYPE_HOWLING` 1139-1163 | `SwitchHowling`, `Unhook`, `CloseHowling`, `CreateHowling`, `Hook` |
| `encode` 357-374, 449-504 | `Encode`, `Detect`, `Detected`, `ReadAEC`, `TestAEC`, `Cancelled`, `TakePending`, `ForgetPending`, `DropPending` |
| the rest of `encode`, 505-844 | `Coded` |

Assumptions: one control thread; every caller opens a codec once and deletes it when it has
closed it (YeeCallRecorder.cpp:1691-1692 and 1958-1962, and the JNI wrapper); a codec in
use is not closed (`Recorder`'s `Orderly` application); the encoder sees the two stores of
`Install` and `Retire` in order.  Of the value passed for the detector only the sign is
kept, since 1140-1141 and 369 look at no more.  `Quiet` says that the application disables
cancellation and switches the detector between two frames only; switching and resetting
the canceller are free of it, since for them the code defers the deletion.

| run | instance | shows |
| --- | --- | --- |
| `voice` | 4 cancellers, 2 detectors, quiet | `CancelerAlive`, `DetectorAlive`, `DeletedOnce`, `CodecInv`, `LostOnlyWhilePending`, `PendingIsDropped` |

Four cancellers are enough for one in use, one pending, one installed and one being
created; a detector may also fail to be created, and the value that switches it may be
negative, zero or positive.  Objects are not reused, which bounds the
run; the codec ends closed, so there is no deadlock check.

Fairness: both threads go on with what they have begun (weak); `encode` is called again and
again since frames keep being recorded.  Nothing in the code makes `encode` wait, only
`Quiet` does in the model, hence strong fairness for `Encode`.

Proofs, for any sets of objects and a quiet application: `CodecInv` is inductive.
`CancelerAlive` needs to know of every place a canceller may be (`aec`, `pending`, `doomed`,
`old`, `new`) that it is alive there and in no second place that deletes it: `Installed`,
`Retiring`, `Replacing`.  `Detecting` and `Hearing` do the same for the detector and its
flag.  Seen on the way: a negative value sets the flag (1140) without creating a detector
(1141), and `encode` then calls `doFeedbackDetect` with NULL, which it does not test
(feedbackDetect.c:73).  The header names only zero and "enable" (NativeVoiceCodec.h:63), so
`DetectorAlive` states the exception rather than a finding.  `LossesAreKnown` follows each canceller from field to field (`Owned`).
Model-checked only: `PendingIsDropped`.
Without `Quiet` `CancelerAlive` does not hold: `AEC_TYPE_DISABLE` deletes the canceller at
once (1068-1072), where the comment at 1085 defers it "to be deleted by worker thread".

That every canceller is deleted does not hold.  What does is `LostOnlyWhilePending`: one is
lost, no field leading to it any more, only while it is pending: when another is left for
deletion in its place (1085), or when `encode` clears the field (500) after a newer one was
stored there since the load (499).  One that is pending when `close` is called stays
there, undeleted; and `encode` deletes without `aecmClose`.  Also seen here and
outside the model: `open` sets the quality (198) while `mOpenRef` is still 0, so
`setCodecState` refuses it (950).

## PlaybackEvents

`since` and `lastReport` are `mNoTrafficSince` and `mNoTrafficLastReport`; both threads
write them.  `told`, `outages`, `resumed`, `alarmed` are histories of what Java heard.

| code (YeeCallRecorder.cpp) | action |
| --- | --- |
| `decodeNextFrame` as seen by the flags, 959-968 | `Decode` in `PlayBegin` and `Play` |
| `playerCallback` 362-373 | `Resume`, `CountMissing`, `ClearOutage` |
| nothing to play, 375-414 | `Starve` (`OutageBegins`) |
| the frame goes out, 416-555; the requests, 557-576 | `Play`, `Raise` (`ReportDue`) |
| step 1 of the loop of `runEncoding`, 1395-1439 | `TestData`, `AskData`, `TellEvent`, `TestNoTraffic`, `TellNoTraffic`, `TestTrafficOK`, `Forget`, `ForgetReport`, `TellTrafficOK`, `ZeroMissing` |
| the rest of the loop | `Encode` |

`MaxLag`, the callbacks during one iteration of the encoder, bounds a scheduling that the
code leaves open; the proofs hold for any value of it.

| run | instance | shows |
| --- | --- | --- |
| `playback` | gaps of 2 frames, 8 frames, 2 callbacks an iteration | `OKPerOutage`, `LongOutageNoticed`, `EventsInv`, `RequestsTaken` |
| `playback_alarm` | the same with 10 frames | finding: "no traffic" is told after "traffic ok" |

Eight frames hold two outages of which the second begins while the handler of the first
resets the stamps; gaps of two make the periodic event and the report meet.

Fairness: a callback that has begun ends, the encoder goes round its loop while recording
lasts (weak, each).  The device need not go on playing.

The finding `playback_alarm`.  The encoder takes the flag of "no traffic" down and then
computes the duration from `mNoTrafficSince` (1421), which the player has zeroed if
playback has resumed meanwhile: the duration becomes the length of the call.  When the
player raises "no traffic" after the test at 1418 and "traffic ok" before the one at 1430,
"no traffic" is told last and nothing takes it back, although the header
(YeeCallRecorder.h:107) says it is for a "continuous lack of playback data".

Proofs, for every gap and lag: `EventsInv` is inductive.  `Tokens` counts what may still be
told of an outage: a flag, a handler on its way, an outage not yet over; together with what
has been told it never exceeds the outages.  `Noticed` says how late a report may be while
nobody knows of the outage, and needs `NotAhead`, since a handler may reset one stamp and
not yet the other.  From it `ResumedOncePerOutage` and `LongOutagesNoticed`.
`AlarmsAreLeftAfterOK` narrows the finding down: a "no traffic" that nothing takes back is
left only by the handler's call, `mNoTrafficSince` being zero and "traffic ok" not asked for,
and only when "traffic ok" is what Java was told last: never as the first report, so that an
alarm left behind always replaces the report that the outage is over.  Whether the player
(372) or the handler of "traffic ok" (1432) zeroed the stamp is not part of it.  It needs
`Announced`, that a callback forgets an outage only with "traffic ok" requested or on its
way, and `ToldBack`, that an outage which is over has been told or is about to be.  Model-checked only:
`RequestsTaken` and the finding.

## PlayerRing

A cell of `ring` holds the position in the played stream its sample was decoded for, so
that a wrong sample shows as a wrong number, and whether it has been shaped, that is faded,
muted or replaced by a tone.  Counts are in samples.  Histories: `heard` is what the device
was handed, `missed` the positions that were appended although the decoder had not written
them, `offset` and `sure` the offset and what had been queued when the encoder located its
reference.

| code (YeeCallRecorder.cpp) | action |
| --- | --- |
| `decodeNextFrame`, a frame decoded, perhaps resampled, 699-955 | `DecodeFrame` (`Hungry`, `Append`, `Filled`, `Advanced`) |
| `playerCallback` 375-380 | `EmptyFrame` |
| 416-426, `mPlayerWrite` passes the frame; 429-472, it is changed in place; 475, it is queued | `Publish`; `Shape`; `Enqueue` |
| 555-584 | `Return` |
| `recorderCallback` 599-626 | `RecorderCallback` |
| `runEncoding` 1471-1500 | `Test`, `LoadRecorder`, `LoadPlayer`, `Locate` (`RecPlayOffset`, `CRemainder`, `Assembled`) |
| `encode` has read the reference, 1564-1622 | `Encode` |

The encoder may run between any two of these.  The result of the decoder is ignored (721):
when it fails, or returns less than a frame (NativeVoiceCodec.cpp:846-942), it leaves the
cells it did not write as they were, and the frame counts all the same (`Short`, `missed`).
`Shape` marks every sample of the frame, whether or not it is changed: it stands for the last
moment at which one may be.  Whether the device accepts the frame (475 only warns) is left
open; `heard` is what it was offered.

Assumptions: the offsets and the callbacks an encoder may be late for fit in the ring
(`WindowAssumption`; with the 200 frames of the source the offset takes at most 100).

`ring` checks frames of 3 samples of which resampling keeps 2 or 3, a ring of 6 frames, 8
frames played, offsets of 2 and 3 samples (less than a frame and a frame), two frames
recorded ahead and one callback in a turn of the encoder: more than a lap, a frame that
straddles the end, a reference that does, a player that comes round while the encoder reads.
The decoder may fail, or write one sample only, at position 19 (`FailsAt`), which is in the
second lap, where samples of the first are there to be played by mistake; in the proofs it
may fail anywhere.  The run has 2.3 million states and shows `DeviceFrameIntact`,
`OnlyLapHeadStale`, `ReferencePlayed`, `ReferenceFaithful`, `RingInv`.  There is no liveness
here: the scheduling of the encoder is the subject of `Recorder`.

Proofs, for every frame size, ring of three frames or more, set of offsets, failures of the
decoder and scheduling within the window: `RingInv` is inductive.  `Remembered` says that what
was queued stays until the decoder comes round, `DecodedAhead` that what is decoded is there
but for the spill and for what was missed, `Loaded` relates what the encoder has loaded to
what it is by now, and how far `mPlayerWrite` is ahead of what is queued, and `SpillCopied`
covers the frame behind the ring.  From it `DeviceUndisturbed`, `ReferenceAlwaysPlayed`,
`ReferenceAlwaysFaithful` and `HeardInPlace`.  Nothing is left to TLC alone.

Four things the model makes visible.

* A frame decoded across the end of the ring spills into the room behind it and is not copied
  to the start, where the device plays samples of the lap before: `OnlyLapHeadStale` excepts
  the first frame of a lap.
* Samples a failing decoder does not write are those of the lap before, four seconds old, and
  are played: it excepts `missed`, too.
* `mPlayerWrite` is advanced before the frame is shaped and queued.  With an offset of less
  than a frame the encoder may therefore take as reference samples that are not what the device
  will play: `ReferencePlayed` bounds how many, and says that with a frame or more there are none;
  `ReferenceFaithful` speaks of what had been queued (`sure`).
* Before `mConfigRecPlayOffset` has been played `mPlayerRead` and its C remainder are
  negative: `runEncoding` reads the reference in front of `mPlayerBuffer` (1492).
  `ReferenceFaithful` starts where the position is not negative.

## LatencyMeasurer

An object is a record of the fields of `latencyMeasurer` that its rounds depend on;
`holds[t]` is the pointer callback `t` has loaded from `mLatencyMeasurer`.

| code | definition |
| --- | --- |
| `startMeasuring`, latencyMeasurer.cpp:44-68 | `Started` |
| `processInput`, 71-204: waiting, average, playing | `Waited`, `RoundTaken`; `Averaged`; `Heard` (`Stored`, `Verdict`), `Unheard` |
| `setConfig`, YeeCallRecorder.cpp:1177-1192 | `Measure` |
| both callbacks, 452-470, and 598 with 673-690 | `Load`, `Use`, `Remove`, `Delete` |
| `recorderCallback` returns since it cannot queue a buffer, 625 | `QueueFails` |
| `startRecording`, `stopRecording`, 1009-1025 and 1033-1069 | `StartRecording`, `StopRecording` |
| use or deletion of what has been deleted (undefined) | `Misuse`, after which the model rests |

The object counts in samples (`mSamplesElapsed`) and stores milliseconds as floats (130).
The model keeps the rounds in samples and converts where the code cuts to an int: `Ms` for
the latency so far (154), `MeanMs` for the result (150).  At 8000 and 16000 Hz a round is a
multiple of a sixteenth of a millisecond, which a float holds exactly, as it does the sum of
32 of them; so the comparison of greatest and least (144) is exact in samples.  The result
may be less than the least round, by the part of a millisecond that is cut off;
`ResultSound` compares it with the rounds cut alike.

`recording` says whether the recorder runs and has a buffer to call back about.  It goes when
recording is stopped, and when the callback cannot queue the next buffer: then the frame is
not processed and no callback follows.

Assumptions: Java asks for at most 32 rounds, the length of the array of results; more would
overflow it, and the code has no test.  `serial` says whether the device makes the callbacks
of player and recorder on one thread, which OpenSL does not promise; both are explored.

`measurer` checks frames of 3 samples, a second of 6, and two measurements of 3 rounds or
none: enough for a round lost to a noise and one to silence, for disagreeing rounds, for
results that are no whole milliseconds and for an object installed while another is being
taken out.  The recorder stops, starts and falls silent at any time.  It shows
`ResultSound`, `OneThreadSafe`, `MeasurerInv`, `MeasurementEnds`.

Fairness: while the recorder runs its callbacks come (strong for `Load("recorder")`, since
with `serial` a callback of the player disables it), and a callback that has begun ends
(weak).  Nothing is asked of the player.  A recorder that has stopped owes nothing:
`MeasurementEnds` is about one that runs.

Proofs, for every frame size, rate and set of rounds within 32: `MeasurerInv` is inductive.
`Paid` pays for each round, heard or not, out of those asked for; `Ranged` relates least,
greatest, sum and count; `InTime` bounds a round by a second and a frame; `Alone` says that
on one thread whatever is neither installed nor being removed is freed.  From it `RoundsFit`,
`ResultsSound`, `OneThreadNeverMisuses`.  That the mean, divided and then cut, stays between
the rounds cut one by one is `MeanBetween`: cutting a quotient preserves the order
(`CutInOrder`).  `FramesAreSpent`: whatever is heard, a frame that
`processInput` gets lowers `Left`, what the round under way and those not begun may still
take, by its samples at least; `MeasurementIsBounded`: `Left` starts at no more than two
and a half seconds and three frames for a round, with half a second and a frame before the
first.  Together they are the safety core of `MeasurementEnds`, which is itself only
model-checked.  `MeasurementsNotCutOff`: no measurement is deleted before it is over, on
one thread or two (`Finished`).

Seen on the way.  On two threads the callbacks can take the same object out and delete it
twice: `Misuse` is reachable in the run with `serial = FALSE`; and the pointer that the later
one sets to NULL may be that of the next measurement, which is then lost (hence `serial` in
`NeverCutOff`).  A measurement under way when recording stops stays installed, and the next
session resumes it in the middle of its round.  `mSamplesElapsed` is not reset when a round
ends (155, 159, 169), so "Waiting 1/2 second" (187) may be one frame.  Line 24 says "Repeat
every step until it returns without an error"; what is repeated is the whole round, and each
costs a retry.

## StallRecovery

`write`, `seen`, `stall` are `mPlayerWrite` and `mRecorderWrite`, `mLast...PosFor...`,
`mStallLevel...`; `level` is `mCurrentStallLevel`.  `run` and `carried` are histories: the
callbacks since the other device's last, and whether a restart came since the count was zero.

| code (YeeCallRecorder.cpp) | action |
| --- | --- |
| both callbacks, a frame more (425, 612) and the comparison (517-528, 635-646) | `Advance`, `Check` (`Stalled`, `Counted`) |
| `prepareRecording`, `startRecording`, `stopRecording`, as far as they reset counts or start devices | `Prepare`, `Rearm`, `Record`, `Play`, `StartFails`, `Started`, `Stop`, `Halt` |
| `runEncoding` 1365-1378; 1450-1467 | `Enter`, `Leave`; `LoadLevel`, `StoreLevel` |

`stall` checks limits of 1 and 2, 4 frames between resets and 2 starts: a stall on either
side, a count carried over a failed start, an alarm that comes between the load and the store
of the count down.  It shows `StallNoticed`, `AlarmJustified`, `StallInv`, `RecoveryEnds`.

Fairness: a callback that has begun ends, a call returns, the encoder goes round once it is
in its loop (its wait there has a limit).  No device need call back: that is the stall.

Proofs, for any limits and number of starts: `StallInv` is inductive.  `Noted` says that no
missed callback goes uncounted, whatever is reset; `InSession` that none is counted too many
unless counts of two sessions are mixed.  From it `StallsAreNoticed`, `AlarmsAreJustified`.
`RecoveriesCountDown` is the safety core of `RecoveryEnds`: each load and store of the encoder
brings `mCurrentStallLevel` closer to zero (`CountDown`, which ignores what the store will
overwrite), and only an alarm given outside of the two sets it back.  Model-checked only:
`RecoveryEnds`.

Seen on the way.  The exception of `AlarmJustified` is real: `startRecording` zeroes
`mRecorderWrite` (1010) but neither what the player saw of it nor its count, so the count of
one session goes on in the next.  An alarm given between the load and the store of
`mCurrentStallLevel--` (1457) is overwritten by the old count.  And the encoder counts down
once per turn of its loop, whether or not a frame was recorded, so that a recovery is shorter
than the "10 frame time" of YeeCallRecorder.h:116.

## What is not modelled and why

* Device latency (`calculateAudioLatency`, `applyAudioLatency`, parts of `setConfig`): a
  histogram averaged when hands-free is switched.  What can be stated are ranges of one
  function; of the unlocked resets by `setConfig`, `stopRecording` and `playerCallback` the
  code promises nothing that could be checked.  Read closely, it has "estimated latency out
  of range. reset & ignore" (2063) return 0, which both callers count as a measurement.
* Smoothing (`smoothVoicePlay`, `smoothVoiceRecord`): weighted averages of neighbouring
  samples, without state between threads.
* Opus and Speex objects, the WebRTC wrappers: sequential code around one handle, called by
  Java code that is not in the repository or with the codec's calls already in `VoiceCodec`.
* Signal processing (AEC, AECM, high pass, noise and howling detection) and JNI glue have no
  state a protocol property is about.
* The demo objects (`AListener`, `YCRecorder`, the Java codec classes): straight-line use of
  OpenSL and `MediaCodec`; their queues are inside the platform.
* `Trap2FindProblem.cpp` and the `YC*` stubs are not compiled; vendored code (WebRTC, Opus,
  Speex, rnnoise, the FFT), which is most of the tree, is not this project's.

Partly modelled: `create` and the failures of `createOpenSLEngine` (1675-1710), the
destructor, the loop-back of the debug mode, volumes, mute and fades, and
`mAlignedRecordPlayOffset`, which is only shown to Java.
