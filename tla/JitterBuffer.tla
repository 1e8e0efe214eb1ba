---------------------------- MODULE JitterBuffer ----------------------------
(***************************************************************************)
(* The queue between the network and the loudspeaker in YeeCallRecorder.   *)
(*                                                                         *)
(* A Java network thread appends encoded frames to mPendingBuffer          *)
(* (playDataAvailable); the OpenSL player thread takes them out again,     *)
(* decodes them into the playback ring and hands one frame per callback to *)
(* the device (playerCallback, decodeNextFrame).  There is no lock: both   *)
(* threads write mPendingRead, and the player keeps pointers into          *)
(* mPendingBuffer while the network thread goes on filling it.             *)
(*                                                                         *)
(* A step is one access to what the other thread can write, with the local *)
(* work around it: mPendingRead++ is a load and a store, and the overrun   *)
(* can come between them.  Frames are named by the value mPendingWrite had *)
(* when they arrived, which is what frameId holds; of their payload only   *)
(* the length class matters.  The playback ring is kept as its fill level. *)
(*                                                                         *)
(* Counters and flags that only produce events for Java (frame counts,     *)
(* the mRequest* flags) and the volume ramps are not part of this module.  *)
(***************************************************************************)
EXTENDS Integers

CONSTANTS
  Capacity,       \* PENDING_FRAME_COUNT: slots of mPendingBuffer        (128)
  DropLimit,      \* backlog above which frames are thrown away          (100)
  RewindMargin,   \* backlog up to which silence may be repeated         (4)
  RecoveryMargin, \* the same while recovering from an underrun          (25)
  RecoveryCount,  \* JITTER_RECOVERY_COUNT: frames a recovery lasts      (100)
  CatchUp,        \* backlogs above which playback is sped up, 1..4      (40,50,60,80)
  SkipMax,        \* largest debt of skipped silence that is remembered  (50)
  InitialDebt,    \* mSkippedFrameCount of a new recorder                (20)
  SamplesPerFrame,\* mSamplesPerFrame                                    (320)
  InOrder,        \* whether the network thread's stores become visible in
                  \* program order (x86) or not (ARMv7; there is no barrier)
  MaxWrites,      \* bound of the model: frames the network delivers
  MaxBurst,       \* scheduling: frames that can arrive during one decode
  MaxLag          \* scheduling: frames the player can advance between the
                  \* network thread's overrun test and its assignment

\* mPendingWrite - (PENDING_FRAME_COUNT / 2): frames kept by an overrun.
Keep == Capacity \div 2

ASSUME SizesAssumption ==
  /\ Capacity \in Nat /\ DropLimit \in Nat
  /\ 0 < Keep /\ Keep <= DropLimit /\ DropLimit + 1 < Capacity

ASSUME TuningAssumption ==
  /\ RewindMargin \in Nat /\ RecoveryMargin \in Nat /\ RecoveryCount \in Nat
  /\ SkipMax \in Nat /\ InitialDebt \in 0..SkipMax
  /\ CatchUp \in [1..4 -> Nat]
  /\ SamplesPerFrame \in Nat \ {0}
  /\ InOrder \in BOOLEAN

ASSUME SchedulingAssumption ==
  /\ MaxWrites \in Nat
  /\ MaxBurst \in Nat /\ MaxBurst + DropLimit + 1 <= Capacity /\ MaxBurst < DropLimit
  /\ MaxLag \in Nat /\ MaxLag + Keep <= DropLimit

(***************************************************************************)
(* Length classes of a frame.  Every decision about the queue tests        *)
(* `length <= 1', which holds of a one byte (silence) frame and of a lost  *)
(* one alike; which of the two it is only selects the codec call.          *)
(***************************************************************************)
Voice   == "voice"
Silence == "silence"
Kinds   == {Voice, Silence}

None == -1

VARIABLES
  slots,         \* mPendingBuffer: id and length class of each slot
  pendingRead,   \* mPendingRead
  pendingWrite,  \* mPendingWrite
  net,           \* where the network thread is in playDataAvailable
  pc,            \* where the player thread is
  primed,        \* TRUE in the decodeNextFrame call that follows Enqueue
  reg,           \* what the player is about to store in mPendingRead
  cur,           \* the frame `frame' points to
  next,          \* the frame `frameNext' points to, None for NULL
  action,        \* the local variable actions
  samples,       \* samples the frame leaves in the ring
  gap,           \* mPlayerPending - mPlayerWrite
  skipped,       \* mSkippedFrameCount
  recovery,      \* mInJitterRecovery
  burst,         \* history: stores begun since the player took cur
  lag,           \* history: frames passed since the overrun test
  undone,        \* history: a drop is undone by an overrun found before it, and
                 \* the player is not past what it has played yet
  heard          \* history: one more than the last voice frame decoded

netVars   == <<slots, pendingWrite, net>>
locals    == <<cur, next, action, samples>>
audioVars == <<gap, skipped, recovery>>
history   == <<burst, lag, undone, heard>>
vars == <<netVars, pendingRead, pc, primed, reg, locals, audioVars, history>>

Slot(i)    == slots[i % Capacity]
Quiet(i)   == Slot(i).kind # Voice
Backlog    == pendingWrite - pendingRead

\* The tests that choose the post decode action, and the states in which the
\* player points to a frame it has taken.
Deciding == {"decide", "repeat", "speed", "elapsed", "stretch"}
Holding  == pc \in {"fetch", "peek", "decode"} \cup Deciding
InFlight == Holding \/ pc \in {"apply", "adjust", "trim", "drop"}

\* History: frames the player has passed while an overrun is being handled.
Passed == IF net = "jump" THEN lag + 1 ELSE lag

-----------------------------------------------------------------------------
(***************************************************************************)
(* The network thread: playDataAvailable.                                  *)
(***************************************************************************)

Arrive ==
  /\ net = "idle"
  /\ pendingWrite < MaxWrites
  /\ InFlight => burst < MaxBurst
  /\ burst' = IF InFlight THEN burst + 1 ELSE burst
  /\ UNCHANGED <<pendingRead, pc, primed, reg, locals, audioVars, lag, undone, heard>>

Fill(i, kind) ==
  slots' = [slots EXCEPT ![i % Capacity] = [id |-> i, kind |-> kind]]

\* The frame is copied into the slot mPendingWrite selects ...
StoreFrame(kind) ==
  /\ Arrive
  /\ Fill(pendingWrite, kind)
  /\ net' = "storing"
  /\ UNCHANGED pendingWrite

\* ... and published.
Publish ==
  /\ net = "storing"
  /\ pendingWrite' = pendingWrite + 1
  /\ net' = "check"
  /\ UNCHANGED <<slots, pendingRead, pc, primed, reg, locals, audioVars, history>>

\* Without a barrier the new mPendingWrite may be seen before the frame is.
PublishEarly ==
  /\ ~InOrder
  /\ Arrive
  /\ pendingWrite' = pendingWrite + 1
  /\ net' = "early"
  /\ UNCHANGED slots

StoreFrameLate(kind) ==
  /\ net = "early"
  /\ Fill(pendingWrite - 1, kind)
  /\ net' = "check"
  /\ UNCHANGED <<pendingWrite, pendingRead, pc, primed, reg, locals, audioVars, history>>

\* Faults: the overrun test is left out; it compares with the slot count.
OverrunNever      == FALSE
OverrunAtCapacity == Backlog >= Capacity

\* if (mPendingWrite - mPendingRead > 100)
Overrun == Backlog > DropLimit

CheckOverrun ==
  /\ net = "check"
  /\ net' = IF Overrun THEN "jump" ELSE "idle"
  /\ UNCHANGED <<slots, pendingWrite, pendingRead, pc, primed, reg, locals, audioVars, history>>

JumpTarget == pendingWrite - Keep

\* mPendingRead = mPendingWrite - (PENDING_FRAME_COUNT / 2)
Jump ==
  /\ net = "jump"
  /\ pendingRead' = JumpTarget
  /\ net' = "idle"
  /\ lag' = 0
  /\ UNCHANGED <<slots, pendingWrite, pc, primed, reg, locals, audioVars,
                 burst, undone, heard>>

Network ==
  \/ \E kind \in Kinds : StoreFrame(kind)
  \/ Publish
  \/ PublishEarly
  \/ \E kind \in Kinds : StoreFrameLate(kind)
  \/ CheckOverrun
  \/ Jump

-----------------------------------------------------------------------------
(***************************************************************************)
(* The player thread: decodeNextFrame, called before and after Enqueue.    *)
(***************************************************************************)

\* The device has played a buffer.
Callback ==
  /\ pc = "idle"
  /\ pc' = "loop"
  /\ primed' = FALSE
  /\ undone' = (undone /\ (net = "jump" \/ pendingRead < heard))
  /\ UNCHANGED <<netVars, pendingRead, reg, locals, audioVars, burst, lag, heard>>

\* Fault: one more frame is decoded when exactly one is already there.
HungryOneMore == gap <= SamplesPerFrame

\* mPlayerPending - mPlayerWrite < mSamplesPerFrame
Hungry == gap < SamplesPerFrame

\* Less than a frame is decoded and a frame is pending: take it.  The load of
\* mPendingRead++ ...
Take ==
  /\ pc = "loop"
  /\ Hungry
  /\ pendingRead < pendingWrite
  /\ net = "jump" => lag < MaxLag
  /\ cur' = pendingRead
  /\ reg' = pendingRead + 1
  /\ burst' = 0
  /\ lag' = Passed
  /\ pc' = "fetch"
  /\ UNCHANGED <<netVars, pendingRead, primed, next, action, samples, audioVars,
                 undone, heard>>

\* ... and its store: an overrun that came in between is lost.
StoreTaken ==
  /\ pc = "fetch"
  /\ pendingRead' = reg
  /\ pc' = "peek"
  /\ UNCHANGED <<netVars, primed, reg, locals, audioVars, history>>

\* frameNext, if one more frame has been published.  mPendingRead may be read
\* again or still be in a register.
Peek ==
  /\ pc = "peek"
  /\ \E r \in {reg, pendingRead} : next' = IF pendingWrite > r THEN r ELSE None
  /\ reg' = None
  /\ pc' = "decode"
  /\ UNCHANGED <<netVars, pendingRead, primed, cur, action, samples, audioVars, history>>

\* The codec reads the frame, or conceals it with the next one or with nothing.
Decode ==
  /\ pc = "decode"
  /\ heard' = IF Quiet(cur) THEN heard ELSE Slot(cur).id + 1
  /\ pc' = "decide"
  /\ UNCHANGED <<netVars, pendingRead, primed, reg, locals, audioVars, burst, lag, undone>>

\* Samples left of a frame when one in `level' is merged with its neighbour.
Resampled(level) == SamplesPerFrame - SamplesPerFrame \div level

\* One sample in this many is merged, the more the longer the backlog.
ReduceLevel ==
  IF Backlog > CatchUp[4] THEN 4 ELSE
  IF Backlog > CatchUp[3] THEN 8 ELSE
  IF Backlog > CatchUp[2] THEN 16 ELSE 32

\* The tests of the post decode action read the cursors afresh, one by one.
\* Each either settles the action or goes on to the next test.
Settle(act, left) == action' = act /\ samples' = left /\ pc' = "apply"
GoOn(test)        == pc' = test /\ UNCHANGED <<action, samples>>

\* Fault: only the frame just decoded is looked at before a skip.
CanSkipBlindly == Backlog >= 2 /\ next # None /\ Quiet(cur)

\* Recovery mode off, 1: two silent frames in a row, skip the second.
CanSkip == Backlog >= 2 /\ next # None /\ Quiet(cur) /\ Quiet(next)

DecideSkip ==
  /\ pc = "decide" /\ recovery <= 0
  /\ IF CanSkip THEN Settle("skip", SamplesPerFrame) ELSE GoOn("repeat")
  /\ UNCHANGED recovery

\* Fault: whatever was just decoded is repeated.
CanRepeatAny == Backlog <= RewindMargin

\* Recovery mode off, 2: short of frames, repeat silence.
CanRepeat == Backlog <= RewindMargin /\ Quiet(cur)

DecideRepeat ==
  /\ pc = "repeat"
  /\ IF CanRepeat THEN Settle("rewind", SamplesPerFrame) ELSE GoOn("speed")
  /\ UNCHANGED recovery

\* Recovery mode off, 3: too many frames, resample.
DecideSpeed ==
  /\ pc = "speed"
  /\ IF Backlog > CatchUp[1] THEN Settle("speedup", Resampled(ReduceLevel))
                             ELSE Settle("none", SamplesPerFrame)
  /\ UNCHANGED recovery

\* Recovery mode on, 1: it ends with too long a backlog ...
EndRecoveryByBacklog ==
  /\ pc = "decide" /\ recovery > 0
  /\ recovery' = IF Backlog > CatchUp[1] THEN -1 ELSE recovery
  /\ GoOn("elapsed")

\* ... 2: or after RecoveryCount frames (which is also what -1 comes to) ...
EndRecoveryByCount ==
  /\ pc = "elapsed"
  /\ recovery' = IF pendingRead - recovery > RecoveryCount THEN -1 ELSE recovery
  /\ GoOn("stretch")

\* ... 3: and while it lasts silence is repeated up to a larger backlog.
DecideStretch ==
  /\ pc = "stretch"
  /\ IF recovery > 0 /\ Quiet(cur) /\ Backlog < RecoveryMargin
     THEN Settle("rewind", SamplesPerFrame) ELSE Settle("none", SamplesPerFrame)
  /\ UNCHANGED recovery

Decide ==
  /\ \/ DecideSkip \/ DecideRepeat \/ DecideSpeed
     \/ EndRecoveryByBacklog \/ EndRecoveryByCount \/ DecideStretch
  /\ UNCHANGED <<netVars, pendingRead, primed, reg, cur, next, gap, skipped, history>>

\* mPendingRead++ of a skip, the load.
ApplySkip ==
  /\ action = "skip"
  /\ reg' = pendingRead + 1
  /\ skipped' = IF skipped < SkipMax THEN skipped + 1 ELSE skipped
  /\ lag' = Passed
  /\ pc' = "adjust"

\* Fault: repeating silence does not use up the debt.
RepaidNothing == skipped

Repaid == skipped - 1

\* mPendingRead-- of a rewind, the load: only against silence skipped earlier.
ApplyRewind ==
  /\ action = "rewind"
  /\ skipped > 0
  /\ reg' = pendingRead - 1
  /\ skipped' = Repaid
  /\ pc' = "adjust"
  /\ UNCHANGED lag

ApplyOther ==
  /\ \/ action \in {"none", "speedup"}
     \/ action = "rewind" /\ skipped = 0
  /\ pc' = "trim"
  /\ UNCHANGED <<reg, skipped, lag>>

Apply ==
  /\ pc = "apply"
  /\ ApplySkip \/ ApplyRewind \/ ApplyOther
  /\ gap' = gap + samples
  /\ UNCHANGED <<netVars, pendingRead, primed, locals, recovery, burst, undone, heard>>

\* The store of a skip or of a rewind.
StoreAdjusted ==
  /\ pc = "adjust"
  /\ pendingRead' = reg
  /\ reg' = None
  /\ pc' = "trim"
  /\ UNCHANGED <<netVars, primed, locals, audioVars, history>>

\* The locals of the loop body go out of scope.
EndOfBody ==
  /\ cur' = None /\ next' = None /\ action' = "none" /\ samples' = 0
  /\ reg' = None
  /\ burst' = 0
  /\ pc' = "loop"

\* drop all if latency too large: mPendingRead = mPendingWrite, the load ...
Trim ==
  /\ pc = "trim"
  /\ IF Backlog > DropLimit
     THEN pc' = "drop" /\ reg' = pendingWrite /\ UNCHANGED <<locals, burst>>
     ELSE EndOfBody
  /\ UNCHANGED <<netVars, pendingRead, primed, audioVars, lag, undone, heard>>

\* ... and the store.  If frames arrived in between and the network thread has
\* already found an overrun, its assignment will undo the drop.
Drop ==
  /\ pc = "drop"
  /\ pendingRead' = reg
  /\ EndOfBody
  /\ undone' = (undone \/ (net = "jump" /\ reg < pendingWrite))
  /\ UNCHANGED <<netVars, primed, audioVars, lag, heard>>

\* Enough is decoded, or nothing is pending.  The first call goes on to play,
\* the second one ends the callback.
LoopExit ==
  /\ pc = "loop"
  /\ ~Hungry \/ pendingRead >= pendingWrite
  /\ pc' = IF primed THEN "idle" ELSE "play"
  /\ UNCHANGED <<netVars, pendingRead, primed, reg, locals, audioVars, history>>

Owed == skipped > 0

\* Short of samples an empty frame is appended first.  It pays for a skipped
\* silence if there is one, else it is an underrun and starts recovery mode.
\* Then a frame is enqueued and the decoder is called again.
Play ==
  /\ pc = "play"
  /\ IF gap >= SamplesPerFrame
     THEN gap' = gap - SamplesPerFrame /\ UNCHANGED <<skipped, recovery>>
     ELSE /\ gap' = gap
          /\ IF Owed
             THEN skipped' = skipped - 1 /\ UNCHANGED recovery
             ELSE recovery' = pendingRead /\ UNCHANGED skipped
  /\ primed' = TRUE
  /\ pc' = "loop"
  /\ UNCHANGED <<netVars, pendingRead, reg, locals, history>>

Player ==
  \/ Callback \/ Take \/ StoreTaken \/ Peek \/ Decode \/ Decide \/ Apply
  \/ StoreAdjusted \/ Trim \/ Drop \/ LoopExit \/ Play

-----------------------------------------------------------------------------
Init ==
  /\ slots = [s \in 0..Capacity - 1 |-> [id |-> None, kind |-> Silence]]
  /\ pendingRead = 0 /\ pendingWrite = 0
  /\ net = "idle"
  /\ pc = "idle" /\ primed = FALSE /\ reg = None
  /\ cur = None /\ next = None /\ action = "none" /\ samples = 0
  /\ gap = 0 /\ skipped = InitialDebt /\ recovery = -1
  /\ burst = 0 /\ lag = 0 /\ undone = FALSE /\ heard = 0

Next == Network \/ Player

(***************************************************************************)
(* OpenSL calls back each time a buffer has been played, and every callback*)
(* enqueues one, so the player keeps running.  The network thread owes     *)
(* nothing except that a playDataAvailable call it has begun returns.      *)
(***************************************************************************)
Returning == Publish \/ (\E kind \in Kinds : StoreFrameLate(kind)) \/ CheckOverrun \/ Jump
Fairness  == WF_vars(Player) /\ WF_vars(Returning)

Spec     == Init /\ [][Next]_vars
FairSpec == Spec /\ Fairness

-----------------------------------------------------------------------------
(***************************************************************************)
(* Properties.                                                             *)
(***************************************************************************)

TypeOK ==
  /\ slots \in [0..Capacity - 1 -> [id : Nat \cup {None}, kind : Kinds]]
  /\ pendingRead \in Nat /\ pendingWrite \in Nat
  /\ net \in {"idle", "storing", "early", "check", "jump"}
  /\ pc \in {"idle", "loop", "fetch", "peek", "decode", "apply", "adjust",
             "trim", "drop", "play"} \cup Deciding
  /\ primed \in BOOLEAN
  /\ reg \in Nat \cup {None}
  /\ cur \in Nat \cup {None} /\ next \in Nat \cup {None}
  /\ action \in {"none", "skip", "rewind", "speedup"}
  /\ samples \in 0..SamplesPerFrame /\ gap \in Nat
  /\ skipped \in 0..SkipMax
  /\ recovery \in Nat \cup {-1}
  /\ burst \in Nat /\ lag \in Nat /\ undone \in BOOLEAN /\ heard \in Nat

\* However the two threads' updates of mPendingRead overwrite each other, the
\* backlog never goes negative and never outgrows the slots (comment at the
\* drop in decodeNextFrame: "should less than PENDING_FRAME_COUNT to avoid
\* buffer overflow").
BacklogBounded == 0 <= Backlog /\ Backlog <= Capacity

\* Every frame still to be played is in its slot ("write the frame & move to
\* next position", playDataAvailable).
PendingFramesStored ==
  \A i \in pendingRead..pendingWrite - 1 : Slot(i).id = i

\* The slots behind the pointers decodeNextFrame keeps across the codec call
\* still hold the frames they held when the pointers were taken, as long as at
\* most MaxBurst frames arrive during one decode.
HeldFramesIntact ==
  Holding => /\ Slot(cur).id = cur
             /\ pc \notin {"fetch", "peek"} /\ next # None => Slot(next).id = next

\* The voice frame the codec is reading.
Decoding == IF pc = "decode" /\ ~Quiet(cur) THEN Slot(cur).id ELSE None

\* The codec reads a frame that has arrived, at most as old as a full backlog and
\* the frames of one decode, which nothing overwrites meanwhile and which comes
\* after every voice frame decoded before, except while an overrun undoes a drop
\* of the whole backlog.  Lost updates of mPendingRead, skips, rewinds and slot
\* numbers that wrap around are not heard.
Queue == INSTANCE PlayoutQueue
           WITH Depth <- DropLimit + 1 + MaxBurst, arrived <- pendingWrite,
                decoding <- Decoding, stepBack <- undone
ImplementsQueue == Queue!Spec

\* Unless the network thread moved mPendingRead in between, what a skip
\* discards is silence, and what a rewind repeats is the silence just decoded.
OnlySilenceAdjusted ==
  [][ pc = "apply" /\ pc' = "adjust" /\ pendingRead = cur + 1 /\ ~undone
      => IF reg' > pendingRead THEN Quiet(pendingRead) ELSE Quiet(cur) ]_<<pc, reg>>

\* An underrun starts recovery only when no skipped silence is owed, and nothing
\* is skipped during recovery: the two never hold together.
NoDebtInRecovery == recovery > 0 => skipped = 0

\* The playback ring is never asked to hold two whole frames, whatever the
\* resampling does.
RingFillBounded ==
  /\ 0 <= gap /\ gap < 2 * SamplesPerFrame
  /\ Holding \/ pc = "apply" => gap < SamplesPerFrame

\* When no more frames arrive the backlog is played out: skipping and repeating
\* silence cannot keep the player on the same frames for ever.
BacklogDrains == <>[](pendingRead = pendingWrite)
=============================================================================
