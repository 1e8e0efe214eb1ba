---------------------------- MODULE StallRecovery ----------------------------
(***************************************************************************)
(* How a stall of one audio device is noticed by the callback of the other *)
(* and answered by the encoder.                                            *)
(*                                                                         *)
(* Each callback counts its own frames and compares the other's count with *)
(* the one it saw last time.  If that has not grown for too many callbacks *)
(* it sets mCurrentStallLevel, which the encoder counts down, clearing a   *)
(* frame of the microphone each time.  Nothing is locked.                  *)
(*                                                                         *)
(* Counts are in frames.  A device that runs need not call back: that is a *)
(* stall.  OpenSL makes no callback while a device is stopped (Recorder).  *)
(* The frames, and what the encoder does with them, are not modelled, nor  *)
(* mAlignedRecordPlayOffset, which is only shown to Java.                  *)
(***************************************************************************)
EXTENDS Integers

CONSTANTS
  Limit,         \* STALL_LEVEL_LIMIT
  Recovery,      \* STALL_RECOVERY
  MaxFrames,     \* bound of the model: frames of a device between two resets
  MaxStarts      \* bound of the model: attempts to start

ASSUME StallAssumption ==
  Limit \in Nat /\ Recovery \in Nat \ {0} /\ MaxFrames \in Nat /\ MaxStarts \in Nat

VARIABLES
  write,         \* mPlayerWrite, mRecorderWrite
  seen,          \* mLastRecordPosForPlay (of the player), mLastPlayPosForRecord
  stall,         \* mStallLevelRecord (counted by the player), mStallLevelPlay
  level,         \* mCurrentStallLevel
  place,         \* where each callback is
  running,       \* the devices that run
  ctl,           \* where startRecording or stopRecording is
  recording,     \* mRecording
  starts,
  enc,           \* where runEncoding is
  reg,           \* the level it has loaded
  run,           \* history: callbacks since the other device's last one
  carried        \* history: a restart came after stall was last zero

countVars == <<write, seen, stall, run, carried>>
ctlVars   == <<ctl, recording, starts, running>>
encVars   == <<enc, reg>>
vars == <<countVars, level, place, ctlVars, encVars>>

Devices == {"player", "recorder"}
Other(t) == IF t = "player" THEN "recorder" ELSE "player"

AllAway == \A t \in Devices : place[t] = "away"

-----------------------------------------------------------------------------
(***************************************************************************)
(* playerCallback and recorderCallback.                                    *)
(***************************************************************************)

\* A frame has been played, or recorded.
Advance(t) ==
  /\ t \in running
  /\ place[t] = "away"
  /\ write[t] < MaxFrames
  /\ write' = [write EXCEPT ![t] = @ + 1]
  /\ run' = [run EXCEPT ![Other(t)] = 0]
  /\ place' = [place EXCEPT ![t] = "check"]
  /\ UNCHANGED <<seen, stall, carried, level, ctlVars, encVars>>

\* Fault: the count seen last time is taken for a newer one.
StalledIfOlder(t) == seen[t] > write[Other(t)]

\* mLastRecordPosForPlay >= mRecorderWrite
Stalled(t) == seen[t] >= write[Other(t)]

\* Fault: a device that goes on is not forgiven.
CountedForEver(t) == IF Stalled(t) THEN stall[t] + 1 ELSE stall[t]

Counted(t) == IF Stalled(t) THEN stall[t] + 1 ELSE 0

\* Check whether the other device goes on.  The count is loaded once: nothing is
\* called between the test and its other use.
Check(t) ==
  /\ place[t] = "check"
  /\ stall' = [stall EXCEPT ![t] = Counted(t)]
  /\ seen' = [seen EXCEPT ![t] = write[Other(t)]]
  /\ level' = IF Counted(t) > Limit THEN Recovery ELSE level
  /\ run' = [run EXCEPT ![t] = @ + 1]
  /\ carried' = [carried EXCEPT ![t] = @ /\ Stalled(t)]
  /\ place' = [place EXCEPT ![t] = "away"]
  /\ UNCHANGED <<write, ctlVars, encVars>>

Callback(t) == Advance(t) \/ Check(t)

-----------------------------------------------------------------------------
(***************************************************************************)
(* prepareRecording, startRecording, stopRecording.                        *)
(***************************************************************************)

\* The counts are zeroed; what the callbacks saw and counted is not.
Reset(zero) ==
  /\ write' = [t \in Devices |-> IF t \in zero THEN 0 ELSE write[t]]
  /\ carried' = [t \in Devices |-> carried[t] \/ Other(t) \in zero]
  /\ running' = {}

\* Both devices are created anew, or the recorder is and an OpenSL call fails.
Prepare ==
  /\ ctl = "idle" /\ ~recording
  /\ AllAway
  /\ \E zero \in {{"recorder"}, Devices} : Reset(zero)
  /\ UNCHANGED <<seen, stall, run, level, place, ctl, recording, starts, encVars>>

\* Both devices are stopped, then mRecorderWrite = 0.
Rearm ==
  /\ ctl = "idle" /\ ~recording
  /\ enc = "out"
  /\ AllAway
  /\ starts < MaxStarts
  /\ starts' = starts + 1
  /\ Reset({"recorder"})
  /\ ctl' = "armed"
  /\ UNCHANGED <<seen, stall, run, level, place, recording, encVars>>

\* The recorder is started first, ...
Record ==
  /\ ctl = "armed"
  /\ running' = {"recorder"}
  /\ ctl' = "record"
  /\ UNCHANGED <<countVars, level, place, recording, starts, encVars>>

\* ... then the player.
Play ==
  /\ ctl = "record"
  /\ running' = Devices
  /\ ctl' = "play"
  /\ UNCHANGED <<countVars, level, place, recording, starts, encVars>>

\* An OpenSL call fails; what runs goes on running.
StartFails ==
  /\ ctl \in {"armed", "record"}
  /\ ctl' = "idle"
  /\ UNCHANGED <<countVars, level, place, recording, starts, running, encVars>>

Started ==
  /\ ctl = "play"
  /\ recording' = TRUE
  /\ ctl' = "idle"
  /\ UNCHANGED <<countVars, level, place, starts, running, encVars>>

\* mRecording = false, ...
Stop ==
  /\ ctl = "idle" /\ recording
  /\ recording' = FALSE
  /\ ctl' = "stop"
  /\ UNCHANGED <<countVars, level, place, starts, running, encVars>>

\* ... then the devices are stopped, which may fail.
Halt ==
  /\ ctl = "stop"
  /\ AllAway
  /\ running' \in {running, {}}
  /\ ctl' = "idle"
  /\ UNCHANGED <<countVars, level, place, recording, starts, encVars>>

Control == Prepare \/ Rearm \/ Record \/ Play \/ StartFails \/ Started \/ Stop \/ Halt

-----------------------------------------------------------------------------
(***************************************************************************)
(* runEncoding.                                                            *)
(***************************************************************************)

\* Fault: the level is taken down whatever it is.
RecoveringAlways == TRUE

\* mCurrentStallLevel > 0
Recovering == level > 0

\* Fault: the level stays.
LoweredNever == reg

Lowered == reg - 1

\* The loop is entered, and left when mRecording has been reset.
Enter ==
  /\ enc = "out"
  /\ recording
  /\ enc' = "turn"
  /\ UNCHANGED <<countVars, level, place, ctlVars, reg>>

Leave ==
  /\ enc = "turn"
  /\ ~recording
  /\ enc' = "out"
  /\ UNCHANGED <<countVars, level, place, ctlVars, reg>>

\* A turn of the loop: the level is loaded, ...
LoadLevel ==
  /\ enc = "turn"
  /\ recording
  /\ Recovering
  /\ reg' = level
  /\ enc' = "recover"
  /\ UNCHANGED <<countVars, level, place, ctlVars>>

\* ... and taken down, whatever a callback has stored meanwhile.
StoreLevel ==
  /\ enc = "recover"
  /\ level' = Lowered
  /\ reg' = 0
  /\ enc' = "turn"
  /\ UNCHANGED <<countVars, place, ctlVars>>

Encoder == Enter \/ Leave \/ LoadLevel \/ StoreLevel

-----------------------------------------------------------------------------
\* createOpenSLEngine; the device may come with the first buffer.
Init ==
  /\ write = [t \in Devices |-> 0] /\ seen = [t \in Devices |-> 0]
  /\ stall = [t \in Devices |-> 0] /\ level = 0
  /\ place = [t \in Devices |-> "away"] /\ running = {}
  /\ ctl = "idle" /\ recording = FALSE /\ starts = 0
  /\ enc = "out" /\ reg = 0
  /\ run = [t \in Devices |-> 0] /\ carried = [t \in Devices |-> FALSE]

Next == Control \/ Encoder \/ \E t \in Devices : Callback(t)

Spec == Init /\ [][Next]_vars

\* A callback that has begun comes to its end, a call returns, and the encoder,
\* once in its loop, goes round (its wait there has a time limit).  No device need
\* call back, and the encoder need not enter.
FairSpec ==
  /\ Spec
  /\ \A t \in Devices : WF_vars(Check(t))
  /\ WF_vars(Record \/ Play \/ Started \/ Halt)
  /\ WF_vars(Leave \/ LoadLevel \/ StoreLevel)

-----------------------------------------------------------------------------
(***************************************************************************)
(* Properties.                                                             *)
(***************************************************************************)

\* The types of counts, levels and places; the level is never negative.
TypeOK ==
  /\ write \in [Devices -> Nat] /\ seen \in [Devices -> Nat]
  /\ stall \in [Devices -> Nat] /\ run \in [Devices -> Nat]
  /\ carried \in [Devices -> BOOLEAN]
  /\ level \in 0..Recovery /\ reg \in 0..Recovery
  /\ place \in [Devices -> {"away", "check"}]
  /\ running \subseteq Devices
  /\ ctl \in {"idle", "armed", "record", "play", "stop"}
  /\ recording \in BOOLEAN /\ starts \in Nat
  /\ enc \in {"out", "turn", "recover"}

Alarm(t) == stall[t] > Limit

\* Whatever the restarts between them, no more than Limit + 1 callbacks of a
\* device come without one of the other before the alarm is given.
StallNoticed == \A t \in Devices : run[t] > Limit + 1 => Alarm(t)

\* A callback gives the alarm only when the other device has missed that many
\* callbacks indeed, or counts from before a restart are mixed in.
AlarmJustified ==
  [][\A t \in Devices :
       Check(t) /\ Alarm(t)' => run'[t] > Limit \/ carried'[t]]_vars

\* A recovery the encoder works on comes to an end, although its count down and
\* the stores of the callbacks overwrite each other, unless the recording stops or
\* a device goes on stalling.
RecoveryEnds ==
  level > 0 /\ recording /\ enc # "out"
    ~> level = 0 \/ ~recording \/ \E t \in Devices : Alarm(t)
=============================================================================
