----------------------------- MODULE VoiceCodec -----------------------------
(***************************************************************************)
(* NativeVoiceCodec: what setCodecState replaces while encode is running.  *)
(*                                                                         *)
(* The encoder thread is in encode for every recorded frame.  Meanwhile    *)
(* the control thread, through setConfig, may switch the echo canceller or *)
(* the howling detector.  There is no lock: a canceller that is replaced   *)
(* is left in mEchoCancelerPendingDelete, and encode deletes what it finds *)
(* there after it has cancelled echo; one that is disabled is closed and   *)
(* deleted at once, and so is a detector.                                  *)
(*                                                                         *)
(* A step of either thread touches one shared field.  The codec, the noise *)
(* suppressors, gain control and the filters are created by open and freed *)
(* by close only; what encode does with them is not followed.  Each caller *)
(* opens the codec it has just created, and deletes it when it has closed  *)
(* it, so that a codec in use must not be closed at all (see Recorder).    *)
(***************************************************************************)
EXTENDS Integers

CONSTANTS
  Cancelers,   \* IAcousticEchoCanceler objects there may ever be
  Detectors,   \* feedbackDetect objects there may ever be
  Nil,         \* NULL
  Quiet        \* whether the application disables cancellation and switches the
               \* detector only while no frame is being encoded

ASSUME ObjectsAssumption == Nil \notin Cancelers /\ Nil \notin Detectors
ASSUME QuietAssumption == Quiet \in BOOLEAN

VARIABLES
  codec,      \* "open" while mOpenRef is 1
  stateAEC,   \* mStateAEC
  aec,        \* mEchoCanceler
  pending,    \* mEchoCancelerPendingDelete
  life,       \* of each canceller: "none", "open", "closed" or "deleted"
  howlOn,     \* the sign of isUsingHowlingDetect
  howling,    \* mHowling
  detector,   \* of each detector: "none", "ready" or "freed"
  ctl,        \* where the control thread is
  old, new,   \* oldAEC and newAEC, or localmHowling before and after creation
  enc,        \* where the encoder is
  using,      \* its echoCanceler, while it cancels echo
  doomed,     \* its echoCanceler, when it is to be deleted
  listening   \* the detector doFeedbackDetect was called with

aecVars     == <<stateAEC, aec, pending, life>>
howlingVars == <<howlOn, howling, detector>>
ctlVars     == <<ctl, old, new>>
encVars     == <<enc, using, doomed, listening>>
vars == <<codec, aecVars, howlingVars, ctlVars, encVars>>

Modes == {"disable", "full", "mobile"}

\* Of the value that setConfig passes on for the detector, the code looks at no more
\* than whether it is positive and whether it is zero.
Signs == {-1, 0, 1}

Goto(place) == ctl' = place /\ UNCHANGED <<old, new>>

Return == ctl' = "idle" /\ old' = Nil /\ new' = Nil

\* The application may begin what deletes something the encoder could be using.
Allowed == Quiet => enc = "out"

-----------------------------------------------------------------------------
(***************************************************************************)
(* open and close.                                                         *)
(***************************************************************************)

\* mOpenRef++ comes last; an open that fails before leaves nothing to encode with.
Open ==
  /\ codec = "new"
  /\ codec' = "open"
  /\ UNCHANGED <<aecVars, howlingVars, ctlVars, encVars>>

\* The canceller goes next, the howling detector last; what is pending stays.
Close ==
  /\ ctl = "idle" /\ codec = "open" /\ enc = "out"
  /\ codec' = "closed"
  /\ Goto(IF aec # Nil THEN "close" ELSE "free")
  /\ UNCHANGED <<aecVars, howlingVars, encVars>>

-----------------------------------------------------------------------------
(***************************************************************************)
(* setCodecState(TYPE_AEC, ...).                                           *)
(***************************************************************************)

Create(c) == life[c] = "none" /\ life' = [life EXCEPT ![c] = "open"] /\ new' = c

\* AEC_TYPE_FULL and AEC_TYPE_MOBILE.
SwitchAEC(type) ==
  /\ ctl = "idle" /\ codec = "open"
  /\ stateAEC' = type
  /\ old' = aec
  /\ \E c \in Cancelers : Create(c)
  /\ ctl' = "install"
  /\ UNCHANGED <<codec, aec, pending, howlingVars, encVars>>

ModeAfterReset == stateAEC

\* AEC_TYPE_RESET: a new one of the same type, or none.
ResetAEC ==
  /\ ctl = "idle" /\ codec = "open"
  /\ stateAEC' = ModeAfterReset
  /\ old' = aec
  /\ IF stateAEC = "disable" THEN new' = Nil /\ UNCHANGED life
                             ELSE \E c \in Cancelers : Create(c)
  /\ ctl' = "install"
  /\ UNCHANGED <<codec, aec, pending, howlingVars, encVars>>

\* mEchoCanceler = newAEC
Install ==
  /\ ctl = "install"
  /\ aec' = new
  /\ Goto("retire")
  /\ UNCHANGED <<codec, stateAEC, pending, life, howlingVars, encVars>>

\* Fault: a canceller that is already pending stays so.
RetiredIfFree == IF pending = Nil THEN old ELSE pending

\* Fault: the new canceller is retired.
RetiredNew == new

Retired == old

\* mEchoCancelerPendingDelete = oldAEC, "do not delete immediately, it might in
\* use".
Retire ==
  /\ ctl = "retire"
  /\ pending' = Retired
  /\ Return
  /\ UNCHANGED <<codec, stateAEC, aec, life, howlingVars, encVars>>

\* AEC_TYPE_DISABLE.
DisableAEC ==
  /\ ctl = "idle" /\ codec = "open"
  /\ Allowed
  /\ stateAEC' = "disable"
  /\ Goto(IF aec # Nil THEN "close" ELSE "idle")
  /\ UNCHANGED <<codec, aec, pending, life, howlingVars, encVars>>

\* aecmClose, delete, NULL; also in close.
CloseAEC ==
  /\ ctl = "close"
  /\ life' = [life EXCEPT ![aec] = "closed"]
  /\ Goto("delete")
  /\ UNCHANGED <<codec, stateAEC, aec, pending, howlingVars, encVars>>

DeleteAEC ==
  /\ ctl = "delete"
  /\ life' = [life EXCEPT ![aec] = "deleted"]
  /\ Goto("clear")
  /\ UNCHANGED <<codec, stateAEC, aec, pending, howlingVars, encVars>>

ClearAEC ==
  /\ ctl = "clear"
  /\ aec' = Nil
  /\ Goto(IF codec = "closed" THEN "free" ELSE "idle")
  /\ UNCHANGED <<codec, stateAEC, pending, life, howlingVars, encVars>>

-----------------------------------------------------------------------------
(***************************************************************************)
(* setCodecState(TYPE_HOWLING, ...).                                       *)
(***************************************************************************)

\* isUsingHowlingDetect is assigned first, whatever the value; a detector is created
\* for a positive one.
SwitchHowling(value) ==
  /\ ctl = "idle" /\ codec = "open"
  /\ Allowed
  /\ howlOn' = value
  /\ Goto(IF howling # Nil THEN "unhook" ELSE IF value > 0 THEN "create" ELSE "idle")
  /\ UNCHANGED <<codec, aecVars, howling, detector, encVars>>

Unhook ==
  /\ ctl = "unhook"
  /\ old' = howling /\ howling' = Nil
  /\ ctl' = "closehowling" /\ UNCHANGED new
  /\ UNCHANGED <<codec, aecVars, howlOn, detector, encVars>>

CloseHowling ==
  /\ ctl = "closehowling"
  /\ detector' = [detector EXCEPT ![old] = "freed"]
  /\ old' = Nil /\ UNCHANGED new
  /\ ctl' = IF howlOn > 0 THEN "create" ELSE "idle"
  /\ UNCHANGED <<codec, aecVars, howlOn, howling, encVars>>

\* Fault: the flag stays when there is no detector.
FlagKept == howlOn

FlagDropped == 0

CreateHowling ==
  /\ ctl = "create"
  /\ \/ \E d \in Detectors :
          /\ detector[d] = "none"
          /\ detector' = [detector EXCEPT ![d] = "ready"]
          /\ new' = d
          /\ UNCHANGED howlOn
     \/ /\ howlOn' = FlagDropped
        /\ new' = Nil
        /\ UNCHANGED detector
  /\ ctl' = "hook" /\ UNCHANGED old
  /\ UNCHANGED <<codec, aecVars, howling, encVars>>

Hook ==
  /\ ctl = "hook"
  /\ howling' = new
  /\ Return
  /\ UNCHANGED <<codec, aecVars, howlOn, detector, encVars>>

\* The end of close: the detector is freed, the flag stays.
FreeHowling ==
  /\ ctl = "free"
  /\ detector' = [d \in Detectors |-> IF d = howling THEN "freed" ELSE detector[d]]
  /\ Goto("unset")
  /\ UNCHANGED <<codec, aecVars, howlOn, howling, encVars>>

UnsetHowling ==
  /\ ctl = "unset"
  /\ howling' = Nil
  /\ Return
  /\ UNCHANGED <<codec, aecVars, howlOn, detector, encVars>>

ControlStep ==
  \/ Install \/ Retire \/ CloseAEC \/ DeleteAEC \/ ClearAEC
  \/ Unhook \/ CloseHowling \/ CreateHowling \/ Hook \/ FreeHowling \/ UnsetHowling

Control ==
  \/ Open \/ Close \/ ResetAEC \/ DisableAEC
  \/ \E type \in {"full", "mobile"} : SwitchAEC(type)
  \/ \E value \in Signs : SwitchHowling(value)
  \/ ControlStep

-----------------------------------------------------------------------------
(***************************************************************************)
(* encode.                                                                 *)
(***************************************************************************)

Disturbing == {"close", "delete", "clear", "unhook", "closehowling", "create", "hook",
               "free", "unset"}

Encode ==
  /\ enc = "out" /\ codec = "open"
  /\ Quiet => ctl \notin Disturbing
  /\ enc' = IF howlOn # 0 THEN "detect" ELSE "read"
  /\ UNCHANGED <<codec, aecVars, howlingVars, ctlVars, using, doomed, listening>>

\* doHowlingDetect
Detect ==
  /\ enc = "detect"
  /\ listening' = howling
  /\ enc' = "detecting"
  /\ UNCHANGED <<codec, aecVars, howlingVars, ctlVars, using, doomed>>

Detected ==
  /\ enc = "detecting"
  /\ listening' = Nil
  /\ enc' = "read"
  /\ UNCHANGED <<codec, aecVars, howlingVars, ctlVars, using, doomed>>

\* The pointer is read before mStateAEC.
ReadAEC ==
  /\ enc = "read"
  /\ using' = aec
  /\ enc' = "test"
  /\ UNCHANGED <<codec, aecVars, howlingVars, ctlVars, doomed, listening>>

TestAEC ==
  /\ enc = "test"
  /\ IF stateAEC # "disable" /\ using # Nil
     THEN enc' = "cancel" /\ UNCHANGED using
     ELSE enc' = "take" /\ using' = Nil
  /\ UNCHANGED <<codec, aecVars, howlingVars, ctlVars, doomed, listening>>

\* aecmBufferFarEnd and aecmProcess have returned.
Cancelled ==
  /\ enc = "cancel"
  /\ using' = Nil
  /\ enc' = "take"
  /\ UNCHANGED <<codec, aecVars, howlingVars, ctlVars, doomed, listening>>

\* "drop the pending deleted echo canceler"
TakePending ==
  /\ enc = "take"
  /\ doomed' = pending
  /\ enc' = "forget"
  /\ UNCHANGED <<codec, aecVars, howlingVars, ctlVars, using, listening>>

\* Fault: the pointer is kept.
PendingKept == pending

Forgotten == Nil

ForgetPending ==
  /\ enc = "forget"
  /\ pending' = Forgotten
  /\ enc' = IF doomed # Nil THEN "drop" ELSE "code"
  /\ UNCHANGED <<codec, stateAEC, aec, life, howlingVars, ctlVars, using, doomed, listening>>

\* It is deleted without aecmClose.
DropPending ==
  /\ enc = "drop"
  /\ life' = [life EXCEPT ![doomed] = "deleted"]
  /\ doomed' = Nil
  /\ enc' = "code"
  /\ UNCHANGED <<codec, stateAEC, aec, pending, howlingVars, ctlVars, using, listening>>

\* Gain, noise reduction, filters, opus_encode.
Coded ==
  /\ enc = "code"
  /\ enc' = "out"
  /\ UNCHANGED <<codec, aecVars, howlingVars, ctlVars, using, doomed, listening>>

EncodeStep ==
  \/ Detect \/ Detected \/ ReadAEC \/ TestAEC \/ Cancelled
  \/ TakePending \/ ForgetPending \/ DropPending \/ Coded

-----------------------------------------------------------------------------
Init ==
  /\ codec = "new" /\ stateAEC = "disable"
  /\ aec = Nil /\ pending = Nil /\ life = [c \in Cancelers |-> "none"]
  /\ howlOn = 0 /\ howling = Nil /\ detector = [d \in Detectors |-> "none"]
  /\ ctl = "idle" /\ old = Nil /\ new = Nil
  /\ enc = "out" /\ using = Nil /\ doomed = Nil /\ listening = Nil

Next == Control \/ Encode \/ EncodeStep

(***************************************************************************)
(* An encode and a control call that have begun go on.  Frames keep being  *)
(* recorded, so encode is called again and again; nothing in the code      *)
(* makes it wait, only the application of Quiet, so it is strong.          *)
(***************************************************************************)
Fairness == SF_vars(Encode) /\ WF_vars(EncodeStep) /\ WF_vars(ControlStep)

Spec     == Init /\ [][Next]_vars
FairSpec == Spec /\ Fairness

-----------------------------------------------------------------------------
(***************************************************************************)
(* Properties.                                                             *)
(***************************************************************************)

TypeOK ==
  /\ codec \in {"new", "open", "closed"} /\ stateAEC \in Modes
  /\ aec \in Cancelers \cup {Nil} /\ pending \in Cancelers \cup {Nil}
  /\ life \in [Cancelers -> {"none", "open", "closed", "deleted"}]
  /\ howlOn \in Signs /\ howling \in Detectors \cup {Nil}
  /\ detector \in [Detectors -> {"none", "ready", "freed"}]
  /\ ctl \in Disturbing \cup {"idle", "install", "retire"}
  /\ old \in Cancelers \cup Detectors \cup {Nil}
  /\ new \in Cancelers \cup Detectors \cup {Nil}
  /\ enc \in {"out", "detect", "detecting", "read", "test", "cancel", "take", "forget",
              "drop", "code"}
  /\ using \in Cancelers \cup {Nil} /\ doomed \in Cancelers \cup {Nil}
  /\ listening \in Detectors \cup {Nil}

\* "do not delete immediately, it might in use": the canceller that cancels the
\* echo of a frame has not been closed or deleted.
CancelerAlive == enc = "cancel" => life[using] = "open"

\* A detector that is listening to a frame has not been freed; there is none at all
\* only when the flag was set to a negative value, never because one could not be made.
DetectorAlive ==
  enc = "detecting" => IF listening = Nil THEN howlOn < 0 ELSE detector[listening] = "ready"

\* No canceller is deleted twice, by encode and by setCodecState.
DeletedOnce ==
  /\ enc = "drop" => life[doomed] = "open"
  /\ ctl = "close" => life[aec] = "open"

\* Some field, or a call under way, still leads to the canceller.
Owned(c) ==
  \/ c \in {aec, pending, doomed}
  \/ ctl = "install" /\ c = new
  \/ ctl = "retire" /\ c = old

\* There is no count of cancellers and no lock: one is lost without having been
\* deleted when another is left for deletion while it is pending, or when it is left
\* between the load and the store of mEchoCancelerPendingDelete in encode; in no
\* other way, however setCodecState, close and encode interleave.
LostOnlyWhilePending ==
  [][\A c \in Cancelers :
       /\ life[c] = "none" /\ life'[c] # "none" => Owned(c)'
       /\ Owned(c) /\ ~Owned(c)' /\ life'[c] # "deleted" =>
            pending = c /\ (Retire \/ (ForgetPending /\ doomed # c))]_vars

\* A canceller left for encode to delete does not stay there.
PendingIsDropped == \A c \in Cancelers : pending = c ~> pending # c \/ codec # "open"
=============================================================================
