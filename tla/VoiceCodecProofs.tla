-------------------------- MODULE VoiceCodecProofs --------------------------
(***************************************************************************)
(* CodecInv is inductive: however many cancellers and detectors are        *)
(* created, encode uses none that has been closed, deleted or freed and    *)
(* deletes none twice, provided the application is Quiet.                  *)
(***************************************************************************)
EXTENDS VoiceCodecInv, TLAPS

\* TypeOK in parts.
AECType ==
  /\ codec \in {"new", "open", "closed"} /\ stateAEC \in Modes
  /\ aec \in Cancelers \cup {Nil} /\ pending \in Cancelers \cup {Nil}
  /\ using \in Cancelers \cup {Nil} /\ doomed \in Cancelers \cup {Nil}

LifeType == life \in [Cancelers -> {"none", "open", "closed", "deleted"}]

HowlingType ==
  /\ howlOn \in Signs
  /\ howling \in Detectors \cup {Nil} /\ listening \in Detectors \cup {Nil}

DetectorType == detector \in [Detectors -> {"none", "ready", "freed"}]

PlaceType ==
  /\ ctl \in Disturbing \cup {"idle", "install", "retire"}
  /\ enc \in {"out", "detect", "detecting", "read", "test", "cancel", "take", "forget",
              "drop", "code"}

LocalType ==
  /\ old \in Cancelers \cup Detectors \cup {Nil}
  /\ new \in Cancelers \cup Detectors \cup {Nil}

-----------------------------------------------------------------------------
(***************************************************************************)
(* Every step keeps the types, whatever the application does.              *)
(***************************************************************************)

\* The mode and the pointers to cancellers.
LEMMA AECTypeStep ==
  ASSUME TypeOK, Locals, Next
  PROVE  AECType'
<1>1. CASE Open
  BY <1>1, ObjectsAssumption DEF Open, AECType, TypeOK, Locals, Modes, aecVars,
    howlingVars, ctlVars, encVars
<1>2. CASE Close
  BY <1>2, ObjectsAssumption DEF Close, Goto, AECType, TypeOK, Locals, Modes, aecVars,
    howlingVars, ctlVars, encVars
<1>3. CASE \E type \in {"full", "mobile"} : SwitchAEC(type)
  BY <1>3, ObjectsAssumption DEF SwitchAEC, Create, AECType, TypeOK, Locals, Modes,
    aecVars, howlingVars, ctlVars, encVars
<1>4. CASE ResetAEC
  BY <1>4, ObjectsAssumption DEF ResetAEC, Create, ModeAfterReset, AECType, TypeOK,
    Locals, Modes, aecVars, howlingVars, ctlVars, encVars
<1>5. CASE Install
  BY <1>5, ObjectsAssumption DEF Install, Goto, AECType, TypeOK, Locals, Modes,
    aecVars, howlingVars, ctlVars, encVars
<1>6. CASE Retire
  BY <1>6, ObjectsAssumption DEF Retire, Return, Retired, AECType, TypeOK, Locals,
    Modes, aecVars, howlingVars, ctlVars, encVars
<1>7. CASE DisableAEC
  BY <1>7, ObjectsAssumption DEF DisableAEC, Goto, Allowed, AECType, TypeOK, Locals,
    Modes, aecVars, howlingVars, ctlVars, encVars
<1>8. CASE CloseAEC \/ DeleteAEC \/ ClearAEC \/ (\E value \in Signs : SwitchHowling(value))
           \/ Unhook \/ CloseHowling \/ CreateHowling \/ Hook \/ FreeHowling
           \/ UnsetHowling \/ Encode \/ Detect \/ Detected \/ ReadAEC \/ TestAEC
           \/ Cancelled \/ TakePending \/ ForgetPending \/ DropPending \/ Coded
  BY <1>8, ObjectsAssumption DEF CloseAEC, Goto, DeleteAEC, ClearAEC, SwitchHowling,
    Allowed, Unhook, CloseHowling, CreateHowling, FlagDropped, Hook, Return,
    FreeHowling, UnsetHowling, Encode, Detect, Detected, ReadAEC, TestAEC, Cancelled,
    TakePending, ForgetPending, Forgotten, DropPending, Coded, AECType, TypeOK,
    Locals, Modes, aecVars, howlingVars, ctlVars, encVars
<1>9. QED
  BY <1>1, <1>2, <1>3, <1>4, <1>5, <1>6, <1>7, <1>8 DEF Next, Control, ControlStep, EncodeStep

\* The life of the cancellers.
LEMMA LifeTypeStep ==
  ASSUME TypeOK, Locals, Next
  PROVE  LifeType'
<1>1. CASE \E type \in {"full", "mobile"} : SwitchAEC(type)
  BY <1>1, ObjectsAssumption DEF SwitchAEC, Create, LifeType, TypeOK, aecVars,
    howlingVars, ctlVars, encVars
<1>2. CASE ResetAEC
  BY <1>2, ObjectsAssumption DEF ResetAEC, Create, ModeAfterReset, LifeType, TypeOK,
    aecVars, howlingVars, ctlVars, encVars
<1>3. CASE CloseAEC
  BY <1>3, ObjectsAssumption DEF CloseAEC, Goto, LifeType, TypeOK, aecVars,
    howlingVars, ctlVars, encVars
<1>4. CASE DeleteAEC
  BY <1>4, ObjectsAssumption DEF DeleteAEC, Goto, LifeType, TypeOK, aecVars,
    howlingVars, ctlVars, encVars
<1>5. CASE DropPending
  BY <1>5, ObjectsAssumption DEF DropPending, LifeType, TypeOK, aecVars, howlingVars,
    ctlVars, encVars
<1>6. CASE Open \/ Close \/ Install \/ Retire \/ DisableAEC \/ ClearAEC
           \/ (\E value \in Signs : SwitchHowling(value)) \/ Unhook \/ CloseHowling
           \/ CreateHowling \/ Hook \/ FreeHowling \/ UnsetHowling \/ Encode
           \/ Detect \/ Detected \/ ReadAEC \/ TestAEC \/ Cancelled
           \/ TakePending \/ ForgetPending \/ Coded
  BY <1>6, ObjectsAssumption DEF Open, Close, Goto, Install, Retire, Return, Retired,
    DisableAEC, Allowed, ClearAEC, SwitchHowling, Unhook, CloseHowling, CreateHowling,
    FlagDropped, Hook, FreeHowling, UnsetHowling, Encode, Detect, Detected, ReadAEC,
    TestAEC, Cancelled, TakePending, ForgetPending, Forgotten, Coded, LifeType,
    TypeOK, aecVars, howlingVars, ctlVars, encVars
<1>7. QED
  BY <1>1, <1>2, <1>3, <1>4, <1>5, <1>6 DEF Next, Control, ControlStep, EncodeStep

\* The flag and the pointers to detectors.
LEMMA HowlingTypeStep ==
  ASSUME TypeOK, Locals, Next
  PROVE  HowlingType'
<1>1. CASE \E value \in Signs : SwitchHowling(value)
  BY <1>1, ObjectsAssumption DEF SwitchHowling, Goto, Allowed, HowlingType, TypeOK,
    Locals, aecVars, howlingVars, ctlVars, encVars
<1>2. CASE CreateHowling
  BY <1>2, ObjectsAssumption DEF CreateHowling, FlagDropped, Signs, HowlingType, TypeOK,
    Locals, aecVars, howlingVars, ctlVars, encVars
<1>3. CASE Hook
  BY <1>3, ObjectsAssumption DEF Hook, Return, HowlingType, TypeOK, Locals, aecVars,
    howlingVars, ctlVars, encVars
<1>4. CASE Open \/ Close \/ \E type \in {"full", "mobile"} : SwitchAEC(type) \/ ResetAEC
           \/ Install \/ Retire \/ DisableAEC \/ CloseAEC \/ DeleteAEC
           \/ ClearAEC \/ Unhook \/ CloseHowling \/ FreeHowling \/ UnsetHowling
           \/ Encode \/ Detect \/ Detected \/ ReadAEC \/ TestAEC \/ Cancelled
           \/ TakePending \/ ForgetPending \/ DropPending \/ Coded
  BY <1>4, ObjectsAssumption DEF Open, Close, Goto, SwitchAEC, Create, ResetAEC,
    ModeAfterReset, Install, Retire, Return, Retired, DisableAEC, Allowed, CloseAEC,
    DeleteAEC, ClearAEC, Unhook, CloseHowling, FreeHowling, UnsetHowling, Encode,
    Detect, Detected, ReadAEC, TestAEC, Cancelled, TakePending, ForgetPending,
    Forgotten, DropPending, Coded, HowlingType, TypeOK, Locals, aecVars, howlingVars,
    ctlVars, encVars
<1>5. QED
  BY <1>1, <1>2, <1>3, <1>4 DEF Next, Control, ControlStep, EncodeStep

\* The life of the detectors.
LEMMA DetectorTypeStep ==
  ASSUME TypeOK, Locals, Next
  PROVE  DetectorType'
<1>1. CASE CloseHowling
  BY <1>1, ObjectsAssumption DEF CloseHowling, DetectorType, TypeOK, aecVars,
    howlingVars, ctlVars, encVars
<1>2. CASE CreateHowling
  BY <1>2, ObjectsAssumption DEF CreateHowling, FlagDropped, DetectorType, TypeOK,
    aecVars, howlingVars, ctlVars, encVars
<1>3. CASE FreeHowling
  BY <1>3, ObjectsAssumption DEF FreeHowling, Goto, DetectorType, TypeOK, aecVars,
    howlingVars, ctlVars, encVars
<1>4. CASE Open \/ Close \/ \E type \in {"full", "mobile"} : SwitchAEC(type) \/ ResetAEC
           \/ Install \/ Retire \/ DisableAEC \/ CloseAEC \/ DeleteAEC
           \/ ClearAEC \/ (\E value \in Signs : SwitchHowling(value)) \/ Unhook
           \/ Hook \/ UnsetHowling \/ Encode \/ Detect \/ Detected \/ ReadAEC
           \/ TestAEC \/ Cancelled \/ TakePending \/ ForgetPending
           \/ DropPending \/ Coded
  BY <1>4, ObjectsAssumption DEF Open, Close, Goto, SwitchAEC, Create, ResetAEC,
    ModeAfterReset, Install, Retire, Return, Retired, DisableAEC, Allowed, CloseAEC,
    DeleteAEC, ClearAEC, SwitchHowling, Unhook, Hook, UnsetHowling, Encode, Detect,
    Detected, ReadAEC, TestAEC, Cancelled, TakePending, ForgetPending, Forgotten,
    DropPending, Coded, DetectorType, TypeOK, aecVars, howlingVars, ctlVars, encVars
<1>5. QED
  BY <1>1, <1>2, <1>3, <1>4 DEF Next, Control, ControlStep, EncodeStep

\* Where the two threads are.
LEMMA PlaceTypeStep ==
  ASSUME TypeOK, Locals, Next
  PROVE  PlaceType'
<1>1. CASE \E value \in Signs : SwitchHowling(value)
  BY <1>1, ObjectsAssumption DEF SwitchHowling, Goto, Allowed, PlaceType, TypeOK,
    Disturbing, aecVars, howlingVars, ctlVars, encVars
<1>2. CASE \E type \in {"full", "mobile"} : SwitchAEC(type)
  BY <1>2, ObjectsAssumption DEF SwitchAEC, Create, PlaceType, TypeOK, Disturbing,
    aecVars, howlingVars, ctlVars, encVars
<1>3. CASE Open \/ Close \/ ResetAEC \/ Install \/ Retire \/ DisableAEC \/ CloseAEC
           \/ DeleteAEC \/ ClearAEC
  BY <1>3, ObjectsAssumption DEF Open, Close, Goto, ResetAEC, Create, ModeAfterReset,
    Install, Retire, Return, Retired, DisableAEC, Allowed, CloseAEC, DeleteAEC,
    ClearAEC, PlaceType, TypeOK, Disturbing, aecVars, howlingVars, ctlVars, encVars
<1>4. CASE Unhook \/ CloseHowling \/ CreateHowling \/ Hook \/ FreeHowling \/ UnsetHowling
  BY <1>4, ObjectsAssumption DEF Unhook, CloseHowling, CreateHowling, FlagDropped,
    Hook, Return, FreeHowling, Goto, UnsetHowling, PlaceType, TypeOK, Disturbing,
    aecVars, howlingVars, ctlVars, encVars
<1>5. CASE Encode \/ Detect \/ Detected \/ ReadAEC \/ TestAEC \/ Cancelled \/ TakePending
           \/ ForgetPending \/ DropPending \/ Coded
  BY <1>5, ObjectsAssumption DEF Encode, Detect, Detected, ReadAEC, TestAEC,
    Cancelled, TakePending, ForgetPending, Forgotten, DropPending, Coded, PlaceType,
    TypeOK, Disturbing, aecVars, howlingVars, ctlVars, encVars
<1>6. QED
  BY <1>1, <1>2, <1>3, <1>4, <1>5 DEF Next, Control, ControlStep, EncodeStep

\* old and new.
LEMMA LocalTypeStep ==
  ASSUME TypeOK, Locals, Next
  PROVE  LocalType'
<1>1. CASE \E type \in {"full", "mobile"} : SwitchAEC(type)
  BY <1>1, ObjectsAssumption DEF SwitchAEC, Create, LocalType, TypeOK, aecVars,
    howlingVars, ctlVars, encVars
<1>2. CASE ResetAEC
  BY <1>2, ObjectsAssumption DEF ResetAEC, Create, ModeAfterReset, LocalType, TypeOK,
    aecVars, howlingVars, ctlVars, encVars
<1>3. CASE Retire
  BY <1>3, ObjectsAssumption DEF Retire, Return, Retired, LocalType, TypeOK, aecVars,
    howlingVars, ctlVars, encVars
<1>4. CASE Unhook
  BY <1>4, ObjectsAssumption DEF Unhook, LocalType, TypeOK, aecVars, howlingVars,
    ctlVars, encVars
<1>5. CASE CloseHowling
  BY <1>5, ObjectsAssumption DEF CloseHowling, LocalType, TypeOK, aecVars,
    howlingVars, ctlVars, encVars
<1>6. CASE CreateHowling
  BY <1>6, ObjectsAssumption DEF CreateHowling, FlagDropped, LocalType, TypeOK,
    aecVars, howlingVars, ctlVars, encVars
<1>7. CASE Hook
  BY <1>7, ObjectsAssumption DEF Hook, Return, LocalType, TypeOK, aecVars,
    howlingVars, ctlVars, encVars
<1>8. CASE UnsetHowling
  BY <1>8, ObjectsAssumption DEF UnsetHowling, Return, LocalType, TypeOK, aecVars,
    howlingVars, ctlVars, encVars
<1>9. CASE Open \/ Close \/ Install \/ DisableAEC \/ CloseAEC \/ DeleteAEC \/ ClearAEC
           \/ (\E value \in Signs : SwitchHowling(value)) \/ FreeHowling \/ Encode
           \/ Detect \/ Detected \/ ReadAEC \/ TestAEC \/ Cancelled
           \/ TakePending \/ ForgetPending \/ DropPending \/ Coded
  BY <1>9, ObjectsAssumption DEF Open, Close, Goto, Install, DisableAEC, Allowed,
    CloseAEC, DeleteAEC, ClearAEC, SwitchHowling, FreeHowling, Encode, Detect,
    Detected, ReadAEC, TestAEC, Cancelled, TakePending, ForgetPending, Forgotten,
    DropPending, Coded, LocalType, TypeOK, aecVars, howlingVars, ctlVars, encVars
<1>10. QED
  BY <1>1, <1>2, <1>3, <1>4, <1>5, <1>6, <1>7, <1>8, <1>9 DEF Next, Control, ControlStep, EncodeStep

\* old and new in each call.
LEMMA LocalsStep ==
  ASSUME TypeOK, Locals, Next
  PROVE  Locals'
<1>1. CASE \E type \in {"full", "mobile"} : SwitchAEC(type)
  BY <1>1, ObjectsAssumption DEF SwitchAEC, Create, Locals, TypeOK, Disturbing,
    aecVars, howlingVars, ctlVars, encVars
<1>2. CASE ResetAEC
  BY <1>2, ObjectsAssumption DEF ResetAEC, Create, ModeAfterReset, Locals, TypeOK,
    Disturbing, aecVars, howlingVars, ctlVars, encVars
<1>3. CASE \E value \in Signs : SwitchHowling(value)
  BY <1>3, ObjectsAssumption DEF SwitchHowling, Goto, Allowed, Locals, TypeOK,
    Disturbing, aecVars, howlingVars, ctlVars, encVars
<1>4. CASE Unhook
  BY <1>4, ObjectsAssumption DEF Unhook, Locals, TypeOK, Disturbing, aecVars,
    howlingVars, ctlVars, encVars
<1>5. CASE CloseHowling
  BY <1>5, ObjectsAssumption DEF CloseHowling, Locals, TypeOK, Disturbing, aecVars,
    howlingVars, ctlVars, encVars
<1>6. CASE CreateHowling
  BY <1>6, ObjectsAssumption DEF CreateHowling, FlagDropped, Locals, TypeOK,
    Disturbing, aecVars, howlingVars, ctlVars, encVars
<1>7. CASE Encode \/ Detect \/ Detected \/ ReadAEC \/ TestAEC \/ Cancelled \/ TakePending
           \/ ForgetPending \/ DropPending \/ Coded
  BY <1>7, ObjectsAssumption DEF Encode, Detect, Detected, ReadAEC, TestAEC,
    Cancelled, TakePending, ForgetPending, Forgotten, DropPending, Coded, Locals,
    TypeOK, Disturbing, aecVars, howlingVars, ctlVars, encVars
<1>8. CASE Open \/ Close \/ Install \/ Retire \/ DisableAEC \/ CloseAEC \/ DeleteAEC
           \/ ClearAEC \/ Hook \/ FreeHowling \/ UnsetHowling
  BY <1>8, ObjectsAssumption DEF Open, Close, Goto, Install, Retire, Return, Retired,
    DisableAEC, Allowed, CloseAEC, DeleteAEC, ClearAEC, Hook, FreeHowling,
    UnsetHowling, Locals, TypeOK, Disturbing, aecVars, howlingVars, ctlVars, encVars
<1>9. QED
  BY <1>1, <1>2, <1>3, <1>4, <1>5, <1>6, <1>7, <1>8 DEF Next, Control, ControlStep, EncodeStep

-----------------------------------------------------------------------------
(***************************************************************************)
(* With a quiet application every step keeps the other parts.              *)
(***************************************************************************)

\* Nothing is encoded while something is deleted.
LEMMA SettledStep ==
  ASSUME Quiet, TypeOK, Settled, Next
  PROVE  Settled'
<1>1. CASE Close
  BY <1>1, ObjectsAssumption DEF Close, Goto, TypeOK, Settled, Disturbing, aecVars,
    howlingVars, ctlVars, encVars
<1>2. CASE \E type \in {"full", "mobile"} : SwitchAEC(type)
  BY <1>2, ObjectsAssumption DEF SwitchAEC, Create, TypeOK, Settled, Disturbing,
    aecVars, howlingVars, ctlVars, encVars
<1>3. CASE \E value \in Signs : SwitchHowling(value)
  BY <1>3, ObjectsAssumption DEF SwitchHowling, Goto, Allowed, TypeOK, Settled,
    Disturbing, aecVars, howlingVars, ctlVars, encVars
<1>4. CASE DisableAEC
  BY <1>4, ObjectsAssumption DEF DisableAEC, Goto, Allowed, TypeOK, Settled,
    Disturbing, aecVars, howlingVars, ctlVars, encVars
<1>5. CASE Encode
  BY <1>5, ObjectsAssumption DEF Encode, TypeOK, Settled, Disturbing, aecVars,
    howlingVars, ctlVars, encVars
<1>6. CASE ResetAEC \/ Install \/ Retire
  BY <1>6, ObjectsAssumption DEF ResetAEC, Create, ModeAfterReset, Install, Goto,
    Retire, Return, Retired, TypeOK, Settled, Disturbing, aecVars, howlingVars,
    ctlVars, encVars
<1>7. CASE CloseAEC \/ DeleteAEC \/ ClearAEC
  BY <1>7, ObjectsAssumption DEF CloseAEC, Goto, DeleteAEC, ClearAEC, TypeOK, Settled,
    Disturbing, aecVars, howlingVars, ctlVars, encVars
<1>8. CASE Unhook \/ CloseHowling \/ CreateHowling \/ Hook \/ FreeHowling \/ UnsetHowling
  BY <1>8, ObjectsAssumption DEF Unhook, CloseHowling, CreateHowling, FlagDropped,
    Hook, Return, FreeHowling, Goto, UnsetHowling, TypeOK, Settled, Disturbing,
    aecVars, howlingVars, ctlVars, encVars
<1>9. CASE Open \/ Detect \/ Detected \/ ReadAEC \/ TestAEC \/ Cancelled \/ TakePending
           \/ ForgetPending \/ DropPending \/ Coded
  BY <1>9, ObjectsAssumption DEF Open, Detect, Detected, ReadAEC, TestAEC, Cancelled,
    TakePending, ForgetPending, Forgotten, DropPending, Coded, TypeOK, Settled,
    Disturbing, aecVars, howlingVars, ctlVars, encVars
<1>10. QED
  BY <1>1, <1>2, <1>3, <1>4, <1>5, <1>6, <1>7, <1>8, <1>9 DEF Next, Control, ControlStep, EncodeStep

\* The canceller at work.
LEMMA WorkingStep ==
  ASSUME Quiet, TypeOK, Settled, Installed, Working, Next
  PROVE  Working'
<1>1. CASE \E type \in {"full", "mobile"} : SwitchAEC(type)
  BY <1>1, ObjectsAssumption DEF SwitchAEC, Create, TypeOK, Settled, Installed,
    Working, Disturbing, aecVars, howlingVars, ctlVars, encVars
<1>2. CASE ResetAEC
  BY <1>2, ObjectsAssumption DEF ResetAEC, Create, ModeAfterReset, TypeOK, Settled,
    Installed, Working, Disturbing, aecVars, howlingVars, ctlVars, encVars
<1>3. CASE CloseAEC
  BY <1>3, ObjectsAssumption DEF CloseAEC, Goto, TypeOK, Settled, Installed, Working,
    Disturbing, aecVars, howlingVars, ctlVars, encVars
<1>4. CASE DeleteAEC
  BY <1>4, ObjectsAssumption DEF DeleteAEC, Goto, TypeOK, Settled, Installed, Working,
    Disturbing, aecVars, howlingVars, ctlVars, encVars
<1>5. CASE ReadAEC
  BY <1>5, ObjectsAssumption DEF ReadAEC, TypeOK, Settled, Installed, Working,
    Disturbing, aecVars, howlingVars, ctlVars, encVars
<1>6. CASE TestAEC
  BY <1>6, ObjectsAssumption DEF TestAEC, TypeOK, Settled, Installed, Working,
    Disturbing, aecVars, howlingVars, ctlVars, encVars
<1>7. CASE Cancelled
  BY <1>7, ObjectsAssumption DEF Cancelled, TypeOK, Settled, Installed, Working,
    Disturbing, aecVars, howlingVars, ctlVars, encVars
<1>8. CASE DropPending
  BY <1>8, ObjectsAssumption DEF DropPending, TypeOK, Settled, Installed, Working,
    Disturbing, aecVars, howlingVars, ctlVars, encVars
<1>9. CASE Open \/ Close \/ Install \/ Retire \/ DisableAEC \/ ClearAEC
           \/ (\E value \in Signs : SwitchHowling(value)) \/ Unhook \/ CloseHowling
           \/ CreateHowling \/ Hook \/ FreeHowling \/ UnsetHowling \/ Encode
           \/ Detect \/ Detected \/ TakePending \/ ForgetPending \/ Coded
  BY <1>9, ObjectsAssumption DEF Open, Close, Goto, Install, Retire, Return, Retired,
    DisableAEC, Allowed, ClearAEC, SwitchHowling, Unhook, CloseHowling, CreateHowling,
    FlagDropped, Hook, FreeHowling, UnsetHowling, Encode, Detect, Detected,
    TakePending, ForgetPending, Forgotten, Coded, TypeOK, Settled, Installed, Working,
    Disturbing, aecVars, howlingVars, ctlVars, encVars
<1>10. QED
  BY <1>1, <1>2, <1>3, <1>4, <1>5, <1>6, <1>7, <1>8, <1>9 DEF Next, Control, ControlStep, EncodeStep

\* The canceller installed.
LEMMA InstalledStep ==
  ASSUME TypeOK, Locals, Settled, Installed, Retiring, Replacing, Next
  PROVE  Installed'
<1>1. CASE Close
  BY <1>1, ObjectsAssumption DEF Close, Goto, TypeOK, Locals, Settled, Installed,
    Retiring, Replacing, Disturbing, aecVars, howlingVars, ctlVars, encVars
<1>2. CASE \E type \in {"full", "mobile"} : SwitchAEC(type)
  BY <1>2, ObjectsAssumption DEF SwitchAEC, Create, TypeOK, Locals, Settled,
    Installed, Retiring, Replacing, Disturbing, aecVars, howlingVars, ctlVars, encVars
<1>3. CASE ResetAEC
  BY <1>3, ObjectsAssumption DEF ResetAEC, Create, ModeAfterReset, TypeOK, Locals,
    Settled, Installed, Retiring, Replacing, Disturbing, aecVars, howlingVars,
    ctlVars, encVars
<1>4. CASE Install
  BY <1>4, ObjectsAssumption DEF Install, Goto, TypeOK, Locals, Settled, Installed,
    Retiring, Replacing, Disturbing, aecVars, howlingVars, ctlVars, encVars
<1>5. CASE Retire
  BY <1>5, ObjectsAssumption DEF Retire, Return, Retired, TypeOK, Locals, Settled,
    Installed, Retiring, Replacing, Disturbing, aecVars, howlingVars, ctlVars, encVars
<1>6. CASE DisableAEC
  BY <1>6, ObjectsAssumption DEF DisableAEC, Goto, Allowed, TypeOK, Locals, Settled,
    Installed, Retiring, Replacing, Disturbing, aecVars, howlingVars, ctlVars, encVars
<1>7. CASE CloseAEC
  BY <1>7, ObjectsAssumption DEF CloseAEC, Goto, TypeOK, Locals, Settled, Installed,
    Retiring, Replacing, Disturbing, aecVars, howlingVars, ctlVars, encVars
<1>8. CASE DeleteAEC
  BY <1>8, ObjectsAssumption DEF DeleteAEC, Goto, TypeOK, Locals, Settled, Installed,
    Retiring, Replacing, Disturbing, aecVars, howlingVars, ctlVars, encVars
<1>9. CASE ClearAEC
  BY <1>9, ObjectsAssumption DEF ClearAEC, Goto, TypeOK, Locals, Settled, Installed,
    Retiring, Replacing, Disturbing, aecVars, howlingVars, ctlVars, encVars
<1>10. CASE \E value \in Signs : SwitchHowling(value)
  BY <1>10, ObjectsAssumption DEF SwitchHowling, Goto, Allowed, TypeOK, Locals,
    Settled, Installed, Retiring, Replacing, Disturbing, aecVars, howlingVars,
    ctlVars, encVars
<1>11. CASE DropPending
  BY <1>11, ObjectsAssumption DEF DropPending, TypeOK, Locals, Settled, Installed,
    Retiring, Replacing, Disturbing, aecVars, howlingVars, ctlVars, encVars
<1>12. CASE Open \/ Unhook \/ CloseHowling \/ CreateHowling \/ Hook \/ FreeHowling
           \/ UnsetHowling \/ Encode \/ Detect \/ Detected \/ ReadAEC \/ TestAEC
           \/ Cancelled \/ TakePending \/ ForgetPending \/ Coded
  BY <1>12, ObjectsAssumption DEF Open, Unhook, CloseHowling, CreateHowling,
    FlagDropped, Hook, Return, FreeHowling, Goto, UnsetHowling, Encode, Detect,
    Detected, ReadAEC, TestAEC, Cancelled, TakePending, ForgetPending, Forgotten,
    Coded, TypeOK, Locals, Settled, Installed, Retiring, Replacing, Disturbing,
    aecVars, howlingVars, ctlVars, encVars
<1>13. QED
  BY <1>1, <1>2, <1>3, <1>4, <1>5, <1>6, <1>7, <1>8, <1>9, <1>10, <1>11, <1>12 DEF Next, Control, ControlStep, EncodeStep

\* The cancellers to be deleted.
LEMMA RetiringStep ==
  ASSUME TypeOK, Locals, Settled, Installed, Retiring, Replacing, Next
  PROVE  Retiring'
<1>1. CASE \E type \in {"full", "mobile"} : SwitchAEC(type)
  BY <1>1, ObjectsAssumption DEF SwitchAEC, Create, TypeOK, Locals, Settled,
    Installed, Retiring, Replacing, Disturbing, aecVars, howlingVars, ctlVars, encVars
<1>2. CASE ResetAEC
  BY <1>2, ObjectsAssumption DEF ResetAEC, Create, ModeAfterReset, TypeOK, Locals,
    Settled, Installed, Retiring, Replacing, Disturbing, aecVars, howlingVars,
    ctlVars, encVars
<1>3. CASE Install
  BY <1>3, ObjectsAssumption DEF Install, Goto, TypeOK, Locals, Settled, Installed,
    Retiring, Replacing, Disturbing, aecVars, howlingVars, ctlVars, encVars
<1>4. CASE Retire
  BY <1>4, ObjectsAssumption DEF Retire, Return, Retired, TypeOK, Locals, Settled,
    Installed, Retiring, Replacing, Disturbing, aecVars, howlingVars, ctlVars, encVars
<1>5. CASE CloseAEC
  BY <1>5, ObjectsAssumption DEF CloseAEC, Goto, TypeOK, Locals, Settled, Installed,
    Retiring, Replacing, Disturbing, aecVars, howlingVars, ctlVars, encVars
<1>6. CASE DeleteAEC
  BY <1>6, ObjectsAssumption DEF DeleteAEC, Goto, TypeOK, Locals, Settled, Installed,
    Retiring, Replacing, Disturbing, aecVars, howlingVars, ctlVars, encVars
<1>7. CASE ClearAEC
  BY <1>7, ObjectsAssumption DEF ClearAEC, Goto, TypeOK, Locals, Settled, Installed,
    Retiring, Replacing, Disturbing, aecVars, howlingVars, ctlVars, encVars
<1>8. CASE TakePending
  BY <1>8, ObjectsAssumption DEF TakePending, TypeOK, Locals, Settled, Installed,
    Retiring, Replacing, Disturbing, aecVars, howlingVars, ctlVars, encVars
<1>9. CASE ForgetPending
  BY <1>9, ObjectsAssumption DEF ForgetPending, Forgotten, TypeOK, Locals, Settled,
    Installed, Retiring, Replacing, Disturbing, aecVars, howlingVars, ctlVars, encVars
<1>10. CASE DropPending
  BY <1>10, ObjectsAssumption DEF DropPending, TypeOK, Locals, Settled, Installed,
    Retiring, Replacing, Disturbing, aecVars, howlingVars, ctlVars, encVars
<1>11. CASE Open \/ Close \/ DisableAEC \/ (\E value \in Signs : SwitchHowling(value)) \/ Unhook
           \/ CloseHowling \/ CreateHowling \/ Hook \/ FreeHowling
           \/ UnsetHowling \/ Encode \/ Detect \/ Detected \/ ReadAEC \/ TestAEC
           \/ Cancelled \/ Coded
  BY <1>11, ObjectsAssumption DEF Open, Close, Goto, DisableAEC, Allowed,
    SwitchHowling, Unhook, CloseHowling, CreateHowling, FlagDropped, Hook, Return,
    FreeHowling, UnsetHowling, Encode, Detect, Detected, ReadAEC, TestAEC, Cancelled,
    Coded, TypeOK, Locals, Settled, Installed, Retiring, Replacing, Disturbing,
    aecVars, howlingVars, ctlVars, encVars
<1>12. QED
  BY <1>1, <1>2, <1>3, <1>4, <1>5, <1>6, <1>7, <1>8, <1>9, <1>10, <1>11 DEF Next, Control, ControlStep, EncodeStep

\* The cancellers in the control thread's hands.
LEMMA ReplacingStep ==
  ASSUME TypeOK, Locals, Settled, Installed, Retiring, Replacing, Next
  PROVE  Replacing'
<1>1. CASE \E type \in {"full", "mobile"} : SwitchAEC(type)
  BY <1>1, ObjectsAssumption DEF SwitchAEC, Create, TypeOK, Locals, Settled,
    Installed, Retiring, Replacing, Disturbing, aecVars, howlingVars, ctlVars, encVars
<1>2. CASE ResetAEC
  BY <1>2, ObjectsAssumption DEF ResetAEC, Create, ModeAfterReset, TypeOK, Locals,
    Settled, Installed, Retiring, Replacing, Disturbing, aecVars, howlingVars,
    ctlVars, encVars
<1>3. CASE Install
  BY <1>3, ObjectsAssumption DEF Install, Goto, TypeOK, Locals, Settled, Installed,
    Retiring, Replacing, Disturbing, aecVars, howlingVars, ctlVars, encVars
<1>4. CASE Retire
  BY <1>4, ObjectsAssumption DEF Retire, Return, Retired, TypeOK, Locals, Settled,
    Installed, Retiring, Replacing, Disturbing, aecVars, howlingVars, ctlVars, encVars
<1>5. CASE \E value \in Signs : SwitchHowling(value)
  BY <1>5, ObjectsAssumption DEF SwitchHowling, Goto, Allowed, TypeOK, Locals,
    Settled, Installed, Retiring, Replacing, Disturbing, aecVars, howlingVars,
    ctlVars, encVars
<1>6. CASE TakePending
  BY <1>6, ObjectsAssumption DEF TakePending, TypeOK, Locals, Settled, Installed,
    Retiring, Replacing, Disturbing, aecVars, howlingVars, ctlVars, encVars
<1>7. CASE ForgetPending
  BY <1>7, ObjectsAssumption DEF ForgetPending, Forgotten, TypeOK, Locals, Settled,
    Installed, Retiring, Replacing, Disturbing, aecVars, howlingVars, ctlVars, encVars
<1>8. CASE DropPending
  BY <1>8, ObjectsAssumption DEF DropPending, TypeOK, Locals, Settled, Installed,
    Retiring, Replacing, Disturbing, aecVars, howlingVars, ctlVars, encVars
<1>9. CASE Open \/ Close \/ DisableAEC \/ CloseAEC \/ DeleteAEC \/ ClearAEC \/ Unhook
           \/ CloseHowling \/ CreateHowling \/ Hook \/ FreeHowling
           \/ UnsetHowling \/ Encode \/ Detect \/ Detected \/ ReadAEC \/ TestAEC
           \/ Cancelled \/ Coded
  BY <1>9, ObjectsAssumption DEF Open, Close, Goto, DisableAEC, Allowed, CloseAEC,
    DeleteAEC, ClearAEC, Unhook, CloseHowling, CreateHowling, FlagDropped, Hook,
    Return, FreeHowling, UnsetHowling, Encode, Detect, Detected, ReadAEC, TestAEC,
    Cancelled, Coded, TypeOK, Locals, Settled, Installed, Retiring, Replacing,
    Disturbing, aecVars, howlingVars, ctlVars, encVars
<1>10. QED
  BY <1>1, <1>2, <1>3, <1>4, <1>5, <1>6, <1>7, <1>8, <1>9 DEF Next, Control, ControlStep, EncodeStep

\* The detector and its flag.
LEMMA DetectingStep ==
  ASSUME TypeOK, Locals, Settled, Detecting, Next
  PROVE  Detecting'
<1>1. CASE Open
  BY <1>1, ObjectsAssumption DEF Open, TypeOK, Locals, Settled, Detecting, Disturbing,
    aecVars, howlingVars, ctlVars, encVars
<1>2. CASE Close
  BY <1>2, ObjectsAssumption DEF Close, Goto, TypeOK, Locals, Settled, Detecting,
    Disturbing, aecVars, howlingVars, ctlVars, encVars
<1>3. CASE \E type \in {"full", "mobile"} : SwitchAEC(type)
  BY <1>3, ObjectsAssumption DEF SwitchAEC, Create, TypeOK, Locals, Settled,
    Detecting, Disturbing, aecVars, howlingVars, ctlVars, encVars
<1>4. CASE DisableAEC
  BY <1>4, ObjectsAssumption DEF DisableAEC, Goto, Allowed, TypeOK, Locals, Settled,
    Detecting, Disturbing, aecVars, howlingVars, ctlVars, encVars
<1>5. CASE ClearAEC
  BY <1>5, ObjectsAssumption DEF ClearAEC, Goto, TypeOK, Locals, Settled, Detecting,
    Disturbing, aecVars, howlingVars, ctlVars, encVars
<1>6. CASE \E value \in Signs : SwitchHowling(value)
  BY <1>6, ObjectsAssumption DEF SwitchHowling, Goto, Allowed, TypeOK, Locals,
    Settled, Detecting, Disturbing, aecVars, howlingVars, ctlVars, encVars
<1>7. CASE Unhook
  BY <1>7, ObjectsAssumption DEF Unhook, TypeOK, Locals, Settled, Detecting,
    Disturbing, aecVars, howlingVars, ctlVars, encVars
<1>8. CASE CloseHowling
  BY <1>8, ObjectsAssumption DEF CloseHowling, TypeOK, Locals, Settled, Detecting,
    Disturbing, aecVars, howlingVars, ctlVars, encVars
<1>9. CASE CreateHowling
  BY <1>9, ObjectsAssumption DEF CreateHowling, FlagDropped, TypeOK, Locals, Settled,
    Detecting, Disturbing, aecVars, howlingVars, ctlVars, encVars
<1>10. CASE Hook
  BY <1>10, ObjectsAssumption DEF Hook, Return, TypeOK, Locals, Settled, Detecting,
    Disturbing, aecVars, howlingVars, ctlVars, encVars
<1>11. CASE FreeHowling
  BY <1>11, ObjectsAssumption DEF FreeHowling, Goto, TypeOK, Locals, Settled,
    Detecting, Disturbing, aecVars, howlingVars, ctlVars, encVars
<1>12. CASE UnsetHowling
  BY <1>12, ObjectsAssumption DEF UnsetHowling, Return, TypeOK, Locals, Settled,
    Detecting, Disturbing, aecVars, howlingVars, ctlVars, encVars
<1>13. CASE Encode \/ Detect \/ Detected \/ ReadAEC \/ TestAEC \/ Cancelled \/ TakePending
           \/ ForgetPending \/ DropPending \/ Coded
  BY <1>13, ObjectsAssumption DEF Encode, Detect, Detected, ReadAEC, TestAEC,
    Cancelled, TakePending, ForgetPending, Forgotten, DropPending, Coded, TypeOK,
    Locals, Settled, Detecting, Disturbing, aecVars, howlingVars, ctlVars, encVars
<1>14. CASE ResetAEC \/ Install \/ Retire \/ CloseAEC \/ DeleteAEC
  BY <1>14, ObjectsAssumption DEF ResetAEC, Create, ModeAfterReset, Install, Goto,
    Retire, Return, Retired, CloseAEC, DeleteAEC, TypeOK, Locals, Settled, Detecting,
    Disturbing, aecVars, howlingVars, ctlVars, encVars
<1>15. QED
  BY <1>1, <1>2, <1>3, <1>4, <1>5, <1>6, <1>7, <1>8, <1>9, <1>10, <1>11, <1>12, <1>13,
    <1>14 DEF Next, Control, ControlStep, EncodeStep

\* The detector that listens.
LEMMA HearingStep ==
  ASSUME Quiet, TypeOK, Settled, Hearing, Next
  PROVE  Hearing'
<1>1. CASE \E value \in Signs : SwitchHowling(value)
  BY <1>1, ObjectsAssumption DEF SwitchHowling, Goto, Allowed, TypeOK, Settled,
    Hearing, Disturbing, aecVars, howlingVars, ctlVars, encVars
<1>2. CASE CreateHowling
  BY <1>2, ObjectsAssumption DEF CreateHowling, FlagDropped, TypeOK, Settled, Hearing,
    Disturbing, aecVars, howlingVars, ctlVars, encVars
<1>3. CASE Unhook
  BY <1>3, ObjectsAssumption DEF Unhook, TypeOK, Settled, Hearing, Disturbing,
    aecVars, howlingVars, ctlVars, encVars
<1>4. CASE Hook
  BY <1>4, ObjectsAssumption DEF Hook, Return, TypeOK, Settled, Hearing, Disturbing,
    aecVars, howlingVars, ctlVars, encVars
<1>5. CASE UnsetHowling
  BY <1>5, ObjectsAssumption DEF UnsetHowling, Return, TypeOK, Settled, Hearing,
    Disturbing, aecVars, howlingVars, ctlVars, encVars
<1>6. CASE Encode
  BY <1>6, ObjectsAssumption DEF Encode, TypeOK, Settled, Hearing, Disturbing,
    aecVars, howlingVars, ctlVars, encVars
<1>7. CASE Detect
  BY <1>7, ObjectsAssumption DEF Detect, TypeOK, Settled, Hearing, Disturbing,
    aecVars, howlingVars, ctlVars, encVars
<1>8. CASE Open \/ Close \/ \E type \in {"full", "mobile"} : SwitchAEC(type) \/ ResetAEC
           \/ Install \/ Retire \/ DisableAEC \/ CloseAEC \/ DeleteAEC
           \/ ClearAEC \/ CloseHowling \/ FreeHowling \/ Detected \/ ReadAEC
           \/ TestAEC \/ Cancelled \/ TakePending \/ ForgetPending
           \/ DropPending \/ Coded
  BY <1>8, ObjectsAssumption DEF Open, Close, Goto, SwitchAEC, Create, ResetAEC,
    ModeAfterReset, Install, Retire, Return, Retired, DisableAEC, Allowed, CloseAEC,
    DeleteAEC, ClearAEC, CloseHowling, FreeHowling, Detected, ReadAEC, TestAEC,
    Cancelled, TakePending, ForgetPending, Forgotten, DropPending, Coded, TypeOK,
    Settled, Hearing, Disturbing, aecVars, howlingVars, ctlVars, encVars
<1>9. QED
  BY <1>1, <1>2, <1>3, <1>4, <1>5, <1>6, <1>7, <1>8 DEF Next, Control, ControlStep, EncodeStep

-----------------------------------------------------------------------------
(***************************************************************************)
(* The invariants.                                                         *)
(***************************************************************************)

LEMMA InitTypes == Init => TypeOK /\ Locals
BY ObjectsAssumption DEF Init, TypeOK, Locals, Modes, Signs, Disturbing

LEMMA NextTypes == TypeOK /\ Locals /\ [Next]_vars => (TypeOK /\ Locals)'
<1> SUFFICES ASSUME TypeOK, Locals, [Next]_vars
             PROVE  (TypeOK /\ Locals)'
  OBVIOUS
<1>1. CASE Next
  <2>1. AECType' /\ LifeType' /\ HowlingType' /\ DetectorType' /\ PlaceType' /\ LocalType'
    BY <1>1, AECTypeStep, LifeTypeStep, HowlingTypeStep, DetectorTypeStep,
      PlaceTypeStep, LocalTypeStep
  <2>2. TypeOK'
    BY <2>1 DEF TypeOK, AECType, LifeType, HowlingType, DetectorType, PlaceType, LocalType
  <2> QED
    BY <1>1, <2>2, LocalsStep
<1>2. CASE UNCHANGED vars
  BY <1>2 DEF vars, aecVars, howlingVars, ctlVars, encVars, TypeOK, Locals
<1> QED
  BY <1>1, <1>2

LEMMA InitInv == Init => CodecInv
<1> SUFFICES ASSUME Init
             PROVE  CodecInv
  OBVIOUS
<1>1. Settled /\ Working /\ Installed /\ Retiring
  BY DEF Init, Settled, Working, Installed, Retiring, Disturbing
<1>2. Replacing /\ Detecting /\ Hearing
  BY DEF Init, Replacing, Detecting, Hearing
<1> QED
  BY <1>1, <1>2, InitTypes DEF CodecInv

LEMMA NextInv == ASSUME Quiet PROVE CodecInv /\ [Next]_vars => CodecInv'
<1> SUFFICES ASSUME CodecInv, [Next]_vars
             PROVE  CodecInv'
  OBVIOUS
<1> USE DEF CodecInv
<1>1. (TypeOK /\ Locals)'
  BY NextTypes
<1>2. CASE Next
  <2>1. Settled' /\ Working' /\ Installed' /\ Retiring'
    BY <1>2, SettledStep, WorkingStep, InstalledStep, RetiringStep
  <2>2. Replacing' /\ Detecting' /\ Hearing'
    BY <1>2, ReplacingStep, DetectingStep, HearingStep
  <2> QED
    BY <1>1, <2>1, <2>2
<1>3. CASE UNCHANGED vars
  <2> USE <1>3 DEF vars, aecVars, howlingVars, ctlVars, encVars
  <2>1. Settled' /\ Working' /\ Installed' /\ Retiring'
    BY DEF Settled, Working, Installed, Retiring
  <2>2. Replacing' /\ Detecting' /\ Hearing'
    BY DEF Replacing, Detecting, Hearing
  <2> QED
    BY <1>1, <2>1, <2>2
<1> QED
  BY <1>2, <1>3

-----------------------------------------------------------------------------
(***************************************************************************)
(* The theorems.                                                           *)
(***************************************************************************)

\* Type correctness, for every application: setCodecState, open, close and encode
\* leave in each field what its declaration says.
THEOREM TypeCorrect == Spec => []TypeOK
<1> QED
  BY InitTypes, NextTypes, PTL DEF Spec

\* For a quiet application, the invariant of the codec's shared pointers.
THEOREM CodecInvHolds == ASSUME Quiet PROVE Spec => []CodecInv
<1>1. CodecInv /\ [Next]_vars => CodecInv'
  BY NextInv
<1> QED
  BY <1>1, InitInv, PTL DEF Spec

\* A quiet application may switch and reset the canceller at any time: encode
\* does not touch a canceller that has been closed or deleted.
THEOREM CancelerStaysAlive == ASSUME Quiet PROVE Spec => []CancelerAlive
<1>1. CodecInv => CancelerAlive
  BY DEF CodecInv, Working, CancelerAlive
<1> QED
  BY <1>1, CodecInvHolds, PTL

\* encode and setCodecState between them delete each canceller at most once.
THEOREM CancelersAreDeletedOnce == ASSUME Quiet PROVE Spec => []DeletedOnce
<1>1. CodecInv => DeletedOnce
  BY DEF CodecInv, Retiring, Installed, DeletedOnce
<1> QED
  BY <1>1, CodecInvHolds, PTL

\* encode listens with no detector that has been freed; it listens with none at all
\* only after a negative value, not when one could not be created.
THEOREM DetectorStaysAlive == ASSUME Quiet PROVE Spec => []DetectorAlive
<1>1. CodecInv => DetectorAlive
  <2> SUFFICES ASSUME CodecInv, enc = "detecting"
               PROVE  IF listening = Nil THEN howlOn < 0 ELSE detector[listening] = "ready"
    BY DEF DetectorAlive
  <2>1. ctl \notin Disturbing /\ codec = "open" /\ howlOn # 0 /\ listening = howling
    BY DEF CodecInv, Settled, Hearing
  <2>2. howling = Nil => ~(howlOn > 0)
    BY <2>1 DEF CodecInv, Detecting, Disturbing
  <2>3. howling # Nil => detector[howling] = "ready"
    BY <2>1 DEF CodecInv, Detecting, Disturbing
  <2> QED
    BY <2>1, <2>2, <2>3 DEF CodecInv, TypeOK, Signs
<1> QED
  BY <1>1, CodecInvHolds, PTL

-----------------------------------------------------------------------------
(***************************************************************************)
(* Where cancellers are lost.                                              *)
(***************************************************************************)

\* What a step may do to one canceller.
KeptOrLost(c) ==
  /\ life[c] = "none" /\ life'[c] # "none" => Owned(c)'
  /\ Owned(c) /\ ~Owned(c)' /\ life'[c] # "deleted" =>
       pending = c /\ (Retire \/ (ForgetPending /\ doomed # c))

LEMMA ControlKeeps ==
  ASSUME CodecInv, Control, NEW c \in Cancelers
  PROVE  KeptOrLost(c)
<1>0. TypeOK /\ Locals /\ Installed /\ Retiring /\ Replacing /\ c # Nil
  BY ObjectsAssumption DEF CodecInv
<1> USE <1>0 DEF KeptOrLost, Owned, TypeOK, aecVars, howlingVars, encVars
<1>1. CASE \E type \in {"full", "mobile"} : SwitchAEC(type)
  <2>1. PICK n \in Cancelers : life' = [life EXCEPT ![n] = "open"] /\ new' = n
    BY <1>1 DEF SwitchAEC, Create
  <2>2. /\ ctl = "idle" /\ ctl' = "install" /\ UNCHANGED <<aec, pending, doomed>>
    BY <1>1 DEF SwitchAEC
  <2>3. life'[c] # life[c] => c = n
    BY <2>1
  <2> QED
    BY <2>1, <2>2, <2>3
<1>2. CASE ResetAEC
  <2>1. ctl = "idle" /\ ctl' = "install" /\ UNCHANGED <<aec, pending, doomed>>
    BY <1>2 DEF ResetAEC
  <2>2. life'[c] # life[c] => new' = c
    BY <1>2 DEF ResetAEC, Create
  <2> QED
    BY <2>1, <2>2
<1>3. CASE Install
  BY <1>3 DEF Install, Goto, Replacing
<1>4. CASE Retire
  BY <1>4 DEF Retire, Return, Retired
<1>5. CASE CloseAEC \/ DeleteAEC
  <2>1. /\ ctl \in {"close", "delete"} /\ ctl' \in {"delete", "clear"}
        /\ UNCHANGED <<aec, pending, doomed>>
    BY <1>5 DEF CloseAEC, DeleteAEC, Goto
  <2>2. life'[c] # life[c] => c = aec
    BY <1>5 DEF CloseAEC, DeleteAEC
  <2> QED
    BY <2>1, <2>2
<1>6. CASE ClearAEC
  <2>1. ctl = "clear" /\ UNCHANGED <<life, pending, doomed>>
    BY <1>6 DEF ClearAEC
  <2>2. c = aec => life[c] = "deleted"
    BY <2>1 DEF Installed
  <2> QED
    BY <2>1, <2>2
<1>7. CASE \/ Open \/ Close \/ DisableAEC
           \/ (\E value \in Signs : SwitchHowling(value))
           \/ Unhook \/ CloseHowling \/ CreateHowling \/ Hook
           \/ FreeHowling \/ UnsetHowling
  <2>1. UNCHANGED <<aec, pending, life, doomed>>
    BY <1>7 DEF Open, Close, DisableAEC, SwitchHowling, Unhook, CloseHowling,
      CreateHowling, Hook, FreeHowling, UnsetHowling, ctlVars
  <2>2. ctl \notin {"install", "retire"}
    BY <1>7, <1>0 DEF Open, Close, DisableAEC, SwitchHowling, Unhook, CloseHowling,
      CreateHowling, Hook, FreeHowling, UnsetHowling, CodecInv, Settled
  <2> QED
    BY <2>1, <2>2
<1> QED
  BY <1>1, <1>2, <1>3, <1>4, <1>5, <1>6, <1>7 DEF Control, ControlStep

LEMMA EncoderKeeps ==
  ASSUME CodecInv, Encode \/ EncodeStep, NEW c \in Cancelers
  PROVE  KeptOrLost(c)
<1>0. TypeOK /\ Retiring /\ c # Nil
  BY ObjectsAssumption DEF CodecInv
<1> USE <1>0 DEF KeptOrLost, Owned, TypeOK, howlingVars, ctlVars
<1>1. CASE TakePending
  <2>1. doomed = Nil
    BY <1>1 DEF TakePending, Retiring
  <2> QED
    BY <1>1, <2>1 DEF TakePending, aecVars
<1>2. CASE ForgetPending
  <2>1. UNCHANGED <<aec, life, doomed, ctlVars>>
    BY <1>2 DEF ForgetPending
  <2> QED
    BY <1>2, <2>1
<1>3. CASE DropPending
  <2>1. doomed # Nil /\ life[doomed] = "open" /\ doomed \in Cancelers
    BY <1>3 DEF DropPending, Retiring
  <2>2. life'[doomed] = "deleted" /\ (c # doomed => life'[c] = life[c])
    BY <1>3, <2>1 DEF DropPending
  <2> QED
    BY <1>3, <2>1, <2>2 DEF DropPending
<1>4. CASE \/ Encode \/ Detect \/ Detected \/ ReadAEC \/ TestAEC \/ Cancelled \/ Coded
  <2>1. UNCHANGED <<aecVars, ctlVars, doomed>>
    BY <1>4 DEF Encode, Detect, Detected, ReadAEC, TestAEC, Cancelled, Coded
  <2> QED
    BY <2>1 DEF aecVars
<1> QED
  BY <1>1, <1>2, <1>3, <1>4 DEF EncodeStep

\* For a quiet application, a canceller is lost only when setCodecState leaves
\* another for deletion while it is pending, or when encode resets
\* mEchoCancelerPendingDelete after it has read it.
THEOREM LossesAreKnown == ASSUME Quiet PROVE Spec => LostOnlyWhilePending
<1>1. CodecInv /\ [Next]_vars => [\A c \in Cancelers : KeptOrLost(c)]_vars
  BY ControlKeeps, EncoderKeeps DEF Next
<1>2. Spec => [][\A c \in Cancelers : KeptOrLost(c)]_vars
  BY <1>1, CodecInvHolds, PTL DEF Spec
<1> QED
  BY <1>2 DEF LostOnlyWhilePending, KeptOrLost
=============================================================================
