--------------------------- MODULE RecorderProofs ---------------------------
(***************************************************************************)
(* RecInv is inductive: for every ring length, every bound on the backlog  *)
(* below it, and whether or not OpenSL calls fail, the encoder gets each   *)
(* frame whole, once and in order.                                         *)
(***************************************************************************)
EXTENDS RecorderInv, TLAPS

\* TypeOK in parts.
FlagType ==
  /\ initialized \in BOOLEAN /\ prepared \in BOOLEAN /\ recording \in BOOLEAN
  /\ destroying \in BOOLEAN /\ stopAsked \in BOOLEAN /\ playing \in BOOLEAN

ControlType ==
  /\ codec \in {"open", "null", "deleted"}
  /\ ctl \in {"idle", "prepare", "halt", "rearm", "record", "play", "started",
              "stop", "stophalt", "stopnotify", "release", "close", "delete"}

ThreadType ==
  /\ device \in {"none", "stopped", "recording"}
  /\ cb \in {"idle", "advance", "trim", "notify"}
  /\ enc \in {"out", "test", "waitstart", "loop", "look", "encode", "skip", "pause"}

FrameType ==
  /\ session \in Nat
  /\ queue \in Slots \cup {NoSlot}
  /\ ring \in [Slots -> Frames]
  /\ recorderRead \in Nat /\ recorderWrite \in Nat
  /\ pos \in Slots \cup {NoSlot} /\ held \in Frames /\ encoded \in Frames

EventType ==
  signal \in BOOLEAN /\ waiting \in [{Encoder} -> {Event!No} \cup Event!Waits]

LEMMA TypeParts == TypeOK <=> FlagType /\ ControlType /\ ThreadType /\ FrameType /\ EventType
  BY DEF TypeOK, FlagType, ControlType, ThreadType, FrameType, EventType

\* Two frames less than a ring apart are in different slots.
LEMMA SlotsApart ==
  ASSUME NEW a \in Nat, NEW b \in Nat, a < b, b < a + RingFrames
  PROVE  SlotOf(a) # SlotOf(b)
<1> DEFINE p == a \div RingFrames
           q == b \div RingFrames
<1>1. a = RingFrames * p + SlotOf(a) /\ p \in Int /\ SlotOf(a) \in 0..RingFrames - 1
  BY RingAssumption DEF SlotOf
<1>2. b = RingFrames * q + SlotOf(b) /\ q \in Int /\ SlotOf(b) \in 0..RingFrames - 1
  BY RingAssumption DEF SlotOf
<1> HIDE DEF p, q
<1> SUFFICES ASSUME SlotOf(a) = SlotOf(b)
             PROVE  FALSE
  OBVIOUS
<1>3. b - a = RingFrames * (q - p)
  BY <1>1, <1>2, RingAssumption
<1>4. q - p > 0
  <2> SUFFICES ASSUME q - p <= 0
               PROVE  FALSE
    BY <1>1, <1>2
  <2>1. RingFrames * (q - p) <= 0
    BY <1>1, <1>2, RingAssumption
  <2> QED
    BY <1>3, <2>1
<1>5. RingFrames * (q - p) >= RingFrames
  BY <1>1, <1>2, <1>4, RingAssumption
<1> QED
  BY <1>3, <1>5, RingAssumption

LEMMA SlotZero == SlotOf(0) = 0
  BY RingAssumption DEF SlotOf

LEMMA SlotType == ASSUME NEW n \in Nat PROVE SlotOf(n) \in Slots /\ 0 \in Slots
  BY RingAssumption DEF SlotOf, Slots

LEMMA FrameMade == ASSUME NEW s \in Nat, NEW n \in Nat
                   PROVE  Frame(s, n) \in Frames /\ NoFrame \in Frames
  BY DEF Frame, NoFrame, Frames

\* Every step keeps the flags Boolean.
LEMMA FlagTypeStep ==
  ASSUME FlagType, Next
  PROVE  FlagType'
<1>1. CASE Prepare
  BY <1>1 DEF Prepare, PrepareOK, PrepareFails, Create, FlagType, lifeVars, ctlVars,
    deviceVars, ringVars, encVars, eventVars
<1>2. CASE StartCall \/ StopCall \/ DestroyCall
  BY <1>2 DEF StartCall, Joined, StopCall, DestroyCall, FlagType, lifeVars, ctlVars,
    deviceVars, ringVars, encVars, eventVars
<1>3. CASE StartPrepare
  BY <1>3 DEF StartPrepare, PrepareOK, PrepareFails, Create, Returns, FlagType,
    lifeVars, ctlVars, deviceVars, ringVars, encVars, eventVars
<1>4. CASE StartHalt \/ StartRecord \/ StartPlay \/ Started
  BY <1>4 DEF StartHalt, Halt, Fail, Returns, StartRecord, StartPlay, Started,
    FlagType, lifeVars, ctlVars, deviceVars, ringVars, encVars, eventVars
<1>5. CASE StartRearm
  BY <1>5 DEF StartRearm, Returns, FlagType, lifeVars, ctlVars, deviceVars, ringVars,
    encVars, eventVars
<1>6. CASE Stop \/ StopHalt \/ StopNotify
  BY <1>6 DEF Stop, AfterStop, StopHalt, StopNotify, FlagType, lifeVars, ctlVars,
    deviceVars, ringVars, encVars, eventVars
<1>7. CASE Release \/ CloseCodec \/ Destroyed
  BY <1>7 DEF Release, CloseCodec, Destroyed, Returns, FlagType, lifeVars, ctlVars,
    deviceVars, ringVars, encVars, eventVars
<1>8. CASE Capture
  BY <1>8 DEF Capture, FlagType, lifeVars, ctlVars, deviceVars, ringVars, encVars,
    eventVars
<1>9. CASE Advance
  BY <1>9 DEF Advance, FlagType, lifeVars, ctlVars, deviceVars, ringVars, encVars,
    eventVars
<1>10. CASE Trim
  BY <1>10 DEF Trim, NoRoom, FlagType, lifeVars, ctlVars, deviceVars, ringVars,
    encVars, eventVars
<1>11. CASE Enqueue
  BY <1>11 DEF Enqueue, NoRoom, NextSlot, FlagType, lifeVars, ctlVars, deviceVars,
    ringVars, encVars, eventVars
<1>12. CASE Notify \/ PlayerNotify
  BY <1>12 DEF Notify, PlayerNotify, FlagType, lifeVars, ctlVars, deviceVars,
    ringVars, encVars, eventVars
<1>13. CASE RunEncoding \/ TestStarted \/ WaitStart \/ Loop \/ Sleep \/ WakeUp
  BY <1>13 DEF RunEncoding, TestStarted, WaitStart, Loop, Sleep, WakeUp, FlagType,
    lifeVars, ctlVars, deviceVars, ringVars, encVars, eventVars
<1>14. CASE Look
  BY <1>14 DEF Look, FrameReady, FlagType, lifeVars, ctlVars, deviceVars, ringVars,
    encVars, eventVars
<1>15. CASE Encode
  BY <1>15 DEF Encode, Consumed, FlagType, lifeVars, ctlVars, deviceVars, ringVars,
    encVars, eventVars
<1>16. QED
  BY <1>1, <1>2, <1>3, <1>4, <1>5, <1>6, <1>7, <1>8, <1>9, <1>10, <1>11, <1>12, <1>13,
    <1>14, <1>15
  DEF Next, Control, ControlStep, CallbackStep, EncoderStep

\* Every step leads the control thread to one of its places.
LEMMA ControlTypeStep ==
  ASSUME ControlType, Next
  PROVE  ControlType'
<1>1. CASE Prepare
  BY <1>1 DEF Prepare, PrepareOK, PrepareFails, Create, ControlType, lifeVars,
    ctlVars, deviceVars, ringVars, encVars, eventVars
<1>2. CASE StartCall \/ StopCall \/ DestroyCall
  BY <1>2 DEF StartCall, Joined, StopCall, DestroyCall, ControlType, lifeVars,
    ctlVars, deviceVars, ringVars, encVars, eventVars
<1>3. CASE StartPrepare
  BY <1>3 DEF StartPrepare, PrepareOK, PrepareFails, Create, Returns, ControlType,
    lifeVars, ctlVars, deviceVars, ringVars, encVars, eventVars
<1>4. CASE StartHalt \/ StartRecord \/ StartPlay \/ Started
  BY <1>4 DEF StartHalt, Halt, Fail, Returns, StartRecord, StartPlay, Started,
    ControlType, lifeVars, ctlVars, deviceVars, ringVars, encVars, eventVars
<1>5. CASE StartRearm
  BY <1>5 DEF StartRearm, Returns, ControlType, lifeVars, ctlVars, deviceVars,
    ringVars, encVars, eventVars
<1>6. CASE Stop \/ StopHalt \/ StopNotify
  BY <1>6 DEF Stop, AfterStop, StopHalt, StopNotify, ControlType, lifeVars, ctlVars,
    deviceVars, ringVars, encVars, eventVars
<1>7. CASE Release \/ CloseCodec \/ Destroyed
  BY <1>7 DEF Release, CloseCodec, Destroyed, Returns, ControlType, lifeVars, ctlVars,
    deviceVars, ringVars, encVars, eventVars
<1>8. CASE Capture
  BY <1>8 DEF Capture, ControlType, lifeVars, ctlVars, deviceVars, ringVars, encVars,
    eventVars
<1>9. CASE Advance
  BY <1>9 DEF Advance, ControlType, lifeVars, ctlVars, deviceVars, ringVars, encVars,
    eventVars
<1>10. CASE Trim
  BY <1>10 DEF Trim, NoRoom, ControlType, lifeVars, ctlVars, deviceVars, ringVars,
    encVars, eventVars
<1>11. CASE Enqueue
  BY <1>11 DEF Enqueue, NoRoom, NextSlot, ControlType, lifeVars, ctlVars, deviceVars,
    ringVars, encVars, eventVars
<1>12. CASE Notify \/ PlayerNotify
  BY <1>12 DEF Notify, PlayerNotify, ControlType, lifeVars, ctlVars, deviceVars,
    ringVars, encVars, eventVars
<1>13. CASE RunEncoding \/ TestStarted \/ WaitStart \/ Loop \/ Sleep \/ WakeUp
  BY <1>13 DEF RunEncoding, TestStarted, WaitStart, Loop, Sleep, WakeUp, ControlType,
    lifeVars, ctlVars, deviceVars, ringVars, encVars, eventVars
<1>14. CASE Look
  BY <1>14 DEF Look, FrameReady, ControlType, lifeVars, ctlVars, deviceVars, ringVars,
    encVars, eventVars
<1>15. CASE Encode
  BY <1>15 DEF Encode, Consumed, ControlType, lifeVars, ctlVars, deviceVars, ringVars,
    encVars, eventVars
<1>16. QED
  BY <1>1, <1>2, <1>3, <1>4, <1>5, <1>6, <1>7, <1>8, <1>9, <1>10, <1>11, <1>12, <1>13,
    <1>14, <1>15
  DEF Next, Control, ControlStep, CallbackStep, EncoderStep

\* The same for the device, the callback and the encoder.
LEMMA ThreadTypeStep ==
  ASSUME ThreadType, Next
  PROVE  ThreadType'
<1>1. CASE Prepare
  BY <1>1 DEF Prepare, PrepareOK, PrepareFails, Create, ThreadType, lifeVars, ctlVars,
    deviceVars, ringVars, encVars, eventVars
<1>2. CASE StartCall \/ StopCall \/ DestroyCall
  BY <1>2 DEF StartCall, Joined, StopCall, DestroyCall, ThreadType, lifeVars, ctlVars,
    deviceVars, ringVars, encVars, eventVars
<1>3. CASE StartPrepare
  BY <1>3 DEF StartPrepare, PrepareOK, PrepareFails, Create, Returns, ThreadType,
    lifeVars, ctlVars, deviceVars, ringVars, encVars, eventVars
<1>4. CASE StartHalt \/ StartRecord \/ StartPlay \/ Started
  BY <1>4 DEF StartHalt, Halt, Fail, Returns, StartRecord, StartPlay, Started,
    ThreadType, lifeVars, ctlVars, deviceVars, ringVars, encVars, eventVars
<1>5. CASE StartRearm
  BY <1>5 DEF StartRearm, Returns, ThreadType, lifeVars, ctlVars, deviceVars,
    ringVars, encVars, eventVars
<1>6. CASE Stop \/ StopHalt \/ StopNotify
  BY <1>6 DEF Stop, AfterStop, StopHalt, StopNotify, ThreadType, lifeVars, ctlVars,
    deviceVars, ringVars, encVars, eventVars
<1>7. CASE Release \/ CloseCodec \/ Destroyed
  BY <1>7 DEF Release, CloseCodec, Destroyed, Returns, ThreadType, lifeVars, ctlVars,
    deviceVars, ringVars, encVars, eventVars
<1>8. CASE Capture
  BY <1>8 DEF Capture, ThreadType, lifeVars, ctlVars, deviceVars, ringVars, encVars,
    eventVars
<1>9. CASE Advance
  BY <1>9 DEF Advance, ThreadType, lifeVars, ctlVars, deviceVars, ringVars, encVars,
    eventVars
<1>10. CASE Trim
  BY <1>10 DEF Trim, NoRoom, ThreadType, lifeVars, ctlVars, deviceVars, ringVars,
    encVars, eventVars
<1>11. CASE Enqueue
  BY <1>11 DEF Enqueue, NoRoom, NextSlot, ThreadType, lifeVars, ctlVars, deviceVars,
    ringVars, encVars, eventVars
<1>12. CASE Notify \/ PlayerNotify
  BY <1>12 DEF Notify, PlayerNotify, ThreadType, lifeVars, ctlVars, deviceVars,
    ringVars, encVars, eventVars
<1>13. CASE RunEncoding \/ TestStarted \/ WaitStart \/ Loop \/ Sleep \/ WakeUp
  BY <1>13 DEF RunEncoding, TestStarted, WaitStart, Loop, Sleep, WakeUp, ThreadType,
    lifeVars, ctlVars, deviceVars, ringVars, encVars, eventVars
<1>14. CASE Look
  BY <1>14 DEF Look, FrameReady, ThreadType, lifeVars, ctlVars, deviceVars, ringVars,
    encVars, eventVars
<1>15. CASE Encode
  BY <1>15 DEF Encode, Consumed, ThreadType, lifeVars, ctlVars, deviceVars, ringVars,
    encVars, eventVars
<1>16. QED
  BY <1>1, <1>2, <1>3, <1>4, <1>5, <1>6, <1>7, <1>8, <1>9, <1>10, <1>11, <1>12, <1>13,
    <1>14, <1>15
  DEF Next, Control, ControlStep, CallbackStep, EncoderStep

\* The same for the ring.
LEMMA FrameTypeStep ==
  ASSUME FrameType, Next
  PROVE  FrameType'
<1>1. CASE Prepare
  BY <1>1, SlotType, FrameMade DEF Slots, Prepare, PrepareOK, PrepareFails, Create,
    FrameType, lifeVars, ctlVars, deviceVars, ringVars, encVars, eventVars
<1>2. CASE StartCall \/ StopCall \/ DestroyCall
  BY <1>2, SlotType, FrameMade DEF StartCall, Joined, StopCall, DestroyCall,
    FrameType, lifeVars, ctlVars, deviceVars, ringVars, encVars, eventVars
<1>3. CASE StartPrepare
  BY <1>3, SlotType, FrameMade DEF Slots, StartPrepare, PrepareOK, PrepareFails,
    Create, Returns, FrameType, lifeVars, ctlVars, deviceVars, ringVars, encVars,
    eventVars
<1>4. CASE StartHalt \/ StartRecord \/ StartPlay \/ Started
  BY <1>4, SlotType, FrameMade DEF StartHalt, Halt, Fail, Returns, StartRecord,
    StartPlay, Started, FrameType, lifeVars, ctlVars, deviceVars, ringVars, encVars,
    eventVars
<1>5. CASE StartRearm
  BY <1>5, SlotType, FrameMade DEF StartRearm, Returns, FrameType, lifeVars, ctlVars,
    deviceVars, ringVars, encVars, eventVars
<1>6. CASE Stop \/ StopHalt \/ StopNotify
  BY <1>6, SlotType, FrameMade DEF Stop, AfterStop, StopHalt, StopNotify, FrameType,
    lifeVars, ctlVars, deviceVars, ringVars, encVars, eventVars
<1>7. CASE Release \/ CloseCodec \/ Destroyed
  BY <1>7, SlotType, FrameMade DEF Release, CloseCodec, Destroyed, Returns, FrameType,
    lifeVars, ctlVars, deviceVars, ringVars, encVars, eventVars
<1>8. CASE Capture
  BY <1>8, SlotType, FrameMade DEF Capture, FrameType, lifeVars, ctlVars, deviceVars,
    ringVars, encVars, eventVars
<1>9. CASE Advance
  BY <1>9, SlotType, FrameMade DEF Advance, FrameType, lifeVars, ctlVars, deviceVars,
    ringVars, encVars, eventVars
<1>10. CASE Trim
  BY <1>10, SlotType, FrameMade DEF Trim, NoRoom, FrameType, lifeVars, ctlVars,
    deviceVars, ringVars, encVars, eventVars
<1>11. CASE Enqueue
  BY <1>11, SlotType, FrameMade DEF Enqueue, NoRoom, NextSlot, FrameType, lifeVars,
    ctlVars, deviceVars, ringVars, encVars, eventVars
<1>12. CASE Notify \/ PlayerNotify
  BY <1>12, SlotType, FrameMade DEF Notify, PlayerNotify, FrameType, lifeVars,
    ctlVars, deviceVars, ringVars, encVars, eventVars
<1>13. CASE RunEncoding \/ TestStarted \/ WaitStart \/ Loop \/ Sleep \/ WakeUp
  BY <1>13, SlotType, FrameMade DEF RunEncoding, TestStarted, WaitStart, Loop, Sleep,
    WakeUp, FrameType, lifeVars, ctlVars, deviceVars, ringVars, encVars, eventVars
<1>14. CASE Look
  BY <1>14, SlotType, FrameMade DEF Look, FrameReady, FrameType, lifeVars, ctlVars,
    deviceVars, ringVars, encVars, eventVars
<1>15. CASE Encode
  BY <1>15, SlotType, FrameMade DEF Encode, Consumed, FrameType, lifeVars, ctlVars,
    deviceVars, ringVars, encVars, eventVars
<1>16. QED
  BY <1>1, <1>2, <1>3, <1>4, <1>5, <1>6, <1>7, <1>8, <1>9, <1>10, <1>11, <1>12, <1>13,
    <1>14, <1>15
  DEF Next, Control, ControlStep, CallbackStep, EncoderStep

\* The same for the event.
LEMMA EventTypeStep ==
  ASSUME EventType, Next
  PROVE  EventType'
<1>1. CASE Prepare
  BY <1>1 DEF Prepare, PrepareOK, PrepareFails, Create, EventType, Encoder, Event!No,
    Event!Untimed, Event!Timed, Event!Waits, Event!Set, Event!Wait, Event!Consume,
    Event!Expire, Event!Return, PauseKind, lifeVars, ctlVars, deviceVars, ringVars,
    encVars, eventVars
<1>2. CASE StartCall \/ StopCall \/ DestroyCall
  BY <1>2 DEF StartCall, Joined, StopCall, DestroyCall, EventType, Encoder, Event!No,
    Event!Untimed, Event!Timed, Event!Waits, Event!Set, Event!Wait, Event!Consume,
    Event!Expire, Event!Return, PauseKind, lifeVars, ctlVars, deviceVars, ringVars,
    encVars, eventVars
<1>3. CASE StartPrepare
  BY <1>3 DEF StartPrepare, PrepareOK, PrepareFails, Create, Returns, EventType,
    Encoder, Event!No, Event!Untimed, Event!Timed, Event!Waits, Event!Set, Event!Wait,
    Event!Consume, Event!Expire, Event!Return, PauseKind, lifeVars, ctlVars,
    deviceVars, ringVars, encVars, eventVars
<1>4. CASE StartHalt \/ StartRecord \/ StartPlay \/ Started
  BY <1>4 DEF StartHalt, Halt, Fail, Returns, StartRecord, StartPlay, Started,
    EventType, Encoder, Event!No, Event!Untimed, Event!Timed, Event!Waits, Event!Set,
    Event!Wait, Event!Consume, Event!Expire, Event!Return, PauseKind, lifeVars,
    ctlVars, deviceVars, ringVars, encVars, eventVars
<1>5. CASE StartRearm
  BY <1>5 DEF StartRearm, Returns, EventType, Encoder, Event!No, Event!Untimed,
    Event!Timed, Event!Waits, Event!Set, Event!Wait, Event!Consume, Event!Expire,
    Event!Return, PauseKind, lifeVars, ctlVars, deviceVars, ringVars, encVars,
    eventVars
<1>6. CASE Stop \/ StopHalt \/ StopNotify
  BY <1>6 DEF Stop, AfterStop, StopHalt, StopNotify, EventType, Encoder, Event!No,
    Event!Untimed, Event!Timed, Event!Waits, Event!Set, Event!Wait, Event!Consume,
    Event!Expire, Event!Return, PauseKind, lifeVars, ctlVars, deviceVars, ringVars,
    encVars, eventVars
<1>7. CASE Release \/ CloseCodec \/ Destroyed
  BY <1>7 DEF Release, CloseCodec, Destroyed, Returns, EventType, Encoder, Event!No,
    Event!Untimed, Event!Timed, Event!Waits, Event!Set, Event!Wait, Event!Consume,
    Event!Expire, Event!Return, PauseKind, lifeVars, ctlVars, deviceVars, ringVars,
    encVars, eventVars
<1>8. CASE Capture
  BY <1>8 DEF Capture, EventType, Encoder, Event!No, Event!Untimed, Event!Timed,
    Event!Waits, Event!Set, Event!Wait, Event!Consume, Event!Expire, Event!Return,
    PauseKind, lifeVars, ctlVars, deviceVars, ringVars, encVars, eventVars
<1>9. CASE Advance
  BY <1>9 DEF Advance, EventType, Encoder, Event!No, Event!Untimed, Event!Timed,
    Event!Waits, Event!Set, Event!Wait, Event!Consume, Event!Expire, Event!Return,
    PauseKind, lifeVars, ctlVars, deviceVars, ringVars, encVars, eventVars
<1>10. CASE Trim
  BY <1>10 DEF Trim, NoRoom, EventType, Encoder, Event!No, Event!Untimed, Event!Timed,
    Event!Waits, Event!Set, Event!Wait, Event!Consume, Event!Expire, Event!Return,
    PauseKind, lifeVars, ctlVars, deviceVars, ringVars, encVars, eventVars
<1>11. CASE Enqueue
  BY <1>11 DEF Enqueue, NoRoom, NextSlot, EventType, Encoder, Event!No, Event!Untimed,
    Event!Timed, Event!Waits, Event!Set, Event!Wait, Event!Consume, Event!Expire,
    Event!Return, PauseKind, lifeVars, ctlVars, deviceVars, ringVars, encVars,
    eventVars
<1>12. CASE Notify \/ PlayerNotify
  BY <1>12 DEF Notify, PlayerNotify, EventType, Encoder, Event!No, Event!Untimed,
    Event!Timed, Event!Waits, Event!Set, Event!Wait, Event!Consume, Event!Expire,
    Event!Return, PauseKind, lifeVars, ctlVars, deviceVars, ringVars, encVars,
    eventVars
<1>13. CASE RunEncoding \/ TestStarted \/ WaitStart \/ Loop \/ Sleep \/ WakeUp
  BY <1>13 DEF RunEncoding, TestStarted, WaitStart, Loop, Sleep, WakeUp, EventType,
    Encoder, Event!No, Event!Untimed, Event!Timed, Event!Waits, Event!Set, Event!Wait,
    Event!Consume, Event!Expire, Event!Return, PauseKind, lifeVars, ctlVars,
    deviceVars, ringVars, encVars, eventVars
<1>14. CASE Look
  BY <1>14 DEF Look, FrameReady, EventType, Encoder, Event!No, Event!Untimed,
    Event!Timed, Event!Waits, Event!Set, Event!Wait, Event!Consume, Event!Expire,
    Event!Return, PauseKind, lifeVars, ctlVars, deviceVars, ringVars, encVars,
    eventVars
<1>15. CASE Encode
  BY <1>15 DEF Encode, Consumed, EventType, Encoder, Event!No, Event!Untimed,
    Event!Timed, Event!Waits, Event!Set, Event!Wait, Event!Consume, Event!Expire,
    Event!Return, PauseKind, lifeVars, ctlVars, deviceVars, ringVars, encVars,
    eventVars
<1>16. QED
  BY <1>1, <1>2, <1>3, <1>4, <1>5, <1>6, <1>7, <1>8, <1>9, <1>10, <1>11, <1>12, <1>13,
    <1>14, <1>15
  DEF Next, Control, ControlStep, CallbackStep, EncoderStep

\* The start of a session is not disturbed by an encoder.
LEMMA StartStep ==
  ASSUME KeepsUp, TypeOK, StartUndisturbed, DestroyUndisturbed, Next
  PROVE  StartUndisturbed'
<1>1. CASE Prepare
  BY <1>1 DEF Prepare, PrepareOK, PrepareFails, Create, KeepsUp, TypeOK,
    StartUndisturbed, Starting, DestroyUndisturbed, Releasing, lifeVars, ctlVars,
    deviceVars, ringVars, encVars, eventVars
<1>2. CASE StartCall \/ StopCall \/ DestroyCall
  BY <1>2 DEF StartCall, Joined, StopCall, DestroyCall, KeepsUp, TypeOK,
    StartUndisturbed, Starting, DestroyUndisturbed, Releasing, lifeVars, ctlVars,
    deviceVars, ringVars, encVars, eventVars
<1>3. CASE StartPrepare
  BY <1>3 DEF StartPrepare, PrepareOK, PrepareFails, Create, Returns, KeepsUp, TypeOK,
    StartUndisturbed, Starting, DestroyUndisturbed, Releasing, lifeVars, ctlVars,
    deviceVars, ringVars, encVars, eventVars
<1>4. CASE StartHalt \/ StartRecord \/ StartPlay \/ Started
  BY <1>4 DEF StartHalt, Halt, Fail, Returns, StartRecord, StartPlay, Started,
    KeepsUp, TypeOK, StartUndisturbed, Starting, DestroyUndisturbed, Releasing,
    lifeVars, ctlVars, deviceVars, ringVars, encVars, eventVars
<1>5. CASE StartRearm
  BY <1>5 DEF StartRearm, Returns, KeepsUp, TypeOK, StartUndisturbed, Starting,
    DestroyUndisturbed, Releasing, lifeVars, ctlVars, deviceVars, ringVars, encVars,
    eventVars
<1>6. CASE Stop \/ StopHalt \/ StopNotify
  BY <1>6 DEF Stop, AfterStop, StopHalt, StopNotify, KeepsUp, TypeOK,
    StartUndisturbed, Starting, DestroyUndisturbed, Releasing, lifeVars, ctlVars,
    deviceVars, ringVars, encVars, eventVars
<1>7. CASE Release \/ CloseCodec \/ Destroyed
  BY <1>7 DEF Release, CloseCodec, Destroyed, Returns, KeepsUp, TypeOK,
    StartUndisturbed, Starting, DestroyUndisturbed, Releasing, lifeVars, ctlVars,
    deviceVars, ringVars, encVars, eventVars
<1>8. CASE Capture
  BY <1>8 DEF Capture, KeepsUp, TypeOK, StartUndisturbed, Starting,
    DestroyUndisturbed, Releasing, lifeVars, ctlVars, deviceVars, ringVars, encVars,
    eventVars
<1>9. CASE Advance
  BY <1>9 DEF Advance, KeepsUp, TypeOK, StartUndisturbed, Starting,
    DestroyUndisturbed, Releasing, lifeVars, ctlVars, deviceVars, ringVars, encVars,
    eventVars
<1>10. CASE Trim
  BY <1>10 DEF Trim, NoRoom, KeepsUp, TypeOK, StartUndisturbed, Starting,
    DestroyUndisturbed, Releasing, lifeVars, ctlVars, deviceVars, ringVars, encVars,
    eventVars
<1>11. CASE Enqueue
  BY <1>11 DEF Enqueue, NoRoom, NextSlot, KeepsUp, TypeOK, StartUndisturbed, Starting,
    DestroyUndisturbed, Releasing, lifeVars, ctlVars, deviceVars, ringVars, encVars,
    eventVars
<1>12. CASE Notify \/ PlayerNotify
  BY <1>12 DEF Notify, PlayerNotify, KeepsUp, TypeOK, StartUndisturbed, Starting,
    DestroyUndisturbed, Releasing, lifeVars, ctlVars, deviceVars, ringVars, encVars,
    eventVars
<1>13. CASE RunEncoding \/ TestStarted \/ WaitStart \/ Loop \/ Sleep \/ WakeUp
  BY <1>13 DEF RunEncoding, TestStarted, WaitStart, Loop, Sleep, WakeUp, KeepsUp,
    TypeOK, StartUndisturbed, Starting, DestroyUndisturbed, Releasing, lifeVars,
    ctlVars, deviceVars, ringVars, encVars, eventVars
<1>14. CASE Look
  BY <1>14 DEF Look, FrameReady, KeepsUp, TypeOK, StartUndisturbed, Starting,
    DestroyUndisturbed, Releasing, lifeVars, ctlVars, deviceVars, ringVars, encVars,
    eventVars
<1>15. CASE Encode
  BY <1>15 DEF Encode, Consumed, KeepsUp, TypeOK, StartUndisturbed, Starting,
    DestroyUndisturbed, Releasing, lifeVars, ctlVars, deviceVars, ringVars, encVars,
    eventVars
<1>16. QED
  BY <1>1, <1>2, <1>3, <1>4, <1>5, <1>6, <1>7, <1>8, <1>9, <1>10, <1>11, <1>12, <1>13,
    <1>14, <1>15
  DEF Next, Control, ControlStep, CallbackStep, EncoderStep

\* Nor is the destruction of the object.
LEMMA DestroyStep ==
  ASSUME KeepsUp, TypeOK, StartUndisturbed, DestroyUndisturbed, Next
  PROVE  DestroyUndisturbed'
<1>1. CASE Prepare
  BY <1>1 DEF Prepare, PrepareOK, PrepareFails, Create, KeepsUp, TypeOK,
    StartUndisturbed, Starting, DestroyUndisturbed, Releasing, lifeVars, ctlVars,
    deviceVars, ringVars, encVars, eventVars
<1>2. CASE StartCall \/ StopCall \/ DestroyCall
  BY <1>2 DEF StartCall, Joined, StopCall, DestroyCall, KeepsUp, TypeOK,
    StartUndisturbed, Starting, DestroyUndisturbed, Releasing, lifeVars, ctlVars,
    deviceVars, ringVars, encVars, eventVars
<1>3. CASE StartPrepare
  BY <1>3 DEF StartPrepare, PrepareOK, PrepareFails, Create, Returns, KeepsUp, TypeOK,
    StartUndisturbed, Starting, DestroyUndisturbed, Releasing, lifeVars, ctlVars,
    deviceVars, ringVars, encVars, eventVars
<1>4. CASE StartHalt \/ StartRecord \/ StartPlay \/ Started
  BY <1>4 DEF StartHalt, Halt, Fail, Returns, StartRecord, StartPlay, Started,
    KeepsUp, TypeOK, StartUndisturbed, Starting, DestroyUndisturbed, Releasing,
    lifeVars, ctlVars, deviceVars, ringVars, encVars, eventVars
<1>5. CASE StartRearm
  BY <1>5 DEF StartRearm, Returns, KeepsUp, TypeOK, StartUndisturbed, Starting,
    DestroyUndisturbed, Releasing, lifeVars, ctlVars, deviceVars, ringVars, encVars,
    eventVars
<1>6. CASE Stop \/ StopHalt \/ StopNotify
  BY <1>6 DEF Stop, AfterStop, StopHalt, StopNotify, KeepsUp, TypeOK,
    StartUndisturbed, Starting, DestroyUndisturbed, Releasing, lifeVars, ctlVars,
    deviceVars, ringVars, encVars, eventVars
<1>7. CASE Release \/ CloseCodec \/ Destroyed
  BY <1>7 DEF Release, CloseCodec, Destroyed, Returns, KeepsUp, TypeOK,
    StartUndisturbed, Starting, DestroyUndisturbed, Releasing, lifeVars, ctlVars,
    deviceVars, ringVars, encVars, eventVars
<1>8. CASE Capture
  BY <1>8 DEF Capture, KeepsUp, TypeOK, StartUndisturbed, Starting,
    DestroyUndisturbed, Releasing, lifeVars, ctlVars, deviceVars, ringVars, encVars,
    eventVars
<1>9. CASE Advance
  BY <1>9 DEF Advance, KeepsUp, TypeOK, StartUndisturbed, Starting,
    DestroyUndisturbed, Releasing, lifeVars, ctlVars, deviceVars, ringVars, encVars,
    eventVars
<1>10. CASE Trim
  BY <1>10 DEF Trim, NoRoom, KeepsUp, TypeOK, StartUndisturbed, Starting,
    DestroyUndisturbed, Releasing, lifeVars, ctlVars, deviceVars, ringVars, encVars,
    eventVars
<1>11. CASE Enqueue
  BY <1>11 DEF Enqueue, NoRoom, NextSlot, KeepsUp, TypeOK, StartUndisturbed, Starting,
    DestroyUndisturbed, Releasing, lifeVars, ctlVars, deviceVars, ringVars, encVars,
    eventVars
<1>12. CASE Notify \/ PlayerNotify
  BY <1>12 DEF Notify, PlayerNotify, KeepsUp, TypeOK, StartUndisturbed, Starting,
    DestroyUndisturbed, Releasing, lifeVars, ctlVars, deviceVars, ringVars, encVars,
    eventVars
<1>13. CASE RunEncoding \/ TestStarted \/ WaitStart \/ Loop \/ Sleep \/ WakeUp
  BY <1>13 DEF RunEncoding, TestStarted, WaitStart, Loop, Sleep, WakeUp, KeepsUp,
    TypeOK, StartUndisturbed, Starting, DestroyUndisturbed, Releasing, lifeVars,
    ctlVars, deviceVars, ringVars, encVars, eventVars
<1>14. CASE Look
  BY <1>14 DEF Look, FrameReady, KeepsUp, TypeOK, StartUndisturbed, Starting,
    DestroyUndisturbed, Releasing, lifeVars, ctlVars, deviceVars, ringVars, encVars,
    eventVars
<1>15. CASE Encode
  BY <1>15 DEF Encode, Consumed, KeepsUp, TypeOK, StartUndisturbed, Starting,
    DestroyUndisturbed, Releasing, lifeVars, ctlVars, deviceVars, ringVars, encVars,
    eventVars
<1>16. QED
  BY <1>1, <1>2, <1>3, <1>4, <1>5, <1>6, <1>7, <1>8, <1>9, <1>10, <1>11, <1>12, <1>13,
    <1>14, <1>15
  DEF Next, Control, ControlStep, CallbackStep, EncoderStep

\* No frame still to be encoded is in the slot the device is given next.
LEMMA UnreadApart ==
  ASSUME KeepsUp, RecInv
  PROVE  \A i \in recorderRead..recorderWrite - 1 :
           SlotOf(i) # SlotOf(recorderWrite) /\ SlotOf(i) \in Slots
<1> SUFFICES ASSUME NEW i \in recorderRead..recorderWrite - 1
             PROVE  SlotOf(i) # SlotOf(recorderWrite) /\ SlotOf(i) \in Slots
  OBVIOUS
<1>1. i \in Nat /\ recorderWrite \in Nat /\ i < recorderWrite
  BY DEF RecInv, TypeOK
<1>2. recorderWrite < i + RingFrames
  BY <1>1, RingAssumption, SchedulingAssumption DEF KeepsUp, RecInv, TypeOK, Backlog
<1> QED
  BY <1>1, <1>2, SlotsApart, SlotType

\* A session starts from an empty device and a new session number.
LEMMA RearmedStep ==
  ASSUME KeepsUp, RecInv, Next
  PROVE  Rearmed'
<1>1. CASE Prepare
  BY <1>1 DEF Prepare, PrepareOK, PrepareFails, Create, RecInv, TypeOK, Rearmed,
    StartUndisturbed, Starting, DestroyUndisturbed, Progress, Frames, NoSlot,
    lifeVars, ctlVars, deviceVars, ringVars, encVars, eventVars
<1>2. CASE StartCall \/ StopCall \/ DestroyCall
  BY <1>2 DEF StartCall, Joined, StopCall, DestroyCall, RecInv, TypeOK, Rearmed,
    StartUndisturbed, Starting, DestroyUndisturbed, Progress, Frames, NoSlot,
    lifeVars, ctlVars, deviceVars, ringVars, encVars, eventVars
<1>3. CASE StartPrepare
  BY <1>3 DEF StartPrepare, PrepareOK, PrepareFails, Create, Returns, RecInv, TypeOK,
    Rearmed, StartUndisturbed, Starting, DestroyUndisturbed, Progress, Frames, NoSlot,
    lifeVars, ctlVars, deviceVars, ringVars, encVars, eventVars
<1>4. CASE StartHalt \/ StartRecord \/ StartPlay \/ Started
  BY <1>4 DEF StartHalt, Halt, Fail, Returns, StartRecord, StartPlay, Started, RecInv,
    TypeOK, Rearmed, StartUndisturbed, Starting, DestroyUndisturbed, Progress, Frames,
    NoSlot, lifeVars, ctlVars, deviceVars, ringVars, encVars, eventVars
<1>5. CASE StartRearm
  BY <1>5 DEF StartRearm, Returns, RecInv, TypeOK, Rearmed, StartUndisturbed,
    Starting, DestroyUndisturbed, Progress, Frames, NoSlot, lifeVars, ctlVars,
    deviceVars, ringVars, encVars, eventVars
<1>6. CASE Stop \/ StopHalt \/ StopNotify
  BY <1>6 DEF Stop, AfterStop, StopHalt, StopNotify, RecInv, TypeOK, Rearmed,
    StartUndisturbed, Starting, DestroyUndisturbed, Progress, Frames, NoSlot,
    lifeVars, ctlVars, deviceVars, ringVars, encVars, eventVars
<1>7. CASE Release \/ CloseCodec \/ Destroyed
  BY <1>7 DEF Release, CloseCodec, Destroyed, Returns, RecInv, TypeOK, Rearmed,
    StartUndisturbed, Starting, DestroyUndisturbed, Progress, Frames, NoSlot,
    lifeVars, ctlVars, deviceVars, ringVars, encVars, eventVars
<1>8. CASE Capture
  BY <1>8 DEF Capture, RecInv, TypeOK, Rearmed, StartUndisturbed, Starting,
    DestroyUndisturbed, Progress, Frames, NoSlot, lifeVars, ctlVars, deviceVars,
    ringVars, encVars, eventVars
<1>9. CASE Advance
  BY <1>9 DEF Advance, RecInv, TypeOK, Rearmed, StartUndisturbed, Starting,
    DestroyUndisturbed, Progress, Frames, NoSlot, lifeVars, ctlVars, deviceVars,
    ringVars, encVars, eventVars
<1>10. CASE Trim
  BY <1>10 DEF Trim, NoRoom, RecInv, TypeOK, Rearmed, StartUndisturbed, Starting,
    DestroyUndisturbed, Progress, Frames, NoSlot, lifeVars, ctlVars, deviceVars,
    ringVars, encVars, eventVars
<1>11. CASE Enqueue
  BY <1>11 DEF Enqueue, NoRoom, NextSlot, RecInv, TypeOK, Rearmed, StartUndisturbed,
    Starting, DestroyUndisturbed, Progress, Frames, NoSlot, lifeVars, ctlVars,
    deviceVars, ringVars, encVars, eventVars
<1>12. CASE Notify \/ PlayerNotify
  BY <1>12 DEF Notify, PlayerNotify, RecInv, TypeOK, Rearmed, StartUndisturbed,
    Starting, DestroyUndisturbed, Progress, Frames, NoSlot, lifeVars, ctlVars,
    deviceVars, ringVars, encVars, eventVars
<1>13. CASE RunEncoding \/ TestStarted \/ WaitStart \/ Loop \/ Sleep \/ WakeUp
  BY <1>13 DEF RunEncoding, TestStarted, WaitStart, Loop, Sleep, WakeUp, RecInv,
    TypeOK, Rearmed, StartUndisturbed, Starting, DestroyUndisturbed, Progress, Frames,
    NoSlot, lifeVars, ctlVars, deviceVars, ringVars, encVars, eventVars
<1>14. CASE Look
  BY <1>14 DEF Look, FrameReady, RecInv, TypeOK, Rearmed, StartUndisturbed, Starting,
    DestroyUndisturbed, Progress, Frames, NoSlot, lifeVars, ctlVars, deviceVars,
    ringVars, encVars, eventVars
<1>15. CASE Encode
  BY <1>15 DEF Encode, Consumed, RecInv, TypeOK, Rearmed, StartUndisturbed, Starting,
    DestroyUndisturbed, Progress, Frames, NoSlot, lifeVars, ctlVars, deviceVars,
    ringVars, encVars, eventVars
<1>16. QED
  BY <1>1, <1>2, <1>3, <1>4, <1>5, <1>6, <1>7, <1>8, <1>9, <1>10, <1>11, <1>12, <1>13,
    <1>14, <1>15
  DEF Next, Control, ControlStep, CallbackStep, EncoderStep

\* The device fills the slot mRecorderWrite selects.
LEMMA DeviceSlotStep ==
  ASSUME KeepsUp, RecInv, Next
  PROVE  DeviceSlot'
<1>1. CASE Prepare
  BY <1>1, SlotZero, SlotType DEF Prepare, PrepareOK, PrepareFails, Create, RecInv,
    TypeOK, DeviceSlot, Rearmed, Slots, NoSlot, lifeVars, ctlVars, deviceVars,
    ringVars, encVars, eventVars
<1>2. CASE StartCall \/ StopCall \/ DestroyCall
  BY <1>2, SlotZero, SlotType DEF StartCall, Joined, StopCall, DestroyCall, RecInv,
    TypeOK, DeviceSlot, Rearmed, Slots, NoSlot, lifeVars, ctlVars, deviceVars,
    ringVars, encVars, eventVars
<1>3. CASE StartPrepare
  BY <1>3, SlotZero, SlotType DEF StartPrepare, PrepareOK, PrepareFails, Create,
    Returns, RecInv, TypeOK, DeviceSlot, Rearmed, Slots, NoSlot, lifeVars, ctlVars,
    deviceVars, ringVars, encVars, eventVars
<1>4. CASE StartHalt \/ StartRecord \/ StartPlay \/ Started
  BY <1>4, SlotZero, SlotType DEF StartHalt, Halt, Fail, Returns, StartRecord,
    StartPlay, Started, RecInv, TypeOK, DeviceSlot, Rearmed, Slots, NoSlot, lifeVars,
    ctlVars, deviceVars, ringVars, encVars, eventVars
<1>5. CASE StartRearm
  BY <1>5, SlotZero, SlotType DEF StartRearm, Returns, RecInv, TypeOK, DeviceSlot,
    Rearmed, Slots, NoSlot, lifeVars, ctlVars, deviceVars, ringVars, encVars,
    eventVars
<1>6. CASE Stop \/ StopHalt \/ StopNotify
  BY <1>6, SlotZero, SlotType DEF Stop, AfterStop, StopHalt, StopNotify, RecInv,
    TypeOK, DeviceSlot, Rearmed, Slots, NoSlot, lifeVars, ctlVars, deviceVars,
    ringVars, encVars, eventVars
<1>7. CASE Release \/ CloseCodec \/ Destroyed
  BY <1>7, SlotZero, SlotType DEF Release, CloseCodec, Destroyed, Returns, RecInv,
    TypeOK, DeviceSlot, Rearmed, Slots, NoSlot, lifeVars, ctlVars, deviceVars,
    ringVars, encVars, eventVars
<1>8. CASE Capture
  BY <1>8, SlotZero, SlotType DEF Capture, RecInv, TypeOK, DeviceSlot, Rearmed, Slots,
    NoSlot, lifeVars, ctlVars, deviceVars, ringVars, encVars, eventVars
<1>9. CASE Advance
  BY <1>9, SlotZero, SlotType DEF Advance, RecInv, TypeOK, DeviceSlot, Rearmed, Slots,
    NoSlot, lifeVars, ctlVars, deviceVars, ringVars, encVars, eventVars
<1>10. CASE Trim
  BY <1>10, SlotZero, SlotType DEF Trim, NoRoom, RecInv, TypeOK, DeviceSlot, Rearmed,
    Slots, NoSlot, lifeVars, ctlVars, deviceVars, ringVars, encVars, eventVars
<1>11. CASE Enqueue
  BY <1>11, SlotZero, SlotType DEF Enqueue, NoRoom, NextSlot, RecInv, TypeOK,
    DeviceSlot, Rearmed, Slots, NoSlot, lifeVars, ctlVars, deviceVars, ringVars,
    encVars, eventVars
<1>12. CASE Notify \/ PlayerNotify
  BY <1>12, SlotZero, SlotType DEF Notify, PlayerNotify, RecInv, TypeOK, DeviceSlot,
    Rearmed, Slots, NoSlot, lifeVars, ctlVars, deviceVars, ringVars, encVars,
    eventVars
<1>13. CASE RunEncoding \/ TestStarted \/ WaitStart \/ Loop \/ Sleep \/ WakeUp
  BY <1>13, SlotZero, SlotType DEF RunEncoding, TestStarted, WaitStart, Loop, Sleep,
    WakeUp, RecInv, TypeOK, DeviceSlot, Rearmed, Slots, NoSlot, lifeVars, ctlVars,
    deviceVars, ringVars, encVars, eventVars
<1>14. CASE Look
  BY <1>14, SlotZero, SlotType DEF Look, FrameReady, RecInv, TypeOK, DeviceSlot,
    Rearmed, Slots, NoSlot, lifeVars, ctlVars, deviceVars, ringVars, encVars,
    eventVars
<1>15. CASE Encode
  BY <1>15, SlotZero, SlotType DEF Encode, Consumed, RecInv, TypeOK, DeviceSlot,
    Rearmed, Slots, NoSlot, lifeVars, ctlVars, deviceVars, ringVars, encVars,
    eventVars
<1>16. QED
  BY <1>1, <1>2, <1>3, <1>4, <1>5, <1>6, <1>7, <1>8, <1>9, <1>10, <1>11, <1>12, <1>13,
    <1>14, <1>15
  DEF Next, Control, ControlStep, CallbackStep, EncoderStep

\* Recording happens in a session.
LEMMA SessionStep ==
  ASSUME KeepsUp, RecInv, Next
  PROVE  OnlyInSession'
<1>1. CASE Prepare
  BY <1>1 DEF Prepare, PrepareOK, PrepareFails, Create, RecInv, TypeOK, OnlyInSession,
    Rearmed, NoSlot, lifeVars, ctlVars, deviceVars, ringVars, encVars, eventVars
<1>2. CASE StartCall \/ StopCall \/ DestroyCall
  BY <1>2 DEF StartCall, Joined, StopCall, DestroyCall, RecInv, TypeOK, OnlyInSession,
    Rearmed, NoSlot, lifeVars, ctlVars, deviceVars, ringVars, encVars, eventVars
<1>3. CASE StartPrepare
  BY <1>3 DEF StartPrepare, PrepareOK, PrepareFails, Create, Returns, RecInv, TypeOK,
    OnlyInSession, Rearmed, NoSlot, lifeVars, ctlVars, deviceVars, ringVars, encVars,
    eventVars
<1>4. CASE StartHalt \/ StartRecord \/ StartPlay \/ Started
  BY <1>4 DEF StartHalt, Halt, Fail, Returns, StartRecord, StartPlay, Started, RecInv,
    TypeOK, OnlyInSession, Rearmed, NoSlot, lifeVars, ctlVars, deviceVars, ringVars,
    encVars, eventVars
<1>5. CASE StartRearm
  BY <1>5 DEF StartRearm, Returns, RecInv, TypeOK, OnlyInSession, Rearmed, NoSlot,
    lifeVars, ctlVars, deviceVars, ringVars, encVars, eventVars
<1>6. CASE Stop \/ StopHalt \/ StopNotify
  BY <1>6 DEF Stop, AfterStop, StopHalt, StopNotify, RecInv, TypeOK, OnlyInSession,
    Rearmed, NoSlot, lifeVars, ctlVars, deviceVars, ringVars, encVars, eventVars
<1>7. CASE Release \/ CloseCodec \/ Destroyed
  BY <1>7 DEF Release, CloseCodec, Destroyed, Returns, RecInv, TypeOK, OnlyInSession,
    Rearmed, NoSlot, lifeVars, ctlVars, deviceVars, ringVars, encVars, eventVars
<1>8. CASE Capture
  BY <1>8 DEF Capture, RecInv, TypeOK, OnlyInSession, Rearmed, NoSlot, lifeVars,
    ctlVars, deviceVars, ringVars, encVars, eventVars
<1>9. CASE Advance
  BY <1>9 DEF Advance, RecInv, TypeOK, OnlyInSession, Rearmed, NoSlot, lifeVars,
    ctlVars, deviceVars, ringVars, encVars, eventVars
<1>10. CASE Trim
  BY <1>10 DEF Trim, NoRoom, RecInv, TypeOK, OnlyInSession, Rearmed, NoSlot, lifeVars,
    ctlVars, deviceVars, ringVars, encVars, eventVars
<1>11. CASE Enqueue
  BY <1>11 DEF Enqueue, NoRoom, NextSlot, RecInv, TypeOK, OnlyInSession, Rearmed,
    NoSlot, lifeVars, ctlVars, deviceVars, ringVars, encVars, eventVars
<1>12. CASE Notify \/ PlayerNotify
  BY <1>12 DEF Notify, PlayerNotify, RecInv, TypeOK, OnlyInSession, Rearmed, NoSlot,
    lifeVars, ctlVars, deviceVars, ringVars, encVars, eventVars
<1>13. CASE RunEncoding \/ TestStarted \/ WaitStart \/ Loop \/ Sleep \/ WakeUp
  BY <1>13 DEF RunEncoding, TestStarted, WaitStart, Loop, Sleep, WakeUp, RecInv,
    TypeOK, OnlyInSession, Rearmed, NoSlot, lifeVars, ctlVars, deviceVars, ringVars,
    encVars, eventVars
<1>14. CASE Look
  BY <1>14 DEF Look, FrameReady, RecInv, TypeOK, OnlyInSession, Rearmed, NoSlot,
    lifeVars, ctlVars, deviceVars, ringVars, encVars, eventVars
<1>15. CASE Encode
  BY <1>15 DEF Encode, Consumed, RecInv, TypeOK, OnlyInSession, Rearmed, NoSlot,
    lifeVars, ctlVars, deviceVars, ringVars, encVars, eventVars
<1>16. QED
  BY <1>1, <1>2, <1>3, <1>4, <1>5, <1>6, <1>7, <1>8, <1>9, <1>10, <1>11, <1>12, <1>13,
    <1>14, <1>15
  DEF Next, Control, ControlStep, CallbackStep, EncoderStep

\* The scheduling bound covers the frame being counted.
LEMMA BacklogStep ==
  ASSUME KeepsUp, RecInv, Next
  PROVE  Backlog'
<1>1. CASE Prepare
  BY <1>1, SchedulingAssumption DEF Prepare, PrepareOK, PrepareFails, Create, RecInv,
    TypeOK, Backlog, Rearmed, lifeVars, ctlVars, deviceVars, ringVars, encVars,
    eventVars
<1>2. CASE StartCall \/ StopCall \/ DestroyCall
  BY <1>2, SchedulingAssumption DEF StartCall, Joined, StopCall, DestroyCall, RecInv,
    TypeOK, Backlog, Rearmed, lifeVars, ctlVars, deviceVars, ringVars, encVars,
    eventVars
<1>3. CASE StartPrepare
  BY <1>3, SchedulingAssumption DEF StartPrepare, PrepareOK, PrepareFails, Create,
    Returns, RecInv, TypeOK, Backlog, Rearmed, lifeVars, ctlVars, deviceVars,
    ringVars, encVars, eventVars
<1>4. CASE StartHalt \/ StartRecord \/ StartPlay \/ Started
  BY <1>4, SchedulingAssumption DEF StartHalt, Halt, Fail, Returns, StartRecord,
    StartPlay, Started, RecInv, TypeOK, Backlog, Rearmed, lifeVars, ctlVars,
    deviceVars, ringVars, encVars, eventVars
<1>5. CASE StartRearm
  BY <1>5, SchedulingAssumption DEF StartRearm, Returns, RecInv, TypeOK, Backlog,
    Rearmed, lifeVars, ctlVars, deviceVars, ringVars, encVars, eventVars
<1>6. CASE Stop \/ StopHalt \/ StopNotify
  BY <1>6, SchedulingAssumption DEF Stop, AfterStop, StopHalt, StopNotify, RecInv,
    TypeOK, Backlog, Rearmed, lifeVars, ctlVars, deviceVars, ringVars, encVars,
    eventVars
<1>7. CASE Release \/ CloseCodec \/ Destroyed
  BY <1>7, SchedulingAssumption DEF Release, CloseCodec, Destroyed, Returns, RecInv,
    TypeOK, Backlog, Rearmed, lifeVars, ctlVars, deviceVars, ringVars, encVars,
    eventVars
<1>8. CASE Capture
  BY <1>8, SchedulingAssumption DEF Capture, RecInv, TypeOK, Backlog, Rearmed,
    lifeVars, ctlVars, deviceVars, ringVars, encVars, eventVars
<1>9. CASE Advance
  BY <1>9, SchedulingAssumption DEF Advance, RecInv, TypeOK, Backlog, Rearmed,
    lifeVars, ctlVars, deviceVars, ringVars, encVars, eventVars
<1>10. CASE Trim
  BY <1>10, SchedulingAssumption DEF Trim, NoRoom, RecInv, TypeOK, Backlog, Rearmed,
    lifeVars, ctlVars, deviceVars, ringVars, encVars, eventVars
<1>11. CASE Enqueue
  BY <1>11, SchedulingAssumption DEF Enqueue, NoRoom, NextSlot, RecInv, TypeOK,
    Backlog, Rearmed, lifeVars, ctlVars, deviceVars, ringVars, encVars, eventVars
<1>12. CASE Notify \/ PlayerNotify
  BY <1>12, SchedulingAssumption DEF Notify, PlayerNotify, RecInv, TypeOK, Backlog,
    Rearmed, lifeVars, ctlVars, deviceVars, ringVars, encVars, eventVars
<1>13. CASE RunEncoding \/ TestStarted \/ WaitStart \/ Loop \/ Sleep \/ WakeUp
  BY <1>13, SchedulingAssumption DEF RunEncoding, TestStarted, WaitStart, Loop, Sleep,
    WakeUp, RecInv, TypeOK, Backlog, Rearmed, lifeVars, ctlVars, deviceVars, ringVars,
    encVars, eventVars
<1>14. CASE Look
  BY <1>14, SchedulingAssumption DEF Look, FrameReady, RecInv, TypeOK, Backlog,
    Rearmed, lifeVars, ctlVars, deviceVars, ringVars, encVars, eventVars
<1>15. CASE Encode
  BY <1>15, SchedulingAssumption DEF Encode, Consumed, RecInv, TypeOK, Backlog,
    Rearmed, lifeVars, ctlVars, deviceVars, ringVars, encVars, eventVars
<1>16. QED
  BY <1>1, <1>2, <1>3, <1>4, <1>5, <1>6, <1>7, <1>8, <1>9, <1>10, <1>11, <1>12, <1>13,
    <1>14, <1>15
  DEF Next, Control, ControlStep, CallbackStep, EncoderStep

\* The slots of the frames still to be encoded are not written.
LEMMA UnreadStep ==
  ASSUME KeepsUp, RecInv, Next
  PROVE  Unread'
<1>1. CASE Prepare
  BY <1>1 DEF Prepare, PrepareOK, PrepareFails, Create, RecInv, TypeOK, Unread,
    Rearmed, DeviceSlot, Slots, NoSlot, lifeVars, ctlVars, deviceVars, ringVars,
    encVars, eventVars
<1>2. CASE StartCall \/ StopCall \/ DestroyCall
  BY <1>2 DEF StartCall, Joined, StopCall, DestroyCall, RecInv, TypeOK, Unread,
    Rearmed, DeviceSlot, Slots, NoSlot, lifeVars, ctlVars, deviceVars, ringVars,
    encVars, eventVars
<1>3. CASE StartPrepare
  BY <1>3 DEF StartPrepare, PrepareOK, PrepareFails, Create, Returns, RecInv, TypeOK,
    Unread, Rearmed, DeviceSlot, Slots, NoSlot, lifeVars, ctlVars, deviceVars,
    ringVars, encVars, eventVars
<1>4. CASE StartHalt \/ StartRecord \/ StartPlay \/ Started
  BY <1>4 DEF StartHalt, Halt, Fail, Returns, StartRecord, StartPlay, Started, RecInv,
    TypeOK, Unread, Rearmed, DeviceSlot, Slots, NoSlot, lifeVars, ctlVars, deviceVars,
    ringVars, encVars, eventVars
<1>5. CASE StartRearm
  BY <1>5 DEF StartRearm, Returns, RecInv, TypeOK, Unread, Rearmed, DeviceSlot, Slots,
    NoSlot, lifeVars, ctlVars, deviceVars, ringVars, encVars, eventVars
<1>6. CASE Stop \/ StopHalt \/ StopNotify
  BY <1>6 DEF Stop, AfterStop, StopHalt, StopNotify, RecInv, TypeOK, Unread, Rearmed,
    DeviceSlot, Slots, NoSlot, lifeVars, ctlVars, deviceVars, ringVars, encVars,
    eventVars
<1>7. CASE Release \/ CloseCodec \/ Destroyed
  <2>1. CASE Release
    <3>1. recorderRead' = 0 /\ recorderWrite' = 0
      BY <2>1 DEF Release
    <3> QED
      BY <3>1 DEF Unread
  <2>2. CASE CloseCodec \/ Destroyed
    BY <2>2 DEF CloseCodec, Destroyed, RecInv, Unread, ringVars, ctlVars
  <2> QED
    BY <1>7, <2>1, <2>2
<1>8. CASE Capture
  BY <1>8, UnreadApart DEF Capture, RecInv, TypeOK, Unread, DeviceSlot, Slots,
    NoSlot, ctlVars
<1>9. CASE Advance
  BY <1>9 DEF Advance, RecInv, TypeOK, Unread, Rearmed, DeviceSlot, Slots, NoSlot,
    lifeVars, ctlVars, deviceVars, ringVars, encVars, eventVars
<1>10. CASE Trim
  BY <1>10 DEF Trim, NoRoom, RecInv, TypeOK, Unread, Rearmed, DeviceSlot, Slots,
    NoSlot, lifeVars, ctlVars, deviceVars, ringVars, encVars, eventVars
<1>11. CASE Enqueue
  BY <1>11, UnreadApart DEF Enqueue, NextSlot, RecInv, TypeOK, Unread, DeviceSlot,
    ctlVars
<1>12. CASE Notify \/ PlayerNotify
  BY <1>12 DEF Notify, PlayerNotify, RecInv, TypeOK, Unread, Rearmed, DeviceSlot,
    Slots, NoSlot, lifeVars, ctlVars, deviceVars, ringVars, encVars, eventVars
<1>13. CASE RunEncoding \/ TestStarted \/ WaitStart \/ Loop \/ Sleep \/ WakeUp
  BY <1>13 DEF RunEncoding, TestStarted, WaitStart, Loop, Sleep, WakeUp, RecInv,
    TypeOK, Unread, Rearmed, DeviceSlot, Slots, NoSlot, lifeVars, ctlVars, deviceVars,
    ringVars, encVars, eventVars
<1>14. CASE Look
  BY <1>14 DEF Look, FrameReady, RecInv, TypeOK, Unread, Rearmed, DeviceSlot, Slots,
    NoSlot, lifeVars, ctlVars, deviceVars, ringVars, encVars, eventVars
<1>15. CASE Encode
  BY <1>15 DEF Encode, Consumed, RecInv, TypeOK, Unread, Rearmed, DeviceSlot, Slots,
    NoSlot, lifeVars, ctlVars, deviceVars, ringVars, encVars, eventVars
<1>16. QED
  BY <1>1, <1>2, <1>3, <1>4, <1>5, <1>6, <1>7, <1>8, <1>9, <1>10, <1>11, <1>12, <1>13,
    <1>14, <1>15
  DEF Next, Control, ControlStep, CallbackStep, EncoderStep

\* The frame being encoded stays the oldest.
LEMMA EncodingStep ==
  ASSUME KeepsUp, RecInv, Next
  PROVE  Encoding'
<1>1. CASE Prepare
  BY <1>1, RingAssumption DEF Prepare, PrepareOK, PrepareFails, Create, RecInv,
    TypeOK, Encoding, Unread, StartUndisturbed, Starting, DestroyUndisturbed,
    Releasing, KeepsUp, lifeVars, ctlVars, deviceVars, ringVars, encVars, eventVars
<1>2. CASE StartCall \/ StopCall \/ DestroyCall
  BY <1>2, RingAssumption DEF StartCall, Joined, StopCall, DestroyCall, RecInv,
    TypeOK, Encoding, Unread, StartUndisturbed, Starting, DestroyUndisturbed,
    Releasing, KeepsUp, lifeVars, ctlVars, deviceVars, ringVars, encVars, eventVars
<1>3. CASE StartPrepare
  BY <1>3, RingAssumption DEF StartPrepare, PrepareOK, PrepareFails, Create, Returns,
    RecInv, TypeOK, Encoding, Unread, StartUndisturbed, Starting, DestroyUndisturbed,
    Releasing, KeepsUp, lifeVars, ctlVars, deviceVars, ringVars, encVars, eventVars
<1>4. CASE StartHalt \/ StartRecord \/ StartPlay \/ Started
  BY <1>4, RingAssumption DEF StartHalt, Halt, Fail, Returns, StartRecord, StartPlay,
    Started, RecInv, TypeOK, Encoding, Unread, StartUndisturbed, Starting,
    DestroyUndisturbed, Releasing, KeepsUp, lifeVars, ctlVars, deviceVars, ringVars,
    encVars, eventVars
<1>5. CASE StartRearm
  BY <1>5, RingAssumption DEF StartRearm, Returns, RecInv, TypeOK, Encoding, Unread,
    StartUndisturbed, Starting, DestroyUndisturbed, Releasing, KeepsUp, lifeVars,
    ctlVars, deviceVars, ringVars, encVars, eventVars
<1>6. CASE Stop \/ StopHalt \/ StopNotify
  BY <1>6, RingAssumption DEF Stop, AfterStop, StopHalt, StopNotify, RecInv, TypeOK,
    Encoding, Unread, StartUndisturbed, Starting, DestroyUndisturbed, Releasing,
    KeepsUp, lifeVars, ctlVars, deviceVars, ringVars, encVars, eventVars
<1>7. CASE Release \/ CloseCodec \/ Destroyed
  BY <1>7, RingAssumption DEF Release, CloseCodec, Destroyed, Returns, RecInv, TypeOK,
    Encoding, Unread, StartUndisturbed, Starting, DestroyUndisturbed, Releasing,
    KeepsUp, lifeVars, ctlVars, deviceVars, ringVars, encVars, eventVars
<1>8. CASE Capture
  BY <1>8, RingAssumption DEF Capture, RecInv, TypeOK, Encoding, Unread,
    StartUndisturbed, Starting, DestroyUndisturbed, Releasing, KeepsUp, lifeVars,
    ctlVars, deviceVars, ringVars, encVars, eventVars
<1>9. CASE Advance
  BY <1>9, RingAssumption DEF Advance, RecInv, TypeOK, Encoding, Unread,
    StartUndisturbed, Starting, DestroyUndisturbed, Releasing, KeepsUp, lifeVars,
    ctlVars, deviceVars, ringVars, encVars, eventVars
<1>10. CASE Trim
  BY <1>10, RingAssumption DEF Trim, NoRoom, RecInv, TypeOK, Encoding, Unread,
    StartUndisturbed, Starting, DestroyUndisturbed, Releasing, KeepsUp, lifeVars,
    ctlVars, deviceVars, ringVars, encVars, eventVars
<1>11. CASE Enqueue
  BY <1>11, RingAssumption DEF Enqueue, NoRoom, NextSlot, RecInv, TypeOK, Encoding,
    Unread, StartUndisturbed, Starting, DestroyUndisturbed, Releasing, KeepsUp,
    lifeVars, ctlVars, deviceVars, ringVars, encVars, eventVars
<1>12. CASE Notify \/ PlayerNotify
  BY <1>12, RingAssumption DEF Notify, PlayerNotify, RecInv, TypeOK, Encoding, Unread,
    StartUndisturbed, Starting, DestroyUndisturbed, Releasing, KeepsUp, lifeVars,
    ctlVars, deviceVars, ringVars, encVars, eventVars
<1>13. CASE RunEncoding \/ TestStarted \/ WaitStart \/ Loop \/ Sleep \/ WakeUp
  BY <1>13, RingAssumption DEF RunEncoding, TestStarted, WaitStart, Loop, Sleep,
    WakeUp, RecInv, TypeOK, Encoding, Unread, StartUndisturbed, Starting,
    DestroyUndisturbed, Releasing, KeepsUp, lifeVars, ctlVars, deviceVars, ringVars,
    encVars, eventVars
<1>14. CASE Look
  BY <1>14, RingAssumption DEF Look, FrameReady, RecInv, TypeOK, Encoding, Unread,
    StartUndisturbed, Starting, DestroyUndisturbed, Releasing, KeepsUp, lifeVars,
    ctlVars, deviceVars, ringVars, encVars, eventVars
<1>15. CASE Encode
  BY <1>15, RingAssumption DEF Encode, Consumed, RecInv, TypeOK, Encoding, Unread,
    StartUndisturbed, Starting, DestroyUndisturbed, Releasing, KeepsUp, lifeVars,
    ctlVars, deviceVars, ringVars, encVars, eventVars
<1>16. QED
  BY <1>1, <1>2, <1>3, <1>4, <1>5, <1>6, <1>7, <1>8, <1>9, <1>10, <1>11, <1>12, <1>13,
    <1>14, <1>15
  DEF Next, Control, ControlStep, CallbackStep, EncoderStep

\* Frames are consumed in order.
LEMMA ProgressStep ==
  ASSUME KeepsUp, RecInv, Next
  PROVE  Progress'
<1>1. CASE Prepare
  BY <1>1, RingAssumption DEF Prepare, PrepareOK, PrepareFails, Create, RecInv,
    TypeOK, Progress, Blank, Rearmed, Encoding, DestroyUndisturbed, Frame, Frames,
    NoSlot, lifeVars, ctlVars, deviceVars, ringVars, encVars, eventVars
<1>2. CASE StartCall \/ StopCall \/ DestroyCall
  BY <1>2, RingAssumption DEF StartCall, Joined, StopCall, DestroyCall, RecInv,
    TypeOK, Progress, Blank, Rearmed, Encoding, DestroyUndisturbed, Frame, Frames,
    NoSlot, lifeVars, ctlVars, deviceVars, ringVars, encVars, eventVars
<1>3. CASE StartPrepare
  BY <1>3, RingAssumption DEF StartPrepare, PrepareOK, PrepareFails, Create, Returns,
    RecInv, TypeOK, Progress, Blank, Rearmed, Encoding, DestroyUndisturbed, Frame,
    Frames, NoSlot, lifeVars, ctlVars, deviceVars, ringVars, encVars, eventVars
<1>4. CASE StartHalt \/ StartRecord \/ StartPlay \/ Started
  BY <1>4, RingAssumption DEF StartHalt, Halt, Fail, Returns, StartRecord, StartPlay,
    Started, RecInv, TypeOK, Progress, Blank, Rearmed, Encoding, DestroyUndisturbed,
    Frame, Frames, NoSlot, lifeVars, ctlVars, deviceVars, ringVars, encVars, eventVars
<1>5. CASE StartRearm
  BY <1>5, RingAssumption DEF StartRearm, Returns, RecInv, TypeOK, Progress, Blank,
    Rearmed, Encoding, DestroyUndisturbed, Frame, Frames, NoSlot, lifeVars, ctlVars,
    deviceVars, ringVars, encVars, eventVars
<1>6. CASE Stop \/ StopHalt \/ StopNotify
  BY <1>6, RingAssumption DEF Stop, AfterStop, StopHalt, StopNotify, RecInv, TypeOK,
    Progress, Blank, Rearmed, Encoding, DestroyUndisturbed, Frame, Frames, NoSlot,
    lifeVars, ctlVars, deviceVars, ringVars, encVars, eventVars
<1>7. CASE Release \/ CloseCodec \/ Destroyed
  BY <1>7, RingAssumption DEF Release, CloseCodec, Destroyed, Returns, RecInv, TypeOK,
    Progress, Blank, Rearmed, Encoding, DestroyUndisturbed, Frame, Frames, NoSlot,
    lifeVars, ctlVars, deviceVars, ringVars, encVars, eventVars
<1>8. CASE Capture
  BY <1>8, RingAssumption DEF Capture, RecInv, TypeOK, Progress, Blank, Rearmed,
    Encoding, DestroyUndisturbed, Frame, Frames, NoSlot, lifeVars, ctlVars,
    deviceVars, ringVars, encVars, eventVars
<1>9. CASE Advance
  BY <1>9, RingAssumption DEF Advance, RecInv, TypeOK, Progress, Blank, Rearmed,
    Encoding, DestroyUndisturbed, Frame, Frames, NoSlot, lifeVars, ctlVars,
    deviceVars, ringVars, encVars, eventVars
<1>10. CASE Trim
  BY <1>10, RingAssumption DEF Trim, NoRoom, RecInv, TypeOK, Progress, Blank, Rearmed,
    Encoding, DestroyUndisturbed, Frame, Frames, NoSlot, lifeVars, ctlVars,
    deviceVars, ringVars, encVars, eventVars
<1>11. CASE Enqueue
  BY <1>11, RingAssumption DEF Enqueue, NoRoom, NextSlot, RecInv, TypeOK, Progress,
    Blank, Rearmed, Encoding, DestroyUndisturbed, Frame, Frames, NoSlot, lifeVars,
    ctlVars, deviceVars, ringVars, encVars, eventVars
<1>12. CASE Notify \/ PlayerNotify
  BY <1>12, RingAssumption DEF Notify, PlayerNotify, RecInv, TypeOK, Progress, Blank,
    Rearmed, Encoding, DestroyUndisturbed, Frame, Frames, NoSlot, lifeVars, ctlVars,
    deviceVars, ringVars, encVars, eventVars
<1>13. CASE RunEncoding \/ TestStarted \/ WaitStart \/ Loop \/ Sleep \/ WakeUp
  BY <1>13, RingAssumption DEF RunEncoding, TestStarted, WaitStart, Loop, Sleep,
    WakeUp, RecInv, TypeOK, Progress, Blank, Rearmed, Encoding, DestroyUndisturbed,
    Frame, Frames, NoSlot, lifeVars, ctlVars, deviceVars, ringVars, encVars, eventVars
<1>14. CASE Look
  BY <1>14, RingAssumption DEF Look, FrameReady, RecInv, TypeOK, Progress, Blank,
    Rearmed, Encoding, DestroyUndisturbed, Frame, Frames, NoSlot, lifeVars, ctlVars,
    deviceVars, ringVars, encVars, eventVars
<1>15. CASE Encode
  BY <1>15, RingAssumption DEF Encode, Consumed, RecInv, TypeOK, Progress, Blank,
    Rearmed, Encoding, DestroyUndisturbed, Frame, Frames, NoSlot, lifeVars, ctlVars,
    deviceVars, ringVars, encVars, eventVars
<1>16. QED
  BY <1>1, <1>2, <1>3, <1>4, <1>5, <1>6, <1>7, <1>8, <1>9, <1>10, <1>11, <1>12, <1>13,
    <1>14, <1>15
  DEF Next, Control, ControlStep, CallbackStep, EncoderStep

-----------------------------------------------------------------------------
LEMMA InitTypes == Init => TypeOK
<1> SUFFICES ASSUME Init PROVE TypeOK
  OBVIOUS
<1>1. FlagType /\ ControlType /\ ThreadType
  BY DEF Init, FlagType, ControlType, ThreadType
<1>2. FrameType
  BY FrameMade DEF Init, FrameType, Slots
<1>3. EventType
  BY DEF Init, EventType, Event!No
<1> QED
  BY <1>1, <1>2, <1>3, TypeParts

LEMMA NextTypes == TypeOK /\ [Next]_vars => TypeOK'
<1> SUFFICES ASSUME TypeOK, [Next]_vars PROVE TypeOK'
  OBVIOUS
<1>1. CASE Next
  <2>1. FlagType' /\ ControlType' /\ ThreadType' /\ FrameType' /\ EventType'
    BY <1>1, TypeParts, FlagTypeStep, ControlTypeStep, ThreadTypeStep, FrameTypeStep,
       EventTypeStep
  <2> QED
    BY <2>1, TypeParts DEF FlagType, ControlType, ThreadType, FrameType, EventType, TypeOK
<1>2. CASE UNCHANGED vars
  BY <1>2 DEF TypeOK, vars, lifeVars, ctlVars, deviceVars, ringVars, encVars, eventVars
<1> QED
  BY <1>1, <1>2

LEMMA InitInv == Init => RecInv
<1> SUFFICES ASSUME Init PROVE RecInv
  OBVIOUS
<1>1. TypeOK
  BY InitTypes
<1>2. StartUndisturbed /\ DestroyUndisturbed /\ Rearmed
  BY DEF Init, StartUndisturbed, Starting, DestroyUndisturbed, Releasing, Rearmed
<1>3. DeviceSlot /\ OnlyInSession
  BY DEF Init, DeviceSlot, OnlyInSession
<1>4. Backlog /\ Unread /\ Encoding
  BY SchedulingAssumption DEF Init, Backlog, Unread, Encoding
<1>5. Progress
  BY DEF Init, Progress, Blank, NoFrame, Frame
<1> QED
  BY <1>1, <1>2, <1>3, <1>4, <1>5 DEF RecInv

LEMMA NextInv == ASSUME KeepsUp, RecInv, [Next]_vars PROVE RecInv'
<1>1. CASE Next
  <2>1. TypeOK'
    BY NextTypes DEF RecInv
  <2>2. StartUndisturbed' /\ DestroyUndisturbed'
    BY <1>1, StartStep, DestroyStep DEF RecInv
  <2>3. Rearmed' /\ DeviceSlot' /\ OnlyInSession' /\ Backlog'
    BY <1>1, RearmedStep, DeviceSlotStep, SessionStep, BacklogStep
  <2>4. Unread' /\ Encoding' /\ Progress'
    BY <1>1, UnreadStep, EncodingStep, ProgressStep
  <2> QED
    BY <2>1, <2>2, <2>3, <2>4 DEF RecInv
<1>2. CASE UNCHANGED vars
  <2> USE <1>2 DEF vars, lifeVars, ctlVars, deviceVars, ringVars, encVars, eventVars
  <2>1. TypeOK'
    BY NextTypes DEF RecInv
  <2>2. StartUndisturbed' /\ DestroyUndisturbed' /\ Rearmed'
    BY DEF RecInv, StartUndisturbed, Starting, DestroyUndisturbed, Releasing, Rearmed
  <2>3. DeviceSlot' /\ OnlyInSession' /\ Backlog'
    BY DEF RecInv, DeviceSlot, OnlyInSession, Backlog
  <2>4. Unread' /\ Encoding' /\ Progress'
    BY DEF RecInv, Unread, Encoding, Progress, Blank
  <2> QED
    BY <2>1, <2>2, <2>3, <2>4 DEF RecInv
<1> QED
  BY <1>1, <1>2

-----------------------------------------------------------------------------
(***************************************************************************)
(* The theorems.                                                           *)
(***************************************************************************)

\* Type correctness, for every application and scheduling.
THEOREM TypeCorrect == Spec => []TypeOK
<1> QED
  BY InitTypes, NextTypes, PTL DEF Spec

\* For an orderly application and an encoder that keeps up, the invariant.
THEOREM RecInvHolds == ASSUME KeepsUp PROVE Spec => []RecInv
<1>1. RecInv /\ [Next]_vars => RecInv'
  BY NextInv
<1> QED
  BY <1>1, InitInv, PTL DEF Spec

\* The frame in the encoder's hands was recorded whole and is not overwritten by
\* the device, whatever the ring length above the backlog, across stops, failed
\* starts, restarts and preparations.
THEOREM FrameStaysIntact == ASSUME KeepsUp PROVE Spec => []FrameIntact
<1>1. RecInv => FrameIntact
  <2> SUFFICES ASSUME RecInv, enc = "encode"
               PROVE  held # NoFrame /\ ring[pos] = held
    BY DEF FrameIntact
  <2>1. /\ recorderRead \in Nat /\ recorderWrite \in Nat
        /\ recorderRead < recorderWrite
        /\ pos = SlotOf(recorderRead) /\ held = Frame(session, recorderRead)
    BY DEF RecInv, TypeOK, Encoding
  <2>2. ring[pos] = held
    BY <2>1 DEF RecInv, Unread
  <2>3. session > 0
    BY <2>1 DEF RecInv, OnlyInSession
  <2> QED
    BY <2>1, <2>2, <2>3 DEF Frame, NoFrame
<1> QED
  BY <1>1, RecInvHolds, PTL

\* The refinement: which step of CaptureStream a step of the recorder is.
LEMMA InitRefinesStream == Init => Stream!Init
  BY DEF Init, Stream!Init, Stream!Nothing, Stream!Frame, Reading, NoFrame, Frame

LEMMA SameFrames == \A x, y : Stream!Frame(x, y) = Frame(x, y)
  BY DEF Stream!Frame, Frame

LEMMA SameNothing == Stream!Nothing = NoFrame
  BY DEF Stream!Nothing, Stream!Frame, NoFrame, Frame

\* Steps that touch nothing the stream shows.
LEMMA StreamStutters ==
  ASSUME UNCHANGED <<device, session, recorderWrite, encoded>>, Reading' = Reading
  PROVE  UNCHANGED Stream!streamVars
  BY DEF Stream!streamVars

\* What the codec reads while it reads: the oldest frame not yet encoded, in its
\* slot, which is not the one the device has or is given.
LEMMA ReadingFrame ==
  ASSUME KeepsUp, RecInv, enc = "encode"
  PROVE  /\ Reading = held /\ held = Frame(session, recorderRead) /\ held # NoFrame
         /\ pos \in Slots /\ pos # SlotOf(recorderWrite)
<1>1. /\ recorderRead \in recorderRead..recorderWrite - 1
      /\ pos = SlotOf(recorderRead) /\ held = Frame(session, recorderRead)
  BY DEF RecInv, TypeOK, Encoding
<1>2. pos \in Slots /\ pos # SlotOf(recorderWrite)
  BY <1>1, UnreadApart
<1>3. ring[pos] = held
  BY <1>1 DEF RecInv, Unread
<1>4. session > 0
  BY <1>1 DEF RecInv, TypeOK, OnlyInSession
<1> QED
  BY <1>1, <1>2, <1>3, <1>4 DEF Reading, Frame, NoFrame

\* A step that moves neither the encoder nor the ring shows the codec the same.
LEMMA ReadingKept ==
  ASSUME ring' = ring, enc' = enc, pos' = pos
  PROVE  Reading' = Reading
  BY DEF Reading

\* The control thread stops the device, opens a session or throws frames away.
LEMMA ControlRefinesStream ==
  ASSUME KeepsUp, RecInv, Control
  PROVE  [Stream!Next]_(Stream!streamVars)
<1> USE DEF Stream!Next
<1>1. CASE Prepare \/ StartPrepare \/ Release
  <2>1. enc # "encode" /\ enc' = enc
    BY <1>1 DEF Prepare, StartPrepare, Release, KeepsUp, RecInv, StartUndisturbed, Starting,
      DestroyUndisturbed, Releasing, encVars
  <2>2. /\ recorderWrite' = 0 /\ device' # "recording"
        /\ session' = session /\ encoded' = encoded
    BY <1>1 DEF Prepare, StartPrepare, Release, PrepareOK, PrepareFails, Create, ctlVars,
      encVars
  <2>3. Reading = NoFrame /\ Reading' = NoFrame
    BY <2>1 DEF Reading
  <2>4. Stream!Discard
    BY <2>2, <2>3, SameNothing, Zenon DEF Stream!Discard
  <2> QED
    BY <2>4
<1>2. CASE StartHalt \/ StopHalt
  <2>1. /\ UNCHANGED <<session, recorderWrite, encoded>> /\ Reading' = Reading
        /\ device' = device \/ device' = "stopped"
    BY <1>2, ReadingKept DEF StartHalt, StopHalt, Halt, Fail, ringVars, encVars, deviceVars
  <2>2. CASE device' = device
    BY <2>1, <2>2, StreamStutters
  <2>3. CASE device' = "stopped"
    BY <2>1, <2>3 DEF Stream!Stop
  <2> QED
    BY <2>1, <2>2, <2>3
<1>3. CASE StartRearm
  <2>1. enc # "encode" /\ enc' = enc /\ device # "recording"
    BY <1>3 DEF StartRearm, RecInv, StartUndisturbed, Starting, Rearmed, encVars
  <2>2. /\ recorderWrite' = 0 /\ device' = device
        /\ session' = session + 1 /\ encoded' = encoded
    BY <1>3 DEF StartRearm, encVars
  <2>3. Reading = NoFrame /\ Reading' = NoFrame
    BY <2>1 DEF Reading
  <2>4. Stream!Open
    BY <2>1, <2>2, <2>3, SameNothing DEF Stream!Open
  <2> QED
    BY <2>4
<1>4. CASE StartRecord
  <2>1. /\ UNCHANGED <<session, recorderWrite, encoded>> /\ Reading' = Reading
        /\ device' = device \/ device' = "recording"
    BY <1>4, ReadingKept DEF StartRecord, Fail, ringVars, encVars
  <2>2. device # "recording" /\ recorderWrite = 0 /\ encoded.ses < session
    BY <1>4 DEF StartRecord, RecInv, Rearmed
  <2>3. CASE device' = device
    BY <2>1, <2>3, StreamStutters
  <2>4. CASE device' = "recording"
    <3>1. Stream!Roll
      BY <2>1, <2>2, <2>4 DEF Stream!Roll
    <3> QED
      BY <3>1
  <2> QED
    BY <2>1, <2>3, <2>4
<1>5. CASE StartCall \/ StopCall \/ DestroyCall \/ StartPlay \/ Started
  <2>1. UNCHANGED <<device, session, recorderWrite, encoded>> /\ Reading' = Reading
    BY <1>5, ReadingKept DEF StartCall, StopCall, DestroyCall, StartPlay, Started, Fail,
      deviceVars, ringVars, encVars
  <2> QED
    BY <2>1, StreamStutters
<1>6. CASE Stop \/ StopNotify \/ CloseCodec \/ Destroyed
  <2>1. UNCHANGED <<device, session, recorderWrite, encoded>> /\ Reading' = Reading
    BY <1>6, ReadingKept DEF Stop, StopNotify, CloseCodec, Destroyed, deviceVars, ringVars,
      encVars
  <2> QED
    BY <2>1, StreamStutters
<1> QED
  BY <1>1, <1>2, <1>3, <1>4, <1>5, <1>6 DEF Control, ControlStep

\* The device fills a slot that is not read and counts the frame.
LEMMA CallbackRefinesStream ==
  ASSUME KeepsUp, RecInv, Capture \/ CallbackStep \/ PlayerNotify
  PROVE  [Stream!Next]_(Stream!streamVars)
<1>1. CASE Capture \/ Enqueue
  <2>1. /\ enc' = enc /\ pos' = pos
        /\ UNCHANGED <<device, session, recorderWrite, encoded>>
    BY <1>1 DEF Capture, Enqueue, encVars, ctlVars
  <2>2. \E f : ring' = [ring EXCEPT ![SlotOf(recorderWrite)] = f] \/ ring' = ring
    BY <1>1 DEF Capture, Enqueue, NextSlot, RecInv, DeviceSlot
  <2>3. Reading' = Reading
    <3>1. CASE enc = "encode"
      <4>1. ring \in [Slots -> Frames] /\ pos \in Slots /\ pos # SlotOf(recorderWrite)
        BY <3>1, ReadingFrame DEF RecInv, TypeOK
      <4>2. ring'[pos] = ring[pos]
        BY <2>2, <4>1
      <4> QED
        BY <2>1, <4>2 DEF Reading
    <3> QED
      BY <2>1, <3>1 DEF Reading
  <2> QED
    BY <2>1, <2>3, StreamStutters
<1>2. CASE Advance
  <2>1. /\ device = "recording" /\ device' = device /\ recorderWrite' = recorderWrite + 1
        /\ session' = session /\ encoded' = encoded
    BY <1>2 DEF Advance, RecInv, DeviceSlot, deviceVars, ctlVars, encVars
  <2>2. Reading' = Reading
    BY <1>2, ReadingKept DEF Advance, encVars
  <2>3. Stream!Record
    BY <2>1, <2>2 DEF Stream!Record
  <2> QED
    BY <2>3 DEF Stream!Next
<1>3. CASE Trim \/ Notify \/ PlayerNotify
  <2>1. UNCHANGED <<device, session, recorderWrite, encoded>> /\ Reading' = Reading
    BY <1>3, ReadingKept DEF Trim, Notify, PlayerNotify, deviceVars, ctlVars, ringVars, encVars
  <2> QED
    BY <2>1, StreamStutters
<1> QED
  BY <1>1, <1>2, <1>3 DEF CallbackStep

\* The encoder begins with the next frame of the session and ends with it.
LEMMA EncoderRefinesStream ==
  ASSUME KeepsUp, RecInv, RunEncoding \/ EncoderStep
  PROVE  [Stream!Next]_(Stream!streamVars)
<1> USE DEF Stream!Next
<1>1. CASE Look
  <2>1. /\ enc = "look" /\ recorderRead + 1 <= recorderWrite
        /\ UNCHANGED <<device, session, recorderWrite, ring, encoded>>
        /\ (enc' = "encode" /\ pos' = SlotOf(recorderRead)) \/ enc' = "skip"
    BY <1>1 DEF Look, FrameReady, deviceVars, ctlVars, ringVars
  <2>2. Reading = NoFrame
    BY <2>1 DEF Reading
  <2>3. CASE enc' = "skip"
    BY <2>1, <2>2, <2>3, StreamStutters DEF Reading
  <2>4. CASE enc' = "encode" /\ pos' = SlotOf(recorderRead)
    <3>0. recorderRead \in Nat /\ recorderWrite \in Nat /\ MaxBacklog \in Nat
      BY SchedulingAssumption DEF RecInv, TypeOK
    <3>1. Reading' = Frame(session, recorderRead)
      BY <2>1, <2>4, <3>0 DEF Reading, RecInv, Unread
    <3>2. session = encoded.ses => recorderRead = encoded.num + 1
      BY <2>1, <3>0 DEF RecInv, Progress, Blank
    <3>3. recorderRead \in Stream!Recent
      BY <2>1, <3>0 DEF RecInv, Backlog, Stream!Recent
    <3>4. Stream!Begin(recorderRead)
      BY <2>1, <2>2, <3>1, <3>2, SameFrames, SameNothing DEF Stream!Begin
    <3> QED
      BY <3>3, <3>4
  <2> QED
    BY <2>1, <2>3, <2>4
<1>2. CASE Encode
  <2>1. enc = "encode"
    BY <1>2 DEF Encode, RecInv, DestroyUndisturbed
  <2>2. Reading = held /\ held # NoFrame
    BY <2>1, ReadingFrame
  <2>3. /\ UNCHANGED <<device, session, recorderWrite>>
        /\ encoded' = held /\ enc' = "loop"
    BY <1>2, <2>1 DEF Encode, deviceVars, ctlVars
  <2>4. Reading' = NoFrame
    BY <2>3 DEF Reading
  <2>5. Stream!End
    BY <2>2, <2>3, <2>4, SameNothing DEF Stream!End
  <2> QED
    BY <2>5
<1>3. CASE RunEncoding \/ TestStarted \/ WaitStart \/ Loop \/ Sleep \/ WakeUp
  <2>1. UNCHANGED <<device, session, recorderWrite, encoded>>
    BY <1>3 DEF RunEncoding, TestStarted, WaitStart, Loop, Sleep, WakeUp, deviceVars,
      ctlVars, ringVars
  <2>2. enc # "encode" /\ enc' # "encode"
    BY <1>3 DEF RunEncoding, TestStarted, WaitStart, Loop, Sleep, WakeUp
  <2> QED
    BY <2>1, <2>2, StreamStutters DEF Reading
<1> QED
  BY <1>1, <1>2, <1>3 DEF EncoderStep

\* What recording promises Java (CaptureStream) is kept for an orderly application
\* and an encoder less than a ring behind: recorded frames, whole, recent, once and
\* in order, across failing OpenSL calls, stops and restarts.
THEOREM StreamIsImplemented == ASSUME KeepsUp PROVE Spec => ImplementsStream
<1>1. RecInv /\ [Next]_vars => [Stream!Next]_(Stream!streamVars)
  <2>1. UNCHANGED vars => UNCHANGED Stream!streamVars
    BY ReadingKept, StreamStutters DEF vars, ctlVars, deviceVars, ringVars, encVars
  <2> QED
    BY <2>1, ControlRefinesStream, CallbackRefinesStream, EncoderRefinesStream DEF Next
<1> QED
  BY <1>1, InitRefinesStream, RecInvHolds, PTL DEF Spec, ImplementsStream, Stream!Spec

-----------------------------------------------------------------------------
(***************************************************************************)
(* The loop of recorderCallback that drops frames.                         *)
(***************************************************************************)

\* For every application, scheduling and failure: the loop, once entered, does not
\* end.  Its body adds to mRecorderRead, which makes its condition truer.
THEOREM TrappedStays == Spec => TrappedForEver
<1>1. ASSUME TypeOK, Next, Trapped
      PROVE  Trapped'
  <2>1. RingFrames \in Nat /\ recorderRead \in Nat /\ recorderWrite \in Nat
    BY <1>1, RingAssumption DEF TypeOK
  <2>2. cb = "trim" /\ recorderRead - recorderWrite > RingFrames - 1
    BY <1>1 DEF Trapped, NoRoom
  <2>3. SUFFICES cb' = "trim" /\ recorderRead' - recorderWrite' > RingFrames - 1
    BY DEF Trapped, NoRoom
  <2>4. CASE Control
    <3>1. CASE StartRearm
      BY <2>1, <2>2, <3>1 DEF StartRearm
    <3>2. CASE Prepare \/ StartPrepare \/ StartHalt \/ StopHalt \/ Release
      BY <2>2, <3>2 DEF Prepare, StartPrepare, StartHalt, Halt, StopHalt, Release
    <3>3. CASE \/ StartCall \/ StartRecord \/ StartPlay \/ Started \/ StopCall \/ Stop
               \/ StopNotify \/ DestroyCall \/ CloseCodec \/ Destroyed
      BY <2>2, <3>3 DEF StartCall, StartRecord, StartPlay, Fail, Started, StopCall, Stop,
        StopNotify, DestroyCall, CloseCodec, Destroyed, ringVars
    <3> QED
      BY <2>4, <3>1, <3>2, <3>3 DEF Control, ControlStep
  <2>5. CASE Capture \/ Advance \/ Enqueue \/ Notify
    BY <2>2, <2>5 DEF Capture, Advance, Enqueue, NoRoom, Notify
  <2>6. CASE Trim
    BY <2>1, <2>2, <2>6 DEF Trim
  <2>7. CASE PlayerNotify
    BY <2>2, <2>7 DEF PlayerNotify, ringVars
  <2>8. CASE RunEncoding \/ TestStarted \/ WaitStart \/ Loop \/ Look \/ Sleep \/ WakeUp
    BY <2>2, <2>8 DEF RunEncoding, TestStarted, WaitStart, Loop, Look, Sleep, WakeUp, ringVars
  <2>9. CASE Encode
    BY <2>1, <2>2, <2>9 DEF Encode, Consumed
  <2> QED
    BY <1>1, <2>4, <2>5, <2>6, <2>7, <2>8, <2>9 DEF Next, CallbackStep, EncoderStep
<1>2. TypeOK /\ [Next]_vars => [Trapped => Trapped']_vars
  BY <1>1
<1> QED
  BY <1>2, TypeCorrect, PTL DEF Spec, TrappedForEver

\* A full ring is one of an earlier session.
LEMMA TrapIsOld ==
  ASSUME RecInv, Leftover, Trapped
  PROVE  OldCountTooLarge
<1>1. /\ RingFrames \in Nat \ {0} /\ recorderRead \in Nat /\ recorderWrite \in Nat
      /\ encoded.num \in Nat /\ encoded.ses \in Nat /\ session \in Nat
  BY RingAssumption DEF RecInv, TypeOK, Frames
<1>2. recorderRead - recorderWrite >= RingFrames
  BY <1>1 DEF Trapped, NoRoom
<1>3. encoded.ses < session
  BY <1>1, <1>2 DEF RecInv, Progress, Blank
<1> QED
  BY <1>1, <1>2, <1>3 DEF Leftover, OldCountTooLarge

\* A reader that goes further ahead of the writer is still too far ahead.
LEMMA StillFull ==
  ASSUME NEW n \in Nat, NEW r \in Nat, NEW w \in Nat, NEW s \in Nat,
         r - w > n - 1, s >= r
  PROVE  s - w > n - 1
  OBVIOUS

LEMMA LeftoverStep ==
  ASSUME KeepsUp, RecInv, Leftover, Next
  PROVE  Leftover'
<1>1. /\ RingFrames \in Nat \ {0} /\ recorderRead \in Nat /\ recorderWrite \in Nat
      /\ encoded.num \in Nat /\ encoded.ses \in Nat /\ session \in Nat
  BY RingAssumption DEF RecInv, TypeOK, Frames
<1>2. CASE Prepare \/ StartPrepare \/ Release
  <2>1. recorderRead' = 0
    BY <1>2 DEF Prepare, StartPrepare, PrepareOK, PrepareFails, Create, Release
  <2> QED
    BY <2>1 DEF Leftover
<1>3. CASE StartRearm
  <2>1. cb = "idle"
    BY <1>3 DEF StartRearm, RecInv, Rearmed
  <2>2. ~Trapped
    BY <2>1 DEF Trapped
  <2> QED
    BY <1>3, <2>2 DEF Leftover, StartRearm, encVars
<1>4. CASE Trim
  <2>1. Trapped /\ OldCountTooLarge
    BY <1>4, TrapIsOld DEF Trapped, Trim
  <2>2. Trapped'
    <3>1. /\ recorderRead' \in Nat /\ recorderRead' >= recorderRead
          /\ recorderWrite' = recorderWrite /\ cb' = "trim"
      BY <1>1, <1>4 DEF Trim
    <3>2. recorderRead - recorderWrite > RingFrames - 1
      BY <2>1 DEF Trapped, NoRoom
    <3>3. recorderRead' - recorderWrite' > RingFrames - 1
      BY <1>1, <3>1, <3>2, StillFull
    <3> QED
      BY <3>1, <3>3 DEF Trapped, NoRoom
  <2>3. OldCountTooLarge'
    BY <1>4, <2>1 DEF Trim, OldCountTooLarge, encVars, ctlVars
  <2> QED
    BY <2>2, <2>3 DEF Leftover
<1>5. CASE Encode
  <2>1. enc = "encode" /\ held = Frame(session, recorderRead)
    BY <1>5 DEF Encode, RecInv, DestroyUndisturbed, Encoding
  <2>2. recorderRead' = encoded'.num + 1
    BY <1>5, <2>1 DEF Encode, Consumed, Frame
  <2> QED
    BY <2>2 DEF Leftover
<1>6. CASE Advance \/ Enqueue \/ Capture \/ Notify
  <2>1. ~Trapped /\ recorderRead' = recorderRead /\ encoded' = encoded
    BY <1>6 DEF Advance, Enqueue, Capture, Notify, Trapped, ringVars, encVars
  <2> QED
    BY <2>1 DEF Leftover
<1>7. CASE \/ StartCall \/ StartHalt \/ StartRecord \/ StartPlay \/ Started \/ StopCall
           \/ Stop \/ StopHalt \/ StopNotify \/ DestroyCall \/ CloseCodec \/ Destroyed
           \/ PlayerNotify \/ RunEncoding \/ TestStarted \/ WaitStart \/ Loop \/ Look
           \/ Sleep \/ WakeUp
  <2>1. UNCHANGED <<recorderRead, recorderWrite, encoded, cb, session>>
    <3>1. CASE \/ StartCall \/ StartHalt \/ StartRecord \/ StartPlay \/ Started
               \/ StopCall \/ Stop \/ StopHalt \/ StopNotify
      BY <3>1 DEF StartCall, StartHalt, Halt, Fail, StartRecord, StartPlay, Started,
        StopCall, Stop, StopHalt, StopNotify, ringVars, encVars, ctlVars
    <3>2. CASE \/ DestroyCall \/ CloseCodec \/ Destroyed \/ PlayerNotify \/ RunEncoding
               \/ TestStarted \/ WaitStart \/ Loop \/ Look \/ Sleep \/ WakeUp
      BY <3>2 DEF DestroyCall, CloseCodec, Destroyed, PlayerNotify, RunEncoding,
        TestStarted, WaitStart, Loop, Look, Sleep, WakeUp, ringVars, encVars, ctlVars
    <3> QED
      BY <1>7, <3>1, <3>2
  <2> QED
    BY <2>1 DEF Leftover, Trapped, NoRoom, OldCountTooLarge
<1> QED
  BY <1>2, <1>3, <1>4, <1>5, <1>6, <1>7 DEF Next, Control, ControlStep, CallbackStep, EncoderStep

\* For an orderly application and an encoder that keeps up, the loop of
\* recorderCallback is entered only after a restart that kept mRecorderRead, and
\* only if the earlier session was longer than this one is by a ring.
THEOREM TrapComesFromOldCount == ASSUME KeepsUp PROVE Spec => []TrapNeedsOldCount
<1>1. Init => Leftover
  BY DEF Init, Leftover
<1>2. RecInv /\ Leftover /\ [Next]_vars => Leftover'
  <2>1. Leftover /\ UNCHANGED vars => Leftover'
    BY DEF vars, ringVars, encVars, ctlVars, Leftover, Trapped, NoRoom, OldCountTooLarge
  <2> QED
    BY <2>1, LeftoverStep
<1>3. RecInv /\ Leftover => TrapNeedsOldCount
  BY TrapIsOld DEF TrapNeedsOldCount
<1> QED
  BY <1>1, <1>2, <1>3, RecInvHolds, PTL DEF Spec

LEMMA OnceInsideStep ==
  ASSUME KeepsUp, RecInv, OnceInside, Next
  PROVE  OnceInside'
<1>1. CASE Prepare \/ StartPrepare
  <2>1. ~recording /\ enc \in {"out", "test", "waitstart", "loop"}
    BY <1>1 DEF Prepare, StartPrepare, KeepsUp, RecInv, StartUndisturbed, Starting
  <2>2. enc' = enc
    BY <1>1 DEF Prepare, StartPrepare, encVars
  <2> QED
    BY <2>1, <2>2 DEF OnceInside
<1>2. CASE Destroyed
  <2>1. enc = "out" /\ enc' = enc
    BY <1>2 DEF Destroyed, RecInv, DestroyUndisturbed, Releasing, encVars
  <2> QED
    BY <2>1 DEF OnceInside
<1>3. CASE Started \/ Stop \/ DestroyCall
  BY <1>3 DEF Started, Stop, DestroyCall, lifeVars, encVars, OnceInside
<1>4. CASE RunEncoding \/ TestStarted \/ WaitStart
  BY <1>4 DEF RunEncoding, TestStarted, WaitStart, OnceInside
<1>5. CASE Loop \/ Look \/ Encode \/ Sleep \/ WakeUp
  BY <1>5 DEF Loop, Look, Encode, Sleep, WakeUp, OnceInside, lifeVars, ctlVars
<1>6. CASE \/ StartCall \/ StartHalt \/ StartRearm \/ StartRecord \/ StartPlay \/ StopCall
           \/ StopHalt \/ StopNotify \/ Release \/ CloseCodec
  <2>1. CASE \/ StartCall \/ StartHalt \/ StartRearm \/ StartRecord \/ StartPlay
    BY <2>1 DEF StartCall, StartHalt, Halt, Fail, StartRearm, StartRecord, StartPlay,
      OnceInside, lifeVars, encVars
  <2>2. CASE StopCall \/ StopHalt \/ StopNotify \/ Release \/ CloseCodec
    BY <2>2 DEF StopCall, StopHalt, StopNotify, Release, CloseCodec, OnceInside, lifeVars,
      encVars
  <2> QED
    BY <1>6, <2>1, <2>2
<1>7. CASE Capture \/ Advance \/ Trim \/ Enqueue \/ Notify \/ PlayerNotify
  BY <1>7 DEF Capture, Advance, Trim, Enqueue, Notify, PlayerNotify, OnceInside, lifeVars,
    ctlVars, encVars
<1> QED
  BY <1>1, <1>2, <1>3, <1>4, <1>5, <1>6, <1>7
  DEF Next, Control, ControlStep, CallbackStep, EncoderStep

\* For an orderly application the early return of runEncoding is confined to its wait
\* for the start (1367): it never happens to an encoder that has begun to record.
THEOREM EncoderStaysOnceInside == ASSUME KeepsUp PROVE Spec => []OnceInside
<1>1. Init => OnceInside
  BY DEF Init, OnceInside
<1>2. RecInv /\ OnceInside /\ [Next]_vars => OnceInside'
  <2>1. OnceInside /\ UNCHANGED vars => OnceInside'
    BY DEF vars, lifeVars, ctlVars, encVars, OnceInside
  <2> QED
    BY <2>1, OnceInsideStep
<1> QED
  BY <1>1, <1>2, RecInvHolds, PTL DEF Spec
=============================================================================
