------------------------ MODULE PlaybackEventsProofs ------------------------
(***************************************************************************)
(* EventsInv is inductive, whatever the gaps and however late the encoder  *)
(* is: an outage is never told to be over twice, and a lasting one is      *)
(* noticed within two gaps.                                                *)
(***************************************************************************)
EXTENDS PlaybackEventsInv, TLAPS

\* TypeOK in parts.
CountType ==
  /\ frameCount \in Nat /\ fakeCount \in Nat
  /\ since \in Nat /\ lastReport \in Nat /\ missing \in Nat
  /\ lag \in Nat /\ outages \in Nat /\ resumed \in Nat

FlagType ==
  /\ reqData \in BOOLEAN /\ reqEvent \in BOOLEAN
  /\ reqNoTraffic \in BOOLEAN /\ reqTrafficOK \in BOOLEAN
  /\ ready \in BOOLEAN /\ alarmed \in BOOLEAN

PlaceType ==
  /\ player \in {"idle", "resume", "count", "clear", "starve", "play", "raise"}
  /\ enc \in {"top", "ask", "event", "noTraffic", "duration", "trafficOK", "forget",
              "forgetReport", "tell", "zero", "encode"}
  /\ told \in {"nothing", "no traffic", "traffic ok"}

-----------------------------------------------------------------------------
(***************************************************************************)
(* Every step keeps every part.                                            *)
(***************************************************************************)

\* The counters and the stamps.
LEMMA CountTypeStep ==
  ASSUME CountType, NotAhead, Next
  PROVE  CountType'
<1>1. CASE PlayBegin
  BY <1>1, GapAssumption DEF PlayBegin, Decode, CountType, NotAhead, counters, stamps,
    requests, history
<1>2. CASE Resume
  BY <1>2, GapAssumption DEF Resume, CountType, NotAhead, counters, stamps, requests,
    history
<1>3. CASE CountMissing
  BY <1>3, GapAssumption DEF CountMissing, OutageLength, CountType, NotAhead,
    counters, stamps, requests, history
<1>4. CASE ClearOutage
  BY <1>4, GapAssumption DEF ClearOutage, StampsCleared, CountType, NotAhead,
    counters, stamps, requests, history
<1>5. CASE Starve
  BY <1>5, GapAssumption DEF Starve, OutageBegins, CountType, NotAhead, counters,
    stamps, requests, history
<1>6. CASE Play
  BY <1>6, GapAssumption DEF Play, Decode, CountType, NotAhead, counters, stamps,
    requests, history
<1>7. CASE Raise
  BY <1>7, GapAssumption DEF Raise, ReportDue, CountType, NotAhead, counters, stamps,
    requests, history
<1>8. CASE TestData
  BY <1>8, GapAssumption DEF TestData, CountType, NotAhead, counters, stamps,
    requests, history
<1>9. CASE TellNoTraffic
  BY <1>9, GapAssumption DEF TellNoTraffic, OutageLength, CountType, NotAhead,
    counters, stamps, requests, history
<1>10. CASE TellTrafficOK
  <2>1. resumed' = resumed + 1
    BY <1>10 DEF TellTrafficOK
  <2>2. UNCHANGED <<frameCount, fakeCount, since, lastReport, missing, lag, outages>>
    BY <1>10 DEF TellTrafficOK, counters, stamps
  <2> QED
    BY <2>1, <2>2 DEF CountType
<1>11. CASE ZeroMissing
  BY <1>11, GapAssumption DEF ZeroMissing, CountType, NotAhead, counters, stamps,
    requests, history
<1>12. CASE TestTrafficOK
  BY <1>12, GapAssumption DEF TestTrafficOK, TakeOKDown, CountType, NotAhead,
    counters, stamps, requests, history
<1>13. CASE AskData \/ TellEvent \/ TestNoTraffic \/ Forget \/ ForgetReport
          \/ Encode
  BY <1>13, GapAssumption DEF AskData, TellEvent, TakeEventDown, TestNoTraffic,
    Forget, ForgetReport, Encode, CountType, NotAhead, counters, stamps, requests,
    history
<1> QED
  BY <1>1, <1>2, <1>3, <1>4, <1>5, <1>6, <1>7, <1>8, <1>9, <1>10, <1>11, <1>12, <1>13 DEF Next, PlayerStep, EncoderStep

\* The request flags.
LEMMA FlagTypeStep ==
  ASSUME FlagType, Next
  PROVE  FlagType'
<1>1. CASE PlayBegin
  BY <1>1, GapAssumption DEF PlayBegin, Decode, FlagType, counters, stamps, requests,
    history
<1>2. CASE Starve
  BY <1>2, GapAssumption DEF Starve, OutageBegins, FlagType, counters, stamps,
    requests, history
<1>3. CASE Play
  BY <1>3, GapAssumption DEF Play, Decode, FlagType, counters, stamps, requests,
    history
<1>4. CASE Raise
  BY <1>4, GapAssumption DEF Raise, ReportDue, FlagType, counters, stamps, requests,
    history
<1>5. CASE Resume \/ CountMissing \/ ClearOutage \/ TestData \/ AskData \/ TellEvent
          \/ TestNoTraffic \/ TellNoTraffic \/ TestTrafficOK \/ Forget
          \/ ForgetReport \/ TellTrafficOK \/ ZeroMissing \/ Encode
  BY <1>5, GapAssumption DEF Resume, CountMissing, OutageLength, ClearOutage,
    StampsCleared, TestData, AskData, TellEvent, TakeEventDown, TestNoTraffic,
    TellNoTraffic, TestTrafficOK, TakeOKDown, Forget, ForgetReport, TellTrafficOK,
    ZeroMissing, Encode, FlagType, counters, stamps, requests, history
<1> QED
  BY <1>1, <1>2, <1>3, <1>4, <1>5 DEF Next, PlayerStep, EncoderStep

\* Where the two threads are, and what Java knows.
LEMMA PlaceTypeStep ==
  ASSUME PlaceType, Next
  PROVE  PlaceType'
<1>1. CASE PlayBegin \/ Resume \/ CountMissing \/ ClearOutage \/ Starve \/ Play
          \/ Raise
  BY <1>1, GapAssumption DEF PlayBegin, Decode, Resume, CountMissing, OutageLength,
    ClearOutage, StampsCleared, Starve, OutageBegins, Play, Raise, ReportDue,
    PlaceType, counters, stamps, requests, history
<1>2. CASE TestData \/ AskData \/ TellEvent \/ TestNoTraffic \/ TellNoTraffic
          \/ TestTrafficOK \/ Forget \/ ForgetReport \/ TellTrafficOK \/ ZeroMissing
          \/ Encode
  BY <1>2, GapAssumption DEF TestData, AskData, TellEvent, TakeEventDown,
    TestNoTraffic, TellNoTraffic, OutageLength, TestTrafficOK, TakeOKDown, Forget,
    ForgetReport, TellTrafficOK, ZeroMissing, Encode, PlaceType, counters, stamps,
    requests, history
<1> QED
  BY <1>1, <1>2 DEF Next, PlayerStep, EncoderStep

\* No outage is counted twice.
LEMMA TokensStep ==
  ASSUME CountType, Tokens, Next
  PROVE  Tokens'
<1>1. CASE PlayBegin
  BY <1>1, GapAssumption DEF PlayBegin, Decode, Tokens, CountType, InHand, Open, One,
    counters, stamps, requests, history
<1>2. CASE Resume
  BY <1>2, GapAssumption DEF Resume, Tokens, CountType, InHand, Open, One, counters,
    stamps, requests, history
<1>3. CASE CountMissing
  BY <1>3, GapAssumption DEF CountMissing, OutageLength, Tokens, CountType, InHand,
    Open, One, counters, stamps, requests, history
<1>4. CASE ClearOutage
  BY <1>4, GapAssumption DEF ClearOutage, StampsCleared, Tokens, CountType, InHand,
    Open, One, counters, stamps, requests, history
<1>5. CASE Starve
  BY <1>5, GapAssumption DEF Starve, OutageBegins, Tokens, CountType, InHand, Open,
    One, counters, stamps, requests, history
<1>6. CASE Play
  BY <1>6, GapAssumption DEF Play, Decode, Tokens, CountType, InHand, Open, One,
    counters, stamps, requests, history
<1>7. CASE Raise
  BY <1>7, GapAssumption DEF Raise, ReportDue, Tokens, CountType, InHand, Open, One,
    counters, stamps, requests, history
<1>8. CASE TestData
  BY <1>8, GapAssumption DEF TestData, Tokens, CountType, InHand, Open, One, counters,
    stamps, requests, history
<1>9. CASE AskData
  BY <1>9, GapAssumption DEF AskData, Tokens, CountType, InHand, Open, One, counters,
    stamps, requests, history
<1>10. CASE TellEvent
  BY <1>10, GapAssumption DEF TellEvent, TakeEventDown, Tokens, CountType, InHand,
    Open, One, counters, stamps, requests, history
<1>11. CASE TestNoTraffic
  BY <1>11, GapAssumption DEF TestNoTraffic, Tokens, CountType, InHand, Open, One,
    counters, stamps, requests, history
<1>12. CASE TellNoTraffic
  BY <1>12, GapAssumption DEF TellNoTraffic, OutageLength, Tokens, CountType, InHand,
    Open, One, counters, stamps, requests, history
<1>13. CASE TestTrafficOK
  BY <1>13, GapAssumption DEF TestTrafficOK, TakeOKDown, Tokens, CountType, InHand,
    Open, One, counters, stamps, requests, history
<1>14. CASE Forget
  BY <1>14, GapAssumption DEF Forget, Tokens, CountType, InHand, Open, One, counters,
    stamps, requests, history
<1>15. CASE ForgetReport
  BY <1>15, GapAssumption DEF ForgetReport, Tokens, CountType, InHand, Open, One,
    counters, stamps, requests, history
<1>16. CASE TellTrafficOK
  <2>1. resumed' = resumed + 1 /\ outages' = outages
    BY <1>16 DEF TellTrafficOK
  <2>2. One(reqTrafficOK)' = One(reqTrafficOK)
    <3>1. reqTrafficOK' = reqTrafficOK
      BY <1>16 DEF TellTrafficOK, requests
    <3> QED
      BY <3>1, Zenon DEF One
  <2>3. Open' = Open
    BY <1>16 DEF TellTrafficOK, Open, stamps
  <2>4. InHand = One(reqTrafficOK) + 1 /\ InHand' = One(reqTrafficOK)' + 0
    BY <1>16 DEF TellTrafficOK, InHand, One
  <2>5. One(reqTrafficOK) \in Int /\ Open \in Int
    BY DEF One, Open
  <2> QED
    BY <2>1, <2>2, <2>3, <2>4, <2>5 DEF Tokens, CountType
<1>17. CASE ZeroMissing
  BY <1>17, GapAssumption DEF ZeroMissing, Tokens, CountType, InHand, Open, One,
    counters, stamps, requests, history
<1>18. CASE Encode
  BY <1>18, GapAssumption DEF Encode, Tokens, CountType, InHand, Open, One, counters,
    stamps, requests, history
<1> QED
  BY <1>1, <1>2, <1>3, <1>4, <1>5, <1>6, <1>7, <1>8, <1>9, <1>10, <1>11, <1>12, <1>13,
    <1>14, <1>15, <1>16, <1>17, <1>18 DEF Next, PlayerStep, EncoderStep

\* The stamps are in the past.
LEMMA NotAheadStep ==
  ASSUME CountType, NotAhead, Next
  PROVE  NotAhead'
<1>1. CASE ClearOutage
  BY <1>1, GapAssumption DEF ClearOutage, StampsCleared, NotAhead, CountType,
    counters, stamps, requests, history
<1>2. CASE Starve
  BY <1>2, GapAssumption DEF Starve, OutageBegins, NotAhead, CountType, counters,
    stamps, requests, history
<1>3. CASE Play
  BY <1>3, GapAssumption DEF Play, Decode, NotAhead, CountType, counters, stamps,
    requests, history
<1>4. CASE Raise
  BY <1>4, GapAssumption DEF Raise, ReportDue, NotAhead, CountType, counters, stamps,
    requests, history
<1>5. CASE Forget
  BY <1>5, GapAssumption DEF Forget, NotAhead, CountType, counters, stamps, requests,
    history
<1>6. CASE ForgetReport
  BY <1>6, GapAssumption DEF ForgetReport, NotAhead, CountType, counters, stamps,
    requests, history
<1>7. CASE PlayBegin \/ Resume \/ CountMissing \/ TestData \/ AskData \/ TellEvent
          \/ TestNoTraffic \/ TellNoTraffic \/ TestTrafficOK \/ TellTrafficOK
          \/ ZeroMissing \/ Encode
  BY <1>7, GapAssumption DEF PlayBegin, Decode, Resume, CountMissing, OutageLength,
    TestData, AskData, TellEvent, TakeEventDown, TestNoTraffic, TellNoTraffic,
    TestTrafficOK, TakeOKDown, TellTrafficOK, ZeroMissing, Encode, NotAhead,
    CountType, counters, stamps, requests, history
<1> QED
  BY <1>1, <1>2, <1>3, <1>4, <1>5, <1>6, <1>7 DEF Next, PlayerStep, EncoderStep

\* An outage does not go unnoticed for long.
LEMMA NoticedStep ==
  ASSUME CountType, NotAhead, Noticed, Next
  PROVE  Noticed'
<1>1. CASE PlayBegin
  BY <1>1, GapAssumption DEF PlayBegin, Decode, Noticed, Unnoticed, NotAhead,
    CountType, counters, stamps, requests, history
<1>2. CASE Resume
  BY <1>2, GapAssumption DEF Resume, Noticed, Unnoticed, NotAhead, CountType,
    counters, stamps, requests, history
<1>3. CASE CountMissing
  BY <1>3, GapAssumption DEF CountMissing, OutageLength, Noticed, Unnoticed, NotAhead,
    CountType, counters, stamps, requests, history
<1>4. CASE ClearOutage
  BY <1>4, GapAssumption DEF ClearOutage, StampsCleared, Noticed, Unnoticed, NotAhead,
    CountType, counters, stamps, requests, history
<1>5. CASE Starve
  BY <1>5, GapAssumption DEF Starve, OutageBegins, Noticed, Unnoticed, NotAhead,
    CountType, counters, stamps, requests, history
<1>6. CASE Play
  BY <1>6, GapAssumption DEF Play, Decode, Noticed, Unnoticed, NotAhead, CountType,
    counters, stamps, requests, history
<1>7. CASE Raise
  BY <1>7, GapAssumption DEF Raise, ReportDue, Noticed, Unnoticed, NotAhead,
    CountType, counters, stamps, requests, history
<1>8. CASE TellNoTraffic
  <2>1. since' = since /\ lastReport' = lastReport /\ frameCount' = frameCount
    BY <1>8 DEF TellNoTraffic, stamps, counters
  <2>2. CASE frameCount - since > NoTrafficGap
    BY <1>8, <2>2 DEF TellNoTraffic, OutageLength, Noticed, Unnoticed
  <2>3. CASE ~(frameCount - since > NoTrafficGap)
    BY <2>1, <2>3, GapAssumption DEF Noticed, Unnoticed, NotAhead, CountType
  <2> QED
    BY <2>2, <2>3
<1>9. CASE TestNoTraffic
  BY <1>9, GapAssumption DEF TestNoTraffic, Noticed, Unnoticed, NotAhead, CountType,
    counters, stamps, requests, history
<1>10. CASE Forget
  BY <1>10, GapAssumption DEF Forget, Noticed, Unnoticed, NotAhead, CountType,
    counters, stamps, requests, history
<1>11. CASE ForgetReport
  BY <1>11, GapAssumption DEF ForgetReport, Noticed, Unnoticed, NotAhead, CountType,
    counters, stamps, requests, history
<1>12. CASE TestData \/ AskData \/ TellEvent \/ TestTrafficOK \/ TellTrafficOK
          \/ ZeroMissing \/ Encode
  BY <1>12, GapAssumption DEF TestData, AskData, TellEvent, TakeEventDown,
    TestTrafficOK, TakeOKDown, TellTrafficOK, ZeroMissing, Encode, Noticed, Unnoticed,
    NotAhead, CountType, counters, stamps, requests, history
<1> QED
  BY <1>1, <1>2, <1>3, <1>4, <1>5, <1>6, <1>7, <1>8, <1>9, <1>10, <1>11, <1>12 DEF Next, PlayerStep, EncoderStep

-----------------------------------------------------------------------------
(***************************************************************************)
(* The invariants.                                                         *)
(***************************************************************************)

LEMMA InitInv == Init => EventsInv
<1> SUFFICES ASSUME Init
             PROVE  EventsInv
  OBVIOUS
<1>1. TypeOK
  BY DEF Init, TypeOK
<1>2. Tokens /\ NotAhead /\ Noticed
  BY DEF Init, Tokens, InHand, Open, One, NotAhead, Noticed, Unnoticed
<1> QED
  BY <1>1, <1>2 DEF EventsInv

LEMMA StutterInv == EventsInv /\ UNCHANGED vars => EventsInv'
<1> SUFFICES ASSUME EventsInv, UNCHANGED vars
             PROVE  EventsInv'
  OBVIOUS
<1> USE DEF vars, counters, stamps, requests, history, EventsInv
<1>1. TypeOK'
  <2>1. CountType' /\ PlaceType'
    BY DEF TypeOK, CountType, PlaceType
  <2>2. FlagType'
    BY DEF TypeOK, FlagType
  <2> QED
    BY <2>1, <2>2 DEF TypeOK, CountType, FlagType, PlaceType
<1>2. Tokens' /\ NotAhead'
  BY DEF Tokens, InHand, Open, One, NotAhead
<1>3. Noticed'
  BY DEF Noticed, Unnoticed
<1> QED
  BY <1>1, <1>2, <1>3

LEMMA NextInv == EventsInv /\ [Next]_vars => EventsInv'
<1> SUFFICES ASSUME EventsInv, Next
             PROVE  EventsInv'
  BY StutterInv
<1> USE DEF EventsInv
<1>1. CountType /\ FlagType /\ PlaceType
  BY DEF TypeOK, CountType, FlagType, PlaceType
<1>2. CountType' /\ FlagType' /\ PlaceType'
  BY <1>1, CountTypeStep, FlagTypeStep, PlaceTypeStep
<1>3. TypeOK'
  BY <1>2 DEF TypeOK, CountType, FlagType, PlaceType
<1> QED
  BY <1>1, <1>3, TokensStep, NotAheadStep, NoticedStep

\* The inductive invariant holds for every gap and every scheduling.
THEOREM EventsInvHolds == Spec => []EventsInv
BY InitInv, NextInv, PTL DEF Spec

\* Type correctness; the counts and durations, which are unsigned in the code,
\* never come out negative.
THEOREM TypeCorrect == Spec => []TypeOK
<1>1. EventsInv => TypeOK
  BY DEF EventsInv
<1> QED
  BY <1>1, EventsInvHolds, PTL

\* "Traffic ok" is told at most once for every outage.
THEOREM ResumedOncePerOutage == Spec => []OKPerOutage
<1>1. EventsInv => CountType /\ Tokens
  BY DEF EventsInv, TypeOK, CountType
<1>2. CountType /\ Tokens => OKPerOutage
  BY DEF CountType, Tokens, InHand, Open, One, OKPerOutage
<1> QED
  BY <1>1, <1>2, EventsInvHolds, PTL

\* An outage of more than two gaps has been told, or is about to be.
THEOREM LongOutagesNoticed == Spec => []LongOutageNoticed
<1>1. EventsInv => CountType /\ Noticed
  BY DEF EventsInv, TypeOK, CountType
<1>2. CountType /\ Noticed => LongOutageNoticed
  BY GapAssumption DEF CountType, Noticed, Unnoticed, LongOutageNoticed
<1> QED
  BY <1>1, <1>2, EventsInvHolds, PTL

LEMMA AnnouncedStep ==
  ASSUME CountType, Announced, Next
  PROVE  Announced'
<1>1. CASE PlayBegin
  BY <1>1 DEF PlayBegin, Announced
<1>2. CASE Resume
  BY <1>2 DEF Resume, Announced, CountType, stamps
<1>3. CASE CountMissing
  BY <1>3 DEF CountMissing, Announced, stamps, requests
<1>4. CASE ClearOutage \/ Starve \/ Play \/ Raise
  BY <1>4 DEF ClearOutage, Starve, Play, Raise, Announced
<1>5. CASE \/ TestData \/ AskData \/ TellEvent \/ TestNoTraffic \/ TellNoTraffic
           \/ ForgetReport \/ TellTrafficOK \/ ZeroMissing \/ Encode
  BY <1>5 DEF TestData, AskData, TellEvent, TestNoTraffic, TellNoTraffic, ForgetReport,
    TellTrafficOK, ZeroMissing, Encode, Announced, stamps, requests
<1>6. CASE TestTrafficOK
  BY <1>6 DEF TestTrafficOK, TakeOKDown, Announced, stamps
<1>7. CASE Forget
  BY <1>7 DEF Forget, Announced
<1> QED
  BY <1>1, <1>2, <1>3, <1>4, <1>5, <1>6, <1>7 DEF Next, PlayerStep, EncoderStep

\* Every other step of the player keeps an alarm that can be taken back so.
LEMMA PlayerKeepsAlarm ==
  ASSUME Announced, AlarmWithdrawn, PlayBegin \/ PlayerStep
  PROVE  AlarmWithdrawn'
<1>1. CASE PlayBegin \/ CountMissing \/ Play \/ Raise
  BY <1>1 DEF PlayBegin, CountMissing, Play, Raise, AlarmWithdrawn, stamps, requests, history
<1>2. CASE Resume
  BY <1>2 DEF Resume, AlarmWithdrawn, stamps, history
<1>3. CASE ClearOutage
  BY <1>3 DEF ClearOutage, AlarmWithdrawn, Announced, history
<1>4. CASE Starve
  <2>1. told' = told /\ reqTrafficOK' = reqTrafficOK /\ enc' = enc
    BY <1>4 DEF Starve
  <2>2. since' = since \/ since = 0
    BY <1>4 DEF Starve, OutageBegins, stamps
  <2> QED
    BY <2>1, <2>2 DEF AlarmWithdrawn
<1> QED
  BY <1>1, <1>2, <1>3, <1>4 DEF PlayerStep

LEMMA EncoderKeepsAlarm ==
  ASSUME AlarmWithdrawn, EncoderStep,
         ~(TellNoTraffic /\ since = 0 /\ ~reqTrafficOK)
  PROVE  AlarmWithdrawn'
<1>1. CASE TestData \/ AskData \/ TellEvent \/ TestNoTraffic \/ ZeroMissing \/ Encode
  BY <1>1 DEF TestData, AskData, TellEvent, TestNoTraffic, ZeroMissing, Encode,
    AlarmWithdrawn, stamps, requests, history
<1>2. CASE TellNoTraffic
  BY <1>2 DEF TellNoTraffic, AlarmWithdrawn, stamps, requests
<1>3. CASE TestTrafficOK \/ Forget \/ ForgetReport
  BY <1>3 DEF TestTrafficOK, TakeOKDown, Forget, ForgetReport, AlarmWithdrawn, stamps,
    requests, history
<1>4. CASE TellTrafficOK
  BY <1>4 DEF TellTrafficOK, AlarmWithdrawn
<1> QED
  BY <1>1, <1>2, <1>3, <1>4 DEF EncoderStep

LEMMA BegunStep ==
  ASSUME CountType, PlaceType, Tokens, Begun, Next
  PROVE  Begun'
<1>1. CASE Raise
  <2>1. since # 0 => outages > 0
    BY DEF Begun
  <2> QED
    BY <1>1, <2>1 DEF Raise, ReportDue, Begun, history
<1>2. CASE Starve
  BY <1>2 DEF Starve, Begun, CountType, stamps
<1>3. CASE PlayBegin \/ Resume \/ CountMissing \/ ClearOutage \/ Play
  BY <1>3 DEF PlayBegin, Resume, CountMissing, ClearOutage, StampsCleared, Play, Begun,
    stamps, requests, history
<1>4. CASE EncoderStep
  BY <1>4 DEF EncoderStep, TestData, AskData, TellEvent, TestNoTraffic, TellNoTraffic,
    TestTrafficOK, Forget, ForgetReport, TellTrafficOK, ZeroMissing, Encode, Begun, stamps,
    requests, history
<1> QED
  BY <1>1, <1>2, <1>3, <1>4 DEF Next, PlayerStep

LEMMA ToldBackStep ==
  ASSUME CountType, Announced, Begun, ToldBack, Next
  PROVE  ToldBack'
<1>1. CASE Starve
  BY <1>1 DEF Starve, ToldBack, CountType, stamps, OutageBegins
<1>2. CASE ClearOutage
  BY <1>2 DEF ClearOutage, ToldBack, Announced, Begun, history
<1>3. CASE PlayBegin \/ Resume \/ CountMissing \/ Play \/ Raise
  BY <1>3 DEF PlayBegin, Resume, CountMissing, Play, Raise, ToldBack, stamps, requests,
    history
<1>4. CASE TestTrafficOK \/ Forget \/ ForgetReport \/ TellTrafficOK
  BY <1>4 DEF TestTrafficOK, TakeOKDown, Forget, ForgetReport, TellTrafficOK, ToldBack,
    stamps, requests, history
<1>5. CASE TestData \/ AskData \/ TellEvent \/ TestNoTraffic \/ TellNoTraffic \/ ZeroMissing
           \/ Encode
  BY <1>5 DEF TestData, AskData, TellEvent, TestNoTraffic, TellNoTraffic, ZeroMissing,
    Encode, ToldBack, stamps, requests, history
<1> QED
  BY <1>1, <1>2, <1>3, <1>4, <1>5 DEF Next, PlayerStep, EncoderStep

\* The step at which the alarm is left.
LEMMA LeftAfterOK ==
  ASSUME PlaceType, Begun, ToldBack, AlarmWithdrawn, TellNoTraffic, since = 0, ~reqTrafficOK
  PROVE  told = "traffic ok"
<1>1. enc = "duration"
  BY DEF TellNoTraffic
<1>2. told # "nothing"
  BY <1>1 DEF Begun, ToldBack
<1>3. told # "no traffic"
  BY <1>1 DEF AlarmWithdrawn
<1> QED
  BY <1>2, <1>3 DEF PlaceType

\* The finding about "no traffic" characterized, for every gap and scheduling: it is
\* left as the last told only by a handler (1418-1427) that serves the request after
\* Java has been told "traffic ok" (1435), and not before.
THEOREM AlarmsAreLeftAfterOK == Spec => AlarmLeftAfterOK
<1> DEFINE Aux == Announced /\ Begun /\ ToldBack
<1>1. Init => Aux
  BY DEF Init, Announced, Begun, ToldBack
<1>2. EventsInv => CountType /\ PlaceType /\ Tokens
  BY DEF EventsInv, TypeOK, CountType, PlaceType
<1>3. EventsInv /\ Aux /\ [Next]_vars => Aux'
  <2>1. Aux /\ UNCHANGED vars => Aux'
    BY DEF vars, stamps, requests, history, Announced, Begun, ToldBack
  <2> QED
    BY <1>2, <2>1, AnnouncedStep, BegunStep, ToldBackStep
<1>4. EventsInv /\ Aux /\ [Next]_vars =>
        [ AlarmWithdrawn /\ ~AlarmWithdrawn' =>
            /\ TellNoTraffic /\ told = "traffic ok"
            /\ since = 0 /\ ~reqTrafficOK ]_vars
  BY <1>2, PlayerKeepsAlarm, EncoderKeepsAlarm, LeftAfterOK DEF Next
<1> HIDE DEF Aux
<1> QED
  BY <1>1, <1>3, <1>4, EventsInvHolds, PTL DEF Spec, AlarmLeftAfterOK
=============================================================================
