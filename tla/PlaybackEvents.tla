--------------------------- MODULE PlaybackEvents ---------------------------
(***************************************************************************)
(* What YeeCallRecorder tells Java about the playback: "playing            *)
(* continues" every few frames, "no traffic" while nothing is received for *)
(* long, "traffic ok" when it is received again.                           *)
(*                                                                         *)
(* The OpenSL thread of playerCallback may not call Java.  It raises       *)
(* request flags, which the encoder thread takes down at the top of its    *)
(* loop and turns into calls.  The flags, the frame counter and the two    *)
(* stamps of the outage (mNoTrafficSince, mNoTrafficLastReport) are plain  *)
(* variables; both threads write the stamps.                               *)
(*                                                                         *)
(* Whether a frame can be decoded, whether an empty frame stands for a     *)
(* skipped silence, and whether the encoder has moved on enough to ask for *)
(* data again is left open: it depends on the jitter buffer and on the     *)
(* echo reference.  What the encoder does in an iteration without a        *)
(* request is one step.  Its wait is timed: it needs no notification.      *)
(***************************************************************************)
EXTENDS Integers

CONSTANTS
  StartUp,       \* frames before an outage is looked for             (100)
  EventGap,      \* SEND_PLAYBACK_EVENTS_FRAME_COUNT                   (25)
  NoTrafficGap,  \* SEND_PLAYBACK_NO_TRAFFIC_FRAME_COUNT              (300)
  MaxLag,        \* scheduling: callbacks in one iteration of the encoder
  MaxFrames      \* bound of the model: frames played

ASSUME GapAssumption ==
  /\ StartUp \in Nat /\ EventGap \in Nat \ {0} /\ NoTrafficGap \in Nat \ {0}
  /\ MaxLag \in Nat /\ MaxFrames \in Nat

VARIABLES
  frameCount,    \* mPlayerFrameCount
  fakeCount,     \* mPlayerFakeFrameCount
  since,         \* mNoTrafficSince
  lastReport,    \* mNoTrafficLastReport
  missing,       \* mNoTrafficFrameCount
  reqData,       \* mRequestPlaybackData
  reqEvent,      \* mRequestPlaybackEvent
  reqNoTraffic,  \* mRequestPlaybackNoTraffic
  reqTrafficOK,  \* mRequestPlaybackTrafficOK
  ready,         \* mPlayerPending - mPlayerWrite >= mSamplesPerFrame
  player,        \* where playerCallback is
  enc,           \* where the encoder thread is
  lag,           \* scheduling: callbacks since the encoder was at its top
  told,          \* history: the last of "no traffic" and "traffic ok" told
  outages,       \* history: outages noticed
  resumed,       \* history: times "traffic ok" was told
  alarmed        \* history: "no traffic" told since the outage was noticed

counters == <<frameCount, fakeCount>>
stamps   == <<since, lastReport>>
requests == <<reqData, reqEvent, reqNoTraffic, reqTrafficOK>>
history  == <<told, outages, resumed, alarmed>>
vars == <<counters, stamps, missing, requests, ready, player, enc, lag, history>>

-----------------------------------------------------------------------------
(***************************************************************************)
(* playerCallback.                                                         *)
(***************************************************************************)

\* decodeNextFrame: a frame decoded, or waiting, withdraws the request for data;
\* so does one that, played faster, is not enough for a frame.
Decode(was) ==
  \E now \in {was, TRUE} :
    /\ ready' = now
    /\ reqData' \in IF now THEN {FALSE} ELSE {reqData, FALSE}

PlayBegin ==
  /\ player = "idle"
  /\ frameCount < MaxFrames
  /\ lag < MaxLag
  /\ lag' = lag + 1
  /\ Decode(ready)
  /\ player' = IF ready' THEN "resume" ELSE "starve"
  /\ UNCHANGED <<counters, stamps, missing, reqEvent, reqNoTraffic, reqTrafficOK, enc, history>>

\* Playback data restored: the flag goes up first, then the count is stored.
Resume ==
  /\ player = "resume"
  /\ IF ~reqTrafficOK /\ since > 0
     THEN reqTrafficOK' = TRUE /\ player' = "count"
     ELSE player' = "clear" /\ UNCHANGED reqTrafficOK
  /\ UNCHANGED <<counters, stamps, missing, reqData, reqEvent, reqNoTraffic, ready, enc, lag, history>>

OutageLength == frameCount - since

CountMissing ==
  /\ player = "count"
  /\ missing' = OutageLength
  /\ player' = "clear"
  /\ UNCHANGED <<counters, stamps, requests, ready, enc, lag, history>>

\* Fault: the outage is not forgotten when there is data again.
StampsKept == UNCHANGED stamps

StampsCleared == since' = 0 /\ lastReport' = 0

ClearOutage ==
  /\ player = "clear"
  /\ reqData' = FALSE
  /\ StampsCleared
  /\ player' = "play"
  /\ UNCHANGED <<counters, missing, reqEvent, reqNoTraffic, reqTrafficOK, ready, enc, lag, history>>

\* After voice is fully started up, with more frames played than made up.
OutageBegins == since = 0 /\ frameCount > StartUp /\ frameCount > fakeCount'

\* Nothing to play: an empty frame is inserted.  Unless it restores a skipped
\* silence it asks for data and may be the first of an outage.
Starve ==
  /\ player = "starve"
  /\ ready' = TRUE
  /\ \/ UNCHANGED <<fakeCount, stamps, reqData, outages, alarmed>>
     \/ /\ fakeCount' = fakeCount + 1
        /\ reqData' = TRUE
        /\ IF OutageBegins
           THEN /\ since' = frameCount /\ lastReport' = frameCount
                /\ outages' = outages + 1 /\ alarmed' = FALSE
           ELSE UNCHANGED <<stamps, outages, alarmed>>
  /\ player' = "play"
  /\ UNCHANGED <<frameCount, missing, reqEvent, reqNoTraffic, reqTrafficOK, enc, lag, told, resumed>>

\* The frame goes to the device; the next one is decoded in advance.
Play ==
  /\ player = "play"
  /\ frameCount' = frameCount + 1
  /\ Decode(FALSE)
  /\ player' = "raise"
  /\ UNCHANGED <<fakeCount, stamps, missing, reqEvent, reqNoTraffic, reqTrafficOK, enc, lag, history>>

\* Fault: only every third gap is reported.
ReportDueLate == since # 0 /\ ~reqNoTraffic /\ frameCount - lastReport > 3 * NoTrafficGap

ReportDue == since # 0 /\ ~reqNoTraffic /\ frameCount - lastReport > NoTrafficGap

\* The requests that depend on the frame count; mSignal is notified if any is up.
Raise ==
  /\ player = "raise"
  /\ reqEvent' = (reqEvent \/ frameCount % EventGap = 0)
  /\ IF ReportDue
     THEN reqNoTraffic' = TRUE /\ lastReport' = frameCount
     ELSE UNCHANGED <<reqNoTraffic, lastReport>>
  /\ player' = "idle"
  /\ UNCHANGED <<counters, since, missing, reqData, reqTrafficOK, ready, enc, lag, history>>

PlayerStep == Resume \/ CountMissing \/ ClearOutage \/ Starve \/ Play \/ Raise

-----------------------------------------------------------------------------
(***************************************************************************)
(* The encoder thread: step 1 of the loop of runEncoding.                  *)
(***************************************************************************)

\* Data is asked for at most every REQUEST_PLAYBACK_FRAME_COUNT frames.
TestData ==
  /\ enc = "top"
  /\ lag' = 0
  /\ \/ enc' = "event"
     \/ reqData /\ enc' = "ask"
  /\ UNCHANGED <<counters, stamps, missing, requests, ready, player, history>>

\* Java is asked (or there is data by now); the flag comes down afterwards.
AskData ==
  /\ enc = "ask"
  /\ reqData' = FALSE
  /\ enc' = "top"
  /\ UNCHANGED <<counters, stamps, missing, reqEvent, reqNoTraffic, reqTrafficOK, ready, player, lag, history>>

\* Fault: the request for the periodic event stays.
EventLeft == UNCHANGED reqEvent

TakeEventDown == reqEvent' = FALSE

TellEvent ==
  /\ enc = "event"
  /\ TakeEventDown
  /\ enc' = IF reqEvent THEN "top" ELSE "noTraffic"
  /\ UNCHANGED <<counters, stamps, missing, reqData, reqNoTraffic, reqTrafficOK, ready, player, lag, history>>

TestNoTraffic ==
  /\ enc = "noTraffic"
  /\ reqNoTraffic' = FALSE
  /\ enc' = IF reqNoTraffic THEN "duration" ELSE "trafficOK"
  /\ UNCHANGED <<counters, stamps, missing, reqData, reqEvent, reqTrafficOK, ready, player, lag, history>>

\* The duration is computed when the flag is already down, from what
\* mNoTrafficSince is by now; Java is told how many gaps fit it.
TellNoTraffic ==
  /\ enc = "duration"
  /\ IF OutageLength > NoTrafficGap
     THEN told' = "no traffic" /\ alarmed' = TRUE /\ enc' = "top"
     ELSE enc' = "trafficOK" /\ UNCHANGED <<told, alarmed>>
  /\ UNCHANGED <<counters, stamps, missing, requests, ready, player, lag, outages, resumed>>

\* Fault: the flag is not taken down.
OKLeft == UNCHANGED reqTrafficOK

TakeOKDown == reqTrafficOK' = FALSE

TestTrafficOK ==
  /\ enc = "trafficOK"
  /\ TakeOKDown
  /\ enc' = IF reqTrafficOK THEN "forget" ELSE "encode"
  /\ UNCHANGED <<counters, stamps, missing, reqData, reqEvent, reqNoTraffic, ready, player, lag, history>>

Forget ==
  /\ enc = "forget"
  /\ since' = 0
  /\ enc' = "forgetReport"
  /\ UNCHANGED <<counters, lastReport, missing, requests, ready, player, lag, history>>

ForgetReport ==
  /\ enc = "forgetReport"
  /\ lastReport' = 0
  /\ enc' = "tell"
  /\ UNCHANGED <<counters, since, missing, requests, ready, player, lag, history>>

TellTrafficOK ==
  /\ enc = "tell"
  /\ told' = "traffic ok"
  /\ resumed' = resumed + 1
  /\ enc' = "zero"
  /\ UNCHANGED <<counters, stamps, missing, requests, ready, player, lag, outages, alarmed>>

\* Back from Java; a count the player has stored meanwhile is zeroed, too.
ZeroMissing ==
  /\ enc = "zero"
  /\ missing' = 0
  /\ enc' = "top"
  /\ UNCHANGED <<counters, stamps, requests, ready, player, lag, history>>

\* The rest of an iteration: a frame is encoded, or the thread waits.
Encode ==
  /\ enc = "encode"
  /\ enc' = "top"
  /\ UNCHANGED <<counters, stamps, missing, requests, ready, player, lag, history>>

EncoderStep ==
  \/ TestData \/ AskData \/ TellEvent \/ TestNoTraffic \/ TellNoTraffic
  \/ TestTrafficOK \/ Forget \/ ForgetReport \/ TellTrafficOK \/ ZeroMissing \/ Encode

-----------------------------------------------------------------------------
Init ==
  /\ frameCount = 0 /\ fakeCount = 0
  /\ since = 0 /\ lastReport = 0 /\ missing = 0
  /\ reqData = FALSE /\ reqEvent = FALSE /\ reqNoTraffic = FALSE /\ reqTrafficOK = FALSE
  /\ ready = FALSE
  /\ player = "idle" /\ enc = "top" /\ lag = 0
  /\ told = "nothing" /\ outages = 0 /\ resumed = 0 /\ alarmed = FALSE

Next == PlayBegin \/ PlayerStep \/ EncoderStep

(***************************************************************************)
(* A callback that has begun ends, and the encoder goes round its loop     *)
(* while recording lasts.  The device need not go on playing.              *)
(***************************************************************************)
Fairness == WF_vars(PlayerStep) /\ WF_vars(EncoderStep)

Spec     == Init /\ [][Next]_vars
FairSpec == Spec /\ Fairness

-----------------------------------------------------------------------------
(***************************************************************************)
(* Properties.                                                             *)
(***************************************************************************)

TypeOK ==
  /\ frameCount \in Nat /\ fakeCount \in Nat
  /\ since \in Nat /\ lastReport \in Nat /\ missing \in Nat
  /\ reqData \in BOOLEAN /\ reqEvent \in BOOLEAN
  /\ reqNoTraffic \in BOOLEAN /\ reqTrafficOK \in BOOLEAN
  /\ ready \in BOOLEAN
  /\ player \in {"idle", "resume", "count", "clear", "starve", "play", "raise"}
  /\ enc \in {"top", "ask", "event", "noTraffic", "duration", "trafficOK", "forget",
              "forgetReport", "tell", "zero", "encode"}
  /\ lag \in Nat
  /\ told \in {"nothing", "no traffic", "traffic ok"}
  /\ outages \in Nat /\ resumed \in Nat /\ alarmed \in BOOLEAN

\* Java is told that traffic is back at most once for every outage: the flag,
\* the stamps and the handler's reset of the stamps never count one twice.
OKPerOutage == resumed <= outages

\* An outage that lasts is noticed: when a callback has ended, at most two gaps
\* after the outage began Java has been told, or the request is on its way,
\* also if the handler of an earlier outage reset the stamps meanwhile.
LongOutageNoticed ==
  player = "idle" /\ since # 0 /\ frameCount > since + 2 * NoTrafficGap
    => alarmed \/ reqNoTraffic \/ enc = "duration"

\* A request of the player is taken down by the encoder, and "traffic ok" is
\* told once it has been requested.
RequestsTaken ==
  /\ reqEvent ~> ~reqEvent
  /\ reqNoTraffic ~> enc = "duration"
  /\ reqTrafficOK ~> enc = "tell"

\* "generate an no traffic event every 300 frames == 6s for continuous lack of
\* playback data": when nothing is pending and nothing is missing, "no traffic"
\* is not the last that Java was told.
AlarmWithdrawn ==
  told = "no traffic" =>
    \/ since # 0 \/ reqTrafficOK
    \/ enc \in {"forget", "forgetReport", "tell"}
=============================================================================
