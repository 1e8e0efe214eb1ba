-------------------------- MODULE PlaybackEventsInv --------------------------
(***************************************************************************)
(* The inductive invariants behind OKPerOutage and LongOutageNoticed, for  *)
(* every interleaving of the callback with the encoder.                    *)
(***************************************************************************)
EXTENDS PlaybackEvents

One(b) == IF b THEN 1 ELSE 0

\* "Traffic ok" has been requested, or the encoder is about to tell it.
InHand == One(reqTrafficOK) + One(enc \in {"forget", "forgetReport", "tell"})

\* An outage for which the player may yet request it.
Open == One(since > 0 /\ player \notin {"count", "clear"})

Tokens == resumed + InHand + Open <= outages

\* The differences of unsigned counters do not wrap around.
NotAhead == since <= frameCount /\ lastReport <= frameCount

\* Nobody has been told of the present outage, nor is about to be.
Unnoticed == since # 0 /\ ~alarmed /\ ~reqNoTraffic /\ enc # "duration"

Noticed ==
  Unnoticed =>
    /\ lastReport <= since + NoTrafficGap
    /\ player = "idle" => frameCount <= since + 2 * NoTrafficGap

EventsInv == TypeOK /\ Tokens /\ NotAhead /\ Noticed

-----------------------------------------------------------------------------
\* A callback that forgets an outage has asked for "traffic ok", and the encoder has
\* not got as far as forgetting it, too.
Announced ==
  player \in {"count", "clear"} /\ since # 0 => reqTrafficOK \/ enc = "forget"

\* What asks for an alarm was raised in an outage.
Begun == since # 0 \/ reqNoTraffic \/ enc = "duration" => outages > 0

\* An outage that is over is told, or is about to be.
ToldBack ==
  told = "nothing" /\ outages > 0 /\ since = 0 =>
    reqTrafficOK \/ enc \in {"forget", "forgetReport", "tell"}

\* A "no traffic" that nothing will take back is told in the place of a "traffic ok":
\* when the handler computes the duration Java has last been told that playback
\* resumed, mNoTrafficSince is zero and "traffic ok" is not asked for again.  It is
\* not said which of the two threads zeroed it.
AlarmLeftAfterOK ==
  [][ AlarmWithdrawn /\ ~AlarmWithdrawn' =>
        /\ TellNoTraffic /\ told = "traffic ok"
        /\ since = 0 /\ ~reqTrafficOK ]_vars
=============================================================================
