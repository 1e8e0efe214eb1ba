-------------------------- MODULE LatencyMeasurerInv --------------------------
(***************************************************************************)
(* The inductive invariant of LatencyMeasurer.                             *)
(***************************************************************************)
EXTENDS LatencyMeasurer

\* Rounds stored, left and under way are those asked for.
Paid(o) ==
  o.count + o.retries + (IF o.state \in {"average", "playing"} THEN 1 ELSE 0) =< o.asked

\* Least, greatest and sum go together, and no round is a noise.
Ranged(o) ==
  /\ o.count = 0 => o.sum = 0 /\ o.max = 0
  /\ o.count > 0 =>
       /\ SPF < o.min /\ o.min =< o.max /\ o.max =< 2 * o.min
       /\ o.count * o.min =< o.sum /\ o.sum =< o.count * o.max
  /\ o.latency > 0 => o.count > 0 /\ Ms(o.min) =< o.latency /\ o.latency =< Ms(o.max)
  /\ o.count = -1 => o.state = "passthrough"

\* A round under way is not older than a second.
InTime(o) == o.state \in {"idle", "average", "playing"} => o.elapsed =< Rate

\* What holds of every object.
Sane(o) == o \in Record /\ Paid(o) /\ Ranged(o) /\ InTime(o)

\* Taken out and not yet deleted.
Removed == {holds[t] : t \in {u \in Threads : place[u] = "removed"}}

\* With one thread, a callback is alone with its object.
Alone ==
  serial =>
    /\ ~misused
    /\ \A t, u \in Threads : place[t] # "away" /\ place[u] # "away" => t = u
    /\ \A t \in Threads : place[t] = "loaded" => holds[t] = installed
    /\ \A t \in Threads : place[t] = "removed" => holds[t] # installed
    /\ freed = ((1..made) \ {installed}) \ Removed

\* The inductive invariant of objects and pointers.
MeasurerInv ==
  /\ TypeOK
  /\ \A k \in Objects : Sane(object[k])
  /\ \A t \in Threads : place[t] # "away" => holds[t] # 0
  /\ Alone

-----------------------------------------------------------------------------
(***************************************************************************)
(* How long a measurement may still take, in samples processed.            *)
(***************************************************************************)

HalfSecond == Rate \div 2

\* What a wait, the average and the tone may take from now on.
WaitLeft(o)   == (IF o.elapsed > HalfSecond THEN 0 ELSE HalfSecond - o.elapsed) + SPF
SecondLeft(o) == (Rate - o.elapsed) + SPF

LongestWait == HalfSecond + SPF
LongestTone == Rate + SPF
OneRound    == LongestWait + LongestTone + (Rate + SPF)

\* The rounds not yet begun, and what is left of the one under way.
Left(o) ==
  IF o.state = "passthrough" THEN 0
  ELSE o.retries * OneRound +
         ( IF o.state = "average" THEN SecondLeft(o) + LongestTone + LongestWait
           ELSE IF o.state = "playing" THEN SecondLeft(o) + LongestWait
           ELSE WaitLeft(o) )

\* Every frame that processInput gets brings the end of the measurement closer by
\* its samples, whatever is heard in it: what makes MeasurementEnds true.
FramesSpent ==
  [][LET k == holds["recorder"]
     IN  Use("recorder") => Left(object'[k]) + SPF =< Left(object[k])]_vars

\* A measurement of n rounds is over after two and a half seconds for each and
\* half a second more, give or take a few frames.
RestBounded ==
  \A k \in Objects :
    0 =< Left(object[k]) /\ Left(object[k]) =< object[k].asked * OneRound + LongestWait

-----------------------------------------------------------------------------
\* What a callback has taken out is over, unless the other one has deleted it.
Finished ==
  \A t \in Threads :
    place[t] = "removed" /\ holds[t] \notin freed => object[holds[t]].state = "passthrough"

\* No measurement is deleted before it is over, on however many threads the callbacks
\* come, and on one none is taken out before.  (On two, the pointer that one callback
\* sets to NULL may by then be that of the next measurement.)
NeverCutOff ==
  [][\A k \in Objects :
       /\ k \in freed' \ freed => object[k].state = "passthrough"
       /\ serial /\ installed = k /\ installed' # k => object[k].state = "passthrough"]_vars
=============================================================================
