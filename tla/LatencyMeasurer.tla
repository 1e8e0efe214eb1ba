--------------------------- MODULE LatencyMeasurer ---------------------------
(***************************************************************************)
(* latencyMeasurer, which measures how long a sound takes from the player  *)
(* back to the recorder, and who disposes of it.                           *)
(*                                                                         *)
(* A round waits, takes the average loudness, then plays a tone and counts *)
(* samples until it is heard.  The recorder's callback drives the rounds,  *)
(* the player's makes the tone.  Whichever callback finds the measurement  *)
(* over first takes the object out of mLatencyMeasurer and deletes it:     *)
(* there is no lock, and each works on a pointer it has loaded before.     *)
(*                                                                         *)
(* Time is counted in samples, as mSamplesElapsed is.  The rounds are kept *)
(* in samples, too, and only what the code computes from them; their mean, *)
(* and each round as the latency so far, is reported in whole milliseconds *)
(* (Ms).  The rounds are floats of milliseconds in the code, which at 8000 *)
(* and 16000 Hz hold sixteenths exactly, and so do their sums.             *)
(*                                                                         *)
(* Whether the tone is heard in a frame, and where, is left open.  The     *)
(* recorder may be stopped and started again at any time, or fall silent   *)
(* since a buffer could not be queued; the measurement stays installed.    *)
(* The tone itself and the fades are not modelled, nor the destruction of  *)
(* the recorder, which comes after the callbacks have ended (Recorder).    *)
(***************************************************************************)
EXTENDS Integers

CONSTANTS
  SPF,             \* numberOfSamples, of a frame
  Rate,            \* samplerate: samples in a second
  Rounds,          \* values Java may ask for
  MaxObjects       \* bound of the model: measurements asked for

ASSUME RoundAssumption ==
  /\ SPF \in Nat \ {0} /\ Rate \in Nat /\ SPF =< Rate
  /\ Rounds \subseteq 0..32                 \* mRoundTripLatencyMs[32]
  /\ MaxObjects \in Nat

VARIABLES
  serial,        \* whether the device makes all its callbacks on one thread
  recording,     \* whether the recorder runs and has a buffer to call back about
  installed,     \* mLatencyMeasurer, 0 for NULL
  object,        \* the objects made so far
  made,          \* how many
  freed,         \* those deleted
  place,         \* where each callback is
  holds,         \* the pointer each callback has loaded
  misused        \* an object was used or deleted after it had been deleted

vars == <<serial, recording, installed, object, made, freed, place, holds, misused>>

Objects == 1..MaxObjects
Threads == {"player", "recorder"}
States  == {"idle", "waiting", "average", "playing", "passthrough"}

-----------------------------------------------------------------------------
(***************************************************************************)
(* processInput, on one object.                                            *)
(***************************************************************************)

\* The constructor and startMeasuring(n).  `asked` is a history.
Started(n) ==
  [state |-> "idle", elapsed |-> 0, retries |-> n, asked |-> n, count |-> 0,
   sum |-> 0, min |-> 0, max |-> 0, latency |-> 0]

\* Fault: a round costs nothing.
RoundFree(o) == [o EXCEPT !.elapsed = 0, !.state = "average"]

\* The next round, taken from those that are left.
RoundTaken(o) == [o EXCEPT !.elapsed = 0, !.retries = @ - 1, !.state = "average"]

\* Fault: the rounds go on until one of them succeeds.
RepeatsUntilHeard(o) ==
  IF o.elapsed + SPF =< Rate \div 2
    THEN [o EXCEPT !.state = "waiting", !.elapsed = @ + SPF]
    ELSE IF o.retries > 0
      THEN RoundTaken(o)
      ELSE [o EXCEPT !.elapsed = 0, !.state = "waiting"]

\* Half a second in silence, if mSamplesElapsed starts at zero.
Waited(o) ==
  IF o.elapsed + SPF =< Rate \div 2
    THEN [o EXCEPT !.state = "waiting", !.elapsed = @ + SPF]
    ELSE IF o.retries > 0
      THEN RoundTaken(o)
      ELSE [o EXCEPT !.elapsed = 0, !.state = "passthrough"]

\* The loudness of a second.
Averaged(o) ==
  IF o.elapsed + SPF < Rate
    THEN [o EXCEPT !.elapsed = @ + SPF]
    ELSE [o EXCEPT !.elapsed = 0, !.state = "playing"]

\* Nothing heard in this frame; after a second, nothing at all.
Unheard(o) ==
  IF o.elapsed + SPF =< Rate
    THEN [o EXCEPT !.elapsed = @ + SPF]
    ELSE [o EXCEPT !.elapsed = @ + SPF, !.state = "waiting", !.latency = -1]

\* Fault: only the first and the last round are compared.
RangeReplaced(o, e) ==
  [o EXCEPT !.count = @ + 1, !.sum = @ + e, !.min = e,
            !.max = IF o.count = 0 THEN e ELSE @]

\* A result is stored, and with it the sum, the least and the greatest.
Stored(o, e) ==
  [o EXCEPT !.count = @ + 1, !.sum = @ + e,
            !.min = IF o.count = 0 \/ e < @ THEN e ELSE @,
            !.max = IF e > @ THEN e ELSE @]

\* Samples in milliseconds, cut to an int.
Ms(samples) == (1000 * samples) \div Rate

\* The mean of some rounds in milliseconds; it is cut after the division.
MeanMs(samples, rounds) == (1000 * samples) \div (Rate * rounds)

\* The rounds disagree, or are all done, or go on.
Verdict(o, e) ==
  IF o.max > 2 * o.min
    THEN [o EXCEPT !.latency = 0, !.count = -1, !.state = "passthrough"]
    ELSE IF o.retries = 0
      THEN [o EXCEPT !.latency = MeanMs(o.sum, o.count), !.state = "passthrough"]
      ELSE [o EXCEPT !.latency = Ms(e), !.state = "waiting"]

\* The tone is heard at sample n; within a frame of its start it is a noise.
Heard(o, n) ==
  LET e == o.elapsed + n
      p == [o EXCEPT !.elapsed = e]
  IN  IF e > SPF THEN Verdict(Stored(p, e), e) ELSE [p EXCEPT !.state = "waiting"]

\* processInput: what an object may be after a frame.
Processed(o) ==
  IF o.state = "average" THEN {Averaged(o)}
  ELSE IF o.state = "playing" THEN {Unheard(o)} \union {Heard(o, n) : n \in 0..SPF}
  ELSE {Waited(o)}

-----------------------------------------------------------------------------
(***************************************************************************)
(* YeeCallRecorder.                                                        *)
(***************************************************************************)

\* setConfig(CFG_ACTION_MEASURE_LATENCY, n): the object is started, then
\* installed; nobody else installs one.
Measure ==
  /\ ~misused
  /\ installed = 0
  /\ made < MaxObjects
  /\ \E n \in Rounds : object' = [object EXCEPT ![made + 1] = Started(n)]
  /\ made' = made + 1
  /\ installed' = made + 1
  /\ UNCHANGED <<serial, recording, freed, place, holds, misused>>

\* startRecording: the recorder has a buffer and runs.
StartRecording ==
  /\ ~misused
  /\ ~recording
  /\ recording' = TRUE
  /\ UNCHANGED <<serial, installed, object, made, freed, place, holds, misused>>

\* stopRecording, which leaves mLatencyMeasurer alone.  A callback under way goes on.
StopRecording ==
  /\ ~misused
  /\ recording
  /\ recording' = FALSE
  /\ UNCHANGED <<serial, installed, object, made, freed, place, holds, misused>>

\* The pointer is loaded, at the start of recorderCallback and before a frame is
\* queued in playerCallback.
Load(t) ==
  /\ ~misused
  /\ t = "recorder" => recording
  /\ place[t] = "away"
  /\ installed # 0
  /\ serial => \A u \in Threads : place[u] = "away"
  /\ holds' = [holds EXCEPT ![t] = installed]
  /\ place' = [place EXCEPT ![t] = "loaded"]
  /\ UNCHANGED <<serial, recording, installed, object, made, freed, misused>>

\* Enqueue fails in recorderCallback, which returns: the frame is not processed, and
\* no buffer comes back.
QueueFails ==
  /\ ~misused
  /\ place["recorder"] = "loaded"
  /\ recording' = FALSE
  /\ place' = [place EXCEPT !["recorder"] = "away"]
  /\ holds' = [holds EXCEPT !["recorder"] = 0]
  /\ UNCHANGED <<serial, installed, object, made, freed, misused>>

\* The measurement goes on: processInput or processOutput.
Use(t) ==
  /\ ~misused
  /\ place[t] = "loaded" /\ holds[t] \notin freed
  /\ object[holds[t]].state # "passthrough"
  /\ IF t = "recorder"
       THEN \E o \in Processed(object[holds[t]]) : object' = [object EXCEPT ![holds[t]] = o]
       ELSE UNCHANGED object
  /\ place' = [place EXCEPT ![t] = "away"]
  /\ holds' = [holds EXCEPT ![t] = 0]
  /\ UNCHANGED <<serial, recording, installed, made, freed, misused>>

\* Fault: the pointer is left in place.
LeftInstalled == UNCHANGED installed

\* mLatencyMeasurer = NULL, whichever object it points to by now.
Uninstalled == installed' = 0

\* The measurement is over: take it out.
Remove(t) ==
  /\ ~misused
  /\ place[t] = "loaded" /\ holds[t] \notin freed
  /\ object[holds[t]].state = "passthrough"
  /\ Uninstalled
  /\ place' = [place EXCEPT ![t] = "removed"]
  /\ UNCHANGED <<serial, recording, object, made, freed, holds, misused>>

\* Read the result, delete the object: what it held is gone.
Delete(t) ==
  /\ ~misused
  /\ place[t] = "removed" /\ holds[t] \notin freed
  /\ freed' = freed \union {holds[t]}
  /\ object' = [object EXCEPT ![holds[t]] = Started(0)]
  /\ place' = [place EXCEPT ![t] = "away"]
  /\ holds' = [holds EXCEPT ![t] = 0]
  /\ UNCHANGED <<serial, recording, installed, made, misused>>

\* The other callback has deleted the object meanwhile.  What follows is
\* undefined, and the model ends here.
Misuse(t) ==
  /\ ~misused
  /\ place[t] # "away" /\ holds[t] \in freed
  /\ misused' = TRUE
  /\ UNCHANGED <<serial, recording, installed, object, made, freed, place, holds>>

\* After undefined behaviour.
Rest == misused /\ UNCHANGED vars

Callback(t) == Load(t) \/ Use(t) \/ Remove(t) \/ Delete(t) \/ Misuse(t)

-----------------------------------------------------------------------------
Init ==
  /\ serial \in BOOLEAN /\ recording = FALSE
  /\ installed = 0 /\ made = 0 /\ freed = {}
  /\ object = [k \in Objects |-> Started(0)]
  /\ place = [t \in Threads |-> "away"] /\ holds = [t \in Threads |-> 0]
  /\ misused = FALSE

Next ==
  \/ Measure \/ StartRecording \/ StopRecording \/ QueueFails \/ Rest
  \/ \E t \in Threads : Callback(t)

Spec == Init /\ [][Next]_vars

\* A callback under way does not stop.  A recorder that runs calls back, also when
\* the player's callbacks take turns with its own on one thread.  Nothing is asked of
\* the player, whose device may be stopped or out of buffers at any time.
FairSpec ==
  /\ Spec
  /\ SF_vars(Load("recorder"))
  /\ \A t \in Threads : WF_vars(Use(t) \/ Remove(t) \/ Delete(t) \/ Misuse(t))

-----------------------------------------------------------------------------
(***************************************************************************)
(* Correctness.                                                            *)
(***************************************************************************)

Record ==
  [state : States, elapsed : 0..(Rate + SPF), retries : 0..32, asked : 0..32,
   count : -1..32, sum : Nat, min : Nat, max : Nat, latency : Nat \union {-1}]

\* The types of objects, pointers and places.
TypeOK ==
  /\ serial \in BOOLEAN /\ misused \in BOOLEAN /\ recording \in BOOLEAN
  /\ made \in 0..MaxObjects /\ installed \in 0..made
  /\ DOMAIN object = Objects /\ \A k \in Objects : object[k] \in Record
  /\ freed \subseteq 1..made
  /\ place \in [Threads -> {"away", "loaded", "removed"}]
  /\ holds \in [Threads -> 0..made]

\* Results never outnumber the rounds asked for, so they fit in their 32 slots:
\* failed rounds, noises and retries are all paid for.
RoundsPaid ==
  \A k \in Objects :
    LET o == object[k]
    IN  o.count + o.retries + (IF o.state \in {"average", "playing"} THEN 1 ELSE 0) =< o.asked

\* A positive result lies between the least and the greatest round stored, each in
\* whole milliseconds (the result may be less than the least round, by a part of a
\* millisecond), and these are within a factor of two, however many rounds failed
\* between them.
ResultSound ==
  \A k \in Objects :
    LET o == object[k]
    IN  o.state = "passthrough" /\ o.latency > 0 =>
          /\ Ms(o.min) =< o.latency /\ o.latency =< Ms(o.max)
          /\ o.max =< 2 * o.min /\ o.min > SPF

\* If the device makes all callbacks on one thread, no object is used or deleted
\* after it has been deleted, and none is lost: what is not installed is freed.
OneThreadSafe ==
  serial => /\ ~misused
            /\ (\A t \in Threads : place[t] = "away") => freed = (1..made) \ {installed}

\* While the recorder runs, a measurement comes to an end and is taken out, whatever
\* the player's device does, unless two callbacks collide on it.  One that is stopped
\* before leaves it installed, and the next session goes on with it.
MeasurementEnds == installed # 0 ~> installed = 0 \/ misused \/ ~recording
=============================================================================
