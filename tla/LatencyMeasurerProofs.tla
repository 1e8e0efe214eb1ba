------------------------ MODULE LatencyMeasurerProofs ------------------------
(***************************************************************************)
(* MeasurerInv is an invariant of LatencyMeasurer, for every frame, rate   *)
(* and number of rounds: results fit in their array, a result is sound,    *)
(* and callbacks on one thread never touch a deleted object.               *)
(***************************************************************************)
EXTENDS LatencyMeasurerInv, TLAPS

-----------------------------------------------------------------------------
(***************************************************************************)
(* One object.                                                             *)
(***************************************************************************)

\* What integer division cuts off is less than the divisor.
LEMMA Cut ==
  ASSUME NEW a \in Nat, NEW n \in Nat, n > 0
  PROVE  /\ a \div n \in Nat
         /\ (a \div n) * n =< a /\ a < (a \div n + 1) * n
<1> DEFINE q == a \div n
<1>1. a = q * n + (a % n) /\ a % n \in 0..(n - 1) /\ q \in Int
  <2>1. a \in Int /\ n \in Int
    OBVIOUS
  <2>2. a = q * n + (a % n)
    BY <2>1
  <2> QED
    BY <2>1, <2>2
<1>2. PICK r \in 0..(n - 1) : a = q * n + r
  BY <1>1
<1> HIDE DEF q
<1>3. ~(q =< -1)
  <2>1. SUFFICES ASSUME q =< -1
                 PROVE  FALSE
    OBVIOUS
  <2>2. (-1 - q) * n >= 0
    BY <1>1, <2>1
  <2> QED
    BY <1>1, <1>2, <2>2
<1>4. q * n =< a /\ a < (q + 1) * n
  BY <1>1, <1>2
<1> QED
  BY <1>1, <1>3, <1>4 DEF q

\* A smaller fraction is not cut to a greater number.
LEMMA CutInOrder ==
  ASSUME NEW a \in Nat, NEW m \in Nat, m > 0, NEW b \in Nat, NEW n \in Nat, n > 0,
         a * n =< b * m
  PROVE  a \div m =< b \div n
<1> DEFINE p == a \div m
           q == b \div n
<1>1. p \in Nat /\ p * m =< a /\ q \in Nat /\ b < (q + 1) * n
  BY Cut
<1> HIDE DEF p, q
<1>2. ASSUME p >= q + 1
      PROVE  FALSE
  <2>1. (a - p * m) * n >= 0
    BY <1>1
  <2>2. ((q + 1) * n - b) * m > 0
    BY <1>1
  <2>3. (p - (q + 1)) * (n * m) >= 0
    <3>1. n * m >= 0 /\ n * m \in Int
      OBVIOUS
    <3> QED
      BY <1>1, <1>2, <3>1
  <2> QED
    BY <1>1, <2>1, <2>2, <2>3
<1> QED
  BY <1>1, <1>2 DEF p, q

LEMMA RateFact == Rate \in Nat /\ Rate > 0
BY RoundAssumption

\* Milliseconds are in the order of the samples.
LEMMA MsInOrder ==
  ASSUME NEW a \in Nat, NEW b \in Nat, a =< b
  PROVE  Ms(a) \in Nat /\ Ms(a) =< Ms(b)
<1>1. 1000 * a \in Nat /\ 1000 * b \in Nat
  OBVIOUS
<1>2. (1000 * a) * Rate =< (1000 * b) * Rate
  <2>1. (b - a) * Rate >= 0
    BY RateFact
  <2> QED
    BY <2>1, RateFact
<1> QED
  BY <1>1, <1>2, RateFact, Cut, CutInOrder DEF Ms

\* The mean lies between the least and the greatest, in whole milliseconds as well.
LEMMA MeanBetween ==
  ASSUME NEW s \in Nat, NEW n \in Nat, n > 0, NEW a \in Nat, NEW b \in Nat,
         n * a =< s, s =< n * b
  PROVE  MeanMs(s, n) \in Nat /\ Ms(a) =< MeanMs(s, n) /\ MeanMs(s, n) =< Ms(b)
<1> DEFINE d == Rate * n
<1>1. d \in Nat /\ d > 0
  BY RateFact
<1>2. 1000 * a \in Nat /\ 1000 * b \in Nat /\ 1000 * s \in Nat
  OBVIOUS
<1>3. (1000 * a) * d =< (1000 * s) * Rate
  <2>1. (s - n * a) * Rate >= 0
    BY RateFact
  <2> QED
    BY <2>1, RateFact
<1>4. (1000 * s) * Rate =< (1000 * b) * d
  <2>1. (n * b - s) * Rate >= 0
    BY RateFact
  <2> QED
    BY <2>1, RateFact
<1> HIDE DEF d
<1>5. (1000 * s) \div d \in Nat
  BY <1>1, <1>2, Cut
<1>6. (1000 * a) \div Rate =< (1000 * s) \div d
  BY <1>1, <1>2, <1>3, RateFact, CutInOrder
<1>7. (1000 * s) \div d =< (1000 * b) \div Rate
  BY <1>1, <1>2, <1>4, RateFact, CutInOrder
<1> QED
  BY <1>5, <1>6, <1>7 DEF MeanMs, Ms, d

LEMMA StartedSane ==
  ASSUME NEW n \in 0..32
  PROVE  Sane(Started(n))
BY RoundAssumption DEF Started, Sane, Record, States, Paid, Ranged, InTime

\* The states an object may take on.
LEMMA StatesFact ==
  /\ "waiting" \in States /\ "average" \in States
  /\ "playing" \in States /\ "passthrough" \in States
BY DEF States

\* Waiting, and the next round or the end.
LEMMA WaitedSane ==
  ASSUME NEW o, Sane(o), o.state \in {"idle", "waiting"}
  PROVE  Sane(Waited(o))
<1> DEFINE p == Waited(o)
<1>1. o \in Record
  BY DEF Sane
<1>2. Rate \div 2 =< Rate /\ Rate \div 2 \in Nat
  BY RoundAssumption
<1>3. /\ o.count \in -1..32 /\ o.retries \in 0..32 /\ o.asked \in 0..32 /\ o.elapsed \in Nat
      /\ o.count + o.retries =< o.asked
  BY <1>1, RoundAssumption DEF Record, Sane, Paid
<1>4. ~(o.count = -1)
  BY DEF Sane, Ranged
<1>5. CASE o.elapsed + SPF =< Rate \div 2
  <2>1. p = [o EXCEPT !.state = "waiting", !.elapsed = o.elapsed + SPF]
    BY <1>1, <1>5 DEF Waited, Record
  <2>2. o.elapsed + SPF \in 0..(Rate + SPF)
    BY <1>2, <1>3, <1>5, RoundAssumption
  <2>3. p \in Record
    BY <1>1, <2>1, <2>2, StatesFact DEF Record
  <2>4. /\ p.count = o.count /\ p.retries = o.retries /\ p.asked = o.asked /\ p.sum = o.sum
        /\ p.min = o.min /\ p.max = o.max /\ p.latency = o.latency /\ p.state = "waiting"
    BY <1>1, <2>1 DEF Record
  <2> HIDE DEF p
  <2>5. Paid(p) /\ InTime(p)
    BY <1>3, <2>4 DEF Paid, InTime
  <2>6. Ranged(p)
    BY <1>4, <2>4 DEF Sane, Ranged
  <2> QED
    BY <2>3, <2>5, <2>6 DEF Sane, p
<1>6. CASE ~(o.elapsed + SPF =< Rate \div 2) /\ o.retries > 0
  <2>1. p = [o EXCEPT !.elapsed = 0, !.retries = o.retries - 1, !.state = "average"]
    BY <1>1, <1>6 DEF Waited, RoundTaken, Record
  <2>2. o.retries - 1 \in 0..32 /\ 0 \in 0..(Rate + SPF)
    BY <1>3, <1>6, RoundAssumption
  <2>3. p \in Record
    BY <1>1, <2>1, <2>2, StatesFact DEF Record
  <2>4. /\ p.count = o.count /\ p.retries = o.retries - 1 /\ p.asked = o.asked
        /\ p.sum = o.sum /\ p.min = o.min /\ p.max = o.max /\ p.latency = o.latency
        /\ p.state = "average" /\ p.elapsed = 0
    BY <1>1, <2>1 DEF Record
  <2> HIDE DEF p
  <2>5. Paid(p) /\ InTime(p)
    BY <1>3, <2>4, RoundAssumption DEF Paid, InTime
  <2>6. Ranged(p)
    BY <1>4, <2>4 DEF Sane, Ranged
  <2> QED
    BY <2>3, <2>5, <2>6 DEF Sane, p
<1>7. CASE ~(o.elapsed + SPF =< Rate \div 2) /\ ~(o.retries > 0)
  <2>1. p = [o EXCEPT !.elapsed = 0, !.state = "passthrough"]
    BY <1>1, <1>7 DEF Waited, Record
  <2>0. 0 \in 0..(Rate + SPF)
    BY RoundAssumption
  <2>2. p \in Record
    BY <1>1, <2>0, <2>1, StatesFact DEF Record
  <2>3. /\ p.count = o.count /\ p.retries = o.retries /\ p.asked = o.asked /\ p.sum = o.sum
        /\ p.min = o.min /\ p.max = o.max /\ p.latency = o.latency
        /\ p.state = "passthrough"
    BY <1>1, <2>1 DEF Record
  <2> HIDE DEF p
  <2>4. Paid(p) /\ InTime(p)
    BY <1>3, <2>3 DEF Paid, InTime
  <2>5. Ranged(p)
    BY <1>4, <2>3 DEF Sane, Ranged
  <2> QED
    BY <2>2, <2>4, <2>5 DEF Sane, p
<1> QED
  BY <1>5, <1>6, <1>7

\* Taking the average.
LEMMA AveragedSane ==
  ASSUME NEW o, Sane(o), o.state = "average"
  PROVE  Sane(Averaged(o))
<1> DEFINE p == Averaged(o)
<1>1. o \in Record
  BY DEF Sane
<1>2. p \in Record
  <2>1. CASE o.elapsed + SPF < Rate
    BY <1>1, <2>1, RoundAssumption DEF Record, Averaged
  <2>2. CASE ~(o.elapsed + SPF < Rate)
    <3>1. p = [o EXCEPT !.elapsed = 0, !.state = "playing"]
      BY <2>2 DEF Averaged
    <3>2. 0 \in 0..(Rate + SPF)
      BY RoundAssumption
    <3> QED
      BY <1>1, <3>1, <3>2, StatesFact DEF Record
  <2> QED
    BY <2>1, <2>2
<1>3. /\ p.count = o.count /\ p.retries = o.retries /\ p.asked = o.asked /\ p.sum = o.sum
      /\ p.min = o.min /\ p.max = o.max /\ p.latency = o.latency
  BY <1>1 DEF Averaged, Record
<1>4. p.state \in {"average", "playing"}
  BY <1>1 DEF Averaged, Record
<1>5. p.elapsed =< Rate
  BY <1>1, RoundAssumption DEF Averaged, Record
<1> HIDE DEF p
<1>6. Paid(p)
  BY <1>3, <1>4 DEF Sane, Paid
<1>7. Ranged(p)
  BY <1>3, <1>4 DEF Sane, Ranged
<1>8. InTime(p)
  BY <1>5 DEF InTime
<1> QED
  BY <1>2, <1>6, <1>7, <1>8 DEF Sane, p

\* Listening in vain.
LEMMA UnheardSane ==
  ASSUME NEW o, Sane(o), o.state = "playing"
  PROVE  Sane(Unheard(o))
<1> DEFINE p == Unheard(o)
<1>1. o \in Record
  BY DEF Sane
<1>2. o.elapsed \in 0..Rate
  BY <1>1, RoundAssumption DEF Sane, InTime, Record
<1>3. o.elapsed + SPF \in 0..(Rate + SPF)
  BY <1>2, RoundAssumption
<1>4. CASE o.elapsed + SPF =< Rate
  <2>1. p = [o EXCEPT !.elapsed = o.elapsed + SPF]
    BY <1>1, <1>4 DEF Unheard, Record
  <2>2. p \in Record
    BY <1>1, <1>3, <2>1 DEF Record
  <2>3. /\ p.count = o.count /\ p.retries = o.retries /\ p.asked = o.asked /\ p.sum = o.sum
        /\ p.min = o.min /\ p.max = o.max /\ p.latency = o.latency /\ p.state = o.state
        /\ p.elapsed =< Rate
    BY <1>1, <1>4, <2>1 DEF Record
  <2> HIDE DEF p
  <2>4. Paid(p) /\ Ranged(p) /\ InTime(p)
    BY <2>3 DEF Sane, Paid, Ranged, InTime
  <2> QED
    BY <2>2, <2>4 DEF Sane, p
<1>5. CASE ~(o.elapsed + SPF =< Rate)
  <2>1. p = [o EXCEPT !.elapsed = o.elapsed + SPF, !.state = "waiting", !.latency = -1]
    BY <1>1, <1>5 DEF Unheard, Record
  <2>2. p \in Record
    BY <1>1, <1>3, <2>1, StatesFact DEF Record
  <2>3. /\ p.count = o.count /\ p.retries = o.retries /\ p.asked = o.asked /\ p.sum = o.sum
        /\ p.min = o.min /\ p.max = o.max /\ p.latency = -1 /\ p.state = "waiting"
    BY <1>1, <2>1 DEF Record
  <2> HIDE DEF p
  <2>4. Paid(p)
    BY <1>1, <2>3 DEF Sane, Paid, Record
  <2>5. Ranged(p)
    BY <2>3 DEF Sane, Ranged
  <2>6. InTime(p)
    BY <2>3 DEF InTime
  <2> QED
    BY <2>2, <2>4, <2>5, <2>6 DEF Sane, p
<1> QED
  BY <1>4, <1>5

\* One more result between the bounds of a sum.
LEMMA SumBounds ==
  ASSUME NEW c \in Nat, NEW s \in Nat, NEW a \in Nat, NEW b \in Nat, NEW e \in Nat,
         NEW a2 \in Nat, NEW b2 \in Nat,
         c * a =< s, s =< c * b, a2 =< a, a2 =< e, b =< b2, e =< b2
  PROVE  (c + 1) * a2 =< s + e /\ s + e =< (c + 1) * b2
<1>1. c * (a - a2) >= 0
  OBVIOUS
<1>2. c * (b2 - b) >= 0
  OBVIOUS
<1> QED
  BY <1>1, <1>2

\* A result is stored: the bounds stay bounds.
LEMMA StoredSane ==
  ASSUME NEW o, Sane(o), o.state = "playing",
         NEW e \in (SPF + 1)..(Rate + SPF), NEW p, p = [o EXCEPT !.elapsed = e],
         NEW q, q = Stored(p, e)
  PROVE  /\ q \in Record
         /\ q.count = o.count + 1 /\ q.count > 0
         /\ q.retries = o.retries /\ q.asked = o.asked /\ q.count + q.retries =< q.asked
         /\ SPF < q.min /\ q.min =< q.max /\ q.min =< e /\ e =< q.max
         /\ q.count * q.min =< q.sum /\ q.sum =< q.count * q.max
<1>1. o \in Record
  BY DEF Sane
<1>2. /\ o.count \in Nat /\ o.count + 1 \in 0..32 /\ o.retries \in 0..32 /\ o.asked \in 0..32
      /\ o.count + 1 + o.retries =< o.asked
  BY <1>1 DEF Record, Sane, Paid, Ranged
<1>3. SPF \in Nat /\ e \in Nat /\ SPF < e
  BY RoundAssumption
<1>4. o.sum \in Nat /\ o.min \in Nat /\ o.max \in Nat
  BY <1>1 DEF Record
<1> DEFINE a2 == IF o.count = 0 \/ e < o.min THEN e ELSE o.min
           b2 == IF e > o.max THEN e ELSE o.max
<1>5. /\ a2 \in Nat /\ b2 \in Nat /\ SPF < a2 /\ a2 =< e /\ e =< b2
      /\ o.count > 0 => a2 =< o.min /\ o.max =< b2
  BY <1>2, <1>3, <1>4 DEF Sane, Ranged
<1>6. q = [o EXCEPT !.elapsed = e, !.count = o.count + 1, !.sum = o.sum + e, !.min = a2, !.max = b2]
  BY <1>1 DEF Stored, Record
<1> HIDE DEF a2, b2
<1>7. /\ q.count = o.count + 1 /\ q.retries = o.retries /\ q.asked = o.asked
      /\ q.sum = o.sum + e /\ q.min = a2 /\ q.max = b2
  BY <1>1, <1>6 DEF Record
<1>8. q \in Record
  <2>1. o.sum + e \in Nat /\ o.count + 1 \in -1..32 /\ e \in 0..(Rate + SPF)
    BY <1>2, <1>3, <1>4
  <2> QED
    BY <1>1, <1>5, <1>6, <2>1 DEF Record
<1>9. (o.count + 1) * a2 =< o.sum + e /\ o.sum + e =< (o.count + 1) * b2
  <2>1. CASE o.count = 0
    <3>1. o.sum = 0
      BY <2>1 DEF Sane, Ranged
    <3> QED
      BY <1>3, <1>5, <2>1, <3>1
  <2>2. CASE o.count > 0
    <3>1. o.count * o.min =< o.sum /\ o.sum =< o.count * o.max
      BY <2>2 DEF Sane, Ranged
    <3> QED
      BY <1>2, <1>3, <1>4, <1>5, <2>2, <3>1, SumBounds
  <2> QED
    BY <1>2, <2>1, <2>2
<1>10. q.count * q.min =< q.sum /\ q.sum =< q.count * q.max
  BY <1>7, <1>9
<1>11. q.count > 0 /\ q.count + q.retries =< q.asked
  BY <1>2, <1>7
<1>12. SPF < q.min /\ q.min =< q.max /\ q.min =< e /\ e =< q.max
  BY <1>3, <1>5, <1>7
<1> QED
  BY <1>7, <1>8, <1>10, <1>11, <1>12

\* The end of a round that was heard.
LEMMA VerdictSane ==
  ASSUME NEW e \in Nat, NEW q, q \in Record, q.count > 0, q.count + q.retries =< q.asked,
         SPF < q.min, q.min =< q.max, q.min =< e, e =< q.max,
         q.count * q.min =< q.sum, q.sum =< q.count * q.max
  PROVE  Sane(Verdict(q, e))
<1> DEFINE v == Verdict(q, e)
<1>1. /\ q.count \in -1..32 /\ q.retries \in 0..32 /\ q.asked \in 0..32 /\ SPF \in Nat
      /\ q.sum \in Nat /\ q.min \in Nat /\ q.max \in Nat
  BY RoundAssumption DEF Record
<1>2. CASE q.max > 2 * q.min
  <2>1. v = [q EXCEPT !.latency = 0, !.count = -1, !.state = "passthrough"]
    BY <1>2 DEF Verdict
  <2>2. 0 \in Nat \union {-1} /\ -1 \in -1..32
    OBVIOUS
  <2>3. v \in Record
    BY <2>1, <2>2, StatesFact DEF Record
  <2>4. v.count = -1 /\ v.latency = 0 /\ v.state = "passthrough" /\ v.retries = q.retries /\ v.asked = q.asked
    BY <2>1 DEF Record
  <2> HIDE DEF v
  <2>5. Paid(v) /\ Ranged(v) /\ InTime(v)
    BY <1>1, <2>4 DEF Paid, Ranged, InTime
  <2> QED
    BY <2>3, <2>5 DEF Sane, v
<1>3. CASE ~(q.max > 2 * q.min) /\ q.retries = 0
  <2> DEFINE mean == MeanMs(q.sum, q.count)
  <2>1. v = [q EXCEPT !.latency = mean, !.state = "passthrough"]
    BY <1>3 DEF Verdict
  <2>2. mean \in Nat /\ Ms(q.min) =< mean /\ mean =< Ms(q.max)
    <3>1. q.count \in Nat
      BY <1>1
    <3> QED
      BY <1>1, <3>1, MeanBetween
  <2> HIDE DEF mean
  <2>3. v \in Record
    BY <2>1, <2>2, StatesFact DEF Record
  <2>4. /\ v.count = q.count /\ v.latency = mean /\ v.state = "passthrough"
        /\ v.retries = q.retries /\ v.asked = q.asked /\ v.sum = q.sum /\ v.min = q.min /\ v.max = q.max
    BY <2>1 DEF Record
  <2> HIDE DEF v
  <2>5. Paid(v) /\ InTime(v)
    BY <1>1, <2>4 DEF Paid, InTime
  <2>6. Ranged(v)
    BY <1>1, <1>3, <2>2, <2>4 DEF Ranged
  <2> QED
    BY <2>3, <2>5, <2>6 DEF Sane, v
<1>4. CASE ~(q.max > 2 * q.min) /\ ~(q.retries = 0)
  <2> DEFINE ms == Ms(e)
  <2>1. v = [q EXCEPT !.latency = ms, !.state = "waiting"]
    BY <1>4 DEF Verdict
  <2>2. ms \in Nat /\ Ms(q.min) =< ms /\ ms =< Ms(q.max)
    BY <1>1, MsInOrder
  <2> HIDE DEF ms
  <2>3. v \in Record
    BY <2>1, <2>2, StatesFact DEF Record
  <2>4. /\ v.count = q.count /\ v.latency = ms /\ v.state = "waiting"
        /\ v.retries = q.retries /\ v.asked = q.asked /\ v.sum = q.sum /\ v.min = q.min /\ v.max = q.max
    BY <2>1 DEF Record
  <2> HIDE DEF v
  <2>5. Paid(v) /\ InTime(v)
    BY <1>1, <2>4 DEF Paid, InTime
  <2>6. Ranged(v)
    BY <1>1, <1>4, <2>2, <2>4 DEF Ranged
  <2> QED
    BY <2>3, <2>5, <2>6 DEF Sane, v
<1> QED
  BY <1>2, <1>3, <1>4

\* The tone, or a noise, is heard.
LEMMA HeardSane ==
  ASSUME NEW o, Sane(o), o.state = "playing", NEW n \in 0..SPF
  PROVE  Sane(Heard(o, n))
<1> DEFINE e == o.elapsed + n
           p == [o EXCEPT !.elapsed = e]
<1>1. o \in Record
  BY DEF Sane
<1>2. o.elapsed \in 0..Rate
  BY <1>1, RoundAssumption DEF Sane, InTime, Record
<1>3. e \in 0..(Rate + SPF) /\ e \in Nat
  BY <1>2, RoundAssumption
<1>4. CASE e > SPF
  <2> DEFINE q == Stored(p, e)
  <2>1. e \in (SPF + 1)..(Rate + SPF)
    BY <1>3, <1>4, RoundAssumption
  <2>2. Heard(o, n) = Verdict(q, e)
    BY <1>4 DEF Heard
  <2> HIDE DEF e
  <2>3. /\ q \in Record
        /\ q.count > 0
        /\ q.count + q.retries =< q.asked
        /\ SPF < q.min /\ q.min =< q.max /\ q.min =< e /\ e =< q.max
        /\ q.count * q.min =< q.sum /\ q.sum =< q.count * q.max
    BY <2>1, StoredSane
  <2> HIDE DEF q
  <2> QED
    BY <1>3, <2>2, <2>3, VerdictSane
<1>5. CASE ~(e > SPF)
  <2> DEFINE v == [p EXCEPT !.state = "waiting"]
  <2>1. Heard(o, n) = v
    BY <1>5 DEF Heard
  <2> HIDE DEF e
  <2>2. v = [o EXCEPT !.elapsed = e, !.state = "waiting"]
    BY <1>1 DEF Record
  <2> HIDE DEF v
  <2>3. v \in Record
    BY <1>1, <1>3, <2>2, StatesFact DEF Record
  <2>4. /\ v.count = o.count /\ v.retries = o.retries /\ v.asked = o.asked /\ v.sum = o.sum
        /\ v.min = o.min /\ v.max = o.max /\ v.latency = o.latency /\ v.state = "waiting"
    BY <1>1, <2>2 DEF Record
  <2>5. Paid(v) /\ InTime(v)
    BY <1>1, <2>4 DEF Sane, Paid, InTime, Record
  <2>6. Ranged(v)
    BY <2>4 DEF Sane, Ranged
  <2> QED
    BY <2>1, <2>3, <2>5, <2>6 DEF Sane
<1> QED
  BY <1>4, <1>5

\* A frame keeps an object sane, whatever is heard in it.
LEMMA ProcessedSane ==
  ASSUME NEW o, Sane(o), o.state # "passthrough", NEW v \in Processed(o)
  PROVE  Sane(v)
<1>1. o.state \in {"idle", "waiting", "average", "playing"}
  BY DEF Sane, Record, States
<1>2. CASE o.state = "average"
  BY <1>2, AveragedSane DEF Processed
<1>3. CASE o.state = "playing"
  BY <1>3, UnheardSane, HeardSane DEF Processed
<1>4. CASE o.state \in {"idle", "waiting"}
  BY <1>4, WaitedSane DEF Processed
<1> QED
  BY <1>1, <1>2, <1>3, <1>4

-----------------------------------------------------------------------------
(***************************************************************************)
(* How long a measurement may take.                                        *)
(***************************************************************************)

\* The lengths are numbers; the rounds left cost nothing negative.
LEMMA Lengths ==
  /\ HalfSecond \in Nat /\ OneRound \in Nat /\ SPF \in Nat /\ Rate \in Nat
  /\ LongestWait = HalfSecond + SPF /\ LongestTone = Rate + SPF
  /\ OneRound = LongestWait + LongestTone + (Rate + SPF)
<1>1. HalfSecond \in Nat
  BY RoundAssumption DEF HalfSecond
<1> QED
  BY <1>1, RoundAssumption DEF LongestWait, LongestTone, OneRound

LEMMA Cost ==
  ASSUME NEW r \in Nat
  PROVE  r * OneRound \in Nat /\ (r > 0 => r * OneRound = (r - 1) * OneRound + OneRound)
BY Lengths

\* A wait is never longer than from its beginning.
LEMMA WaitBounds ==
  ASSUME NEW o, o.elapsed \in Nat
  PROVE  WaitLeft(o) \in SPF..LongestWait
BY Lengths DEF WaitLeft

\* While waiting.
LEMMA WaitedLeft ==
  ASSUME NEW o, Sane(o), o.state \in {"idle", "waiting"}
  PROVE  Left(Waited(o)) + SPF =< Left(o)
<1> DEFINE p == Waited(o)
           c == o.retries * OneRound
<1>1. o \in Record
  BY DEF Sane
<1>2. o.retries \in Nat /\ o.elapsed \in Nat
  BY <1>1, RoundAssumption DEF Record
<1>3. c \in Nat /\ (o.retries > 0 => c = (o.retries - 1) * OneRound + OneRound)
  BY <1>2, Cost
<1>4. Left(o) = c + WaitLeft(o) /\ WaitLeft(o) \in SPF..LongestWait
  BY <1>2, WaitBounds DEF Left
<1>5. CASE o.elapsed + SPF =< Rate \div 2
  <2>1. p.state = "waiting" /\ p.elapsed = o.elapsed + SPF /\ p.retries = o.retries
    BY <1>1, <1>5 DEF Waited, Record
  <2> HIDE DEF p
  <2>2. Left(p) = c + WaitLeft(p)
    BY <2>1 DEF Left
  <2>3. WaitLeft(p) + SPF = WaitLeft(o)
    BY <1>2, <1>5, <2>1, Lengths DEF WaitLeft, HalfSecond
  <2>4. WaitLeft(p) \in Int
    BY <1>2, <2>1, WaitBounds, Lengths
  <2> HIDE DEF c
  <2> QED
    BY <1>3, <1>4, <2>2, <2>3, <2>4, Lengths DEF p
<1>6. CASE ~(o.elapsed + SPF =< Rate \div 2) /\ o.retries > 0
  <2>1. p.state = "average" /\ p.elapsed = 0 /\ p.retries = o.retries - 1
    BY <1>1, <1>6 DEF Waited, RoundTaken, Record
  <2> HIDE DEF p
  <2>2. Left(p) = (o.retries - 1) * OneRound + (SecondLeft(p) + LongestTone + LongestWait)
    BY <2>1 DEF Left
  <2>3. SecondLeft(p) = Rate + SPF
    BY <2>1, Lengths DEF SecondLeft
  <2> DEFINE d == (o.retries - 1) * OneRound
  <2>4. d \in Int /\ c = d + OneRound
    BY <1>2, <1>3, <1>6, Lengths
  <2> HIDE DEF c, d
  <2>5. Left(p) = d + (SecondLeft(p) + LongestTone + LongestWait)
    BY <2>2 DEF d
  <2> QED
    BY <1>4, <2>3, <2>4, <2>5, Lengths DEF p
<1>7. CASE ~(o.elapsed + SPF =< Rate \div 2) /\ ~(o.retries > 0)
  <2>1. p.state = "passthrough"
    BY <1>1, <1>7 DEF Waited, Record
  <2> HIDE DEF p
  <2>2. Left(p) = 0
    BY <2>1 DEF Left
  <2> HIDE DEF c
  <2> QED
    BY <1>3, <1>4, <2>2, Lengths DEF p
<1> QED
  BY <1>5, <1>6, <1>7

\* While the average is taken, and while the tone is played.
LEMMA SecondBounds ==
  ASSUME NEW o, Sane(o), o.state \in {"average", "playing"}
  PROVE  /\ o.elapsed \in 0..Rate /\ o.retries \in Nat
         /\ SecondLeft(o) \in SPF..(Rate + SPF)
         /\ o.retries * OneRound \in Nat
<1>1. o.elapsed \in 0..Rate /\ o.retries \in Nat
  BY RoundAssumption DEF Sane, InTime, Record
<1> QED
  BY <1>1, Cost, Lengths DEF SecondLeft

LEMMA AveragedLeft ==
  ASSUME NEW o, Sane(o), o.state = "average"
  PROVE  Left(Averaged(o)) + SPF =< Left(o)
<1> DEFINE p == Averaged(o)
           c == o.retries * OneRound
<1>1. o \in Record
  BY DEF Sane
<1>2. o.elapsed \in 0..Rate /\ SecondLeft(o) \in SPF..(Rate + SPF) /\ c \in Nat
  BY SecondBounds
<1>3. Left(o) = c + (SecondLeft(o) + LongestTone + LongestWait)
  BY DEF Left
<1>4. CASE o.elapsed + SPF < Rate
  <2>1. p.state = "average" /\ p.elapsed = o.elapsed + SPF /\ p.retries = o.retries
    BY <1>1, <1>4 DEF Averaged, Record
  <2> HIDE DEF p
  <2>2. Left(p) = c + (SecondLeft(p) + LongestTone + LongestWait)
    BY <2>1 DEF Left
  <2>3. SecondLeft(p) + SPF = SecondLeft(o) /\ SecondLeft(p) \in Int
    BY <1>2, <2>1, Lengths DEF SecondLeft
  <2> HIDE DEF c
  <2> QED
    BY <1>2, <1>3, <2>2, <2>3, Lengths DEF p
<1>5. CASE ~(o.elapsed + SPF < Rate)
  <2>1. p.state = "playing" /\ p.elapsed = 0 /\ p.retries = o.retries
    BY <1>1, <1>5 DEF Averaged, Record
  <2> HIDE DEF p
  <2>2. Left(p) = c + (SecondLeft(p) + LongestWait)
    BY <2>1 DEF Left
  <2>3. SecondLeft(p) = LongestTone
    BY <2>1, Lengths DEF SecondLeft
  <2> HIDE DEF c
  <2> QED
    BY <1>2, <1>3, <2>2, <2>3, Lengths DEF p
<1> QED
  BY <1>4, <1>5

LEMMA UnheardLeft ==
  ASSUME NEW o, Sane(o), o.state = "playing"
  PROVE  Left(Unheard(o)) + SPF =< Left(o)
<1> DEFINE p == Unheard(o)
           c == o.retries * OneRound
<1>1. o \in Record
  BY DEF Sane
<1>2. o.elapsed \in 0..Rate /\ SecondLeft(o) \in SPF..(Rate + SPF) /\ c \in Nat
  BY SecondBounds
<1>3. Left(o) = c + (SecondLeft(o) + LongestWait)
  BY DEF Left
<1>4. CASE o.elapsed + SPF =< Rate
  <2>1. p.state = "playing" /\ p.elapsed = o.elapsed + SPF /\ p.retries = o.retries
    BY <1>1, <1>4 DEF Unheard, Record
  <2> HIDE DEF p
  <2>2. Left(p) = c + (SecondLeft(p) + LongestWait)
    BY <2>1 DEF Left
  <2>3. SecondLeft(p) + SPF = SecondLeft(o) /\ SecondLeft(p) \in Int
    BY <1>2, <2>1, Lengths DEF SecondLeft
  <2> HIDE DEF c
  <2> QED
    BY <1>2, <1>3, <2>2, <2>3, Lengths DEF p
<1>5. CASE ~(o.elapsed + SPF =< Rate)
  <2>1. p.state = "waiting" /\ p.elapsed = o.elapsed + SPF /\ p.retries = o.retries
    BY <1>1, <1>5 DEF Unheard, Record
  <2> HIDE DEF p
  <2>2. Left(p) = c + WaitLeft(p)
    BY <2>1 DEF Left
  <2>3. WaitLeft(p) \in SPF..LongestWait
    BY <1>2, <2>1, WaitBounds, Lengths
  <2> HIDE DEF c
  <2> QED
    BY <1>2, <1>3, <2>2, <2>3, Lengths DEF p
<1> QED
  BY <1>4, <1>5

\* What a round that was heard leaves behind, whatever the verdict.
LEMMA HeardFields ==
  ASSUME NEW o, Sane(o), o.state = "playing", NEW n \in 0..SPF
  PROVE  LET v == Heard(o, n)
         IN  /\ v.state \in {"waiting", "passthrough"}
             /\ v.retries = o.retries
             /\ v.elapsed \in Nat
<1> DEFINE e == o.elapsed + n
           p == [o EXCEPT !.elapsed = e]
           q == Stored(p, e)
<1>1. o \in Record
  BY DEF Sane
<1>2. o.elapsed \in 0..Rate
  BY <1>1, RoundAssumption DEF Sane, InTime, Record
<1>3. e \in Nat
  BY <1>2, RoundAssumption
<1>4. Heard(o, n) = IF e > SPF THEN Verdict(q, e) ELSE [p EXCEPT !.state = "waiting"]
  BY DEF Heard
<1> HIDE DEF e
<1>5. /\ DOMAIN p = DOMAIN o /\ p.retries = o.retries /\ p.elapsed = e
      /\ {"state", "retries", "elapsed", "latency", "count"} \subseteq DOMAIN o
  BY <1>1 DEF Record
<1> HIDE DEF p
<1>6. DOMAIN q = DOMAIN o /\ q.retries = o.retries /\ q.elapsed = e
  BY <1>5 DEF Stored
<1> HIDE DEF q
<1>7. LET v == Verdict(q, e)
      IN  v.state \in {"waiting", "passthrough"} /\ v.retries = o.retries /\ v.elapsed = e
  BY <1>5, <1>6 DEF Verdict
<1>8. LET v == [p EXCEPT !.state = "waiting"]
      IN  v.state \in {"waiting", "passthrough"} /\ v.retries = o.retries /\ v.elapsed = e
  BY <1>5
<1> QED
  BY <1>3, <1>4, <1>7, <1>8

LEMMA HeardLeft ==
  ASSUME NEW o, Sane(o), o.state = "playing", NEW n \in 0..SPF
  PROVE  Left(Heard(o, n)) + SPF =< Left(o)
<1> DEFINE v == Heard(o, n)
           c == o.retries * OneRound
<1>1. /\ v.state \in {"waiting", "passthrough"} /\ v.retries = o.retries
      /\ v.elapsed \in Nat
  BY HeardFields
<1>2. SecondLeft(o) \in SPF..(Rate + SPF) /\ c \in Nat
  BY SecondBounds
<1>3. Left(o) = c + (SecondLeft(o) + LongestWait)
  BY DEF Left
<1> HIDE DEF v
<1>4. WaitLeft(v) \in SPF..LongestWait
  BY <1>1, WaitBounds
<1>5. Left(v) = 0 \/ Left(v) = c + WaitLeft(v)
  BY <1>1 DEF Left
<1> HIDE DEF c
<1> QED
  BY <1>2, <1>3, <1>4, <1>5, Lengths DEF v

\* A frame brings the end closer by its samples, whatever is heard in it.
LEMMA ProcessedLeft ==
  ASSUME NEW o, Sane(o), o.state # "passthrough", NEW v \in Processed(o)
  PROVE  Left(v) + SPF =< Left(o)
<1>1. o.state \in {"idle", "waiting", "average", "playing"}
  BY DEF Sane, Record, States
<1>2. CASE o.state = "average"
  BY <1>2, AveragedLeft DEF Processed
<1>3. CASE o.state = "playing"
  BY <1>3, UnheardLeft, HeardLeft DEF Processed
<1>4. CASE o.state \in {"idle", "waiting"}
  BY <1>4, WaitedLeft DEF Processed
<1> QED
  BY <1>1, <1>2, <1>3, <1>4

\* What is left is at most what a new measurement of as many rounds has before it.
LEMMA RestOfSane ==
  ASSUME NEW o, Sane(o)
  PROVE  0 =< Left(o) /\ Left(o) =< o.asked * OneRound + LongestWait
<1> DEFINE c == o.retries * OneRound
           a == o.asked * OneRound
<1>1. /\ o.retries \in Nat /\ o.asked \in Nat /\ o.elapsed \in Nat
      /\ o.state \in States
  BY RoundAssumption DEF Sane, Record
<1>2. c \in Nat /\ a \in Nat
  BY <1>1, Cost
<1>3. CASE o.state = "passthrough"
  <2>1. Left(o) = 0
    BY <1>3 DEF Left
  <2> HIDE DEF a
  <2> QED
    BY <1>2, <2>1, Lengths DEF a
<1>4. o.state # "passthrough" => o.count >= 0
  BY DEF Sane, Ranged, Record
<1>5. CASE o.state \in {"idle", "waiting"}
  <2>1. o.retries =< o.asked
    BY <1>1, <1>4, <1>5 DEF Sane, Paid, Record
  <2>2. c =< a
    <3>1. (o.asked - o.retries) * OneRound >= 0
      BY <1>1, <2>1, Lengths
    <3> QED
      BY <1>1, <3>1, Lengths
  <2>3. Left(o) = c + WaitLeft(o)
    BY <1>5 DEF Left
  <2> HIDE DEF a, c
  <2>4. 0 =< Left(o) /\ Left(o) =< a + LongestWait
    BY <1>1, <1>2, <2>2, <2>3, WaitBounds, Lengths
  <2> QED
    BY <2>4 DEF a
<1>6. CASE o.state \in {"average", "playing"}
  <2>1. o.retries + 1 =< o.asked
    BY <1>1, <1>4, <1>6 DEF Sane, Paid, Record
  <2>2. c + OneRound =< a
    <3>1. (o.asked - (o.retries + 1)) * OneRound >= 0
      BY <1>1, <2>1, Lengths
    <3> QED
      BY <1>1, <3>1, Lengths
  <2>3. \/ Left(o) = c + (SecondLeft(o) + LongestTone + LongestWait)
        \/ Left(o) = c + (SecondLeft(o) + LongestWait)
    BY <1>6 DEF Left
  <2> HIDE DEF a, c
  <2>4. 0 =< Left(o) /\ Left(o) =< a + LongestWait
    BY <1>2, <1>6, <2>2, <2>3, SecondBounds, Lengths
  <2> QED
    BY <2>4 DEF a
<1> QED
  BY <1>1, <1>3, <1>5, <1>6 DEF States

-----------------------------------------------------------------------------
(***************************************************************************)
(* The steps.                                                              *)
(***************************************************************************)

\* The types of pointers and places, without the objects.
Placed ==
  /\ serial \in BOOLEAN /\ misused \in BOOLEAN /\ recording \in BOOLEAN
  /\ made \in 0..MaxObjects /\ installed \in 0..made
  /\ DOMAIN object = Objects
  /\ freed \subseteq 1..made
  /\ place \in [Threads -> {"away", "loaded", "removed"}]
  /\ holds \in [Threads -> 0..made]

\* Every object is sane, and a callback holds one.
Good ==
  /\ \A k \in Objects : Sane(object[k])
  /\ \A t \in Threads : place[t] # "away" => holds[t] # 0

LEMMA Parts == MeasurerInv <=> Placed /\ Good /\ Alone
BY DEF MeasurerInv, TypeOK, Placed, Good, Sane

LEMMA InitInv ==
  ASSUME Init
  PROVE  MeasurerInv
<1>1. 0 \in 0..32
  OBVIOUS
<1>2. Good
  BY <1>1, StartedSane DEF Init, Good
<1>3. Placed
  <2>1. DOMAIN object = Objects /\ freed \subseteq 1..made
    BY DEF Init
  <2>2. /\ place \in [Threads -> {"away", "loaded", "removed"}]
        /\ holds \in [Threads -> 0..made]
    BY DEF Init
  <2>3. made \in 0..MaxObjects /\ installed \in 0..made
    BY RoundAssumption DEF Init
  <2> QED
    BY <2>1, <2>2, <2>3 DEF Init, Placed
<1>4. Removed = {}
  BY DEF Init, Removed
<1>5. Alone
  BY <1>4 DEF Init, Alone
<1> QED
  BY <1>2, <1>3, <1>5, Parts

LEMMA MeasureInv ==
  ASSUME MeasurerInv, Measure
  PROVE  MeasurerInv'
<1>1. Placed /\ Good /\ Alone
  BY Parts
<1>2. made \in Nat /\ made + 1 \in Objects /\ made + 1 \in 0..MaxObjects /\ MaxObjects \in Nat
  BY <1>1, RoundAssumption DEF Measure, Placed, Objects
<1>3. PICK n \in Rounds : object' = [object EXCEPT ![made + 1] = Started(n)]
  BY DEF Measure
<1>4. Sane(Started(n))
  BY <1>3, RoundAssumption, StartedSane
<1>5. Good'
  BY <1>1, <1>3, <1>4 DEF Placed, Good, Measure
<1>6. Placed'
  BY <1>1, <1>2, <1>3 DEF Placed, Measure
<1>7. Removed' = Removed
  BY DEF Measure, Removed
<1>8. Alone'
  <2>1. SUFFICES ASSUME serial
                 PROVE  Alone'
    BY DEF Alone, Measure
  <2>2. /\ \A t \in Threads : holds[t] \in 0..made /\ holds[t] # made + 1
        /\ \A t \in Threads : place[t] # "loaded"
    BY <1>1, <1>2, <2>1 DEF Placed, Good, Alone, Measure
  <2>3. freed = (1..made) \ Removed
    BY <1>1, <1>2, <2>1 DEF Alone, Measure
  <2>4. made + 1 \notin 1..made /\ 1..(made + 1) = (1..made) \union {made + 1}
    BY <1>2
  <2>5. freed' = ((1..made') \ {installed'}) \ Removed'
    BY <1>7, <2>3, <2>4 DEF Measure
  <2> QED
    BY <1>1, <2>1, <2>2, <2>5 DEF Alone, Measure
<1> QED
  BY <1>5, <1>6, <1>8 DEF MeasurerInv, TypeOK, Placed, Good, Sane

LEMMA LoadInv ==
  ASSUME MeasurerInv, NEW t \in Threads, Load(t)
  PROVE  MeasurerInv'
<1>1. Placed /\ Good /\ Alone
  BY Parts
<1>2. Good'
  BY <1>1 DEF Placed, Good, Load
<1>3. Placed'
  BY <1>1 DEF Placed, Load
<1>4. Alone'
  <2>1. SUFFICES ASSUME serial
                 PROVE  Alone'
    BY DEF Alone, Load
  <2>2. \A u \in Threads : place[u] = "away"
    BY <2>1 DEF Load
  <2>3. Removed = {} /\ Removed' = {}
    BY <1>1, <2>2 DEF Removed, Load, Placed
  <2>4. \A u \in Threads : place'[u] # "away" => u = t
    BY <1>1, <2>2 DEF Load, Placed
  <2>5. place'[t] = "loaded" /\ holds'[t] = installed
    BY <1>1 DEF Load, Placed
  <2>6. freed' = ((1..made') \ {installed'}) \ Removed'
    BY <1>1, <2>1, <2>3 DEF Alone, Load
  <2>7. UNCHANGED <<serial, installed, misused>>
    BY DEF Load
  <2> QED
    BY <1>1, <2>1, <2>4, <2>5, <2>6, <2>7 DEF Alone
<1> QED
  BY <1>2, <1>3, <1>4 DEF MeasurerInv, TypeOK, Placed, Good, Sane

LEMMA UseInv ==
  ASSUME MeasurerInv, NEW t \in Threads, Use(t)
  PROVE  MeasurerInv'
<1>1. Placed /\ Good /\ Alone
  BY Parts
<1> DEFINE h == holds[t]
<1>2. h \in Objects
  BY <1>1, RoundAssumption DEF Placed, Good, Use, Objects
<1>3. \A k \in Objects : Sane(object'[k])
  <2>1. CASE t = "recorder"
    <3>1. PICK v \in Processed(object[h]) : object' = [object EXCEPT ![h] = v]
      BY <2>1 DEF Use
    <3>2. Sane(v)
      BY <1>1, <1>2, <3>1, ProcessedSane DEF Good, Use
    <3> QED
      BY <1>1, <3>1, <3>2 DEF Good, Placed
  <2>2. CASE t # "recorder"
    BY <1>1, <2>2 DEF Good, Use
  <2> QED
    BY <2>1, <2>2
<1>4. DOMAIN object' = Objects
  BY <1>1 DEF Placed, Use
<1>5. Good'
  BY <1>1, <1>3 DEF Placed, Good, Use
<1>6. Placed'
  BY <1>1, <1>4 DEF Placed, Use
<1>7. Alone'
  <2>1. SUFFICES ASSUME serial
                 PROVE  Alone'
    BY DEF Alone, Use
  <2>2. Removed = {} /\ Removed' = {}
    BY <1>1, <2>1 DEF Removed, Use, Placed, Alone
  <2>3. \A u \in Threads : place'[u] = "away"
    BY <1>1, <2>1 DEF Use, Placed, Alone
  <2>4. freed' = ((1..made') \ {installed'}) \ Removed'
    BY <1>1, <2>1, <2>2 DEF Alone, Use
  <2>5. UNCHANGED <<serial, misused>>
    BY DEF Use
  <2> QED
    BY <1>1, <2>1, <2>3, <2>4, <2>5 DEF Alone
<1> QED
  BY <1>5, <1>6, <1>7 DEF MeasurerInv, TypeOK, Placed, Good, Sane

LEMMA RemoveInv ==
  ASSUME MeasurerInv, NEW t \in Threads, Remove(t)
  PROVE  MeasurerInv'
<1>1. Placed /\ Good /\ Alone
  BY Parts
<1>2. Good'
  BY <1>1 DEF Placed, Good, Remove
<1>3. Placed'
  BY <1>1 DEF Placed, Remove, Uninstalled
<1>4. Alone'
  <2>1. SUFFICES ASSUME serial
                 PROVE  Alone'
    BY DEF Alone, Remove
  <2>2. \A u \in Threads : u # t => place[u] = "away"
    BY <1>1, <2>1 DEF Alone, Remove
  <2>3. holds[t] = installed /\ holds[t] # 0
    BY <1>1, <2>1 DEF Alone, Good, Remove
  <2>4. \A u \in Threads : place'[u] # "away" => u = t
    BY <1>1, <2>2 DEF Remove, Placed
  <2>5. place'[t] = "removed" /\ holds' = holds /\ installed' = 0
    BY <1>1 DEF Remove, Placed, Uninstalled
  <2>6. Removed = {}
    BY <2>2 DEF Removed, Remove
  <2>7. Removed' = {installed}
    BY <2>3, <2>4, <2>5 DEF Removed
  <2>8. freed' = ((1..made') \ {installed'}) \ Removed'
    <3>1. freed = (1..made) \ {installed}
      BY <1>1, <2>1, <2>6 DEF Alone
    <3>2. 0 \notin 1..made
      BY <1>1 DEF Placed
    <3> QED
      BY <2>5, <2>7, <3>1, <3>2 DEF Remove
  <2>9. UNCHANGED <<serial, misused>>
    BY DEF Remove
  <2> QED
    BY <1>1, <2>1, <2>3, <2>4, <2>5, <2>8, <2>9 DEF Alone
<1> QED
  BY <1>2, <1>3, <1>4 DEF MeasurerInv, TypeOK, Placed, Good, Sane

LEMMA DeleteInv ==
  ASSUME MeasurerInv, NEW t \in Threads, Delete(t)
  PROVE  MeasurerInv'
<1>1. Placed /\ Good /\ Alone
  BY Parts
<1> DEFINE h == holds[t]
<1>2. h \in 1..made
  BY <1>1, RoundAssumption DEF Placed, Good, Delete
<1>3. Sane(Started(0))
  BY StartedSane
<1>4. Good'
  BY <1>1, <1>3 DEF Placed, Good, Delete
<1>5. Placed'
  <2>1. DOMAIN object' = Objects
    BY <1>1 DEF Placed, Delete
  <2>2. freed' \subseteq 1..made'
    BY <1>1, <1>2 DEF Placed, Delete
  <2>3. /\ place' \in [Threads -> {"away", "loaded", "removed"}]
        /\ holds' \in [Threads -> 0..made']
    <3>1. 0 \in 0..made
      BY <1>1 DEF Placed
    <3> QED
      BY <1>1, <3>1 DEF Placed, Delete
  <2> QED
    BY <1>1, <2>1, <2>2, <2>3 DEF Placed, Delete
<1>6. Alone'
  <2>1. SUFFICES ASSUME serial
                 PROVE  Alone'
    BY DEF Alone, Delete
  <2>2. \A u \in Threads : u # t => place[u] = "away"
    BY <1>1, <2>1 DEF Alone, Delete
  <2>3. \A u \in Threads : place'[u] = "away"
    BY <1>1, <2>2 DEF Delete, Placed
  <2>4. Removed = {h} /\ h # installed
    BY <1>1, <2>1, <2>2 DEF Removed, Delete, Alone
  <2>5. Removed' = {}
    BY <2>3 DEF Removed
  <2>6. freed' = ((1..made') \ {installed'}) \ Removed'
    <3>1. freed = ((1..made) \ {installed}) \ {h} /\ freed' = freed \union {h}
      BY <1>1, <2>1, <2>4 DEF Alone, Delete
    <3> QED
      BY <1>2, <2>4, <2>5, <3>1 DEF Delete
  <2>7. UNCHANGED <<serial, misused>>
    BY DEF Delete
  <2> QED
    BY <1>1, <2>1, <2>3, <2>6, <2>7 DEF Alone
<1> QED
  BY <1>4, <1>5, <1>6 DEF MeasurerInv, TypeOK, Placed, Good, Sane

LEMMA MisuseInv ==
  ASSUME MeasurerInv, NEW t \in Threads, Misuse(t)
  PROVE  MeasurerInv'
<1>1. Placed /\ Good /\ Alone
  BY Parts
<1>2. Good'
  BY <1>1 DEF Good, Misuse
<1>3. Placed'
  BY <1>1 DEF Placed, Misuse
<1>4. ~serial
  <2>1. SUFFICES ASSUME serial
                 PROVE  FALSE
    OBVIOUS
  <2>2. place[t] = "loaded" \/ place[t] = "removed"
    BY <1>1 DEF Placed, Misuse
  <2>3. CASE place[t] = "loaded"
    BY <1>1, <2>1, <2>3 DEF Alone, Misuse
  <2>4. CASE place[t] = "removed"
    <3>1. holds[t] \in Removed
      BY <2>4 DEF Removed
    <3> QED
      BY <1>1, <2>1, <3>1 DEF Alone, Misuse
  <2> QED
    BY <2>2, <2>3, <2>4
<1>5. Alone'
  BY <1>4 DEF Alone, Misuse
<1> QED
  BY <1>2, <1>3, <1>5 DEF MeasurerInv, TypeOK, Placed, Good, Sane

\* The recorder is started or stopped: no pointer and no object changes.
LEMMA StartStopInv ==
  ASSUME MeasurerInv, StartRecording \/ StopRecording
  PROVE  MeasurerInv'
<1>1. Placed /\ Good /\ Alone
  BY Parts
<1>2. /\ UNCHANGED <<serial, installed, object, made, freed, place, holds, misused>>
      /\ recording' \in BOOLEAN
  BY DEF StartRecording, StopRecording
<1>3. Placed' /\ Good'
  BY <1>1, <1>2 DEF Placed, Good
<1>4. Alone'
  BY <1>1, <1>2 DEF Alone, Removed
<1> QED
  BY <1>3, <1>4 DEF MeasurerInv, TypeOK, Placed, Good, Sane

\* The callback leaves with what it had loaded.
LEMMA QueueFailsInv ==
  ASSUME MeasurerInv, QueueFails
  PROVE  MeasurerInv'
<1>1. Placed /\ Good /\ Alone
  BY Parts
<1>2. "recorder" \in Threads
  BY DEF Threads
<1>3. Good'
  BY <1>1, <1>2 DEF Placed, Good, QueueFails
<1>4. Placed'
  <2>1. 0 \in 0..made
    BY <1>1 DEF Placed
  <2> QED
    BY <1>1, <1>2, <2>1 DEF Placed, QueueFails
<1>5. Alone'
  <2>1. SUFFICES ASSUME serial
                 PROVE  Alone'
    BY DEF Alone, QueueFails
  <2>2. Removed = {} /\ Removed' = {}
    BY <1>1, <1>2, <2>1 DEF Removed, QueueFails, Placed, Alone
  <2>3. \A u \in Threads : place'[u] = "away"
    BY <1>1, <1>2, <2>1 DEF QueueFails, Placed, Alone
  <2>4. freed' = ((1..made') \ {installed'}) \ Removed'
    BY <1>1, <2>1, <2>2 DEF Alone, QueueFails
  <2>5. UNCHANGED <<serial, misused>>
    BY DEF QueueFails
  <2> QED
    BY <1>1, <2>1, <2>3, <2>4, <2>5 DEF Alone
<1> QED
  BY <1>3, <1>4, <1>5 DEF MeasurerInv, TypeOK, Placed, Good, Sane

LEMMA StutterInv ==
  ASSUME MeasurerInv, UNCHANGED vars
  PROVE  MeasurerInv'
BY DEF vars, MeasurerInv, TypeOK, Alone, Removed

LEMMA NextInv ==
  ASSUME MeasurerInv, [Next]_vars
  PROVE  MeasurerInv'
<1>1. CASE Measure
  BY <1>1, MeasureInv
<1>2. CASE Rest \/ UNCHANGED vars
  BY <1>2, StutterInv DEF Rest
<1>3. CASE \E t \in Threads : Callback(t)
  BY <1>3, LoadInv, UseInv, RemoveInv, DeleteInv, MisuseInv DEF Callback
<1>4. CASE StartRecording \/ StopRecording \/ QueueFails
  BY <1>4, StartStopInv, QueueFailsInv
<1> QED
  BY <1>1, <1>2, <1>3, <1>4 DEF Next

-----------------------------------------------------------------------------
(***************************************************************************)
(* Theorems.                                                               *)
(***************************************************************************)

\* MeasurerInv: the objects that setConfig starts and processInput changes stay
\* sane, and callbacks on one thread are alone with theirs.
THEOREM MeasurerInvHolds == Spec => []MeasurerInv
<1>1. Init => MeasurerInv
  BY InitInv
<1>2. MeasurerInv /\ [Next]_vars => MeasurerInv'
  BY NextInv
<1> QED
  BY <1>1, <1>2, PTL DEF Spec

\* TypeOK: objects, pointers and places keep their types.
THEOREM TypeCorrect == Spec => []TypeOK
<1>1. MeasurerInv => TypeOK
  BY DEF MeasurerInv
<1> QED
  BY <1>1, MeasurerInvHolds, PTL

\* RoundsPaid: mMeasureCount never exceeds the count Java asked for, so the
\* results fit in mRoundTripLatencyMs.
THEOREM RoundsFit == Spec => []RoundsPaid
<1>1. MeasurerInv => RoundsPaid
  BY DEF MeasurerInv, RoundsPaid, Sane, Paid
<1> QED
  BY <1>1, MeasurerInvHolds, PTL

\* ResultSound: the latency that processInput reports in the end, cut to whole
\* milliseconds, lies between the least and the greatest round it has stored, cut in
\* the same way, and these are within a factor of two.
THEOREM ResultsSound == Spec => []ResultSound
<1>1. MeasurerInv => ResultSound
  BY DEF MeasurerInv, ResultSound, Sane, Ranged
<1> QED
  BY <1>1, MeasurerInvHolds, PTL

\* OneThreadSafe: on one thread the hand over of mLatencyMeasurer neither
\* deletes an object twice nor uses one after that nor loses one.
THEOREM OneThreadNeverMisuses == Spec => []OneThreadSafe
<1>1. ASSUME MeasurerInv
      PROVE  OneThreadSafe
  <2>1. SUFFICES ASSUME serial
                 PROVE  OneThreadSafe
    BY DEF OneThreadSafe
  <2>2. Alone /\ ~misused
    BY <1>1, <2>1 DEF MeasurerInv, Alone
  <2>3. ASSUME \A t \in Threads : place[t] = "away"
        PROVE  freed = (1..made) \ {installed}
    <3>1. Removed = {}
      BY <2>3 DEF Removed
    <3> QED
      BY <2>1, <2>2, <3>1 DEF Alone
  <2> QED
    BY <2>2, <2>3 DEF OneThreadSafe
<1> QED
  BY <1>1, MeasurerInvHolds, PTL

\* FramesSpent: every frame that recorderCallback hands to processInput brings the
\* end of the measurement closer by its samples.
THEOREM FramesAreSpent == Spec => FramesSpent
<1> DEFINE k == holds["recorder"]
           Spent == Use("recorder") => Left(object'[k]) + SPF =< Left(object[k])
<1>1. ASSUME MeasurerInv, Use("recorder")
      PROVE  Left(object'[k]) + SPF =< Left(object[k])
  <2>1. Placed /\ Good /\ "recorder" \in Threads
    BY <1>1, Parts DEF Threads
  <2>2. k \in Objects
    BY <1>1, <2>1, RoundAssumption DEF Placed, Good, Use, Objects
  <2>3. PICK v \in Processed(object[k]) : object' = [object EXCEPT ![k] = v]
    BY <1>1 DEF Use
  <2>4. object'[k] = v /\ Sane(object[k]) /\ object[k].state # "passthrough"
    BY <1>1, <2>1, <2>2, <2>3 DEF Placed, Good, Use
  <2> QED
    BY <2>4, ProcessedLeft
<1>2. MeasurerInv => [Spent]_vars
  BY <1>1
<1>3. Spec => [][Spent]_vars
  BY <1>2, MeasurerInvHolds, PTL DEF Spec
<1> QED
  BY <1>3 DEF FramesSpent

\* RestBounded: no measurement has more before it than two and a half seconds for
\* each round that setConfig asked for, and half a second, up to a few frames.
THEOREM MeasurementIsBounded == Spec => []RestBounded
<1>1. MeasurerInv => RestBounded
  BY RestOfSane DEF MeasurerInv, RestBounded
<1> QED
  BY <1>1, MeasurerInvHolds, PTL

-----------------------------------------------------------------------------
(***************************************************************************)
(* No measurement is cut off.                                              *)
(***************************************************************************)

\* What is deleted has been taken out, and is over since.
LEMMA FinishedStep ==
  ASSUME MeasurerInv, Finished, Next
  PROVE  Finished'
<1>1. Placed /\ Good
  BY Parts
<1>2. CASE Measure
  <2>1. PICK n \in Rounds : object' = [object EXCEPT ![made + 1] = Started(n)]
    BY <1>2 DEF Measure
  <2>2. UNCHANGED <<place, holds, freed>>
    BY <1>2 DEF Measure
  <2>3. ASSUME NEW t \in Threads
        PROVE  object'[holds[t]] = object[holds[t]]
    <3>1. holds[t] \in 0..made /\ made \in Nat
      BY <1>1 DEF Placed
    <3>2. holds[t] # made + 1
      BY <3>1
    <3> QED
      BY <2>1, <3>2
  <2> QED
    BY <2>2, <2>3 DEF Finished
<1>3. CASE Rest
  BY <1>3 DEF Rest, vars, Finished
<1>4. ASSUME NEW t \in Threads, Load(t)
      PROVE  Finished'
  <2>1. UNCHANGED <<object, freed>> /\ place' = [place EXCEPT ![t] = "loaded"]
    BY <1>4 DEF Load
  <2>2. \A u \in Threads : place'[u] = "removed" => u # t /\ holds'[u] = holds[u]
    BY <1>1, <1>4, <2>1 DEF Load, Placed
  <2> QED
    BY <1>1, <2>1, <2>2 DEF Finished, Placed
<1>5. ASSUME NEW t \in Threads, Use(t)
      PROVE  Finished'
  <2>1. freed' = freed /\ place' = [place EXCEPT ![t] = "away"]
    BY <1>5 DEF Use
  <2>2. ASSUME NEW k \in Objects, k # holds[t]
        PROVE  object'[k] = object[k]
    <3>1. CASE t = "recorder"
      <4>1. PICK o \in Processed(object[holds[t]]) : object' = [object EXCEPT ![holds[t]] = o]
        BY <1>5, <3>1 DEF Use
      <4>2. k \in DOMAIN object
        BY <1>1 DEF Placed
      <4> QED
        BY <2>2, <4>1, <4>2
    <3> QED
      BY <1>5, <3>1 DEF Use
  <2>3. object[holds[t]].state # "passthrough" /\ holds[t] \notin freed
    BY <1>5 DEF Use
  <2>4. \A u \in Threads : place'[u] = "removed" =>
          u # t /\ place[u] = "removed" /\ holds'[u] = holds[u]
    BY <1>1, <1>5, <2>1 DEF Use, Placed
  <2>5. ASSUME NEW u \in Threads, place'[u] = "removed", holds'[u] \notin freed'
        PROVE  object'[holds'[u]].state = "passthrough"
    <3>1. place[u] = "removed" /\ holds'[u] = holds[u] /\ holds[u] \notin freed
      BY <2>1, <2>4, <2>5
    <3>2. object[holds[u]].state = "passthrough"
      BY <3>1 DEF Finished
    <3>3. holds[u] \in Objects
      BY <1>1, <3>1, RoundAssumption DEF Placed, Good, Objects
    <3>4. object'[holds[u]] = object[holds[u]]
      BY <2>2, <2>3, <3>2, <3>3
    <3> QED
      BY <3>1, <3>2, <3>4
  <2> QED
    BY <2>5 DEF Finished
<1>6. ASSUME NEW t \in Threads, Remove(t)
      PROVE  Finished'
  BY <1>1, <1>6 DEF Remove, Finished, Placed
<1>7. ASSUME NEW t \in Threads, Delete(t)
      PROVE  Finished'
  <2>1. freed' = freed \union {holds[t]} /\ place' = [place EXCEPT ![t] = "away"]
    BY <1>7 DEF Delete
  <2>2. \A k : k # holds[t] => object'[k] = object[k]
    BY <1>7 DEF Delete
  <2>3. \A u \in Threads : place'[u] = "removed" =>
          place[u] = "removed" /\ holds'[u] = holds[u]
    BY <1>1, <1>7, <2>1 DEF Delete, Placed
  <2> QED
    BY <2>1, <2>2, <2>3 DEF Finished
<1>8. ASSUME NEW t \in Threads, Misuse(t)
      PROVE  Finished'
  BY <1>8 DEF Misuse, Finished
<1>9. CASE StartRecording \/ StopRecording
  BY <1>9 DEF StartRecording, StopRecording, Finished
<1>10. CASE QueueFails
  BY <1>1, <1>10 DEF QueueFails, Finished, Placed
<1> QED
  BY <1>2, <1>3, <1>4, <1>5, <1>6, <1>7, <1>8, <1>9, <1>10 DEF Next, Callback

\* What is taken out is over, on one thread, since the callback still holds it.
LEMMA NotCutOff ==
  ASSUME MeasurerInv, Finished, Next, NEW k \in Objects
  PROVE  /\ k \in freed' \ freed => object[k].state = "passthrough"
         /\ serial /\ installed = k /\ installed' # k => object[k].state = "passthrough"
<1>1. Alone
  BY Parts
<1>2. CASE Measure
  BY <1>2 DEF Measure, Objects
<1>3. CASE Rest
  BY <1>3 DEF Rest, vars
<1>4. ASSUME NEW t \in Threads, Load(t) \/ Use(t) \/ Misuse(t)
      PROVE  UNCHANGED <<installed, freed>>
  BY <1>4 DEF Load, Use, Misuse
<1>5. ASSUME NEW t \in Threads, Remove(t)
      PROVE  freed' = freed /\ (serial /\ installed = k => object[k].state = "passthrough")
  BY <1>1, <1>5 DEF Remove, Alone
<1>6. ASSUME NEW t \in Threads, Delete(t)
      PROVE  /\ installed' = installed
             /\ k \in freed' \ freed => object[k].state = "passthrough"
  BY <1>6 DEF Delete, Finished
<1>7. CASE StartRecording \/ StopRecording \/ QueueFails
  BY <1>7 DEF StartRecording, StopRecording, QueueFails
<1> QED
  BY <1>2, <1>3, <1>4, <1>5, <1>6, <1>7 DEF Next, Callback

\* NeverCutOff: a measurement is deleted only when it is over, on one thread or two;
\* what two callbacks may collide on (452-470, 673-690) is a result, never a
\* measurement under way.  On one thread none is taken out early either.
THEOREM MeasurementsNotCutOff == Spec => NeverCutOff
<1>1. Init => Finished
  BY DEF Init, Finished
<1>2. MeasurerInv /\ Finished /\ [Next]_vars => Finished'
  <2>1. Finished /\ UNCHANGED vars => Finished'
    BY DEF vars, Finished
  <2> QED
    BY <2>1, FinishedStep
<1>3. MeasurerInv /\ Finished /\ [Next]_vars =>
        [\A k \in Objects :
           /\ k \in freed' \ freed => object[k].state = "passthrough"
           /\ serial /\ installed = k /\ installed' # k => object[k].state = "passthrough"]_vars
  BY NotCutOff
<1> QED
  BY <1>1, <1>2, <1>3, MeasurerInvHolds, PTL DEF Spec, NeverCutOff
=============================================================================
