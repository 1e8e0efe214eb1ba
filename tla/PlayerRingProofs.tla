--------------------------- MODULE PlayerRingProofs ---------------------------
(***************************************************************************)
(* RingInv is an invariant of PlayerRing, for every frame, ring, offset    *)
(* and scheduling; with it what is played and what the echo canceller is   *)
(* given.  The arithmetic of the ring comes first: positions less than a   *)
(* ring apart have different cells.                                        *)
(***************************************************************************)
EXTENDS PlayerRingInv, TLAPS

-----------------------------------------------------------------------------
(***************************************************************************)
(* Remainders.                                                             *)
(***************************************************************************)

\* The remainder is the rest of the division.
LEMMA Division ==
  ASSUME NEW a \in Nat, NEW S \in Int, S > 0
  PROVE  a \div S \in Nat /\ a % S \in 0..(S - 1) /\ a = (a \div S) * S + (a % S)
<1>1. a % S \in 0..(S - 1)
  OBVIOUS
<1>2. a \div S \in Int
  OBVIOUS
<1>3. a = (a \div S) * S + (a % S)
  OBVIOUS
<1>4. a \div S >= 0
  <2>1. SUFFICES ASSUME a \div S =< -1 PROVE FALSE
    BY <1>2
  <2>2. (-(a \div S)) * S >= S
    BY <2>1, <1>2
  <2> QED BY <2>2, <1>1, <1>2, <1>3
<1> QED BY <1>1, <1>2, <1>3, <1>4

\* A multiple of a positive number is no smaller.
LEMMA Multiple ==
  ASSUME NEW S \in Int, S > 0, NEW q \in Int, q >= 1
  PROVE  q * S >= S
OBVIOUS

\* Quotient and rest are unique.
LEMMA Unique ==
  ASSUME NEW S \in Int, S > 0, NEW q \in Int, NEW r \in Int, NEW u \in Int, NEW v \in Int,
         0 =< r, r < S, 0 =< v, v < S, q * S + r = u * S + v
  PROVE  q = u /\ r = v
<1>1. (q - u) * S = v - r
  OBVIOUS
<1>2. ~ (q - u >= 1)
  BY <1>1, Multiple
<1>3. ~ (u - q >= 1)
  <2>1. (u - q) * S = r - v
    OBVIOUS
  <2> QED BY <2>1, Multiple
<1> QED BY <1>1, <1>2, <1>3

\* A step that stays inside the ring.
LEMMA StepInside ==
  ASSUME NEW a \in Nat, NEW S \in Int, S > 0, NEW i \in Nat, (a % S) + i < S
  PROVE  ((a + i) % S) = (a % S) + i
<1>1. a = (a \div S) * S + (a % S) /\ a % S \in 0..(S - 1) /\ a \div S \in Nat
  BY Division
<1>2. (a + i) = ((a + i) \div S) * S + ((a + i) % S) /\ (a + i) % S \in 0..(S - 1) /\ (a + i) \div S \in Nat
  BY Division
<1> QED BY <1>1, <1>2, Unique

\* A step over the end of the ring.
LEMMA StepOver ==
  ASSUME NEW a \in Nat, NEW S \in Int, S > 0, NEW i \in Nat, i =< S, (a % S) + i >= S
  PROVE  ((a + i) % S) = (a % S) + i - S
<1>1. a = (a \div S) * S + (a % S) /\ a % S \in 0..(S - 1) /\ a \div S \in Nat
  BY Division
<1>2. (a + i) = ((a + i) \div S) * S + ((a + i) % S) /\ (a + i) % S \in 0..(S - 1) /\ (a + i) \div S \in Nat
  BY Division
<1>3. a + i = (a \div S + 1) * S + ((a % S) + i - S)
  BY <1>1
<1>4. ((a + i) \div S) * S + ((a + i) % S) = (a \div S + 1) * S + ((a % S) + i - S)
  BY <1>2, <1>3
<1>5. PICK u \in Int, v \in 0..(S - 1) : u = a \div S + 1 /\ v = (a % S) + i - S
  BY <1>1
<1>6. PICK q \in Int, r \in 0..(S - 1) : q = (a + i) \div S /\ r = (a + i) % S
  BY <1>2
<1>7. q * S + r = u * S + v
  BY <1>4, <1>5, <1>6
<1>8. r = v
  BY <1>7, Unique
<1> QED BY <1>5, <1>6, <1>8

\* Positions less than a ring apart have different cells.
LEMMA Apart ==
  ASSUME NEW a \in Nat, NEW b \in Nat, NEW S \in Int, S > 0, a < b, b < a + S
  PROVE  a % S # b % S
<1>1. a = (a \div S) * S + (a % S) /\ a % S \in 0..(S - 1) /\ a \div S \in Nat
  BY Division
<1>2. b = (b \div S) * S + (b % S) /\ b % S \in 0..(S - 1) /\ b \div S \in Nat
  BY Division
<1>3. SUFFICES ASSUME a % S = b % S PROVE FALSE
  OBVIOUS
<1>4. (b \div S - a \div S) * S = b - a
  BY <1>1, <1>2, <1>3
<1>5. b \div S - a \div S >= 1
  <2>1. SUFFICES ASSUME b \div S - a \div S =< 0 PROVE FALSE
    BY <1>1, <1>2
  <2>2. (a \div S - b \div S) * S >= 0
    BY <2>1, <1>1, <1>2
  <2> QED BY <2>2, <1>4, <1>1, <1>2
<1> QED BY <1>4, <1>5, <1>1, <1>2, Multiple

\* Two frames that begin in the last frame of a ring of size S are less than a
\* frame apart, or at least a ring less a frame.
LEMMA LastFrames ==
  ASSUME NEW a \in Nat, NEW b \in Nat, NEW S \in Int, S > 0, NEW F \in Nat,
         (a % S) + F > S, (b % S) + F > S, a + F =< b, b + F =< a + S
  PROVE  FALSE
<1>1. a = (a \div S) * S + (a % S) /\ a % S \in 0..(S - 1) /\ a \div S \in Nat
  BY Division
<1>2. b = (b \div S) * S + (b % S) /\ b % S \in 0..(S - 1) /\ b \div S \in Nat
  BY Division
<1>3. b - a = (b \div S - a \div S) * S + ((b % S) - (a % S))
  BY <1>1, <1>2
<1>4. CASE b \div S - a \div S >= 1
  BY <1>1, <1>2, <1>3, <1>4, Multiple
<1>5. CASE b \div S - a \div S =< 0
  <2>1. (a \div S - b \div S) * S >= 0
    BY <1>5, <1>1, <1>2
  <2> QED BY <2>1, <1>3, <1>1, <1>2
<1> QED BY <1>1, <1>2, <1>4, <1>5

\* TypeOK in parts.
NumType ==
  /\ write \in Nat /\ pending \in write..(write + 2 * SPF - 1)
  /\ recWrite \in Nat /\ recRead \in 0..recWrite /\ read \in Int
  /\ seenRec \in Nat \union {None} /\ seenPlay \in Nat \union {None}
  /\ offset \in Offsets \union {None} /\ sure \in Nat \union {None}
  /\ late \in 0..MaxLate

RingType ==
  ring \in [Cells -> Sample] /\ heard \in [Stream -> Sample] /\ missed \subseteq Nat

PlaceType ==
  /\ player \in {"idle", "before", "published", "shaped", "after"}
  /\ enc \in {"test", "align", "encode"}

-----------------------------------------------------------------------------
(***************************************************************************)
(* The ring.                                                               *)
(***************************************************************************)

\* Three frames or more.
LEMMA SizeFact == Size \in Int /\ Size > 0 /\ Size >= 3 * SPF
<1>1. Frames * SPF >= 3 * SPF
  <2>1. (Frames - 3) * SPF >= 0
    BY RingAssumption
  <2> QED
    BY <2>1, RingAssumption
<1> QED
  BY <1>1, RingAssumption DEF Size

\* The ring holds the offset, what may be recorded and played meanwhile, and
\* the two frames the decoder may be ahead.
LEMMA WindowFact ==
  ASSUME NEW l \in 0..MaxLate, NEW o \in Offsets
  PROVE  o \in Nat /\ o + MaxLag * SPF + l * SPF + 2 * SPF =< Size
<1>1. (MaxLate - l) * SPF >= 0
  BY RingAssumption
<1>2. l * SPF =< MaxLate * SPF
  BY <1>1, RingAssumption
<1>3. (MaxLag + MaxLate + 2) * SPF = MaxLag * SPF + MaxLate * SPF + 2 * SPF
  BY RingAssumption
<1> QED
  BY <1>2, <1>3, RingAssumption, SizeFact, WindowAssumption

\* The remainder of C is smaller than the ring, either way.
LEMMA RemainderRange ==
  ASSUME NEW a \in Int
  PROVE  /\ CRemainder(a) \in (1 - Size)..(Size - 1)
         /\ a >= 0 => CRemainder(a) = a % Size /\ a % Size \in 0..(Size - 1)
<1>1. CASE a >= 0
  <2>1. a % Size \in 0..(Size - 1)
    BY <1>1, SizeFact, Division
  <2> QED
    BY <1>1, <2>1, SizeFact DEF CRemainder
<1>2. CASE a < 0
  <2>1. (-a) % Size \in 0..(Size - 1)
    BY <1>2, SizeFact, Division
  <2> QED
    BY <1>2, <2>1, SizeFact DEF CRemainder
<1> QED
  BY <1>1, <1>2

\* A whole frame fits in the ring where a whole number of frames ends.
LEMMA FrameFits ==
  ASSUME NEW k \in Nat
  PROVE  ((k * SPF) % Size) + SPF =< Size
<1> DEFINE q == k \div Frames
           r == k % Frames
<1>1. Frames \in Int /\ Frames > 0
  BY RingAssumption
<1>2. k = q * Frames + r /\ q \in Nat /\ r \in 0..(Frames - 1)
  BY <1>1, Division
<1> HIDE DEF q, r
<1>3. k * SPF = q * Size + r * SPF
  BY <1>2, RingAssumption DEF Size
<1>4. r * SPF >= 0 /\ r * SPF + SPF =< Size /\ r * SPF \in Int
  <2>1. (Frames - 1 - r) * SPF >= 0
    BY <1>2, RingAssumption
  <2> QED
    BY <2>1, <1>2, RingAssumption DEF Size
<1>5. k * SPF \in Nat
  BY RingAssumption
<1>6. PICK u \in Nat, v \in 0..(Size - 1) :
        k * SPF = u * Size + v /\ v = (k * SPF) % Size
  BY <1>5, SizeFact, Division
<1>7. PICK w \in Int : w = r * SPF
  BY <1>4
<1>8. 0 =< w /\ w < Size
  BY <1>4, <1>7, SizeFact, RingAssumption
<1>9. v = w
  <2>1. u * Size + v = q * Size + w
    BY <1>3, <1>6, <1>7
  <2>2. q \in Int /\ 0 =< v /\ v < Size
    BY <1>2, <1>6, SizeFact
  <2> QED
    BY <1>8, <2>1, <2>2, SizeFact, Unique
<1> QED
  BY <1>4, <1>6, <1>7, <1>9

\* What a frame put at `pending` leaves alone, and what it puts there.
LEMMA FilledCells ==
  ASSUME RingType, pending \in Nat, NEW n \in 0..SPF, NEW f \in 0..SPF, f =< n
  PROVE  /\ Filled(n, f) \in [Cells -> Sample]
         /\ \A p \in Nat : p < pending /\ pending + SPF =< p + Size
              => Filled(n, f)[p % Size] = ring[p % Size]
         /\ \A j \in 0..(f - 1) : (pending + j) % Size >= SPF
              => Filled(n, f)[(pending + j) % Size].pos = pending + j
         /\ \A p \in Nat, i \in 0..(SPF - 1) :
              /\ p + SPF =< pending /\ pending + SPF =< p + Size
              /\ (p % Size) + i >= Size
              => Filled(n, f)[(p % Size) + i] = ring[(p % Size) + i]
<1> DEFINE at == pending % Size
<1>1. at \in 0..(Size - 1)
  BY SizeFact, Division
<1> HIDE DEF at
<1>2. Filled(n, f) = [c \in Cells |-> IF c \in at..(at + f - 1) THEN Decoded(pending + (c - at))
                    ELSE IF n < SPF /\ c \in (at + f)..(at + SPF - 1) THEN Blank ELSE ring[c]]
  BY DEF Filled, at
<1>3. Filled(n, f) \in [Cells -> Sample]
  <2>1. Blank \in Sample /\ \A c \in Cells : Decoded(pending + (c - at)) \in Sample
    BY <1>1, SizeFact, RingAssumption DEF Cells, Blank, Decoded, Sample
  <2> QED
    BY <1>2, <2>1 DEF RingType
<1>4. ASSUME NEW p \in Nat, p < pending, pending + SPF =< p + Size
      PROVE  Filled(n, f)[p % Size] = ring[p % Size]
  <2> DEFINE c == p % Size
  <2>1. c \in 0..(Size - 1)
    BY SizeFact, Division
  <2> HIDE DEF c
  <2>2. ASSUME c >= at, c =< at + SPF - 1
        PROVE  FALSE
    <3> DEFINE j == c - at
    <3>1. j \in Nat /\ j < SPF /\ c = at + j
      BY <1>1, <2>1, <2>2, RingAssumption
    <3> HIDE DEF j
    <3>2. (pending + j) % Size = at + j
      <4>1. (pending % Size) + j < Size
        BY <3>1, <2>1, SizeFact DEF at
      <4> QED
        BY <3>1, <4>1, SizeFact, StepInside DEF at
    <3>3. p < pending + j /\ pending + j < p + Size
      BY <3>1, <1>4, RingAssumption, SizeFact
    <3> QED
      BY <3>1, <3>2, <3>3, SizeFact, RingAssumption, Apart DEF c
  <2>3. c \in Cells
    BY <2>1, RingAssumption, SizeFact DEF Cells
  <2>4. c \notin at..(at + f - 1) /\ c \notin (at + f)..(at + SPF - 1)
    BY <2>1, <2>2, <1>1, RingAssumption
  <2> QED
    BY <1>2, <2>3, <2>4 DEF c
<1>5. ASSUME NEW j \in 0..(f - 1), (pending + j) % Size >= SPF
      PROVE  Filled(n, f)[(pending + j) % Size].pos = pending + j
  <2>1. CASE at + j >= Size
    <3>1. (pending + j) % Size = at + j - Size
      <4>1. j \in Nat /\ j =< Size /\ (pending % Size) + j >= Size
        BY <2>1, SizeFact, RingAssumption DEF at
      <4> QED
        BY <4>1, SizeFact, StepOver DEF at
    <3> QED
      BY <3>1, <1>5, <1>1, SizeFact, RingAssumption
  <2>2. CASE at + j < Size
    <3>1. (pending + j) % Size = at + j
      BY <2>2, SizeFact, RingAssumption, StepInside DEF at
    <3>2. at + j \in Cells /\ at + j \in at..(at + f - 1)
      BY <2>2, <1>1, RingAssumption, SizeFact DEF Cells
    <3>3. Filled(n, f)[at + j] = Decoded(pending + ((at + j) - at))
      BY <3>2, <1>2
    <3>4. pending + ((at + j) - at) = pending + j
      BY <1>1
    <3> QED
      BY <3>1, <3>3, <3>4 DEF Decoded
  <2> QED
    BY <2>1, <2>2, <1>1, SizeFact
<1>6. ASSUME NEW p \in Nat, NEW i \in 0..(SPF - 1), p + SPF =< pending,
             pending + SPF =< p + Size, (p % Size) + i >= Size
      PROVE  Filled(n, f)[(p % Size) + i] = ring[(p % Size) + i]
  <2> DEFINE c == (p % Size) + i
  <2>1. p % Size \in 0..(Size - 1)
    BY SizeFact, Division
  <2>2. c \in Cells
    BY <2>1, <1>6, RingAssumption, SizeFact DEF Cells
  <2>3. ~(at + SPF > Size)
    <3>1. SUFFICES ASSUME (pending % Size) + SPF > Size
                   PROVE  FALSE
      BY DEF at
    <3>2. (p % Size) + SPF > Size /\ SPF \in Nat
      BY <1>6, <2>1, SizeFact, RingAssumption
    <3> QED
      BY <3>1, <3>2, <1>6, SizeFact, LastFrames
  <2>4. c \in Int /\ c >= Size
    BY <1>6, <2>1, SizeFact
  <2> HIDE DEF c
  <2>5. c \notin at..(at + f - 1) /\ c \notin (at + f)..(at + SPF - 1)
    BY <2>3, <2>4, <1>1, RingAssumption, SizeFact
  <2>6. Filled(n, f)[c] = ring[c]
    BY <1>2, <2>2, <2>5
  <2> QED
    BY <2>6 DEF c
<1> QED
  BY <1>3, <1>4, <1>5, <1>6

-----------------------------------------------------------------------------
(***************************************************************************)
(* Every step keeps every part.                                            *)
(***************************************************************************)

\* The cells of a frame of the player are those of its positions.
LEMMA CellOfFrame ==
  ASSUME NEW k \in Nat, NEW b \in Nat, b = k * SPF, NEW p \in Nat, b =< p, p < b + SPF
  PROVE  (b % Size) + (p - b) = p % Size
<1> DEFINE i == p - b
<1>1. i \in Nat /\ i < SPF /\ p = b + i
  BY RingAssumption
<1> HIDE DEF i
<1>2. (b % Size) + SPF =< Size /\ (b % Size) \in Int
  BY FrameFits, SizeFact, Division
<1>3. (b % Size) + i < Size
  BY <1>2, <1>1, RingAssumption, SizeFact
<1>4. ((b + i) % Size) = (b % Size) + i
  BY <1>3, <1>1, SizeFact, StepInside
<1> QED
  BY <1>1, <1>4 DEF i

\* The frame that was published last.
LEMMA LastFrame ==
  ASSUME NumType, Aligned, write >= SPF
  PROVE  /\ write - SPF \in Nat
         /\ \E k \in Nat : write - SPF = k * SPF
<1>1. PICK k \in 0..write : write = k * SPF
  BY DEF Aligned
<1>2. k \in Nat /\ write \in Nat
  BY <1>1 DEF NumType
<1>3. k # 0
  BY <1>1, RingAssumption
<1>4. write - SPF = (k - 1) * SPF /\ k - 1 \in Nat
  BY <1>1, <1>2, <1>3, RingAssumption
<1> QED
  BY <1>2, <1>4, RingAssumption

\* The device is at most one frame behind mPlayerWrite.
LEMMA HandedFact ==
  ASSUME NumType, Published
  PROVE  Handed \in Nat /\ Handed =< write /\ write =< Handed + SPF
BY RingAssumption DEF NumType, Published, Handed

\* Completing the frame after the ring leaves the ring alone.
LEMMA FrontKept ==
  ASSUME NEW at \in Int
  PROVE  \A p \in Nat : Assembled(at)[p % Size] = ring[p % Size]
<1> SUFFICES ASSUME NEW p \in Nat
             PROVE  Assembled(at)[p % Size] = ring[p % Size]
  OBVIOUS
<1> DEFINE c == p % Size
<1>1. c \in 0..(Size - 1)
  BY SizeFact, Division
<1> HIDE DEF c
<1>2. c \in Cells /\ ~(c >= Size)
  BY <1>1, SizeFact, RingAssumption DEF Cells
<1>3. Assembled(at)[c] = ring[c]
  BY <1>2 DEF Assembled
<1> QED
  BY <1>3 DEF c

\* A frame put into the ring, decoded or silent.
LEMMA Appended ==
  ASSUME NumType, DecodeFrame \/ EmptyFrame
  PROVE  /\ \E n \in 0..SPF, f \in 0..SPF :
              /\ f =< n
              /\ ring' = Filled(n, f) /\ pending' = pending + n
              /\ missed' = missed \union (pending + f)..(pending + n - 1)
         /\ pending \in Nat /\ write \in Nat /\ write =< pending /\ pending < write + SPF
         /\ UNCHANGED <<write, player, heard, recWrite, encoding, late>>
         /\ Handed = write /\ Handed' = write
<1>1. pending \in Nat /\ write \in Nat /\ write =< pending /\ pending < write + SPF
  BY RingAssumption DEF DecodeFrame, EmptyFrame, Hungry, NumType
<1>2. UNCHANGED <<write, player, heard, recWrite, encoding, late>>
  BY DEF DecodeFrame, EmptyFrame
<1>3. player \in {"before", "after"}
  BY DEF DecodeFrame, EmptyFrame
<1>4. \E n \in 0..SPF, f \in 0..SPF : f =< n /\ Append(n, f)
  <2>1. CASE EmptyFrame
    <3>1. SPF \in 0..SPF
      BY RingAssumption
    <3> QED
      BY <2>1, <3>1 DEF EmptyFrame
  <2>2. CASE DecodeFrame
    <3>1. PICK n \in Kept : \E f \in Short \union {n} : f =< n /\ Append(n, f)
      BY <2>2 DEF DecodeFrame
    <3>2. PICK f \in Short \union {n} : f =< n /\ Append(n, f)
      BY <3>1
    <3>3. n \in 0..SPF /\ f \in 0..SPF
      BY <3>2, RingAssumption
    <3> QED
      BY <3>2, <3>3
  <2> QED
    BY <2>1, <2>2
<1> QED
  BY <1>1, <1>2, <1>3, <1>4 DEF Append, Advanced, Handed

\* What shaping a frame leaves alone: all positions, and every sample but those of the
\* frame.
LEMMA ShapedCells ==
  ASSUME NumType, RingType, Aligned, Published, Shape
  PROVE  /\ ring' \in [Cells -> Sample]
         /\ \A c \in Cells : ring'[c].pos = ring[c].pos /\ (c >= Size => ring'[c] = ring[c])
         /\ \A p \in Nat : p < write - SPF /\ p + Size >= write
              => ring'[p % Size] = ring[p % Size]
<1> DEFINE b == write - SPF
           at == b % Size
<1>1. PICK k \in Nat : b = k * SPF
  BY LastFrame DEF Published, Shape
<1>2. b \in Nat /\ write \in Nat /\ b + SPF = write
  BY LastFrame, RingAssumption DEF Published, Shape, NumType
<1> HIDE DEF b
<1>3. at \in 0..(Size - 1) /\ at + SPF =< Size
  BY <1>1, <1>2, FrameFits, SizeFact, Division
<1>4. ring' = [c \in Cells |->
                IF c \in at..(at + SPF - 1) THEN [ring[c] EXCEPT !.shaped = TRUE] ELSE ring[c]]
  BY DEF Shape, b
<1> HIDE DEF at
<1>5. ring' \in [Cells -> Sample]
  BY <1>4 DEF RingType, Sample
<1>6. ASSUME NEW c \in Cells
      PROVE  ring'[c].pos = ring[c].pos /\ (c >= Size => ring'[c] = ring[c])
  <2>1. ring[c] \in Sample
    BY DEF RingType
  <2>2. c >= Size => c \notin at..(at + SPF - 1)
    BY <1>3, SizeFact, RingAssumption
  <2>3. [ring[c] EXCEPT !.shaped = TRUE].pos = ring[c].pos
    BY <2>1 DEF Sample
  <2> QED
    BY <1>4, <2>2, <2>3
<1>7. ASSUME NEW p \in Nat, p < b, p + Size >= b + SPF
      PROVE  ring'[p % Size] = ring[p % Size]
  <2> DEFINE c == p % Size
  <2>1. c \in 0..(Size - 1)
    BY SizeFact, Division
  <2> HIDE DEF c
  <2>2. c \in Cells
    BY <2>1, SizeFact, RingAssumption DEF Cells
  <2>3. ASSUME c \in at..(at + SPF - 1)
        PROVE  FALSE
    <3> DEFINE j == c - at
    <3>1. j \in Nat /\ j < SPF /\ c = at + j
      BY <1>3, <2>1, <2>3, RingAssumption
    <3> HIDE DEF j
    <3>2. (b + j) % Size = at + j
      <4>1. (b % Size) + j < Size
        BY <3>1, <2>1, SizeFact DEF at
      <4> QED
        BY <1>2, <3>1, <4>1, SizeFact, StepInside DEF at
    <3>3. p < b + j /\ b + j < p + Size /\ b + j \in Nat
      BY <1>2, <1>7, <3>1, RingAssumption, SizeFact
    <3> QED
      BY <3>1, <3>2, <3>3, SizeFact, Apart DEF c
  <2> QED
    BY <1>4, <2>2, <2>3 DEF c
<1> QED
  BY <1>2, <1>5, <1>6, <1>7 DEF b

\* What the device is handed: the samples of the frame, from their cells.
LEMMA EnqueuedSamples ==
  ASSUME NumType, Aligned, Published, Enqueue
  PROVE  /\ write - SPF \in Nat /\ Handed = write - SPF /\ Handed' = write
         /\ \A p \in Stream : p < write - SPF => heard'[p] = heard[p]
         /\ \A p \in Stream : write - SPF =< p /\ p < write => heard'[p] = ring[p % Size]
<1> DEFINE b == write - SPF
<1>1. PICK k \in Nat : b = k * SPF
  BY LastFrame DEF Published, Enqueue
<1>2. b \in Nat /\ write \in Nat /\ b + SPF = write
  BY LastFrame, RingAssumption DEF Published, Enqueue, NumType
<1>3. Handed = b /\ Handed' = write
  BY DEF Enqueue, Handed
<1>4. heard' = [p \in Stream |->
                 IF p \in b..(write - 1) THEN ring[(b % Size) + (p - b)] ELSE heard[p]]
  BY DEF Enqueue, Queued
<1> HIDE DEF b
<1>5. \A p \in Stream : p \in Nat
  BY RingAssumption DEF Stream
<1>6. ASSUME NEW p \in Stream, p < b
      PROVE  heard'[p] = heard[p]
  BY <1>2, <1>4, <1>5, <1>6
<1>7. ASSUME NEW p \in Stream, b =< p, p < write
      PROVE  heard'[p] = ring[p % Size]
  <2>1. p \in b..(write - 1)
    BY <1>2, <1>5, <1>7
  <2>2. (b % Size) + (p - b) = p % Size
    BY <1>1, <1>2, <1>5, <1>7, CellOfFrame
  <2> QED
    BY <1>4, <2>1, <2>2
<1> QED
  BY <1>2, <1>3, <1>6, <1>7 DEF b

\* Where the reference is, against what has been played.
LEMMA Reach ==
  ASSUME NumType, Loaded, seenRec # None, seenPlay # None, NEW o \in Offsets
  PROVE  LET at == recRead - RecPlayOffset(o)
         IN  /\ at \in Int /\ at + SPF + o =< seenPlay /\ seenPlay =< write
             /\ write + 2 * SPF =< at + Size
<1>1. o \in Nat /\ o + MaxLag * SPF + late * SPF + 2 * SPF =< Size
  BY WindowFact DEF NumType
<1>2. MaxLag * SPF \in Int /\ late * SPF \in Int
  BY RingAssumption DEF NumType
<1>3. seenRec \in Nat /\ seenPlay \in Nat /\ recRead \in Nat /\ write \in Nat
  BY DEF NumType
<1>4. /\ recRead + SPF =< seenRec /\ seenRec =< recRead + MaxLag * SPF
      /\ seenPlay =< write /\ write =< seenPlay + late * SPF
  BY DEF Loaded
<1> QED
  BY <1>1, <1>2, <1>3, <1>4, RingAssumption, SizeFact DEF RecPlayOffset

\* The reference being encoded, against what has been played.
LEMMA InReach ==
  ASSUME NumType, Loaded, enc = "encode"
  PROVE  /\ offset \in Offsets /\ offset \in Nat /\ seenPlay \in Nat /\ sure \in Nat
         /\ read + SPF + offset =< seenPlay /\ seenPlay =< write /\ read + SPF =< write
         /\ write + 2 * SPF =< read + Size
         /\ seenPlay =< sure + SPF /\ sure =< Handed
<1>1. /\ seenRec # None /\ seenPlay # None /\ offset \in Offsets
      /\ read = recRead - RecPlayOffset(offset)
      /\ sure # None /\ seenPlay =< sure + SPF /\ sure =< Handed
  BY DEF Loaded
<1>2. offset \in Nat /\ seenPlay \in Nat /\ sure \in Nat /\ write \in Nat /\ read \in Int
  BY <1>1, RingAssumption DEF NumType
<1>3. /\ read + SPF + offset =< seenPlay /\ seenPlay =< write
      /\ write + 2 * SPF =< read + Size
  BY <1>1, Reach
<1> QED
  BY <1>1, <1>2, <1>3, RingAssumption

\* Where Locate puts the reference.
LEMMA Located ==
  ASSUME NumType, Loaded, Locate
  PROVE  /\ offset' \in Offsets /\ read' = recRead - RecPlayOffset(offset')
         /\ read' \in Int /\ read' + SPF =< write /\ write + 2 * SPF =< read' + Size
         /\ CRemainder(read') \in Int
<1>1. PICK o \in Offsets : read' = recRead - RecPlayOffset(o) /\ offset' = o
  BY DEF Locate
<1>2. /\ read' \in Int /\ read' + SPF + o =< seenPlay /\ seenPlay =< write
      /\ write + 2 * SPF =< read' + Size
  BY <1>1, Reach DEF Locate
<1>3. o \in Nat /\ seenPlay \in Nat /\ write \in Nat /\ SPF \in Nat
  BY RingAssumption DEF NumType, Locate
<1>4. read' + SPF =< write
  <2>1. PICK r \in Int : r = read'
    BY <1>2
  <2>2. r + SPF + o =< seenPlay /\ seenPlay =< write
    BY <1>2, <2>1
  <2>3. r + SPF =< write
    BY <1>3, <2>2
  <2> QED
    BY <2>1, <2>3
<1> QED
  BY <1>1, <1>2, <1>4, SizeFact, RemainderRange

\* The counts.
LEMMA NumTypeStep ==
  ASSUME NumType, PlaceType, Loaded, Published, Next
  PROVE  NumType'
<1>1. CASE DecodeFrame \/ EmptyFrame
  <2>1. PICK n \in 0..SPF : pending' = pending + n
    BY <1>1, Appended
  <2>2. /\ pending \in Nat /\ write \in Nat /\ write =< pending /\ pending < write + SPF
        /\ UNCHANGED <<write, recWrite, encoding, late>>
    BY <1>1, Appended
  <2>3. pending' \in write'..(write' + 2 * SPF - 1)
    BY <2>1, <2>2, RingAssumption
  <2> QED
    BY <2>2, <2>3 DEF NumType, encoding
<1>2. CASE Publish
  BY <1>2, RingAssumption DEF Publish, NumType, None, encoding
<1>3. CASE RecorderCallback
  BY <1>3, RingAssumption DEF RecorderCallback, NumType, None, playing, encoding
<1>4. CASE Test \/ LoadRecorder \/ LoadPlayer
  BY <1>4, RingAssumption DEF Test, LoadRecorder, LoadPlayer, NumType, None, playing
<1>5. CASE Locate
  <2>1. read' \in Int /\ offset' \in Offsets
    BY <1>5, Located
  <2>2. sure' \in Nat
    BY <1>5, HandedFact DEF Locate
  <2> QED
    BY <1>5, <2>1, <2>2 DEF Locate, NumType
<1>6. CASE Encode
  <2>1. recRead + SPF =< recWrite
    BY <1>6 DEF Encode, Loaded
  <2> QED
    BY <1>6, <2>1, RingAssumption DEF Encode, NumType, playing, None
<1>7. CASE Callback \/ Shape \/ Enqueue \/ Return \/ Wait
  BY <1>7 DEF Callback, Shape, Enqueue, Return, Wait, NumType, vars, playing, encoding
<1> QED
  BY <1>1, <1>2, <1>3, <1>4, <1>5, <1>6, <1>7 DEF Next, PlayerStep, EncoderStep

\* Where the threads are.
LEMMA PlaceTypeStep ==
  ASSUME PlaceType, Next
  PROVE  PlaceType'
<1>1. CASE Callback \/ DecodeFrame \/ EmptyFrame \/ Publish \/ Shape \/ Enqueue \/ Return
  BY <1>1 DEF Callback, DecodeFrame, EmptyFrame, Publish, Shape, Enqueue, Return,
    PlaceType, encoding
<1>2. CASE Test \/ Wait \/ LoadRecorder \/ LoadPlayer \/ Locate \/ Encode
  BY <1>2 DEF Test, Wait, LoadRecorder, LoadPlayer, Locate, Encode, PlaceType, vars,
    playing, encoding
<1>3. CASE RecorderCallback
  BY <1>3 DEF RecorderCallback, PlaceType, playing, encoding
<1> QED
  BY <1>1, <1>2, <1>3 DEF Next, PlayerStep, EncoderStep

\* The samples.
LEMMA RingTypeStep ==
  ASSUME NumType, RingType, Aligned, Published, Next
  PROVE  RingType'
<1>1. CASE DecodeFrame \/ EmptyFrame
  <2>1. PICK n \in 0..SPF, f \in 0..SPF :
          /\ f =< n
          /\ ring' = Filled(n, f)
          /\ missed' = missed \union (pending + f)..(pending + n - 1)
    BY <1>1, Appended
  <2>2. heard' = heard /\ pending \in Nat
    BY <1>1, Appended
  <2>3. ring' \in [Cells -> Sample]
    BY <2>1, <2>2, FilledCells
  <2>4. missed' \subseteq Nat
    BY <2>1, <2>2 DEF RingType
  <2> QED
    BY <2>2, <2>3, <2>4 DEF RingType
<1>2. CASE Shape
  <2>1. ring' \in [Cells -> Sample]
    BY <1>2, ShapedCells
  <2> QED
    BY <1>2, <2>1 DEF Shape, RingType
<1>3. CASE Enqueue
  <2> DEFINE b == write - SPF
  <2>1. PICK k \in Nat : b = k * SPF
    BY <1>3, LastFrame DEF Published, Enqueue
  <2>2. b \in Nat /\ write \in Nat /\ b + SPF = write
    BY <1>3, LastFrame, RingAssumption DEF Published, Enqueue, NumType
  <2>3. heard' = [p \in Stream |->
                   IF p \in b..(write - 1) THEN ring[(b % Size) + (p - b)] ELSE heard[p]]
    BY <1>3 DEF Enqueue, Queued
  <2>4. b % Size \in 0..(Size - 1)
    BY <2>2, SizeFact, Division
  <2> HIDE DEF b
  <2>5. \A p \in b..(write - 1) : (b % Size) + (p - b) \in Cells
    BY <2>2, <2>4, SizeFact, RingAssumption DEF Cells
  <2>6. heard' \in [Stream -> Sample]
    BY <2>3, <2>5 DEF RingType
  <2> QED
    BY <1>3, <2>6 DEF Enqueue, RingType
<1>4. CASE Locate
  <2>1. \A c \in Cells : c >= Size => c - Size \in Cells
    BY SizeFact, RingAssumption DEF Cells
  <2>2. ring' \in [Cells -> Sample]
    BY <1>4, <2>1 DEF Locate, Assembled, RingType
  <2> QED
    BY <1>4, <2>2 DEF Locate, RingType
<1>5. CASE Callback \/ Publish \/ Return \/ RecorderCallback \/ Test \/ Wait
          \/ LoadRecorder \/ LoadPlayer \/ Encode
  BY <1>5 DEF Callback, Publish, Return, RecorderCallback, Test, Wait, LoadRecorder,
    LoadPlayer, Encode, RingType, vars, playing
<1> QED
  BY <1>1, <1>2, <1>3, <1>4, <1>5 DEF Next, PlayerStep, EncoderStep

\* The player goes by whole frames.
LEMMA AlignedStep ==
  ASSUME NumType, Aligned, Next
  PROVE  Aligned'
<1>1. CASE Publish
  <2>1. PICK k \in 0..write : write = k * SPF
    BY DEF Aligned
  <2>2. write' = (k + 1) * SPF /\ k + 1 \in 0..write' /\ write' =< MaxFrames * SPF
    BY <1>1, <2>1, RingAssumption DEF Publish, NumType
  <2> QED
    BY <2>2 DEF Aligned
<1>2. CASE Callback \/ DecodeFrame \/ EmptyFrame \/ Shape \/ Enqueue \/ Return
          \/ RecorderCallback \/ Test \/ Wait \/ LoadRecorder \/ LoadPlayer \/ Locate
          \/ Encode
  BY <1>2 DEF Callback, DecodeFrame, EmptyFrame, Shape, Enqueue, Return,
    RecorderCallback, Test, Wait, LoadRecorder, LoadPlayer, Locate, Encode, Aligned,
    vars, playing
<1> QED
  BY <1>1, <1>2 DEF Next, PlayerStep, EncoderStep

\* A frame is shaped after it has been published.
LEMMA PublishedStep ==
  ASSUME NumType, Published, Next
  PROVE  Published'
<1>1. CASE Publish
  BY <1>1, RingAssumption DEF Publish, NumType, Published
<1>2. CASE Callback \/ DecodeFrame \/ EmptyFrame \/ Shape \/ Enqueue \/ Return
          \/ RecorderCallback \/ Test \/ Wait \/ LoadRecorder \/ LoadPlayer \/ Locate
          \/ Encode
  BY <1>2 DEF Callback, DecodeFrame, EmptyFrame, Shape, Enqueue, Return,
    RecorderCallback, Test, Wait, LoadRecorder, LoadPlayer, Locate, Encode, Published,
    vars, playing
<1> QED
  BY <1>1, <1>2 DEF Next, PlayerStep, EncoderStep

\* What the device has been handed, where no frame is appended or handed over.
LEMMA HandedKept ==
  ASSUME NumType, \/ Callback \/ Publish \/ Shape \/ Return \/ RecorderCallback \/ Test
                  \/ Wait \/ LoadRecorder \/ LoadPlayer \/ Locate \/ Encode
  PROVE  Handed' = Handed
<1>1. CASE Publish
  BY <1>1, RingAssumption DEF Publish, Handed, NumType
<1>2. CASE Callback \/ Shape \/ Return \/ RecorderCallback \/ Test \/ Wait
          \/ LoadRecorder \/ LoadPlayer \/ Locate \/ Encode
  BY <1>2 DEF Callback, Shape, Return, RecorderCallback, Test, Wait, LoadRecorder,
    LoadPlayer, Locate, Encode, Handed, vars, playing
<1> QED
  BY <1>1, <1>2

\* What was queued stays.
LEMMA RememberedStep ==
  ASSUME NumType, RingType, Aligned, Published, Loaded, Remembered, Next
  PROVE  Remembered'
<1>1. CASE DecodeFrame \/ EmptyFrame
  <2>1. PICK n \in 0..SPF, f \in 0..SPF : f =< n /\ ring' = Filled(n, f)
    BY <1>1, Appended
  <2>2. /\ pending \in Nat /\ write \in Nat /\ write =< pending /\ pending < write + SPF
        /\ write' = write /\ heard' = heard /\ Handed = write /\ Handed' = write
    BY <1>1, Appended
  <2> SUFFICES ASSUME NEW p \in Stream, p < write, p + Size >= write + 2 * SPF
               PROVE  ring'[p % Size] = heard[p]
    BY <2>2 DEF Remembered
  <2>3. p \in Nat /\ pending + SPF =< p + Size /\ p < pending
    BY <2>2, SizeFact, RingAssumption DEF Stream
  <2>4. Filled(n, f)[p % Size] = ring[p % Size]
    BY <2>1, <2>2, <2>3, FilledCells
  <2> QED
    BY <2>1, <2>2, <2>4 DEF Remembered
<1>2. CASE Publish
  <2>1. write' = write + SPF /\ ring' = ring /\ heard' = heard /\ write \in Nat
    BY <1>2 DEF Publish, NumType
  <2>2. Handed' = Handed
    BY <1>2, HandedKept
  <2> SUFFICES ASSUME NEW p \in Stream, p < Handed, p + Size >= write + SPF + 2 * SPF
               PROVE  ring[p % Size] = heard[p]
    BY <2>1, <2>2 DEF Remembered
  <2>3. p + Size >= write + 2 * SPF
    BY <2>1, SizeFact, RingAssumption DEF Stream
  <2> QED
    BY <2>3 DEF Remembered
<1>3. CASE Shape
  <2>1. write' = write /\ heard' = heard /\ write \in Nat /\ Handed' = Handed /\ Handed = write - SPF
    BY <1>3, HandedKept DEF Shape, NumType, Handed
  <2> SUFFICES ASSUME NEW p \in Stream, p < write - SPF, p + Size >= write + 2 * SPF
               PROVE  ring'[p % Size] = heard[p]
    BY <2>1 DEF Remembered
  <2>2. p \in Nat /\ p + Size >= write
    BY <2>1, SizeFact, RingAssumption DEF Stream
  <2>3. ring'[p % Size] = ring[p % Size]
    BY <1>3, <2>2, ShapedCells
  <2> QED
    BY <2>1, <2>3 DEF Remembered
<1>4. CASE Enqueue
  <2>1. write' = write /\ ring' = ring /\ write \in Nat
    BY <1>4 DEF Enqueue, NumType
  <2>2. write - SPF \in Nat /\ Handed = write - SPF /\ Handed' = write
    BY <1>4, EnqueuedSamples
  <2> SUFFICES ASSUME NEW p \in Stream, p < write, p + Size >= write + 2 * SPF
               PROVE  ring[p % Size] = heard'[p]
    BY <2>1, <2>2 DEF Remembered
  <2>3. CASE p < write - SPF
    <3>1. heard'[p] = heard[p]
      BY <1>4, <2>3, EnqueuedSamples
    <3> QED
      BY <2>2, <2>3, <3>1 DEF Remembered
  <2>4. CASE write - SPF =< p
    BY <1>4, <2>4, EnqueuedSamples
  <2> QED
    BY <2>1, <2>2, <2>3, <2>4, RingAssumption DEF Stream
<1>5. CASE Locate
  <2>1. write' = write /\ heard' = heard /\ Handed' = Handed
    BY <1>5, HandedKept DEF Locate
  <2>2. \A p \in Nat : ring'[p % Size] = ring[p % Size]
    BY <1>5, Located, FrontKept DEF Locate
  <2> QED
    BY <2>1, <2>2, RingAssumption DEF Remembered, Stream
<1>6. CASE Callback \/ Return \/ RecorderCallback \/ Test \/ Wait \/ LoadRecorder
          \/ LoadPlayer \/ Encode
  <2>1. Handed' = Handed
    BY <1>6, HandedKept
  <2>2. UNCHANGED <<ring, write, heard>>
    BY <1>6 DEF Callback, Return, RecorderCallback, Test, Wait, LoadRecorder,
      LoadPlayer, Encode, vars, playing
  <2> QED
    BY <2>1, <2>2 DEF Remembered
<1> QED
  BY <1>1, <1>2, <1>3, <1>4, <1>5, <1>6 DEF Next, PlayerStep, EncoderStep

\* What is decoded ahead is there.
LEMMA DecodedAheadStep ==
  ASSUME NumType, RingType, Aligned, Published, Loaded, DecodedAhead, Next
  PROVE  DecodedAhead'
<1>0. Handed \in Nat /\ Handed =< write /\ write =< Handed + SPF /\ write \in Nat /\ pending \in Nat
  BY HandedFact, RingAssumption DEF NumType
<1>1. CASE DecodeFrame \/ EmptyFrame
  <2>1. PICK n \in 0..SPF, f \in 0..SPF :
          /\ f =< n
          /\ ring' = Filled(n, f) /\ pending' = pending + n
          /\ missed' = missed \union (pending + f)..(pending + n - 1)
    BY <1>1, Appended
  <2>2. /\ write =< pending /\ pending < write + SPF
        /\ Handed = write /\ Handed' = write
    BY <1>1, Appended
  <2> SUFFICES ASSUME NEW p \in write..(pending + n - 1), p % Size >= SPF, p \notin missed'
               PROVE  ring'[p % Size].pos = p
    <3>1. pending' = pending + n /\ Handed' = write
      BY <2>1, <2>2
    <3>2. pending' - 1 = pending + n - 1
      BY <1>0, <3>1
    <3> QED
      BY <3>1, <3>2 DEF DecodedAhead
  <2>3. CASE p < pending
    <3>1. p \in Nat /\ pending + SPF =< p + Size
      BY <1>0, <2>2, <2>3, SizeFact, RingAssumption
    <3>2. Filled(n, f)[p % Size] = ring[p % Size]
      BY <1>0, <2>1, <2>3, <3>1, FilledCells
    <3>3. p \in Handed..(pending - 1) /\ p \notin missed
      BY <1>0, <2>1, <2>2, <2>3
    <3> QED
      BY <2>1, <3>2, <3>3 DEF DecodedAhead
  <2>4. CASE p >= pending
    <3> DEFINE j == p - pending
    <3>1. p \notin (pending + f)..(pending + n - 1)
      BY <2>1
    <3>2. j \in 0..(f - 1) /\ p = pending + j
      BY <1>0, <2>4, <3>1
    <3> HIDE DEF j
    <3>3. Filled(n, f)[(pending + j) % Size].pos = pending + j
      BY <1>0, <2>1, <3>2, FilledCells
    <3> QED
      BY <2>1, <3>2, <3>3
  <2> QED
    BY <1>0, <2>3, <2>4
<1>2. CASE Shape
  <2>1. UNCHANGED <<pending, missed>> /\ Handed' = Handed
    BY <1>2, HandedKept DEF Shape
  <2>2. \A p \in Nat : ring'[p % Size].pos = ring[p % Size].pos
    <3>1. \A p \in Nat : p % Size \in Cells
      BY SizeFact, Division, RingAssumption DEF Cells
    <3> QED
      BY <1>2, <3>1, ShapedCells
  <2>3. \A p \in Handed..(pending - 1) : p \in Nat
    BY <1>0
  <2> QED
    BY <2>1, <2>2, <2>3 DEF DecodedAhead
<1>3. CASE Enqueue
  <2>1. UNCHANGED <<ring, pending, missed>> /\ Handed' = write
    BY <1>3, EnqueuedSamples DEF Enqueue
  <2>2. \A p \in Handed'..(pending - 1) : p \in Handed..(pending - 1)
    BY <1>0, <2>1
  <2> QED
    BY <2>1, <2>2 DEF DecodedAhead
<1>4. CASE Locate
  <2>1. UNCHANGED <<pending, missed>> /\ Handed' = Handed
    BY <1>4, HandedKept DEF Locate
  <2>2. \A p \in Nat : ring'[p % Size] = ring[p % Size]
    BY <1>4, Located, FrontKept DEF Locate
  <2>3. \A p \in Handed..(pending - 1) : p \in Nat
    BY <1>0
  <2> QED
    BY <2>1, <2>2, <2>3 DEF DecodedAhead
<1>5. CASE Callback \/ Publish \/ Return \/ RecorderCallback \/ Test \/ Wait
          \/ LoadRecorder \/ LoadPlayer \/ Encode
  <2>1. Handed' = Handed
    BY <1>5, HandedKept
  <2>2. UNCHANGED <<ring, pending, missed>>
    BY <1>5 DEF Callback, Publish, Return, RecorderCallback, Test, Wait, LoadRecorder,
      LoadPlayer, Encode, vars, playing
  <2> QED
    BY <2>1, <2>2 DEF DecodedAhead
<1> QED
  BY <1>1, <1>2, <1>3, <1>4, <1>5 DEF Next, PlayerStep, EncoderStep

\* What is heard is its own, but in the first frame of a lap and where the decoder
\* has missed it.
LEMMA StaleStep ==
  ASSUME NumType, RingType, Aligned, Published, DecodedAhead, OnlyLapHeadStale, Next
  PROVE  OnlyLapHeadStale'
<1>0. /\ Handed \in Nat /\ Handed =< write /\ write \in Nat /\ write =< pending
      /\ pending \in Nat
  BY HandedFact, RingAssumption DEF NumType
<1>1. CASE Enqueue
  <2>1. Handed = write - SPF /\ Handed' = write /\ missed' = missed
    BY <1>1, EnqueuedSamples DEF Enqueue
  <2> SUFFICES ASSUME NEW p \in Stream, p < write, heard'[p].pos # p, p \notin missed
               PROVE  p % Size < SPF
    BY <2>1 DEF OnlyLapHeadStale
  <2>2. p \in Nat /\ p % Size \in Int
    BY SizeFact, RingAssumption, Division DEF Stream
  <2>3. CASE p < write - SPF
    <3>1. heard'[p] = heard[p]
      BY <1>1, <2>3, EnqueuedSamples
    <3> QED
      BY <2>1, <2>3, <3>1 DEF OnlyLapHeadStale
  <2>4. CASE write - SPF =< p
    <3>1. heard'[p] = ring[p % Size]
      BY <1>1, <2>4, EnqueuedSamples
    <3>2. p \in Handed..(pending - 1)
      BY <1>0, <2>1, <2>2, <2>4
    <3>3. ~(p % Size >= SPF)
      BY <3>1, <3>2 DEF DecodedAhead
    <3> QED
      BY <2>2, <3>3, RingAssumption
  <2> QED
    BY <1>0, <2>2, <2>3, <2>4, RingAssumption
<1>2. CASE DecodeFrame \/ EmptyFrame
  <2>1. heard' = heard /\ Handed' = Handed /\ missed \subseteq missed'
    BY <1>2, Appended
  <2> QED
    BY <2>1 DEF OnlyLapHeadStale
<1>3. CASE Callback \/ Publish \/ Shape \/ Return \/ RecorderCallback \/ Test \/ Wait
          \/ LoadRecorder \/ LoadPlayer \/ Locate \/ Encode
  <2>1. Handed' = Handed
    BY <1>3, HandedKept
  <2>2. UNCHANGED <<heard, missed>>
    BY <1>3 DEF Callback, Publish, Shape, Return, RecorderCallback, Test, Wait,
      LoadRecorder, LoadPlayer, Locate, Encode, vars, playing
  <2> QED
    BY <2>1, <2>2 DEF OnlyLapHeadStale
<1> QED
  BY <1>1, <1>2, <1>3 DEF Next, PlayerStep, EncoderStep

\* What the encoder has loaded.
LEMMA LoadedStep ==
  ASSUME NumType, PlaceType, Aligned, Published, Loaded, Next
  PROVE  Loaded'
<1>0. /\ Handed \in Nat /\ Handed =< write /\ write =< Handed + SPF /\ write \in Nat
  BY HandedFact DEF NumType
<1>1. CASE Publish
  <2>1. (late + 1) * SPF = late * SPF + SPF /\ late * SPF \in Int
    BY RingAssumption DEF NumType
  <2>2. seenPlay # None => seenPlay =< write' /\ write' =< seenPlay + late' * SPF
    <3>1. SUFFICES ASSUME seenPlay # None
                   PROVE  seenPlay =< write' /\ write' =< seenPlay + late' * SPF
      OBVIOUS
    <3>2. late' = late + 1 /\ write' = write + SPF
      BY <1>1, <3>1 DEF Publish, Loaded
    <3>3. seenPlay \in Nat /\ write \in Nat /\ seenPlay =< write /\ write =< seenPlay + late * SPF
      BY <3>1 DEF Loaded, NumType
    <3> QED
      BY <2>1, <3>2, <3>3, RingAssumption
  <2>3. UNCHANGED <<recWrite, encoding>>
    BY <1>1 DEF Publish
  <2>4. Handed' = Handed
    BY <1>1, HandedKept
  <2> QED
    BY <2>2, <2>3, <2>4 DEF Loaded, encoding, RecPlayOffset
<1>2. CASE RecorderCallback
  <2>1. UNCHANGED <<playing, encoding, late>> /\ Handed' = Handed
    BY <1>2, HandedKept DEF RecorderCallback
  <2>2. recWrite' = recWrite + SPF /\ recWrite' =< recRead + MaxLag * SPF
    BY <1>2 DEF RecorderCallback
  <2>3. enc # "test" => recRead + SPF =< recWrite'
    BY <2>2, RingAssumption DEF Loaded, NumType
  <2> QED
    BY <2>1, <2>2, <2>3 DEF Loaded, playing, encoding, RecPlayOffset
<1>3. CASE Test
  <2>1. /\ UNCHANGED <<write, recWrite, recRead, read, seenRec, seenPlay>> /\ enc = "test"
        /\ recRead + SPF =< recWrite /\ enc' = "align"
    BY <1>3 DEF Test, playing
  <2>2. seenRec = None /\ seenPlay = None
    BY <2>1 DEF Loaded
  <2> QED
    BY <2>1, <2>2 DEF Loaded
<1>4. CASE LoadRecorder
  <2>1. /\ UNCHANGED <<write, recWrite, recRead, read, enc, seenPlay, late>>
        /\ enc = "align" /\ seenRec' = recWrite
    BY <1>4 DEF LoadRecorder, playing
  <2> QED
    BY <2>1 DEF Loaded
<1>5. CASE LoadPlayer
  <2>1. late * SPF >= 0 /\ late * SPF \in Int
    BY RingAssumption DEF NumType
  <2>2. seenPlay' = write /\ write' = write /\ late' = late
    BY <1>5 DEF LoadPlayer, playing
  <2>3. write' =< seenPlay' + late' * SPF /\ seenPlay' =< write'
    BY <1>0, <2>1, <2>2
  <2>4. UNCHANGED <<recWrite, recRead, read, enc, seenRec>> /\ enc = "align"
    BY <1>5 DEF LoadPlayer
  <2> QED
    BY <2>3, <2>4 DEF Loaded
<1>6. CASE Locate
  <2>1. /\ UNCHANGED <<write, recWrite, recRead, seenRec, seenPlay, late>>
        /\ enc = "align" /\ enc' = "encode" /\ seenRec # None /\ seenPlay # None
        /\ sure' = Handed /\ Handed' = Handed
    BY <1>6, HandedKept DEF Locate
  <2>2. offset' \in Offsets /\ read' = recRead - RecPlayOffset(offset')
    BY <1>6, Located
  <2>3. RecPlayOffset(offset') = RecPlayOffset(offset)'
    BY <2>1 DEF RecPlayOffset
  <2>4. sure' # None /\ seenPlay =< sure' + SPF /\ sure' =< Handed'
    <3>1. seenPlay \in Nat /\ seenPlay =< write
      BY <2>1 DEF Loaded, NumType
    <3> QED
      BY <1>0, <2>1, <3>1, RingAssumption DEF None
  <2> QED
    BY <2>1, <2>2, <2>3, <2>4 DEF Loaded
<1>7. CASE Encode
  <2>1. enc' = "test" /\ seenRec' = None /\ seenPlay' = None
        /\ recRead' = recRead + SPF /\ recWrite' = recWrite
    BY <1>7 DEF Encode
  <2>2. recWrite' =< recRead' + MaxLag * SPF
    <3>1. MaxLag * SPF \in Int
      BY RingAssumption
    <3> QED
      BY <2>1, <3>1, RingAssumption DEF Loaded, NumType
  <2> QED
    BY <2>1, <2>2 DEF Loaded
<1>8. CASE Callback \/ DecodeFrame \/ EmptyFrame \/ Shape \/ Enqueue \/ Return \/ Wait
  <2>1. UNCHANGED <<write, recWrite, encoding, late>>
    BY <1>8 DEF Callback, DecodeFrame, EmptyFrame, Shape, Enqueue, Return, Wait, vars,
      playing
  <2>2. Handed' \in Int /\ Handed =< Handed'
    <3>1. CASE Callback \/ Shape \/ Return \/ Wait
      BY <1>0, <3>1, HandedKept
    <3>2. CASE DecodeFrame \/ EmptyFrame
      BY <1>0, <3>2, Appended
    <3>3. CASE Enqueue
      BY <1>0, <3>3, EnqueuedSamples
    <3> QED
      BY <1>8, <3>1, <3>2, <3>3
  <2>3. enc = "encode" => sure =< Handed'
    BY <1>0, <2>2 DEF Loaded, NumType
  <2> QED
    BY <2>1, <2>3 DEF Loaded, encoding, RecPlayOffset
<1> QED
  BY <1>1, <1>2, <1>3, <1>4, <1>5, <1>6, <1>7, <1>8 DEF Next, PlayerStep, EncoderStep

\* The reference over the end of the ring.
LEMMA SpillStep ==
  ASSUME NumType, RingType, Aligned, Published, Loaded, Remembered, SpillCopied, Next
  PROVE  SpillCopied'
<1>0. /\ Handed \in Nat /\ Handed =< write /\ write \in Nat /\ read \in Int
      /\ write =< MaxFrames * SPF /\ MaxFrames * SPF \in Int
  BY HandedFact, RingAssumption DEF NumType, Aligned
<1>1. CASE DecodeFrame \/ EmptyFrame
  <2> SUFFICES ASSUME enc = "encode", read >= 0, NEW i \in 0..(SPF - 1),
                      posPlay + i >= Size, read + i < sure
               PROVE  ring'[posPlay + i] = heard[read + i]
    BY <1>1, Appended DEF encoding, SpillCopied, posPlay
  <2>1. PICK n \in 0..SPF, f \in 0..SPF : f =< n /\ ring' = Filled(n, f)
    BY <1>1, Appended
  <2>2. pending < write + SPF /\ pending >= write /\ pending \in Nat
    BY <1>1, Appended
  <2>3. read + SPF =< write /\ write + 2 * SPF =< read + Size /\ read \in Nat
    BY <1>0, InReach
  <2>4. posPlay = read % Size
    BY <2>3, SizeFact, RemainderRange DEF posPlay
  <2>5. read + SPF =< pending /\ pending + SPF =< read + Size
    BY <1>0, <2>2, <2>3, SizeFact, RingAssumption
  <2>6. Filled(n, f)[(read % Size) + i] = ring[(read % Size) + i]
    BY <2>1, <2>2, <2>3, <2>4, <2>5, FilledCells
  <2> QED
    BY <2>1, <2>4, <2>6 DEF SpillCopied
<1>2. CASE Shape
  <2> SUFFICES ASSUME enc = "encode", read >= 0, NEW i \in 0..(SPF - 1),
                      posPlay + i >= Size, read + i < sure
               PROVE  ring'[posPlay + i] = heard[read + i]
    BY <1>2 DEF Shape, encoding, SpillCopied, posPlay
  <2>1. posPlay \in 0..(Size - 1)
    BY <1>0, SizeFact, RemainderRange DEF posPlay
  <2>2. posPlay + i \in Cells
    BY <2>1, SizeFact, RingAssumption DEF Cells
  <2>3. ring'[posPlay + i] = ring[posPlay + i]
    BY <1>2, <2>2, ShapedCells
  <2> QED
    BY <2>3 DEF SpillCopied
<1>3. CASE Enqueue
  <2> SUFFICES ASSUME enc = "encode", read >= 0, NEW i \in 0..(SPF - 1),
                      posPlay + i >= Size, read + i < sure
               PROVE  ring[posPlay + i] = heard'[read + i]
    BY <1>3 DEF Enqueue, encoding, SpillCopied, posPlay
  <2>1. sure \in Nat /\ sure =< Handed /\ Handed = write - SPF
    BY <1>3, InReach, EnqueuedSamples
  <2>2. read + i \in Stream /\ read + i < write - SPF
    BY <1>0, <2>1, RingAssumption DEF Stream
  <2>3. heard'[read + i] = heard[read + i]
    BY <1>3, <2>2, EnqueuedSamples
  <2> QED
    BY <2>3 DEF SpillCopied
<1>4. CASE Locate
  <2> SUFFICES ASSUME read' >= 0, NEW i \in 0..(SPF - 1), posPlay' + i >= Size,
                      read' + i < Handed
               PROVE  ring'[posPlay' + i] = heard[read' + i]
    BY <1>4 DEF Locate, SpillCopied
  <2>1. /\ read' \in Nat /\ read' + SPF =< write
        /\ write + 2 * SPF =< read' + Size
    BY <1>4, Located
  <2>2. posPlay' = CRemainder(read') /\ posPlay' = read' % Size /\ posPlay' \in 0..(Size - 1)
    BY <2>1, SizeFact, RemainderRange DEF posPlay
  <2> DEFINE c == posPlay' + i
  <2>3. c \in Cells /\ c >= Size /\ posPlay' + SPF > Size
    BY <2>2, SizeFact, RingAssumption DEF Cells
  <2> HIDE DEF c
  <2>4. ring'[c] = ring[c - Size]
    BY <1>4, <2>2, <2>3 DEF Locate, Assembled
  <2>5. (read' + i) % Size = c - Size
    <3>1. i \in Nat /\ i =< Size /\ (read' % Size) + i >= Size
      BY <2>2, SizeFact, RingAssumption
    <3>2. ((read' + i) % Size) = (read' % Size) + i - Size
      BY <3>1, <2>1, SizeFact, StepOver
    <3> QED
      BY <3>1, <3>2, <2>2, SizeFact DEF c
  <2>6. read' + i \in Stream /\ read' + i + Size >= write + 2 * SPF
    <3>1. PICK r \in Nat : r = read'
      BY <2>1
    <3>2. r + SPF =< write /\ write + 2 * SPF =< r + Size
      BY <2>1, <3>1
    <3>3. r + i < write /\ r + i + Size >= write + 2 * SPF /\ r + i \in Nat
      BY <1>0, <3>2, RingAssumption, SizeFact
    <3>4. r + i \in Stream
      BY <1>0, <3>3, RingAssumption DEF Stream
    <3> QED
      BY <3>1, <3>3, <3>4
  <2>7. ring[(read' + i) % Size] = heard[read' + i]
    BY <2>6 DEF Remembered
  <2> QED
    BY <2>4, <2>5, <2>7 DEF c
<1>5. CASE Test \/ LoadRecorder \/ LoadPlayer \/ Encode
  BY <1>5 DEF Test, LoadRecorder, LoadPlayer, Encode, SpillCopied
<1>6. CASE Callback \/ Publish \/ Return \/ RecorderCallback \/ Wait
  BY <1>6 DEF Callback, Publish, Return, RecorderCallback, Wait, SpillCopied, posPlay,
    vars, playing, encoding
<1> QED
  BY <1>1, <1>2, <1>3, <1>4, <1>5, <1>6 DEF Next, PlayerStep, EncoderStep

-----------------------------------------------------------------------------
(***************************************************************************)
(* The invariants.                                                         *)
(***************************************************************************)

\* The parts of TypeOK are all of it.
LEMMA TypeParts == TypeOK <=> NumType /\ RingType /\ PlaceType
<1>1. read \in Int => posPlay \in (1 - Size)..(Size - 1)
  BY RemainderRange DEF posPlay
<1> QED
  BY <1>1 DEF TypeOK, NumType, RingType, PlaceType

LEMMA InitInv == Init => RingInv
<1> SUFFICES ASSUME Init
             PROVE  RingInv
  OBVIOUS
<1> USE DEF Init
<1>1. NumType /\ PlaceType
  BY RingAssumption DEF NumType, PlaceType, None
<1>2. RingType
  BY DEF RingType, Blank, Decoded, Sample
<1>3. TypeOK
  BY <1>1, <1>2, TypeParts
<1>4. Aligned /\ Published
  <2>1. 0 \in 0..write /\ write = 0 * SPF
    BY RingAssumption
  <2>2. MaxFrames * SPF >= 0
    BY RingAssumption
  <2> QED
    BY <2>1, <2>2 DEF Aligned, Published
<1>5. Handed = 0
  BY DEF Handed
<1>6. Remembered /\ OnlyLapHeadStale
  BY <1>5, RingAssumption DEF Remembered, OnlyLapHeadStale, Stream
<1>7. DecodedAhead
  BY <1>5 DEF DecodedAhead
<1>8. Loaded
  <2>1. MaxLag * SPF >= 0 /\ MaxLag * SPF \in Int
    BY RingAssumption
  <2>2. recWrite =< recRead + MaxLag * SPF
    BY <2>1
  <2> QED
    BY <2>2 DEF Loaded
<1>9. SpillCopied
  BY DEF SpillCopied
<1> QED
  BY <1>3, <1>4, <1>6, <1>7, <1>8, <1>9 DEF RingInv

LEMMA StutterInv == RingInv /\ UNCHANGED vars => RingInv'
<1> SUFFICES ASSUME RingInv, UNCHANGED vars
             PROVE  RingInv'
  OBVIOUS
<1> USE DEF vars, playing, encoding, RingInv
<1>1. TypeOK'
  BY DEF TypeOK, posPlay
<1>2. Aligned' /\ Published' /\ Remembered' /\ DecodedAhead' /\ OnlyLapHeadStale'
  BY DEF Aligned, Published, Remembered, DecodedAhead, OnlyLapHeadStale, Handed
<1>3. Loaded' /\ SpillCopied'
  BY DEF Loaded, RecPlayOffset, SpillCopied, posPlay, Handed
<1> QED
  BY <1>1, <1>2, <1>3

LEMMA NextInv == RingInv /\ [Next]_vars => RingInv'
<1> SUFFICES ASSUME RingInv, Next
             PROVE  RingInv'
  BY StutterInv
<1> USE DEF RingInv
<1>1. NumType /\ RingType /\ PlaceType
  BY TypeParts
<1>2. NumType' /\ RingType' /\ PlaceType'
  BY <1>1, NumTypeStep, RingTypeStep, PlaceTypeStep
<1>3. TypeOK'
  <2>1. read' \in Int
    BY <1>2 DEF NumType
  <2>2. posPlay' \in (1 - Size)..(Size - 1)
    BY <2>1, RemainderRange DEF posPlay
  <2> QED
    BY <1>2, <2>2 DEF TypeOK, NumType, RingType, PlaceType
<1>4. Aligned' /\ Published' /\ Loaded'
  BY <1>1, AlignedStep, PublishedStep, LoadedStep
<1>5. Remembered' /\ DecodedAhead' /\ OnlyLapHeadStale'
  BY <1>1, RememberedStep, DecodedAheadStep, StaleStep
<1>6. SpillCopied'
  BY <1>1, SpillStep
<1> QED
  BY <1>3, <1>4, <1>5, <1>6

\* The inductive invariant holds for every frame, ring, offset, scheduling within the
\* window and failure of the decoder.
THEOREM RingInvHolds == Spec => []RingInv
BY InitInv, NextInv, PTL DEF Spec

\* Type correctness; the decoder is never two frames ahead, nor behind.
THEOREM TypeCorrect == Spec => []TypeOK
<1>1. RingInv => TypeOK
  BY DEF RingInv
<1> QED
  BY <1>1, RingInvHolds, PTL

\* Every sample that the decoder has written is heard at its own position but in the
\* first frame of a lap, wherever decoders have failed.
THEOREM HeardInPlace == Spec => []OnlyLapHeadStale
<1>1. RingInv => OnlyLapHeadStale
  BY DEF RingInv
<1> QED
  BY <1>1, RingInvHolds, PTL

\* The decoder never writes into the frame the device is playing.
THEOREM DeviceUndisturbed == Spec => []DeviceFrameIntact
<1>1. ASSUME RingInv
      PROVE  DeviceFrameIntact
  <2> DEFINE b == write - SPF
  <2> SUFFICES ASSUME player \in {"idle", "after"}, write > 0, NEW i \in 0..(SPF - 1)
               PROVE  ring[(b % Size) + i] = heard[b + i]
    BY DEF DeviceFrameIntact
  <2>1. NumType /\ Aligned /\ write \in Nat /\ Handed = write
    BY <1>1, TypeParts DEF RingInv, NumType, Handed
  <2>2. write >= SPF
    <3>1. PICK k \in 0..write : write = k * SPF
      BY <2>1 DEF Aligned
    <3>2. (k - 1) * SPF >= 0
      BY <2>1, <3>1, RingAssumption
    <3> QED
      BY <2>1, <3>1, <3>2, RingAssumption
  <2>3. PICK k \in Nat : b = k * SPF
    BY <2>1, <2>2, LastFrame
  <2>4. b \in Nat /\ b + SPF = write
    BY <2>1, <2>2, LastFrame, RingAssumption
  <2> HIDE DEF b
  <2>5. PICK p \in Nat : p = b + i
    BY <2>4
  <2>6. b =< p /\ p < b + SPF /\ p - b = i /\ p < write /\ p + Size >= write + 2 * SPF
    BY <2>1, <2>4, <2>5, SizeFact, RingAssumption
  <2>7. (b % Size) + (p - b) = p % Size
    BY <2>3, <2>4, <2>6, CellOfFrame
  <2>8. p \in Stream
    <3>1. write =< MaxFrames * SPF /\ MaxFrames * SPF \in Int
      BY <2>1, RingAssumption DEF Aligned
    <3> QED
      BY <2>1, <2>6, <3>1 DEF Stream
  <2>9. ring[p % Size] = heard[p]
    BY <1>1, <2>1, <2>6, <2>8 DEF RingInv, Remembered
  <2> QED
    BY <2>5, <2>6, <2>7, <2>9
<1> QED
  BY <1>1, RingInvHolds, PTL

\* The reference of the echo canceller is mConfigRecPlayOffset behind mPlayerWrite; if
\* that is a frame or more, the device had been handed all of it when it was located.
THEOREM ReferenceAlwaysPlayed == Spec => []ReferencePlayed
<1>1. ASSUME RingInv
      PROVE  ReferencePlayed
  <2> SUFFICES ASSUME enc = "encode"
               PROVE  read + SPF + offset =< write /\ (offset >= SPF => read + SPF =< sure)
    BY DEF ReferencePlayed
  <2>1. NumType /\ Loaded
    BY <1>1, TypeParts DEF RingInv
  <2>2. /\ offset \in Nat /\ seenPlay \in Nat /\ sure \in Nat
        /\ read + SPF + offset =< seenPlay /\ seenPlay =< write
        /\ seenPlay =< sure + SPF
    BY <2>1, InReach
  <2>3. read \in Int /\ write \in Nat /\ SPF \in Nat
    BY <2>1, RingAssumption DEF NumType
  <2> QED
    BY <2>2, <2>3
<1> QED
  BY <1>1, RingInvHolds, PTL

\* What had been handed to the device when the reference was located is read as it was
\* played, as long as the encoder reads it.
THEOREM ReferenceAlwaysFaithful == Spec => []ReferenceFaithful
<1>1. ASSUME RingInv
      PROVE  ReferenceFaithful
  <2> SUFFICES ASSUME enc = "encode", read >= 0, NEW i \in 0..(SPF - 1), read + i < sure
               PROVE  ring[posPlay + i] = heard[read + i]
    BY DEF ReferenceFaithful
  <2>1. NumType /\ Loaded
    BY <1>1, TypeParts DEF RingInv
  <2>2. /\ read \in Nat /\ write \in Nat /\ read + SPF =< write /\ read + i < Handed
        /\ write + 2 * SPF =< read + Size
    <3>1. Handed \in Nat
      BY <1>1, <2>1, HandedFact DEF RingInv
    <3> QED
      BY <2>1, <3>1, InReach DEF NumType
  <2>3. posPlay = read % Size /\ posPlay \in 0..(Size - 1)
    BY <2>2, RemainderRange DEF posPlay
  <2>4. CASE posPlay + i >= Size
    BY <1>1, <2>4 DEF RingInv, SpillCopied
  <2>5. CASE posPlay + i < Size
    <3>1. (read + i) % Size = posPlay + i
      <4>1. i \in Nat /\ (read % Size) + i < Size
        BY <2>3, <2>5, RingAssumption
      <4> QED
        BY <2>2, <2>3, <4>1, SizeFact, StepInside
    <3>2. read + i \in Nat /\ read + i < write /\ read + i + Size >= write + 2 * SPF
      BY <2>2, SizeFact, RingAssumption
    <3>3. read + i \in Stream
      <4>1. write =< MaxFrames * SPF /\ MaxFrames * SPF \in Int
        BY <1>1, RingAssumption DEF RingInv, Aligned
      <4> QED
        BY <2>2, <3>2, <4>1 DEF Stream
    <3>4. ring[(read + i) % Size] = heard[read + i]
      BY <1>1, <2>2, <3>2, <3>3 DEF RingInv, Remembered
    <3> QED
      BY <3>1, <3>4
  <2> QED
    BY <2>3, <2>4, <2>5, SizeFact, RingAssumption
<1> QED
  BY <1>1, RingInvHolds, PTL
=============================================================================
