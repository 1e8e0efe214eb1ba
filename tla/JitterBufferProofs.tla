------------------------- MODULE JitterBufferProofs -------------------------
(***************************************************************************)
(* The safety properties of JitterBuffer, for every value of its constants *)
(* that satisfies its assumptions.  CountInv is inductive by itself;       *)
(* SlotInv is inductive relative to it, when stores are seen in order.     *)
(***************************************************************************)
EXTENDS JitterBufferInv, TLAPS

-----------------------------------------------------------------------------
(***************************************************************************)
(* Arithmetic of slot numbers.                                             *)
(***************************************************************************)

\* Euclidean division.
LEMMA DivMod ==
  ASSUME NEW a \in Nat, NEW c \in Nat \ {0}
  PROVE  /\ a = c * (a \div c) + (a % c)
         /\ a \div c \in Int /\ a % c \in 0..c - 1
OBVIOUS

\* Two frame numbers less than a ring apart select different slots.
LEMMA SlotsApart ==
  ASSUME NEW c \in Nat \ {0}, NEW a \in Nat, NEW b \in Nat, a < b, b < a + c
  PROVE  a % c # b % c
<1> DEFINE p == a \div c
           q == b \div c
<1>1. a = c * p + (a % c) /\ p \in Int /\ a % c \in 0..c - 1
  BY DivMod
<1>2. b = c * q + (b % c) /\ q \in Int /\ b % c \in 0..c - 1
  BY DivMod
<1> SUFFICES ASSUME a % c = b % c
             PROVE  FALSE
  OBVIOUS
<1>3. b - a = c * (q - p)
  BY <1>1, <1>2
<1> HIDE DEF p, q
<1>4. q - p > 0
  <2> SUFFICES ASSUME q - p <= 0
               PROVE  FALSE
    BY <1>1, <1>2
  <2>1. c * (q - p) <= 0
    BY <1>1, <1>2
  <2> QED
    BY <1>3, <2>1
<1>5. c * (q - p) >= c
  BY <1>1, <1>2, <1>4
<1> QED
  BY <1>3, <1>5

\* What the assumptions on the constants give as plain inequalities.
LEMMA Sizes ==
  /\ Capacity \in Nat \ {0} /\ DropLimit \in Nat /\ Keep \in Nat
  /\ 0 < Keep /\ Keep <= DropLimit /\ DropLimit + 1 < Capacity
  /\ MaxBurst \in Nat /\ MaxBurst + DropLimit + 1 <= Capacity /\ MaxBurst < DropLimit
  /\ MaxLag \in Nat /\ MaxLag + Keep <= DropLimit
  /\ MaxWrites \in Nat /\ SkipMax \in Nat /\ InitialDebt \in 0..SkipMax
  /\ SamplesPerFrame \in Nat \ {0}
BY SizesAssumption, TuningAssumption, SchedulingAssumption DEF Keep

\* Resampling keeps at most a frame and never a negative number of samples.
LEMMA SpeedUpRange == Resampled(ReduceLevel) \in 0..SamplesPerFrame
<1>1. ReduceLevel \in {4, 8, 16, 32}
  BY DEF ReduceLevel
<1>2. \A level \in {4, 8, 16, 32} : Resampled(level) \in 0..SamplesPerFrame
  BY Sizes DEF Resampled
<1> QED
  BY <1>1, <1>2

\* A step that leaves mPendingBuffer alone leaves what is known of it alone.
LEMMA SameSlots ==
  ASSUME slots' = slots
  PROVE  \A i \in Int : Slot(i)' = Slot(i) /\ Quiet(i)' = Quiet(i)
BY DEF Slot, Quiet

-----------------------------------------------------------------------------
(***************************************************************************)
(* CountInv: the network thread.                                           *)
(***************************************************************************)

LEMMA FillType ==
  ASSUME TypeOK, NEW i \in Nat, NEW kind \in Kinds, Fill(i, kind)
  PROVE  /\ slots' \in [0..Capacity - 1 -> [id : Nat \cup {None}, kind : Kinds]]
         /\ slots'[i % Capacity].id = i
         /\ \A k \in 0..Capacity - 1 : k # i % Capacity => slots'[k] = slots[k]
<1>1. i % Capacity \in 0..Capacity - 1
  BY Sizes, DivMod
<1> QED
  BY <1>1 DEF TypeOK, Fill

LEMMA CountStoreFrame ==
  ASSUME CountInv, NEW kind \in Kinds, StoreFrame(kind)
  PROVE  CountInv'
<1> USE Sizes DEF CountInv, TypeOK, StoreFrame, Arrive, locals, audioVars
<1>1. TypeOK'
  BY FillType
<1>2. BacklogBound'
  BY DEF BacklogBound, Backlog, Stored, Unchecked, Using, InFlight, Holding, Deciding,
         Register
<1>3. Register'
  BY DEF Register, BacklogBound, Backlog, Stored, Unchecked, Using, InFlight, Holding,
         Deciding
<1>4. RecoveryAlone' /\ RingFillBounded'
  BY DEF RecoveryAlone, RingFillBounded, Holding, Deciding
<1> QED
  BY <1>1, <1>2, <1>3, <1>4

LEMMA CountPublish ==
  ASSUME CountInv, Publish
  PROVE  CountInv'
<1> USE Sizes DEF CountInv, TypeOK, Publish, locals, audioVars, history
<1>1. TypeOK'
  OBVIOUS
<1>2. BacklogBound'
  BY DEF BacklogBound, Backlog, Stored, Unchecked, Using, InFlight, Holding, Deciding,
         Register
<1>3. Register'
  BY DEF Register, BacklogBound, Backlog, Stored, Unchecked, Using, InFlight, Holding,
         Deciding
<1>4. RecoveryAlone' /\ RingFillBounded'
  BY DEF RecoveryAlone, RingFillBounded, Holding, Deciding
<1> QED
  BY <1>1, <1>2, <1>3, <1>4

LEMMA CountPublishEarly ==
  ASSUME CountInv, PublishEarly
  PROVE  CountInv'
<1> USE Sizes DEF CountInv, TypeOK, PublishEarly, Arrive, locals, audioVars
<1>1. TypeOK'
  OBVIOUS
<1>2. BacklogBound'
  BY DEF BacklogBound, Backlog, Stored, Unchecked, Using, InFlight, Holding, Deciding,
         Register
<1>3. Register'
  BY DEF Register, BacklogBound, Backlog, Stored, Unchecked, Using, InFlight, Holding,
         Deciding
<1>4. RecoveryAlone' /\ RingFillBounded'
  BY DEF RecoveryAlone, RingFillBounded, Holding, Deciding
<1> QED
  BY <1>1, <1>2, <1>3, <1>4

LEMMA CountStoreFrameLate ==
  ASSUME CountInv, NEW kind \in Kinds, StoreFrameLate(kind)
  PROVE  CountInv'
<1> USE Sizes DEF CountInv, TypeOK, StoreFrameLate, locals, audioVars, history
<1>1. TypeOK'
  BY FillType DEF BacklogBound
<1>2. BacklogBound'
  BY DEF BacklogBound, Backlog, Stored, Unchecked, Using, InFlight, Holding, Deciding,
         Register
<1>3. Register'
  BY DEF Register, BacklogBound, Backlog, Stored, Unchecked, Using, InFlight, Holding,
         Deciding
<1>4. RecoveryAlone' /\ RingFillBounded'
  BY DEF RecoveryAlone, RingFillBounded, Holding, Deciding
<1> QED
  BY <1>1, <1>2, <1>3, <1>4

LEMMA CountCheckOverrun ==
  ASSUME CountInv, CheckOverrun
  PROVE  CountInv'
<1> USE Sizes DEF CountInv, TypeOK, CheckOverrun, Overrun, locals, audioVars, history
<1>1. TypeOK'
  OBVIOUS
<1>2. BacklogBound'
  BY DEF BacklogBound, Backlog, Stored, Unchecked, Using, InFlight, Holding, Deciding,
         Register
<1>3. Register'
  BY DEF Register, BacklogBound, Backlog, Stored, Unchecked, Using, InFlight, Holding,
         Deciding
<1>4. RecoveryAlone' /\ RingFillBounded'
  BY DEF RecoveryAlone, RingFillBounded, Holding, Deciding
<1> QED
  BY <1>1, <1>2, <1>3, <1>4

LEMMA CountJump ==
  ASSUME CountInv, Jump
  PROVE  CountInv'
<1> USE Sizes DEF CountInv, TypeOK, Jump, JumpTarget, locals, audioVars
<1>1. TypeOK'
  BY DEF BacklogBound
<1>2. BacklogBound'
  BY DEF BacklogBound, Backlog, Stored, Unchecked, Using, InFlight, Holding, Deciding,
         Register
<1>3. Register'
  BY DEF Register, BacklogBound, Backlog, Stored, Unchecked, Using, InFlight, Holding,
         Deciding
<1>4. RecoveryAlone' /\ RingFillBounded'
  BY DEF RecoveryAlone, RingFillBounded, Holding, Deciding
<1> QED
  BY <1>1, <1>2, <1>3, <1>4

-----------------------------------------------------------------------------
(***************************************************************************)
(* CountInv: the player thread.                                            *)
(***************************************************************************)

LEMMA CountCallback ==
  ASSUME CountInv, Callback
  PROVE  CountInv'
<1> USE Sizes DEF CountInv, TypeOK, Callback, netVars, locals, audioVars, history
<1>1. TypeOK'
  OBVIOUS
<1>2. BacklogBound'
  BY DEF BacklogBound, Backlog, Stored, Unchecked, Using, InFlight, Holding, Deciding,
         Register
<1>3. Register'
  BY DEF Register, BacklogBound, Backlog, Stored, Unchecked, Using, InFlight, Holding,
         Deciding
<1>4. RecoveryAlone' /\ RingFillBounded'
  BY DEF RecoveryAlone, RingFillBounded, Holding, Deciding
<1> QED
  BY <1>1, <1>2, <1>3, <1>4

LEMMA CountTake ==
  ASSUME CountInv, Take
  PROVE  CountInv'
<1> USE Sizes DEF CountInv, TypeOK, Take, Hungry, Passed, netVars, audioVars
<1>1. TypeOK'
  OBVIOUS
<1>2. BacklogBound'
  BY DEF BacklogBound, Backlog, Stored, Unchecked, Using, InFlight, Holding, Deciding,
         Register
<1>3. Register'
  BY DEF Register, BacklogBound, Backlog, Stored, Unchecked, Using, InFlight, Holding,
         Deciding
<1>4. RecoveryAlone' /\ RingFillBounded'
  BY DEF RecoveryAlone, RingFillBounded, Holding, Deciding
<1> QED
  BY <1>1, <1>2, <1>3, <1>4

LEMMA CountStoreTaken ==
  ASSUME CountInv, StoreTaken
  PROVE  CountInv'
<1> USE Sizes DEF CountInv, TypeOK, StoreTaken, netVars, locals, audioVars, history
<1>1. TypeOK'
  BY DEF Register
<1>2. BacklogBound'
  BY DEF BacklogBound, Backlog, Stored, Unchecked, Using, InFlight, Holding, Deciding,
         Register
<1>3. Register'
  BY DEF Register, BacklogBound, Backlog, Stored, Unchecked, Using, InFlight, Holding,
         Deciding
<1>4. RecoveryAlone' /\ RingFillBounded'
  BY DEF RecoveryAlone, RingFillBounded, Holding, Deciding
<1> QED
  BY <1>1, <1>2, <1>3, <1>4

LEMMA CountPeek ==
  ASSUME CountInv, Peek
  PROVE  CountInv'
<1> USE Sizes DEF CountInv, TypeOK, Peek, netVars, audioVars, history
<1>1. TypeOK'
  BY DEF None, Register
<1>2. BacklogBound'
  BY DEF BacklogBound, Backlog, Stored, Unchecked, Using, InFlight, Holding, Deciding,
         Register
<1>3. Register'
  BY DEF Register, BacklogBound, Backlog, Stored, Unchecked, Using, InFlight, Holding,
         Deciding
<1>4. RecoveryAlone' /\ RingFillBounded'
  BY DEF RecoveryAlone, RingFillBounded, Holding, Deciding
<1> QED
  BY <1>1, <1>2, <1>3, <1>4

\* The frame in hand is a slot's contents.
LEMMA HeldType ==
  ASSUME TypeOK, cur \in Nat
  PROVE  Slot(cur).id \in Nat \cup {None} /\ Slot(cur).kind \in Kinds
<1>1. cur % Capacity \in 0..Capacity - 1
  BY Sizes, DivMod
<1> QED
  BY <1>1 DEF TypeOK, Slot

LEMMA CountDecode ==
  ASSUME CountInv, Decode
  PROVE  CountInv'
<1> USE Sizes DEF CountInv, TypeOK, Decode, netVars, locals, audioVars, history
<1>1. TypeOK'
  <2>1. cur \in Nat
    BY DEF BacklogBound, InFlight, Holding, Deciding
  <2>2. Slot(cur).id + 1 \in Nat
    BY <2>1, HeldType DEF None
  <2>3. heard' \in Nat
    BY <2>2
  <2> QED
    BY <2>3 DEF Deciding
<1>2. BacklogBound'
  BY DEF BacklogBound, Backlog, Stored, Unchecked, Using, InFlight, Holding, Deciding,
         Register
<1>3. Register'
  BY DEF Register, BacklogBound, Backlog, Stored, Unchecked, Using, InFlight, Holding,
         Deciding
<1>4. RecoveryAlone' /\ RingFillBounded'
  BY DEF RecoveryAlone, RingFillBounded, Holding, Deciding
<1> QED
  BY <1>1, <1>2, <1>3, <1>4

\* The tests of the post decode action: what they have in common, and what is
\* known when one of them settles the action.
DecideOutcome ==
  /\ pc \in Deciding /\ pc' \in {"apply", "repeat", "speed", "elapsed", "stretch"}
  /\ slots' = slots /\ pendingWrite' = pendingWrite /\ net' = net
  /\ pendingRead' = pendingRead /\ primed' = primed /\ reg' = reg
  /\ cur' = cur /\ next' = next /\ gap' = gap /\ skipped' = skipped
  /\ burst' = burst /\ lag' = lag /\ undone' = undone /\ heard' = heard
  /\ action' \in {"none", "skip", "rewind", "speedup"}
  /\ samples' \in 0..SamplesPerFrame
  /\ recovery' \in Nat \cup {-1}
  /\ pc' = "apply" \/ action' = action
  /\ recovery' > 0 => recovery > 0 /\ action' \in {action, "none", "rewind", "speedup"}
  /\ pc' = "apply" /\ action' = "skip" =>
       Backlog >= 2 /\ next # None /\ Quiet(cur) /\ Quiet(next)
  /\ pc' = "apply" /\ action' = "rewind" => Quiet(cur)

LEMMA DecideFacts ==
  ASSUME CountInv, Decide
  PROVE  DecideOutcome
<1> USE DEF Decide, DecideSkip, DecideRepeat, DecideSpeed, EndRecoveryByBacklog,
            EndRecoveryByCount, DecideStretch, Settle, GoOn
<1>1. /\ pc \in Deciding /\ pc' \in {"apply", "repeat", "speed", "elapsed", "stretch"}
      /\ slots' = slots /\ pendingWrite' = pendingWrite /\ net' = net
      /\ pendingRead' = pendingRead /\ primed' = primed /\ reg' = reg
      /\ cur' = cur /\ next' = next /\ gap' = gap /\ skipped' = skipped
      /\ burst' = burst /\ lag' = lag /\ undone' = undone /\ heard' = heard
      /\ pc' = "apply" \/ action' = action
  BY DEF Deciding, netVars, history
<1>2. /\ action' \in {"none", "skip", "rewind", "speedup"}
      /\ samples' \in 0..SamplesPerFrame
      /\ recovery' \in Nat \cup {-1}
  BY Sizes, SpeedUpRange DEF CountInv, TypeOK
<1>3. recovery' > 0 => recovery > 0 /\ action' \in {action, "none", "rewind", "speedup"}
  BY DEF CountInv, TypeOK
<1>4. /\ pc' = "apply" /\ action' = "skip" =>
           Backlog >= 2 /\ next # None /\ Quiet(cur) /\ Quiet(next)
      /\ pc' = "apply" /\ action' = "rewind" => Quiet(cur)
  BY DEF CanSkip, CanRepeat, CountInv, RecoveryAlone, Deciding
<1> QED
  BY <1>1, <1>2, <1>3, <1>4 DEF DecideOutcome

LEMMA CountDecide ==
  ASSUME CountInv, Decide
  PROVE  CountInv'
<1>0. DecideOutcome
  BY DecideFacts
<1> USE <1>0, Sizes DEF DecideOutcome, CountInv, TypeOK, Deciding
<1>1. TypeOK'
  OBVIOUS
<1>2. BacklogBound'
  BY DEF BacklogBound, Backlog, Stored, Unchecked, Using, InFlight, Holding
<1>3. Register'
  BY DEF Register, BacklogBound, Backlog, Stored
<1>4. RecoveryAlone' /\ RingFillBounded'
  BY DEF RecoveryAlone, RingFillBounded, Holding
<1> QED
  BY <1>1, <1>2, <1>3, <1>4

LEMMA CountApply ==
  ASSUME CountInv, Apply
  PROVE  CountInv'
<1> USE Sizes DEF CountInv, TypeOK, Apply, ApplySkip, ApplyRewind, ApplyOther, Repaid,
                  Passed, netVars, locals
<1>1. TypeOK'
  BY DEF BacklogBound, Backlog, Using
<1>2. BacklogBound'
  BY DEF BacklogBound, Backlog, Stored, Unchecked, Using, InFlight, Holding, Deciding,
         Register
<1>3. Register'
  BY DEF Register, BacklogBound, Backlog, Stored, Unchecked, Using, InFlight, Holding,
         Deciding
<1>4. RecoveryAlone' /\ RingFillBounded'
  BY DEF RecoveryAlone, RingFillBounded, Holding, Deciding
<1> QED
  BY <1>1, <1>2, <1>3, <1>4

LEMMA CountStoreAdjusted ==
  ASSUME CountInv, StoreAdjusted
  PROVE  CountInv'
<1> USE Sizes DEF CountInv, TypeOK, StoreAdjusted, netVars, locals, audioVars, history
<1>1. TypeOK'
  BY DEF None, Register
<1>2. BacklogBound'
  BY DEF BacklogBound, Backlog, Stored, Unchecked, Using, InFlight, Holding, Deciding,
         Register
<1>3. Register'
  BY DEF Register, BacklogBound, Backlog, Stored, Unchecked, Using, InFlight, Holding,
         Deciding
<1>4. RecoveryAlone' /\ RingFillBounded'
  BY DEF RecoveryAlone, RingFillBounded, Holding, Deciding
<1> QED
  BY <1>1, <1>2, <1>3, <1>4

LEMMA CountTrim ==
  ASSUME CountInv, Trim
  PROVE  CountInv'
<1> USE Sizes DEF CountInv, TypeOK, Trim, EndOfBody, netVars, locals, audioVars
<1>1. TypeOK'
  BY DEF None
<1>2. BacklogBound'
  BY DEF BacklogBound, Backlog, Stored, Unchecked, Using, InFlight, Holding, Deciding,
         Register
<1>3. Register'
  BY DEF Register, BacklogBound, Backlog, Stored, Unchecked, Using, InFlight, Holding,
         Deciding
<1>4. RecoveryAlone' /\ RingFillBounded'
  BY DEF RecoveryAlone, RingFillBounded, Holding, Deciding
<1> QED
  BY <1>1, <1>2, <1>3, <1>4

LEMMA CountDrop ==
  ASSUME CountInv, Drop
  PROVE  CountInv'
<1> USE Sizes DEF CountInv, TypeOK, Drop, EndOfBody, netVars, audioVars
<1>1. TypeOK'
  BY DEF None, Register
<1>2. BacklogBound'
  BY DEF BacklogBound, Backlog, Stored, Unchecked, Using, InFlight, Holding, Deciding,
         Register
<1>3. Register'
  BY DEF Register, BacklogBound, Backlog, Stored, Unchecked, Using, InFlight, Holding,
         Deciding
<1>4. RecoveryAlone' /\ RingFillBounded'
  BY DEF RecoveryAlone, RingFillBounded, Holding, Deciding
<1> QED
  BY <1>1, <1>2, <1>3, <1>4

LEMMA CountLoopExit ==
  ASSUME CountInv, LoopExit
  PROVE  CountInv'
<1> USE Sizes DEF CountInv, TypeOK, LoopExit, Hungry, netVars, locals, audioVars, history
<1>1. TypeOK'
  OBVIOUS
<1>2. BacklogBound'
  BY DEF BacklogBound, Backlog, Stored, Unchecked, Using, InFlight, Holding, Deciding,
         Register
<1>3. Register'
  BY DEF Register, BacklogBound, Backlog, Stored, Unchecked, Using, InFlight, Holding,
         Deciding
<1>4. RecoveryAlone' /\ RingFillBounded'
  BY DEF RecoveryAlone, RingFillBounded, Holding, Deciding
<1> QED
  BY <1>1, <1>2, <1>3, <1>4

LEMMA CountPlay ==
  ASSUME CountInv, Play
  PROVE  CountInv'
<1> USE Sizes DEF CountInv, TypeOK, Play, Owed, netVars, locals, history
<1>1. TypeOK'
  OBVIOUS
<1>2. BacklogBound'
  BY DEF BacklogBound, Backlog, Stored, Unchecked, Using, InFlight, Holding, Deciding,
         Register
<1>3. Register'
  BY DEF Register, BacklogBound, Backlog, Stored, Unchecked, Using, InFlight, Holding,
         Deciding
<1>4. RecoveryAlone' /\ RingFillBounded'
  BY DEF RecoveryAlone, RingFillBounded, Holding, Deciding
<1> QED
  BY <1>1, <1>2, <1>3, <1>4

-----------------------------------------------------------------------------
(***************************************************************************)
(* SlotInv: the network thread.                                            *)
(***************************************************************************)

\* Filling the slot of pendingWrite leaves every slot a player could be
\* looking at, now or after the bounded number of arrivals, as it was.
LEMMA StoreKeepsSlots ==
  ASSUME CountInv, NEW kind \in Kinds, StoreFrame(kind)
  PROVE  \A i \in Nat : i < pendingWrite /\ pendingWrite < i + Capacity =>
            slots'[i % Capacity] = slots[i % Capacity]
<1> SUFFICES ASSUME NEW i \in Nat, i < pendingWrite, pendingWrite < i + Capacity
             PROVE  slots'[i % Capacity] = slots[i % Capacity]
  OBVIOUS
<1>1. i % Capacity # pendingWrite % Capacity
  BY Sizes, SlotsApart DEF CountInv, TypeOK
<1>2. i % Capacity \in 0..Capacity - 1
  BY Sizes, DivMod
<1> QED
  BY <1>1, <1>2, FillType DEF CountInv, TypeOK, StoreFrame

LEMMA SlotStoreFrame ==
  ASSUME CountInv, SlotInv, NEW kind \in Kinds, StoreFrame(kind)
  PROVE  SlotInv'
<1>1. \A i \in Nat : i < pendingWrite /\ pendingWrite < i + Capacity =>
         slots'[i % Capacity] = slots[i % Capacity]
  BY StoreKeepsSlots
<1>2. slots'[pendingWrite % Capacity].id = pendingWrite
  BY FillType DEF CountInv, TypeOK, StoreFrame
<1>3. /\ net = "idle" /\ net' = "storing" /\ pc' = pc
      /\ pendingRead' = pendingRead /\ pendingWrite' = pendingWrite /\ reg' = reg
      /\ cur' = cur /\ next' = next /\ action' = action
      /\ lag' = lag /\ heard' = heard /\ undone' = undone
      /\ InFlight => burst < MaxBurst
      /\ burst' = IF InFlight THEN burst + 1 ELSE burst
  BY DEF StoreFrame, Arrive, locals
<1>4. SlotsHold'
  <2>0. pendingWrite \in Nat /\ Capacity \in Nat
    BY Sizes DEF CountInv, TypeOK
  <2> SUFFICES ASSUME NEW i \in 0..pendingWrite, pendingWrite + 1 <= i + Capacity
               PROVE  slots'[i % Capacity].id = i
    BY <2>0, <1>3 DEF SlotsHold, Stored, Slot
  <2>1. CASE i = pendingWrite
    BY <2>1, <1>2
  <2>2. CASE i # pendingWrite
    <3>1. i \in Nat /\ i < pendingWrite /\ pendingWrite < i + Capacity
      BY <2>0, <2>2
    <3>2. slots[i % Capacity].id = i
      BY <2>0, <3>1, <1>3 DEF SlotInv, SlotsHold, Stored, Slot
    <3> QED
      BY <3>1, <3>2, <1>1
  <2> QED
    BY <2>1, <2>2
<1>5. Window'
  BY Sizes, <1>3 DEF CountInv, TypeOK, SlotInv, Window, BacklogBound, Stored,
                     InFlight, Holding, Deciding
<1>6. InFlight => slots'[cur % Capacity] = slots[cur % Capacity]
  <2>1. InFlight => cur \in Nat /\ cur < pendingWrite /\ pendingWrite < cur + Capacity
    BY Sizes, <1>3 DEF CountInv, TypeOK, SlotInv, Window, BacklogBound, Stored
  <2> QED
    BY <2>1, <1>1
<1>7. CASE Undisturbed
  <2>1. Order'
    BY <1>3, <1>6, <1>7 DEF Undisturbed, Order, Using, InFlight, Holding, Deciding, Quiet,
                            Slot
  <2>2. Overtaken'
    BY <1>3, <1>7 DEF Undisturbed, Overtaken, Using, Deciding, InFlight, Holding
  <2>3. DecisionHolds'
    <3>1. pc = "apply" /\ pendingRead = cur + 1 /\ action = "skip" =>
            /\ pendingRead \in Nat /\ pendingRead < pendingWrite
            /\ pendingWrite < pendingRead + Capacity
      BY Sizes, <1>3 DEF CountInv, TypeOK, SlotInv, Window, BacklogBound, Backlog,
                         Stored, InFlight, Using
    <3>2. pc = "apply" /\ pendingRead = cur + 1 /\ action = "skip" =>
            slots'[pendingRead % Capacity] = slots[pendingRead % Capacity]
      BY <3>1, <1>1
    <3> QED
      BY <3>2, <1>3, <1>7 DEF Undisturbed, DecisionHolds, Quiet, Slot
  <2> QED
    BY <1>4, <1>5, <2>1, <2>2, <2>3 DEF SlotInv, Undisturbed
<1> QED
  BY <1>3, <1>4, <1>5, <1>7 DEF SlotInv

LEMMA SlotPublish ==
  ASSUME CountInv, SlotInv, Publish
  PROVE  SlotInv'
<1> USE Sizes DEF CountInv, TypeOK, SlotInv, Undisturbed, Publish, locals, audioVars,
                  history
<1>1. SlotsHold'
  BY SameSlots DEF SlotsHold, Stored
<1>2. Window'
  BY DEF Window, BacklogBound, Register, Backlog, Stored, Unchecked, Using, InFlight,
         Holding, Deciding
<1>3. CASE Undisturbed /\ ~undone'
  <2> USE <1>3
  <2>1. Order'
    BY SameSlots DEF Order, Window, BacklogBound, Register, Overtaken, Backlog, Stored,
                     Unchecked, Using, InFlight, Holding, Deciding
  <2>2. Overtaken'
    BY DEF Order, Overtaken, BacklogBound, Register, Backlog, Stored, Unchecked, Using,
           InFlight, Holding, Deciding
  <2>3. DecisionHolds'
    BY SameSlots DEF DecisionHolds, Order, Overtaken, BacklogBound, Backlog, Stored,
                     Unchecked, Using, InFlight, Holding, Deciding
  <2> QED
    BY <1>1, <1>2, <2>1, <2>2, <2>3
<1> QED
  BY <1>1, <1>2, <1>3

LEMMA SlotCheckOverrun ==
  ASSUME CountInv, SlotInv, CheckOverrun
  PROVE  SlotInv'
<1> USE Sizes DEF CountInv, TypeOK, SlotInv, Undisturbed, CheckOverrun, Overrun, locals,
                  audioVars, history
<1>1. SlotsHold'
  BY SameSlots DEF SlotsHold, Stored
<1>2. Window'
  BY DEF Window, BacklogBound, Register, Backlog, Stored, Unchecked, Using, InFlight,
         Holding, Deciding
<1>3. CASE Undisturbed /\ ~undone'
  <2> USE <1>3
  <2>1. Order'
    BY SameSlots DEF Order, Window, BacklogBound, Register, Overtaken, Backlog, Stored,
                     Unchecked, Using, InFlight, Holding, Deciding
  <2>2. Overtaken'
    BY DEF Order, Overtaken, BacklogBound, Register, Backlog, Stored, Unchecked, Using,
           InFlight, Holding, Deciding
  <2>3. DecisionHolds'
    BY SameSlots DEF DecisionHolds, Order, Overtaken, BacklogBound, Backlog, Stored,
                     Unchecked, Using, InFlight, Holding, Deciding
  <2> QED
    BY <1>1, <1>2, <2>1, <2>2, <2>3
<1> QED
  BY <1>1, <1>2, <1>3

LEMMA SlotJump ==
  ASSUME CountInv, SlotInv, Jump
  PROVE  SlotInv'
<1> USE Sizes DEF CountInv, TypeOK, SlotInv, Undisturbed, Jump, JumpTarget, locals,
                  audioVars
<1>1. SlotsHold'
  BY SameSlots DEF SlotsHold, Stored
<1>2. Window'
  BY DEF Window, BacklogBound, Register, Backlog, Stored, Unchecked, Using, InFlight,
         Holding, Deciding
<1>3. CASE Undisturbed /\ ~undone'
  <2> USE <1>3
  <2>1. Order'
    BY SameSlots DEF Order, Window, BacklogBound, Register, Overtaken, Backlog, Stored,
                     Unchecked, Using, InFlight, Holding, Deciding
  <2>2. Overtaken'
    BY DEF Order, Overtaken, BacklogBound, Register, Backlog, Stored, Unchecked, Using,
           InFlight, Holding, Deciding
  <2>3. DecisionHolds'
    BY SameSlots DEF DecisionHolds, Order, Overtaken, BacklogBound, Backlog, Stored,
                     Unchecked, Using, InFlight, Holding, Deciding
  <2> QED
    BY <1>1, <1>2, <2>1, <2>2, <2>3
<1> QED
  BY <1>1, <1>2, <1>3

-----------------------------------------------------------------------------
(***************************************************************************)
(* SlotInv: the player thread.                                             *)
(***************************************************************************)

LEMMA SlotCallback ==
  ASSUME CountInv, SlotInv, Callback
  PROVE  SlotInv'
<1>0. undone' \/ ~undone \/ (net # "jump" /\ ~(pendingRead < heard))
  BY Zenon DEF Callback
<1> USE Sizes DEF CountInv, TypeOK, SlotInv, Undisturbed, Callback, netVars, locals,
                  audioVars, history
<1>1. SlotsHold'
  BY SameSlots DEF SlotsHold, Stored
<1>2. Window'
  BY DEF Window, BacklogBound, Register, Backlog, Stored, Unchecked, Using, InFlight,
         Holding, Deciding
<1>3. ASSUME ~undone'
      PROVE  Undisturbed'
  <2>0. Undisturbed \/ (net # "jump" /\ heard <= pendingRead)
    BY <1>0, <1>3
  <2> USE <2>0
  <2>1. Order'
    BY SameSlots DEF Order, Window, BacklogBound, Register, Overtaken, Backlog, Stored,
                     Unchecked, Using, InFlight, Holding, Deciding
  <2>2. Overtaken'
    BY DEF Order, Overtaken, BacklogBound, Register, Backlog, Stored, Unchecked, Using,
           InFlight, Holding, Deciding
  <2>3. DecisionHolds'
    BY SameSlots DEF DecisionHolds, Order, Overtaken, BacklogBound, Backlog, Stored,
                     Unchecked, Using, InFlight, Holding, Deciding
  <2> QED
    BY <2>1, <2>2, <2>3
<1> QED
  BY <1>1, <1>2, <1>3

LEMMA SlotTake ==
  ASSUME CountInv, SlotInv, Take
  PROVE  SlotInv'
<1> USE Sizes DEF CountInv, TypeOK, SlotInv, Undisturbed, Take, Hungry, Passed, netVars,
                  audioVars
<1>1. SlotsHold'
  BY SameSlots DEF SlotsHold, Stored
<1>2. Window'
  BY DEF Window, BacklogBound, Register, Backlog, Stored, Unchecked, Using, InFlight,
         Holding, Deciding
<1>3. CASE Undisturbed /\ ~undone'
  <2> USE <1>3
  <2>1. Order'
    BY SameSlots DEF Order, Window, BacklogBound, Register, Overtaken, Backlog, Stored,
                     Unchecked, Using, InFlight, Holding, Deciding
  <2>2. Overtaken'
    BY DEF Order, Overtaken, BacklogBound, Register, Backlog, Stored, Unchecked, Using,
           InFlight, Holding, Deciding
  <2>3. DecisionHolds'
    BY SameSlots DEF DecisionHolds, Order, Overtaken, BacklogBound, Backlog, Stored,
                     Unchecked, Using, InFlight, Holding, Deciding
  <2> QED
    BY <1>1, <1>2, <2>1, <2>2, <2>3
<1> QED
  BY <1>1, <1>2, <1>3

LEMMA SlotStoreTaken ==
  ASSUME CountInv, SlotInv, StoreTaken
  PROVE  SlotInv'
<1> USE Sizes DEF CountInv, TypeOK, SlotInv, Undisturbed, StoreTaken, netVars, locals,
                  audioVars, history
<1>1. SlotsHold'
  BY SameSlots DEF SlotsHold, Stored
<1>2. Window'
  BY DEF Window, BacklogBound, Register, Backlog, Stored, Unchecked, Using, InFlight,
         Holding, Deciding
<1>3. CASE Undisturbed /\ ~undone'
  <2> USE <1>3
  <2>1. Order'
    BY SameSlots DEF Order, Window, BacklogBound, Register, Overtaken, Backlog, Stored,
                     Unchecked, Using, InFlight, Holding, Deciding
  <2>2. Overtaken'
    BY DEF Order, Overtaken, BacklogBound, Register, Backlog, Stored, Unchecked, Using,
           InFlight, Holding, Deciding
  <2>3. DecisionHolds'
    BY SameSlots DEF DecisionHolds, Order, Overtaken, BacklogBound, Backlog, Stored,
                     Unchecked, Using, InFlight, Holding, Deciding
  <2> QED
    BY <1>1, <1>2, <2>1, <2>2, <2>3
<1> QED
  BY <1>1, <1>2, <1>3

LEMMA SlotPeek ==
  ASSUME CountInv, SlotInv, Peek
  PROVE  SlotInv'
<1> USE Sizes DEF CountInv, TypeOK, SlotInv, Undisturbed, Peek, None, netVars, audioVars,
                  history
<1>1. SlotsHold'
  BY SameSlots DEF SlotsHold, Stored
<1>2. Window'
  BY DEF Window, BacklogBound, Register, Backlog, Stored, Unchecked, Using, InFlight,
         Holding, Deciding
<1>3. CASE Undisturbed /\ ~undone'
  <2> USE <1>3
  <2>1. Order'
    BY SameSlots DEF Order, Window, BacklogBound, Register, Overtaken, Backlog, Stored,
                     Unchecked, Using, InFlight, Holding, Deciding
  <2>2. Overtaken'
    BY DEF Order, Overtaken, BacklogBound, Register, Backlog, Stored, Unchecked, Using,
           InFlight, Holding, Deciding
  <2>3. DecisionHolds'
    BY SameSlots DEF DecisionHolds, Order, Overtaken, BacklogBound, Backlog, Stored,
                     Unchecked, Using, InFlight, Holding, Deciding
  <2> QED
    BY <1>1, <1>2, <2>1, <2>2, <2>3
<1> QED
  BY <1>1, <1>2, <1>3

LEMMA SlotDecode ==
  ASSUME CountInv, SlotInv, Decode
  PROVE  SlotInv'
<1> USE Sizes DEF CountInv, TypeOK, SlotInv, Undisturbed, Decode, netVars, locals,
                  audioVars, history
<1>0. Slot(cur).id = cur
  BY DEF SlotsHold, Window, BacklogBound, Stored, InFlight, Holding, Deciding
<1>1. SlotsHold'
  BY SameSlots DEF SlotsHold, Stored
<1>2. Window'
  BY DEF Window, BacklogBound, Register, Backlog, Stored, Unchecked, Using, InFlight,
         Holding, Deciding
<1>3. CASE Undisturbed /\ ~undone'
  <2> USE <1>0, <1>3
  <2>1. Order'
    BY SameSlots DEF Order, Window, BacklogBound, Register, Overtaken, Backlog, Stored,
                     Unchecked, Using, InFlight, Holding, Deciding
  <2>2. Overtaken'
    BY DEF Order, Overtaken, BacklogBound, Register, Backlog, Stored, Unchecked, Using,
           InFlight, Holding, Deciding
  <2>3. DecisionHolds'
    BY SameSlots DEF DecisionHolds, Order, Overtaken, BacklogBound, Backlog, Stored,
                     Unchecked, Using, InFlight, Holding, Deciding
  <2> QED
    BY <1>1, <1>2, <2>1, <2>2, <2>3
<1> QED
  BY <1>1, <1>2, <1>3

LEMMA SlotDecide ==
  ASSUME CountInv, SlotInv, Decide
  PROVE  SlotInv'
<1>0. DecideOutcome
  BY DecideFacts
<1> USE <1>0, Sizes DEF DecideOutcome, CountInv, TypeOK, SlotInv, Undisturbed, Deciding
<1>1. SlotsHold'
  BY SameSlots DEF SlotsHold, Stored
<1>2. Window'
  BY DEF Window, BacklogBound, Stored, InFlight, Holding
<1>3. CASE Undisturbed /\ ~undone'
  <2> USE <1>3
  <2>1. Order'
    BY DEF Order, Using, Quiet, Slot
  <2>2. Overtaken'
    BY DEF Overtaken, Using, InFlight, Holding
  <2>3. DecisionHolds'
    <3>1. pendingRead = cur + 1 /\ next # None => next = pendingRead
      BY DEF Order, BacklogBound, InFlight, Holding
    <3> QED
      BY <3>1 DEF DecisionHolds, Quiet, Slot
  <2> QED
    BY <1>1, <1>2, <2>1, <2>2, <2>3
<1> QED
  BY <1>1, <1>2, <1>3

LEMMA SlotApply ==
  ASSUME CountInv, SlotInv, Apply
  PROVE  SlotInv'
<1> USE Sizes DEF CountInv, TypeOK, SlotInv, Undisturbed, Apply, ApplySkip, ApplyRewind,
                  ApplyOther, Repaid, Passed, netVars, locals
<1>1. SlotsHold'
  BY SameSlots DEF SlotsHold, Stored
<1>2. Window'
  BY DEF Window, BacklogBound, Register, Backlog, Stored, Unchecked, Using, InFlight,
         Holding, Deciding
<1>3. CASE Undisturbed /\ ~undone'
  <2> USE <1>3
  <2>1. Order'
    BY SameSlots DEF Order, Window, BacklogBound, Register, Overtaken, Backlog, Stored,
                     Unchecked, Using, InFlight, Holding, Deciding
  <2>2. Overtaken'
    BY DEF Order, Overtaken, BacklogBound, Register, Backlog, Stored, Unchecked, Using,
           InFlight, Holding, Deciding
  <2>3. DecisionHolds'
    BY SameSlots DEF DecisionHolds, Order, Overtaken, BacklogBound, Backlog, Stored,
                     Unchecked, Using, InFlight, Holding, Deciding
  <2> QED
    BY <1>1, <1>2, <2>1, <2>2, <2>3
<1> QED
  BY <1>1, <1>2, <1>3

LEMMA SlotStoreAdjusted ==
  ASSUME CountInv, SlotInv, StoreAdjusted
  PROVE  SlotInv'
<1> USE Sizes DEF CountInv, TypeOK, SlotInv, Undisturbed, StoreAdjusted, netVars, locals,
                  audioVars, history
<1>1. SlotsHold'
  BY SameSlots DEF SlotsHold, Stored
<1>2. Window'
  BY DEF Window, BacklogBound, Register, Backlog, Stored, Unchecked, Using, InFlight,
         Holding, Deciding
<1>3. CASE Undisturbed /\ ~undone'
  <2> USE <1>3
  <2>1. Order'
    BY SameSlots DEF Order, Window, BacklogBound, Register, Overtaken, Backlog, Stored,
                     Unchecked, Using, InFlight, Holding, Deciding
  <2>2. Overtaken'
    BY DEF Order, Overtaken, BacklogBound, Register, Backlog, Stored, Unchecked, Using,
           InFlight, Holding, Deciding
  <2>3. DecisionHolds'
    BY SameSlots DEF DecisionHolds, Order, Overtaken, BacklogBound, Backlog, Stored,
                     Unchecked, Using, InFlight, Holding, Deciding
  <2> QED
    BY <1>1, <1>2, <2>1, <2>2, <2>3
<1> QED
  BY <1>1, <1>2, <1>3

LEMMA SlotTrim ==
  ASSUME CountInv, SlotInv, Trim
  PROVE  SlotInv'
<1> USE Sizes DEF CountInv, TypeOK, SlotInv, Undisturbed, Trim, EndOfBody, netVars, locals,
                  audioVars
<1>1. SlotsHold'
  BY SameSlots DEF SlotsHold, Stored
<1>2. Window'
  BY DEF Window, BacklogBound, Register, Backlog, Stored, Unchecked, Using, InFlight,
         Holding, Deciding
<1>3. CASE Undisturbed /\ ~undone'
  <2> USE <1>3
  <2>1. Order'
    BY SameSlots DEF Order, Window, BacklogBound, Register, Overtaken, Backlog, Stored,
                     Unchecked, Using, InFlight, Holding, Deciding
  <2>2. Overtaken'
    BY DEF Order, Overtaken, BacklogBound, Register, Backlog, Stored, Unchecked, Using,
           InFlight, Holding, Deciding
  <2>3. DecisionHolds'
    BY SameSlots DEF DecisionHolds, Order, Overtaken, BacklogBound, Backlog, Stored,
                     Unchecked, Using, InFlight, Holding, Deciding
  <2> QED
    BY <1>1, <1>2, <2>1, <2>2, <2>3
<1> QED
  BY <1>1, <1>2, <1>3

LEMMA SlotDrop ==
  ASSUME CountInv, SlotInv, Drop
  PROVE  SlotInv'
<1> USE Sizes DEF CountInv, TypeOK, SlotInv, Undisturbed, Drop, EndOfBody, netVars,
                  audioVars
<1>1. SlotsHold'
  BY SameSlots DEF SlotsHold, Stored
<1>2. Window'
  BY DEF Window, BacklogBound, Register, Backlog, Stored, Unchecked, Using, InFlight,
         Holding, Deciding
<1>3. CASE Undisturbed /\ ~undone'
  <2> USE <1>3
  <2>1. Order'
    BY SameSlots DEF Order, Window, BacklogBound, Register, Overtaken, Backlog, Stored,
                     Unchecked, Using, InFlight, Holding, Deciding
  <2>2. net = "jump" => reg = pendingWrite
    <3>1. ~(net = "jump" /\ reg < pendingWrite)
      BY ZenonT(20) DEF Drop
    <3>2. reg \in Nat /\ reg <= pendingWrite
      BY DEF Register
    <3> QED
      BY <3>1, <3>2
  <2>3. Overtaken'
    BY <2>2 DEF Order, Overtaken, BacklogBound, Register, Backlog, Stored, Unchecked, Using,
                InFlight, Holding, Deciding
  <2>4. DecisionHolds'
    BY SameSlots DEF DecisionHolds, Order, Overtaken, BacklogBound, Backlog, Stored,
                     Unchecked, Using, InFlight, Holding, Deciding
  <2> QED
    BY <1>1, <1>2, <2>1, <2>3, <2>4
<1> QED
  BY <1>1, <1>2, <1>3

LEMMA SlotLoopExit ==
  ASSUME CountInv, SlotInv, LoopExit
  PROVE  SlotInv'
<1> USE Sizes DEF CountInv, TypeOK, SlotInv, Undisturbed, LoopExit, Hungry, netVars, locals,
                  audioVars, history
<1>1. SlotsHold'
  BY SameSlots DEF SlotsHold, Stored
<1>2. Window'
  BY DEF Window, BacklogBound, Register, Backlog, Stored, Unchecked, Using, InFlight,
         Holding, Deciding
<1>3. CASE Undisturbed /\ ~undone'
  <2> USE <1>3
  <2>1. Order'
    BY SameSlots DEF Order, Window, BacklogBound, Register, Overtaken, Backlog, Stored,
                     Unchecked, Using, InFlight, Holding, Deciding
  <2>2. Overtaken'
    BY DEF Order, Overtaken, BacklogBound, Register, Backlog, Stored, Unchecked, Using,
           InFlight, Holding, Deciding
  <2>3. DecisionHolds'
    BY SameSlots DEF DecisionHolds, Order, Overtaken, BacklogBound, Backlog, Stored,
                     Unchecked, Using, InFlight, Holding, Deciding
  <2> QED
    BY <1>1, <1>2, <2>1, <2>2, <2>3
<1> QED
  BY <1>1, <1>2, <1>3

LEMMA SlotPlay ==
  ASSUME CountInv, SlotInv, Play
  PROVE  SlotInv'
<1> USE Sizes DEF CountInv, TypeOK, SlotInv, Undisturbed, Play, Owed, netVars, locals,
                  history
<1>1. SlotsHold'
  BY SameSlots DEF SlotsHold, Stored
<1>2. Window'
  BY DEF Window, BacklogBound, Register, Backlog, Stored, Unchecked, Using, InFlight,
         Holding, Deciding
<1>3. CASE Undisturbed /\ ~undone'
  <2> USE <1>3
  <2>1. Order'
    BY SameSlots DEF Order, Window, BacklogBound, Register, Overtaken, Backlog, Stored,
                     Unchecked, Using, InFlight, Holding, Deciding
  <2>2. Overtaken'
    BY DEF Order, Overtaken, BacklogBound, Register, Backlog, Stored, Unchecked, Using,
           InFlight, Holding, Deciding
  <2>3. DecisionHolds'
    BY SameSlots DEF DecisionHolds, Order, Overtaken, BacklogBound, Backlog, Stored,
                     Unchecked, Using, InFlight, Holding, Deciding
  <2> QED
    BY <1>1, <1>2, <2>1, <2>2, <2>3
<1> QED
  BY <1>1, <1>2, <1>3

-----------------------------------------------------------------------------
(***************************************************************************)
(* The invariants hold.                                                    *)
(***************************************************************************)

LEMMA InitInv == Init => CountInv /\ SlotInv
<1> SUFFICES ASSUME Init
             PROVE  CountInv /\ SlotInv
  OBVIOUS
<1>1. /\ pendingRead = 0 /\ pendingWrite = 0 /\ net = "idle" /\ pc = "idle" /\ reg = None
      /\ primed = FALSE /\ cur = None /\ next = None /\ action = "none" /\ samples = 0
      /\ gap = 0 /\ skipped = InitialDebt /\ recovery = -1
      /\ burst = 0 /\ lag = 0 /\ undone = FALSE /\ heard = 0
  BY DEF Init
<1>2. TypeOK
  <2>1. slots \in [0..Capacity - 1 -> [id : Nat \cup {None}, kind : Kinds]]
    BY DEF Init, Kinds
  <2>2. /\ samples \in 0..SamplesPerFrame /\ skipped \in 0..SkipMax
        /\ pendingRead \in Nat /\ pendingWrite \in Nat /\ gap \in Nat
        /\ burst \in Nat /\ lag \in Nat /\ heard \in Nat
    BY <1>1, Sizes
  <2>3. /\ net \in {"idle", "storing", "early", "check", "jump"}
        /\ pc \in {"idle", "loop", "fetch", "peek", "decode", "apply", "adjust",
                   "trim", "drop", "play"} \cup Deciding
        /\ primed \in BOOLEAN /\ undone \in BOOLEAN
        /\ action \in {"none", "skip", "rewind", "speedup"}
    BY <1>1
  <2>4. /\ reg \in Nat \cup {None} /\ cur \in Nat \cup {None}
        /\ next \in Nat \cup {None} /\ recovery \in Nat \cup {-1}
    BY <1>1
  <2> QED
    BY <2>1, <2>2, <2>3, <2>4 DEF TypeOK
<1>3. BacklogBound /\ Register /\ RecoveryAlone /\ RingFillBounded
  BY <1>1, Sizes DEF BacklogBound, Register, RecoveryAlone, RingFillBounded, Backlog,
                     Using, InFlight, Holding, Deciding, Unchecked
<1>4. SlotsHold /\ Window
  BY <1>1, Sizes DEF SlotsHold, Window, Stored, InFlight, Holding, Deciding
<1>5. Order /\ Overtaken /\ DecisionHolds
  BY <1>1, Sizes DEF Order, Overtaken, DecisionHolds, Using, Deciding
<1> QED
  BY <1>2, <1>3, <1>4, <1>5 DEF CountInv, SlotInv, Undisturbed

LEMMA Stutter ==
  ASSUME UNCHANGED vars
  PROVE  (CountInv => CountInv') /\ (SlotInv => SlotInv')
<1>1. /\ slots' = slots /\ pendingWrite' = pendingWrite /\ net' = net
      /\ pendingRead' = pendingRead /\ pc' = pc /\ primed' = primed /\ reg' = reg
      /\ cur' = cur /\ next' = next /\ action' = action /\ samples' = samples
      /\ gap' = gap /\ skipped' = skipped /\ recovery' = recovery
      /\ burst' = burst /\ lag' = lag /\ undone' = undone /\ heard' = heard
  BY DEF vars, netVars, locals, audioVars, history
<1>2. CountInv => CountInv'
  BY <1>1 DEF CountInv, TypeOK, BacklogBound, Backlog, Register, RecoveryAlone,
              RingFillBounded, Stored, Unchecked, Using, InFlight, Holding, Deciding
<1>3. SlotInv => SlotInv'
  BY <1>1, SameSlots DEF SlotInv, SlotsHold, Window, Undisturbed, Order, Overtaken,
              DecisionHolds, Quiet, Slot, Stored, Using, InFlight, Holding, Deciding
<1> QED
  BY <1>2, <1>3

LEMMA NextCountInv == CountInv /\ [Next]_vars => CountInv'
<1> SUFFICES ASSUME CountInv, [Next]_vars
             PROVE  CountInv'
  OBVIOUS
<1>1. CASE Network
  BY <1>1, CountStoreFrame, CountPublish, CountPublishEarly, CountStoreFrameLate,
     CountCheckOverrun, CountJump DEF Network
<1>2. CASE Player
  BY <1>2, CountCallback, CountTake, CountStoreTaken, CountPeek, CountDecode,
     CountDecide, CountApply, CountStoreAdjusted, CountTrim, CountDrop,
     CountLoopExit, CountPlay DEF Player
<1> QED
  BY <1>1, <1>2, Stutter DEF Next

LEMMA NextSlotInv ==
  ASSUME InOrder
  PROVE  CountInv /\ SlotInv /\ [Next]_vars => SlotInv'
<1> SUFFICES ASSUME CountInv, SlotInv, [Next]_vars
             PROVE  SlotInv'
  OBVIOUS
<1>1. CASE Network
  <2>1. ~PublishEarly /\ \A kind \in Kinds : ~StoreFrameLate(kind)
    BY DEF PublishEarly, StoreFrameLate, SlotInv, SlotsHold
  <2> QED
    BY <1>1, <2>1, SlotStoreFrame, SlotPublish, SlotCheckOverrun, SlotJump DEF Network
<1>2. CASE Player
  BY <1>2, SlotCallback, SlotTake, SlotStoreTaken, SlotPeek, SlotDecode,
     SlotDecide, SlotApply, SlotStoreAdjusted, SlotTrim, SlotDrop,
     SlotLoopExit, SlotPlay DEF Player
<1> QED
  BY <1>1, <1>2, Stutter DEF Next

\* Whatever the order in which the network thread's stores become visible, the
\* bounds on the cursors of mPendingBuffer are an invariant.
THEOREM CountInvHolds == Spec => []CountInv
<1>1. Init => CountInv
  BY InitInv
<1> QED
  BY <1>1, NextCountInv, PTL DEF Spec

\* When stores are seen in order, so is what the slots hold.
THEOREM SlotInvHolds == ASSUME InOrder PROVE Spec => []SlotInv
<1>1. Init => SlotInv
  BY InitInv
<1> QED
  BY <1>1, NextSlotInv, CountInvHolds, PTL DEF Spec

-----------------------------------------------------------------------------
(***************************************************************************)
(* The theorems.                                                           *)
(***************************************************************************)

\* Type correctness of the queue and of the locals of decodeNextFrame.
THEOREM TypeCorrect == Spec => []TypeOK
<1>1. CountInv => TypeOK
  BY DEF CountInv
<1> QED
  BY <1>1, CountInvHolds, PTL

\* For every capacity, drop limit, scheduling and memory order, the backlog fits
\* the slots, although both threads assign mPendingRead and lose each other's
\* assignments.
THEOREM BacklogIsBounded == Spec => []BacklogBounded
<1>1. CountInv => BacklogBounded
  BY Sizes DEF CountInv, TypeOK, BacklogBound, BacklogBounded, Backlog, Stored,
               Unchecked, Using, InFlight, Holding, Deciding
<1> QED
  BY <1>1, CountInvHolds, PTL

\* The playback ring never holds two whole frames ahead of the device.
THEOREM RingFillIsBounded == Spec => []RingFillBounded
<1>1. CountInv => RingFillBounded
  BY DEF CountInv
<1> QED
  BY <1>1, CountInvHolds, PTL

\* Recovery from an underrun never owes silence, hence never has any to repeat.
THEOREM RecoveryOwesNothing == Spec => []NoDebtInRecovery
<1>1. CountInv => NoDebtInRecovery
  BY DEF CountInv, RecoveryAlone, NoDebtInRecovery
<1> QED
  BY <1>1, CountInvHolds, PTL

\* When stores are seen in order, every frame still to be played is in its slot.
THEOREM PendingFramesAreStored == ASSUME InOrder PROVE Spec => []PendingFramesStored
<1>1. CountInv /\ SlotInv => PendingFramesStored
  <2> SUFFICES ASSUME CountInv, SlotInv, NEW i \in pendingRead..pendingWrite - 1
               PROVE  Slot(i).id = i
    BY DEF PendingFramesStored
  <2>1. Stored <= pendingRead + Capacity /\ pendingWrite <= Stored
    BY Sizes DEF CountInv, TypeOK, BacklogBound, Backlog, Stored,
                 Unchecked, Using, InFlight, Holding, Deciding
  <2> QED
    BY <2>1, Sizes DEF CountInv, TypeOK, SlotInv, SlotsHold, Stored
<1> QED
  BY <1>1, CountInvHolds, SlotInvHolds, PTL

\* The frames decodeNextFrame points to across the codec call are not
\* overwritten while at most MaxBurst frames arrive during one decode.
THEOREM HeldFramesAreIntact == ASSUME InOrder PROVE Spec => []HeldFramesIntact
<1>1. CountInv /\ SlotInv => HeldFramesIntact
  <2> SUFFICES ASSUME CountInv, SlotInv, Holding
               PROVE  /\ Slot(cur).id = cur
                      /\ pc \notin {"fetch", "peek"} /\ next # None => Slot(next).id = next
    BY DEF HeldFramesIntact
  <2> USE Sizes DEF CountInv, TypeOK, SlotInv, BacklogBound, Window, SlotsHold,
                    Holding, InFlight, Deciding
  <2>1. cur \in 0..Stored - 1 /\ Stored <= cur + Capacity
    BY DEF Stored
  <2>2. pc \notin {"fetch", "peek"} /\ next # None =>
          next \in 0..Stored - 1 /\ Stored <= next + Capacity
    BY DEF Stored, None
  <2> QED
    BY <2>1, <2>2
<1> QED
  BY <1>1, CountInvHolds, SlotInvHolds, PTL

\* The refinement: which step of PlayoutQueue a step of the two threads is.
LEMMA InitRefinesQueue == Init => Queue!Init
BY DEF Init, Queue!Init, Queue!Nothing, Decoding, None

\* A step that neither publishes, decodes nor moves the history is a stutter.
LEMMA QueueStutters ==
  ASSUME pendingWrite' = pendingWrite, heard' = heard, undone' = undone,
         Decoding' = Decoding
  PROVE  UNCHANGED Queue!queueVars
BY DEF Queue!queueVars

\* The frame in hand is intact, recent and, unless a drop is being undone, later
\* than the last one heard.
LEMMA HeldFrame ==
  ASSUME CountInv, SlotInv, pc \in {"peek", "decode"}
  PROVE  /\ Slot(cur).id = cur /\ cur \in Queue!Recent
         /\ cur \in Nat /\ (heard <= cur \/ undone)
<1> USE Sizes DEF CountInv, TypeOK, SlotInv, Undisturbed, BacklogBound, Window, SlotsHold,
                  Order, Using, Holding, InFlight, Deciding
<1>1. /\ cur \in 0..Stored - 1 /\ Stored <= cur + Capacity
      /\ cur < pendingWrite /\ pendingWrite - cur <= DropLimit + 1 + MaxBurst
  BY DEF Stored
<1>2. Slot(cur).id = cur
  BY <1>1
<1>3. cur \in Queue!Recent
  BY <1>1 DEF Queue!Recent
<1> QED
  BY <1>2, <1>3

\* A frame that arrives while the codec reads is stored in another slot.
LEMMA StoreWhileDecoding ==
  ASSUME CountInv, SlotInv, NEW kind \in Kinds, StoreFrame(kind)
  PROVE  Decoding' = Decoding
<1>1. pc' = pc /\ cur' = cur
  BY DEF StoreFrame, Arrive, locals
<1>2. CASE pc = "decode"
  <2>1. cur \in Nat /\ cur < pendingWrite /\ pendingWrite < cur + Capacity
    BY <1>2, Sizes DEF CountInv, TypeOK, SlotInv, Window, BacklogBound, Stored, InFlight,
                       Holding, StoreFrame, Arrive
  <2>2. slots'[cur % Capacity] = slots[cur % Capacity]
    BY <2>1, StoreKeepsSlots
  <2> QED
    BY <1>1, <2>2 DEF Decoding, Quiet, Slot
<1> QED
  BY <1>1, <1>2 DEF Decoding

LEMMA NetworkRefinesQueue ==
  ASSUME InOrder, CountInv, SlotInv, Network
  PROVE  [Queue!Next]_(Queue!queueVars)
<1>1. ASSUME NEW kind \in Kinds, StoreFrame(kind)
      PROVE  UNCHANGED Queue!queueVars
  BY <1>1, StoreWhileDecoding, QueueStutters DEF StoreFrame, Arrive
<1>2. CASE Publish
  <2>1. Decoding' = Decoding
    BY <1>2, SameSlots DEF Publish, Decoding, Quiet, Slot, locals
  <2> QED
    BY <1>2, <2>1 DEF Publish, history, Queue!Next, Queue!Arrive
<1>3. CASE CheckOverrun \/ Jump
  <2>1. Decoding' = Decoding
    BY <1>3 DEF CheckOverrun, Jump, Decoding, Quiet, Slot, locals
  <2> QED
    BY <1>3, <2>1, QueueStutters DEF CheckOverrun, Jump, history
<1>4. ~PublishEarly /\ \A kind \in Kinds : ~StoreFrameLate(kind)
  BY DEF PublishEarly, StoreFrameLate, SlotInv, SlotsHold
<1> QED
  BY <1>1, <1>2, <1>3, <1>4 DEF Network

LEMMA PlayerRefinesQueue ==
  ASSUME CountInv, SlotInv, Player
  PROVE  [Queue!Next]_(Queue!queueVars)
<1>1. CASE Peek
  <2>1. /\ pc = "peek" /\ pc' = "decode" /\ cur' = cur /\ slots' = slots
        /\ pendingWrite' = pendingWrite /\ heard' = heard /\ undone' = undone
    BY <1>1 DEF Peek, netVars, history
  <2>2. Slot(cur)' = Slot(cur) /\ Quiet(cur)' = Quiet(cur)
    BY <2>1 DEF Slot, Quiet
  <2>3. CASE Quiet(cur)
    BY <2>1, <2>2, <2>3, QueueStutters DEF Decoding
  <2>4. CASE ~Quiet(cur)
    <3>1. Decoding = Queue!Nothing /\ Decoding' = cur
      BY <2>1, <2>2, <2>4, HeldFrame DEF Decoding, None, Queue!Nothing
    <3>2. Queue!Begin(cur)
      BY <2>1, <3>1, HeldFrame DEF Queue!Begin
    <3> QED
      BY <2>1, <3>2, HeldFrame DEF Queue!Next
  <2> QED
    BY <2>3, <2>4
<1>2. CASE Decode
  <2>1. /\ pc = "decode" /\ pc' = "decide" /\ undone' = undone
        /\ pendingWrite' = pendingWrite
        /\ heard' = IF Quiet(cur) THEN heard ELSE Slot(cur).id + 1
    BY <1>2 DEF Decode, netVars
  <2>2. Decoding' = None
    BY <2>1 DEF Decoding
  <2>3. CASE Quiet(cur)
    BY <2>1, <2>2, <2>3, QueueStutters DEF Decoding
  <2>4. CASE ~Quiet(cur)
    <3>1. Decoding = Slot(cur).id /\ Decoding # None
      BY <2>1, <2>4, HeldFrame DEF Decoding, None
    <3>2. Queue!End
      BY <2>1, <2>2, <2>4, <3>1 DEF Queue!End, Queue!Nothing, None
    <3> QED
      BY <3>2 DEF Queue!Next
  <2> QED
    BY <2>3, <2>4
<1>3. CASE Callback
  <2>1. Decoding = Queue!Nothing /\ Decoding' = Queue!Nothing
    BY <1>3 DEF Callback, Decoding, Queue!Nothing, None
  <2>2. undone' \in BOOLEAN /\ heard' = heard /\ pendingWrite' = pendingWrite
    BY <1>3, CountCallback DEF Callback, CountInv, TypeOK, netVars
  <2>3. CASE undone'
    BY <2>1, <2>2, <2>3 DEF Queue!Next, Queue!StepBack
  <2>4. CASE ~undone'
    BY <2>1, <2>2, <2>4 DEF Queue!Next, Queue!Recover
  <2> QED
    BY <2>3, <2>4
<1>4. CASE Drop
  <2>1. Decoding = Queue!Nothing /\ Decoding' = Queue!Nothing
    BY <1>4 DEF Drop, EndOfBody, Decoding, Queue!Nothing, None
  <2>2. undone' \in BOOLEAN /\ heard' = heard /\ pendingWrite' = pendingWrite
    BY <1>4, CountDrop DEF Drop, CountInv, TypeOK, netVars
  <2>3. CASE undone'
    BY <2>1, <2>2, <2>3 DEF Queue!Next, Queue!StepBack
  <2>4. CASE ~undone'
    BY <2>1, <2>2, <2>4 DEF Queue!Next, Queue!Recover
  <2> QED
    BY <2>3, <2>4
<1>5. CASE Take \/ StoreTaken \/ Decide \/ Apply \/ StoreAdjusted \/ Trim \/ LoopExit
           \/ Play
  <2>1. pc # "decode" /\ pc' # "decode"
    BY <1>5, DecideFacts DEF DecideOutcome, Deciding, Take, StoreTaken, Apply, ApplySkip,
         ApplyRewind, ApplyOther, StoreAdjusted, Trim, EndOfBody, LoopExit, Play
  <2>2. pendingWrite' = pendingWrite /\ heard' = heard /\ undone' = undone
    BY <1>5, DecideFacts DEF DecideOutcome, Take, StoreTaken, Apply, StoreAdjusted, Trim,
         LoopExit, Play, netVars, history
  <2> QED
    BY <2>1, <2>2, QueueStutters DEF Decoding
<1> QED
  BY <1>1, <1>2, <1>3, <1>4, <1>5 DEF Player

\* The queue keeps its promise to the listener (PlayoutQueue): voice is played
\* once, in order of arrival, recent and as it was received, under every
\* interleaving of the two threads' loads and stores in which no overrun undoes a
\* drop, for every size of the queue and every threshold.
THEOREM QueueIsImplemented == ASSUME InOrder PROVE Spec => ImplementsQueue
<1>1. CountInv /\ SlotInv /\ [Next]_vars => [Queue!Next]_(Queue!queueVars)
  <2>1. UNCHANGED vars => UNCHANGED Queue!queueVars
    BY DEF vars, netVars, locals, history, Queue!queueVars, Decoding, Slot, Quiet
  <2> QED
    BY <2>1, NetworkRefinesQueue, PlayerRefinesQueue DEF Next
<1> QED
  BY <1>1, InitRefinesQueue, CountInvHolds, SlotInvHolds, PTL
     DEF Spec, ImplementsQueue, Queue!Spec

\* A skip discards silence and a rewind repeats the silence just decoded,
\* unless an overrun moved mPendingRead between the decision and its effect.
THEOREM SilenceOnlyAdjusted == ASSUME InOrder PROVE Spec => OnlySilenceAdjusted
<1>1. CountInv /\ SlotInv /\ [Next]_vars =>
        ( pc = "apply" /\ pc' = "adjust" /\ pendingRead = cur + 1 /\ ~undone
          => IF reg' > pendingRead THEN Quiet(pendingRead) ELSE Quiet(cur) )
  <2> SUFFICES ASSUME CountInv, SlotInv, [Next]_vars,
                      pc = "apply", pc' = "adjust", pendingRead = cur + 1, ~undone
               PROVE  IF reg' > pendingRead THEN Quiet(pendingRead) ELSE Quiet(cur)
    OBVIOUS
  <2>1. Apply
    BY DEF Next, Network, Player, vars, StoreFrame, Arrive, Publish, PublishEarly,
           StoreFrameLate, CheckOverrun, Jump, Callback, Take, StoreTaken, Peek, Decode,
           Decide, DecideSkip, DecideRepeat, DecideSpeed, EndRecoveryByBacklog,
           EndRecoveryByCount, DecideStretch, Settle, GoOn, StoreAdjusted, Trim, Drop,
           EndOfBody, LoopExit, Play
  <2>2. \/ action = "skip" /\ reg' = pendingRead + 1
        \/ action = "rewind" /\ reg' = pendingRead - 1
    BY <2>1 DEF Apply, ApplySkip, ApplyRewind, ApplyOther
  <2> QED
    BY <2>2 DEF CountInv, TypeOK, SlotInv, Undisturbed, Order, DecisionHolds
<1> QED
  BY <1>1, CountInvHolds, SlotInvHolds, PTL DEF Spec, OnlySilenceAdjusted

-----------------------------------------------------------------------------
(***************************************************************************)
(* How many frames the player still takes.                                 *)
(***************************************************************************)

LEMMA RemainingRange ==
  ASSUME CountInv
  PROVE  RemainingBounded
BY Sizes DEF CountInv, TypeOK, BacklogBound, Register, Backlog, Stored, Unchecked, Using,
             InFlight, Holding, Deciding, RemainingBounded, Remaining, ReadSoon

\* The steps that leave mPendingRead, what is about to be stored in it and the
\* debt alone.
LEMMA SameRemaining ==
  ASSUME CountInv, Callback \/ StoreTaken \/ Peek \/ Decode \/ Decide \/ StoreAdjusted
                   \/ Drop \/ LoopExit
  PROVE  Remaining' = Remaining /\ ~Take
<1> USE DEF Remaining, ReadSoon, Take, netVars, audioVars, Deciding
<1>1. CASE Callback \/ StoreTaken \/ Peek \/ Decode
  BY <1>1 DEF Callback, StoreTaken, Peek, Decode
<1>2. CASE Decide
  BY <1>2, DecideFacts, Sizes DEF DecideOutcome, CountInv
<1>3. CASE StoreAdjusted \/ Drop
  BY <1>3 DEF StoreAdjusted, Drop, EndOfBody
<1>4. CASE LoopExit
  BY <1>4 DEF LoopExit
<1> QED
  BY <1>1, <1>2, <1>3, <1>4

LEMMA PlayerUsesUp ==
  ASSUME CountInv, Player
  PROVE  Remaining' <= Remaining /\ (Take => Remaining' < Remaining)
<1>1. /\ Remaining \in Int /\ pendingRead \in Nat /\ pendingWrite \in Nat
      /\ skipped \in 0..SkipMax /\ SkipMax \in Nat
  BY RemainingRange, Sizes DEF RemainingBounded, CountInv, TypeOK
<1> USE <1>1 DEF Remaining, ReadSoon, netVars, audioVars
<1>2. CASE Take
  BY <1>2 DEF Take
<1>3. CASE Apply
  BY <1>3 DEF Apply, ApplySkip, ApplyRewind, ApplyOther, Repaid, Take
<1>4. CASE Trim
  BY <1>4 DEF Trim, EndOfBody, Take, Backlog, CountInv, BacklogBound
<1>5. CASE Play
  BY <1>5 DEF Play, Owed, Take
<1>6. CASE Callback \/ StoreTaken \/ Peek \/ Decode \/ Decide \/ StoreAdjusted
           \/ Drop \/ LoopExit
  BY <1>6, SameRemaining
<1> QED
  BY <1>2, <1>3, <1>4, <1>5, <1>6 DEF Player

\* RemainingBounded: the player of decodeNextFrame never has more frames before it
\* than a full backlog, those of one decode and the silence it owes.
THEOREM RemainingIsBounded == Spec => []RemainingBounded
<1>1. CountInv => RemainingBounded
  BY RemainingRange
<1> QED
  BY <1>1, CountInvHolds, PTL

\* TakesUseUp: every frame decodeNextFrame takes brings the end of the queue
\* closer, whatever it skips, repeats or drops and whichever updates get lost.
THEOREM TakesAreUsedUp == Spec => TakesUseUp
<1> DEFINE Less == Player => Remaining' <= Remaining /\ (Take => Remaining' < Remaining)
<1>1. CountInv => [Less]_vars
  BY PlayerUsesUp
<1>2. Spec => [][Less]_vars
  BY <1>1, CountInvHolds, PTL DEF Spec
<1> QED
  BY <1>2 DEF TakesUseUp
=============================================================================
