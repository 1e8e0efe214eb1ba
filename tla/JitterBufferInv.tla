--------------------------- MODULE JitterBufferInv ---------------------------
(***************************************************************************)
(* The inductive invariants behind the safety properties of JitterBuffer.  *)
(* CountInv bounds the cursors and holds whatever the memory order;        *)
(* SlotInv says what the slots hold and needs the stores to be in order.   *)
(***************************************************************************)
EXTENDS JitterBuffer

\* Frames whose slot has been begun, the one being published included.
Stored == IF net = "storing" THEN pendingWrite + 1 ELSE pendingWrite

\* The network thread is past mPendingWrite++ and not done with the overrun.
Unchecked == net \in {"early", "check", "jump"}

\* The player has stored mPendingRead++ and still uses the frame.
Using == pc \in {"peek", "decode", "apply"} \cup Deciding

\* Between two frames the backlog exceeds DropLimit by an unchecked frame at
\* most; while the player is busy with one, by those that came meanwhile.
BacklogBound ==
  /\ pendingRead <= pendingWrite
  /\ burst <= MaxBurst
  /\ InFlight => cur \in Nat
  /\ ~InFlight => Backlog <= DropLimit + (IF Unchecked THEN 1 ELSE 0)
  /\ pc \in {"fetch", "adjust", "trim", "drop"} =>
       Stored <= pendingRead + DropLimit + 1 + burst
  /\ Using => Stored <= pendingRead + DropLimit + burst /\ pendingRead >= 1
  /\ pc = "apply" /\ action = "skip" => Backlog >= 1
  /\ net = "early" => pendingWrite >= 1
  /\ net = "jump" => pendingWrite > DropLimit
  /\ net # "jump" => lag = 0

\* What is about to be stored in mPendingRead would respect the same bounds.
Register ==
  /\ pc \in {"fetch", "adjust", "drop"} => reg \in Nat /\ reg <= pendingWrite
  /\ pc = "fetch" => reg >= 1 /\ Stored <= reg + DropLimit + burst
  /\ pc = "adjust" => Stored <= reg + DropLimit + 1 + burst
  /\ pc = "drop" => Stored <= reg + 1 + burst

\* The action is settled only on the way to Apply, and never is it a skip in
\* recovery mode.
RecoveryAlone ==
  /\ pc \notin {"apply", "adjust", "trim", "drop"} => action = "none"
  /\ recovery > 0 => skipped = 0 /\ action # "skip"

\* Bounds of the cursors: whatever the interleaving and the memory order, the
\* backlog fits the slots with room for the frames that come during a decode.
CountInv ==
  TypeOK /\ BacklogBound /\ Register /\ RecoveryAlone /\ RingFillBounded

-----------------------------------------------------------------------------
\* A slot holds the frame stored last in it.
SlotsHold ==
  /\ net # "early"
  /\ \A i \in 0..Stored - 1 : Stored <= i + Capacity => Slot(i).id = i

\* The frames stored since the player took its pointers have not come round to
\* the slots pointed to.
Window ==
  /\ InFlight => cur < pendingWrite /\ Stored <= cur + DropLimit + 1 + burst
  /\ pc = "peek" => reg \in Nat /\ Stored <= reg + DropLimit + burst
  /\ pc \in {"decode"} \cup Deciding /\ next # None =>
       next < pendingWrite /\ Stored <= next + DropLimit + burst

\* Where mPendingRead and what is about to be stored in it are with respect to
\* the frame in hand and to the frames already heard.
Order ==
  /\ heard <= pendingRead
  /\ pc \in {"fetch", "adjust", "drop"} => heard <= reg
  /\ pc \in {"fetch", "peek", "decode"} => heard <= cur
  /\ pc \in Deciding /\ Quiet(cur) => heard <= cur
  /\ pc = "apply" /\ action = "rewind" => heard <= cur /\ Quiet(cur)
  /\ Using => cur < pendingRead
  /\ pc = "fetch" => reg = cur + 1 /\ cur <= pendingRead
  /\ pc = "adjust" => reg <= pendingRead + 1
  /\ pc = "peek" => cur < reg /\ reg <= pendingRead
  /\ pc \in {"decode"} \cup Deciding /\ next # None => cur < next /\ next <= pendingRead

\* The assignment that ends an overrun does not go back to a frame in hand or
\* already heard, however far the player got since the test.
Overtaken ==
  net = "jump" =>
    /\ heard <= pendingWrite - Keep
    /\ pc = "fetch" \/ Using => lag <= MaxLag /\ cur + 1 <= pendingWrite - Keep
    /\ pc = "adjust" => lag <= MaxLag + 1
    /\ \/ pc = "drop"
       \/ pc \in {"fetch", "adjust"} /\ reg <= pendingWrite - DropLimit + lag
       \/ pc \notin {"fetch", "adjust"} /\ pendingRead <= pendingWrite - DropLimit + lag
       \/ pendingRead = pendingWrite /\ ~InFlight

\* A skip decided on because two frames are silent still skips silence.
DecisionHolds ==
  pc = "apply" /\ pendingRead = cur + 1 /\ action = "skip" => Quiet(pendingRead)

\* What holds as long as no overrun undoes a drop.
Undisturbed == Order /\ Overtaken /\ DecisionHolds

\* Contents of the slots: what the player points to is what it took, and
\* mPendingRead never falls behind what was heard.
SlotInv == SlotsHold /\ Window /\ (undone \/ Undisturbed)

-----------------------------------------------------------------------------
\* What mPendingRead is, or is about to be.
ReadSoon == IF pc \in {"fetch", "adjust", "drop"} THEN reg ELSE pendingRead

\* The frames the player would still take if no more arrived: the backlog, and the
\* silence it may repeat because it has skipped some.
Remaining == (pendingWrite - ReadSoon) + skipped

\* Nothing the player does adds to these frames and each frame taken is one less,
\* so that skips and rewinds of mPendingRead cannot go on for ever.
TakesUseUp == [][Player => Remaining' <= Remaining /\ (Take => Remaining' < Remaining)]_vars

\* There are never more of them than a full backlog, the frames of one decode and
\* the silence owed, nor fewer than none.
RemainingBounded == Remaining \in 0..DropLimit + 1 + MaxBurst + SkipMax
=============================================================================
