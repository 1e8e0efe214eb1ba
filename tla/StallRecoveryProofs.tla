------------------------- MODULE StallRecoveryProofs -------------------------
(***************************************************************************)
(* Proofs about StallRecovery, for any limits and any number of restarts.  *)
(* RecoveryEnds, a liveness property, is left to TLC.                      *)
(***************************************************************************)
EXTENDS StallRecoveryInv, TLAPS

\* There are two devices, each the other's other.
LEMMA Others == /\ \A t \in Devices : Other(t) \in Devices /\ Other(Other(t)) = t
                /\ \A t, u \in Devices : u = t \/ u = Other(t)
BY DEF Devices, Other

-----------------------------------------------------------------------------
\* Everything starts at zero.
LEMMA InitInv == Init => StallInv
<1>1. SUFFICES ASSUME Init PROVE StallInv
  OBVIOUS
<1>2. 0 \in 0..Recovery
  BY StallAssumption
<1>3. TypeOK
  BY <1>1, <1>2 DEF Init, TypeOK, Devices
<1>4. Loaded
  BY <1>1 DEF Init, Loaded
<1>5. ASSUME NEW t \in Devices PROVE Noted(t) /\ InSession(t)
  BY <1>1, <1>5, Others DEF Init, Noted, InSession
<1> QED
  BY <1>3, <1>4, <1>5 DEF StallInv

\* A frame more of one device: only what the other has seen becomes old.
LEMMA AdvanceKeeps ==
  ASSUME StallInv, NEW t \in Devices, Advance(t)
  PROVE  StallInv'
<1>1. TypeOK'
  BY Others DEF StallInv, TypeOK, Advance, ctlVars, encVars
<1>2. Loaded'
  BY DEF StallInv, Loaded, Advance, encVars
<1>3. ASSUME NEW u \in Devices PROVE Noted(u)' /\ InSession(u)'
  <2>1. Other(u) \in Devices /\ Other(t) \in Devices /\ (u = t \/ u = Other(t))
    BY Others
  <2>2. Noted(u) /\ InSession(u) /\ TypeOK
    BY DEF StallInv
  <2>3. /\ write[Other(u)] \in Nat /\ seen[u] \in Nat /\ run[u] \in Nat
        /\ stall[u] \in Nat /\ carried[u] \in BOOLEAN
    BY <2>1, <2>2 DEF TypeOK
  <2>4. seen' = seen /\ stall' = stall /\ carried' = carried
    BY DEF Advance
  <2>5. CASE u = t
    <3>1. Other(u) # t
      BY <2>5 DEF Other, Devices
    <3>2. write'[Other(u)] = write[Other(u)] /\ run'[u] = run[u]
      BY <2>1, <2>2, <2>5, <3>1, Others DEF Advance, TypeOK, Other, Devices
    <3> QED
      BY <2>2, <2>4, <3>2 DEF Noted, InSession
  <2>6. CASE u = Other(t)
    <3>1. Other(u) = t
      BY <2>6, Others
    <3>2. write'[Other(u)] = write[Other(u)] + 1 /\ run'[u] = 0
      BY <2>1, <2>2, <2>6, <3>1 DEF Advance, TypeOK
    <3> QED
      BY <2>2, <2>3, <2>4, <3>2 DEF Noted, InSession
  <2> QED
    BY <2>1, <2>5, <2>6
<1> QED
  BY <1>1, <1>2, <1>3 DEF StallInv

\* A comparison: what is counted follows what the other device missed.
LEMMA CheckKeeps ==
  ASSUME StallInv, NEW t \in Devices, Check(t)
  PROVE  StallInv'
<1>1. Other(t) \in Devices
  BY Others
<1>2. TypeOK
  BY DEF StallInv
<1>3. Counted(t) \in Nat
  BY <1>1, <1>2 DEF Counted, TypeOK
<1>4. TypeOK'
  <2>1. level' \in 0..Recovery
    BY <1>2, StallAssumption DEF Check, TypeOK
  <2>2. carried' \in [Devices -> BOOLEAN]
    BY <1>1, <1>2 DEF Check, TypeOK, Stalled
  <2> QED
    BY <1>1, <1>2, <1>3, <2>1, <2>2 DEF TypeOK, Check, ctlVars, encVars
<1>5. Loaded'
  BY DEF StallInv, Loaded, Check, encVars
<1>6. ASSUME NEW u \in Devices PROVE Noted(u)' /\ InSession(u)'
  <2>1. Noted(u) /\ InSession(u)
    BY DEF StallInv
  <2>2. write' = write
    BY DEF Check
  <2>3. CASE u # t
    <3>1. /\ seen'[u] = seen[u] /\ stall'[u] = stall[u]
          /\ run'[u] = run[u] /\ carried'[u] = carried[u]
      BY <1>2, <2>3 DEF Check, TypeOK
    <3> QED
      BY <2>1, <2>2, <3>1 DEF Noted, InSession
  <2>4. CASE u = t
    <3>1. /\ write[Other(t)] \in Nat /\ seen[t] \in Nat /\ run[t] \in Nat
          /\ stall[t] \in Nat /\ carried[t] \in BOOLEAN
      BY <1>1, <1>2 DEF TypeOK
    <3>2. /\ seen'[t] = write[Other(t)] /\ stall'[t] = Counted(t)
          /\ run'[t] = run[t] + 1 /\ carried'[t] = (carried[t] /\ Stalled(t))
      BY <1>2 DEF Check, TypeOK
    <3>3. Counted(t) >= run[t]
      BY <2>1, <2>4, <3>1 DEF Noted, Counted, Stalled
    <3>4. Noted(t)'
      BY <1>3, <2>2, <3>1, <3>2, <3>3 DEF Noted
    <3>5. ~carried'[t] => Counted(t) =< run[t] + 1
      BY <2>1, <2>4, <3>1, <3>2 DEF InSession, Counted, Stalled
    <3>6. InSession(t)'
      BY <1>3, <2>2, <3>1, <3>2, <3>5 DEF InSession
    <3> QED
      BY <2>4, <3>4, <3>6
  <2> QED
    BY <2>3, <2>4
<1> QED
  BY <1>4, <1>5, <1>6 DEF StallInv

\* Counts are zeroed: they are mixed with older ones from now on.
LEMMA ResetKeeps ==
  ASSUME StallInv, NEW zero \in SUBSET Devices, Reset(zero),
         UNCHANGED <<seen, stall, run, level, place, encVars>>,
         ctl' \in {"idle", "armed"}, recording' \in BOOLEAN, starts' \in Nat
  PROVE  StallInv'
<1>1. TypeOK
  BY DEF StallInv
<1>2. TypeOK'
  BY <1>1, Others DEF TypeOK, Reset, encVars
<1>3. Loaded'
  BY DEF StallInv, Loaded, encVars
<1>4. ASSUME NEW u \in Devices PROVE Noted(u)' /\ InSession(u)'
  <2>1. Noted(u) /\ InSession(u) /\ Other(u) \in Devices
    BY Others DEF StallInv
  <2>2. write[Other(u)] \in Nat /\ seen[u] \in Nat /\ write'[Other(u)] \in Nat
    BY <1>1, <1>2, <2>1 DEF TypeOK
  <2>3. write'[Other(u)] = IF Other(u) \in zero THEN 0 ELSE write[Other(u)]
    BY <2>1 DEF Reset
  <2>4. carried'[u] = (carried[u] \/ Other(u) \in zero)
    BY DEF Reset
  <2>5. Noted(u)'
    BY <2>1, <2>2, <2>3 DEF Noted
  <2>6. InSession(u)'
    <3>1. CASE Other(u) \in zero
      BY <2>4, <3>1 DEF InSession
    <3>2. CASE Other(u) \notin zero
      BY <2>1, <2>3, <2>4, <3>2 DEF InSession
    <3> QED
      BY <3>1, <3>2
  <2> QED
    BY <2>5, <2>6
<1> QED
  BY <1>2, <1>3, <1>4 DEF StallInv

\* The counts, and with them what is said of them, are left alone.
LEMMA CountsKept ==
  ASSUME StallInv, UNCHANGED countVars
  PROVE  \A t \in Devices : Noted(t)' /\ InSession(t)'
<1>1. ASSUME NEW t \in Devices PROVE Noted(t)' /\ InSession(t)'
  <2>1. Noted(t) /\ InSession(t)
    BY DEF StallInv
  <2> QED
    BY <2>1 DEF Noted, InSession, countVars
<1> QED
  BY <1>1

\* A call of the control thread.
LEMMA ControlKeeps ==
  ASSUME StallInv, Control
  PROVE  StallInv'
<1>1. TypeOK /\ Loaded
  BY DEF StallInv
<1>2. CASE Prepare
  <2>1. PICK zero \in {{"recorder"}, Devices} : Reset(zero)
    BY <1>2 DEF Prepare
  <2>2. zero \in SUBSET Devices
    BY <2>1 DEF Devices
  <2> QED
    BY <1>1, <1>2, <2>1, <2>2, ResetKeeps DEF Prepare, TypeOK
<1>3. CASE Rearm
  <2>1. {"recorder"} \in SUBSET Devices
    BY DEF Devices
  <2>2. starts' \in Nat
    BY <1>1, <1>3 DEF Rearm, TypeOK
  <2> QED
    BY <1>1, <1>3, <2>1, <2>2, ResetKeeps DEF Rearm, TypeOK
<1>4. CASE Record \/ Play \/ StartFails \/ Started \/ Stop \/ Halt
  <2>1. UNCHANGED <<countVars, level, place, encVars>>
    BY <1>4 DEF Record, Play, StartFails, Started, Stop, Halt
  <2>2. /\ running' \subseteq Devices
        /\ ctl' \in {"idle", "armed", "record", "play", "stop"}
        /\ recording' \in BOOLEAN /\ starts' \in Nat
    BY <1>1, <1>4 DEF TypeOK, Record, Play, StartFails, Started, Stop, Halt, Devices
  <2>3. TypeOK'
    BY <1>1, <2>1, <2>2 DEF TypeOK, countVars, encVars
  <2>4. Loaded'
    BY <1>1, <2>1 DEF Loaded, encVars
  <2> QED
    BY <2>1, <2>3, <2>4, CountsKept DEF StallInv
<1> QED
  BY <1>2, <1>3, <1>4 DEF Control

\* A step of the encoder.
LEMMA EncoderKeeps ==
  ASSUME StallInv, Encoder
  PROVE  StallInv'
<1>1. TypeOK /\ Loaded
  BY DEF StallInv
<1>2. UNCHANGED <<countVars, place, ctlVars>>
  BY DEF Encoder, Enter, Leave, LoadLevel, StoreLevel
<1>3. CASE Enter \/ Leave
  <2>1. TypeOK'
    BY <1>1, <1>3 DEF TypeOK, Enter, Leave, countVars, ctlVars
  <2>2. Loaded'
    BY <1>3 DEF Loaded, Enter, Leave
  <2> QED
    BY <1>2, <2>1, <2>2, CountsKept DEF StallInv
<1>4. CASE LoadLevel
  <2>1. TypeOK'
    BY <1>1, <1>4 DEF TypeOK, LoadLevel, countVars, ctlVars
  <2>2. Loaded'
    BY <1>4 DEF Loaded, LoadLevel, Recovering
  <2> QED
    BY <1>2, <2>1, <2>2, CountsKept DEF StallInv
<1>5. CASE StoreLevel
  <2>1. reg - 1 \in 0..Recovery /\ 0 \in 0..Recovery
    BY <1>1, <1>5, StallAssumption DEF TypeOK, Loaded, StoreLevel
  <2>2. TypeOK'
    BY <1>1, <1>5, <2>1 DEF TypeOK, StoreLevel, Lowered, countVars, ctlVars
  <2>3. Loaded'
    BY <1>5 DEF Loaded, StoreLevel
  <2> QED
    BY <1>2, <2>2, <2>3, CountsKept DEF StallInv
<1> QED
  BY <1>3, <1>4, <1>5 DEF Encoder

-----------------------------------------------------------------------------
\* Every step preserves the invariant.
LEMMA StallStep == StallInv /\ [Next]_vars => StallInv'
<1>1. SUFFICES ASSUME StallInv, [Next]_vars PROVE StallInv'
  OBVIOUS
<1>2. CASE UNCHANGED vars
  <2>1. TypeOK' /\ Loaded'
    BY <1>1, <1>2 DEF StallInv, TypeOK, Loaded, vars, countVars, ctlVars, encVars
  <2> QED
    BY <1>1, <1>2, <2>1, CountsKept DEF StallInv, vars
<1>3. CASE Control
  BY <1>1, <1>3, ControlKeeps
<1>4. CASE Encoder
  BY <1>1, <1>4, EncoderKeeps
<1>5. ASSUME NEW t \in Devices, Callback(t) PROVE StallInv'
  BY <1>1, <1>5, AdvanceKeeps, CheckKeeps DEF Callback
<1> QED
  BY <1>1, <1>2, <1>3, <1>4, <1>5 DEF Next

\* The counts never lose a callback the other device missed, and within a session
\* count no other, over every interleaving and restart.
THEOREM StallInvHolds == Spec => []StallInv
<1>1. Init => StallInv
  BY InitInv
<1>2. StallInv /\ [Next]_vars => StallInv'
  BY StallStep
<1> QED
  BY <1>1, <1>2, PTL DEF Spec

\* Counts and levels keep their types; the level is not taken below zero.
THEOREM TypeCorrect == Spec => []TypeOK
<1>1. StallInv => TypeOK
  BY DEF StallInv
<1> QED
  BY <1>1, StallInvHolds, PTL

\* The alarm comes at the latest with the callback after the limit.
THEOREM StallsAreNoticed == Spec => []StallNoticed
<1>1. StallInv => StallNoticed
  <2>1. SUFFICES ASSUME StallInv, NEW t \in Devices, run[t] > Limit + 1
                 PROVE  stall[t] > Limit
    BY DEF StallNoticed, Alarm
  <2>2. run[t] \in Nat /\ stall[t] \in Nat /\ Limit \in Nat
    BY <2>1, StallAssumption DEF StallInv, TypeOK
  <2>3. stall[t] >= run[t] - 1
    BY <2>1 DEF StallInv, Noted
  <2> QED
    BY <2>1, <2>2, <2>3
<1> QED
  BY <1>1, StallInvHolds, PTL

\* No alarm is given for a device that has not missed as many callbacks, unless a
\* restart came between.
THEOREM AlarmsAreJustified == Spec => AlarmJustified
<1>1. StallInv' /\ StallInv /\ [Next]_vars
        => [\A t \in Devices :
              Check(t) /\ Alarm(t)' => run'[t] > Limit \/ carried'[t]]_vars
  <2>1. SUFFICES ASSUME StallInv, StallInv', NEW t \in Devices,
                        Check(t), Alarm(t)', ~carried'[t]
                 PROVE  run'[t] > Limit
    OBVIOUS
  <2>2. /\ run'[t] \in Nat /\ stall'[t] \in Nat /\ Limit \in Nat
        /\ write'[Other(t)] \in Nat
    BY <2>1, Others, StallAssumption DEF StallInv, TypeOK
  <2>3. seen'[t] = write'[Other(t)]
    BY <2>1 DEF Check, StallInv, TypeOK
  <2>4. stall'[t] =< run'[t]
    BY <2>1, <2>2, <2>3 DEF StallInv, InSession
  <2>5. stall'[t] > Limit
    BY <2>1 DEF Alarm
  <2> QED
    BY <2>2, <2>4, <2>5
<1> QED
  BY <1>1, StallInvHolds, PTL DEF Spec, AlarmJustified

\* CountsDown: runEncoding takes mCurrentStallLevel down to zero in at most
\* STALL_RECOVERY turns of its loop, unless a callback finds a stall meanwhile.
THEOREM RecoveriesCountDown == Spec => CountsDown
<1> DEFINE Down ==
      /\ LoadLevel \/ StoreLevel => CountDown' = CountDown - 1
      /\ CountDown' > CountDown =>
           /\ enc # "recover" /\ CountDown' = 2 * Recovery
           /\ \E t \in Devices : Check(t) /\ Alarm(t)'
<1>1. ASSUME StallInv, [Next]_vars
      PROVE  [Down]_vars
  <2>1. SUFFICES ASSUME Next
                 PROVE  Down
    BY <1>1
  <2>2. /\ level \in 0..Recovery /\ reg \in 0..Recovery /\ Recovery \in Nat
        /\ CountDown \in Int
    <3>1. level \in 0..Recovery /\ reg \in 0..Recovery /\ Recovery \in Nat
      BY <1>1, StallAssumption DEF StallInv, TypeOK
    <3> QED
      BY <3>1 DEF CountDown
  <2>3. CASE LoadLevel
    <3>1. CountDown = 2 * level /\ CountDown' = 2 * level - 1
      BY <2>3 DEF LoadLevel, CountDown
    <3> QED
      BY <2>2, <3>1
  <2>4. CASE StoreLevel
    <3>1. CountDown = 2 * reg - 1 /\ CountDown' = 2 * (reg - 1)
      BY <2>4 DEF StoreLevel, Lowered, CountDown
    <3> QED
      BY <2>2, <3>1
  <2>5. CASE Enter \/ Leave \/ Control
    <3>1. ~LoadLevel /\ ~StoreLevel /\ CountDown' = CountDown
      BY <2>5 DEF Enter, Leave, LoadLevel, StoreLevel, CountDown, encVars,
         Control, Prepare, Rearm, Record, Play, StartFails, Started, Stop, Halt, ctlVars
    <3> QED
      BY <2>2, <3>1
  <2>6. ASSUME NEW t \in Devices, Callback(t)
        PROVE  Down
    <3>1. UNCHANGED encVars /\ UNCHANGED ctlVars
      BY <2>6 DEF Callback, Advance, Check
    <3>2. ~LoadLevel /\ ~StoreLevel
      BY <3>1 DEF LoadLevel, StoreLevel, encVars
    <3>3. CASE Advance(t)
      <4>1. CountDown' = CountDown
        BY <3>1, <3>3 DEF Advance, CountDown, encVars
      <4> QED
        BY <2>2, <3>2, <4>1
    <3>4. CASE Check(t)
      <4>1. CASE Counted(t) > Limit /\ enc # "recover"
        <5>1. CountDown' = 2 * Recovery
          BY <3>1, <3>4, <4>1 DEF Check, CountDown, encVars
        <5>2. Alarm(t)'
          BY <1>1, <3>4, <4>1 DEF StallInv, TypeOK, Check, Alarm
        <5> QED
          BY <2>6, <3>2, <3>4, <4>1, <5>1, <5>2
      <4>2. CASE ~(Counted(t) > Limit) \/ enc = "recover"
        <5>1. CountDown' = CountDown
          BY <3>1, <3>4, <4>2 DEF Check, CountDown, encVars
        <5> QED
          BY <2>2, <3>2, <5>1
      <4> QED
        BY <4>1, <4>2
    <3> QED
      BY <2>6, <3>3, <3>4 DEF Callback
  <2> QED
    BY <2>1, <2>3, <2>4, <2>5, <2>6 DEF Next, Encoder
<1>2. Spec => [][Down]_vars
  BY <1>1, StallInvHolds, PTL DEF Spec
<1> QED
  BY <1>2 DEF CountsDown
=============================================================================
