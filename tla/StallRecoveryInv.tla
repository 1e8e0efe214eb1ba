--------------------------- MODULE StallRecoveryInv ---------------------------
(***************************************************************************)
(* The inductive invariant of StallRecovery.                               *)
(***************************************************************************)
EXTENDS StallRecovery

\* What was seen last time is no older than the other device's last callback.
Noted(t) ==
  /\ run[t] > 0 => seen[t] >= write[Other(t)]
  /\ stall[t] >= run[t] - 1

\* Within a session the count seen is not ahead, and no callback is counted that
\* the other device did not miss.
InSession(t) ==
  ~carried[t] =>
    /\ seen[t] =< write[Other(t)]
    /\ seen[t] < write[Other(t)] \/ stall[t] =< run[t]

\* The encoder has loaded a level to take down.
Loaded == enc = "recover" => reg > 0

\* The inductive invariant of counts and levels.
StallInv == TypeOK /\ Loaded /\ \A t \in Devices : Noted(t) /\ InSession(t)

-----------------------------------------------------------------------------
\* The loads and stores the encoder still has to make: two for each frame of the
\* recovery.  What a callback stores after the load does not count, since the
\* encoder overwrites it.
CountDown == IF enc = "recover" THEN 2 * reg - 1 ELSE 2 * level

\* The encoder's loads and stores each bring mCurrentStallLevel closer to zero, and
\* only a callback that gives the alarm, outside of them, sets it back.
CountsDown ==
  [][/\ LoadLevel \/ StoreLevel => CountDown' = CountDown - 1
     /\ CountDown' > CountDown =>
          /\ enc # "recover" /\ CountDown' = 2 * Recovery
          /\ \E t \in Devices : Check(t) /\ Alarm(t)']_vars
=============================================================================
