---------------------------- MODULE SignalProofs ----------------------------
(***************************************************************************)
(* Proofs about CSignal, for any number of threads.  Inv says who holds    *)
(* the mutex and which threads are in a wait; with it every step of Signal *)
(* is a step of AutoResetEvent or a stutter.                               *)
(***************************************************************************)
EXTENDS Signal, TLAPS

Critical(t) == pc[t] \in {"test", "expired", "unlock", "raise", "signal"}
InWait(t)   == pc[t] \in {"enter", "test", "blocked", "woken", "timedout", "expired"}

\* A thread is between lock and unlock exactly when it holds the mutex.
Exclusion == \A t \in Threads : Critical(t) <=> mutex = t

\* A thread is inside wait() or wait(ms) exactly from its first to its last
\* look at the flag, and only a wait with a time limit runs out of time.
CallsMatch ==
  \A t \in Threads :
    /\ InWait(t) <=> call[t] # No
    /\ pc[t] \in {"timedout", "expired"} => call[t] = Timed

\* The deadline of a wait(ms) that has computed it is the one asked for.
Due ==
  \A t \in Threads :
    pc[t] \in {"test", "blocked", "woken", "timedout", "expired"} /\ call[t] = Timed
      => ts[t].sec * Second + ts[t].nsec = asked[t]

Inv == TypeOK /\ CallsMatch

LEMMA DeadlineType ==
  ASSUME NEW now \in ClockReadings, NEW ms \in Timeouts
  PROVE  Deadline(now, ms) \in [sec : Nat, nsec : Nat] /\ now + ms \in Nat
<1>1. now \in 0..Second - 1 /\ ms \in Nat /\ Second \in Nat \ {0}
  BY ClockAssumption
<1>2. ms % Second \in 0..Second - 1 /\ ms \div Second \in Nat
  BY <1>1
<1>3. QED
  BY <1>1, <1>2 DEF Deadline

LEMMA DeadlineSum ==
  ASSUME NEW now \in ClockReadings, NEW ms \in Timeouts
  PROVE  Deadline(now, ms).sec * Second + Deadline(now, ms).nsec = now + ms
<1>1. now \in 0..Second - 1 /\ ms \in Nat /\ Second \in Nat \ {0}
  BY ClockAssumption
<1> DEFINE q == ms \div Second
           r == ms % Second
<1>2. r \in 0..Second - 1 /\ q \in Nat
  BY <1>1
<1>3. ms = Second * q + r
  BY <1>1
<1> HIDE DEF q, r
<1>4. (q + 0) * Second = Second * q /\ (q + 1) * Second = Second * q + Second
  BY <1>1, <1>2
<1>5. QED
  BY <1>1, <1>2, <1>3, <1>4 DEF Deadline, q, r

\* Every step keeps the types.
LEMMA TypeStep ==
  ASSUME TypeOK, Next
  PROVE  TypeOK'
<1> SUFFICES ASSUME NEW t \in Threads,
                    Calling(t) \/ Locking(t) \/ Holding(t) \/ WakeSpuriously(t) \/ TimeOut(t)
             PROVE  TypeOK'
  BY DEF Next
<1>1. CASE CallWait(t)
  BY <1>1, DeadlineType, ThreadsAssumption DEF CallWait, Goto, TypeOK, Labels, No, Untimed, Timed
<1>2. CASE CallTimedWait(t)
  BY <1>2, DeadlineType, ThreadsAssumption DEF CallTimedWait, Goto, TypeOK, Labels, No, Untimed, Timed
<1>3. CASE EnterWait(t)
  BY <1>3, DeadlineType, ThreadsAssumption DEF EnterWait, Free, Goto, TypeOK, Labels, No, Untimed, Timed
<1>4. CASE TakeSignal(t)
  BY <1>4, DeadlineType, ThreadsAssumption DEF TakeSignal, Taken, Reset, Goto, TypeOK, Labels, No, Untimed, Timed
<1>5. CASE Block(t)
  BY <1>5, DeadlineType, ThreadsAssumption DEF Block, Goto, TypeOK, Labels, No, Untimed, Timed
<1>6. CASE Refused(t)
  BY <1>6, DeadlineType, ThreadsAssumption DEF Refused, vars, Goto, TypeOK, Labels, No, Untimed, Timed
<1>7. CASE WakeSpuriously(t)
  BY <1>7, DeadlineType, ThreadsAssumption DEF WakeSpuriously, Goto, TypeOK, Labels, No, Untimed, Timed
<1>8. CASE TimeOut(t)
  BY <1>8, DeadlineType, ThreadsAssumption DEF TimeOut, Goto, TypeOK, Labels, No, Untimed, Timed
<1>9. CASE Relock(t)
  BY <1>9, DeadlineType, ThreadsAssumption DEF Relock, Free, Goto, TypeOK, Labels, No, Untimed, Timed
<1>10. CASE TakeExpired(t)
  BY <1>10, DeadlineType, ThreadsAssumption DEF TakeExpired, Taken, Reset, Goto, TypeOK, Labels, No, Untimed, Timed
<1>11. CASE CallNotify(t)
  BY <1>11, DeadlineType, ThreadsAssumption DEF CallNotify, Goto, TypeOK, Labels, No, Untimed, Timed
<1>12. CASE EnterNotify(t)
  BY <1>12, DeadlineType, ThreadsAssumption DEF EnterNotify, Free, Goto, TypeOK, Labels, No, Untimed, Timed
<1>13. CASE Raise(t)
  BY <1>13, DeadlineType, ThreadsAssumption DEF Raise, Goto, TypeOK, Labels, No, Untimed, Timed
<1>14. CASE CondSignal(t)
  BY <1>14, DeadlineType, ThreadsAssumption DEF CondSignal, Woken, Blocked, Goto, TypeOK, Labels, No, Untimed, Timed
<1>15. CASE Unlock(t)
  BY <1>15, DeadlineType, ThreadsAssumption DEF Unlock, Goto, TypeOK, Labels, No, Untimed, Timed
<1>16. QED
  BY <1>1, <1>2, <1>3, <1>4, <1>5, <1>6, <1>7, <1>8, <1>9, <1>10, <1>11, <1>12, <1>13, <1>14, <1>15 DEF Calling, Locking, Holding

\* Every step keeps track of who waits.
LEMMA CallStep ==
  ASSUME TypeOK, CallsMatch, Next
  PROVE  CallsMatch'
<1> SUFFICES ASSUME NEW t \in Threads,
                    Calling(t) \/ Locking(t) \/ Holding(t) \/ WakeSpuriously(t) \/ TimeOut(t)
             PROVE  CallsMatch'
  BY DEF Next
<1>1. CASE CallWait(t)
  BY <1>1 DEF CallWait, Goto, TypeOK, CallsMatch, InWait, Labels, No, Untimed, Timed
<1>2. CASE CallTimedWait(t)
  BY <1>2 DEF CallTimedWait, Goto, TypeOK, CallsMatch, InWait, Labels, No, Untimed, Timed
<1>3. CASE EnterWait(t)
  BY <1>3 DEF EnterWait, Free, Goto, TypeOK, CallsMatch, InWait, Labels, No, Untimed, Timed
<1>4. CASE TakeSignal(t)
  BY <1>4 DEF TakeSignal, Taken, Reset, Goto, TypeOK, CallsMatch, InWait, Labels, No, Untimed, Timed
<1>5. CASE Block(t)
  BY <1>5 DEF Block, Goto, TypeOK, CallsMatch, InWait, Labels, No, Untimed, Timed
<1>6. CASE Refused(t)
  BY <1>6 DEF Refused, vars, Goto, TypeOK, CallsMatch, InWait, Labels, No, Untimed, Timed
<1>7. CASE WakeSpuriously(t)
  BY <1>7 DEF WakeSpuriously, Goto, TypeOK, CallsMatch, InWait, Labels, No, Untimed, Timed
<1>8. CASE TimeOut(t)
  BY <1>8 DEF TimeOut, Goto, TypeOK, CallsMatch, InWait, Labels, No, Untimed, Timed
<1>9. CASE Relock(t)
  BY <1>9 DEF Relock, Free, Goto, TypeOK, CallsMatch, InWait, Labels, No, Untimed, Timed
<1>10. CASE TakeExpired(t)
  BY <1>10 DEF TakeExpired, Taken, Reset, Goto, TypeOK, CallsMatch, InWait, Labels, No, Untimed, Timed
<1>11. CASE CallNotify(t)
  BY <1>11 DEF CallNotify, Goto, TypeOK, CallsMatch, InWait, Labels, No, Untimed, Timed
<1>12. CASE EnterNotify(t)
  BY <1>12 DEF EnterNotify, Free, Goto, TypeOK, CallsMatch, InWait, Labels, No, Untimed, Timed
<1>13. CASE Raise(t)
  BY <1>13 DEF Raise, Goto, TypeOK, CallsMatch, InWait, Labels, No, Untimed, Timed
<1>14. CASE CondSignal(t)
  BY <1>14 DEF CondSignal, Woken, Blocked, Goto, TypeOK, CallsMatch, InWait, Labels, No, Untimed, Timed
<1>15. CASE Unlock(t)
  BY <1>15 DEF Unlock, Goto, TypeOK, CallsMatch, InWait, Labels, No, Untimed, Timed
<1>16. QED
  BY <1>1, <1>2, <1>3, <1>4, <1>5, <1>6, <1>7, <1>8, <1>9, <1>10, <1>11, <1>12, <1>13, <1>14, <1>15 DEF Calling, Locking, Holding

\* Every step hands the mutex over correctly.
LEMMA ExclusionStep ==
  ASSUME TypeOK, Exclusion, Next
  PROVE  Exclusion'
<1> SUFFICES ASSUME NEW t \in Threads,
                    Calling(t) \/ Locking(t) \/ Holding(t) \/ WakeSpuriously(t) \/ TimeOut(t)
             PROVE  Exclusion'
  BY DEF Next
<1>1. CASE CallWait(t)
  BY <1>1, ThreadsAssumption DEF CallWait, Goto, TypeOK, Exclusion, Critical, Labels
<1>2. CASE CallTimedWait(t)
  BY <1>2, ThreadsAssumption DEF CallTimedWait, Goto, TypeOK, Exclusion, Critical, Labels
<1>3. CASE EnterWait(t)
  BY <1>3, ThreadsAssumption DEF EnterWait, Free, Goto, TypeOK, Exclusion, Critical, Labels
<1>4. CASE TakeSignal(t)
  BY <1>4, ThreadsAssumption DEF TakeSignal, Taken, Reset, Goto, TypeOK, Exclusion, Critical, Labels
<1>5. CASE Block(t)
  BY <1>5, ThreadsAssumption DEF Block, Goto, TypeOK, Exclusion, Critical, Labels
<1>6. CASE Refused(t)
  BY <1>6, ThreadsAssumption DEF Refused, vars, Goto, TypeOK, Exclusion, Critical, Labels
<1>7. CASE WakeSpuriously(t)
  BY <1>7, ThreadsAssumption DEF WakeSpuriously, Goto, TypeOK, Exclusion, Critical, Labels
<1>8. CASE TimeOut(t)
  BY <1>8, ThreadsAssumption DEF TimeOut, Goto, TypeOK, Exclusion, Critical, Labels
<1>9. CASE Relock(t)
  BY <1>9, ThreadsAssumption DEF Relock, Free, Goto, TypeOK, Exclusion, Critical, Labels
<1>10. CASE TakeExpired(t)
  BY <1>10, ThreadsAssumption DEF TakeExpired, Taken, Reset, Goto, TypeOK, Exclusion, Critical, Labels
<1>11. CASE CallNotify(t)
  BY <1>11, ThreadsAssumption DEF CallNotify, Goto, TypeOK, Exclusion, Critical, Labels
<1>12. CASE EnterNotify(t)
  BY <1>12, ThreadsAssumption DEF EnterNotify, Free, Goto, TypeOK, Exclusion, Critical, Labels
<1>13. CASE Raise(t)
  BY <1>13, ThreadsAssumption DEF Raise, Goto, TypeOK, Exclusion, Critical, Labels
<1>14. CASE CondSignal(t)
  BY <1>14, ThreadsAssumption DEF CondSignal, Woken, Blocked, Goto, TypeOK, Exclusion, Critical, Labels
<1>15. CASE Unlock(t)
  BY <1>15, ThreadsAssumption DEF Unlock, Goto, TypeOK, Exclusion, Critical, Labels
<1>16. QED
  BY <1>1, <1>2, <1>3, <1>4, <1>5, <1>6, <1>7, <1>8, <1>9, <1>10, <1>11, <1>12, <1>13, <1>14, <1>15 DEF Calling, Locking, Holding

\* No step puts the last thread to sleep while a notification is pending.
LEMMA WakeupStep ==
  ASSUME TypeOK, NoLostWakeup, Next
  PROVE  NoLostWakeup'
<1> SUFFICES ASSUME NEW t \in Threads,
                    Calling(t) \/ Locking(t) \/ Holding(t) \/ WakeSpuriously(t) \/ TimeOut(t)
             PROVE  NoLostWakeup'
  BY DEF Next
<1>1. CASE CallWait(t)
  BY <1>1 DEF CallWait, Goto, TypeOK, NoLostWakeup, Awake, Labels
<1>2. CASE CallTimedWait(t)
  BY <1>2 DEF CallTimedWait, Goto, TypeOK, NoLostWakeup, Awake, Labels
<1>3. CASE EnterWait(t)
  BY <1>3 DEF EnterWait, Free, Goto, TypeOK, NoLostWakeup, Awake, Labels
<1>4. CASE TakeSignal(t)
  BY <1>4 DEF TakeSignal, Taken, Reset, Goto, TypeOK, NoLostWakeup, Awake, Labels
<1>5. CASE Block(t)
  BY <1>5 DEF Block, Goto, TypeOK, NoLostWakeup, Awake, Labels
<1>6. CASE Refused(t)
  BY <1>6 DEF Refused, vars, Goto, TypeOK, NoLostWakeup, Awake, Labels
<1>7. CASE WakeSpuriously(t)
  BY <1>7 DEF WakeSpuriously, Goto, TypeOK, NoLostWakeup, Awake, Labels
<1>8. CASE TimeOut(t)
  BY <1>8 DEF TimeOut, Goto, TypeOK, NoLostWakeup, Awake, Labels
<1>9. CASE Relock(t)
  BY <1>9 DEF Relock, Free, Goto, TypeOK, NoLostWakeup, Awake, Labels
<1>10. CASE TakeExpired(t)
  BY <1>10 DEF TakeExpired, Taken, Reset, Goto, TypeOK, NoLostWakeup, Awake, Labels
<1>11. CASE CallNotify(t)
  BY <1>11 DEF CallNotify, Goto, TypeOK, NoLostWakeup, Awake, Labels
<1>12. CASE EnterNotify(t)
  BY <1>12 DEF EnterNotify, Free, Goto, TypeOK, NoLostWakeup, Awake, Labels
<1>13. CASE Raise(t)
  BY <1>13 DEF Raise, Goto, TypeOK, NoLostWakeup, Awake, Labels
<1>14. CASE CondSignal(t)
  BY <1>14 DEF CondSignal, Woken, Blocked, Goto, TypeOK, NoLostWakeup, Awake, Labels
<1>15. CASE Unlock(t)
  BY <1>15 DEF Unlock, Goto, TypeOK, NoLostWakeup, Awake, Labels
<1>16. QED
  BY <1>1, <1>2, <1>3, <1>4, <1>5, <1>6, <1>7, <1>8, <1>9, <1>10, <1>11, <1>12, <1>13, <1>14, <1>15 DEF Calling, Locking, Holding

\* A deadline once computed is not touched until the wait is over.
LEMMA DueStep ==
  ASSUME TypeOK, CallsMatch, Due, Next
  PROVE  Due'
<1> SUFFICES ASSUME NEW t \in Threads,
                    Calling(t) \/ Locking(t) \/ Holding(t) \/ WakeSpuriously(t) \/ TimeOut(t)
             PROVE  Due'
  BY DEF Next
<1>1. CASE CallWait(t)
  BY <1>1, DeadlineSum, DeadlineType DEF CallWait, Goto, TypeOK, CallsMatch, InWait, Due, Labels, No, Untimed, Timed
<1>2. CASE CallTimedWait(t)
  BY <1>2, DeadlineSum, DeadlineType DEF CallTimedWait, Goto, TypeOK, CallsMatch, InWait, Due, Labels, No, Untimed, Timed
<1>3. CASE EnterWait(t)
  BY <1>3, DeadlineSum, DeadlineType DEF EnterWait, Free, Goto, TypeOK, CallsMatch, InWait, Due, Labels, No, Untimed, Timed
<1>4. CASE TakeSignal(t)
  BY <1>4, DeadlineSum, DeadlineType DEF TakeSignal, Taken, Reset, Goto, TypeOK, CallsMatch, InWait, Due, Labels, No, Untimed, Timed
<1>5. CASE Block(t)
  BY <1>5, DeadlineSum, DeadlineType DEF Block, Goto, TypeOK, CallsMatch, InWait, Due, Labels, No, Untimed, Timed
<1>6. CASE Refused(t)
  BY <1>6, DeadlineSum, DeadlineType DEF Refused, vars, Goto, TypeOK, CallsMatch, InWait, Due, Labels, No, Untimed, Timed
<1>7. CASE WakeSpuriously(t)
  BY <1>7, DeadlineSum, DeadlineType DEF WakeSpuriously, Goto, TypeOK, CallsMatch, InWait, Due, Labels, No, Untimed, Timed
<1>8. CASE TimeOut(t)
  BY <1>8, DeadlineSum, DeadlineType DEF TimeOut, Goto, TypeOK, CallsMatch, InWait, Due, Labels, No, Untimed, Timed
<1>9. CASE Relock(t)
  BY <1>9, DeadlineSum, DeadlineType DEF Relock, Free, Goto, TypeOK, CallsMatch, InWait, Due, Labels, No, Untimed, Timed
<1>10. CASE TakeExpired(t)
  BY <1>10, DeadlineSum, DeadlineType DEF TakeExpired, Taken, Reset, Goto, TypeOK, CallsMatch, InWait, Due, Labels, No, Untimed, Timed
<1>11. CASE CallNotify(t)
  BY <1>11, DeadlineSum, DeadlineType DEF CallNotify, Goto, TypeOK, CallsMatch, InWait, Due, Labels, No, Untimed, Timed
<1>12. CASE EnterNotify(t)
  BY <1>12, DeadlineSum, DeadlineType DEF EnterNotify, Free, Goto, TypeOK, CallsMatch, InWait, Due, Labels, No, Untimed, Timed
<1>13. CASE Raise(t)
  BY <1>13, DeadlineSum, DeadlineType DEF Raise, Goto, TypeOK, CallsMatch, InWait, Due, Labels, No, Untimed, Timed
<1>14. CASE CondSignal(t)
  BY <1>14, DeadlineSum, DeadlineType DEF CondSignal, Woken, Blocked, Goto, TypeOK, CallsMatch, InWait, Due, Labels, No, Untimed, Timed
<1>15. CASE Unlock(t)
  BY <1>15, DeadlineSum, DeadlineType DEF Unlock, Goto, TypeOK, CallsMatch, InWait, Due, Labels, No, Untimed, Timed
<1>16. QED
  BY <1>1, <1>2, <1>3, <1>4, <1>5, <1>6, <1>7, <1>8, <1>9, <1>10, <1>11, <1>12, <1>13, <1>14, <1>15 DEF Calling, Locking, Holding

\* Every step is a step of the event, or changes nothing the event has.
LEMMA EventStep ==
  ASSUME TypeOK, CallsMatch, Next
  PROVE  [Event!Next]_(Event!eventVars)
<1> SUFFICES ASSUME NEW t \in Threads,
                    Calling(t) \/ Locking(t) \/ Holding(t) \/ WakeSpuriously(t) \/ TimeOut(t)
             PROVE  [Event!Next]_(Event!eventVars)
  BY DEF Next
<1>1. CASE CallWait(t)
  BY <1>1 DEF CallWait, Goto, TypeOK, CallsMatch, InWait, Labels, No, Untimed, Timed, Event!Next, Event!eventVars, Event!Wait, Event!Set, Event!Return, Event!Consume, Event!Expire, Event!No, Event!Untimed, Event!Timed, Event!Waits
<1>2. CASE CallTimedWait(t)
  BY <1>2 DEF CallTimedWait, Goto, TypeOK, CallsMatch, InWait, Labels, No, Untimed, Timed, Event!Next, Event!eventVars, Event!Wait, Event!Set, Event!Return, Event!Consume, Event!Expire, Event!No, Event!Untimed, Event!Timed, Event!Waits
<1>3. CASE EnterWait(t)
  BY <1>3 DEF EnterWait, Free, Goto, TypeOK, CallsMatch, InWait, Labels, No, Untimed, Timed, Event!Next, Event!eventVars, Event!Wait, Event!Set, Event!Return, Event!Consume, Event!Expire, Event!No, Event!Untimed, Event!Timed, Event!Waits
<1>4. CASE TakeSignal(t)
  BY <1>4 DEF TakeSignal, Taken, Reset, Goto, TypeOK, CallsMatch, InWait, Labels, No, Untimed, Timed, Event!Next, Event!eventVars, Event!Wait, Event!Set, Event!Return, Event!Consume, Event!Expire, Event!No, Event!Untimed, Event!Timed, Event!Waits
<1>5. CASE Block(t)
  BY <1>5 DEF Block, Goto, TypeOK, CallsMatch, InWait, Labels, No, Untimed, Timed, Event!Next, Event!eventVars, Event!Wait, Event!Set, Event!Return, Event!Consume, Event!Expire, Event!No, Event!Untimed, Event!Timed, Event!Waits
<1>6. CASE Refused(t)
  BY <1>6 DEF Refused, vars, Goto, TypeOK, CallsMatch, InWait, Labels, No, Untimed, Timed, Event!Next, Event!eventVars, Event!Wait, Event!Set, Event!Return, Event!Consume, Event!Expire, Event!No, Event!Untimed, Event!Timed, Event!Waits
<1>7. CASE WakeSpuriously(t)
  BY <1>7 DEF WakeSpuriously, Goto, TypeOK, CallsMatch, InWait, Labels, No, Untimed, Timed, Event!Next, Event!eventVars, Event!Wait, Event!Set, Event!Return, Event!Consume, Event!Expire, Event!No, Event!Untimed, Event!Timed, Event!Waits
<1>8. CASE TimeOut(t)
  BY <1>8 DEF TimeOut, Goto, TypeOK, CallsMatch, InWait, Labels, No, Untimed, Timed, Event!Next, Event!eventVars, Event!Wait, Event!Set, Event!Return, Event!Consume, Event!Expire, Event!No, Event!Untimed, Event!Timed, Event!Waits
<1>9. CASE Relock(t)
  BY <1>9 DEF Relock, Free, Goto, TypeOK, CallsMatch, InWait, Labels, No, Untimed, Timed, Event!Next, Event!eventVars, Event!Wait, Event!Set, Event!Return, Event!Consume, Event!Expire, Event!No, Event!Untimed, Event!Timed, Event!Waits
<1>10. CASE TakeExpired(t)
  BY <1>10 DEF TakeExpired, Taken, Reset, Goto, TypeOK, CallsMatch, InWait, Labels, No, Untimed, Timed, Event!Next, Event!eventVars, Event!Wait, Event!Set, Event!Return, Event!Consume, Event!Expire, Event!No, Event!Untimed, Event!Timed, Event!Waits
<1>11. CASE CallNotify(t)
  BY <1>11 DEF CallNotify, Goto, TypeOK, CallsMatch, InWait, Labels, No, Untimed, Timed, Event!Next, Event!eventVars, Event!Wait, Event!Set, Event!Return, Event!Consume, Event!Expire, Event!No, Event!Untimed, Event!Timed, Event!Waits
<1>12. CASE EnterNotify(t)
  BY <1>12 DEF EnterNotify, Free, Goto, TypeOK, CallsMatch, InWait, Labels, No, Untimed, Timed, Event!Next, Event!eventVars, Event!Wait, Event!Set, Event!Return, Event!Consume, Event!Expire, Event!No, Event!Untimed, Event!Timed, Event!Waits
<1>13. CASE Raise(t)
  BY <1>13 DEF Raise, Goto, TypeOK, CallsMatch, InWait, Labels, No, Untimed, Timed, Event!Next, Event!eventVars, Event!Wait, Event!Set, Event!Return, Event!Consume, Event!Expire, Event!No, Event!Untimed, Event!Timed, Event!Waits
<1>14. CASE CondSignal(t)
  BY <1>14 DEF CondSignal, Woken, Blocked, Goto, TypeOK, CallsMatch, InWait, Labels, No, Untimed, Timed, Event!Next, Event!eventVars, Event!Wait, Event!Set, Event!Return, Event!Consume, Event!Expire, Event!No, Event!Untimed, Event!Timed, Event!Waits
<1>15. CASE Unlock(t)
  BY <1>15 DEF Unlock, Goto, TypeOK, CallsMatch, InWait, Labels, No, Untimed, Timed, Event!Next, Event!eventVars, Event!Wait, Event!Set, Event!Return, Event!Consume, Event!Expire, Event!No, Event!Untimed, Event!Timed, Event!Waits
<1>16. QED
  BY <1>1, <1>2, <1>3, <1>4, <1>5, <1>6, <1>7, <1>8, <1>9, <1>10, <1>11, <1>12, <1>13, <1>14, <1>15 DEF Calling, Locking, Holding

LEMMA Stutter ==
  ASSUME UNCHANGED vars
  PROVE  /\ TypeOK => TypeOK'
         /\ CallsMatch => CallsMatch'
         /\ Exclusion => Exclusion'
         /\ NoLostWakeup => NoLostWakeup'
         /\ Due => Due'
         /\ UNCHANGED Event!eventVars
<1>1. UNCHANGED <<internalState, mutex, pc, call, asked, ts>>
  BY DEF vars
<1>2. QED
  BY <1>1 DEF TypeOK, CallsMatch, InWait, Exclusion, Critical, NoLostWakeup, Awake, Due,
              Event!eventVars

LEMMA InitInv ==
  ASSUME Init
  PROVE  TypeOK /\ CallsMatch /\ Exclusion /\ NoLostWakeup /\ Due
  BY ThreadsAssumption
  DEF Init, TypeOK, Labels, CallsMatch, InWait, Exclusion, Critical, NoLostWakeup, Due,
      No, Untimed, Timed

\* The types and the calls, in every reachable state.
THEOREM InvHolds == Spec => []Inv
<1>1. Init => Inv
  BY InitInv DEF Inv
<1>2. Inv /\ [Next]_vars => Inv'
  BY TypeStep, CallStep, Stutter DEF Inv
<1>3. QED
  BY <1>1, <1>2, PTL DEF Spec

\* Type correctness.
THEOREM TypeCorrect == Spec => []TypeOK
<1>1. Inv => TypeOK
  BY DEF Inv
<1>2. QED
  BY <1>1, InvHolds, PTL

\* CSignal's flag is touched by one thread at a time.
THEOREM MutexExcludes == Spec => []Exclusion
<1>1. Init => Exclusion
  BY InitInv
<1>2. Inv /\ Exclusion /\ [Next]_vars => Exclusion'
  BY ExclusionStep, Stutter DEF Inv
<1>3. QED
  BY <1>1, <1>2, InvHolds, PTL DEF Spec

\* While mInternalState is set the threads in wait are not all asleep.
THEOREM WakeupsNotLost == Spec => []NoLostWakeup
<1>1. Init => NoLostWakeup
  BY InitInv
<1>2. Inv /\ NoLostWakeup /\ [Next]_vars => NoLostWakeup'
  BY WakeupStep, Stutter DEF Inv
<1>3. QED
  BY <1>1, <1>2, InvHolds, PTL DEF Spec

\* wait(ms) blocks until the clock plus the time limit, to the tick.
THEOREM DeadlinesAreExact == Spec => []DeadlineExact
<1>1. Init => Due
  BY InitInv
<1>2. Inv /\ Due /\ [Next]_vars => Due'
  BY DueStep, Stutter DEF Inv
<1>3. Due => DeadlineExact
  BY DEF Due, DeadlineExact
<1>4. QED
  BY <1>1, <1>2, <1>3, InvHolds, PTL DEF Spec

\* CSignal implements an auto reset event.
THEOREM EventIsImplemented == Spec => ImplementsEvent
<1>1. Init => Event!Init
  BY DEF Init, Event!Init, No, Event!No
<1>2. Inv /\ [Next]_vars => [Event!Next]_(Event!eventVars)
  BY EventStep, Stutter DEF Inv
<1>3. QED
  BY <1>1, <1>2, InvHolds, PTL DEF Spec, ImplementsEvent, Event!Spec
=============================================================================
