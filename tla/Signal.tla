------------------------------- MODULE Signal -------------------------------
(***************************************************************************)
(* CSignal: a flag, a mutex and a condition variable.                      *)
(*                                                                         *)
(* Any thread may call notify(), wait() and wait(ms).  A step is one call  *)
(* of the pthread library together with the work on the flag before the    *)
(* next one.  The library's own rules are those of POSIX:                  *)
(* pthread_cond_wait releases the mutex while it blocks, may wake without  *)
(* a signal and takes the mutex again before it returns;                   *)
(* pthread_cond_timedwait refuses at once, without releasing the mutex, a  *)
(* deadline whose nanoseconds are not less than a second (EINVAL).         *)
(*                                                                         *)
(* Time is counted in ticks of arbitrary size, Second of them a second.    *)
(***************************************************************************)
EXTENDS Integers

CONSTANTS
  Threads,
  NoThread,
  Second,        \* 1000 in milliseconds, 1000000000L in nanoseconds
  Timeouts,      \* values of waitTimeoutMS
  ClockReadings  \* fractions of a second clock_gettime may return

ASSUME ThreadsAssumption == NoThread \notin Threads
ASSUME ClockAssumption ==
  /\ Second \in Nat \ {0}
  /\ Timeouts \subseteq Nat
  /\ ClockReadings \subseteq 0..Second - 1

VARIABLES
  internalState, \* mInternalState
  mutex,         \* the thread that holds mMutex
  pc,            \* where each thread is
  call,          \* the wait each thread is in
  asked,         \* history: when its wait(ms) was due, counted from the
                 \* beginning of the second it was called in
  ts             \* the same as the timespec given to pthread_cond_timedwait

vars == <<internalState, mutex, pc, call, asked, ts>>

No == "no"
Untimed == "untimed"
Timed   == "timed"

Free == mutex = NoThread

Goto(t, l) == pc' = [pc EXCEPT ![t] = l]

-----------------------------------------------------------------------------
(***************************************************************************)
(* wait() and wait(ms).                                                    *)
(***************************************************************************)

CallWait(t) ==
  /\ pc[t] = "idle"
  /\ call' = [call EXCEPT ![t] = Untimed]
  /\ Goto(t, "enter")
  /\ UNCHANGED <<internalState, mutex, asked, ts>>

CallTimedWait(t) ==
  /\ pc[t] = "idle"
  /\ call' = [call EXCEPT ![t] = Timed]
  /\ Goto(t, "enter")
  /\ UNCHANGED <<internalState, mutex, asked, ts>>

\* Faults: no seconds are carried; the carry into the seconds is forgotten.
DeadlineRaw(now, ms) == [sec |-> ms \div Second, nsec |-> now + (ms % Second)]
DeadlineNoCarry(now, ms) ==
  LET nsec == now + (ms % Second)
  IN  [sec |-> ms \div Second, nsec |-> IF nsec > Second THEN nsec - Second ELSE nsec]

\* The time limit added to the clock, normalised: `ts.tv_nsec > 1000000000L'.
\* Both summands are less than a second, so the loop runs at most once.
Deadline(now, ms) ==
  LET nsec == now + (ms % Second)
      carry == IF nsec > Second THEN 1 ELSE 0
  IN  [sec |-> (ms \div Second) + carry, nsec |-> nsec - carry * Second]

Legal(t) == ts[t].nsec < Second

\* pthread_mutex_lock; with a time limit the deadline is computed next.
EnterWait(t) ==
  /\ pc[t] = "enter"
  /\ Free
  /\ mutex' = t
  /\ Goto(t, "test")
  /\ IF call[t] = Timed
     THEN \E now \in ClockReadings, ms \in Timeouts :
            /\ ts' = [ts EXCEPT ![t] = Deadline(now, ms)]
            /\ asked' = [asked EXCEPT ![t] = now + ms]
     ELSE UNCHANGED <<ts, asked>>
  /\ UNCHANGED <<internalState, call>>

\* Fault: the flag is left set.
ResetNothing == internalState

\* mInternalState = false, on the way out of both waits.
Reset == FALSE

Taken(t) ==
  /\ internalState' = Reset
  /\ call' = [call EXCEPT ![t] = No]
  /\ Goto(t, "unlock")
  /\ UNCHANGED <<mutex, asked, ts>>

\* while (!mInternalState): the flag is set, ...
TakeSignal(t) ==
  /\ pc[t] = "test"
  /\ internalState
  /\ Taken(t)

\* ... or it is not, and the thread blocks.
Block(t) ==
  /\ pc[t] = "test"
  /\ ~internalState
  /\ call[t] = Timed => Legal(t)
  /\ mutex' = NoThread
  /\ Goto(t, "blocked")
  /\ UNCHANGED <<internalState, call, asked, ts>>

\* Neither 0 nor ETIMEDOUT: the loop goes round again, the mutex still held.
Refused(t) ==
  /\ pc[t] = "test"
  /\ ~internalState
  /\ call[t] = Timed /\ ~Legal(t)
  /\ UNCHANGED vars

\* A wakeup nobody asked for, and the end of the time limit.
WakeSpuriously(t) ==
  /\ pc[t] = "blocked"
  /\ Goto(t, "woken")
  /\ UNCHANGED <<internalState, mutex, call, asked, ts>>

TimeOut(t) ==
  /\ pc[t] = "blocked"
  /\ call[t] = Timed
  /\ Goto(t, "timedout")
  /\ UNCHANGED <<internalState, mutex, call, asked, ts>>

\* The library takes the mutex again; after ETIMEDOUT the loop is left.
Relock(t) ==
  /\ Free
  /\ \/ pc[t] = "woken" /\ Goto(t, "test")
     \/ pc[t] = "timedout" /\ Goto(t, "expired")
  /\ mutex' = t
  /\ UNCHANGED <<internalState, call, asked, ts>>

TakeExpired(t) ==
  /\ pc[t] = "expired"
  /\ Taken(t)

-----------------------------------------------------------------------------
(***************************************************************************)
(* notify().                                                               *)
(***************************************************************************)

CallNotify(t) ==
  /\ pc[t] = "idle"
  /\ Goto(t, "notify")
  /\ UNCHANGED <<internalState, mutex, call, asked, ts>>

EnterNotify(t) ==
  /\ pc[t] = "notify"
  /\ Free
  /\ mutex' = t
  /\ Goto(t, "raise")
  /\ UNCHANGED <<internalState, call, asked, ts>>

Raise(t) ==
  /\ pc[t] = "raise"
  /\ internalState' = TRUE
  /\ Goto(t, "signal")
  /\ UNCHANGED <<mutex, call, asked, ts>>

Blocked == {u \in Threads : pc[u] = "blocked"}

\* Fault: nobody is woken.
WokenNone(u) == FALSE

\* pthread_cond_signal unblocks one of the blocked threads.
Woken(u) == u \in Blocked

CondSignal(t) ==
  /\ pc[t] = "signal"
  /\ IF \E u \in Threads : Woken(u)
     THEN \E u \in Threads :
            Woken(u) /\ pc' = [pc EXCEPT ![t] = "unlock", ![u] = "woken"]
     ELSE Goto(t, "unlock")
  /\ UNCHANGED <<internalState, mutex, call, asked, ts>>

Unlock(t) ==
  /\ pc[t] = "unlock"
  /\ mutex' = NoThread
  /\ Goto(t, "idle")
  /\ UNCHANGED <<internalState, call, asked, ts>>

-----------------------------------------------------------------------------
Init ==
  /\ internalState = FALSE
  /\ mutex = NoThread
  /\ pc = [t \in Threads |-> "idle"]
  /\ call = [t \in Threads |-> No]
  /\ asked = [t \in Threads |-> 0]
  /\ ts = [t \in Threads |-> [sec |-> 0, nsec |-> 0]]

Calling(t) == CallWait(t) \/ CallTimedWait(t) \/ CallNotify(t)
Locking(t) == EnterWait(t) \/ Relock(t) \/ EnterNotify(t)
Holding(t) == TakeSignal(t) \/ Block(t) \/ Refused(t) \/ TakeExpired(t)
              \/ Raise(t) \/ CondSignal(t) \/ Unlock(t)

Next == \E t \in Threads :
          Calling(t) \/ Locking(t) \/ Holding(t) \/ WakeSpuriously(t) \/ TimeOut(t)

(***************************************************************************)
(* The scheduler runs a thread that can run, a thread that keeps finding   *)
(* the mutex free gets it some time.  A deadline is absolute: once it is   *)
(* past, a thread that blocks again, after a wakeup, times out, hence the  *)
(* strong fairness.  Nobody has to call anything.                          *)
(***************************************************************************)
Fairness == \A t \in Threads :
              /\ SF_vars(Locking(t))
              /\ WF_vars(Holding(t))
              /\ SF_vars(TimeOut(t))

Spec     == Init /\ [][Next]_vars
FairSpec == Spec /\ Fairness

-----------------------------------------------------------------------------
(***************************************************************************)
(* Properties.                                                             *)
(***************************************************************************)

Labels == {"idle", "enter", "test", "blocked", "woken", "timedout", "expired",
           "unlock", "notify", "raise", "signal"}

TypeOK ==
  /\ internalState \in BOOLEAN
  /\ mutex \in Threads \cup {NoThread}
  /\ pc \in [Threads -> Labels]
  /\ call \in [Threads -> {No, Untimed, Timed}]
  /\ asked \in [Threads -> Nat]
  /\ ts \in [Threads -> [sec : Nat, nsec : Nat]]

\* Threads that will look at the flag, or are about to wake one that will.
Awake(t) == pc[t] \in {"enter", "test", "woken", "timedout", "expired", "signal"}

\* While a notification is pending (mInternalState is set) the threads in wait
\* are not all asleep: one is on its way to take it.
NoLostWakeup ==
  internalState /\ (\E t \in Threads : pc[t] = "blocked")
    => \E t \in Threads : Awake(t)

\* The deadline a wait(ms) blocks with is the clock plus the time limit.
DeadlineExact ==
  \A t \in Threads :
    pc[t] = "blocked" /\ call[t] = Timed
      => ts[t].sec * Second + ts[t].nsec = asked[t]

\* The event CSignal is an implementation of.
Event == INSTANCE AutoResetEvent WITH set <- internalState, waiting <- call

ImplementsEvent == Event!Spec

\* A wait(ms) is due on a whole second: the carry loop leaves such a deadline
\* illegal and the wait spins, for ever unless a notification was there before it.
OnTheSecond == \E t \in Threads : call[t] = Timed /\ pc[t] # "enter" /\ asked[t] % Second = 0

\* wait(ms) comes back without a notification ("set timeout in
\* RECORDER_DURATION_MS to check again", runEncoding), but on a whole second.
TimedWaitReturns == \A t \in Threads : call[t] = Timed ~> call[t] = No \/ OnTheSecond

\* notify() comes back whatever the waiting threads do, but on a whole second.
NotifyReturns == \A t \in Threads : pc[t] = "notify" ~> pc[t] = "idle" \/ OnTheSecond

\* A notification does not stay unheard while somebody waits.
NotificationTaken ==
  internalState /\ (\E t \in Threads : call[t] # No) ~> ~internalState \/ OnTheSecond
=============================================================================
