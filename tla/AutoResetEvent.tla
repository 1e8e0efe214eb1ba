--------------------------- MODULE AutoResetEvent ---------------------------
(***************************************************************************)
(* What the users of CSignal rely on: an event that notify sets and that a *)
(* wait takes back when it returns.  A wait with a time limit may return   *)
(* at any moment, and takes the event back all the same.                   *)
(***************************************************************************)
CONSTANT Threads

VARIABLES
  set,       \* the event
  waiting    \* what each thread is waiting in: nothing, wait() or wait(ms)

eventVars == <<set, waiting>>

No == "no"
Untimed == "untimed"
Timed   == "timed"
Waits   == {Untimed, Timed}

Wait(t, kind) ==
  /\ waiting[t] = No
  /\ waiting' = [waiting EXCEPT ![t] = kind]
  /\ UNCHANGED set

Set == set' = TRUE /\ UNCHANGED waiting

Return(t) ==
  /\ set' = FALSE
  /\ waiting' = [waiting EXCEPT ![t] = No]

\* A wait returns because the event is set, ...
Consume(t) == waiting[t] # No /\ set /\ Return(t)

\* ... or because its time is over.
Expire(t) == waiting[t] = Timed /\ Return(t)

Init == set = FALSE /\ waiting = [t \in Threads |-> No]

Next ==
  \/ Set
  \/ \E t \in Threads : \/ \E kind \in Waits : Wait(t, kind)
                        \/ Consume(t)
                        \/ Expire(t)

Spec == Init /\ [][Next]_eventVars
=============================================================================
