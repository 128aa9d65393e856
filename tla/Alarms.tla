------------------------------- MODULE Alarms -------------------------------
(***************************************************************************)
(* What the Time Manager promises a Mac program (timer.cpp): a task that   *)
(* is primed rings once, not before its delay is over, and says when it is *)
(* removed how long it still had to wait. No table, no passes, and a time  *)
(* is a number of nanoseconds.                                             *)
(***************************************************************************)
EXTENDS Integers

CONSTANTS
    Tasks,
    Extended,       \* tasks that may count from the last time they rang
    Delays          \* positive milliseconds or negative microseconds

VARIABLES
    state,          \* [Tasks -> States]
    time,           \* [Tasks -> Int]: when a waiting task may ring, else 0
    clock,
    tmCount         \* what the last task that was removed had left

vars == << state, time, clock, tmCount >>

States == {"removed", "idle", "waiting"}
Duration(delay) == IF delay > 0 THEN delay * 1000000 ELSE -delay * 1000

\* Microseconds are negative and milliseconds positive; at most 32 bits.
Left(duration) ==
    LET micro == IF duration < 0 THEN 0 ELSE duration \div 1000
    IN  IF micro > 2147483647 THEN micro \div 1000 ELSE -micro

Init ==
    /\ state = [t \in Tasks |-> "removed"]
    /\ time = [t \in Tasks |-> 0]
    /\ clock = 0
    /\ tmCount = 0

\* The task does not wait from now on.
Rest(t, s) == state' = [state EXCEPT ![t] = s] /\ time' = [time EXCEPT ![t] = 0]

\* Unless there is no room; a task that waits is stopped.
Install(t) == Rest(t, "idle") /\ UNCHANGED << clock, tmCount >>

Remove(t) ==
    /\ state[t] # "removed"
    /\ tmCount' = IF state[t] = "waiting" THEN Left(time[t] - clock) ELSE 0
    /\ Rest(t, "removed")
    /\ UNCHANGED clock

\* The delay starts now, for a task that waits too.
Prime(t, delay) ==
    /\ state[t] # "removed"
    /\ state' = [state EXCEPT ![t] = "waiting"]
    /\ t \notin Extended => time'[t] = clock + Duration(delay)
    /\ time' = [time EXCEPT ![t] = time'[t]]
    /\ UNCHANGED << clock, tmCount >>

Ring(t) ==
    /\ state[t] = "waiting"
    /\ time[t] < clock
    /\ Rest(t, "idle")
    /\ UNCHANGED << clock, tmCount >>

\* MacOS restarts.
Restart ==
    /\ state' = [t \in Tasks |-> "removed"]
    /\ time' = [t \in Tasks |-> 0]
    /\ UNCHANGED << clock, tmCount >>

Advance ==
    /\ clock' \in Int
    /\ clock' >= clock
    /\ UNCHANGED << state, time, tmCount >>

Next ==
    \/ \E t \in Tasks : Install(t) \/ Remove(t) \/ Ring(t)
    \/ \E t \in Tasks, delay \in Delays : Prime(t, delay)
    \/ Restart
    \/ Advance

Spec == Init /\ [][Next]_vars
=============================================================================
