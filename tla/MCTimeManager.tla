--------------------------- MODULE MCTimeManager ----------------------------
(* Constants of TimeManager for TLC. *)
EXTENDS TimeManager

\* Half seconds, so that adding and subtracting times carries.
HalfSecond == [sec |-> 0, nsec |-> 500000000]
\* Milliseconds are positive and microseconds negative.
HalfSecondDelays == {0, 500}
=============================================================================
