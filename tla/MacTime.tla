------------------------------ MODULE MacTime -------------------------------
(***************************************************************************)
(* Host times and their arithmetic (Unix/timer_unix.cpp, the build with    *)
(* clock_gettime()), and the two formats a Time Manager delay has in       *)
(* MacOS: positive milliseconds or negative microseconds.                  *)
(***************************************************************************)
EXTENDS Integers

NanoPerSec == 1000000000

\* tm_time_t, as clock_gettime() and the operations below leave it.
HostTime == [sec : Int, nsec : 0 .. NanoPerSec - 1]

timer_add_time(a, b) ==
    LET n == a.nsec + b.nsec
    IN  IF n >= NanoPerSec
        THEN [sec |-> a.sec + b.sec + 1, nsec |-> n - NanoPerSec]
        ELSE [sec |-> a.sec + b.sec, nsec |-> n]

timer_sub_time(a, b) ==
    LET n == a.nsec - b.nsec
    IN  IF n < 0
        THEN [sec |-> a.sec - b.sec - 1, nsec |-> n + NanoPerSec]
        ELSE [sec |-> a.sec - b.sec, nsec |-> n]

timer_cmp_time(a, b) == IF a.sec = b.sec THEN a.nsec - b.nsec ELSE a.sec - b.sec

\* A delay of MacOS; the 32-bit value -2^31, whose negation overflows, is not one.
MaxDelay == 2147483647
MacDelay == {m \in Int : -MaxDelay <= m /\ m <= MaxDelay}

timer_mac2host_time(mactime) ==
    IF mactime > 0
    THEN [sec |-> mactime \div 1000, nsec |-> (mactime % 1000) * 1000000]
    ELSE [sec |-> (-mactime) \div 1000000, nsec |-> ((-mactime) % 1000000) * 1000]

\* The result is an int32: it is exact as long as it fits.
timer_host2mac_time(hosttime) ==
    LET t == hosttime.sec * 1000000 + hosttime.nsec \div 1000
    IN  IF hosttime.sec < 0 THEN 0
        ELSE IF t > MaxDelay THEN t \div 1000 ELSE -t
=============================================================================
