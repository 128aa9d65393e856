--------------------------- MODULE SerialRequests ---------------------------
(***************************************************************************)
(* What the serial driver promises MacOS (TECH 6.11): a read or write that *)
(* SerialPrime() answered with 1 is either executed by the I/O thread,     *)
(* reported by one deferred task and completed once by IODone, or aborted  *)
(* by KillIO, and nothing is left of it when the next one starts.          *)
(***************************************************************************)
CONSTANT Dirs           \* the directions of a port

VARIABLE state          \* state[d]: the request of direction d

States == {"idle", "running", "finished", "posted"}

Init == state = [d \in Dirs |-> "idle"]

Start(d) == state[d] = "idle" /\ state' = [state EXCEPT ![d] = "running"]
Finish(d) == state[d] = "running" /\ state' = [state EXCEPT ![d] = "finished"]
Abort(d) == state[d] = "running" /\ state' = [state EXCEPT ![d] = "idle"]
Complete(d) == state[d] = "posted" /\ state' = [state EXCEPT ![d] = "idle"]

\* One interrupt posts the deferred tasks of both directions.
Post ==
    /\ \E d \in Dirs : state[d] = "finished"
    /\ state' = [d \in Dirs |-> IF state[d] = "finished" THEN "posted" ELSE state[d]]

Next == Post \/ \E d \in Dirs : Start(d) \/ Finish(d) \/ Abort(d) \/ Complete(d)

Spec == Init /\ [][Next]_state
=============================================================================
