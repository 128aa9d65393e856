---------------------------- MODULE MCInterrupts ----------------------------
(* Instances of Interrupts for TLC. *)
EXTENDS Interrupts

CONSTANTS tick, dev     \* the 60Hz thread and a device thread

\* Flag 1 is raised by the tick thread and the last flag by the device.
MCRaises == [t \in Threads |-> IF t = tick THEN {1} ELSE {NumFlags}]

\* Any thread may raise any flag.
MCRaisesAll == [t \in Threads |-> Flags]
=============================================================================
