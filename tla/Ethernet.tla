------------------------------ MODULE Ethernet ------------------------------
(***************************************************************************)
(* Packet reception of the Ethernet driver (ether.cpp, Unix/ether_unix.cpp *)
(* on Linux).  The reception thread polls the network device, raises       *)
(* INTFLAG_ETHER and waits for int_ack; EtherInterrupt() reads packets     *)
(* into a buffer in Mac memory (EthernetPacket), calls the protocol        *)
(* handlers of MacOS, and posts int_ack.  Handlers, and the Memory Manager *)
(* call of EthernetPacket, are Mac code that can be interrupted.           *)
(***************************************************************************)
EXTENDS Naturals, Sequences

CONSTANTS
    Types,          \* packet types: Ethernet types, and one for those up to 1500
    MaxPackets,     \* bound on the packets that arrive
    MaxNest,        \* bound on calls of EtherInterrupt() on top of each other
    Slirp           \* fd is the slirp output pipe, which keeps no packet boundaries

\* A read() result that is too short for an Ethernet header.
Runt == "runt"

ASSUME TypesAssumption == Runt \notin Types
ASSUME MaxPacketsAssumption == MaxPackets \in Nat
ASSUME MaxNestAssumption == MaxNest \in Nat \ {0}
ASSUME SlirpAssumption == Slirp \in BOOLEAN

VARIABLES
    queue,          \* packets in fd
    tpc,            \* where the reception thread is
    int_ack,        \* the semaphore
    flag,           \* INTFLAG_ETHER
    net_protocols,  \* [Types -> "none", "null" (handler 0) or "set"]
    ether_data,     \* the driver data: "none", of this session, or of an earlier one
    ether_packet,   \* the cached packet buffer is allocated
    n_packets,      \* n_ether_packets
    depth,          \* running calls of EtherInterrupt()
    irq,            \* [1 .. MaxNest -> where each of them is]
    received,       \* history: packets that have arrived
    handled         \* history: packets EtherInterrupt() has looked at

thread == << tpc, int_ack >>
driver == << net_protocols, ether_data >>
buffers == << ether_packet, n_packets >>
vars == << queue, thread, flag, driver, buffers, depth, irq, received, handled >>

ThreadPC == {"poll", "raise", "wait"}
\* "alloc": in NewPtrSysClear(); "handler": in a protocol handler.
IrqPC == {"idle", "alloc", "read", "handler"}

\* EtherInit() with a working device; the MacOS driver is not open yet.
Init ==
    /\ queue = << >>
    /\ tpc = "poll"
    /\ int_ack = 0
    /\ flag = FALSE
    /\ net_protocols = [t \in Types |-> "none"]
    /\ ether_data = "none"
    /\ ether_packet = FALSE
    /\ n_packets = 0
    /\ depth = 0
    /\ irq = [d \in 1 .. MaxNest |-> "idle"]
    /\ received = 0
    /\ handled = 0

-----------------------------------------------------------------------------
(* The reception thread.                                                   *)

\* The network delivers a packet.
Arrive(p) ==
    /\ received < MaxPackets
    /\ Slirp => p # Runt
    /\ received' = received + 1
    /\ queue' = Append(queue, p)
    /\ UNCHANGED << thread, flag, driver, buffers, depth, irq, handled >>

Poll ==
    /\ tpc = "poll"
    /\ queue # << >>
    /\ tpc' = "raise"
    /\ UNCHANGED << queue, int_ack, flag, driver, buffers, depth, irq, received, handled >>

Raise ==
    /\ tpc = "raise"
    /\ flag' = TRUE
    /\ tpc' = "wait"
    /\ UNCHANGED << queue, int_ack, driver, buffers, depth, irq, received, handled >>

SemWait ==
    /\ tpc = "wait"
    /\ int_ack > 0
    /\ int_ack' = int_ack - 1
    /\ tpc' = "poll"
    /\ UNCHANGED << queue, flag, driver, buffers, depth, irq, received, handled >>

-----------------------------------------------------------------------------
(* The emulator thread: the MacOS driver.                                  *)

\* Mac code runs: the main program, a handler, or the Memory Manager.
MacRuns == depth > 0 => irq[depth] \in {"alloc", "handler"}
ProgramRuns == depth > 0 => irq[depth] = "handler"

\* EtherOpen(), which may also fail for want of memory.
EtherOpen ==
    /\ depth = 0
    /\ ether_data' = "live"
    /\ UNCHANGED << queue, thread, flag, net_protocols, buffers, depth, irq, received, handled >>

\* kENetAttachPH through the open driver; a type that is attached is lapProtErr.
Attach(t, handler) ==
    /\ ProgramRuns
    /\ ether_data = "live"
    /\ net_protocols[t] = "none"
    /\ net_protocols' = [net_protocols EXCEPT ![t] = handler]
    /\ UNCHANGED << queue, thread, flag, ether_data, buffers, depth, irq, received, handled >>

\* kENetDetachPH; a type that is not attached is lapProtErr.
Detach(t) ==
    /\ ProgramRuns
    /\ ether_data = "live"
    /\ net_protocols[t] # "none"
    /\ net_protocols' = [net_protocols EXCEPT ![t] = "none"]
    /\ UNCHANGED << queue, thread, flag, ether_data, buffers, depth, irq, received, handled >>

Stale(data) == IF data = "live" THEN "stale" ELSE data

\* Mutant of EtherReset: the protocol handlers stay attached.
ResetKeeps ==
    /\ depth = 0
    /\ ether_data' = Stale(ether_data)
    /\ UNCHANGED << queue, thread, flag, net_protocols, buffers, depth, irq, received, handled >>

\* EtherReset(): MacOS restarts, and what it had allocated is gone.
EtherReset ==
    /\ depth = 0
    /\ net_protocols' = [t \in Types |-> "none"]
    /\ ether_data' = Stale(ether_data)
    /\ UNCHANGED << queue, thread, flag, buffers, depth, irq, received, handled >>

-----------------------------------------------------------------------------
(* EtherInterrupt().                                                       *)

\* Mutant of EtherInterrupt: the interrupt is acknowledged as soon as it is taken.
InterruptAcksFirst ==
    /\ MacRuns
    /\ flag
    /\ depth < MaxNest
    /\ flag' = FALSE
    /\ int_ack' = int_ack + 1
    /\ depth' = depth + 1
    /\ n_packets' = n_packets + 1
    /\ irq' = [irq EXCEPT ![depth + 1] = IF ether_packet /\ n_packets = 0 THEN "read" ELSE "alloc"]
    /\ UNCHANGED << queue, tpc, driver, ether_packet, received, handled >>

\* M68K_EMUL_OP_IRQ, and the constructor of EthernetPacket: the cached buffer, or
\* memory from NewPtrSysClear().
EtherInterrupt ==
    /\ MacRuns
    /\ flag
    /\ depth < MaxNest
    /\ flag' = FALSE
    /\ depth' = depth + 1
    /\ n_packets' = n_packets + 1
    /\ irq' = [irq EXCEPT ![depth + 1] = IF ether_packet /\ n_packets = 0 THEN "read" ELSE "alloc"]
    /\ UNCHANGED << queue, thread, driver, ether_packet, received, handled >>

AllocReturns ==
    /\ depth > 0
    /\ irq[depth] = "alloc"
    /\ ether_packet' = TRUE
    /\ irq' = [irq EXCEPT ![depth] = "read"]
    /\ UNCHANGED << queue, thread, flag, driver, n_packets, depth, received, handled >>

\* Mutant of Taken: a read() takes what fits into the buffer from every device.
TakenBuffer == 1 .. Len(queue)

\* What one read() of fd takes: a packet; or as many as the buffer holds of those
\* that are in the pipe, which the driver takes for one.
Taken == IF Slirp THEN 1 .. Len(queue) ELSE {1}

\* A packet is read and its handler, if there is one, is called.
ReadPacket ==
    /\ depth > 0
    /\ irq[depth] = "read"
    /\ queue # << >>
    /\ Head(queue) # Runt
    /\ \E n \in Taken : queue' = SubSeq(queue, n + 1, Len(queue))
    /\ handled' = handled + 1
    /\ irq' = [irq EXCEPT ![depth] = IF net_protocols[Head(queue)] = "set" THEN "handler" ELSE "read"]
    /\ UNCHANGED << thread, flag, driver, buffers, depth, received >>

HandlerReturns ==
    /\ depth > 0
    /\ irq[depth] = "handler"
    /\ irq' = [irq EXCEPT ![depth] = "read"]
    /\ UNCHANGED << queue, thread, flag, driver, buffers, depth, received, handled >>

\* Mutant of Acknowledge: sem_post() is forgotten.
NoAcknowledge ==
    /\ depth' = depth - 1
    /\ int_ack' = int_ack
    /\ irq' = [irq EXCEPT ![depth] = "idle"]

Acknowledge ==
    /\ depth' = depth - 1
    /\ int_ack' = int_ack + 1
    /\ irq' = [irq EXCEPT ![depth] = "idle"]

\* The destructor of EthernetPacket.  A buffer that is not the cached one, which it
\* would dispose, takes nested packets: see OnePacket.
Leave ==
    /\ n_packets' = n_packets - 1
    /\ Acknowledge
    /\ UNCHANGED << tpc, flag, driver, ether_packet, received >>

\* Nothing left to read.
ReadNone ==
    /\ depth > 0
    /\ irq[depth] = "read"
    /\ queue = << >>
    /\ Leave
    /\ UNCHANGED << queue, handled >>

\* A runt ends the loop as well; what is behind it waits for the next interrupt.
ReadRunt ==
    /\ depth > 0
    /\ irq[depth] = "read"
    /\ queue # << >>
    /\ Head(queue) = Runt
    /\ queue' = Tail(queue)
    /\ handled' = handled + 1
    /\ Leave

-----------------------------------------------------------------------------

Receiving == Poll \/ Raise \/ SemWait

Driving ==
    \/ EtherOpen
    \/ \E t \in Types : Detach(t) \/ \E handler \in {"null", "set"} : Attach(t, handler)
    \/ EtherReset

Interrupting ==
    \/ EtherInterrupt
    \/ AllocReturns
    \/ ReadPacket
    \/ HandlerReturns
    \/ ReadNone
    \/ ReadRunt

Next == Receiving \/ Driving \/ Interrupting \/ \E p \in Types \cup {Runt} : Arrive(p)

Spec == Init /\ [][Next]_vars

\* The reception thread runs, interrupts are taken (Interrupts.EventServed) and
\* what they call returns.
FairSpec ==
    /\ Spec
    /\ WF_vars(Poll)
    /\ WF_vars(Raise)
    /\ WF_vars(SemWait)
    /\ WF_vars(EtherInterrupt)
    /\ WF_vars(AllocReturns)
    /\ WF_vars(ReadPacket)
    /\ WF_vars(HandlerReturns)
    /\ WF_vars(ReadNone)
    /\ WF_vars(ReadRunt)

-----------------------------------------------------------------------------
(* Properties.                                                             *)

\* The state is well formed: int_ack never counts two acknowledges.
TypeOK ==
    /\ queue \in Seq(Types \cup {Runt})
    /\ tpc \in ThreadPC
    /\ int_ack \in 0 .. 1
    /\ flag \in BOOLEAN
    /\ net_protocols \in [Types -> {"none", "null", "set"}]
    /\ ether_data \in {"none", "live", "stale"}
    /\ ether_packet \in BOOLEAN
    /\ n_packets \in 0 .. MaxNest
    /\ depth \in 0 .. MaxNest
    /\ irq \in [1 .. MaxNest -> IrqPC]
    /\ received \in 0 .. MaxPackets
    /\ handled \in 0 .. MaxPackets

\* "Number of ethernet packets allocated so far (should be at most 1)": a handler
\* that lets interrupts through is not interrupted by the next packet, which
\* would overwrite the packet and the read header area it is using.
OnePacket == n_packets <= 1 /\ depth <= 1

\* The thread that waits for int_ack has exactly one request under way: the flag,
\* the running EtherInterrupt(), or the acknowledge; a thread that does not wait
\* has none.
Requests == (IF flag THEN 1 ELSE 0) + depth + int_ack
Handshake == Requests = IF tpc = "wait" THEN 1 ELSE 0

\* While a handler can be called, the driver data it is given is of this session.
AttachedLive == \A t \in Types : net_protocols[t] # "none" => ether_data = "live"

\* Every packet that arrives is looked at, behind runts and packets nobody wants.
PacketsRead == \A n \in 1 .. MaxPackets : received >= n ~> handled >= n

\* "When the driver receives a packet, it has to look up the protocol handler": no
\* packet is gone from the device before it was.
EveryPacket == received = handled + Len(queue)

=============================================================================
