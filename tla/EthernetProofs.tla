--------------------------- MODULE EthernetProofs ---------------------------
(***************************************************************************)
(* Proofs about Ethernet, for every set of packet types, number of packets *)
(* and nesting, with a device that keeps packets and with the slirp pipe.  *)
(* IInv is inductive: one lemma per conjunct says that every step keeps it.*)
(***************************************************************************)
EXTENDS Ethernet, SequenceTheorems, TLAPS

\* Each running EtherInterrupt() has one packet.
CountOK == n_packets = depth

\* The device holds packets that arrived and were not looked at.
QueueOK == handled + Len(queue) <= received

IInv == TypeOK /\ Handshake /\ CountOK /\ AttachedLive /\ QueueOK

\* What is left in the device when n packets are taken.
LEMMA RestLen ==
  ASSUME NEW q \in Seq(Types \cup {Runt}), NEW n \in Nat, n > 0, n <= Len(q)
  PROVE  Len(SubSeq(q, n + 1, Len(q))) = Len(q) - n
  <1>1. Len(q) \in Nat /\ n + 1 \in Int
    OBVIOUS
  <1>2. \A i \in n + 1 .. Len(q) : q[i] \in Types \cup {Runt}
    BY <1>1
  <1>3. Len(SubSeq(q, n + 1, Len(q))) =
          IF n + 1 <= Len(q) THEN Len(q) - (n + 1) + 1 ELSE 0
    BY <1>1, <1>2, SubSeqProperties
  <1> QED
    BY <1>1, <1>3

\* Every step keeps the types.
LEMMA TypeOKKept ==
  ASSUME IInv, [Next]_vars
  PROVE  TypeOK'
<1> USE MaxPacketsAssumption, MaxNestAssumption DEF IInv, TypeOK, ThreadPC, IrqPC
<1>1. CASE Poll
  BY <1>1 DEF Poll, driver, buffers, CountOK, QueueOK, Handshake, Requests
<1>2. CASE Raise
  BY <1>2 DEF Raise, driver, buffers, CountOK, QueueOK, Handshake, Requests
<1>3. CASE SemWait
  BY <1>3 DEF SemWait, driver, buffers, CountOK, QueueOK, Handshake, Requests
<1>4. CASE EtherOpen
  BY <1>4 DEF EtherOpen, thread, buffers, CountOK, QueueOK, Handshake, Requests
<1>5. ASSUME NEW t \in Types, NEW handler \in {"null", "set"}, Attach(t, handler) PROVE TypeOK'
  BY <1>5 DEF Attach, thread, buffers, CountOK, QueueOK, Handshake, Requests
<1>6. ASSUME NEW t \in Types, Detach(t) PROVE TypeOK'
  BY <1>6 DEF Detach, thread, buffers, CountOK, QueueOK, Handshake, Requests
<1>7. CASE EtherReset
  <2>1. net_protocols' \in [Types -> {"none", "null", "set"}]
    BY <1>7 DEF EtherReset
  <2>2. ether_data' \in {"none", "live", "stale"}
    BY <1>7 DEF EtherReset, Stale
  <2> QED
    BY <1>7, <2>1, <2>2 DEF EtherReset, thread, buffers
<1>8. CASE EtherInterrupt
  <2>1. flag' = FALSE /\ flag
    BY <1>8 DEF EtherInterrupt
  <2>2. flag' \in BOOLEAN
    BY <2>1, Zenon
  <2>3. depth < MaxNest /\ depth' = depth + 1 /\ n_packets' = n_packets + 1
    BY <1>8 DEF EtherInterrupt
  <2>4. irq' \in [1 .. MaxNest -> IrqPC]
    BY <1>8, <2>3 DEF EtherInterrupt
  <2> QED
    BY <1>8, <2>2, <2>3, <2>4 DEF EtherInterrupt, thread, driver, CountOK
<1>9. CASE AllocReturns
  BY <1>9 DEF AllocReturns, thread, driver, CountOK, QueueOK, Handshake,
    Requests
<1>10. CASE ReadPacket
  BY <1>10 DEF ReadPacket, Taken, thread, driver, buffers, CountOK, QueueOK,
    Handshake, Requests
<1>11. CASE HandlerReturns
  BY <1>11 DEF HandlerReturns, thread, driver, buffers, CountOK, QueueOK,
    Handshake, Requests
<1>12. CASE ReadNone
  <2>1. depth > 0 /\ depth' = depth - 1 /\ n_packets' = n_packets - 1
    BY <1>12 DEF ReadNone, Leave, Acknowledge
  <2>2. irq' \in [1 .. MaxNest -> IrqPC]
    BY <1>12, <2>1 DEF ReadNone, Leave, Acknowledge
  <2>3. int_ack' \in 0 .. 1
    BY <1>12, <2>1 DEF ReadNone, Leave, Acknowledge, Handshake, Requests
  <2>4. queue' \in Seq(Types \cup {Runt}) /\ handled' \in 0 .. MaxPackets
    BY <1>12 DEF ReadNone, QueueOK
  <2> QED
    BY <1>12, <2>1, <2>2, <2>3, <2>4 DEF ReadNone, Leave, driver, CountOK
<1>13. CASE ReadRunt
  <2>1. depth > 0 /\ depth' = depth - 1 /\ n_packets' = n_packets - 1
    BY <1>13 DEF ReadRunt, Leave, Acknowledge
  <2>2. irq' \in [1 .. MaxNest -> IrqPC]
    BY <1>13, <2>1 DEF ReadRunt, Leave, Acknowledge
  <2>3. int_ack' \in 0 .. 1
    BY <1>13, <2>1 DEF ReadRunt, Leave, Acknowledge, Handshake, Requests
  <2>4. queue' \in Seq(Types \cup {Runt}) /\ handled' \in 0 .. MaxPackets
    BY <1>13 DEF ReadRunt, QueueOK
  <2> QED
    BY <1>13, <2>1, <2>2, <2>3, <2>4 DEF ReadRunt, Leave, driver, CountOK
<1>14. ASSUME NEW p \in Types \cup {Runt}, Arrive(p) PROVE TypeOK'
  BY <1>14 DEF Arrive, thread, driver, buffers, CountOK, QueueOK, Handshake,
    Requests
<1>15. CASE UNCHANGED vars
  BY <1>15 DEF vars, thread, driver, buffers, CountOK, QueueOK, Handshake,
    Requests
<1> QED
  BY <1>1, <1>2, <1>3, <1>4, <1>5, <1>6, <1>7, <1>8, <1>9, <1>10, <1>11, <1>12,
    <1>13, <1>14, <1>15 DEF Next, Receiving, Driving, Interrupting

\* Every step keeps the account of the request under way.
LEMMA HandshakeKept ==
  ASSUME IInv, [Next]_vars
  PROVE  Handshake'
<1> USE MaxPacketsAssumption, MaxNestAssumption DEF IInv, TypeOK, ThreadPC, IrqPC
<1>1. CASE Poll
  BY <1>1 DEF Poll, driver, buffers, Handshake, Requests
<1>2. CASE Raise
  BY <1>2 DEF Raise, driver, buffers, Handshake, Requests
<1>3. CASE SemWait
  BY <1>3 DEF SemWait, driver, buffers, Handshake, Requests
<1>4. CASE EtherOpen
  BY <1>4 DEF EtherOpen, thread, buffers, Handshake, Requests
<1>5. ASSUME NEW t \in Types, NEW handler \in {"null", "set"}, Attach(t, handler) PROVE Handshake'
  BY <1>5 DEF Attach, thread, buffers, Handshake, Requests
<1>6. ASSUME NEW t \in Types, Detach(t) PROVE Handshake'
  BY <1>6 DEF Detach, thread, buffers, Handshake, Requests
<1>7. CASE EtherReset
  BY <1>7 DEF EtherReset, thread, buffers, Handshake, Requests
<1>8. CASE EtherInterrupt
  BY <1>8 DEF EtherInterrupt, thread, driver, Handshake, Requests
<1>9. CASE AllocReturns
  BY <1>9 DEF AllocReturns, thread, driver, Handshake, Requests
<1>10. CASE ReadPacket
  BY <1>10 DEF ReadPacket, Taken, thread, driver, buffers, Handshake, Requests
<1>11. CASE HandlerReturns
  BY <1>11 DEF HandlerReturns, thread, driver, buffers, Handshake, Requests
<1>12. CASE ReadNone
  BY <1>12 DEF ReadNone, Leave, Acknowledge, driver, Handshake, Requests
<1>13. CASE ReadRunt
  BY <1>13 DEF ReadRunt, Leave, Acknowledge, driver, Handshake, Requests
<1>14. ASSUME NEW p \in Types \cup {Runt}, Arrive(p) PROVE Handshake'
  BY <1>14 DEF Arrive, thread, driver, buffers, Handshake, Requests
<1>15. CASE UNCHANGED vars
  BY <1>15 DEF vars, thread, driver, buffers, Handshake, Requests
<1> QED
  BY <1>1, <1>2, <1>3, <1>4, <1>5, <1>6, <1>7, <1>8, <1>9, <1>10, <1>11, <1>12,
    <1>13, <1>14, <1>15 DEF Next, Receiving, Driving, Interrupting

\* Packets are allocated and freed with the calls of EtherInterrupt().
LEMMA CountOKKept ==
  ASSUME IInv, [Next]_vars
  PROVE  CountOK'
<1> USE MaxPacketsAssumption, MaxNestAssumption DEF IInv, TypeOK, ThreadPC, IrqPC
<1>1. CASE Poll
  BY <1>1 DEF Poll, driver, buffers, CountOK
<1>2. CASE Raise
  BY <1>2 DEF Raise, driver, buffers, CountOK
<1>3. CASE SemWait
  BY <1>3 DEF SemWait, driver, buffers, CountOK
<1>4. CASE EtherOpen
  BY <1>4 DEF EtherOpen, thread, buffers, CountOK
<1>5. ASSUME NEW t \in Types, NEW handler \in {"null", "set"}, Attach(t, handler) PROVE CountOK'
  BY <1>5 DEF Attach, thread, buffers, CountOK
<1>6. ASSUME NEW t \in Types, Detach(t) PROVE CountOK'
  BY <1>6 DEF Detach, thread, buffers, CountOK
<1>7. CASE EtherReset
  BY <1>7 DEF EtherReset, thread, buffers, CountOK
<1>8. CASE EtherInterrupt
  BY <1>8 DEF EtherInterrupt, thread, driver, CountOK
<1>9. CASE AllocReturns
  BY <1>9 DEF AllocReturns, thread, driver, CountOK
<1>10. CASE ReadPacket
  BY <1>10 DEF ReadPacket, Taken, thread, driver, buffers, CountOK
<1>11. CASE HandlerReturns
  BY <1>11 DEF HandlerReturns, thread, driver, buffers, CountOK
<1>12. CASE ReadNone
  BY <1>12 DEF ReadNone, Leave, Acknowledge, driver, CountOK
<1>13. CASE ReadRunt
  BY <1>13 DEF ReadRunt, Leave, Acknowledge, driver, CountOK
<1>14. ASSUME NEW p \in Types \cup {Runt}, Arrive(p) PROVE CountOK'
  BY <1>14 DEF Arrive, thread, driver, buffers, CountOK
<1>15. CASE UNCHANGED vars
  BY <1>15 DEF vars, thread, driver, buffers, CountOK
<1> QED
  BY <1>1, <1>2, <1>3, <1>4, <1>5, <1>6, <1>7, <1>8, <1>9, <1>10, <1>11, <1>12,
    <1>13, <1>14, <1>15 DEF Next, Receiving, Driving, Interrupting

\* Only a restart makes the driver data stale, and it detaches the handlers.
LEMMA AttachedLiveKept ==
  ASSUME IInv, [Next]_vars
  PROVE  AttachedLive'
<1> USE MaxPacketsAssumption, MaxNestAssumption DEF IInv, TypeOK, ThreadPC, IrqPC
<1>1. CASE Poll
  BY <1>1 DEF Poll, driver, buffers, AttachedLive, Stale
<1>2. CASE Raise
  BY <1>2 DEF Raise, driver, buffers, AttachedLive, Stale
<1>3. CASE SemWait
  BY <1>3 DEF SemWait, driver, buffers, AttachedLive, Stale
<1>4. CASE EtherOpen
  BY <1>4 DEF EtherOpen, thread, buffers, AttachedLive, Stale
<1>5. ASSUME NEW t \in Types, NEW handler \in {"null", "set"}, Attach(t, handler) PROVE AttachedLive'
  BY <1>5 DEF Attach, thread, buffers, AttachedLive, Stale
<1>6. ASSUME NEW t \in Types, Detach(t) PROVE AttachedLive'
  BY <1>6 DEF Detach, thread, buffers, AttachedLive, Stale
<1>7. CASE EtherReset
  BY <1>7 DEF EtherReset, thread, buffers, AttachedLive, Stale
<1>8. CASE EtherInterrupt
  BY <1>8 DEF EtherInterrupt, thread, driver, AttachedLive, Stale
<1>9. CASE AllocReturns
  BY <1>9 DEF AllocReturns, thread, driver, AttachedLive, Stale
<1>10. CASE ReadPacket
  BY <1>10 DEF ReadPacket, Taken, thread, driver, buffers, AttachedLive, Stale
<1>11. CASE HandlerReturns
  BY <1>11 DEF HandlerReturns, thread, driver, buffers, AttachedLive, Stale
<1>12. CASE ReadNone
  BY <1>12 DEF ReadNone, Leave, Acknowledge, driver, AttachedLive
<1>13. CASE ReadRunt
  BY <1>13 DEF ReadRunt, Leave, Acknowledge, driver, AttachedLive
<1>14. ASSUME NEW p \in Types \cup {Runt}, Arrive(p) PROVE AttachedLive'
  BY <1>14 DEF Arrive, thread, driver, buffers, AttachedLive, Stale
<1>15. CASE UNCHANGED vars
  BY <1>15 DEF vars, thread, driver, buffers, AttachedLive, Stale
<1> QED
  BY <1>1, <1>2, <1>3, <1>4, <1>5, <1>6, <1>7, <1>8, <1>9, <1>10, <1>11, <1>12,
    <1>13, <1>14, <1>15 DEF Next, Receiving, Driving, Interrupting

\* A read takes one packet at least.
LEMMA QueueOKKept ==
  ASSUME IInv, [Next]_vars
  PROVE  QueueOK'
<1> USE MaxPacketsAssumption, MaxNestAssumption DEF IInv, TypeOK, ThreadPC, IrqPC
<1>1. CASE Poll
  BY <1>1 DEF Poll, driver, buffers, QueueOK
<1>2. CASE Raise
  BY <1>2 DEF Raise, driver, buffers, QueueOK
<1>3. CASE SemWait
  BY <1>3 DEF SemWait, driver, buffers, QueueOK
<1>4. CASE EtherOpen
  BY <1>4 DEF EtherOpen, thread, buffers, QueueOK
<1>5. ASSUME NEW t \in Types, NEW handler \in {"null", "set"}, Attach(t, handler) PROVE QueueOK'
  BY <1>5 DEF Attach, thread, buffers, QueueOK
<1>6. ASSUME NEW t \in Types, Detach(t) PROVE QueueOK'
  BY <1>6 DEF Detach, thread, buffers, QueueOK
<1>7. CASE EtherReset
  BY <1>7 DEF EtherReset, thread, buffers, QueueOK
<1>8. CASE EtherInterrupt
  BY <1>8 DEF EtherInterrupt, thread, driver, QueueOK
<1>9. CASE AllocReturns
  BY <1>9 DEF AllocReturns, thread, driver, QueueOK
<1>10. CASE ReadPacket
  <2>1. PICK n \in Nat : n > 0 /\ n <= Len(queue) /\ queue' = SubSeq(queue, n + 1, Len(queue))
    <3>1. PICK n \in Taken : queue' = SubSeq(queue, n + 1, Len(queue))
      BY <1>10 DEF ReadPacket
    <3>2. Len(queue) \in Nat /\ Len(queue) > 0
      BY <1>10 DEF ReadPacket
    <3>3. n \in Nat /\ n > 0 /\ n <= Len(queue)
      BY <3>2 DEF Taken
    <3> QED
      BY <3>1, <3>3
  <2>2. Len(queue') = Len(queue) - n
    <3>1. queue \in Seq(Types \cup {Runt})
      OBVIOUS
    <3> QED
      BY <2>1, <3>1, RestLen
  <2>3. handled' = handled + 1 /\ received' = received
    BY <1>10 DEF ReadPacket
  <2>4. Len(queue) \in Nat /\ handled \in Nat /\ received \in Nat /\ handled + Len(queue) <= received
    BY DEF QueueOK
  <2>5. n \in Nat /\ n > 0
    BY <2>1
  <2> HIDE DEF TypeOK, IInv
  <2>6. handled' + Len(queue') <= received'
    BY <2>2, <2>3, <2>4, <2>5
  <2> QED
    BY <2>6 DEF QueueOK
<1>11. CASE HandlerReturns
  BY <1>11 DEF HandlerReturns, thread, driver, buffers, QueueOK
<1>12. CASE ReadNone
  BY <1>12 DEF ReadNone, Leave, QueueOK
<1>13. CASE ReadRunt
  BY <1>13 DEF ReadRunt, Leave, QueueOK
<1>14. ASSUME NEW p \in Types \cup {Runt}, Arrive(p) PROVE QueueOK'
  BY <1>14 DEF Arrive, thread, driver, buffers, QueueOK
<1>15. CASE UNCHANGED vars
  BY <1>15 DEF vars, thread, driver, buffers, QueueOK
<1> QED
  BY <1>1, <1>2, <1>3, <1>4, <1>5, <1>6, <1>7, <1>8, <1>9, <1>10, <1>11, <1>12,
    <1>13, <1>14, <1>15 DEF Next, Receiving, Driving, Interrupting

LEMMA InitIInv == Init => IInv
  <1> SUFFICES ASSUME Init PROVE IInv
    OBVIOUS
  <1> USE MaxPacketsAssumption, MaxNestAssumption DEF Init
  <1>1. queue \in Seq(Types \cup {Runt}) /\ Len(queue) = 0
    OBVIOUS
  <1>2. {flag, ether_packet} \subseteq BOOLEAN
    BY Zenon
  <1>3. TypeOK
    BY <1>1, <1>2 DEF TypeOK, ThreadPC, IrqPC
  <1>4. Handshake /\ CountOK /\ AttachedLive /\ QueueOK
    BY <1>1 DEF Handshake, Requests, CountOK, AttachedLive, QueueOK
  <1> QED
    BY <1>3, <1>4 DEF IInv

\* The inductive invariant holds in every state.
THEOREM Invariance == Spec => []IInv
  <1>1. IInv /\ [Next]_vars => IInv'
    BY TypeOKKept, HandshakeKept, CountOKKept, AttachedLiveKept, QueueOKKept DEF IInv
  <1> QED
    BY InitIInv, <1>1, PTL DEF Spec

\* The state stays well formed.
THEOREM TypeCorrect == Spec => []TypeOK
  <1>1. IInv => TypeOK
    BY DEF IInv
  <1> QED
    BY Invariance, <1>1, PTL

\* One packet is processed at a time.
THEOREM OneAtATime == Spec => []OnePacket
  <1>1. ASSUME IInv PROVE OnePacket
    BY <1>1, MaxNestAssumption DEF IInv, TypeOK, CountOK, Handshake, Requests, OnePacket
  <1> QED
    BY Invariance, <1>1, PTL

\* A reception thread that waits has exactly one request under way.
THEOREM RequestUnderWay == Spec => []Handshake
  <1>1. IInv => Handshake
    BY DEF IInv
  <1> QED
    BY Invariance, <1>1, PTL

\* Protocol handlers are only attached while the driver data is of this session.
THEOREM HandlersLive == Spec => []AttachedLive
  <1>1. IInv => AttachedLive
    BY DEF IInv
  <1> QED
    BY Invariance, <1>1, PTL

\* With a device that keeps packet boundaries no packet is lost.
THEOREM NothingLost ==
  ASSUME ~Slirp
  PROVE  Spec => []EveryPacket
  <1>1. Init => EveryPacket
    BY DEF Init, EveryPacket
  <1>2. IInv /\ EveryPacket /\ [Next]_vars => EveryPacket'
    <2> SUFFICES ASSUME IInv, EveryPacket, [Next]_vars PROVE EveryPacket'
      OBVIOUS
    <2> USE DEF IInv, TypeOK, EveryPacket
    <2>1. ASSUME NEW p \in Types \cup {Runt}, Arrive(p) PROVE EveryPacket'
      BY <2>1 DEF Arrive
    <2>2. CASE ReadPacket
      <3>1. queue' = SubSeq(queue, 2, Len(queue)) /\ handled' = handled + 1 /\ received' = received
        BY <2>2 DEF ReadPacket, Taken
      <3>2. queue \in Seq(Types \cup {Runt}) /\ Len(queue) \in Nat /\ Len(queue) > 0
        BY <2>2 DEF ReadPacket
      <3>3. Len(queue') = Len(queue) - 1
        <4>1. 1 \in Nat /\ 1 > 0 /\ 1 <= Len(queue) /\ 1 + 1 = 2
          BY <3>2
        <4>2. Len(SubSeq(queue, 1 + 1, Len(queue))) = Len(queue) - 1
          BY <3>2, <4>1, RestLen, Zenon
        <4> QED
          BY <3>1, <4>1, <4>2, Zenon
      <3>4. handled \in Nat /\ received \in Nat /\ received = handled + Len(queue)
        OBVIOUS
      <3>5. Len(queue) \in Nat /\ handled' = handled + 1 /\ received' = received
        BY <3>1, <3>2
      <3> HIDE DEF IInv, TypeOK, EveryPacket
      <3>6. received' = handled' + Len(queue')
        BY <3>3, <3>4, <3>5
      <3> QED
        BY <3>6 DEF EveryPacket
    <2>3. CASE ReadRunt
      BY <2>3 DEF ReadRunt, Leave
    <2>4. CASE UNCHANGED << queue, handled, received >>
      BY <2>4
    <2> QED
      BY <2>1, <2>2, <2>3, <2>4 DEF Next, Receiving, Driving, Interrupting, vars, Poll, Raise,
         SemWait, EtherOpen, Attach, Detach, EtherReset, EtherInterrupt, AllocReturns,
         HandlerReturns, ReadNone, Leave
  <1> QED
    BY Invariance, <1>1, <1>2, PTL DEF Spec
=============================================================================
