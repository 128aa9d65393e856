------------------------- MODULE TimeManagerProofs --------------------------
(***************************************************************************)
(* Proofs about MacTime, whose host time arithmetic computes what its      *)
(* names say for all values, and about TimeManager, for every set of       *)
(* tasks, number of descriptors and depth of passes.  IInv is inductive:   *)
(* one lemma per part of it says that every step keeps it. On it and on    *)
(* OnceInv rests the refinement: TimeManager implements Alarms.            *)
(***************************************************************************)
EXTENDS TimeManager, FiniteSetTheorems, FunctionTheorems, TLAPS

-----------------------------------------------------------------------------
(* Host times and Mac delays (MacTime).                                    *)

\* The duration of a Mac delay in microseconds.
Micro(mactime) == IF mactime > 0 THEN mactime * 1000 ELSE -mactime

\* A host time is s seconds and n nanoseconds: the order of the times is the
\* order of their values.
Earlier(a, b) == a.sec < b.sec \/ (a.sec = b.sec /\ a.nsec < b.nsec)

\* A host time is made of its two numbers.
LEMMA HostTimeFields ==
  ASSUME NEW a \in HostTime
  PROVE  /\ a.sec \in Int /\ a.nsec \in Int
         /\ 0 <= a.nsec /\ a.nsec < NanoPerSec
         /\ a = [sec |-> a.sec, nsec |-> a.nsec]
  <1>1. NanoPerSec \in Int
    BY SMT DEF NanoPerSec
  <1> QED  BY <1>1, SMT DEF HostTime

\* timer_cmp_time() is negative exactly for the earlier of two times.
THEOREM CompareOrders ==
  ASSUME NEW a \in HostTime, NEW b \in HostTime
  PROVE  /\ timer_cmp_time(a, b) < 0 <=> Earlier(a, b)
         /\ timer_cmp_time(a, b) = 0 <=> a = b
  <1>1. /\ a.sec \in Int /\ a.nsec \in Int /\ a = [sec |-> a.sec, nsec |-> a.nsec]
        /\ b.sec \in Int /\ b.nsec \in Int /\ b = [sec |-> b.sec, nsec |-> b.nsec]
    BY HostTimeFields, SMT
  <1>2. timer_cmp_time(a, b) < 0 <=> Earlier(a, b)
    BY <1>1, SMT DEF timer_cmp_time, Earlier
  <1>3. timer_cmp_time(a, b) = 0 <=> a.sec = b.sec /\ a.nsec = b.nsec
    BY <1>1, SMT DEF timer_cmp_time
  <1> QED  BY <1>1, <1>2, <1>3, SMT

\* timer_sub_time() undoes timer_add_time(), carries and borrows included.
THEOREM SubUndoesAdd ==
  ASSUME NEW a \in HostTime, NEW b \in HostTime
  PROVE  /\ timer_add_time(a, b) \in HostTime
         /\ timer_sub_time(a, b) \in HostTime
         /\ timer_sub_time(timer_add_time(a, b), b) = a
  <1>1. NanoPerSec \in Int
    BY SMT DEF NanoPerSec
  <1>2. /\ a.sec \in Int /\ a.nsec \in Int /\ a = [sec |-> a.sec, nsec |-> a.nsec]
        /\ b.sec \in Int /\ b.nsec \in Int
        /\ 0 <= a.nsec /\ a.nsec < NanoPerSec /\ 0 <= b.nsec /\ b.nsec < NanoPerSec
    BY HostTimeFields, SMT
  <1>3. timer_add_time(a, b) \in HostTime
    BY <1>1, <1>2, SMT DEF timer_add_time, HostTime
  <1>4. timer_sub_time(a, b) \in HostTime
    BY <1>1, <1>2, SMT DEF timer_sub_time, HostTime
  <1> DEFINE c == timer_add_time(a, b)
  <1>5. /\ c.sec = a.sec + b.sec + (IF a.nsec + b.nsec >= NanoPerSec THEN 1 ELSE 0)
        /\ c.nsec = a.nsec + b.nsec - (IF a.nsec + b.nsec >= NanoPerSec THEN NanoPerSec ELSE 0)
    BY <1>1, <1>2, SMT DEF timer_add_time
  <1> HIDE DEF c
  <1>6. timer_sub_time(c, b) = [sec |-> a.sec, nsec |-> a.nsec]
    BY <1>1, <1>2, <1>5, SMT DEF timer_sub_time
  <1> QED  BY <1>2, <1>3, <1>4, <1>6, SMT DEF c

\* timer_mac2host_time() gives a normalised time of the same duration.
LEMMA Mac2HostExact ==
  ASSUME NEW m \in MacDelay, NEW h, h = timer_mac2host_time(m)
  PROVE  /\ h \in HostTime
         /\ h.sec \in Nat
         /\ h.nsec \in Int
         /\ h.sec * 1000000 + h.nsec \div 1000 = Micro(m)
  <1>1. m \in Int /\ NanoPerSec \in Int
    BY SMT DEF MacDelay, NanoPerSec
  <1>2. CASE m > 0
    <2> DEFINE q == m \div 1000  r == m % 1000
    <2>1. q \in Nat /\ r \in Int /\ 0 <= r /\ r < 1000 /\ m = q * 1000 + r
      BY <1>1, <1>2, SMT
    <2>2. h = [sec |-> q, nsec |-> r * 1000000]
      BY <1>2, SMT DEF timer_mac2host_time
    <2> HIDE DEF q, r
    <2>3. 0 <= r * 1000000 /\ r * 1000000 < NanoPerSec /\ (r * 1000000) \div 1000 = r * 1000
      BY <2>1, SMT DEF NanoPerSec
    <2>4. h \in HostTime /\ h.sec \in Nat /\ h.nsec \in Int
      BY <1>1, <2>1, <2>2, <2>3, SMT DEF HostTime
    <2>5. h.sec * 1000000 + h.nsec \div 1000 = q * 1000000 + r * 1000
      BY <2>2, <2>3, SMT
    <2>6. Micro(m) = q * 1000000 + r * 1000
      BY <1>1, <1>2, <2>1, SMT DEF Micro
    <2> QED  BY <2>4, <2>5, <2>6, SMT
  <1>3. CASE ~(m > 0)
    <2> DEFINE q == (-m) \div 1000000  r == (-m) % 1000000
    <2>1. q \in Nat /\ r \in Int /\ 0 <= r /\ r < 1000000 /\ -m = q * 1000000 + r
      BY <1>1, <1>3, SMT
    <2>2. h = [sec |-> q, nsec |-> r * 1000]
      BY <1>3, SMT DEF timer_mac2host_time
    <2> HIDE DEF q, r
    <2>3. 0 <= r * 1000 /\ r * 1000 < NanoPerSec /\ (r * 1000) \div 1000 = r
      BY <2>1, SMT DEF NanoPerSec
    <2>4. h \in HostTime /\ h.sec \in Nat /\ h.nsec \in Int
      BY <1>1, <2>1, <2>2, <2>3, SMT DEF HostTime
    <2>5. h.sec * 1000000 + h.nsec \div 1000 = q * 1000000 + r
      BY <2>2, <2>3, SMT
    <2>6. Micro(m) = -m
      BY <1>1, <1>3, SMT DEF Micro
    <2> QED  BY <2>1, <2>4, <2>5, <2>6, SMT
  <1> QED  BY <1>2, <1>3

\* A delay converted to host time and back is the same duration: what
\* RmvTime() leaves in tmCount can be given to PrimeTime() again.
THEOREM RoundTrip ==
  ASSUME NEW m \in MacDelay
  PROVE  Micro(timer_host2mac_time(timer_mac2host_time(m))) = Micro(m)
  <1> DEFINE h == timer_mac2host_time(m)  t == h.sec * 1000000 + h.nsec \div 1000
  <1>1. h.sec \in Nat /\ t = Micro(m)
    BY Mac2HostExact, SMT
  <1>2. m \in Int /\ -MaxDelay <= m /\ MaxDelay \in Nat /\ MaxDelay > 0
    BY SMT DEF MacDelay, MaxDelay
  <1>3. timer_host2mac_time(h) = IF t > MaxDelay THEN t \div 1000 ELSE -t
    BY <1>1, SMT DEF timer_host2mac_time
  <1> HIDE DEF t, h
  <1>4. Micro(IF t > MaxDelay THEN t \div 1000 ELSE -t) = Micro(m)
    <2>1. CASE m > 0
      BY <1>1, <1>2, <2>1, SMT DEF Micro
    <2>2. CASE ~(m > 0)
      BY <1>1, <1>2, <2>2, SMT DEF Micro
    <2> QED  BY <2>1, <2>2
  <1> QED  BY <1>3, <1>4 DEF h

-----------------------------------------------------------------------------
(* The inductive invariant.                                                *)

\* A pass that is calling a task stands at a descriptor, and one that is running
\* has come to the first at least.
PassOK ==
    /\ \A d \in 1 .. MaxNest : pass[d].called # NoTask => pass[d].i \in Slots
    /\ \A d \in 1 .. depth : pass[d].i # 0

IInv == TypeOK /\ PassOK /\ UniqueDesc /\ Scheduled

-----------------------------------------------------------------------------
(* Times.                                                                  *)

LEMMA ClockZero == Time0 \in HostTime
  <1>1. NanoPerSec \in Int /\ 0 < NanoPerSec
    BY SMT DEF NanoPerSec
  <1> QED  BY <1>1, SMT DEF Time0, HostTime

LEMMA AddType ==
  ASSUME NEW a \in HostTime, NEW b \in HostTime
  PROVE  timer_add_time(a, b) \in HostTime
  BY SubUndoesAdd

LEMMA DelayType ==
  ASSUME NEW time \in Delays
  PROVE  timer_mac2host_time(time) \in HostTime
  BY DelaysAssumption, Mac2HostExact

LEMMA CountType ==
  ASSUME NEW a \in HostTime, NEW b \in HostTime
  PROVE  timer_host2mac_time(timer_sub_time(a, b)) \in Int
  <1> DEFINE h == timer_sub_time(a, b)
  <1>1. h \in HostTime
    BY SubUndoesAdd
  <1>2. h.sec \in Int /\ h.nsec \in Int
    BY <1>1, HostTimeFields
  <1>3. MaxDelay \in Int
    BY SMT DEF MaxDelay
  <1> QED  BY <1>2, <1>3, SMT DEF timer_host2mac_time

-----------------------------------------------------------------------------
(* What the actions do to the table.                                       *)

\* The descriptor at i becomes d, the others stay.
Changed(i, d) ==
    /\ desc' \in [Slots -> Desc]
    /\ desc'[i] = d
    /\ \A j \in Slots : j # i => desc'[j] = desc[j]

LEMMA ChangeOne ==
  ASSUME TableType, NEW i \in Slots, NEW d \in Desc, desc' = [desc EXCEPT ![i] = d]
  PROVE  Changed(i, d)
  BY DEF TableType, Changed

LEMMA InsTimeTable ==
  ASSUME TableType, NEW t \in Tasks, InsTime(t)
  PROVE  \/ desc' = desc
         \/ \E i \in Slots :
               /\ ~Installed(t) /\ ~desc[i].in_use
               /\ Changed(i, [task |-> t, wakeup |-> desc[i].wakeup, in_use |-> TRUE])
  <1> SUFFICES ASSUME NEW i \in Slots, ~Installed(t), ~desc[i].in_use,
                      desc' = [desc EXCEPT ![i].task = t, ![i].in_use = TRUE]
               PROVE  Changed(i, [task |-> t, wakeup |-> desc[i].wakeup, in_use |-> TRUE])
    BY DEF InsTime, FirstFree
  <1> DEFINE d == [task |-> t, wakeup |-> desc[i].wakeup, in_use |-> TRUE]
  <1>1. desc[i] \in Desc
    BY DEF TableType
  <1>2. d \in Desc
    BY <1>1 DEF Desc
  <1>3. desc' = [desc EXCEPT ![i] = d]
    BY <1>1 DEF Desc, TableType
  <1> QED
    BY <1>2, <1>3, ChangeOne

LEMMA RmvTimeTable ==
  ASSUME TableType, NEW t \in Tasks, RmvTime(t)
  PROVE  \E i \in Slots :
            /\ Holds(i, t)
            /\ Changed(i, [desc[i] EXCEPT !.in_use = FALSE])
            /\ tmCount' = IF active[t] THEN TimeLeft(i) ELSE 0
  <1>1. PICK i \in Slots :
            /\ Holds(i, t)
            /\ desc' = [desc EXCEPT ![i].in_use = FALSE]
            /\ tmCount' = IF active[t] THEN TimeLeft(i) ELSE 0
    BY DEF RmvTime, Found
  <1>2. desc[i] \in Desc
    BY DEF TableType
  <1>3. [desc[i] EXCEPT !.in_use = FALSE] \in Desc
    BY <1>2 DEF Desc
  <1>4. Changed(i, [desc[i] EXCEPT !.in_use = FALSE])
    BY <1>1, <1>3, ChangeOne
  <1> QED
    BY <1>1, <1>4

LEMMA PrimeTimeTable ==
  ASSUME TableType, TaskType, NEW t \in Tasks, NEW time \in Delays, PrimeTime(t, time)
  PROVE  \E i \in Slots :
            /\ Holds(i, t)
            /\ Changed(i, [desc[i] EXCEPT
                   !.wakeup = timer_add_time(PrimeBase(i, t), timer_mac2host_time(time))])
  <1>1. PICK i \in Slots :
            /\ Holds(i, t)
            /\ desc' = [desc EXCEPT
                   ![i].wakeup = timer_add_time(PrimeBase(i, t), timer_mac2host_time(time))]
    BY DEF PrimeTime, Found
  <1>2. desc[i] \in Desc
    BY DEF TableType
  <1>3. PrimeBase(i, t) \in HostTime
    BY <1>2 DEF PrimeBase, TaskType, Desc
  <1> DEFINE w == timer_add_time(PrimeBase(i, t), timer_mac2host_time(time))
  <1>4. w \in HostTime
    BY <1>3, DelayType, AddType
  <1>5. [desc[i] EXCEPT !.wakeup = w] \in Desc
    BY <1>2, <1>4 DEF Desc
  <1>6. Changed(i, [desc[i] EXCEPT !.wakeup = w])
    BY <1>1, <1>5, ChangeOne
  <1> QED
    BY <1>1, <1>6

LEMMA TimerResetTable ==
  ASSUME TableType, TimerReset
  PROVE  desc' \in [Slots -> Desc] /\ \A i \in Slots : ~desc'[i].in_use
  BY DEF TableType, TimerReset, Desc

\* The other actions leave the table alone.
LEMMA TableSame ==
  ASSUME [Next]_vars, desc' # desc
  PROVE  \/ TimerReset
         \/ \E t \in Tasks : InsTime(t) \/ RmvTime(t)
         \/ \E t \in Tasks, time \in Delays : PrimeTime(t, time)
  BY DEF Next, vars, TimerInterrupt, Skip, Fire, TaskReturns, PassEnds, Tick

-----------------------------------------------------------------------------
(* Every step keeps the conjuncts of IInv.                                 *)

LEMMA TableTypeKept ==
  ASSUME IInv, [Next]_vars
  PROVE  TableType'
  <1> USE DEF IInv, TypeOK
  <1>1. CASE desc' = desc
    BY <1>1 DEF TableType, Slots
  <1>2. ASSUME NEW t \in Tasks, InsTime(t), desc' # desc PROVE TableType'
    <2>1. PICK i \in Slots :
             Changed(i, [task |-> t, wakeup |-> desc[i].wakeup, in_use |-> TRUE])
      BY <1>2, InsTimeTable
    <2> QED
      BY <2>1 DEF TableType, Changed
  <1>3. ASSUME NEW t \in Tasks, RmvTime(t) PROVE TableType'
    <2>1. PICK i \in Slots : Changed(i, [desc[i] EXCEPT !.in_use = FALSE])
      BY <1>3, RmvTimeTable
    <2>2. desc[i] \in Desc
      BY DEF TableType
    <2> QED
      BY <2>1, <2>2 DEF TableType, Changed, Desc
  <1>4. ASSUME NEW t \in Tasks, NEW time \in Delays, PrimeTime(t, time) PROVE TableType'
    <2>1. PICK i \in Slots :
             /\ Holds(i, t)
             /\ Changed(i, [desc[i] EXCEPT
                   !.wakeup = timer_add_time(PrimeBase(i, t), timer_mac2host_time(time))])
      BY <1>4, PrimeTimeTable
    <2>2. desc[i] \in Desc
      BY DEF TableType
    <2> QED
      BY <2>1, <2>2 DEF TableType, Changed, Desc, Holds
  <1>5. CASE TimerReset
    BY <1>5, TimerResetTable DEF TableType
  <1> QED
    BY <1>1, <1>2, <1>3, <1>4, <1>5, TableSame

\* The active bits are set and cleared one at a time.
LEMMA ActiveTypeKept ==
  ASSUME IInv, [Next]_vars
  PROVE  active' \in [Tasks -> BOOLEAN]
  <1> USE DEF IInv, TypeOK, TaskType
  <1>1. ASSUME NEW t \in Tasks, NEW b \in BOOLEAN, active' = [active EXCEPT ![t] = b]
        PROVE  active' \in [Tasks -> BOOLEAN]
    BY <1>1, Zenon
  <1>2. CASE active' = active
    BY <1>2, Zenon
  <1>3. ASSUME NEW t \in Tasks, InsTime(t) \/ RmvTime(t) PROVE active' = [active EXCEPT ![t] = FALSE]
    BY <1>3, Zenon DEF InsTime, RmvTime
  <1>4. ASSUME NEW t \in Tasks, NEW time \in Delays, PrimeTime(t, time)
        PROVE  active' = [active EXCEPT ![t] = TRUE]
    BY <1>4, Zenon DEF PrimeTime
  <1>5. ASSUME NEW hasCode \in BOOLEAN, Fire(hasCode)
        PROVE  \E t \in Tasks : active' = [active EXCEPT ![t] = FALSE]
    <2>1. depth \in 1 .. MaxNest /\ pass[depth] \in Pass /\ pass[depth].i <= NumDescs
      BY <1>5, MaxNestAssumption DEF Fire, Scanning, PassType
    <2>2. pass[depth].i \in Slots
      BY <2>1, NumDescsAssumption DEF Pass, PassOK, Slots
    <2> QED
      BY <1>5, <2>2 DEF Fire, Expired, TableType
  <1>6. CASE TimerReset \/ TimerInterrupt \/ Skip \/ TaskReturns \/ PassEnds \/ Tick
    BY <1>2, <1>6 DEF TimerReset, TimerInterrupt, Skip, TaskReturns, PassEnds, Tick, memory
  <1>7. CASE UNCHANGED vars
    BY <1>2, <1>7 DEF vars, memory
  <1>8. TRUE \in BOOLEAN /\ FALSE \in BOOLEAN
    BY Zenon
  <1> QED
    BY <1>1, <1>3, <1>4, <1>5, <1>6, <1>7, <1>8 DEF Next

LEMMA WakeUpTypeKept ==
  ASSUME IInv, [Next]_vars
  PROVE  tmWakeUp' \in [Tasks -> BOOLEAN]
  <1> USE DEF IInv, TypeOK, TaskType
  <1>1. CASE tmWakeUp' = tmWakeUp
    BY <1>1, Zenon
  <1>2. ASSUME NEW t \in Tasks, NEW time \in Delays, PrimeTime(t, time)
        PROVE  tmWakeUp' \in [Tasks -> BOOLEAN]
    <2>1. tmWakeUp' = [tmWakeUp EXCEPT ![t] = tmWakeUp[t] \/ t \in Extended]
      BY <1>2, Zenon DEF PrimeTime
    <2> QED
      BY <2>1, Zenon
  <1>3. tmWakeUp' = tmWakeUp \/ \E t \in Tasks, time \in Delays : PrimeTime(t, time)
    BY DEF Next, vars, memory, InsTime, RmvTime, TimerReset, TimerInterrupt, Skip, Fire,
       TaskReturns, PassEnds, Tick
  <1> QED
    BY <1>1, <1>2, <1>3

LEMMA ClockTypeKept ==
  ASSUME IInv, [Next]_vars
  PROVE  clock' \in HostTime
  BY ClockAssumption, AddType DEF IInv, TypeOK, TaskType, Next, vars, memory, InsTime, RmvTime,
     PrimeTime, TimerReset, TimerInterrupt, Skip, Fire, TaskReturns, PassEnds, Tick

LEMMA CountTypeKept ==
  ASSUME IInv, [Next]_vars
  PROVE  tmCount' \in Int
  <1> USE DEF IInv, TypeOK, TaskType
  <1>1. ASSUME NEW t \in Tasks, RmvTime(t) PROVE tmCount' \in Int
    <2>1. PICK i \in Slots : tmCount' = IF active[t] THEN TimeLeft(i) ELSE 0
      BY <1>1, RmvTimeTable
    <2>2. desc[i].wakeup \in HostTime
      BY DEF TableType, Desc
    <2>3. TimeLeft(i) \in Int
      BY <2>2, CountType DEF TimeLeft
    <2> QED
      BY <2>1, <2>3
  <1>2. tmCount' = tmCount \/ \E t \in Tasks : RmvTime(t)
    BY DEF Next, vars, memory, InsTime, PrimeTime, TimerReset, TimerInterrupt, Skip, Fire,
       TaskReturns, PassEnds, Tick
  <1> QED
    BY <1>1, <1>2

LEMMA DueTypeKept ==
  ASSUME IInv, [Next]_vars
  PROVE  due' \in [Tasks -> HostTime]
  <1> USE DEF IInv, TypeOK, TaskType
  <1>1. ASSUME NEW t, Unscheduled(t) PROVE due' \in [Tasks -> HostTime]
    BY <1>1, ClockZero DEF Unscheduled
  <1>2. ASSUME NEW t \in Tasks, NEW time \in Delays, PrimeTime(t, time)
        PROVE  due' \in [Tasks -> HostTime]
    <2>1. DueBase(t) \in HostTime
      BY DEF DueBase
    <2>2. timer_add_time(DueBase(t), timer_mac2host_time(time)) \in HostTime
      BY <2>1, DelayType, AddType
    <2> QED
      BY <1>2, <2>2 DEF PrimeTime
  <1>3. \/ due' = due
        \/ \E t : Unscheduled(t)
        \/ \E t \in Tasks, time \in Delays : PrimeTime(t, time)
    BY DEF Next, vars, InsTime, RmvTime, TimerReset, TimerInterrupt, Skip, Fire, TaskReturns,
       PassEnds, Tick
  <1> QED
    BY <1>1, <1>2, <1>3

LEMMA PassTypeKept ==
  ASSUME IInv, [Next]_vars
  PROVE  PassType' /\ PassOK'
  <1> USE MaxNestAssumption, NumDescsAssumption, NoTaskAssumption
      DEF IInv, TypeOK, PassType, PassOK, Slots
  <1> DEFINE Moved(p) ==
        /\ pass' = [pass EXCEPT ![depth] = p]
        /\ depth \in 1 .. MaxNest /\ p \in Pass
        /\ p.called # NoTask => p.i \in Slots
        /\ (depth' = depth /\ p.i # 0) \/ depth' = depth - 1
        /\ ran' \in [1 .. MaxNest -> SUBSET Tasks]
  <1>1. ASSUME NEW p, Moved(p) PROVE PassType' /\ PassOK'
    BY <1>1
  <1> HIDE DEF Moved
  <1>2. CASE TimerInterrupt
    <2> DEFINE p == [i |-> 1, now |-> clock, called |-> NoTask]
    <2>1. p \in Pass
      BY DEF Pass, TaskType
    <2>2. pass' = [pass EXCEPT ![depth + 1] = p] /\ ran' = ran /\ depth' = depth + 1 /\ depth < MaxNest
      BY <1>2 DEF TimerInterrupt
    <2>3. p.called = NoTask /\ p.i # 0
      OBVIOUS
    <2> HIDE DEF p
    <2>4. PassType'
      BY <2>1, <2>2
    <2>5. depth \in 0 .. MaxNest /\ pass'[depth + 1] = p
      BY <2>2
    <2>6. \A d \in 1 .. MaxNest : d # depth + 1 => pass'[d] = pass[d]
      BY <2>2
    <2>7. PassOK'
      BY <2>2, <2>3, <2>5, <2>6
    <2> QED
      BY <2>4, <2>7
  <1>3. CASE Skip
    <2> DEFINE p == [pass[depth] EXCEPT !.i = @ + 1]
    <2>1. depth \in 1 .. MaxNest /\ pass[depth] \in Pass /\ pass[depth].called = NoTask
      BY <1>3 DEF Skip, Scanning
    <2>2. p \in Pass /\ p.called = NoTask /\ p.i # 0
      BY <1>3, <2>1 DEF Skip, Pass
    <2>3. pass' = [pass EXCEPT ![depth] = p] /\ ran' = ran /\ depth' = depth
      BY <1>3 DEF Skip
    <2> HIDE DEF p
    <2> QED
      BY <1>1, <2>1, <2>2, <2>3 DEF Moved
  <1>4. ASSUME NEW hasCode \in BOOLEAN, Fire(hasCode) PROVE PassType' /\ PassOK'
    <2> DEFINE i == pass[depth].i  t == desc[i].task
               p == IF hasCode THEN [pass[depth] EXCEPT !.called = t]
                    ELSE [pass[depth] EXCEPT !.i = @ + 1]
    <2>1. /\ depth \in 1 .. MaxNest /\ pass[depth] \in Pass /\ pass[depth].called = NoTask
          /\ i <= NumDescs /\ desc[i].in_use
      BY <1>4 DEF Fire, Scanning, Expired
    <2>2. i \in 0 .. NumDescs + 1
      BY <2>1 DEF Pass
    <2>3. pass' = [pass EXCEPT ![depth] = p] /\ depth' = depth
      BY <1>4 DEF Fire
    <2>4. i \in Slots
      BY <2>1, <2>2
    <2>5. t \in Tasks
      BY <2>1, <2>4 DEF TableType
    <2>6. ran' \in [1 .. MaxNest -> SUBSET Tasks]
      <3>1. CASE hasCode
        <4>1. ran' = [ran EXCEPT ![depth] = ran[depth] \cup {t}]
          BY <1>4, <3>1 DEF Fire
        <4> QED
          BY <2>1, <2>5, <4>1
      <3>2. CASE ~hasCode
        BY <1>4, <3>2 DEF Fire
      <3> QED
        BY <3>1, <3>2
    <2>7. p \in Pass /\ p.i # 0 /\ (p.called # NoTask => p.i \in Slots)
      BY <2>1, <2>4, <2>5 DEF Pass
    <2> HIDE DEF p
    <2> QED
      BY <1>1, <2>1, <2>3, <2>6, <2>7 DEF Moved
  <1>5. CASE TaskReturns
    <2> DEFINE p == [pass[depth] EXCEPT !.called = NoTask, !.i = @ + 1]
    <2>1. /\ depth \in 1 .. MaxNest /\ pass[depth] \in Pass /\ pass[depth].called # NoTask
          /\ ran' = ran /\ depth' = depth
      BY <1>5 DEF TaskReturns
    <2>2. pass[depth].i \in Slots
      BY <2>1
    <2>3. /\ p = [i |-> pass[depth].i + 1, now |-> pass[depth].now, called |-> NoTask]
          /\ pass' = [pass EXCEPT ![depth] = p]
      BY <1>5, <2>1 DEF TaskReturns, Pass
    <2>4. p \in Pass /\ p.called = NoTask /\ p.i # 0
      BY <2>1, <2>2, <2>3 DEF Pass
    <2> HIDE DEF p
    <2> QED
      BY <1>1, <2>1, <2>3, <2>4 DEF Moved
  <1>6. CASE PassEnds
    <2>1. depth \in 1 .. MaxNest /\ depth' = depth - 1 /\ pass' = [pass EXCEPT ![depth] = NoPass]
      BY <1>6 DEF PassEnds, Scanning
    <2>2. ran' \in [1 .. MaxNest -> SUBSET Tasks]
      BY <1>6 DEF PassEnds
    <2>3. NoPass \in Pass /\ NoPass.called = NoTask
      BY ClockZero DEF NoPass, Pass
    <2> QED
      BY <1>1, <2>1, <2>2, <2>3 DEF Moved
  <1>7. CASE UNCHANGED passes
    BY <1>7 DEF passes
  <1> QED
    BY <1>2, <1>3, <1>4, <1>5, <1>6, <1>7
       DEF Next, vars, InsTime, RmvTime, PrimeTime, TimerReset, Tick

LEMMA UniqueDescKept ==
  ASSUME IInv, [Next]_vars
  PROVE  UniqueDesc'
  <1> USE DEF IInv, TypeOK, UniqueDesc
  <1>1. CASE desc' = desc
    BY <1>1 DEF Slots
  <1>2. ASSUME NEW t \in Tasks, InsTime(t), desc' # desc PROVE UniqueDesc'
    <2>1. PICK i \in Slots :
             /\ ~Installed(t)
             /\ Changed(i, [task |-> t, wakeup |-> desc[i].wakeup, in_use |-> TRUE])
      BY <1>2, InsTimeTable
    <2> QED
      BY <2>1 DEF Changed, Installed, Holds, Slots
  <1>3. ASSUME NEW t \in Tasks, RmvTime(t) PROVE UniqueDesc'
    <2>1. PICK i \in Slots : Changed(i, [desc[i] EXCEPT !.in_use = FALSE])
      BY <1>3, RmvTimeTable
    <2>2. desc[i] \in Desc
      BY DEF TableType
    <2> QED
      BY <2>1, <2>2 DEF Changed, Desc, Slots
  <1>4. ASSUME NEW t \in Tasks, NEW time \in Delays, PrimeTime(t, time) PROVE UniqueDesc'
    <2>1. PICK i \in Slots :
             Changed(i, [desc[i] EXCEPT
                   !.wakeup = timer_add_time(PrimeBase(i, t), timer_mac2host_time(time))])
      BY <1>4, PrimeTimeTable
    <2>2. desc[i] \in Desc
      BY DEF TableType
    <2> QED
      BY <2>1, <2>2 DEF Changed, Desc, Slots
  <1>5. CASE TimerReset
    BY <1>5, TimerResetTable DEF Slots
  <1> QED
    BY <1>1, <1>2, <1>3, <1>4, <1>5, TableSame

\* A descriptor of a waiting task has the time that task asked for: a task that
\* gets a descriptor does not wait, and PrimeTime() changes only its own.
LEMMA ScheduledKept ==
  ASSUME IInv, [Next]_vars
  PROVE  Scheduled'
  <1> USE DEF IInv, TypeOK, TaskType, Scheduled, OnSchedule, Holds
  <1> SUFFICES ASSUME NEW u \in Tasks \ Extended, NEW k \in Slots,
                      desc'[k].in_use, desc'[k].task = u, active'[u]
               PROVE  desc'[k].wakeup = due'[u]
    BY DEF Slots
  <1>1. ASSUME NEW t \in Tasks, InsTime(t) PROVE desc'[k].wakeup = due'[u]
    <2>1. u # t /\ active[u] /\ due'[u] = due[u]
      BY <1>1 DEF InsTime, Unscheduled
    <2>2. desc'[k] = desc[k]
      <3>1. CASE desc' = desc
        BY <3>1
      <3>2. ASSUME NEW i \in Slots,
                   Changed(i, [task |-> t, wakeup |-> desc[i].wakeup, in_use |-> TRUE])
            PROVE  desc'[k] = desc[k]
        BY <2>1, <3>2 DEF Changed
      <3> QED
        BY <1>1, <3>1, <3>2, InsTimeTable
    <2> QED
      BY <2>1, <2>2
  <1>2. ASSUME NEW t \in Tasks, RmvTime(t) PROVE desc'[k].wakeup = due'[u]
    <2>1. u # t /\ active[u] /\ due'[u] = due[u]
      BY <1>2 DEF RmvTime, Unscheduled
    <2>2. PICK i \in Slots : Holds(i, t) /\ Changed(i, [desc[i] EXCEPT !.in_use = FALSE])
      BY <1>2, RmvTimeTable
    <2>3. desc[i] \in Desc
      BY DEF TableType
    <2>4. desc'[k] = desc[k]
      BY <2>1, <2>2, <2>3 DEF Changed, Desc
    <2> QED
      BY <2>1, <2>4
  <1>3. ASSUME NEW t \in Tasks, NEW time \in Delays, PrimeTime(t, time)
        PROVE  desc'[k].wakeup = due'[u]
    <2> DEFINE w(i) == timer_add_time(PrimeBase(i, t), timer_mac2host_time(time))
    <2>1. PICK i \in Slots : Holds(i, t) /\ Changed(i, [desc[i] EXCEPT !.wakeup = w(i)])
      BY <1>3, PrimeTimeTable
    <2>2. desc[i] \in Desc
      BY DEF TableType
    <2>3. CASE u = t
      <3>1. desc'[i].in_use /\ desc'[i].task = t /\ desc'[i].wakeup = w(i)
        BY <2>1, <2>2 DEF Changed, Desc
      <3>2. k = i
        BY <2>1, <2>3 DEF Changed, UniqueDesc
      <3>3. due'[u] = w(i)
        BY <1>3, <2>3 DEF PrimeTime, DueBase, PrimeBase
      <3> QED
        BY <3>1, <3>2, <3>3
    <2>4. CASE u # t
      <3>1. active[u] /\ due'[u] = due[u]
        BY <1>3, <2>4 DEF PrimeTime
      <3>2. k # i
        BY <2>1, <2>2, <2>4 DEF Changed, Desc
      <3> QED
        BY <2>1, <3>1, <3>2 DEF Changed
    <2> QED
      BY <2>3, <2>4
  <1>4. CASE TimerReset
    BY <1>4, TimerResetTable
  <1>5. ASSUME NEW hasCode \in BOOLEAN, Fire(hasCode) PROVE desc'[k].wakeup = due'[u]
    <2>1. desc[pass[depth].i].task # u /\ active[u]
      BY <1>5 DEF Fire
    <2>2. due'[u] = due[u] /\ desc' = desc
      BY <1>5, <2>1 DEF Fire, Unscheduled
    <2> QED
      BY <2>1, <2>2
  <1>6. CASE UNCHANGED << desc, active, due >>
    BY <1>6
  <1> QED
    BY <1>1, <1>2, <1>3, <1>4, <1>5, <1>6
       DEF Next, vars, memory, TimerInterrupt, Skip, TaskReturns, PassEnds, Tick

LEMMA InitIInv == Init => IInv
  <1> SUFFICES ASSUME Init PROVE IInv
    OBVIOUS
  <1> USE MaxNestAssumption, NumDescsAssumption, ClockZero DEF Init
  <1>1. TableType
    BY DEF TableType, Desc
  <1>2. active \in [Tasks -> BOOLEAN] /\ tmWakeUp \in [Tasks -> BOOLEAN]
    BY Zenon
  <1>3. TaskType
    BY <1>2 DEF TaskType
  <1>4. PassType /\ PassOK
    BY DEF PassType, PassOK, Pass, NoPass
  <1>5. UniqueDesc /\ Scheduled
    BY DEF UniqueDesc, Scheduled, OnSchedule, Holds, Slots
  <1> QED
    BY <1>1, <1>3, <1>4, <1>5 DEF IInv, TypeOK

\* The inductive invariant holds in every state.
THEOREM Invariance == Spec => []IInv
  <1>1. IInv /\ [Next]_vars => IInv'
    <2> SUFFICES ASSUME IInv, [Next]_vars PROVE IInv'
      OBVIOUS
    <2>1. TaskType'
      BY ActiveTypeKept, WakeUpTypeKept, ClockTypeKept, CountTypeKept, DueTypeKept DEF TaskType
    <2> QED
      BY <2>1, TableTypeKept, PassTypeKept, UniqueDescKept, ScheduledKept DEF IInv, TypeOK
  <1> QED
    BY InitIInv, <1>1, PTL DEF Spec

\* The table, the task records and the passes are well formed.
THEOREM TypeCorrect == Spec => []TypeOK
  <1>1. IInv => TypeOK
    BY DEF IInv
  <1> QED
    BY Invariance, <1>1, PTL

\* No task ever has two descriptors.
THEOREM OneDescriptor == Spec => []UniqueDesc
  <1>1. IInv => UniqueDesc
    BY DEF IInv
  <1> QED
    BY Invariance, <1>1, PTL

\* A waiting task is scheduled for the time it asked for.
THEOREM OnTime == Spec => []Scheduled
  <1>1. IInv => Scheduled
    BY DEF IInv
  <1> QED
    BY Invariance, <1>1, PTL

\* InsTime() finds no descriptor only while there are as many tasks as
\* descriptors: none is lost, whatever is removed under a pass (alloc_desc()).
NoDescLost == TableFull => Cardinality({t \in Tasks : Installed(t)}) = NumDescs

THEOREM RoomForTasks == Spec => []NoDescLost
  <1>1. ASSUME IInv, TableFull
        PROVE  Cardinality({t \in Tasks : Installed(t)}) = NumDescs
    <2> DEFINE S == {t \in Tasks : Installed(t)}
               f == [i \in Slots |-> desc[i].task]
    <2>1. \A i \in Slots : desc[i].in_use /\ desc[i].task \in Tasks
      BY <1>1 DEF IInv, TypeOK, TableType, TableFull
    <2>2. f \in [Slots -> S]
      BY <2>1 DEF Installed, Holds
    <2>3. \A i, j \in Slots : f[i] = f[j] => i = j
      BY <1>1, <2>1 DEF IInv, UniqueDesc
    <2>4. \A t \in S : \E i \in Slots : f[i] = t
      BY DEF Installed, Holds
    <2> HIDE DEF f, S
    <2>5. f \in Bijection(Slots, S)
      BY <2>2, <2>3, <2>4, Fun_IsBij
    <2>6. IsFiniteSet(Slots) /\ Cardinality(Slots) = NumDescs
      BY NumDescsAssumption, FS_Interval DEF Slots
    <2> QED  BY <2>5, <2>6, FS_Bijection DEF S, ExistsBijection
  <1>2. IInv => NoDescLost
    BY <1>1 DEF NoDescLost
  <1> QED  BY Invariance, <1>2, PTL

-----------------------------------------------------------------------------
(* A pass calls a task once.                                               *)

\* A pass keeps the time it began at, which is not after the clock. A task it has
\* called waits for a later time, if it waits at all.
OnceInv ==
    /\ \A d \in 1 .. depth : ~Before(clock, pass[d].now)
    /\ \A d \in 1 .. MaxNest : d > depth => ran[d] = {}
    /\ \A d \in 1 .. depth : \A t \in ran[d] \ Extended :
          active[t] => ~Before(due[t], pass[d].now)

LEMMA NotBefore ==
  ASSUME NEW a \in HostTime, NEW b \in HostTime
  PROVE  /\ ~Before(a, a)
         /\ b.sec >= 0 => ~Before(timer_add_time(a, b), a)
  <1>1. /\ a.sec \in Int /\ a.nsec \in Int /\ b.sec \in Int /\ b.nsec \in Int
        /\ 0 <= b.nsec /\ a.nsec < NanoPerSec
    BY HostTimeFields, SMT
  <1> QED  BY <1>1, SMT DEF Before, timer_cmp_time, timer_add_time, NanoPerSec

LEMMA NotBeforeTransitive ==
  ASSUME NEW a \in HostTime, NEW b \in HostTime, NEW c \in HostTime,
         ~Before(b, a), ~Before(c, b)
  PROVE  ~Before(c, a)
  <1>1. /\ a.sec \in Int /\ a.nsec \in Int /\ b.sec \in Int /\ b.nsec \in Int
        /\ c.sec \in Int /\ c.nsec \in Int
    BY HostTimeFields, SMT
  <1> QED  BY <1>1, SMT DEF Before, timer_cmp_time

\* Mac code and the clock: the passes stay where they are.
LEMMA MacKeepsOnce ==
  ASSUME IInv, OnceInv,
         \/ TimerReset \/ Tick
         \/ \E t \in Tasks : InsTime(t) \/ RmvTime(t)
         \/ \E t \in Tasks, time \in Delays : PrimeTime(t, time)
  PROVE  OnceInv'
  <1> USE DEF IInv, TypeOK, TaskType, PassType, passes, memory
  <1>1. \A d \in 1 .. depth : d \in 1 .. MaxNest /\ pass[d].now \in HostTime /\ ran[d] \subseteq Tasks
    BY MaxNestAssumption DEF Pass
  <1>2. CASE TimerReset
    BY <1>2 DEF TimerReset, OnceInv
  <1>3. CASE Tick
    <2>1. clock' \in HostTime /\ ~Before(clock', clock)
      BY <1>3, ClockAssumption, AddType, NotBefore DEF Tick
    <2>2. \A d \in 1 .. depth : ~Before(clock', pass[d].now)
      BY <1>1, <2>1, NotBeforeTransitive DEF OnceInv
    <2> QED  BY <1>3, <2>2 DEF Tick, OnceInv
  <1>4. ASSUME NEW t \in Tasks, InsTime(t) \/ RmvTime(t)
        PROVE  OnceInv'
    <2>1. /\ active' = [active EXCEPT ![t] = FALSE]
          /\ Unscheduled(t)
          /\ UNCHANGED << clock, passes >>
      BY <1>4, Zenon DEF InsTime, RmvTime
    <2>2. \A u \in Tasks : active'[u] => u # t /\ active[u] /\ due'[u] = due[u]
      BY <2>1 DEF Unscheduled
    <2> QED  BY <1>1, <2>1, <2>2 DEF OnceInv
  <1>5. ASSUME NEW t \in Tasks, NEW time \in Delays, PrimeTime(t, time)
        PROVE  OnceInv'
    <2> DEFINE delay == timer_mac2host_time(time)
    <2>1. /\ active' = [active EXCEPT ![t] = TRUE]
          /\ due' = [due EXCEPT ![t] = timer_add_time(DueBase(t), delay)]
          /\ UNCHANGED << clock, passes >>
      BY <1>5 DEF PrimeTime
    <2>2. delay \in HostTime /\ delay.sec >= 0
      BY DelaysAssumption, Mac2HostExact
    <2> HIDE DEF delay
    <2>3. ASSUME t \notin Extended
          PROVE  due'[t] \in HostTime /\ ~Before(due'[t], clock)
      BY <2>1, <2>2, <2>3, AddType, NotBefore DEF DueBase
    <2>4. ASSUME t \notin Extended, NEW d \in 1 .. depth
          PROVE  ~Before(due'[t], pass[d].now)
      BY <1>1, <2>3, <2>4, NotBeforeTransitive DEF OnceInv
    <2>5. \A u \in Tasks : u # t => active'[u] = active[u] /\ due'[u] = due[u]
      BY <2>1
    <2> QED  BY <1>1, <2>1, <2>4, <2>5 DEF OnceInv
  <1> QED  BY <1>2, <1>3, <1>4, <1>5

\* What a call of the task u, or of one without code, does to the last pass.
Fired(i, u) ==
    /\ depth \in 1 .. MaxNest /\ u = desc[i].task
    /\ desc[i].in_use /\ active[u] /\ Before(desc[i].wakeup, pass[depth].now)
    /\ \A d \in 1 .. MaxNest : /\ pass'[d].now = pass[d].now
                               /\ d # depth => pass'[d] = pass[d]
    /\ pass'[depth].called \in {u, NoTask}
    /\ depth' = depth /\ clock' = clock
    /\ active' = [active EXCEPT ![u] = FALSE]
    /\ Unscheduled(u)
    /\ ran' = ran \/ ran' = [ran EXCEPT ![depth] = ran[depth] \cup {u}]

LEMMA FireEffect ==
  ASSUME IInv, \E hasCode \in BOOLEAN : Fire(hasCode)
  PROVE  \E i \in Slots : \E u \in Tasks : Fired(i, u)
  <1> USE MaxNestAssumption, NumDescsAssumption, NoTaskAssumption
      DEF IInv, TypeOK, PassType, PassOK, Slots
  <1>0. PICK hasCode \in BOOLEAN : Fire(hasCode)
    OBVIOUS
  <1> DEFINE i == pass[depth].i
             u == desc[i].task
             p == IF hasCode THEN [pass[depth] EXCEPT !.called = u]
                  ELSE [pass[depth] EXCEPT !.i = @ + 1]
  <1>1. /\ depth \in 1 .. MaxNest /\ pass[depth] \in Pass /\ pass[depth].called = NoTask
        /\ i <= NumDescs /\ desc[i].in_use
        /\ active[u] /\ Before(desc[i].wakeup, pass[depth].now)
    BY <1>0 DEF Fire, Scanning, Expired
  <1>2. i \in Slots
    BY <1>1 DEF Pass
  <1>3. u \in Tasks
    BY <1>1, <1>2 DEF TableType
  <1>4. pass' = [pass EXCEPT ![depth] = p]
    BY <1>0 DEF Fire
  <1>5. p.now = pass[depth].now /\ p.called = IF hasCode THEN u ELSE NoTask
    BY <1>1 DEF Pass
  <1> HIDE DEF p
  <1>6. /\ \A d \in 1 .. MaxNest : /\ pass'[d].now = pass[d].now
                                   /\ d # depth => pass'[d] = pass[d]
        /\ pass'[depth] = p
    BY <1>1, <1>4, <1>5
  <1>7. /\ depth' = depth /\ clock' = clock
        /\ active' = [active EXCEPT ![u] = FALSE]
        /\ Unscheduled(u)
    BY <1>0, Zenon DEF Fire
  <1>8. ran' = ran \/ ran' = [ran EXCEPT ![depth] = ran[depth] \cup {u}]
    BY <1>0 DEF Fire
  <1>9. Fired(i, u)
    BY <1>1, <1>5, <1>6, <1>7, <1>8 DEF Fired
  <1> QED  BY <1>2, <1>3, <1>9

\* The other steps of the last pass leave its time alone and call nothing.
LEMMA StepEffect ==
  ASSUME IInv, Skip \/ TaskReturns
  PROVE  /\ \A d \in 1 .. MaxNest : /\ pass'[d].now = pass[d].now
                                    /\ pass'[d].called \in {pass[d].called, NoTask}
         /\ depth' = depth /\ ran' = ran /\ active' = active /\ due' = due /\ clock' = clock
  <1> USE MaxNestAssumption DEF IInv, TypeOK, PassType, memory
  <1>1. depth \in 1 .. MaxNest /\ pass[depth] \in Pass
    BY DEF Skip, Scanning, TaskReturns
  <1>2. PICK p : /\ pass' = [pass EXCEPT ![depth] = p]
                 /\ p.now = pass[depth].now /\ p.called \in {pass[depth].called, NoTask}
    <2>1. CASE Skip
      <3> DEFINE p == [pass[depth] EXCEPT !.i = @ + 1]
      <3>1. p.now = pass[depth].now /\ p.called = pass[depth].called
        BY <1>1 DEF Pass
      <3>2. pass' = [pass EXCEPT ![depth] = p]
        BY <1>1, <2>1 DEF Skip, Pass
      <3> QED  BY <3>1, <3>2
    <2>2. CASE TaskReturns
      <3> DEFINE p == [pass[depth] EXCEPT !.called = NoTask, !.i = @ + 1]
      <3>1. p.now = pass[depth].now /\ p.called = NoTask
        BY <1>1 DEF Pass
      <3>2. pass' = [pass EXCEPT ![depth] = p]
        BY <1>1, <2>2 DEF TaskReturns, Pass
      <3> QED  BY <3>1, <3>2
    <2> QED  BY <2>1, <2>2
  <1>3. depth' = depth /\ ran' = ran /\ active' = active /\ due' = due /\ clock' = clock
    BY DEF Skip, TaskReturns
  <1> QED  BY <1>1, <1>2, <1>3

\* The steps of the last pass.
LEMMA PassKeepsOnce ==
  ASSUME IInv, OnceInv,
         \/ TimerInterrupt \/ Skip \/ TaskReturns \/ PassEnds
         \/ \E hasCode \in BOOLEAN : Fire(hasCode)
  PROVE  OnceInv'
  <1>1. /\ depth \in Nat /\ MaxNest \in Nat /\ depth <= MaxNest
        /\ \A d \in 1 .. depth : d \in 1 .. MaxNest
        /\ clock \in HostTime /\ DOMAIN ran = 1 .. MaxNest /\ DOMAIN pass = 1 .. MaxNest
    BY MaxNestAssumption DEF IInv, TypeOK, TaskType, PassType
  <1>2. CASE TimerInterrupt
    <2>1. /\ depth < MaxNest /\ depth' = depth + 1
          /\ pass'[depth + 1].now = clock
          /\ \A d \in 1 .. depth : pass'[d] = pass[d]
          /\ ran' = ran /\ active' = active /\ due' = due /\ clock' = clock
      BY <1>1, <1>2 DEF TimerInterrupt, memory, IInv, TypeOK, PassType
    <2>2. ~Before(clock, clock)
      BY <1>1, NotBefore
    <2>3. ran[depth + 1] = {}
      BY <1>1, <2>1 DEF OnceInv
    <2>4. \A d \in 1 .. depth + 1 : d \in 1 .. depth \/ d = depth + 1
      BY <1>1
    <2> QED  BY <1>1, <2>1, <2>2, <2>3, <2>4 DEF OnceInv
  <1>3. CASE Skip \/ TaskReturns
    BY <1>1, <1>3, StepEffect DEF OnceInv
  <1>4. CASE \E hasCode \in BOOLEAN : Fire(hasCode)
    <2>0. PICK i \in Slots, u \in Tasks : Fired(i, u)
      BY <1>4, FireEffect
    <2>1. /\ depth \in 1 .. MaxNest /\ depth' = depth /\ clock' = clock
          /\ active' = [active EXCEPT ![u] = FALSE]
          /\ Unscheduled(u)
          /\ \A d \in 1 .. MaxNest : pass'[d].now = pass[d].now
          /\ ran' = ran \/ ran' = [ran EXCEPT ![depth] = ran[depth] \cup {u}]
      BY <2>0, Zenon DEF Fired
    <2>2. \A t \in Tasks : active'[t] => t # u /\ active[t] /\ due'[t] = due[t]
      BY <2>1 DEF Unscheduled, IInv, TypeOK, TaskType
    <2>3. /\ \A d \in 1 .. MaxNest : ran'[d] \subseteq ran[d] \cup {u}
          /\ \A d \in 1 .. MaxNest : d > depth => ran'[d] = ran[d]
      <3>1. CASE ran' = ran
        BY <3>1
      <3>2. CASE ran' = [ran EXCEPT ![depth] = ran[depth] \cup {u}]
        BY <1>1, <2>1, <3>2
      <3> QED  BY <2>1, <3>1, <3>2
    <2>4. \A d \in 1 .. depth : \A t \in ran'[d] \ Extended :
            active'[t] => ~Before(due'[t], pass'[d].now)
      <3> SUFFICES ASSUME NEW d \in 1 .. depth, NEW t \in ran'[d] \ Extended, active'[t]
                   PROVE  ~Before(due'[t], pass'[d].now)
        OBVIOUS
      <3>1. t \in Tasks /\ t # u
        <4>1. t \in Tasks
          BY <1>1, <2>1, <2>3 DEF IInv, TypeOK, PassType
        <4> QED  BY <2>2, <4>1
      <3>2. t \in ran[d] /\ active[t] /\ due'[t] = due[t]
        BY <1>1, <2>2, <2>3, <3>1
      <3> QED  BY <1>1, <2>1, <3>2 DEF OnceInv
    <2> QED  BY <1>1, <2>1, <2>3, <2>4 DEF OnceInv
  <1>5. CASE PassEnds
    <2>1. /\ depth > 0 /\ depth' = depth - 1
          /\ \A d \in 1 .. depth - 1 : pass'[d] = pass[d] /\ ran'[d] = ran[d]
          /\ ran'[depth] = {}
          /\ \A d \in 1 .. MaxNest : d > depth => ran'[d] = ran[d]
          /\ active' = active /\ due' = due /\ clock' = clock
      BY <1>1, <1>5 DEF PassEnds, Scanning, memory, IInv, TypeOK, PassType
    <2> QED  BY <1>1, <2>1 DEF OnceInv
  <1> QED  BY <1>2, <1>3, <1>4, <1>5

\* Every step keeps what a pass knows of the tasks it has called.
THEOREM OnceInvariant == Spec => []OnceInv
  <1>1. Init => OnceInv
    BY MaxNestAssumption DEF Init, OnceInv
  <1>2. IInv /\ OnceInv /\ [Next]_vars => OnceInv'
    <2> SUFFICES ASSUME IInv, OnceInv, [Next]_vars
                 PROVE  OnceInv'
      OBVIOUS
    <2>1. CASE UNCHANGED vars
      BY <2>1 DEF vars, memory, passes, OnceInv
    <2> QED  BY <2>1, MacKeepsOnce, PassKeepsOnce DEF Next
  <1> QED  BY Invariance, <1>1, <1>2, PTL DEF Spec

\* A pass calls a task once, however often the task, or another one, primes it
\* while the pass is under way (TimerInterrupt(), "now" is read before the loop).
THEOREM CalledOnce == Spec => OncePerPass
  <1>1. ASSUME IInv, OnceInv, [Next]_vars, NEW d \in 1 .. MaxNest, NEW t \in Tasks \ Extended,
               pass[d].called = NoTask, pass'[d].called = t
        PROVE  t \notin ran[d]
    <2>1. t # NoTask
      BY NoTaskAssumption
    <2>2. \E hasCode \in BOOLEAN : Fire(hasCode)
      <3> SUFFICES ASSUME ~\E hasCode \in BOOLEAN : Fire(hasCode)
                   PROVE  pass'[d].called = pass[d].called \/ pass'[d].called = NoTask
        BY <1>1, <2>1
      <3>1. CASE UNCHANGED pass
        BY <3>1
      <3>2. CASE TimerInterrupt
        BY <3>2 DEF TimerInterrupt, IInv, TypeOK, PassType
      <3>3. CASE Skip \/ TaskReturns
        BY <1>1, <3>3, StepEffect
      <3>4. CASE PassEnds
        BY <3>4 DEF PassEnds, NoPass, IInv, TypeOK, PassType
      <3> QED  BY <1>1, <3>1, <3>2, <3>3, <3>4
               DEF Next, vars, passes, InsTime, RmvTime, PrimeTime, TimerReset, Tick
    <2>3. PICK i \in Slots, u \in Tasks : Fired(i, u)
      BY <1>1, <2>2, FireEffect
    <2>4. d = depth /\ desc[i].task = t
      <3>1. /\ u = desc[i].task /\ pass'[depth].called \in {u, NoTask}
            /\ d # depth => pass'[d] = pass[d]
        BY <2>3, Zenon DEF Fired
      <3> QED  BY <1>1, <2>1, <3>1
    <2>5. desc[i].wakeup = due[t]
      BY <1>1, <2>3, <2>4 DEF Fired, IInv, Scheduled, OnSchedule, Holds
    <2>6. /\ active[t] /\ Before(due[t], pass[depth].now)
          /\ depth \in 1 .. depth
      BY <2>3, <2>4, <2>5, MaxNestAssumption DEF Fired
    <2> QED  BY <1>1, <2>4, <2>6 DEF OnceInv
  <1>2. IInv /\ OnceInv /\ [Next]_vars
          => [\A d \in 1 .. MaxNest, t \in Tasks \ Extended :
                pass[d].called = NoTask /\ pass'[d].called = t => t \notin ran[d]]_vars
    BY <1>1
  <1> QED  BY Invariance, OnceInvariant, <1>2, PTL DEF Spec, OncePerPass

-----------------------------------------------------------------------------
(* Times as numbers of nanoseconds.                                        *)

LEMMA NanosOf ==
  ASSUME NEW a \in HostTime, NEW b \in HostTime
  PROVE  /\ Nanos(a) \in Int
         /\ Before(a, b) <=> Nanos(a) < Nanos(b)
         /\ Nanos(timer_add_time(a, b)) = Nanos(a) + Nanos(b)
  <1>1. /\ a.sec \in Int /\ a.nsec \in Int /\ b.sec \in Int /\ b.nsec \in Int
        /\ 0 <= a.nsec /\ a.nsec < NanoPerSec /\ 0 <= b.nsec /\ b.nsec < NanoPerSec
    BY HostTimeFields, SMT
  <1>2. Nanos(a) \in Int
    BY <1>1, SMT DEF Nanos, NanoPerSec
  <1>3. Before(a, b) <=> Nanos(a) < Nanos(b)
    BY <1>1, SMT DEF Before, timer_cmp_time, Nanos, NanoPerSec
  <1>4. Nanos(timer_add_time(a, b)) = Nanos(a) + Nanos(b)
    BY <1>1, SMT DEF timer_add_time, Nanos, NanoPerSec
  <1> QED  BY <1>2, <1>3, <1>4

\* timer_mac2host_time() keeps the duration.
LEMMA NanosOfDelay ==
  ASSUME NEW m \in MacDelay
  PROVE  Nanos(timer_mac2host_time(m)) = Alarms!Duration(m)
  <1>1. m \in Int
    BY SMT DEF MacDelay
  <1> QED  BY <1>1, SMT DEF timer_mac2host_time, Nanos, NanoPerSec, Alarms!Duration

\* timer_sub_time() and timer_host2mac_time() borrow and round as the abstract
\* specification does, which knows nothing of either.
LEMMA NanosLeft ==
  ASSUME NEW a \in HostTime, NEW b \in HostTime
  PROVE  timer_host2mac_time(timer_sub_time(b, a)) = Alarms!Left(Nanos(b) - Nanos(a))
  <1> DEFINE h == timer_sub_time(b, a)
             m == h.sec * 1000000 + h.nsec \div 1000
             n == Nanos(b) - Nanos(a)
  <1>1. /\ a.sec \in Int /\ a.nsec \in Int /\ b.sec \in Int /\ b.nsec \in Int
        /\ 0 <= a.nsec /\ a.nsec < NanoPerSec /\ 0 <= b.nsec /\ b.nsec < NanoPerSec
    BY HostTimeFields, SMT
  <1>2. /\ h.sec \in Int /\ h.nsec \in Int /\ 0 <= h.nsec /\ h.nsec < NanoPerSec
        /\ n = h.sec * NanoPerSec + h.nsec
    BY <1>1, SMT DEF timer_sub_time, Nanos, NanoPerSec
  <1>3. timer_host2mac_time(h) =
          IF h.sec < 0 THEN 0 ELSE IF m > MaxDelay THEN m \div 1000 ELSE -m
    BY SMT DEF timer_host2mac_time
  <1>4. Alarms!Left(n) =
          LET micro == IF n < 0 THEN 0 ELSE n \div 1000
          IN  IF micro > MaxDelay THEN micro \div 1000 ELSE -micro
    BY SMT DEF Alarms!Left, MaxDelay
  <1> HIDE DEF h, n
  <1>5. n \in Int /\ m \in Int /\ (n < 0 <=> h.sec < 0) /\ n \div 1000 = m
    BY <1>2, SMT DEF NanoPerSec
  <1> HIDE DEF m
  <1>6. timer_host2mac_time(h) = Alarms!Left(n)
    BY <1>2, <1>3, <1>4, <1>5, SMT DEF MaxDelay
  <1> QED  BY <1>6, SMT DEF h, n

-----------------------------------------------------------------------------
(* The Time Manager implements Alarms.                                     *)

AlarmIs(t) == IF Waits(t) THEN "waiting" ELSE IF Installed(t) THEN "idle" ELSE "removed"

\* What the program sees of a task is in its record and its only descriptor.
LEMMA AlarmOf ==
  ASSUME UniqueDesc, NEW t \in Tasks
  PROVE  /\ alarm[t] = AlarmIs(t)
         /\ ~Waits(t) => alarmTime[t] = 0
         /\ \A i \in Slots : Holds(i, t) =>
               /\ Installed(t)
               /\ active[t] => alarmTime[t] = Nanos(desc[i].wakeup)
  <1>1. alarm[t] = AlarmIs(t) /\ (~Waits(t) => alarmTime[t] = 0)
    BY DEF alarm, alarmTime, AlarmIs
  <1>2. ASSUME NEW i \in Slots, Holds(i, t)
        PROVE  Installed(t) /\ (active[t] => alarmTime[t] = Nanos(desc[i].wakeup))
    <2>1. SlotOf(t) \in Slots /\ Holds(SlotOf(t), t) /\ Installed(t)
      BY <1>2 DEF SlotOf, Installed
    <2>2. SlotOf(t) = i
      BY <1>2, <2>1 DEF UniqueDesc, Holds
    <2> QED  BY <2>1, <2>2 DEF alarmTime, Waits
  <1> QED  BY <1>1, <1>2

LEMMA AlarmOfNext ==
  ASSUME UniqueDesc', NEW t \in Tasks
  PROVE  /\ alarm'[t] = AlarmIs(t)'
         /\ ~Waits(t)' => alarmTime'[t] = 0
         /\ \A i \in Slots : Holds(i, t)' =>
               /\ Installed(t)'
               /\ active'[t] => alarmTime'[t] = Nanos(desc'[i].wakeup)
  <1>1. alarm'[t] = AlarmIs(t)' /\ (~Waits(t)' => alarmTime'[t] = 0)
    BY DEF alarm, alarmTime, AlarmIs
  <1>2. ASSUME NEW i \in Slots, Holds(i, t)'
        PROVE  Installed(t)' /\ (active'[t] => alarmTime'[t] = Nanos(desc'[i].wakeup))
    <2>1. SlotOf(t)' \in Slots /\ Holds(SlotOf(t), t)' /\ Installed(t)'
      BY <1>2 DEF SlotOf, Installed, Slots
    <2>2. SlotOf(t)' = i
      BY <1>2, <2>1 DEF UniqueDesc, Holds, Slots
    <2> QED  BY <2>1, <2>2 DEF alarmTime, Waits
  <1> QED  BY <1>1, <1>2

\* A task keeps its alarm while its record and its descriptor do not change.
SameDesc(t) ==
    \A i \in Slots :
        /\ Holds(i, t)' <=> Holds(i, t)
        /\ Holds(i, t) => desc'[i].wakeup = desc[i].wakeup

LEMMA AlarmSame ==
  ASSUME UniqueDesc, UniqueDesc', NEW t \in Tasks, SameDesc(t), active'[t] = active[t]
  PROVE  alarm'[t] = alarm[t] /\ alarmTime'[t] = alarmTime[t]
  <1>1. Installed(t)' <=> Installed(t)
    BY DEF SameDesc, Installed, Slots
  <1>2. alarm'[t] = alarm[t]
    BY <1>1, AlarmOf, AlarmOfNext DEF AlarmIs, Waits
  <1>3. CASE Waits(t)
    <2>1. PICK i \in Slots : Holds(i, t)
      BY <1>3 DEF Waits, Installed
    <2>2. Holds(i, t)' /\ desc'[i].wakeup = desc[i].wakeup /\ active[t] /\ active'[t]
      BY <1>3, <2>1 DEF SameDesc, Waits
    <2> QED  BY <1>2, <2>1, <2>2, AlarmOf, AlarmOfNext
  <1>4. CASE ~Waits(t)
    BY <1>1, <1>2, <1>4, AlarmOf, AlarmOfNext DEF Waits
  <1> QED  BY <1>3, <1>4

\* The alarm of one task changes.
Becomes(t, s, n) ==
    /\ alarm' = [alarm EXCEPT ![t] = s]
    /\ alarmTime' = [alarmTime EXCEPT ![t] = n]

LEMMA AlarmBecomes ==
  ASSUME UniqueDesc, UniqueDesc', NEW t \in Tasks, NEW s, NEW n,
         alarm'[t] = s, alarmTime'[t] = n,
         \A u \in Tasks : u # t => SameDesc(u) /\ active'[u] = active[u]
  PROVE  Becomes(t, s, n)
  <1>1. \A u \in Tasks : u # t => alarm'[u] = alarm[u] /\ alarmTime'[u] = alarmTime[u]
    BY AlarmSame
  <1>2. alarm' = [u \in Tasks |-> alarm'[u]] /\ alarmTime' = [u \in Tasks |-> alarmTime'[u]]
    BY DEF alarm, alarmTime
  <1>3. DOMAIN alarm = Tasks /\ DOMAIN alarmTime = Tasks
    BY DEF alarm, alarmTime
  <1>4. [alarm EXCEPT ![t] = s] = [u \in Tasks |-> IF u = t THEN s ELSE alarm[u]]
    BY <1>3
  <1>5. [alarmTime EXCEPT ![t] = n] = [u \in Tasks |-> IF u = t THEN n ELSE alarmTime[u]]
    BY <1>3
  <1> HIDE DEF Becomes
  <1>6. alarm' = [u \in Tasks |-> IF u = t THEN s ELSE alarm[u]]
    BY <1>1, <1>2, Zenon
  <1>7. alarmTime' = [u \in Tasks |-> IF u = t THEN n ELSE alarmTime[u]]
    BY <1>1, <1>2, Zenon
  <1> QED  BY <1>4, <1>5, <1>6, <1>7 DEF Becomes

\* A step that leaves the table and the records alone.
LEMMA AlarmsSame ==
  ASSUME UniqueDesc, UniqueDesc', UNCHANGED << desc, active >>
  PROVE  UNCHANGED << alarm, alarmTime >>
  <1>1. \A t \in Tasks : SameDesc(t)
    BY DEF SameDesc, Holds
  <1>2. \A t \in Tasks : alarm'[t] = alarm[t] /\ alarmTime'[t] = alarmTime[t]
    BY <1>1, AlarmSame
  <1>3. alarm' = [u \in Tasks |-> alarm'[u]] /\ alarmTime' = [u \in Tasks |-> alarmTime'[u]]
    BY DEF alarm, alarmTime
  <1>4. alarm = [u \in Tasks |-> alarm[u]] /\ alarmTime = [u \in Tasks |-> alarmTime[u]]
    BY DEF alarm, alarmTime
  <1>5. [u \in Tasks |-> alarm'[u]] = [u \in Tasks |-> alarm[u]]
    BY <1>2
  <1>6. [u \in Tasks |-> alarmTime'[u]] = [u \in Tasks |-> alarmTime[u]]
    BY <1>2
  <1> QED  BY <1>3, <1>4, <1>5, <1>6, Zenon

\* One descriptor of the task changes, or gets it: the others keep theirs.
LEMMA OthersKeep ==
  ASSUME NEW t \in Tasks, NEW i \in Slots, NEW d \in Desc, Changed(i, d),
         d.in_use => d.task = t,
         desc[i].in_use => desc[i].task = t
  PROVE  \A u \in Tasks : u # t => SameDesc(u)
  <1> SUFFICES ASSUME NEW u \in Tasks, u # t, NEW k \in Slots
               PROVE  /\ Holds(k, u)' <=> Holds(k, u)
                      /\ Holds(k, u) => desc'[k].wakeup = desc[k].wakeup
    BY DEF SameDesc
  <1>1. CASE k = i
    BY <1>1 DEF Changed, Holds
  <1>2. CASE k # i
    BY <1>2 DEF Changed, Holds
  <1> QED  BY <1>1, <1>2

\* InsTime() installs, or stops a task that has a descriptor, or has no room.
LEMMA InsTimeIsInstall ==
  ASSUME IInv, IInv', NEW t \in Tasks, InsTime(t)
  PROVE  Alarms!Install(t) \/ UNCHANGED Alarms!vars
  <1> USE DEF IInv, TypeOK
  <1>1. /\ active' = [active EXCEPT ![t] = FALSE] /\ active \in [Tasks -> BOOLEAN]
        /\ UNCHANGED << clock, tmCount >>
    BY DEF InsTime, TaskType
  <1>2. active'[t] = FALSE /\ \A u \in Tasks : u # t => active'[u] = active[u]
    BY <1>1
  <1>3. UNCHANGED Nanos(clock)
    BY <1>1
  <1>4. CASE desc' = desc /\ Installed(t)
    <2>1. \A u \in Tasks : SameDesc(u)
      BY <1>4 DEF SameDesc, Holds
    <2>2. Installed(t)' /\ ~Waits(t)'
      BY <1>2, <1>4 DEF Installed, Holds, Waits
    <2>3. alarm'[t] = "idle" /\ alarmTime'[t] = 0
      BY <2>2, AlarmOfNext DEF AlarmIs
    <2>4. Becomes(t, "idle", 0)
      BY <1>2, <2>1, <2>3, AlarmBecomes
    <2> QED  BY <1>1, <1>3, <2>4 DEF Alarms!Install, Alarms!Rest, Becomes
  <1>5. CASE desc' = desc /\ ~Installed(t)
    <2>1. \A u \in Tasks : SameDesc(u)
      BY <1>5 DEF SameDesc, Holds
    <2>2. ~Installed(t)' /\ ~Waits(t)' /\ ~Waits(t)
      BY <1>5 DEF Installed, Holds, Waits
    <2>3. alarm'[t] = "removed" /\ alarmTime'[t] = 0 /\ alarm[t] = "removed" /\ alarmTime[t] = 0
      BY <1>5, <2>2, AlarmOf, AlarmOfNext DEF AlarmIs
    <2>4. Becomes(t, alarm[t], alarmTime[t])
      BY <1>2, <2>1, <2>3, AlarmBecomes
    <2>5. UNCHANGED << alarm, alarmTime >>
      BY <2>4 DEF Becomes, alarm, alarmTime
    <2> QED  BY <1>1, <1>3, <2>5 DEF Alarms!vars
  <1>6. CASE desc' # desc
    <2>1. PICK i \in Slots :
             /\ ~Installed(t) /\ ~desc[i].in_use
             /\ Changed(i, [task |-> t, wakeup |-> desc[i].wakeup, in_use |-> TRUE])
      BY <1>6, InsTimeTable
    <2> DEFINE d == [task |-> t, wakeup |-> desc[i].wakeup, in_use |-> TRUE]
    <2>2. d \in Desc /\ Changed(i, d) /\ d.task = t
      BY <2>1 DEF Desc, TableType
    <2>3. \A u \in Tasks : u # t => SameDesc(u)
      BY <2>1, <2>2, OthersKeep
    <2>4. Installed(t)' /\ ~Waits(t)'
      BY <1>2, <2>1 DEF Changed, Installed, Holds, Waits, Slots
    <2>5. alarm'[t] = "idle" /\ alarmTime'[t] = 0
      BY <2>4, AlarmOfNext DEF AlarmIs
    <2>6. Becomes(t, "idle", 0)
      BY <1>2, <2>3, <2>5, AlarmBecomes
    <2> QED  BY <1>1, <1>3, <2>6 DEF Alarms!Install, Alarms!Rest, Becomes
  <1> QED  BY <1>4, <1>5, <1>6

LEMMA RmvTimeIsRemove ==
  ASSUME IInv, IInv', NEW t \in Tasks, RmvTime(t)
  PROVE  Alarms!Remove(t)
  <1> USE DEF IInv, TypeOK
  <1>1. /\ active' = [active EXCEPT ![t] = FALSE] /\ active \in [Tasks -> BOOLEAN]
        /\ clock' = clock /\ clock \in HostTime
    BY DEF RmvTime, TaskType
  <1>2. active'[t] = FALSE /\ \A u \in Tasks : u # t => active'[u] = active[u]
    BY <1>1
  <1>3. PICK i \in Slots :
           /\ Holds(i, t)
           /\ Changed(i, [desc[i] EXCEPT !.in_use = FALSE])
           /\ tmCount' = IF active[t] THEN TimeLeft(i) ELSE 0
    BY RmvTimeTable
  <1>4. desc[i] \in Desc /\ desc[i].in_use /\ desc[i].task = t
    BY <1>3 DEF TableType, Holds
  <1> DEFINE d == [desc[i] EXCEPT !.in_use = FALSE]
  <1>5. d \in Desc /\ Changed(i, d) /\ ~d.in_use
    BY <1>3, <1>4 DEF Desc
  <1>6. \A u \in Tasks : u # t => SameDesc(u)
    BY <1>4, <1>5, OthersKeep
  <1>7. ~Holds(i, t)' /\ \A k \in Slots : k # i => ~Holds(k, t)'
    BY <1>4, <1>5 DEF Changed, Holds, UniqueDesc
  <1>8. ~Installed(t)' /\ ~Waits(t)'
    BY <1>7 DEF Installed, Slots, Waits
  <1>9. Becomes(t, "removed", 0)
    <2>1. alarm'[t] = "removed" /\ alarmTime'[t] = 0
      BY <1>8, AlarmOfNext DEF AlarmIs
    <2> QED  BY <1>2, <1>6, <2>1, AlarmBecomes
  <1>10. alarm[t] = IF active[t] THEN "waiting" ELSE "idle"
    BY <1>3, AlarmOf DEF AlarmIs, Waits
  <1>11. ASSUME active[t]
         PROVE  tmCount' = Alarms!Left(alarmTime[t] - Nanos(clock))
    <2>1. alarmTime[t] = Nanos(desc[i].wakeup) /\ desc[i].wakeup \in HostTime
      BY <1>3, <1>4, <1>11, AlarmOf DEF Desc
    <2>2. tmCount' = timer_host2mac_time(timer_sub_time(desc[i].wakeup, clock))
      BY <1>3, <1>11 DEF TimeLeft
    <2> QED  BY <1>1, <2>1, <2>2, NanosLeft
  <1>12. alarm[t] # "removed"
    BY <1>10
  <1>13. tmCount' = IF alarm[t] = "waiting" THEN Alarms!Left(alarmTime[t] - Nanos(clock)) ELSE 0
    <2>1. CASE active[t]
      BY <1>10, <1>11, <2>1
    <2>2. CASE ~active[t]
      BY <1>3, <1>10, <2>2
    <2> QED  BY <2>1, <2>2
  <1>14. UNCHANGED Nanos(clock)
    BY <1>1
  <1> QED  BY <1>9, <1>12, <1>13, <1>14 DEF Alarms!Remove, Alarms!Rest, Becomes

LEMMA PrimeTimeIsPrime ==
  ASSUME IInv, IInv', NEW t \in Tasks, NEW delay \in Delays, PrimeTime(t, delay)
  PROVE  Alarms!Prime(t, delay)
  <1> USE DEF IInv, TypeOK
  <1>1. /\ active' = [active EXCEPT ![t] = TRUE] /\ active \in [Tasks -> BOOLEAN]
        /\ clock' = clock /\ clock \in HostTime /\ tmCount' = tmCount
    BY DEF PrimeTime, TaskType
  <1>2. active'[t] = TRUE /\ \A u \in Tasks : u # t => active'[u] = active[u]
    BY <1>1
  <1> DEFINE h == timer_mac2host_time(delay)
  <1>3. PICK i \in Slots :
           /\ Holds(i, t)
           /\ Changed(i, [desc[i] EXCEPT !.wakeup = timer_add_time(PrimeBase(i, t), h)])
    BY PrimeTimeTable
  <1>4. desc[i] \in Desc /\ desc[i].in_use /\ desc[i].task = t
    BY <1>3 DEF TableType, Holds
  <1>5. h \in HostTime /\ Nanos(h) = Alarms!Duration(delay)
    BY DelayType, DelaysAssumption, NanosOfDelay
  <1> DEFINE w == timer_add_time(PrimeBase(i, t), h)
             d == [desc[i] EXCEPT !.wakeup = w]
  <1> HIDE DEF h
  <1>6. PrimeBase(i, t) \in HostTime /\ w \in HostTime
    BY <1>1, <1>4, <1>5, AddType DEF PrimeBase, Desc
  <1> HIDE DEF w
  <1>7. d \in Desc /\ Changed(i, d) /\ d.task = t /\ d.in_use /\ d.wakeup = w
    BY <1>3, <1>4, <1>6 DEF Desc, w
  <1> HIDE DEF d
  <1>8. \A u \in Tasks : u # t => SameDesc(u)
    BY <1>4, <1>7, OthersKeep
  <1>9. Holds(i, t)' /\ desc'[i].wakeup = w
    BY <1>7 DEF Changed, Holds
  <1>10. Installed(t)' /\ Waits(t)' /\ alarm'[t] = "waiting" /\ alarmTime'[t] = Nanos(w)
    BY <1>2, <1>9, AlarmOfNext DEF AlarmIs, Waits
  <1>11. Becomes(t, "waiting", alarmTime'[t])
    BY <1>2, <1>8, <1>10, AlarmBecomes
  <1>12. alarm[t] # "removed"
    BY <1>3, AlarmOf DEF AlarmIs, Waits
  <1>13. ASSUME t \notin Extended
         PROVE  alarmTime'[t] = Nanos(clock) + Alarms!Duration(delay)
    <2>1. w = timer_add_time(clock, h)
      BY <1>13 DEF w, PrimeBase
    <2> QED  BY <1>1, <1>5, <1>10, <2>1, NanosOf
  <1>14. UNCHANGED Nanos(clock)
    BY <1>1
  <1> QED  BY <1>1, <1>11, <1>12, <1>13, <1>14 DEF Alarms!Prime, Becomes

\* A pass calls a task only after its time: the time the pass has read is past.
LEMMA FireIsRing ==
  ASSUME IInv, IInv', OnceInv, NEW hasCode \in BOOLEAN, Fire(hasCode)
  PROVE  \E t \in Tasks : Alarms!Ring(t)
  <1> USE DEF IInv, TypeOK
  <1>1. PICK i \in Slots, t \in Tasks : Fired(i, t)
    BY FireEffect
  <1>2. /\ desc' = desc /\ tmCount' = tmCount /\ clock' = clock
        /\ active' = [active EXCEPT ![t] = FALSE] /\ active \in [Tasks -> BOOLEAN]
    BY <1>1 DEF Fire, Fired, TaskType
  <1>3. active'[t] = FALSE /\ \A u \in Tasks : u # t => active'[u] = active[u]
    BY <1>2
  <1>4. \A u \in Tasks : SameDesc(u)
    BY <1>2 DEF SameDesc, Holds
  <1>5. Holds(i, t) /\ active[t]
    BY <1>1 DEF Fired, Holds
  <1>6. Installed(t) /\ alarm[t] = "waiting" /\ alarmTime[t] = Nanos(desc[i].wakeup)
    BY <1>5, AlarmOf DEF AlarmIs, Waits
  <1>7. Installed(t)' /\ ~Waits(t)'
    BY <1>3, <1>4, <1>6 DEF SameDesc, Installed, Waits, Slots
  <1>8. Becomes(t, "idle", 0)
    <2>1. alarm'[t] = "idle" /\ alarmTime'[t] = 0
      BY <1>7, AlarmOfNext DEF AlarmIs
    <2> QED  BY <1>3, <1>4, <2>1, AlarmBecomes
  <1>9. alarmTime[t] < Nanos(clock)
    <2> DEFINE now == pass[depth].now  w == desc[i].wakeup
    <2>1. now \in HostTime /\ w \in HostTime /\ clock \in HostTime
      BY <1>1 DEF Fired, PassType, Pass, TableType, Desc, TaskType
    <2>2. Before(w, now) /\ ~Before(clock, now)
      BY <1>1, MaxNestAssumption DEF Fired, OnceInv
    <2> HIDE DEF now, w
    <2>3. Nanos(w) < Nanos(now) /\ ~(Nanos(clock) < Nanos(now))
      BY <2>1, <2>2, NanosOf
    <2>4. Nanos(w) \in Int /\ Nanos(now) \in Int /\ Nanos(clock) \in Int
      BY <2>1, NanosOf
    <2>5. Nanos(w) < Nanos(clock)
      BY <2>3, <2>4
    <2> QED  BY <1>6, <2>5 DEF w
  <1>10. UNCHANGED Nanos(clock)
    BY <1>2
  <1> QED  BY <1>2, <1>6, <1>8, <1>9, <1>10 DEF Alarms!Ring, Alarms!Rest, Becomes

LEMMA TimerResetIsRestart ==
  ASSUME IInv, IInv', TimerReset
  PROVE  Alarms!Restart
  <1> USE DEF IInv, TypeOK
  <1>1. \A t \in Tasks : ~Installed(t)' /\ ~Waits(t)'
    BY TimerResetTable DEF Installed, Holds, Waits, Slots
  <1>2. \A t \in Tasks : alarm'[t] = "removed" /\ alarmTime'[t] = 0
    BY <1>1, AlarmOfNext DEF AlarmIs
  <1>3. alarm' = [t \in Tasks |-> alarm'[t]] /\ alarmTime' = [t \in Tasks |-> alarmTime'[t]]
    BY DEF alarm, alarmTime
  <1>4. alarm' = [t \in Tasks |-> "removed"] /\ alarmTime' = [t \in Tasks |-> 0]
    BY <1>2, <1>3, Zenon
  <1>5. UNCHANGED << Nanos(clock), tmCount >>
    BY DEF TimerReset, memory
  <1> QED  BY <1>4, <1>5 DEF Alarms!Restart

LEMMA TickIsAdvance ==
  ASSUME IInv, IInv', Tick
  PROVE  Alarms!Advance
  <1> USE DEF IInv, TypeOK
  <1>1. /\ clock \in HostTime /\ ClockStep \in HostTime /\ ClockStep.sec >= 0
        /\ clock' = timer_add_time(clock, ClockStep)
    BY ClockAssumption DEF Tick, TaskType
  <1>2. /\ Nanos(clock) \in Int /\ Nanos(ClockStep) \in Int
        /\ Nanos(clock)' = Nanos(clock) + Nanos(ClockStep)
    BY <1>1, NanosOf
  <1>3. Nanos(ClockStep) >= 0
    <2>1. ClockStep.sec \in Int /\ ClockStep.nsec \in Int /\ 0 <= ClockStep.nsec
      BY <1>1, HostTimeFields
    <2> QED  BY <1>1, <2>1, SMT DEF Nanos, NanoPerSec
  <1>4. UNCHANGED << alarm, alarmTime, tmCount >>
    BY AlarmsSame DEF Tick, memory
  <1>5. Nanos(clock)' \in Int /\ Nanos(clock)' >= Nanos(clock)
    BY <1>2, <1>3
  <1> QED  BY <1>4, <1>5 DEF Alarms!Advance

LEMMA AlarmsInit == Init => Alarms!Init
  <1> SUFFICES ASSUME Init
               PROVE  Alarms!Init
    OBVIOUS
  <1>1. \A t \in Tasks : ~Installed(t) /\ ~Waits(t)
    BY DEF Init, Installed, Holds, Waits
  <1>2. alarm = [t \in Tasks |-> "removed"] /\ alarmTime = [t \in Tasks |-> 0]
    BY <1>1 DEF alarm, alarmTime
  <1>3. Nanos(clock) = 0
    BY SMT DEF Init, Time0, Nanos, NanoPerSec
  <1> QED  BY <1>2, <1>3 DEF Init, Alarms!Init

LEMMA AlarmsStep ==
  ASSUME IInv, IInv', OnceInv, [Next]_vars
  PROVE  [Alarms!Next]_(Alarms!vars)
  <1>1. ASSUME NEW t \in Tasks, InsTime(t)
        PROVE  Alarms!Next \/ UNCHANGED Alarms!vars
    BY <1>1, InsTimeIsInstall DEF Alarms!Next
  <1>2. ASSUME NEW t \in Tasks, RmvTime(t)
        PROVE  Alarms!Next
    BY <1>2, RmvTimeIsRemove DEF Alarms!Next
  <1>3. ASSUME NEW t \in Tasks, NEW delay \in Delays, PrimeTime(t, delay)
        PROVE  Alarms!Next
    BY <1>3, PrimeTimeIsPrime DEF Alarms!Next
  <1>4. CASE TimerReset
    BY <1>4, TimerResetIsRestart DEF Alarms!Next
  <1>5. ASSUME NEW hasCode \in BOOLEAN, Fire(hasCode)
        PROVE  Alarms!Next
    BY <1>5, FireIsRing DEF Alarms!Next
  <1>6. CASE Tick
    BY <1>6, TickIsAdvance DEF Alarms!Next
  <1>7. CASE TimerInterrupt \/ Skip \/ TaskReturns \/ PassEnds \/ UNCHANGED vars
    <2>1. UNCHANGED << desc, active, clock, tmCount >>
      BY <1>7 DEF TimerInterrupt, Skip, TaskReturns, PassEnds, vars, memory
    <2>2. UNCHANGED << alarm, alarmTime >>
      BY <2>1, AlarmsSame DEF IInv
    <2>3. UNCHANGED Nanos(clock)
      BY <2>1
    <2> QED  BY <2>1, <2>2, <2>3 DEF Alarms!vars
  <1> QED  BY <1>1, <1>2, <1>3, <1>4, <1>5, <1>6, <1>7 DEF Next

\* The table and its passes are an alarm clock: a task rings after its delay, and
\* only if it still waits, whatever tasks do to the table under a pass, and its
\* rest is exact (InsTime(), RmvTime(), PrimeTime(), TimerInterrupt()).
THEOREM ImplementsAlarms == Spec => AlarmClock
  <1>1. IInv /\ IInv' /\ OnceInv /\ [Next]_vars => [Alarms!Next]_(Alarms!vars)
    BY AlarmsStep
  <1> QED  BY Invariance, OnceInvariant, AlarmsInit, <1>1, PTL DEF Spec, AlarmClock, Alarms!Spec
=============================================================================
