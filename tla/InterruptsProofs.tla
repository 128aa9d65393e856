-------------------------- MODULE InterruptsProofs --------------------------
(***************************************************************************)
(* Proofs about Interrupts: the invariants of every build, and, for builds *)
(* whose special flags are updated atomically, that no trigger is lost.    *)
(*                                                                         *)
(* IInv is the inductive invariant.  Each of its parts has a lemma which   *)
(* shows that a step keeps it, with one case per action.                   *)
(***************************************************************************)
EXTENDS Interrupts, TLAPS

\* An update of the special flags keeps them and the emulator thread well typed.
LEMMA UpdateType ==
    ASSUME TypeOK, NEW value \in SUBSET Spcflag, NEW next \in CpuPC, Update(value, next)
    PROVE  /\ spcflags' \subseteq Spcflag
           /\ cstore' \in Store
           /\ pc' \in CpuPC \cup {"store"}
BY DEF TypeOK, Update, Store

\* Going on without touching them does, too.
LEMMA StayType ==
    ASSUME TypeOK, NEW next, Stay(next)
    PROVE  spcflags' \subseteq Spcflag /\ cstore' \in Store /\ pc' = next
BY DEF TypeOK, Stay

\* Every step keeps the types; the stack never becomes negative.
LEMMA TypeStep ==
    ASSUME TypeOK, ControlOK, StackOK, [Next]_vars
    PROVE  TypeOK'
<1>. USE DEF TypeOK, thread, cpu, world, context
<1>1. CASE \E t \in Threads : Post(t)
  <2>1. PICK t \in Threads : Post(t)
    BY <1>1
  <2>2. PICK f \in Raises[t] : /\ tflag' = [tflag EXCEPT ![t] = f]
                               /\ event' = [event EXCEPT ![f] = TRUE]
    BY <2>1 DEF Post
  <2>3. f \in Flags
    BY <2>2, RaisesAssumption
  <2>4. tflag' \in [Threads -> Flags] /\ event' \in [Flags -> BOOLEAN]
    BY <2>2, <2>3
  <2>5. QED
    BY <2>1, <2>4 DEF Post
<1>2. CASE \E t \in Threads : SetInterruptFlag(t)
  BY <1>2 DEF SetInterruptFlag
<1>3. CASE \E t \in Threads : IdleResume(t)
  BY <1>3 DEF IdleResume, EmuPC, HostPC
<1>4. CASE \E t \in Threads : TriggerInterrupt(t)
  <2>1. PICK t \in Threads : TriggerInterrupt(t)
    BY <1>4
  <2>2. spcflags \cup {"INT"} \in SUBSET Spcflag
    BY DEF Spcflag
  <2>3. CASE Exclusive
    BY <2>1, <2>2, <2>3 DEF TriggerInterrupt
  <2>4. CASE ~Exclusive
    BY <2>1, <2>2, <2>4 DEF TriggerInterrupt
  <2>5. QED
    BY <2>3, <2>4
<1>5. CASE \E t \in Threads : TriggerStore(t)
  BY <1>5 DEF TriggerStore
<1>6. CASE CpuStore
  BY <1>6 DEF CpuStore, EmuPC, Store, NoStore, CpuPC
<1>7. CASE TestSpcflags
  BY <1>7, UpdateType, StayType DEF TestSpcflags, Interrupt, NoInterrupt, EmuPC, CpuPC, Spcflag, Isr
<1>8. CASE StopLoop
  BY <1>8, UpdateType, StayType DEF StopLoop, Interrupt, NoInterrupt, EmuPC, CpuPC, Spcflag, Isr
<1>9. CASE StopLevel
  BY <1>9, UpdateType, StayType DEF StopLevel, Interrupt, NoInterrupt, EmuPC, CpuPC, Spcflag, Isr
<1>10. CASE StopClear
  BY <1>10, UpdateType, StayType DEF StopClear, Interrupt, NoInterrupt, EmuPC, CpuPC, Spcflag, Isr
<1>11. CASE Doint
  BY <1>11, UpdateType, StayType DEF Doint, Interrupt, NoInterrupt, EmuPC, CpuPC, Spcflag, Isr
<1>12. CASE DointLevel
  BY <1>12, UpdateType, StayType DEF DointLevel, Interrupt, NoInterrupt, EmuPC, CpuPC, Spcflag, Isr
<1>13. CASE Int
  BY <1>13, UpdateType, StayType DEF Int, Interrupt, NoInterrupt, EmuPC, CpuPC, Spcflag, Isr
<1>14. CASE Int2
  BY <1>14, UpdateType, StayType DEF Int2, Interrupt, NoInterrupt, EmuPC, CpuPC, Spcflag, Isr
<1>15. CASE Brk
  BY <1>15, UpdateType, StayType DEF Brk, Interrupt, NoInterrupt, EmuPC, CpuPC, Spcflag, Isr
<1>16. CASE Loop
  <2>1. spcflags' \subseteq Spcflag /\ cstore' \in Store /\ pc' \in {"op", "exec"}
    BY <1>16, StayType DEF Loop
  <2>2. quit_program => sp > 0
    <3>1. SUFFICES ASSUME quit_program PROVE sp > 0
      OBVIOUS
    <3>2. depth > 0 /\ pc \notin HostPC
      BY <1>16, <3>1 DEF ControlOK, Loop
    <3>3. op[depth].sp \in Nat
      BY <3>2 DEF OpRecord
    <3>4. sp >= op[depth].sp + 1 + Frames(isr)
      BY <3>2 DEF StackOK, Base
    <3>5. QED
      BY <3>3, <3>4 DEF Frames
  <2>3. sp' \in Nat
    BY <1>16, <2>2 DEF Loop
  <2>4. QED
    BY <1>16, <2>1, <2>3 DEF Loop, EmuPC, CpuPC, HostPC
<1>17. CASE SetStopped
  BY <1>17, UpdateType, StayType DEF SetStopped, Interrupt, NoInterrupt, EmuPC, CpuPC, Spcflag, Isr
<1>18. CASE Rte
  BY <1>18, UpdateType DEF Rte, EmuPC, CpuPC, HostPC, Spcflag, Isr, StackOK, Base, Frames, OpRecord
<1>19. CASE BeginIrq
  BY <1>19, NumFlagsAssumption, MaxNestAssumption DEF BeginIrq, BeginOp, EmuPC, CpuPC, HostPC, OpRecord, Isr
<1>20. CASE TestFlag
  <2>1. depth \in 1 .. MaxNest
    BY <1>20, MaxNestAssumption DEF TestFlag, ControlOK, HostPC
  <2>2. op[depth] \in OpRecord
    BY <2>1
  <2>3. op[depth].at + 1 \in 1 .. NumFlags + 1
    BY <1>20, <2>2, NumFlagsAssumption DEF TestFlag, OpRecord
  <2>4. [op[depth] EXCEPT !.at = @ + 1] \in OpRecord
    BY <2>2, <2>3 DEF OpRecord
  <2>5. [op EXCEPT ![depth].at = @ + 1] \in [1 .. MaxNest -> OpRecord]
    BY <2>1, <2>4
  <2>6. QED
    BY <1>20, <2>5 DEF TestFlag, EmuPC, HostPC
<1>21. CASE ClearInterruptFlag
  BY <1>21 DEF ClearInterruptFlag, EmuPC, HostPC
<1>22. CASE Handle
  <2>. DEFINE f == op[depth].at
  <2>1. depth \in 1 .. MaxNest /\ f <= NumFlags
    BY <1>22, MaxNestAssumption DEF Handle, ControlOK, HostPC
  <2>2. op[depth] \in OpRecord
    BY <2>1
  <2>3. f \in Flags /\ f + 1 \in 1 .. NumFlags + 1
    BY <2>1, <2>2, NumFlagsAssumption DEF OpRecord, Flags
  <2>4. [op[depth] EXCEPT !.at = f + 1] \in OpRecord
    BY <2>2, <2>3 DEF OpRecord
  <2>5. op' \in [1 .. MaxNest -> OpRecord]
    BY <1>22, <2>1, <2>4 DEF Handle
  <2>6. event' \in [Flags -> BOOLEAN] /\ left' \subseteq Flags
    BY <1>22, <2>3 DEF Handle
  <2>7. pc' \in EmuPC /\ isr' \in Isr /\ sp' \in Nat
    BY <1>22 DEF Handle, EmuPC, CpuPC, HostPC, Isr
  <2>8. QED
    BY <1>22, <2>5, <2>6, <2>7 DEF Handle
<1>23. CASE EndOp
  <2>1. depth \in 1 .. MaxNest
    BY <1>23, MaxNestAssumption DEF EndOp, ControlOK, HostPC
  <2>2. op[depth] \in OpRecord
    BY <2>1
  <2>3. intmask' \in {0, 1} /\ isr' \in Isr /\ sp' \in Nat
    BY <1>23, <2>2 DEF EndOp, OpRecord
  <2>4. NoOp \in OpRecord
    BY NumFlagsAssumption DEF NoOp, OpRecord, Isr, Base
  <2>5. op' \in [1 .. MaxNest -> OpRecord] /\ depth' \in 0 .. MaxNest
    <3>1. op' = [op EXCEPT ![depth] = NoOp] /\ depth' = depth - 1
      BY <1>23 DEF EndOp
    <3>2. depth - 1 \in 0 .. MaxNest
      BY <2>1, MaxNestAssumption
    <3>3. op \in [1 .. MaxNest -> OpRecord]
      OBVIOUS
    <3> QED
      BY <2>1, <2>4, <3>1, <3>2, <3>3, Zenon
  <2>6. spcflags \cup {"INT"} \in SUBSET Spcflag /\ "test" \in CpuPC
    BY DEF Spcflag, CpuPC
  <2>7. spcflags' \subseteq Spcflag /\ cstore' \in Store /\ pc' \in EmuPC
    BY <1>23, <2>6, UpdateType DEF EndOp, EmuPC
  <2>8. QED
    BY <1>23, <2>3, <2>5, <2>7 DEF EndOp
<1>24. CASE Plain
  BY <1>24, UpdateType, StayType DEF Plain, Interrupt, NoInterrupt, EmuPC, CpuPC, Spcflag, Isr
<1>25. CASE Stop
  BY <1>25, UpdateType, StayType DEF Stop, Interrupt, NoInterrupt, EmuPC, CpuPC, Spcflag, Isr
<1>26. CASE Boot
  BY <1>26 DEF Boot
<1>27. CASE BeginIdle
  BY <1>27, NumFlagsAssumption, MaxNestAssumption DEF BeginIdle, BeginOp, EmuPC, CpuPC, HostPC, OpRecord, Isr
<1>28. CASE BeginCall
  BY <1>28, NumFlagsAssumption, MaxNestAssumption DEF BeginCall, BeginOp, EmuPC, CpuPC, HostPC, OpRecord, Isr
<1>29. CASE ExecReturn
  BY <1>29, UpdateType, StayType DEF ExecReturn, Interrupt, NoInterrupt, EmuPC, CpuPC, Spcflag, Isr
<1>30. CASE SpuriousWakeup
  BY <1>30 DEF SpuriousWakeup, EmuPC, HostPC
<1>31. CASE \E mask \in {0, 1} : SetSR(mask)
  BY <1>31, UpdateType, StayType DEF SetSR, Interrupt, NoInterrupt, EmuPC, CpuPC, Spcflag, Isr
<1>32. CASE UNCHANGED vars
  BY <1>32 DEF vars, thread, cpu, world, context
<1>33. QED
  BY <1>1, <1>2, <1>3, <1>4, <1>5, <1>6, <1>7, <1>8, <1>9, <1>10, <1>11, <1>12, <1>13, <1>14, <1>15, <1>16, <1>17, <1>18, <1>19, <1>20, <1>21, <1>22, <1>23, <1>24, <1>25, <1>26, <1>27, <1>28, <1>29, <1>30, <1>31, <1>32
     DEF Next, ThreadStep, CpuStep, MacCode

\* Every step keeps the emulator thread and the EMUL_OPs in progress in step.
LEMMA ControlStep ==
    ASSUME TypeOK, ControlOK, [Next]_vars
    PROVE  ControlOK'
<1>. USE DEF ControlOK, TypeOK, thread, cpu, world, context
<1>1. CASE \E t \in Threads : Post(t)
  BY <1>1 DEF Post
<1>2. CASE \E t \in Threads : SetInterruptFlag(t)
  BY <1>2 DEF SetInterruptFlag
<1>3. CASE \E t \in Threads : IdleResume(t)
  BY <1>3 DEF IdleResume, HostPC
<1>4. CASE \E t \in Threads : TriggerInterrupt(t)
  BY <1>4 DEF TriggerInterrupt
<1>5. CASE \E t \in Threads : TriggerStore(t)
  BY <1>5 DEF TriggerStore
<1>6. CASE CpuStore
  BY <1>6 DEF CpuStore, CpuPC, HostPC, Store, NoStore
<1>7. CASE TestSpcflags
  BY <1>7 DEF TestSpcflags, Update, Stay, Interrupt, NoInterrupt, CpuPC, HostPC
<1>8. CASE StopLoop
  BY <1>8 DEF StopLoop, Update, Stay, Interrupt, NoInterrupt, CpuPC, HostPC
<1>9. CASE StopLevel
  BY <1>9 DEF StopLevel, Update, Stay, Interrupt, NoInterrupt, CpuPC, HostPC
<1>10. CASE StopClear
  BY <1>10 DEF StopClear, Update, Stay, Interrupt, NoInterrupt, CpuPC, HostPC
<1>11. CASE Doint
  BY <1>11 DEF Doint, Update, Stay, Interrupt, NoInterrupt, CpuPC, HostPC
<1>12. CASE DointLevel
  BY <1>12 DEF DointLevel, Update, Stay, Interrupt, NoInterrupt, CpuPC, HostPC
<1>13. CASE Int
  BY <1>13 DEF Int, Update, Stay, Interrupt, NoInterrupt, CpuPC, HostPC
<1>14. CASE Int2
  BY <1>14 DEF Int2, Update, Stay, Interrupt, NoInterrupt, CpuPC, HostPC
<1>15. CASE Brk
  BY <1>15 DEF Brk, Update, Stay, Interrupt, NoInterrupt, CpuPC, HostPC
<1>16. CASE Loop
  BY <1>16 DEF Loop, Update, Stay, Interrupt, NoInterrupt, CpuPC, HostPC
<1>17. CASE SetStopped
  BY <1>17 DEF SetStopped, Update, Stay, Interrupt, NoInterrupt, CpuPC, HostPC
<1>18. CASE Rte
  BY <1>18 DEF Rte, Update, Stay, Interrupt, NoInterrupt, CpuPC, HostPC
<1>19. CASE BeginIrq
  BY <1>19 DEF BeginIrq, BeginOp, HostPC, OpRecord
<1>20. CASE TestFlag
  BY <1>20 DEF TestFlag, HostPC, Update, CpuPC
<1>21. CASE ClearInterruptFlag
  BY <1>21 DEF ClearInterruptFlag, HostPC, Update, CpuPC
<1>22. CASE Handle
  BY <1>22 DEF Handle, HostPC, Update, CpuPC
<1>23. CASE EndOp
  BY <1>23 DEF EndOp, HostPC, Update, CpuPC
<1>24. CASE Plain
  BY <1>24 DEF Plain, Update, Stay, Interrupt, NoInterrupt, CpuPC, HostPC
<1>25. CASE Stop
  BY <1>25 DEF Stop, Update, Stay, Interrupt, NoInterrupt, CpuPC, HostPC
<1>26. CASE Boot
  BY <1>26 DEF Boot
<1>27. CASE BeginIdle
  BY <1>27 DEF BeginIdle, BeginOp, HostPC, OpRecord
<1>28. CASE BeginCall
  BY <1>28 DEF BeginCall, BeginOp, HostPC, OpRecord
<1>29. CASE ExecReturn
  BY <1>29 DEF ExecReturn, Update, Stay, Interrupt, NoInterrupt, CpuPC, HostPC
<1>30. CASE SpuriousWakeup
  BY <1>30 DEF SpuriousWakeup, HostPC, Update, CpuPC
<1>31. CASE \E mask \in {0, 1} : SetSR(mask)
  BY <1>31 DEF SetSR, Update, Stay, Interrupt, NoInterrupt, CpuPC, HostPC
<1>32. CASE UNCHANGED vars
  BY <1>32 DEF vars, thread, cpu, world, context
<1>33. QED
  BY <1>1, <1>2, <1>3, <1>4, <1>5, <1>6, <1>7, <1>8, <1>9, <1>10, <1>11, <1>12, <1>13, <1>14, <1>15, <1>16, <1>17, <1>18, <1>19, <1>20, <1>21, <1>22, <1>23, <1>24, <1>25, <1>26, <1>27, <1>28, <1>29, <1>30, <1>31, <1>32
     DEF Next, ThreadStep, CpuStep, MacCode

\* Every step keeps level 1 masked while the 68k handler runs.
LEMMA MaskStep ==
    ASSUME TypeOK, ControlOK, MaskOK, [Next]_vars
    PROVE  MaskOK'
<1>. USE DEF MaskOK, ControlOK, TypeOK, thread, cpu, world, context
<1>1. CASE \E t \in Threads : Post(t)
  BY <1>1 DEF Post, HostPC
<1>2. CASE \E t \in Threads : SetInterruptFlag(t)
  BY <1>2 DEF SetInterruptFlag, HostPC
<1>3. CASE \E t \in Threads : IdleResume(t)
  BY <1>3 DEF IdleResume, HostPC
<1>4. CASE \E t \in Threads : TriggerInterrupt(t)
  BY <1>4 DEF TriggerInterrupt, HostPC
<1>5. CASE \E t \in Threads : TriggerStore(t)
  BY <1>5 DEF TriggerStore, HostPC
<1>6. CASE CpuStore
  BY <1>6 DEF CpuStore, Update, Stay, Interrupt, NoInterrupt, BeginOp, CpuPC, HostPC, Store, OpRecord
<1>7. CASE TestSpcflags
  BY <1>7 DEF TestSpcflags, Update, Stay, Interrupt, NoInterrupt, BeginOp, CpuPC, HostPC, Store, OpRecord
<1>8. CASE StopLoop
  BY <1>8 DEF StopLoop, Update, Stay, Interrupt, NoInterrupt, BeginOp, CpuPC, HostPC, Store, OpRecord
<1>9. CASE StopLevel
  BY <1>9 DEF StopLevel, Update, Stay, Interrupt, NoInterrupt, HostPC, Deliverable
<1>10. CASE StopClear
  BY <1>10 DEF StopClear, Update, Stay, Interrupt, NoInterrupt, BeginOp, CpuPC, HostPC, Store, OpRecord
<1>11. CASE Doint
  BY <1>11 DEF Doint, Update, Stay, Interrupt, NoInterrupt, BeginOp, CpuPC, HostPC, Store, OpRecord
<1>12. CASE DointLevel
  BY <1>12 DEF DointLevel, Update, Stay, Interrupt, NoInterrupt, HostPC, Deliverable
<1>13. CASE Int
  BY <1>13 DEF Int, Update, Stay, Interrupt, NoInterrupt, BeginOp, CpuPC, HostPC, Store, OpRecord
<1>14. CASE Int2
  BY <1>14 DEF Int2, Update, Stay, Interrupt, NoInterrupt, BeginOp, CpuPC, HostPC, Store, OpRecord
<1>15. CASE Brk
  BY <1>15 DEF Brk, Update, Stay, Interrupt, NoInterrupt, BeginOp, CpuPC, HostPC, Store, OpRecord
<1>16. CASE Loop
  BY <1>16 DEF Loop, Update, Stay, Interrupt, NoInterrupt, BeginOp, CpuPC, HostPC, Store, OpRecord
<1>17. CASE SetStopped
  BY <1>17 DEF SetStopped, Update, Stay, Interrupt, NoInterrupt, BeginOp, CpuPC, HostPC, Store, OpRecord
<1>18. CASE Rte
  BY <1>18 DEF Rte, Update, Stay, Interrupt, NoInterrupt, BeginOp, CpuPC, HostPC, Store, OpRecord
<1>19. CASE BeginIrq
  <2>1. /\ depth' = depth + 1 /\ depth + 1 \in 1 .. MaxNest /\ depth \in Nat
        /\ op'[depth + 1].mask = intmask
        /\ op'[depth + 1].isr # "none" => isr # "none"
        /\ \A d \in 1 .. depth : op'[d] = op[d]
    BY <1>19, MaxNestAssumption DEF BeginIrq, BeginOp
  <2>2. \A d \in 1 .. depth' : op'[d].isr # "none" => op'[d].mask = 1
    BY <1>19, <2>1 DEF BeginIrq, HostPC
  <2>3. QED
    BY <1>19, <2>2 DEF BeginIrq, BeginOp, HostPC
<1>20. CASE TestFlag
  <2>1. pc' \in HostPC /\ depth' = depth /\ depth \in 1 .. MaxNest
    BY <1>20 DEF TestFlag, HostPC
  <2>2. \A d \in 1 .. depth : op'[d].mask = op[d].mask /\ op'[d].isr = op[d].isr
    <3>1. TAKE d \in 1 .. depth
    <3>2. op[d] \in OpRecord /\ d \in 1 .. MaxNest
      BY <2>1, MaxNestAssumption
    <3>3. op'[d] = op[d] \/ op'[d] = [op[d] EXCEPT !.at = op[d].at + 1]
      BY <1>20, <2>1, <3>2 DEF TestFlag
    <3>4. QED
      BY <3>2, <3>3 DEF OpRecord
  <2>3. QED
    BY <2>1, <2>2
<1>21. CASE ClearInterruptFlag
  BY <1>21 DEF ClearInterruptFlag, HostPC
<1>22. CASE Handle
  BY <1>22 DEF Handle, HostPC
<1>23. CASE EndOp
  BY <1>23 DEF EndOp, Update, Stay, Interrupt, NoInterrupt, BeginOp, CpuPC, HostPC, Store, OpRecord
<1>24. CASE Plain
  BY <1>24 DEF Plain, Update, Stay, Interrupt, NoInterrupt, BeginOp, CpuPC, HostPC, Store, OpRecord
<1>25. CASE Stop
  BY <1>25 DEF Stop, Update, Stay, Interrupt, NoInterrupt, BeginOp, CpuPC, HostPC, Store, OpRecord
<1>26. CASE Boot
  BY <1>26 DEF Boot, HostPC
<1>27. CASE BeginIdle
  <2>1. /\ depth' = depth + 1 /\ depth + 1 \in 1 .. MaxNest /\ depth \in Nat
        /\ op'[depth + 1].mask = intmask
        /\ op'[depth + 1].isr # "none" => isr # "none"
        /\ \A d \in 1 .. depth : op'[d] = op[d]
    BY <1>27, MaxNestAssumption DEF BeginIdle, BeginOp
  <2>2. \A d \in 1 .. depth' : op'[d].isr # "none" => op'[d].mask = 1
    BY <1>27, <2>1 DEF BeginIdle, HostPC
  <2>3. QED
    BY <1>27, <2>2 DEF BeginIdle, BeginOp, HostPC
<1>28. CASE BeginCall
  <2>1. /\ depth' = depth + 1 /\ depth + 1 \in 1 .. MaxNest /\ depth \in Nat
        /\ op'[depth + 1].mask = intmask
        /\ op'[depth + 1].isr # "none" => isr # "none"
        /\ \A d \in 1 .. depth : op'[d] = op[d]
    BY <1>28, MaxNestAssumption DEF BeginCall, BeginOp
  <2>2. \A d \in 1 .. depth' : op'[d].isr # "none" => op'[d].mask = 1
    BY <1>28, <2>1 DEF BeginCall, HostPC
  <2>3. QED
    BY <1>28, <2>2 DEF BeginCall, BeginOp, HostPC
<1>29. CASE ExecReturn
  BY <1>29 DEF ExecReturn, Update, Stay, Interrupt, NoInterrupt, BeginOp, CpuPC, HostPC, Store, OpRecord
<1>30. CASE SpuriousWakeup
  BY <1>30 DEF SpuriousWakeup, HostPC
<1>31. CASE \E mask \in {0, 1} : SetSR(mask)
  BY <1>31 DEF SetSR, Update, Stay, Interrupt, NoInterrupt, BeginOp, CpuPC, HostPC, Store, OpRecord
<1>32. CASE UNCHANGED vars
  BY <1>32 DEF vars, thread, cpu, world, context
<1>33. QED
  BY <1>1, <1>2, <1>3, <1>4, <1>5, <1>6, <1>7, <1>8, <1>9, <1>10, <1>11, <1>12, <1>13, <1>14, <1>15, <1>16, <1>17, <1>18, <1>19, <1>20, <1>21, <1>22, <1>23, <1>24, <1>25, <1>26, <1>27, <1>28, <1>29, <1>30, <1>31, <1>32
     DEF Next, ThreadStep, CpuStep, MacCode

\* In the exclusive build no step leaves an update of the special flags half done.
LEMMA AtomicStep ==
    ASSUME TypeOK, AtomicOK, [Next]_vars
    PROVE  AtomicOK'
<1>. USE DEF AtomicOK, TypeOK, thread, cpu, world, context
<1>1. CASE \E t \in Threads : Post(t)
  BY <1>1 DEF Post
<1>2. CASE \E t \in Threads : SetInterruptFlag(t)
  BY <1>2 DEF SetInterruptFlag
<1>3. CASE \E t \in Threads : IdleResume(t)
  BY <1>3 DEF IdleResume
<1>4. CASE \E t \in Threads : TriggerInterrupt(t)
  BY <1>4 DEF TriggerInterrupt, Update, Stay, Interrupt, NoInterrupt, CpuPC
<1>5. CASE \E t \in Threads : TriggerStore(t)
  BY <1>5 DEF TriggerStore, Update, Stay, Interrupt, NoInterrupt, CpuPC
<1>6. CASE CpuStore
  BY <1>6 DEF CpuStore, Update, Stay, Interrupt, NoInterrupt, CpuPC
<1>7. CASE TestSpcflags
  BY <1>7 DEF TestSpcflags, Update, Stay, Interrupt, NoInterrupt, CpuPC
<1>8. CASE StopLoop
  BY <1>8 DEF StopLoop, Update, Stay, Interrupt, NoInterrupt, CpuPC
<1>9. CASE StopLevel
  BY <1>9 DEF StopLevel, Update, Stay, Interrupt, NoInterrupt, CpuPC
<1>10. CASE StopClear
  BY <1>10 DEF StopClear, Update, Stay, Interrupt, NoInterrupt, CpuPC
<1>11. CASE Doint
  BY <1>11 DEF Doint, Update, Stay, Interrupt, NoInterrupt, CpuPC
<1>12. CASE DointLevel
  BY <1>12 DEF DointLevel, Update, Stay, Interrupt, NoInterrupt, CpuPC
<1>13. CASE Int
  BY <1>13 DEF Int, Update, Stay, Interrupt, NoInterrupt, CpuPC
<1>14. CASE Int2
  BY <1>14 DEF Int2, Update, Stay, Interrupt, NoInterrupt, CpuPC
<1>15. CASE Brk
  BY <1>15 DEF Brk, Update, Stay, Interrupt, NoInterrupt, CpuPC
<1>16. CASE Loop
  BY <1>16 DEF Loop, Update, Stay, Interrupt, NoInterrupt, CpuPC
<1>17. CASE SetStopped
  BY <1>17 DEF SetStopped, Update, Stay, Interrupt, NoInterrupt, CpuPC
<1>18. CASE Rte
  BY <1>18 DEF Rte, Update, Stay, Interrupt, NoInterrupt, CpuPC
<1>19. CASE BeginIrq
  BY <1>19 DEF BeginIrq, BeginOp, Update
<1>20. CASE TestFlag
  BY <1>20 DEF TestFlag
<1>21. CASE ClearInterruptFlag
  BY <1>21 DEF ClearInterruptFlag
<1>22. CASE Handle
  BY <1>22 DEF Handle
<1>23. CASE EndOp
  BY <1>23 DEF EndOp, BeginOp, Update
<1>24. CASE Plain
  BY <1>24 DEF Plain, Update, Stay, Interrupt, NoInterrupt, CpuPC
<1>25. CASE Stop
  BY <1>25 DEF Stop, Update, Stay, Interrupt, NoInterrupt, CpuPC
<1>26. CASE Boot
  BY <1>26 DEF Boot
<1>27. CASE BeginIdle
  BY <1>27 DEF BeginIdle, BeginOp, Update
<1>28. CASE BeginCall
  BY <1>28 DEF BeginCall, BeginOp, Update
<1>29. CASE ExecReturn
  BY <1>29 DEF ExecReturn, Update, Stay, Interrupt, NoInterrupt, CpuPC
<1>30. CASE SpuriousWakeup
  BY <1>30 DEF SpuriousWakeup
<1>31. CASE \E mask \in {0, 1} : SetSR(mask)
  BY <1>31 DEF SetSR, Update, Stay, Interrupt, NoInterrupt, CpuPC
<1>32. CASE UNCHANGED vars
  BY <1>32 DEF vars, thread, cpu, world, context
<1>33. QED
  BY <1>1, <1>2, <1>3, <1>4, <1>5, <1>6, <1>7, <1>8, <1>9, <1>10, <1>11, <1>12, <1>13, <1>14, <1>15, <1>16, <1>17, <1>18, <1>19, <1>20, <1>21, <1>22, <1>23, <1>24, <1>25, <1>26, <1>27, <1>28, <1>29, <1>30, <1>31, <1>32
     DEF Next, ThreadStep, CpuStep, MacCode

\* No step loses an event: the flag is cleared before the handler looks.
LEMMA EventStep ==
    ASSUME TypeOK, ControlOK, NoLostEvent, [Next]_vars
    PROVE  NoLostEvent'
<1>. USE DEF NoLostEvent, TypeOK, thread, cpu, world, context
<1>1. CASE \E t \in Threads : Post(t)
  BY <1>1 DEF Post
<1>2. CASE \E t \in Threads : SetInterruptFlag(t)
  BY <1>2 DEF SetInterruptFlag
<1>3. CASE \E t \in Threads : IdleResume(t)
  BY <1>3 DEF IdleResume
<1>4. CASE \E t \in Threads : TriggerInterrupt(t)
  BY <1>4 DEF TriggerInterrupt
<1>5. CASE \E t \in Threads : TriggerStore(t)
  BY <1>5 DEF TriggerStore
<1>6. CASE CpuStore
  BY <1>6 DEF CpuStore, Update, Stay, Interrupt, NoInterrupt, CpuPC, Store
<1>7. CASE TestSpcflags
  BY <1>7 DEF TestSpcflags, Update, Stay, Interrupt, NoInterrupt, CpuPC, Store
<1>8. CASE StopLoop
  BY <1>8 DEF StopLoop, Update, Stay, Interrupt, NoInterrupt, CpuPC, Store
<1>9. CASE StopLevel
  BY <1>9 DEF StopLevel, Update, Stay, Interrupt, NoInterrupt, CpuPC, Store
<1>10. CASE StopClear
  BY <1>10 DEF StopClear, Update, Stay, Interrupt, NoInterrupt, CpuPC, Store
<1>11. CASE Doint
  BY <1>11 DEF Doint, Update, Stay, Interrupt, NoInterrupt, CpuPC, Store
<1>12. CASE DointLevel
  BY <1>12 DEF DointLevel, Update, Stay, Interrupt, NoInterrupt, CpuPC, Store
<1>13. CASE Int
  BY <1>13 DEF Int, Update, Stay, Interrupt, NoInterrupt, CpuPC, Store
<1>14. CASE Int2
  BY <1>14 DEF Int2, Update, Stay, Interrupt, NoInterrupt, CpuPC, Store
<1>15. CASE Brk
  BY <1>15 DEF Brk, Update, Stay, Interrupt, NoInterrupt, CpuPC, Store
<1>16. CASE Loop
  BY <1>16 DEF Loop, Update, Stay, Interrupt, NoInterrupt, CpuPC, Store
<1>17. CASE SetStopped
  BY <1>17 DEF SetStopped, Update, Stay, Interrupt, NoInterrupt, CpuPC, Store
<1>18. CASE Rte
  BY <1>18 DEF Rte, Update, Stay, Interrupt, NoInterrupt, CpuPC, Store
<1>19. CASE BeginIrq
  BY <1>19 DEF BeginIrq, BeginOp, Update
<1>20. CASE TestFlag
  BY <1>20 DEF TestFlag
<1>21. CASE ClearInterruptFlag
  BY <1>21 DEF ClearInterruptFlag
<1>22. CASE Handle
  BY <1>22 DEF Handle
<1>23. CASE EndOp
  BY <1>23 DEF EndOp, BeginOp, Update
<1>24. CASE Plain
  BY <1>24 DEF Plain, Update, Stay, Interrupt, NoInterrupt, CpuPC, Store
<1>25. CASE Stop
  BY <1>25 DEF Stop, Update, Stay, Interrupt, NoInterrupt, CpuPC, Store
<1>26. CASE Boot
  BY <1>26 DEF Boot
<1>27. CASE BeginIdle
  BY <1>27 DEF BeginIdle, BeginOp, Update
<1>28. CASE BeginCall
  BY <1>28 DEF BeginCall, BeginOp, Update
<1>29. CASE ExecReturn
  BY <1>29 DEF ExecReturn, Update, Stay, Interrupt, NoInterrupt, CpuPC, Store
<1>30. CASE SpuriousWakeup
  BY <1>30 DEF SpuriousWakeup
<1>31. CASE \E mask \in {0, 1} : SetSR(mask)
  BY <1>31 DEF SetSR, Update, Stay, Interrupt, NoInterrupt, CpuPC, Store
<1>32. CASE UNCHANGED vars
  BY <1>32 DEF vars, thread, cpu, world, context
<1>33. QED
  BY <1>1, <1>2, <1>3, <1>4, <1>5, <1>6, <1>7, <1>8, <1>9, <1>10, <1>11, <1>12, <1>13, <1>14, <1>15, <1>16, <1>17, <1>18, <1>19, <1>20, <1>21, <1>22, <1>23, <1>24, <1>25, <1>26, <1>27, <1>28, <1>29, <1>30, <1>31, <1>32
     DEF Next, ThreadStep, CpuStep, MacCode

\* In the exclusive build no step loses a trigger.
LEMMA WakeStep ==
    ASSUME Exclusive, TypeOK, AtomicOK, NoLostWakeup, [Next]_vars
    PROVE  NoLostWakeup'
<1>. USE DEF NoLostWakeup, AtomicOK, TypeOK, thread, cpu, world, context
<1>1. CASE \E t \in Threads : Post(t)
  BY <1>1 DEF Post, Triggering
<1>2. CASE \E t \in Threads : SetInterruptFlag(t)
  BY <1>2 DEF SetInterruptFlag, Triggering
<1>3. CASE \E t \in Threads : IdleResume(t)
  BY <1>3 DEF IdleResume, Triggering
<1>4. CASE \E t \in Threads : TriggerInterrupt(t)
  BY <1>4 DEF TriggerInterrupt, Triggering
<1>5. CASE \E t \in Threads : TriggerStore(t)
  BY <1>5 DEF TriggerStore, Triggering
<1>6. CASE CpuStore
  BY <1>6 DEF CpuStore, Triggering, Update, Stay, Interrupt, NoInterrupt, CpuPC, Store
<1>7. CASE TestSpcflags
  BY <1>7 DEF TestSpcflags, Triggering, Update, Stay, Interrupt, NoInterrupt, CpuPC, Store
<1>8. CASE StopLoop
  BY <1>8 DEF StopLoop, Triggering, Update, Stay, Interrupt, NoInterrupt, CpuPC, Store
<1>9. CASE StopLevel
  BY <1>9 DEF StopLevel, Update, Stay, Interrupt, NoInterrupt, Triggering, Deliverable
<1>10. CASE StopClear
  BY <1>10 DEF StopClear, Triggering, Update, Stay, Interrupt, NoInterrupt, CpuPC, Store
<1>11. CASE Doint
  BY <1>11 DEF Doint, Triggering, Update, Stay, Interrupt, NoInterrupt, CpuPC, Store
<1>12. CASE DointLevel
  BY <1>12 DEF DointLevel, Update, Stay, Interrupt, NoInterrupt, Triggering, Deliverable
<1>13. CASE Int
  BY <1>13 DEF Int, Triggering, Update, Stay, Interrupt, NoInterrupt, CpuPC, Store
<1>14. CASE Int2
  BY <1>14 DEF Int2, Triggering, Update, Stay, Interrupt, NoInterrupt, CpuPC, Store
<1>15. CASE Brk
  BY <1>15 DEF Brk, Triggering, Update, Stay, Interrupt, NoInterrupt, CpuPC, Store
<1>16. CASE Loop
  BY <1>16 DEF Loop, Triggering, Update, Stay, Interrupt, NoInterrupt, CpuPC, Store
<1>17. CASE SetStopped
  BY <1>17 DEF SetStopped, Triggering, Update, Stay, Interrupt, NoInterrupt, CpuPC, Store
<1>18. CASE Rte
  BY <1>18 DEF Rte, Triggering, Update, Stay, Interrupt, NoInterrupt, CpuPC, Store
<1>19. CASE BeginIrq
  BY <1>19 DEF BeginIrq, Triggering, BeginOp, Update
<1>20. CASE TestFlag
  BY <1>20 DEF TestFlag, Triggering
<1>21. CASE ClearInterruptFlag
  BY <1>21 DEF ClearInterruptFlag, Triggering
<1>22. CASE Handle
  BY <1>22 DEF Handle, Triggering
<1>23. CASE EndOp
  BY <1>23 DEF EndOp, Triggering, BeginOp, Update
<1>24. CASE Plain
  BY <1>24 DEF Plain, Triggering, Update, Stay, Interrupt, NoInterrupt, CpuPC, Store
<1>25. CASE Stop
  BY <1>25 DEF Stop, Triggering, Update, Stay, Interrupt, NoInterrupt, CpuPC, Store
<1>26. CASE Boot
  BY <1>26 DEF Boot, Triggering
<1>27. CASE BeginIdle
  BY <1>27 DEF BeginIdle, Triggering, BeginOp, Update
<1>28. CASE BeginCall
  BY <1>28 DEF BeginCall, Triggering, BeginOp, Update
<1>29. CASE ExecReturn
  BY <1>29 DEF ExecReturn, Triggering, Update, Stay, Interrupt, NoInterrupt, CpuPC, Store
<1>30. CASE SpuriousWakeup
  BY <1>30 DEF SpuriousWakeup, Triggering
<1>31. CASE \E mask \in {0, 1} : SetSR(mask)
  BY <1>31 DEF SetSR, Triggering, Update, Stay, Interrupt, NoInterrupt, CpuPC, Store
<1>32. CASE UNCHANGED vars
  BY <1>32 DEF vars, thread, cpu, world, context, Triggering
<1>33. QED
  BY <1>1, <1>2, <1>3, <1>4, <1>5, <1>6, <1>7, <1>8, <1>9, <1>10, <1>11, <1>12, <1>13, <1>14, <1>15, <1>16, <1>17, <1>18, <1>19, <1>20, <1>21, <1>22, <1>23, <1>24, <1>25, <1>26, <1>27, <1>28, <1>29, <1>30, <1>31, <1>32
     DEF Next, ThreadStep, CpuStep, MacCode

\* What the EMUL_OPs in progress have saved stays.
SavedFields ==
    /\ depth' = depth
    /\ \A d \in 1 .. depth : op'[d].sp = op[d].sp /\ op'[d].isr = op[d].isr

\* Such a step keeps the saved part of StackOK.
LEMMA SavedSame ==
    ASSUME TypeOK, StackOK, SavedFields
    PROVE  /\ SavedOK'
           /\ Base(depth)' = Base(depth)
           /\ depth > 0 => op'[depth].sp = op[depth].sp
<1>1. \A d \in 0 .. depth : Base(d)' = Base(d)
  BY DEF TypeOK, Base, SavedFields
<1>2. depth \in Nat
  BY DEF TypeOK
<1>3. \A d \in 1 .. depth : d - 1 \in 0 .. depth
  BY <1>2
<1>4. SavedOK'
  BY <1>1, <1>2, <1>3 DEF StackOK, SavedOK, SavedFields, Frames
<1>5. QED
  BY <1>1, <1>2, <1>4 DEF SavedFields

\* Every step keeps the 68k stack and what the EMUL_OPs have saved of it consistent.
LEMMA StackStep ==
    ASSUME TypeOK, ControlOK, MaskOK, StackOK, [Next]_vars
    PROVE  StackOK'
<1>. USE DEF StackOK, StackBalanced, ControlOK, TypeOK, thread, cpu, world, context
<1>1. CASE \E t \in Threads : Post(t)
  BY <1>1, SavedSame DEF Post, Update, Stay, CpuPC, HostPC, Store, SavedFields
<1>2. CASE \E t \in Threads : SetInterruptFlag(t)
  BY <1>2, SavedSame DEF SetInterruptFlag, Update, Stay, CpuPC, HostPC, Store, SavedFields
<1>3. CASE \E t \in Threads : IdleResume(t)
  BY <1>3, SavedSame DEF IdleResume, Update, Stay, CpuPC, HostPC, Store, SavedFields
<1>4. CASE \E t \in Threads : TriggerInterrupt(t)
  BY <1>4, SavedSame DEF TriggerInterrupt, Update, Stay, CpuPC, HostPC, Store, SavedFields
<1>5. CASE \E t \in Threads : TriggerStore(t)
  BY <1>5, SavedSame DEF TriggerStore, Update, Stay, CpuPC, HostPC, Store, SavedFields
<1>6. CASE CpuStore
  BY <1>6, SavedSame DEF CpuStore, Update, Stay, CpuPC, HostPC, Store, SavedFields
<1>7. CASE TestSpcflags
  BY <1>7, SavedSame DEF TestSpcflags, Update, Stay, CpuPC, HostPC, Store, SavedFields
<1>8. CASE StopLoop
  BY <1>8, SavedSame DEF StopLoop, Update, Stay, CpuPC, HostPC, Store, SavedFields
<1>9. CASE StopLevel
  <2>1. SavedOK' /\ Base(depth)' = Base(depth) /\ pc \notin HostPC /\ pc' \notin HostPC
    BY <1>9, SavedSame
       DEF StopLevel, Update, Stay, Interrupt, NoInterrupt, HostPC, CpuPC, SavedFields
  <2>2. Base(depth) \in Nat /\ Frames(isr) \in Nat
    BY DEF Base, Frames, OpRecord
  <2>3. CASE Deliverable
    <3>1. isr = "none" /\ isr' = "entered" /\ sp' = sp + 1 /\ depth' = depth
      BY <1>9, <2>1, <2>3 DEF StopLevel, Interrupt, MaskOK, Deliverable
    <3>2. QED
      BY <2>1, <2>2, <3>1 DEF Frames
  <2>4. CASE ~Deliverable
    BY <1>9, <2>1, <2>4 DEF StopLevel, NoInterrupt, Frames
  <2>5. QED
    BY <2>3, <2>4
<1>10. CASE StopClear
  BY <1>10, SavedSame DEF StopClear, Update, Stay, CpuPC, HostPC, Store, SavedFields
<1>11. CASE Doint
  BY <1>11, SavedSame DEF Doint, Update, Stay, CpuPC, HostPC, Store, SavedFields
<1>12. CASE DointLevel
  <2>1. SavedOK' /\ Base(depth)' = Base(depth) /\ pc \notin HostPC /\ pc' \notin HostPC
    BY <1>12, SavedSame
       DEF DointLevel, Update, Stay, Interrupt, NoInterrupt, HostPC, CpuPC, SavedFields
  <2>2. Base(depth) \in Nat /\ Frames(isr) \in Nat
    BY DEF Base, Frames, OpRecord
  <2>3. CASE Deliverable
    <3>1. isr = "none" /\ isr' = "entered" /\ sp' = sp + 1 /\ depth' = depth
      BY <1>12, <2>1, <2>3 DEF DointLevel, Interrupt, MaskOK, Deliverable
    <3>2. QED
      BY <2>1, <2>2, <3>1 DEF Frames
  <2>4. CASE ~Deliverable
    BY <1>12, <2>1, <2>4 DEF DointLevel, NoInterrupt, Frames
  <2>5. QED
    BY <2>3, <2>4
<1>13. CASE Int
  BY <1>13, SavedSame DEF Int, Update, Stay, CpuPC, HostPC, Store, SavedFields
<1>14. CASE Int2
  BY <1>14, SavedSame DEF Int2, Update, Stay, CpuPC, HostPC, Store, SavedFields
<1>15. CASE Brk
  BY <1>15, SavedSame DEF Brk, Update, Stay, CpuPC, HostPC, Store, SavedFields
<1>16. CASE Loop
  BY <1>16, SavedSame DEF Loop, Update, Stay, Interrupt, NoInterrupt, CpuPC, HostPC, SavedFields, Frames, Base, OpRecord, Isr
<1>17. CASE SetStopped
  BY <1>17, SavedSame DEF SetStopped, Update, Stay, CpuPC, HostPC, Store, SavedFields
<1>18. CASE Rte
  BY <1>18, SavedSame DEF Rte, Update, Stay, Interrupt, NoInterrupt, CpuPC, HostPC, SavedFields, Frames, Base, OpRecord, Isr
<1>19. CASE BeginIrq
  <2>1. sp >= Base(depth) + Frames(isr) /\ depth \in Nat /\ depth + 1 \in 1 .. MaxNest
    BY <1>19, MaxNestAssumption DEF BeginIrq, BeginOp, HostPC
  <2>2. /\ depth' = depth + 1
        /\ op'[depth + 1].sp = sp
        /\ Frames(op'[depth + 1].isr) = Frames(isr)
        /\ \A d \in 1 .. depth : op'[d] = op[d]
    BY <1>19, <2>1 DEF BeginIrq, BeginOp, OpRecord, Frames
  <2>3. \A d \in 0 .. depth : Base(d)' = Base(d)
    BY <2>1, <2>2 DEF Base
  <2>4. Base(depth)' = sp + 1
    BY <2>1, <2>2 DEF Base
  <2>5. \A d \in 1 .. depth' : op'[d].sp >= Base(d - 1)' + Frames(op'[d].isr)
    <3>1. TAKE d \in 1 .. depth'
    <3>2. CASE d = depth + 1
      BY <2>1, <2>2, <2>3, <3>2
    <3>3. CASE d \in 1 .. depth
      BY <2>1, <2>2, <2>3, <3>3 DEF SavedOK
    <3>4. QED
      BY <2>1, <2>2, <3>2, <3>3
  <2>6. op'[1].sp = Frames(op'[1].isr)
    <3>1. CASE depth = 0
      BY <2>1, <2>2, <3>1 DEF Frames
    <3>2. CASE depth > 0
      <4>1. 1 \in 1 .. depth
        BY <2>1, <3>2
      <4>2. QED
        BY <2>2, <3>2, <4>1 DEF SavedOK
    <3>3. QED
      BY <2>1, <3>1, <3>2
  <2>7. SavedOK'
    BY <2>5, <2>6 DEF SavedOK, Frames
  <2>8. QED
    BY <1>19, <2>1, <2>2, <2>4, <2>7 DEF BeginIrq, BeginOp, HostPC, Frames
<1>20. CASE TestFlag
  <2>1. pc' \in HostPC /\ pc \in HostPC /\ depth' = depth /\ depth \in 1 .. MaxNest
    BY <1>20 DEF TestFlag, HostPC
  <2>2. \A d \in 1 .. depth : op'[d].sp = op[d].sp /\ op'[d].isr = op[d].isr
    <3>1. TAKE d \in 1 .. depth
    <3>2. op[d] \in OpRecord /\ d \in 1 .. MaxNest
      BY <2>1, MaxNestAssumption
    <3>3. op'[d] = op[d] \/ op'[d] = [op[d] EXCEPT !.at = op[d].at + 1]
      BY <1>20, <2>1, <3>2 DEF TestFlag
    <3>4. QED
      BY <3>2, <3>3 DEF OpRecord
  <2>3. QED
    BY <1>20, <2>1, <2>2, SavedSame DEF TestFlag, SavedFields
<1>21. CASE ClearInterruptFlag
  BY <1>21, SavedSame DEF ClearInterruptFlag, Update, Stay, CpuPC, HostPC, Store, SavedFields
<1>22. CASE Handle
  BY <1>22, SavedSame DEF Handle, Update, Stay, Interrupt, NoInterrupt, CpuPC, HostPC, SavedFields, Frames, Base, OpRecord, Isr
<1>23. CASE EndOp
  BY <1>23 DEF EndOp, Update, CpuPC, HostPC, OpRecord, Base, Frames, SavedOK
<1>24. CASE Plain
  BY <1>24, SavedSame DEF Plain, Update, Stay, CpuPC, HostPC, Store, SavedFields
<1>25. CASE Stop
  BY <1>25, SavedSame DEF Stop, Update, Stay, CpuPC, HostPC, Store, SavedFields
<1>26. CASE Boot
  BY <1>26, SavedSame DEF Boot, Update, Stay, CpuPC, HostPC, Store, SavedFields
<1>27. CASE BeginIdle
  <2>1. sp >= Base(depth) + Frames(isr) /\ depth \in Nat /\ depth + 1 \in 1 .. MaxNest
    BY <1>27, MaxNestAssumption DEF BeginIdle, BeginOp, HostPC
  <2>2. /\ depth' = depth + 1
        /\ op'[depth + 1].sp = sp
        /\ Frames(op'[depth + 1].isr) = Frames(isr)
        /\ \A d \in 1 .. depth : op'[d] = op[d]
    BY <1>27, <2>1 DEF BeginIdle, BeginOp, OpRecord, Frames
  <2>3. \A d \in 0 .. depth : Base(d)' = Base(d)
    BY <2>1, <2>2 DEF Base
  <2>4. Base(depth)' = sp + 1
    BY <2>1, <2>2 DEF Base
  <2>5. \A d \in 1 .. depth' : op'[d].sp >= Base(d - 1)' + Frames(op'[d].isr)
    <3>1. TAKE d \in 1 .. depth'
    <3>2. CASE d = depth + 1
      BY <2>1, <2>2, <2>3, <3>2
    <3>3. CASE d \in 1 .. depth
      BY <2>1, <2>2, <2>3, <3>3 DEF SavedOK
    <3>4. QED
      BY <2>1, <2>2, <3>2, <3>3
  <2>6. op'[1].sp = Frames(op'[1].isr)
    <3>1. CASE depth = 0
      BY <2>1, <2>2, <3>1 DEF Frames
    <3>2. CASE depth > 0
      <4>1. 1 \in 1 .. depth
        BY <2>1, <3>2
      <4>2. QED
        BY <2>2, <3>2, <4>1 DEF SavedOK
    <3>3. QED
      BY <2>1, <3>1, <3>2
  <2>7. SavedOK'
    BY <2>5, <2>6 DEF SavedOK, Frames
  <2>8. QED
    BY <1>27, <2>1, <2>2, <2>4, <2>7 DEF BeginIdle, BeginOp, HostPC, Frames
<1>28. CASE BeginCall
  <2>1. sp >= Base(depth) + Frames(isr) /\ depth \in Nat /\ depth + 1 \in 1 .. MaxNest
    BY <1>28, MaxNestAssumption DEF BeginCall, BeginOp, HostPC
  <2>2. /\ depth' = depth + 1
        /\ op'[depth + 1].sp = sp
        /\ Frames(op'[depth + 1].isr) = Frames(isr)
        /\ \A d \in 1 .. depth : op'[d] = op[d]
    BY <1>28, <2>1 DEF BeginCall, BeginOp, OpRecord, Frames
  <2>3. \A d \in 0 .. depth : Base(d)' = Base(d)
    BY <2>1, <2>2 DEF Base
  <2>4. Base(depth)' = sp + 1
    BY <2>1, <2>2 DEF Base
  <2>5. \A d \in 1 .. depth' : op'[d].sp >= Base(d - 1)' + Frames(op'[d].isr)
    <3>1. TAKE d \in 1 .. depth'
    <3>2. CASE d = depth + 1
      BY <2>1, <2>2, <2>3, <3>2
    <3>3. CASE d \in 1 .. depth
      BY <2>1, <2>2, <2>3, <3>3 DEF SavedOK
    <3>4. QED
      BY <2>1, <2>2, <3>2, <3>3
  <2>6. op'[1].sp = Frames(op'[1].isr)
    <3>1. CASE depth = 0
      BY <2>1, <2>2, <3>1 DEF Frames
    <3>2. CASE depth > 0
      <4>1. 1 \in 1 .. depth
        BY <2>1, <3>2
      <4>2. QED
        BY <2>2, <3>2, <4>1 DEF SavedOK
    <3>3. QED
      BY <2>1, <3>1, <3>2
  <2>7. SavedOK'
    BY <2>5, <2>6 DEF SavedOK, Frames
  <2>8. QED
    BY <1>28, <2>1, <2>2, <2>4, <2>7 DEF BeginCall, BeginOp, HostPC, Frames
<1>29. CASE ExecReturn
  BY <1>29, SavedSame DEF ExecReturn, Update, Stay, CpuPC, HostPC, Store, SavedFields
<1>30. CASE SpuriousWakeup
  BY <1>30, SavedSame DEF SpuriousWakeup, Update, Stay, CpuPC, HostPC, Store, SavedFields
<1>31. CASE \E mask \in {0, 1} : SetSR(mask)
  BY <1>31, SavedSame DEF SetSR, Update, Stay, CpuPC, HostPC, Store, SavedFields
<1>32. CASE UNCHANGED vars
  BY <1>32, SavedSame DEF SavedFields, HostPC, vars, thread, cpu, world, context
<1>33. QED
  BY <1>1, <1>2, <1>3, <1>4, <1>5, <1>6, <1>7, <1>8, <1>9, <1>10, <1>11, <1>12, <1>13, <1>14, <1>15, <1>16, <1>17, <1>18, <1>19, <1>20, <1>21, <1>22, <1>23, <1>24, <1>25, <1>26, <1>27, <1>28, <1>29, <1>30, <1>31, <1>32
     DEF Next, ThreadStep, CpuStep, MacCode

\* The emulator starts in IInv.
LEMMA InitIInv == Init => IInv
<1>. SUFFICES ASSUME Init PROVE IInv
  OBVIOUS
<1>. USE NumFlagsAssumption, MaxNestAssumption DEF Init
<1>1. NoOp \in OpRecord /\ NoStore \in Store /\ 1 \in Flags
  BY DEF NoOp, OpRecord, NoStore, Store, Flags, CpuPC, Isr
<1>2. TypeOK
  <2>1. op \in [1 .. MaxNest -> OpRecord] /\ cstore \in Store
    BY <1>1
  <2>2. tflag \in [Threads -> Flags] /\ tload \in [Threads -> SUBSET Spcflag]
    BY <1>1
  <2>3. event \in [Flags -> BOOLEAN] /\ pc \in EmuPC /\ isr \in Isr
    BY DEF EmuPC, CpuPC, Isr
  <2>4. tpc \in [Threads -> {"idle", "set", "resume", "trigger", "store"}]
    OBVIOUS
  <2>5. /\ InterruptFlags \subseteq Flags /\ spcflags \subseteq Spcflag /\ left \subseteq Flags
        /\ intmask \in {0, 1} /\ sp \in Nat /\ depth \in 0 .. MaxNest
    OBVIOUS
  <2>6. started \in BOOLEAN /\ quit_program \in BOOLEAN
    BY Zenon
  <2>7. QED
    BY ONLY <2>1, <2>2, <2>3, <2>4, <2>5, <2>6, Zenon DEF TypeOK
<1>3. ControlOK /\ MaskOK /\ AtomicOK /\ NoLostEvent
  BY DEF ControlOK, MaskOK, AtomicOK, NoLostEvent, HostPC
<1>4. StackOK
  BY DEF StackOK, SavedOK, StackBalanced, HostPC, Base, Frames
<1>5. QED
  BY <1>2, <1>3, <1>4 DEF IInv

\* A step stays in IInv.
LEMMA StepIInv == IInv /\ [Next]_vars => IInv'
BY TypeStep, ControlStep, MaskStep, StackStep, AtomicStep, EventStep DEF IInv

\* IInv holds of every build.
THEOREM Invariance == Spec => []IInv
BY InitIInv, StepIInv, PTL DEF Spec

\* The types: in particular the 68k stack is never popped below its bottom.
THEOREM TypeCorrect == Spec => []TypeOK
<1>1. IInv => TypeOK
  BY DEF IInv
<1>2. QED
  BY <1>1, Invariance, PTL

\* An event is never forgotten, in any build, whatever threads and handlers do:
\* the order "clear the flag, then call the handler" of M68K_EMUL_OP_IRQ.
THEOREM EventsKept == Spec => []NoLostEvent
<1>1. IInv => NoLostEvent
  BY DEF IInv
<1>2. QED
  BY <1>1, Invariance, PTL

\* The 68k stack is balanced outside EMUL_OPs, although an interrupt taken on
\* M68K_EXEC_RETURN leaves its frame behind inside one.
THEOREM StackKept == Spec => []StackBalanced
<1>1. IInv => StackBalanced
  BY DEF IInv, StackOK
<1>2. QED
  BY <1>1, Invariance, PTL

\* With atomic special flags no trigger is lost: whenever a flag is set, its
\* thread is still triggering, or the emulator is bound to look at it.
THEOREM WakeupsKept == Exclusive => (Spec => []NoLostWakeup)
<1>. SUFFICES ASSUME Exclusive PROVE Spec => []NoLostWakeup
  OBVIOUS
<1>1. Init => NoLostWakeup
  BY DEF Init, NoLostWakeup
<1>2. IInv /\ NoLostWakeup /\ [Next]_vars => NoLostWakeup'
  BY WakeStep DEF IInv
<1>3. QED
  BY <1>1, <1>2, Invariance, PTL DEF Spec

=============================================================================
