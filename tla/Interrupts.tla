----------------------------- MODULE Interrupts -----------------------------
(***************************************************************************)
(* Delivery of host events to the emulated 68k as level 1 interrupts.      *)
(*                                                                         *)
(* Host threads (60Hz tick, serial, Ethernet, audio, input) record an      *)
(* event, call SetInterruptFlag() and then TriggerInterrupt(), which wakes *)
(* an idle emulator and sets SPCFLAG_INT.  The emulator thread looks at    *)
(* the special flags after each instruction (m68k_do_specialties), takes a *)
(* level 1 interrupt if one is flagged and not masked, and the ROM's       *)
(* interrupt handler executes M68K_EMUL_OP_IRQ, which tests the flags one  *)
(* after the other, clears each and calls its handler.  A handler may run  *)
(* 68k code (Execute68k), in which interrupts can nest.                    *)
(*                                                                         *)
(* Code: emul_op.cpp, uae_cpu_2020/newcpu.cpp, spcflags.h,                 *)
(* basilisk_glue.cpp, Unix/main_unix.cpp, Unix/timer_unix.cpp.             *)
(***************************************************************************)
EXTENDS Naturals, FiniteSets

CONSTANTS
    Threads,        \* host threads that raise interrupts
    NumFlags,       \* interrupt flags, numbered in the order EMUL_OP_IRQ tests them
    Ticker,         \* the 60Hz thread
    Raises,         \* Raises[t]: the flags thread t raises
    Gated,          \* flags whose handler runs only once MacOS has started
    MaxNest,        \* bound on nested EMUL_OPs
    Exclusive       \* built with ENABLE_EXCLUSIVE_SPCFLAGS

Flags == 1 .. NumFlags

ASSUME NumFlagsAssumption == NumFlags \in Nat \ {0}
ASSUME TickerAssumption == Ticker \in Threads
ASSUME RaisesAssumption == Raises \in [Threads -> SUBSET Flags]
ASSUME GatedAssumption == Gated \subseteq Flags
ASSUME MaxNestAssumption == MaxNest \in Nat \ {0}
ASSUME ExclusiveAssumption == Exclusive \in BOOLEAN

VARIABLES
    InterruptFlags, \* pending interrupts (under intflag_lock)
    spcflags,       \* regs.spcflags, shared by all threads
    intmask,        \* regs.intmask: 0, or 1 for "level 1 is masked"
    started,        \* HasMacStarted(): the warm start flag in low memory
    event,          \* event[f]: the device has something for f's handler
    left,           \* events whose flag was cleared before MacOS had started
    tpc,            \* tpc[t]: where host thread t is
    tflag,          \* tflag[t]: the flag it is raising
    tload,          \* tload[t]: value it loaded from spcflags (non-exclusive build)
    pc,             \* where the emulator thread is
    cstore,         \* its unfinished read-modify-write of spcflags
    isr,            \* where the 68k interrupt handler of this level is
    quit_program,   \* set by M68K_EXEC_RETURN, ends the innermost m68k_execute()
    sp,             \* exception frames and return stubs on the 68k stack
    depth,          \* EMUL_OPs in progress
    op              \* op[d]: the d-th of them

thread == << tpc, tflag, tload >>
cpu == << pc, cstore, isr, quit_program, sp, depth, op, intmask, started >>
world == << InterruptFlags, event, left, thread >>
context == << isr, quit_program, sp, depth, op, intmask, started >>
vars == << InterruptFlags, spcflags, event, left, thread, cpu >>

Spcflag == {"STOP", "INT", "DOINT", "BRK"}
\* Inside m68k_execute(), and inside an EMUL_OP.
CpuPC == {"exec", "setstop", "test", "stop", "stopLevel", "stopClear", "doint",
          "dointLevel", "int", "int2", "brk", "loop"}
HostPC == {"op", "clear", "handle", "asleep"}
EmuPC == CpuPC \cup HostPC \cup {"store"}
Isr == {"none", "entered", "done"}

\* An EMUL_OP: the next flag to test (NumFlags + 1: no more to do), the
\* interrupt mask, the stack and the 68k handler it returns to.
OpRecord == [at : 1 .. NumFlags + 1, mask : {0, 1}, sp : Nat, isr : Isr]
NoOp == [at |-> NumFlags + 1, mask |-> 0, sp |-> 0, isr |-> "none"]
Store == [value : SUBSET Spcflag, next : CpuPC]
NoStore == [value |-> {}, next |-> "exec"]

Init ==
    /\ InterruptFlags = {}
    /\ spcflags = {}
    /\ intmask = 1
    /\ started = FALSE
    /\ event = [f \in Flags |-> FALSE]
    /\ left = {}
    /\ tpc = [t \in Threads |-> "idle"]
    /\ tflag = [t \in Threads |-> 1]
    /\ tload = [t \in Threads |-> {}]
    /\ pc = "exec"
    /\ cstore = NoStore
    /\ isr = "none"
    /\ quit_program = FALSE
    /\ sp = 0
    /\ depth = 0
    /\ op = [d \in 1 .. MaxNest |-> NoOp]

-----------------------------------------------------------------------------
(* Host threads *)

\* The device has something for the handler: a received packet, a finished
\* read, a key, a tick.
Post(t) ==
    /\ tpc[t] = "idle"
    /\ \E f \in Raises[t] :
          /\ tflag' = [tflag EXCEPT ![t] = f]
          /\ event' = [event EXCEPT ![f] = TRUE]
    /\ tpc' = [tpc EXCEPT ![t] = "set"]
    /\ UNCHANGED << InterruptFlags, spcflags, left, tload, cpu >>

SetInterruptFlag(t) ==
    /\ tpc[t] = "set"
    /\ InterruptFlags' = InterruptFlags \cup {tflag[t]}
    /\ tpc' = [tpc EXCEPT ![t] = "resume"]
    /\ UNCHANGED << spcflags, event, left, tflag, tload, cpu >>

\* idle_resume(): pthread_cond_signal() wakes the emulator only if it is
\* already waiting, nothing records the signal otherwise.
IdleResume(t) ==
    /\ tpc[t] = "resume"
    /\ pc' = IF pc = "asleep" THEN "op" ELSE pc
    /\ tpc' = [tpc EXCEPT ![t] = "trigger"]
    /\ UNCHANGED << context, InterruptFlags, spcflags, event, left, tflag, tload, cstore >>

\* SPCFLAGS_SET(SPCFLAG_INT): atomic only in an exclusive build, else a load
\* and a store.
TriggerInterrupt(t) ==
    /\ tpc[t] = "trigger"
    /\ IF Exclusive
         THEN /\ spcflags' = spcflags \cup {"INT"}
              /\ tpc' = [tpc EXCEPT ![t] = "idle"]
              /\ UNCHANGED tload
         ELSE /\ tload' = [tload EXCEPT ![t] = spcflags \cup {"INT"}]
              /\ tpc' = [tpc EXCEPT ![t] = "store"]
              /\ UNCHANGED spcflags
    /\ UNCHANGED << InterruptFlags, event, left, tflag, cpu >>

TriggerStore(t) ==
    /\ tpc[t] = "store"
    /\ spcflags' = tload[t]
    /\ tload' = [tload EXCEPT ![t] = {}]
    /\ tpc' = [tpc EXCEPT ![t] = "idle"]
    /\ UNCHANGED << InterruptFlags, event, left, tflag, cpu >>

ThreadStep(t) ==
    SetInterruptFlag(t) \/ IdleResume(t) \/ TriggerInterrupt(t) \/ TriggerStore(t)

-----------------------------------------------------------------------------
(* The emulator thread: special flags *)

\* SPCFLAGS_SET and SPCFLAGS_CLEAR by the emulator thread.
Update(value, next) ==
    IF Exclusive
      THEN spcflags' = value /\ pc' = next /\ UNCHANGED cstore
      ELSE /\ cstore' = [value |-> value, next |-> next]
           /\ pc' = "store"
           /\ UNCHANGED spcflags

Stay(next) == pc' = next /\ UNCHANGED << spcflags, cstore >>

CpuStore ==
    /\ pc = "store"
    /\ spcflags' = cstore.value
    /\ pc' = cstore.next
    /\ cstore' = NoStore
    /\ UNCHANGED << world, context >>

\* intlev() > regs.intmask
Deliverable == InterruptFlags # {} /\ intmask = 0

\* Interrupt(1): pushes an exception frame, masks level 1, sets SPCFLAG_INT.
Interrupt(next) ==
    /\ isr' = "entered"
    /\ sp' = sp + 1
    /\ intmask' = 1
    /\ Update(spcflags \cup {"INT"}, next)

NoInterrupt(next) == Stay(next) /\ UNCHANGED << isr, sp, intmask >>

\* m68k_do_execute(): after each instruction.
TestSpcflags ==
    /\ pc = "test"
    /\ Stay(IF spcflags # {} THEN "stop" ELSE "loop")
    /\ UNCHANGED << world, context >>

\* The STOP loop of m68k_do_specialties().
StopLoop ==
    /\ pc = "stop"
    /\ IF "STOP" \in spcflags
         THEN /\ spcflags \cap {"INT", "DOINT"} # {}
              /\ Update(spcflags \ {"INT", "DOINT"}, "stopLevel")
         ELSE Stay("doint")
    /\ UNCHANGED << world, context >>

StopLevel ==
    /\ pc = "stopLevel"
    /\ IF Deliverable THEN Interrupt("stopClear") ELSE NoInterrupt("stop")
    /\ UNCHANGED << world, quit_program, depth, op, started >>

StopClear ==
    /\ pc = "stopClear"
    /\ Update(spcflags \ {"STOP"}, "stop")
    /\ UNCHANGED << world, context >>

Doint ==
    /\ pc = "doint"
    /\ IF "DOINT" \in spcflags
         THEN Update(spcflags \ {"DOINT"}, "dointLevel")
         ELSE Stay("int")
    /\ UNCHANGED << world, context >>

DointLevel ==
    /\ pc = "dointLevel"
    /\ IF Deliverable THEN Interrupt("int") ELSE NoInterrupt("int")
    /\ UNCHANGED << world, quit_program, depth, op, started >>

\* SPCFLAG_INT becomes SPCFLAG_DOINT: the interrupt is taken one instruction later.
Int ==
    /\ pc = "int"
    /\ IF "INT" \in spcflags
         THEN Update(spcflags \ {"INT"}, "int2")
         ELSE Stay("brk")
    /\ UNCHANGED << world, context >>

\* Mutant of Int2: SPCFLAG_INT is dropped instead of becoming SPCFLAG_DOINT.
Int2Drops ==
    /\ pc = "int2"
    /\ Stay("brk")
    /\ UNCHANGED << world, context >>

Int2 ==
    /\ pc = "int2"
    /\ Update(spcflags \cup {"DOINT"}, "brk")
    /\ UNCHANGED << world, context >>

\* SPCFLAG_BRK leaves m68k_do_execute(); m68k_execute() re-enters it unless
\* quit_program is set, so both ways end in the loop condition.
Brk ==
    /\ pc = "brk"
    /\ IF "BRK" \in spcflags
         THEN Update(spcflags \ {"BRK"}, "loop")
         ELSE Stay("loop")
    /\ UNCHANGED << world, context >>

\* quit_program ends m68k_execute(): Execute68k() removes its stub from the
\* stack and returns into the EMUL_OP that called it.
Loop ==
    /\ pc = "loop"
    /\ Stay(IF quit_program THEN "op" ELSE "exec")
    /\ sp' = IF quit_program THEN sp - 1 ELSE sp
    /\ quit_program' = FALSE
    /\ UNCHANGED << world, isr, depth, op, intmask, started >>

-----------------------------------------------------------------------------
(* The emulator thread: 68k instructions *)

\* An instruction that touches neither the status register nor EMUL_OPs.
Plain ==
    /\ pc = "exec"
    /\ isr = "none"
    /\ Stay("test")
    /\ UNCHANGED << world, context >>

\* Mutant of SetSR: MakeFromSR() without SPCFLAGS_SET(SPCFLAG_INT).
SetSRSilent(mask) ==
    /\ pc = "exec"
    /\ isr = "none"
    /\ intmask' = mask
    /\ Stay("test")
    /\ UNCHANGED << world, isr, quit_program, sp, depth, op, started >>

\* MOVE to SR in MacOS code: MakeFromSR().
SetSR(mask) ==
    /\ pc = "exec"
    /\ isr = "none"
    /\ intmask' = mask
    /\ Update(spcflags \cup {"INT"}, "test")
    /\ UNCHANGED << world, isr, quit_program, sp, depth, op, started >>

\* STOP #$2000: MakeFromSR() and then m68k_setstopped(1).
Stop ==
    /\ pc = "exec"
    /\ isr = "none"
    /\ depth = 0
    /\ intmask' = 0
    /\ Update(spcflags \cup {"INT"}, "setstop")
    /\ UNCHANGED << world, isr, quit_program, sp, depth, op, started >>

SetStopped ==
    /\ pc = "setstop"
    /\ Update(spcflags \cup {"STOP"}, "test")
    /\ UNCHANGED << world, context >>

\* MacOS writes the warm start flag once it has booted.
Boot ==
    /\ pc = "exec"
    /\ ~started
    /\ started' = TRUE
    /\ UNCHANGED << world, spcflags, pc, cstore, isr, quit_program, sp, depth, op, intmask >>

\* RTE at the end of the interrupt handler: pops the frame, level 0 again.
Rte ==
    /\ pc = "exec"
    /\ isr = "done"
    /\ isr' = "none"
    /\ sp' = sp - 1
    /\ intmask' = 0
    /\ Update(spcflags \cup {"INT"}, "test")
    /\ UNCHANGED << world, quit_program, depth, op, started >>

\* M68K_EXEC_RETURN ends a callback: m68k_emulop_return().
ExecReturn ==
    /\ pc = "exec"
    /\ isr = "none"
    /\ depth > 0
    /\ quit_program' = TRUE
    /\ Update(spcflags \cup {"BRK"}, "test")
    /\ UNCHANGED << world, isr, sp, depth, op, intmask, started >>

-----------------------------------------------------------------------------
(* The emulator thread: EMUL_OPs *)

BeginOp(first, after, next) ==
    /\ depth < MaxNest
    /\ depth' = depth + 1
    /\ op' = [op EXCEPT ![depth + 1] =
                 [at |-> first, mask |-> intmask, sp |-> sp, isr |-> after]]
    /\ pc' = next

\* The interrupt handler reaches M68K_EMUL_OP_IRQ.
BeginIrq ==
    /\ pc = "exec"
    /\ isr = "entered"
    /\ BeginOp(1, "done", "op")
    /\ UNCHANGED << world, spcflags, cstore, isr, quit_program, sp, intmask, started >>

\* M68K_EMUL_OP_IDLE_TIME: sleeps if the MacOS event queue is empty (the
\* queue is MacOS data, so either answer is possible).
BeginIdle ==
    /\ pc = "exec"
    /\ isr = "none"
    /\ depth = 0
    /\ \E next \in {"asleep", "op"} : BeginOp(NumFlags + 1, "none", next)
    /\ UNCHANGED << world, spcflags, cstore, isr, quit_program, sp, intmask, started >>

\* Any other EMUL_OP that runs 68k code, such as a driver's Prime routine.
BeginCall ==
    /\ pc = "exec"
    /\ isr = "none"
    /\ depth = 0
    /\ MaxNest > 1
    /\ BeginOp(NumFlags + 1, "none", "exec")
    /\ sp' = sp + 1
    /\ UNCHANGED << world, spcflags, cstore, isr, quit_program, intmask, started >>

\* pthread_cond_wait() may also return by itself.
SpuriousWakeup ==
    /\ pc = "asleep"
    /\ pc' = "op"
    /\ UNCHANGED << world, context, spcflags, cstore >>

\* if (InterruptFlags & f): the flags are read without the lock.
TestFlag ==
    /\ pc = "op"
    /\ op[depth].at <= NumFlags
    /\ IF op[depth].at \in InterruptFlags
         THEN pc' = "clear" /\ UNCHANGED op
         ELSE op' = [op EXCEPT ![depth].at = @ + 1] /\ UNCHANGED pc
    /\ UNCHANGED << world, spcflags, cstore, isr, quit_program, sp, depth, intmask, started >>

\* Mutant of ClearInterruptFlag: all flags are reset at once.
ClearAllFlags ==
    /\ pc = "clear"
    /\ InterruptFlags' = {}
    /\ pc' = "handle"
    /\ UNCHANGED << context, spcflags, event, left, thread, cstore >>

ClearInterruptFlag ==
    /\ pc = "clear"
    /\ InterruptFlags' = InterruptFlags \ {op[depth].at}
    /\ pc' = "handle"
    /\ UNCHANGED << context, spcflags, event, left, thread, cstore >>

\* The handler takes what the device has posted; a handler that calls
\* Execute68k() continues in a nested m68k_execute() with its stub pushed.
\* Before MacOS has started, the gated handlers are skipped and the event stays.
Handle ==
    LET f == op[depth].at IN
    /\ pc = "handle"
    /\ op' = [op EXCEPT ![depth].at = f + 1]
    /\ IF f \in Gated /\ ~started
         THEN /\ left' = IF event[f] THEN left \cup {f} ELSE left
              /\ pc' = "op"
              /\ UNCHANGED << event, isr, sp >>
         ELSE /\ event' = [event EXCEPT ![f] = FALSE]
              /\ left' = left \ {f}
              /\ \/ pc' = "op" /\ UNCHANGED << isr, sp >>
                 \/ /\ depth < MaxNest
                    /\ pc' = "exec"
                    /\ isr' = "none"
                    /\ sp' = sp + 1
    /\ UNCHANGED << InterruptFlags, spcflags, thread, cstore, quit_program, depth,
                    intmask, started >>

\* Mutant of EndOp: a7 is not copied back into the registers.
EndOpKeepsStack ==
    /\ pc = "op"
    /\ op[depth].at > NumFlags
    /\ intmask' = op[depth].mask
    /\ isr' = op[depth].isr
    /\ depth' = depth - 1
    /\ op' = [op EXCEPT ![depth] = NoOp]
    /\ Update(spcflags \cup {"INT"}, "test")
    /\ UNCHANGED << world, quit_program, sp, started >>

\* m68k_emulop() after EmulOp() has returned: restores all registers, the
\* stack pointer and the status register included, and MakeFromSR().
EndOp ==
    /\ pc = "op"
    /\ op[depth].at > NumFlags
    /\ intmask' = op[depth].mask
    /\ sp' = op[depth].sp
    /\ isr' = op[depth].isr
    /\ depth' = depth - 1
    /\ op' = [op EXCEPT ![depth] = NoOp]
    /\ Update(spcflags \cup {"INT"}, "test")
    /\ UNCHANGED << world, quit_program, started >>

-----------------------------------------------------------------------------

CpuStep ==
    \/ CpuStore \/ TestSpcflags \/ StopLoop \/ StopLevel \/ StopClear
    \/ Doint \/ DointLevel \/ Int \/ Int2 \/ Brk \/ Loop
    \/ SetStopped \/ Rte
    \/ BeginIrq \/ TestFlag \/ ClearInterruptFlag \/ Handle \/ EndOp

MacCode ==
    \/ Plain \/ Stop \/ Boot \/ BeginIdle \/ BeginCall
    \/ \E mask \in {0, 1} : SetSR(mask)

Next ==
    \/ \E t \in Threads : Post(t) \/ ThreadStep(t)
    \/ CpuStep \/ MacCode \/ ExecReturn \/ SpuriousWakeup

Spec == Init /\ [][Next]_vars

-----------------------------------------------------------------------------
(* Safety *)

TypeOK ==
    /\ InterruptFlags \subseteq Flags
    /\ spcflags \subseteq Spcflag
    /\ intmask \in {0, 1}
    /\ started \in BOOLEAN
    /\ event \in [Flags -> BOOLEAN]
    /\ left \subseteq Flags
    /\ tpc \in [Threads -> {"idle", "set", "resume", "trigger", "store"}]
    /\ tflag \in [Threads -> Flags]
    /\ tload \in [Threads -> SUBSET Spcflag]
    /\ pc \in EmuPC
    /\ cstore \in Store
    /\ isr \in Isr
    /\ quit_program \in BOOLEAN
    /\ sp \in Nat
    /\ depth \in 0 .. MaxNest
    /\ op \in [1 .. MaxNest -> OpRecord]

\* Thread t has set flag f and has not finished TriggerInterrupt().
Triggering(t, f) == tpc[t] \in {"resume", "trigger"} /\ tflag[t] = f

\* A set interrupt flag is never forgotten: somebody still has to trigger it,
\* or the special flags will make the emulator look at it, or it is about to
\* look, or level 1 is masked (and unmasking it sets SPCFLAG_INT).  Code:
\* TriggerInterrupt(), m68k_do_specialties(), MakeFromSR().
NoLostWakeup ==
    \A f \in InterruptFlags :
        \/ \E t \in Threads : Triggering(t, f)
        \/ spcflags \cap {"INT", "DOINT"} # {}
        \/ pc \in {"stopLevel", "dointLevel", "int2"}
        \/ intmask = 1

\* An event posted before its flag is set is seen by a handler: clearing the
\* flag comes before the handler takes the events, so that an event posted
\* while the handler runs has its flag set again.  Code: M68K_EMUL_OP_IRQ.
NoLostEvent ==
    \A f \in Flags :
        event[f] => \/ f \in InterruptFlags
                    \/ f \in left
                    \/ \E t \in Threads : tpc[t] = "set" /\ tflag[t] = f
                    \/ pc = "handle" /\ op[depth].at = f

\* Outside EMUL_OPs the 68k stack holds the frame of the interrupt handler in
\* progress and nothing else, even after an interrupt was taken on the very
\* M68K_EXEC_RETURN that left a callback and its frame was abandoned.  Code:
\* m68k_emulop() restores a7 and sr, Execute68k() removes its stub.
StackBalanced ==
    depth = 0 => sp = IF isr = "none" THEN 0 ELSE 1

-----------------------------------------------------------------------------
(* What makes the invariants inductive *)

Frames(i) == IF i = "none" THEN 0 ELSE 1

\* Stack entries below the 68k code that runs inside d EMUL_OPs.
Base(d) == IF d = 0 THEN 0 ELSE op[d].sp + 1

\* An EMUL_OP is in progress while host code runs and when a callback returns.
ControlOK ==
    /\ pc \in HostPC => depth > 0
    /\ quit_program => depth > 0 /\ pc \notin HostPC \cup {"exec"}
    /\ pc \in {"clear", "handle"} => op[depth].at <= NumFlags
    /\ pc = "store" => cstore.next # "exec"

\* Every EMUL_OP has saved at least the stack of the code that executed it,
\* the outermost exactly that.
SavedOK ==
    /\ \A d \in 1 .. depth : op[d].sp >= Base(d - 1) + Frames(op[d].isr)
    /\ depth > 0 => op[1].sp = Frames(op[1].isr)

\* Callbacks leave no less on the stack than they found.
StackOK ==
    /\ SavedOK
    /\ pc \notin HostPC => sp >= Base(depth) + Frames(isr)
    /\ pc \in HostPC => sp >= op[depth].sp
    /\ StackBalanced

\* Level 1 is masked while the 68k handler runs, so it is not interrupted again.
MaskOK ==
    /\ isr # "none" /\ pc \notin HostPC => intmask = 1
    /\ \A d \in 1 .. depth : op[d].isr # "none" => op[d].mask = 1

\* The exclusive build never splits an update of the special flags.
AtomicOK == Exclusive => pc # "store" /\ \A t \in Threads : tpc[t] # "store"

IInv == TypeOK /\ ControlOK /\ MaskOK /\ StackOK /\ AtomicOK /\ NoLostEvent

-----------------------------------------------------------------------------
(* Liveness *)

\* MacOS code unmasks level 1 again and again, and for more than the one
\* instruction the delivery lags behind; its callbacks return;
\* the emulator thread and the host threads keep running; the tick thread
\* ticks (tick_func() loops until tick_thread_cancel).
Fairness ==
    /\ WF_vars(CpuStep)
    /\ SF_vars(SetSR(0))
    /\ SF_vars(Plain /\ intmask = 0)
    /\ SF_vars(ExecReturn)
    /\ \A t \in Threads : WF_vars(ThreadStep(t))
    /\ WF_vars(Post(Ticker))

FairSpec == Spec /\ Fairness

\* Every event for a handler that is not gated is eventually taken.
EventServed == \A f \in Flags \ Gated : event[f] ~> ~event[f]
=============================================================================
