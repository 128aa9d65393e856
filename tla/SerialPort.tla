----------------------------- MODULE SerialPort -----------------------------
(***************************************************************************)
(* One serial port: the emulated drivers .xIn and .xOut (serial.cpp) and   *)
(* the Unix port behind them with its two I/O threads (serial_unix.cpp).   *)
(*                                                                         *)
(* SerialPrime() hands a request to a thread and returns; the thread       *)
(* blocks in read() or write(), marks the request done and raises          *)
(* INTFLAG_SERIAL; SerialInterrupt() queues a Deferred Task, which calls   *)
(* IODone.  The emulator thread executes the driver calls; interrupts and  *)
(* deferred tasks run on it whenever it executes 68k code, the Memory      *)
(* Manager traps SerialOpen() and SerialClose() call included.             *)
(***************************************************************************)
EXTENDS Naturals, FiniteSets

CONSTANTS
    Dirs,           \* the directions: "in" and "out"
    KillUsed,       \* the client calls KillIO
    CloseBusy       \* the client closes the port while a request is outstanding

ASSUME DirsAssumption == Dirs = {"in", "out"}
ASSUME KillUsedAssumption == KillUsed \in BOOLEAN
ASSUME CloseBusyAssumption == CloseBusy \in BOOLEAN

VARIABLES
    is_open,        \* SERDPort::is_open
    pending,        \* pending[d]: read_pending, write_pending
    done,           \* done[d]: read_done, write_done
    io_killed,      \* XSERDPort::io_killed
    quitting,       \* XSERDPort::quitting
    signal,         \* signal[d]: value of input_signal, output_signal
    tpc,            \* tpc[d]: where the I/O thread is
    flag,           \* INTFLAG_SERIAL
    pc,             \* where the emulator thread is
    irq,            \* SerialInterrupt() is about to run on it
    tasks,          \* the memory of the Deferred Tasks is allocated
    queued,         \* the Deferred Tasks in the MacOS queue
    issued          \* issued[d]: MacOS waits for the completion of a request

port == << is_open, pending, done, io_killed, quitting >>
threads == << signal, tpc >>
mac == << tasks, queued, issued >>
vars == << port, threads, flag, pc, irq, mac >>

ThreadPC == {"none", "wait", "io", "check", "abort", "finish", "raise", "ended"}
\* "newptr" and "dispose": in a Memory Manager trap; "kill": in KillIO;
\* "join", "unjoin": in XSERDPort::close(), called by SerialClose() or because
\* SerialOpen() found no memory.
EmuPC == {"mac", "newptr", "kill", "join", "unjoin", "dispose"}

Init ==
    /\ is_open = FALSE
    /\ pending = [d \in Dirs |-> FALSE]
    /\ done = [d \in Dirs |-> FALSE]
    /\ io_killed = FALSE
    /\ quitting = FALSE
    /\ signal = [d \in Dirs |-> 0]
    /\ tpc = [d \in Dirs |-> "none"]
    /\ flag = FALSE
    /\ pc = "mac"
    /\ irq = FALSE
    /\ tasks = FALSE
    /\ queued = {}
    /\ issued = [d \in Dirs |-> FALSE]

-----------------------------------------------------------------------------
(* Driver calls, on the emulator thread *)

\* MacOS calls the driver.
Calling == pc = "mac" /\ ~irq

\* SerialOpen() up to NewPtrSysClear(): the port is opened and both threads
\* are started, or everything that was started is undone and openErr returned.
SerialOpen ==
    /\ Calling
    /\ ~is_open
    /\ pending' = [d \in Dirs |-> FALSE]
    /\ done' = [d \in Dirs |-> FALSE]
    /\ io_killed' = FALSE
    /\ quitting' = FALSE
    /\ signal' = [d \in Dirs |-> 0]
    /\ \/ /\ tpc' = [d \in Dirs |-> "wait"]
          /\ pc' = "newptr"
       \/ UNCHANGED << tpc, pc >>
    /\ UNCHANGED << is_open, flag, irq, mac >>

\* NewPtrSysClear() returns memory for the Deferred Tasks, or does not.
NewPtrReturns ==
    /\ pc = "newptr"
    /\ ~irq
    /\ \/ /\ tasks' = TRUE
          /\ is_open' = TRUE
          /\ pc' = "mac"
          /\ UNCHANGED << quitting, signal >>
       \/ /\ quitting' = TRUE
          /\ signal' = [signal EXCEPT !["in"] = @ + 1]
          /\ pc' = "unjoin"
          /\ UNCHANGED << tasks, is_open >>
    /\ UNCHANGED << pending, done, io_killed, tpc, flag, irq, queued, issued >>

\* Mutant of SerialPrime: the command is sent to the thread twice.
PrimeSignalsTwice(d) ==
    /\ Calling
    /\ is_open
    /\ ~pending[d]
    /\ ~issued[d]
    /\ done' = [done EXCEPT ![d] = FALSE]
    /\ pending' = [pending EXCEPT ![d] = TRUE]
    /\ signal' = [signal EXCEPT ![d] = @ + 2]
    /\ issued' = [issued EXCEPT ![d] = TRUE]
    /\ UNCHANGED << is_open, io_killed, quitting, tpc, flag, pc, irq, tasks, queued >>

\* SerialPrime() and prime_in() or prime_out().  MacOS issues the requests of
\* a driver one at a time; a call that is refused changes nothing.
SerialPrime(d) ==
    /\ Calling
    /\ is_open
    /\ ~pending[d]
    /\ ~issued[d]
    /\ done' = [done EXCEPT ![d] = FALSE]
    /\ pending' = [pending EXCEPT ![d] = TRUE]
    /\ signal' = [signal EXCEPT ![d] = @ + 1]
    /\ issued' = [issued EXCEPT ![d] = TRUE]
    /\ UNCHANGED << is_open, io_killed, quitting, tpc, flag, pc, irq, tasks, queued >>

\* control(), csCode 1: sets io_killed and polls until nothing is pending.
\* No 68k code runs meanwhile.
KillIO ==
    /\ Calling
    /\ is_open
    /\ KillUsed
    /\ io_killed' = TRUE
    /\ pc' = "kill"
    /\ UNCHANGED << is_open, pending, done, quitting, threads, flag, irq, mac >>

KillIOReturns ==
    /\ pc = "kill"
    /\ \A d \in Dirs : ~pending[d]
    /\ io_killed' = FALSE
    /\ pc' = "mac"
    /\ UNCHANGED << is_open, pending, done, quitting, threads, flag, irq, mac >>

\* SerialClose() and XSERDPort::close(): the input thread is told to quit and
\* joined, then the output thread.
SerialClose ==
    /\ Calling
    /\ is_open
    /\ CloseBusy \/ \A d \in Dirs : ~issued[d]
    /\ quitting' = TRUE
    /\ signal' = [signal EXCEPT !["in"] = @ + 1]
    /\ pc' = "join"
    /\ UNCHANGED << is_open, pending, done, io_killed, tpc, flag, irq, mac >>

JoinInput ==
    /\ pc \in {"join", "unjoin"}
    /\ tpc["in"] = "ended"
    /\ tpc' = [tpc EXCEPT !["in"] = "none"]
    /\ signal' = [signal EXCEPT !["in"] = 0, !["out"] = @ + 1]
    /\ UNCHANGED << port, flag, pc, irq, mac >>

JoinOutput ==
    /\ pc \in {"join", "unjoin"}
    /\ tpc["in"] = "none"
    /\ tpc["out"] = "ended"
    /\ tpc' = [tpc EXCEPT !["out"] = "none"]
    /\ signal' = [signal EXCEPT !["out"] = 0]
    /\ pc' = IF pc = "join" THEN "dispose" ELSE "mac"
    /\ UNCHANGED << port, flag, irq, mac >>

\* ... and DisposePtr() frees the Deferred Tasks, with the port still open.
DisposePtr ==
    /\ pc = "dispose"
    /\ ~irq
    /\ tasks
    /\ tasks' = FALSE
    /\ UNCHANGED << port, threads, flag, pc, irq, queued, issued >>

\* A closed driver has no requests: what was outstanding is abandoned.
SerialCloseReturns ==
    /\ pc = "dispose"
    /\ ~irq
    /\ ~tasks
    /\ is_open' = FALSE
    /\ pc' = "mac"
    /\ issued' = [d \in Dirs |-> FALSE]
    /\ UNCHANGED << pending, done, io_killed, quitting, threads, flag, irq, tasks, queued >>

-----------------------------------------------------------------------------
(* The I/O threads, input_func() and output_func() *)

\* Mutant of SemWait: quitting is not looked at.
SemWaitOnly(d) ==
    /\ tpc[d] = "wait"
    /\ signal[d] > 0
    /\ signal' = [signal EXCEPT ![d] = @ - 1]
    /\ tpc' = [tpc EXCEPT ![d] = "io"]
    /\ UNCHANGED << port, flag, pc, irq, mac >>

SemWait(d) ==
    /\ tpc[d] = "wait"
    /\ signal[d] > 0
    /\ signal' = [signal EXCEPT ![d] = @ - 1]
    /\ tpc' = [tpc EXCEPT ![d] = IF quitting THEN "ended" ELSE "io"]
    /\ UNCHANGED << port, flag, pc, irq, mac >>

\* read() or write() returns, with data or with an error.
Transfer(d) ==
    /\ tpc[d] = "io"
    /\ tpc' = [tpc EXCEPT ![d] = "check"]
    /\ UNCHANGED << port, signal, flag, pc, irq, mac >>

TestKilled(d) ==
    /\ tpc[d] = "check"
    /\ tpc' = [tpc EXCEPT ![d] = IF io_killed THEN "abort" ELSE "finish"]
    /\ UNCHANGED << port, signal, flag, pc, irq, mac >>

\* ioResult = abortErr completes the request.
Abort(d) ==
    /\ tpc[d] = "abort"
    /\ done' = [done EXCEPT ![d] = FALSE]
    /\ pending' = [pending EXCEPT ![d] = FALSE]
    /\ issued' = [issued EXCEPT ![d] = FALSE]
    /\ tpc' = [tpc EXCEPT ![d] = "wait"]
    /\ UNCHANGED << is_open, io_killed, quitting, signal, flag, pc, irq, tasks, queued >>

SetDone(d) ==
    /\ tpc[d] = "finish"
    /\ done' = [done EXCEPT ![d] = TRUE]
    /\ tpc' = [tpc EXCEPT ![d] = "raise"]
    /\ UNCHANGED << is_open, pending, io_killed, quitting, signal, flag, pc, irq, mac >>

\* SetInterruptFlag(INTFLAG_SERIAL), TriggerInterrupt()
Raise(d) ==
    /\ tpc[d] = "raise"
    /\ flag' = TRUE
    /\ tpc' = [tpc EXCEPT ![d] = "wait"]
    /\ UNCHANGED << port, signal, pc, irq, mac >>

-----------------------------------------------------------------------------
(* Interrupts and deferred tasks, on the emulator thread in 68k code *)

In68k == pc \in {"mac", "newptr", "dispose"} /\ ~irq

\* M68K_EMUL_OP_IRQ clears the flag and calls SerialInterrupt().
TakeInterrupt ==
    /\ In68k
    /\ flag
    /\ flag' = FALSE
    /\ irq' = TRUE
    /\ UNCHANGED << port, threads, pc, mac >>

\* serial_irq() looks at the input, then at the output; a request finished
\* after that has raised the flag again.
Finished == {d \in Dirs : is_open /\ pending[d] /\ done[d]}

\* Mutant of SerialInterrupt: the request stays pending.
InterruptKeeps ==
    /\ irq
    /\ irq' = FALSE
    /\ queued' = queued \cup Finished
    /\ UNCHANGED << port, threads, flag, pc, tasks, issued >>

\* Mutant of SerialInterrupt: the output is looked at only without input.
InterruptInputFirst ==
    /\ irq
    /\ irq' = FALSE
    /\ LET now == IF "in" \in Finished THEN {"in"} ELSE Finished
       IN  /\ queued' = queued \cup now
           /\ pending' = [d \in Dirs |-> pending[d] /\ d \notin now]
           /\ done' = [d \in Dirs |-> done[d] /\ d \notin now]
    /\ UNCHANGED << is_open, io_killed, quitting, threads, flag, pc, tasks, issued >>

SerialInterrupt ==
    /\ irq
    /\ irq' = FALSE
    /\ queued' = queued \cup Finished
    /\ pending' = [d \in Dirs |-> pending[d] /\ d \notin Finished]
    /\ done' = [d \in Dirs |-> done[d] /\ d \notin Finished]
    /\ UNCHANGED << is_open, io_killed, quitting, threads, flag, pc, tasks, issued >>

\* MacOS takes a Deferred Task off its queue; the task jumps to IODone.
DeferredTask(d) ==
    /\ In68k
    /\ d \in queued
    /\ queued' = queued \ {d}
    /\ issued' = [issued EXCEPT ![d] = FALSE]
    /\ UNCHANGED << port, threads, flag, pc, irq, tasks >>

-----------------------------------------------------------------------------

Thread(d) == SemWait(d) \/ Transfer(d) \/ TestKilled(d) \/ Abort(d) \/ SetDone(d) \/ Raise(d)

Next ==
    \/ SerialOpen \/ NewPtrReturns
    \/ KillIO \/ KillIOReturns
    \/ SerialClose \/ JoinInput \/ JoinOutput \/ DisposePtr \/ SerialCloseReturns
    \/ TakeInterrupt \/ SerialInterrupt
    \/ \E d \in Dirs : SerialPrime(d) \/ Thread(d) \/ DeferredTask(d)

Spec == Init /\ [][Next]_vars

\* The emulator goes on executing, the I/O threads run and the devices answer
\* every read() and write() in the end.  MacOS empties the deferred task queue,
\* first in first out, whenever it returns to interrupt level 0: interrupts
\* that keep arriving do not make it forget a task.
Fairness ==
    /\ WF_vars(NewPtrReturns)
    /\ WF_vars(KillIOReturns)
    /\ WF_vars(JoinInput)
    /\ WF_vars(JoinOutput)
    /\ WF_vars(DisposePtr)
    /\ WF_vars(SerialCloseReturns)
    /\ WF_vars(TakeInterrupt)
    /\ WF_vars(SerialInterrupt)
    /\ \A d \in Dirs : WF_vars(Thread(d)) /\ SF_vars(DeferredTask(d))

FairSpec == Spec /\ Fairness

-----------------------------------------------------------------------------
(* Properties *)

\* Every variable has its type; a semaphore counts a command and the request
\* to quit and no more.
TypeOK ==
    /\ is_open \in BOOLEAN
    /\ pending \in [Dirs -> BOOLEAN]
    /\ done \in [Dirs -> BOOLEAN]
    /\ io_killed \in BOOLEAN
    /\ quitting \in BOOLEAN
    /\ signal \in [Dirs -> 0 .. 2]
    /\ tpc \in [Dirs -> ThreadPC]
    /\ flag \in BOOLEAN
    /\ pc \in EmuPC
    /\ irq \in BOOLEAN
    /\ tasks \in BOOLEAN
    /\ queued \in SUBSET Dirs
    /\ issued \in [Dirs -> BOOLEAN]

Executing == {"io", "check", "abort", "finish"}

\* A pending request is in one place: in the semaphore, with the thread, or
\* done; a thread never works on, or repeats, a request that is over (the
\* pending and done flags both sides write without a lock).
OneOf(d) == (IF tpc[d] \in Executing THEN 1 ELSE 0) + (IF done[d] THEN 1 ELSE 0)
RequestTracked ==
    \A d \in Dirs : ~quitting => signal[d] + OneOf(d) = IF pending[d] THEN 1 ELSE 0

\* A request a thread has finished is not forgotten: an interrupt that looks
\* at the port is flagged, running or about to be raised (serial_irq() clears
\* the flags of both directions while the threads set them).
NoLostCompletion ==
    \A d \in Dirs : d \in Finished => flag \/ irq \/ tpc[d] = "raise"

\* EnqueueMac() is never called for a Deferred Task that is still on the MacOS
\* queue; it would cut the queue off or close it into a ring.
PostedOnce == \A d \in Dirs : d \in Finished => d \notin queued

\* IODone is called for a request MacOS waits for, once.
OneCompletion == \A d \in Dirs : d \in queued => issued[d] /\ ~pending[d]

\* While KillIO is in progress no thread reports a request as done
\* (serial_unix.cpp: "I/O threads must not call deferred tasks").
KilledNotCompleted == [][\A d \in Dirs : io_killed /\ done'[d] => done[d]]_vars

\* The driver implements the request protocol of TECH 6.11.
request == [d \in Dirs |->
    CASE d \in queued -> "posted"
      [] d \notin queued /\ pending[d] /\ done[d] -> "finished"
      [] d \notin queued /\ pending[d] /\ ~done[d] -> "running"
      [] OTHER -> "idle"]

Requests == INSTANCE SerialRequests WITH state <- request
RequestProtocol == Requests!Spec

\* Every request ends, unless KillIO gets in the way: it may not return.
RequestEnds == \A d \in Dirs : issued[d] ~> ~issued[d] \/ pc = "kill"

\* XSERDPort::close() returns, in SerialClose() and where SerialOpen() undoes what
\* it has started: both threads see that they have to quit.
CloseReturns == pc \in {"join", "unjoin"} ~> pc = "mac"

-----------------------------------------------------------------------------
(* The inductive invariant, for clients that close the port when it is idle *)

Alive == {"wait", "raise"} \cup Executing

\* Between SerialOpen() and SerialClose() both threads exist; at other times
\* there is nothing to do for them.
PhaseOK ==
    /\ pc = "kill" <=> io_killed
    /\ is_open => pc \in {"mac", "kill", "join", "dispose"}
    /\ pc \in {"kill", "join", "dispose"} => is_open
    /\ pc \in {"newptr", "unjoin"} => ~is_open /\ ~tasks
    /\ ~is_open => ~tasks
    /\ is_open /\ ~tasks => pc = "dispose"
    /\ irq => pc \in {"mac", "newptr", "dispose"}

ThreadsOK ==
    /\ pc \in {"newptr", "kill"} => ~quitting /\ \A d \in Dirs : tpc[d] \in Alive
    /\ pc = "mac" /\ is_open => ~quitting /\ \A d \in Dirs : tpc[d] \in Alive
    /\ pc = "mac" /\ ~is_open => \A d \in Dirs : tpc[d] = "none"
    /\ pc = "dispose" => \A d \in Dirs : tpc[d] = "none"
    /\ pc \in {"join", "unjoin"} => quitting /\ tpc["out"] # "none"
    /\ pc \in {"join", "unjoin"} /\ tpc["in"] # "none" => signal["out"] = 0

QuietOK ==
    /\ \A d \in Dirs : pending[d] \/ d \in queued => issued[d]
    /\ pc # "mac" /\ pc # "kill" => \A d \in Dirs : ~issued[d]
    /\ ~is_open => \A d \in Dirs : ~issued[d]
    /\ \A d \in Dirs : done[d] => pending[d]
    /\ \A d \in Dirs : issued[d] => pending[d] \/ d \in queued
    /\ \A d \in Dirs : ~(pending[d] /\ d \in queued)
    /\ \A d \in Dirs : tpc[d] \in Executing => pending[d] /\ ~done[d] /\ signal[d] = 0
    /\ \A d \in Dirs : ~quitting => signal[d] + OneOf(d) = IF pending[d] THEN 1 ELSE 0
    /\ \A d \in Dirs : signal[d] <= 1

IInv == TypeOK /\ PhaseOK /\ ThreadsOK /\ QuietOK /\ NoLostCompletion
=============================================================================
