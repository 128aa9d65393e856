# Basilisk II in TLA+

Basilisk II runs MacOS on an emulated 68k. One thread, the *emulator thread*,
executes the Mac code and, through the EMUL_OP opcodes, the C++ code that replaces
the Mac's hardware and parts of its system software. Other threads of the host wait
for devices: they leave a result somewhere, set an interrupt flag and make the
emulator thread take a level 1 interrupt. Nearly everything that is hard to get right
in this program is in this exchange, and these modules are about it.

Conventions: paths are relative to `src/src`; "TECH" is `src/TECH`. "Mac code" is
what the emulated 68k executes, MacOS included. It is the environment of the models.

## 1. Inventory

### Threads and how they meet

| Thread | Code | What it shares with the emulator thread |
| --- | --- | --- |
| emulator | `uae_cpu_2020/newcpu.cpp`, all drivers | everything |
| 60 Hz tick | `Unix/main_unix.cpp` | `InterruptFlags`, `regs.spcflags` |
| XPRAM watchdog | `Unix/main_unix.cpp` | `XPRAM`, its file |
| redraw and input | `Unix/video_x.cpp` | frame buffer and its lock, the driver object, state of `adb.cpp`, the drives (Ctrl-F1) |
| serial input, serial output | `Unix/serial_unix.cpp` | `read_pending`, `read_done`, ..., `io_killed` |
| packet reception (and slirp) | `Unix/ether_unix.cpp` | the device, `int_ack` |
| sound streaming | `Unix/audio_oss_esd.cpp` | `AudioStatus`, a block in Mac memory, `audio_irq_done_sem` |

The exchange is always the same: the thread records its event, calls
`SetInterruptFlag()` and `TriggerInterrupt()`; the level 1 handler of the ROM executes
`M68K_EMUL_OP_IRQ` (`emul_op.cpp`), which clears one flag after the other and calls
`TimerInterrupt()`, `SerialInterrupt()`, `EtherInterrupt()`, `AudioInterrupt()` or
`ADBInterrupt()`. These call Mac code in turn (`Execute68k()`), in which interrupts
can nest. A restart of MacOS is the opcode `M68K_EMUL_OP_RESET`: it calls
`TimerReset()`, `EtherReset()` and `AudioReset()`, while the threads go on.

### Components

| Component | State | Operations | What is hard | What makes it correct |
| --- | --- | --- | --- | --- |
| Interrupt delivery | `InterruptFlags`, `regs.spcflags`, interrupt mask, 68k stack | `SetInterruptFlag`, `TriggerInterrupt`, `m68k_do_specialties`, STOP, `M68K_EMUL_OP_IRQ`, `Execute68k` | flags shared without a lock; nested interrupts; an interrupt on the return of a callback | no flag, event or wake-up is lost; the stack is balanced; every event is served |
| Serial driver | pending, done and killed flags, Deferred Tasks, two semaphores | Open, Prime, KillIO, Close, two threads, `SerialInterrupt` | flags set by three parties; KillIO against a thread that is finishing; close while threads block | each request is executed and reported once; close returns |
| Sound output | open counts, sources, the data area, thread state, a semaphore | component calls, format changes, streaming thread, `AudioInterrupt` | a thread reads the block in Mac memory; thread restarts; reset | a request is answered exactly once, unless the interrupt goes astray after a restart; blocks are not replaced while they play |
| Time Manager | descriptors, the records of tasks in Mac memory | `InsTime`, `RmvTime`, `PrimeTime`, the 60 Hz pass, reset | tasks change the table under the pass, passes interrupt passes | one descriptor per task, the right time, called once and in the end |
| Ethernet driver | protocol handlers, driver data, packet buffer, `int_ack` | attach, detach, open, reset, reception thread, `EtherInterrupt` | handlers that allow interrupts use the one packet buffer; runts; slirp's pipe | one packet at a time; every packet looked at; nothing of an earlier session used |
| ADB Manager | state of the mouse, key ring, protocol | mouse and key events, modes, `ADBOp`, `ADBInterrupt` | a ring without a lock, a position that is added to and cleared | keys in order, buttons and position as they are, movement neither lost nor doubled |
| Video driver | driver object, frame buffer lock, cancellation and its acknowledgement, suspension | mode changes, `VideoInterrupt`, redraw thread, suspend and resume, emergency quit, exit | the life cycle of the thread, a lock that is handed over by unlocking it for a moment | a suspended Mac does not run; no thread outlives its display; closing returns |
| PRAM | `XPRAM`, the watchdog's copy, the file | writes of MacOS, watchdog, save at exit | compared, copied and written while it changes; the save at exit against the watchdog | every change gets into the file, the last ones too |
| Floppy, disk, CD-ROM | drive numbers, status records, `to_be_mounted`, `acc_run_called` | Open, periodic Control, 1 Hz interrupt, eject, Ctrl-F1 | the interrupt gets into the periodic call; a restart tells the drivers nothing; memory runs out | a request reaches its drive; a medium is announced once, for a drive MacOS knows; a disc in place stays |
| SCSI Manager | phase, target, direction, scatter/gather table | Get, Select, Cmd, Read, Write, Complete, TIB programs | programs that change themselves, counts of 0, merged transfers, a full table | what is sent is what the TIBs asked for; every loop ends |
| External file system | IDs of files, open files | FSP and HFS calls | MacOS' file system in the middle of calls | IDs stay valid |
| Start-up and shutdown | which threads run | `InitAll`, `ExitAll`, `QuitEmulator` | the order in which threads are stopped and state is saved | XPRAM is saved after the last thread that writes it; who wants to quit does |
| ROM and resource patches, slot ROM, CPU engine, clipboard, preferences, device access, host memory, slirp, other platforms | see `PROJECT.json` | | | not concurrent, pure data or foreign |

`PROJECT.json` lists every component with its sources, and under `hazards` the lines
where this code can go wrong in a way a test would hardly reach, each with the
properties that would show it.

## 2. Modules

| Component | Specification | TLC | Proofs |
| --- | --- | --- | --- |
| Interrupt delivery | `Interrupts` | `MCInterrupts` | `InterruptsProofs` |
| Serial driver | `SerialRequests` (abstract), `SerialPort` | `MCSerialPort` | `SerialPortProofs` |
| Sound output | `AudioStream` | `MCAudioStream` | `AudioStreamProofs` |
| Time Manager | `MacTime` (arithmetic), `Alarms` (abstract), `TimeManager` | `MCTimeManager` | `TimeManagerProofs` |
| Ethernet driver | `Ethernet` | `MCEthernet` | `EthernetProofs` |
| ADB Manager | `Adb` | `MCAdb` | `AdbProofs` |
| Video driver, PRAM, exit | `Video`, `Xpram`, composed by `Shutdown` | `MCShutdown` | `ShutdownProofs` |
| Floppy, disk, CD-ROM | `Drives` | `MCDrives` | `StorageProofs` |
| SCSI Manager | `Scsi` | `MCScsi` | `StorageProofs` |

**Granularity.** A step of a host thread or of the emulator thread is what it does up
to the next access to something the other one sees, or the next point at which it can
block. A driver call on the emulator thread is one step as long as it calls no Mac
code: only there can an interrupt come in between. What the user can spoil at any moment
is split, too: in `Drives` the test for a disc and its lock. Where a call does execute Mac code
(a Memory Manager trap, a handler, a task) it is split at that point, and the locals it
keeps across it are variables.

**`Interrupts`** is the link the other modules stand on. `Threads` run `Post`,
`SetInterruptFlag`, `TriggerInterrupt` (with the wake-up of the idle sleep); the CPU
runs `m68k_do_specialties()`, the STOP loop, changes of the mask, exception entry and
RTE; an EMUL_OP saves stack and mask, tests each flag, clears it, runs the handler, may
call Mac code and restores. In builds without `ENABLE_EXCLUSIVE_SPCFLAGS` an update of
`regs.spcflags` is a load and a store (`TriggerStore`, `CpuStore`): the constant
`Exclusive` chooses. The other modules have one variable `flag` for their own
interrupt flag and a step that takes it. That this step comes is
`Interrupts!EventServed`; that no event is overlooked is `NoLostEvent`.

**`SerialPort`** models one port: the driver calls, `SerialInterrupt()`, the Deferred
Tasks in the queue of MacOS and the two threads. `SerialRequests` says in 29 lines what
this machinery is for: a request is running, finished, posted and completed, or
aborted. The refinement mapping `request` computes this state from the pending and
done flags and the queue. `RequestProtocol` is the abstract specification as a property.
With `KillUsed` the client calls KillIO; with `CloseBusy` it closes the port with a
request outstanding. The runs and the theorems leave that out (section 5, 7).

**`AudioStream`** has the Sound Manager calls that change state, `AudioInterrupt()` and
the streaming thread with its semaphore. `Reformat` and `Restarts` let the client
change the format and restart MacOS. `AudioReset()` forgets the data area, but not that a
mixer is open: until the component is opened again `AudioInterrupt()` executes low memory
(`irq = "lost"`), from which it may or may not return (`LowMemoryReturns`, without fairness).

**`MacTime`** has host times (seconds and nanoseconds) and the conversion from and to the
millisecond and microsecond delays of MacOS; **`TimeManager`** the table, the three traps
and the pass, of which up to `MaxNest` can be on top of each other. The position of a
pass and the time it read at its start are its locals. **`Alarms`** is what all this is for, in a
specification without table, passes or seconds: a task is removed, idle or waiting for a number
of nanoseconds, rings only while it waits and after that time, and says when it is removed what
was left. The refinement mapping (`alarm`, `alarmTime`) looks a task up in the table;
`AlarmClock` is the abstract specification as a property. That a task rings in the end is
`TaskRuns`. Extended tasks may be primed for any time in `Alarms` (section 5, 4).

**`Ethernet`** has the device as a queue of packet types, the reception thread and
`EtherInterrupt()`, in which a protocol handler runs as Mac code. `Slirp` makes the
device a pipe: one `read()` takes any number of the packets in it.

**`Adb`** has the input thread's calls and `ADBInterrupt()` cut at each use of shared
data. Key events are numbered, so that order can be stated; `host` and `sent` add up the
movement on both sides. One coordinate stands for two. What MacOS has been given is kept apart from
what `old_mouse_x` and `old_mouse_button` say it was given: the position in its variables (`cursor`,
empty when a relative movement has taken the cursor away), and the buttons (`told`, `short`), of which
the 100/200 dpi protocol has no bit for the third.

**`Video`** is the life of the display: the emulator thread opens and closes it, owns
`frame_buffer_lock` and gives it up for a moment in `VideoInterrupt()`, where the redraw
thread can take it to suspend the Mac. Between `close` and `unlock` each step of
`video_close()` is one the redraw thread can come between. The redraw thread may delete
the driver object under the emulator thread (`drv = "quit"`); what that thread then does
with it is undefined behaviour and not in the model.
**`Xpram`** compares, copies and writes byte after byte, with the places at which
`pthread_cancel()` takes effect; that the file can be opened and written is assumed.
**`Shutdown`** composes the two: XPRAM changes while Mac code runs, and
`QuitEmulator()` stops the 60 Hz thread, then the watchdog, saves XPRAM and closes the
display. `MacCode`, `InVideo` and `Quit` are the emulator thread, the other disjuncts of
`Next` one thread each, and the user.

**`Drives`** has the three drivers in one module, since they share their scheme:
`drives` holds their vectors one after the other, and the definitions ask for the driver
where they differ. `Open()` gives each drive a number and a status record, one drive a
step; for a disc in a CD-ROM drive the lock is a step of its own (`LockDrive`), as it is in
`CDROMMountVolume()` (`Check`, `MountVolume`), since the user can be faster. Ctrl-F1 is three steps of the
redraw thread: the test, the write into the status record, the flag. `Contexts` are the two places that run `mount_mountable_volumes()`, the
periodic call and the interrupt, each with the drives it still has to look at; the
interrupt gets into the call only in traps (`InTrap`). A restart keeps everything the
drivers keep, and makes the status records memory of somebody else, of which anything may
be read. The floppy driver's third status of a drive ("accessed") is the same as "in
place" for what is modelled.

**`Scsi`** has the phases and an interpreter for TIBs: memory is a row of cells, an instruction
has three, and instructions write into cells (`scMove`, `scAdd`, a loop's count).
Mac numbers and addresses wrap at `Width` (2^32 in the code), and all `Width` cells exist, so
that a program may run or write anywhere; the host pointers in the table do not wrap. `Unrolled` is the reference definition of a loop:
what it transfers in all its rounds. Calls that are refused for the phase change
nothing and are left out.

Variables whose comment says "history" are not in the program: no guard
reads them, except where they carry a bound.

## 3. What is checked

| Run | Shows | Distinct states |
| --- | --- | --- |
| `interrupts_exclusive` | with atomic special flags no wake-up, event or stack frame is lost, and every event is served | 285,016 |
| `interrupts_default` | the default build, with its unsynchronised flags, keeps the 68k stack balanced | 1,030,605 |
| `serial` | the request protocol, termination of requests, of close and of an open that is undone | 760 |
| `serial_kill` | *violation*: KillIO against a thread that is finishing | |
| `audio` | the exchange of blocks with format changes and restarts, up to the interrupt that goes astray | 2,282 |
| `audio_format` | *violation*: no sound after the first change of format | |
| `timer` | tasks that change the table during passes that are interrupted by passes: what the program sees is the alarm clock of `Alarms` | 469,315 |
| `ethernet` | one packet at a time, none lost, handlers only of this session, every packet looked at | 10,235 |
| `adb` | keys in order, buttons and position MacOS was given up to date, the account of movement | 14,734,992 |
| `shutdown` | a suspended Mac stands still, threads and display end together or hang in one of two known ways, XPRAM is saved, while running and at exit | 323,872 |
| `drives` | requests reach their drive, media are announced once and for a drive that exists, a disc in place is held | 536,347 |
| `scsi` | the scatter/gather table and its length are what the TIBs asked for, loops do all their rounds and end | 695,875 |

### Bounds, and why they are enough

- *Interrupts*: two threads and two flags, so that a flag can be raised while another
  one's handler runs; two nested EMUL_OPs, enough for an interrupt in a callback
  of a handler. The default build is checked with one thread: two sides of an
  unsynchronised update are enough, and the theorem covers more.
- *Serial*: both directions of one port. Nothing is cut off: the state space is finite.
- *Sound*: two opens and two sources, the least for "not the last one".
- *Time Manager*: three tasks, one of them extended, compete for two descriptors, so
  that a task finds none and descriptors change hands; two nested passes. Times are
  multiples of half a second, and `MaxClock` and `Horizon` cut the clock and the wake-up
  times off. They are too small for a carry or for a rest too long for microseconds: for these there are
  the theorems about the arithmetic (section 4).
- *Ethernet*: four packets, two kinds of type (802.2 packets share an entry) and runts;
  room for two nested interrupts, which `OnePacket` shows is never used.
- *Shutdown*: an XPRAM of two bytes with two values each, so that a change comes between
  two bytes of a comparison, a copy or a write, and can be taken back. Nothing is cut off.
- *Drives*: three configurations, which between them have each driver and each kind of medium, two drives of
  one driver, floppies in polled and unpolled drives, and three drives at once. They are not every pair of
  drivers: disk drives are only with each other, which the theorems make up for. Number
  of restarts, failed allocations and changes of media are not limited.
- *SCSI*: numbers of 16 values, so that a count of 0 really runs 16 rounds; a table of four
  entries, and up to four transfers before a TIB is started (`MaxTransfers`), so
  that the table overflows inside one. The TIBs are loops over one and two transfers
  with and without moving addresses, and programs that write into themselves.
- *ADB*: a ring of three slots and three keys, so that it goes round and overflows;
  two movements, each to one of two positions or by one point, which together do not fit a
  protocol of range 4; a button that every
  protocol has and one that 100/200 dpi does not have; two changes of mode, so that the mouse gets into
  relative mode and back.

### Fairness

All liveness is under weak fairness of the steps of running threads: they are loops
that end only when they are told to. What goes beyond that:

- `Interrupts`: Mac code unmasks level 1 again and again for more than an instruction
  (`SetSR(0)`, a plain instruction at mask 0) and its callbacks return. These are strong, as
  interrupts can disable them in between; the code itself does not ensure them, any Mac
  program that behaves does. The ticker goes on ticking.
- `SerialPort`: devices answer in the end, and MacOS runs a queued Deferred Task
  whenever it is back at level 0: strong, because interrupts keep interrupting that.
- `TimeManager`: a called task returns in spite of the passes that interrupt it: strong
  for the same reason.
- `AudioStream`, `Ethernet`: their interrupt is taken, as `EventServed` says of them.
- `Shutdown`: threads that can run do; what MacOS calls and what the user types is not
  fair, it may never come.
- `Drives`: the 1 Hz interrupt comes again and again (it is raised by the 60 Hz thread), and emulator
  routines end. MacOS need not make its periodic call; the property is about the time after it.
- `Scsi`: `exec_tib()` runs on.

Deadlock is checked except where the system really stops: `serial` (the port is closed)
and `shutdown` (the program has exited, or hangs as `ClosesOrHangs` describes).

In the default build `EventServed` does not hold (section 5, 3).

## 4. What is proved

Each theorem holds for all values of the constants that satisfy the assumptions
of its module. The assumptions are only that bounds are numbers of the right sign, that a "no such thing"
value is not a thing, for `Adb` that the range of one protocol divides that of the
other (128 and 1024 in the code), and for `TimeManager` that delays are 32 bit numbers
of MacOS and that the clock of the host does not go back, and for `Scsi` that a word can hold the
operation codes and that a loop, with the instructions that end it, fits into memory.

| Module | Theorems | Invariant, and why it is needed |
| --- | --- | --- |
| `InterruptsProofs` | `TypeCorrect`, `EventsKept`, `StackKept`; `WakeupsKept` for exclusive builds | `StackBalanced` speaks of depth 0. `SavedOK` and `StackOK` say for every depth that an EMUL_OP saved at least what its callers hold; `MaskOK` that a handler runs masked, so that there is one frame; `ControlOK` ties program counter and depth together. `NoLostWakeup` needs in addition that no update is split (`AtomicOK`). |
| `SerialPortProofs` | `TypeCorrect`, `RequestsSafe`, `Refinement`, for clients that close idle ports | `PhaseOK` and `ThreadsOK` say which threads exist in which phase of open and close; `QuietOK` where a request is: semaphore, thread, done or queued, only one of them. The refinement goes through the actions: each is a step of the protocol or a stutter. |
| `AudioStreamProofs` | `TypeCorrect`, `BlockExchange`, `DataKept` | `Handshake` speaks of a waiting thread. `StreamOK` adds what remains of a request when the thread is cancelled. |
| `TimeManagerProofs` | `TypeCorrect`, `OneDescriptor`, `OnTime`, `CalledOnce`, `RoomForTasks`, `ImplementsAlarms`; of the arithmetic `CompareOrders`, `SubUndoesAdd`, `RoundTrip` | `UniqueDesc` is part of the invariant of `Scheduled`: with two descriptors priming would reach only one. `PassOK`: a pass that calls a task stands at a descriptor. `OncePerPass` needs a relation between passes and tasks (`OnceInv`): the time a pass has read is not after the clock, and a task it has called is not primed, or waits for a time that is not before the one the pass has read and is therefore not due for it. Extended tasks, whose time may lie in the past, are exempt. The refinement goes through the actions: with one descriptor per task each changes the alarm of one task (`AlarmBecomes`), `OnceInv` says that what is due for a pass is due for the clock, and normalised times add, compare and round as their nanoseconds do (`NanosOf`, `NanosOfDelay`, `NanosLeft`). |
| `EthernetProofs` | `TypeCorrect`, `OneAtATime`, `RequestUnderWay`, `HandlersLive`; `NothingLost` without slirp | `Handshake` counts flag, handler and semaphore; that the sum is at most 1 is what keeps a second `EtherInterrupt()` away, so `OnePacket` follows. |
| `AdbProofs` | `TypeCorrect`, `KeysOrdered`, `NothingForgotten`, `MotionAccount` | The pointers are the numbers of keys taken and stored modulo the size of the ring (`StoredOK`, `RingOK`), and between the two the slot of `k` holds key `k + 1`. The rest says that whatever MacOS does not know yet is about to be looked at (`KeysSeen`, `ButtonsSeen`, `PositionSeen`), and that a new mode starts from zero (`ModeOK`). `Told` and `CursorKnown` relate what MacOS was given to what the code remembers of it: the buttons but for the third, and the position, if a relative movement has not taken the cursor away since. |
| `ShutdownProofs` | `TypeCorrect`, `SuspensionStops`, `ThreadHasDriver`, `ExitSaves` | `LockOK`: who owns the frame buffer lock follows from where the two threads are; `ThreadOK`: a redraw thread is marked active, and there is none once `video_close()` has joined it. `SaveInv`: in the last steps of `QuitEmulator()` the watchdog is gone, so that nobody writes after `SaveXPRAM()`. |
| `StorageProofs`, drives | `TypeCorrect`, `RequestsArrive`, `OneAnnouncement`, `DiscStays`, `EventsForDrives` | `OrderOK` says what is open and running when: while the periodic call of a driver is under way its `need_time` is set and its `acc_run_called` is not, so that call and interrupt never look at the same drive (`LoopsApart`). `NumbersOK`, `AnnouncedOK` and `HeldOK` rest on it. `HeldOK` says that a disc in place is in a locked drive, or MacOS has given the user leave: it holds because the lock comes before the mark in the status record, whatever the user did between test and lock. That `FindFreeDriveNumber()` finds a number at all is a pigeonhole argument, on which even the types depend. |
| `StorageProofs`, SCSI | `ScsiInvariant`, `TableIs`, `TotalIs`, `EveryRound` | `TableOK` relates the table to the transfers, not to the TIB: up to 4 GB it has the same bytes in the same order, however entries were merged, and `TotalOK` relates the length to the table from `SCSIGet()` on. `RunOK` follows a loop through the memory that it changes: how many rounds are done and how far the current one has come determine the count, the advanced pointers and what has been transferred since the TIB was started. Sums and concatenations are recursive functions; what they compute is shown by the absence of a least counterexample (`UpTo`). |

Every proof has the same outline: one lemma per conjunct of the invariant with one
case per action, a lemma for the initial states, `Invariance`, and the theorems
as consequences.

Every invariant and every action property of a passing run is stated by a theorem. Only
model-checked are the liveness properties (`EventServed`, `RequestEnds`, `CloseReturns`,
`BlockDelivered`, `TaskRuns`, `PacketsRead`, `ClosesOrHangs`, `ChangesSaved`, `QuitSaves`,
`InsertedAnnounced`, `TibEnds`): they rest on fairness, for which the proof system has no rules
that fit.

## 5. Disagreements

Where the code does something else than a comment or the documentation says. The first two
are runs that end with a counterexample, described in `PROJECT.json` under `findings`;
the others are in the models and can be seen by changing a constant as described.

1. *`serial_kill`.* "KillIO called, I/O threads must not call deferred tasks": a thread
   that has just tested `io_killed` reports its request; KillIO then polls for a flag
   which only an interrupt on the polling thread could clear.
2. *`audio_format`.* "Streaming thread is always running": `close_audio()` sets
   `stream_thread_cancel` and nothing resets it, so the thread started after a change of
   format ends at once.
3. *Special flags* (`MCInterrupts` with `Exclusive = FALSE` and `EventServed`). TECH says that
   after `TriggerInterrupt()` the MacOS thread "will eventually end up in the level 1 interrupt
   handler". Without atomic special flags a stale store can set `SPCFLAG_STOP` again after the
   emulator cleared it, and the STOP loop spins with interrupts masked. What other modules say
   of liveness is therefore about builds in which `TriggerInterrupt()` is atomic.
4. *Extended tasks* (`Scheduled` stated of `Extended` tasks too). "relative to last scheduled
   time": the time is in the descriptor, the mark that there is one in the task, and they part
   when a task is removed.
5. *slirp* (`MCEthernet` with `Slirp = TRUE` and `EveryPacket`). Its packets go through
   a pipe without their lengths, and two that lie in it are taken for one.
6. *Closing the display.* `AckLost` and `LockCycle` of `Video` are the two ways in which
   `video_close()` can hang: the redraw thread answers between the request and the
   reset of the answer, or waits for the lock of the thread that joins it. `ClosesOrHangs`
   says that there is no third one; each alone makes it fail when it is taken out.
7. *Closing a busy port* (`MCSerialPort` with `CloseBusy = TRUE`): `DisposePtr()` is called with the port
   still open and a finished request still pending (`serial.cpp:218`), and the interrupt it lets
   in queues a Deferred Task whose memory was freed. Nothing says that a client may do so; no property
   speaks of it.
8. *Drives without memory.* With a status record that could not be allocated a number is given
   twice, and requests for one drive reach the other (`RequestsReachDrive` without `OutOfMemory`).

9. *A restart with the mixer open.* `AudioReset()` clears `audio_data` only. Sources go on being
   counted, the streaming thread asks for blocks and plays what it reads in low memory, and
   `AudioInterrupt()` runs code there (`audio_oss_esd.cpp:451`). `BlockDelivered` promises an answer unless
   that has happened; without its second disjunct TLC shows the thread waiting for ever.
10. *A position MacOS is not given.* `ADBInterrupt()` compares with the position it has passed on last
   (`adb.cpp:382`), which relative movement does not change. After a return from relative mode to that
   very position the cursor stays where the movement has left it. `NothingLeft` names the case
   (`host = old_mouse_x`); without it TLC finds it. The third button in 100/200 dpi is named in the same way.
11. *A disc lost between test and lock* (`cdrom.cpp:418`, `332`). The drive is locked empty, marked as
   in place and announced. `DiscHeld` is about discs that are there when they are in place.
12. *A flag that is lost.* Ctrl-F1 sets `to_be_mounted` on the redraw thread. If the emulator thread has
   just posted the event for the same drive, it clears the new flag with the old one
   (`disk.cpp:239`). When MacOS has ejected the disk in between, it is in place and is
   never announced; `InsertedAnnounced` leaves a pressed Ctrl-F1 (`key = d`) out.

`AudioStream` also reaches states the repository says nothing about, which its properties therefore
leave open: the streaming thread reading a data area that was disposed after it tested
`num_sources`, and sources that outlive the last close. `Adb` marks a position taken in one mode
and sent in the other (`mixed`) and exempts it. In `Drives` a fixed disk that is ejected
is announced again at once by the call itself (`disk.cpp:402`); `AnnouncedOnce` does not count this event.

## 6. Not modelled

- *Data*: pixels, samples, file contents, 68k instructions, texts.
- *Calls that keep no state here*: serial line configuration, sound volume and
  information queries, Ethernet transmission and statistics, the date, the LED and
  address registers of ADB.
- *Set-up of host devices* and its errors, other than those that change what follows
  (no memory for Deferred Tasks in `SerialOpen()`).
- *Other platforms and builds*: the models follow Unix with pthreads. Threads are
  arranged differently on AmigaOS, BeOS, Windows and MacOS X.
- *Memory order*: an update of shared data is seen by all threads at once. What the
  models call a race is an order of loads and stores, not a reordering of them.
- *Start-up*: `InitAll()` and the Exit routines other than those of XPRAM and the display run
  when no thread is there that could meet them.
- *Video*: drawing, palettes, cursors and the lists of modes; `Drives`: Prime, formats,
  partitions, CD audio; `Scsi`: commands, devices and the back ends of the host; `Xpram`:
  files that cannot be written, and `ZapPRAM()`.
- *External file system* (`extfs.cpp`): every call is one EMUL_OP and meets no thread. Its state is
  the tree of catalogue IDs and two file systems that are not here.
- *ROM and resource patches, preferences, clipboard, device access, host memory*: code
  generation at start-up, lists read once, text, I/O. The notes in `PROJECT.json` say more of each.
- *Other CPU engines and the JIT compiler*, most of the lines of the repository: generated or
  foreign code that computes data, in which interrupts are handled as in `newcpu.cpp`.

## 7. Plan

The order is that of importance for the system as a whole.

1. *Done*: `Interrupts`, then the components that live on it, `SerialPort`,
   `AudioStream`, `TimeManager`, `Ethernet`, `Adb`, each with its proofs.
2. *Done*: `Video`, `Xpram` and their composition `Shutdown`; `Drives`; `Scsi`; proofs for the first
   two; `OncePerPass` for `TimeManager`.
3. An abstract `EventDelivery` (posted, flagged, handled) which `Interrupts` implements
   and from which the flags of the other modules are taken, so that the step
   "the interrupt is taken" is the same definition everywhere.
4. `Video` composed with `Adb`, whose input thread is the redraw thread: today key events go on
   in `Adb` while `Video` closes the display.
5. The serial port through the exit of the program, and a second port on the same flag.
6. *Done*: the proofs for `Scsi`, with its table as recursive functions; `Alarms` and its
   refinement by `TimeManager`. Left: the refinement of 3.
7. `extfs.cpp`, if a property is found that is not one of the file systems on both sides.

To keep the whole quick to check, new runs take the place of weaker ones: one run per
question, and a question answered by a theorem needs only a small instance.
