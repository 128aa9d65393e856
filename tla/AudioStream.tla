---------------------------- MODULE AudioStream -----------------------------
(***************************************************************************)
(* Sound output: the Sound Manager component (AudioDispatch, audio.cpp)    *)
(* on the emulator thread and the streaming thread that writes blocks to   *)
(* the audio device (Unix/audio_oss_esd.cpp).                              *)
(*                                                                         *)
(* While a source is playing, the streaming thread asks for each block     *)
(* with INTFLAG_AUDIO and waits for audio_irq_done_sem; AudioInterrupt()   *)
(* gets the block from the Apple Mixer, leaves it in the component's data  *)
(* area (audio_data) and posts the semaphore.                              *)
(***************************************************************************)
EXTENDS Naturals

CONSTANTS
    MaxOpen,        \* bound on nested opens of the component
    MaxSources,     \* bound on the sources of the mixer
    Reformat,       \* the client changes rate, size or channels
    Restarts        \* MacOS is restarted

ASSUME MaxOpenAssumption == MaxOpen \in Nat \ {0}
ASSUME MaxSourcesAssumption == MaxSources \in Nat \ {0}
ASSUME ReformatAssumption == Reformat \in BOOLEAN
ASSUME RestartsAssumption == Restarts \in BOOLEAN

VARIABLES
    audio_data,     \* the data area: "none" (0), "live", or "freed"
    mixer,          \* AudioStatus.mixer # 0
    num_sources,    \* AudioStatus.num_sources
    open_count,     \* open/close nesting
    audio_open,     \* the audio device is open
    streamInfo,     \* adatStreamInfo: the mixer left a block there
    active,         \* stream_thread_active
    cancel,         \* stream_thread_cancel
    tpc,            \* where the streaming thread is
    sem,            \* audio_irq_done_sem
    flag,           \* INTFLAG_AUDIO
    pc,             \* where the emulator thread is
    irq             \* AudioInterrupt() on top of that: "none", "enter", in the
                    \* 68k routine of the data area ("fetch"), or astray ("lost")

component == << audio_data, mixer, num_sources, open_count >>
stream == << active, cancel, tpc >>
vars == << component, audio_open, streamInfo, stream, sem, flag, pc, irq >>

DataArea == {"none", "live", "freed"}
StreamPC == {"none", "top", "raise", "wait", "read", "write", "ended"}
\* "newptr", "dispose": in a Memory Manager trap; "openmixer", "closemixer": in
\* the Sound Manager; "join": in close_audio().
EmuPC == {"mac", "newptr", "openmixer", "closemixer", "dispose", "join"}

\* AudioInit() with a working device.
Init ==
    /\ audio_data = "none"
    /\ mixer = FALSE
    /\ num_sources = 0
    /\ open_count = 0
    /\ audio_open = TRUE
    /\ streamInfo = FALSE
    /\ active = TRUE
    /\ cancel = FALSE
    /\ tpc = "top"
    /\ sem = 0
    /\ flag = FALSE
    /\ pc = "mac"
    /\ irq = "none"

-----------------------------------------------------------------------------
(* The component, AudioDispatch() *)

Calling == pc = "mac" /\ irq = "none"

\* The client has the component open; after a restart it has to open it first.
Opened == open_count > 0 /\ audio_data = "live"

\* kComponentOpenSelect allocates the data area if there is none.
Open ==
    /\ Calling
    /\ open_count < MaxOpen
    /\ \/ /\ audio_data = "none"
          /\ pc' = "newptr"
          /\ UNCHANGED open_count
       \/ /\ audio_data # "none"
          /\ open_count' = open_count + 1
          /\ UNCHANGED pc
    /\ UNCHANGED << audio_data, mixer, num_sources, audio_open, streamInfo, stream, sem, flag, irq >>

NewPtrReturns ==
    /\ pc = "newptr"
    /\ irq = "none"
    /\ pc' = "mac"
    /\ \/ /\ audio_data' = "live"
          /\ streamInfo' = FALSE
          /\ open_count' = open_count + 1
       \/ UNCHANGED << audio_data, streamInfo, open_count >>
    /\ UNCHANGED << mixer, num_sources, audio_open, stream, sem, flag, irq >>

\* Mutant of Close: the data area is disposed whatever the nesting count.
CloseAlways ==
    /\ Calling
    /\ Opened
    /\ open_count' = open_count - 1
    /\ pc' = IF mixer THEN "closemixer" ELSE "dispose"
    /\ UNCHANGED << audio_data, mixer, num_sources, audio_open, streamInfo, stream, sem, flag, irq >>

\* kComponentCloseSelect: the last one closes the mixer or, if there is none,
\* disposes the data area.
Close ==
    /\ Calling
    /\ Opened
    /\ open_count' = open_count - 1
    /\ pc' = IF open_count > 1 THEN "mac" ELSE IF mixer THEN "closemixer" ELSE "dispose"
    /\ UNCHANGED << audio_data, mixer, num_sources, audio_open, streamInfo, stream, sem, flag, irq >>

\* Closing the mixer is all that is done then: the data area is kept and the
\* sources are still counted.
CloseMixerReturns ==
    /\ pc = "closemixer"
    /\ irq = "none"
    /\ mixer' = FALSE
    /\ pc' = "mac"
    /\ UNCHANGED << audio_data, num_sources, open_count, audio_open, streamInfo, stream, sem, flag, irq >>

DisposePtr ==
    /\ pc = "dispose"
    /\ irq = "none"
    /\ audio_data = "live"
    /\ audio_data' = "freed"
    /\ UNCHANGED << mixer, num_sources, open_count, audio_open, streamInfo, stream, sem, flag, pc, irq >>

DisposeReturns ==
    /\ pc = "dispose"
    /\ irq = "none"
    /\ audio_data = "freed"
    /\ audio_data' = "none"
    /\ num_sources' = 0
    /\ pc' = "mac"
    /\ UNCHANGED << mixer, open_count, audio_open, streamInfo, stream, sem, flag, irq >>

\* kSoundComponentInitOutputDeviceSelect opens the Apple Mixer.
InitOutputDevice ==
    /\ Calling
    /\ Opened
    /\ audio_open
    /\ ~mixer
    /\ streamInfo' = FALSE
    /\ pc' = "openmixer"
    /\ UNCHANGED << component, audio_open, stream, sem, flag, irq >>

OpenMixerReturns ==
    /\ pc = "openmixer"
    /\ irq = "none"
    /\ mixer' \in BOOLEAN
    /\ pc' = "mac"
    /\ UNCHANGED << audio_data, num_sources, open_count, audio_open, streamInfo, stream, sem, flag, irq >>

\* Sources are added to, and removed from, the mixer GetSource returned.
AddSource ==
    /\ Calling
    /\ Opened /\ mixer
    /\ num_sources < MaxSources
    /\ num_sources' = num_sources + 1
    /\ UNCHANGED << audio_data, mixer, open_count, audio_open, streamInfo, stream, sem, flag, pc, irq >>

RemoveSource ==
    /\ Calling
    /\ Opened /\ mixer
    /\ num_sources > 0
    /\ num_sources' = num_sources - 1
    /\ UNCHANGED << audio_data, mixer, open_count, audio_open, streamInfo, stream, sem, flag, pc, irq >>

\* AudioSetInfo() with a new format, and no source: audio_set_sample_rate()
\* etc. close the device, the streaming thread with it ...
SetFormat ==
    /\ Calling
    /\ Reformat
    /\ open_count > 0
    /\ num_sources = 0
    /\ cancel' = (cancel \/ active)
    /\ audio_open' = FALSE
    /\ pc' = "join"
    /\ UNCHANGED << component, streamInfo, active, tpc, sem, flag, irq >>

\* ... which ends in the test of stream_thread_cancel, or in sem_wait() or
\* write() because of pthread_cancel().
Join ==
    /\ pc = "join"
    /\ active
    /\ tpc \in {"top", "wait", "write", "ended"}
    /\ tpc' = "none"
    /\ active' = FALSE
    /\ UNCHANGED << component, audio_open, streamInfo, cancel, sem, flag, pc, irq >>

\* ... and open_audio() starts a new one if the device can be opened.
OpenAudio ==
    /\ pc = "join"
    /\ ~active
    /\ pc' = "mac"
    /\ \/ /\ audio_open' = TRUE
          /\ tpc' = "top"
          /\ active' = TRUE
       \/ UNCHANGED << audio_open, tpc, active >>
    /\ UNCHANGED << component, streamInfo, cancel, sem, flag, irq >>

\* M68K_EMUL_OP_RESET calls AudioReset(), which forgets the data area and
\* nothing else: the mixer counts as open, the sources go on.
AudioReset ==
    /\ Calling
    /\ Restarts
    /\ audio_data' = "none"
    /\ UNCHANGED << mixer, num_sources, open_count, audio_open, streamInfo, stream, sem, flag, pc, irq >>

-----------------------------------------------------------------------------
(* The audio interrupt *)

\* It is served whenever the emulator thread executes 68k code.
TakeInterrupt ==
    /\ pc # "join"
    /\ irq = "none"
    /\ flag
    /\ flag' = FALSE
    /\ irq' = "enter"
    /\ UNCHANGED << component, audio_open, streamInfo, stream, sem, pc >>

\* Execute68k() at adatGetSourceData: without a data area that is in low memory.
GetSourceData == irq' = IF audio_data = "none" THEN "lost" ELSE "fetch"

\* Mutant of AudioInterrupt: without a mixer the semaphore is not posted.
InterruptSilent ==
    /\ irq = "enter"
    /\ IF mixer THEN GetSourceData ELSE irq' = "none"
    /\ streamInfo' = (mixer /\ streamInfo)
    /\ UNCHANGED << component, audio_open, stream, sem, flag, pc >>

\* AudioInterrupt() asks the mixer or, without a mixer, clears the block.
AudioInterrupt ==
    /\ irq = "enter"
    /\ IF mixer THEN GetSourceData /\ UNCHANGED << streamInfo, sem >>
                ELSE irq' = "none" /\ streamInfo' = FALSE /\ sem' = sem + 1
    /\ UNCHANGED << component, audio_open, stream, flag, pc >>

\* GetSourceData() returns, with or without a block.
SourceDataReturns ==
    /\ irq = "fetch"
    /\ streamInfo' \in BOOLEAN
    /\ sem' = sem + 1
    /\ irq' = "none"
    /\ UNCHANGED << component, audio_open, stream, flag, pc >>

\* Whatever is executed in low memory may return, and AudioInterrupt() goes on;
\* or it never does.
LowMemoryReturns ==
    /\ irq = "lost"
    /\ streamInfo' \in BOOLEAN
    /\ sem' = sem + 1
    /\ irq' = "none"
    /\ UNCHANGED << component, audio_open, stream, flag, pc >>

-----------------------------------------------------------------------------
(* The streaming thread, stream_func() *)

\* Nothing to play: write() silence.
Top ==
    /\ tpc = "top"
    /\ tpc' = IF cancel THEN "ended" ELSE IF num_sources # 0 THEN "raise" ELSE "write"
    /\ UNCHANGED << component, audio_open, streamInfo, active, cancel, sem, flag, pc, irq >>

Raise ==
    /\ tpc = "raise"
    /\ flag' = TRUE
    /\ tpc' = "wait"
    /\ UNCHANGED << component, audio_open, streamInfo, active, cancel, sem, pc, irq >>

\* Mutant of SemWait: the thread does not wait for the block.
SemSkip ==
    /\ tpc = "wait"
    /\ sem' = IF sem > 0 THEN sem - 1 ELSE 0
    /\ tpc' = "read"
    /\ UNCHANGED << component, audio_open, streamInfo, active, cancel, flag, pc, irq >>

SemWait ==
    /\ tpc = "wait"
    /\ sem > 0
    /\ sem' = sem - 1
    /\ tpc' = "read"
    /\ UNCHANGED << component, audio_open, streamInfo, active, cancel, flag, pc, irq >>

\* The block streamInfo points to, or silence, is written to the device. Without
\* a data area the thread plays what it finds in low memory.
ReadInfo ==
    /\ tpc = "read"
    /\ tpc' = "write"
    /\ UNCHANGED << component, audio_open, streamInfo, active, cancel, sem, flag, pc, irq >>

Write ==
    /\ tpc = "write"
    /\ tpc' = "top"
    /\ UNCHANGED << component, audio_open, streamInfo, active, cancel, sem, flag, pc, irq >>

-----------------------------------------------------------------------------

Streaming == Top \/ Raise \/ SemWait \/ ReadInfo \/ Write

Interrupting == TakeInterrupt \/ AudioInterrupt \/ SourceDataReturns

Dispatching ==
    \/ Open \/ NewPtrReturns \/ Close \/ CloseMixerReturns \/ DisposePtr \/ DisposeReturns
    \/ InitOutputDevice \/ OpenMixerReturns \/ AddSource \/ RemoveSource
    \/ SetFormat \/ Join \/ OpenAudio \/ AudioReset

Next == Dispatching \/ Interrupting \/ LowMemoryReturns \/ Streaming

Spec == Init /\ [][Next]_vars

\* Interrupts are served, the threads run and 68k routines return; what
\* AudioInterrupt() finds in low memory need not.
Fairness == WF_vars(Streaming) /\ WF_vars(Interrupting) /\ WF_vars(Join) /\ WF_vars(OpenAudio)

FairSpec == Spec /\ Fairness

-----------------------------------------------------------------------------
(* Properties *)

\* Every variable has its type; the semaphore never counts two blocks.
TypeOK ==
    /\ audio_data \in DataArea
    /\ mixer \in BOOLEAN
    /\ num_sources \in 0 .. MaxSources
    /\ open_count \in 0 .. MaxOpen
    /\ audio_open \in BOOLEAN
    /\ streamInfo \in BOOLEAN
    /\ active \in BOOLEAN
    /\ cancel \in BOOLEAN
    /\ tpc \in StreamPC
    /\ sem \in 0 .. 1
    /\ flag \in BOOLEAN
    /\ pc \in EmuPC
    /\ irq \in {"none", "enter", "fetch", "lost"}

\* While the streaming thread waits, its request is in exactly one place: the
\* interrupt flag, the handler or the semaphore (stream_func(),
\* AudioInterrupt()).
Handshake ==
    tpc = "wait" =>
      (IF flag THEN 1 ELSE 0) + (IF irq # "none" THEN 1 ELSE 0) + sem = 1

\* The mixer never replaces a block the thread is reading or writing.
ExclusiveBlock == irq # "none" => tpc \notin {"read", "write"}

\* The data area is disposed only when neither the component nor the mixer is
\* open: their calls, and audio interrupts, go through code in it.
DisposedUnused ==
    [][audio_data = "live" /\ audio_data' = "freed" => open_count = 0 /\ ~mixer]_vars

\* Every block that is asked for is delivered (audio_irq_done_sem), unless MacOS
\* was restarted with the mixer open and AudioInterrupt() has gone astray.
BlockDelivered == tpc = "wait" ~> tpc # "wait" \/ irq = "lost"

\* "Streaming thread is always running" (audio_enter_stream()): a thread that
\* was started and not cancelled since does not end.
AlwaysRunning == active /\ pc = "mac" => tpc # "ended"

-----------------------------------------------------------------------------
(* The inductive invariant *)

EmulatorOK ==
    /\ pc \in {"mac", "join"} => audio_data # "freed"
    /\ pc = "newptr" => open_count < MaxOpen
    /\ pc \in {"newptr", "openmixer", "closemixer"} => audio_data # "freed"
    /\ pc = "dispose" => audio_data # "none" /\ open_count = 0 /\ ~mixer
    /\ pc = "join" => irq = "none"

\* The thread is there while it is active.  Once it has been cancelled no
\* thread asks for a block again; only the remains of the last request are left.
StreamOK ==
    /\ active <=> tpc # "none"
    /\ ~cancel => (IF flag THEN 1 ELSE 0) + (IF irq # "none" THEN 1 ELSE 0) + sem
                    = IF tpc = "wait" THEN 1 ELSE 0
    /\ cancel => (IF flag THEN 1 ELSE 0) + (IF irq # "none" THEN 1 ELSE 0) + sem <= 1
    /\ pc = "join" /\ active => cancel
    /\ cancel /\ pc # "join" => tpc \in {"none", "top", "ended"}
    /\ cancel /\ tpc \in {"raise", "read", "write"} =>
         ~flag /\ irq = "none" /\ sem = 0
    /\ cancel /\ tpc = "wait" => flag \/ sem = 1

IInv == TypeOK /\ EmulatorOK /\ StreamOK
=============================================================================
