------------------------------- MODULE Shutdown -----------------------------
(***************************************************************************)
(* QuitEmulator() (Unix/main_unix.cpp) and the start of ExitAll()          *)
(* (main.cpp): the emulator thread stops the 60 Hz thread and the XPRAM    *)
(* watchdog, saves XPRAM and closes the display, whose redraw thread goes  *)
(* on until then. Composes Video and Xpram.                                *)
(***************************************************************************)
EXTENDS Video, Xpram

VARIABLES
    ticking,            \* the 60 Hz thread runs
    tick_thread_cancel

ticks == << ticking, tick_thread_cancel >>
vars == << videoVars, xpramVars, ticks >>

Init ==
    /\ VideoInit
    /\ XpramInit
    /\ ticking = TRUE
    /\ tick_thread_cancel = FALSE

-----------------------------------------------------------------------------

\* Mac code runs, VideoInterrupt() on the 60 Hz interrupt included.
MacCode ==
    \/ MacVideo /\ UNCHANGED << xpramVars, ticks >>
    \/ /\ pc = "mac"
       /\ \E r \in Registers, value \in Bytes : WriteXPRAM(r, value)
       /\ UNCHANGED << videoVars, ticks >>

\* Calls of video_x.cpp.
InVideo == VideoCall /\ UNCHANGED << xpramVars, ticks >>

EmulatorAt(from, to) ==
    /\ pc = from
    /\ pc' = to
    /\ UNCHANGED << purpose, frame_buffer_lock, drv, protocol, rpc, user >>

\* QuitEmulator(): the 60 Hz thread is cancelled and joined ...
CancelTick ==
    /\ EmulatorAt("quit", "tick")
    /\ tick_thread_cancel' = TRUE
    /\ UNCHANGED << xpramVars, ticking >>

\* ... then the watchdog ...
JoinTick ==
    /\ EmulatorAt("tick", "watchdog")
    /\ ~ticking
    /\ CancelWatchdog
    /\ UNCHANGED ticks

JoinWatchdog ==
    /\ EmulatorAt("watchdog", "save")
    /\ wpc = "none"
    /\ UNCHANGED << xpramVars, ticks >>

\* ... and ExitAll() calls XPRAMExit() before VideoExit().
ExitAll ==
    /\ pc = "save"
    /\ pc' = "close"
    /\ purpose' = "exit"
    /\ SaveXPRAM
    /\ UNCHANGED << frame_buffer_lock, drv, protocol, rpc, user, ticks >>

\* tick_func() ends.
EndTick ==
    /\ ticking
    /\ tick_thread_cancel
    /\ ticking' = FALSE
    /\ UNCHANGED << videoVars, xpramVars, tick_thread_cancel >>

Quit == CancelTick \/ JoinTick \/ JoinWatchdog \/ ExitAll
RedrawThread == Redraw /\ UNCHANGED << xpramVars, ticks >>
UserInput == Input /\ UNCHANGED << xpramVars, ticks >>
XpramThread == Watchdog /\ UNCHANGED << videoVars, ticks >>

Next ==
    \/ MacCode \/ InVideo \/ Quit
    \/ RedrawThread \/ UserInput \/ XpramThread \/ EndTick

Spec == Init /\ [][Next]_vars

\* Threads that can run do, and the user stops typing for a moment.
FairSpec ==
    /\ Spec
    /\ WF_vars(InVideo) /\ WF_vars(Quit)
    /\ WF_vars(RedrawThread) /\ WF_vars(XpramThread) /\ WF_vars(EndTick)

-----------------------------------------------------------------------------

TypeOK ==
    /\ VideoTypeOK
    /\ XpramTypeOK
    /\ ticking \in BOOLEAN
    /\ tick_thread_cancel \in BOOLEAN

\* Once XPRAM has been saved at exit the file holds its last state: no write of
\* the watchdog comes after that (QuitEmulator() joins it, then XPRAMExit()).
SavedAtExit == purpose = "exit" => file = XPRAM

\* Whoever wants to quit gets as far as the display, and XPRAM is saved by then,
\* whatever the threads are doing (QuitEmulator(), ExitAll()).
QuitSaves == (pc = "quit") ~> (purpose = "exit")
=============================================================================
