-------------------------------- MODULE Video -------------------------------
(***************************************************************************)
(* The display and its redraw and input thread (Unix/video_x.cpp).         *)
(*                                                                         *)
(* The emulator thread opens and closes the display, when the video driver *)
(* changes the mode and at exit, and owns frame_buffer_lock in between; it *)
(* gives the lock up for a moment in VideoInterrupt(), "the point where we *)
(* are suspended". The redraw thread handles events and refreshes the      *)
(* display until it is cancelled.                                          *)
(***************************************************************************)
EXTENDS Naturals

VARIABLES
    display_type,               \* "window", or "dga": the full screen, which can be suspended
    pc,                         \* where the emulator thread is
    purpose,                    \* what video_close() is called for
    frame_buffer_lock,          \* its owner
    drv,                        \* the driver object; "quit": deleted by the redraw thread
    redraw_thread_active,
    redraw_thread_cancel,
    redraw_thread_cancel_ack,
    rpc,                        \* where the redraw thread is
    emul_suspended,
    quit_full_screen,
    emerg_quit,
    early                       \* history: the thread answered before ClearAck

emulator == << pc, purpose >>
protocol == << redraw_thread_active, redraw_thread_cancel, redraw_thread_cancel_ack, early >>
user == << emul_suspended, quit_full_screen, emerg_quit, display_type >>
videoVars == << emulator, frame_buffer_lock, drv, protocol, rpc, user >>

\* "relock": between the two calls of VideoInterrupt(); "close" to "unlock":
\* in video_close(); "open": about to call video_open(); "quit": QuitEmulator().
Closing == {"close", "clear", "join", "spin", "unlock"}
VideoPC == {"mac", "relock", "open", "quit", "exited"} \cup Closing
\* "suspend": waiting for the lock in suspend(); "ended": returned from redraw_func().
RedrawPC == {"none", "loop", "events", "suspend", "refresh", "ack", "ended"}
Owner == {"none", "emul", "redraw"}

\* VideoInit() has opened the display.
VideoInit ==
    /\ display_type \in {"window", "dga"}
    /\ pc = "mac"
    /\ purpose = "mode"
    /\ frame_buffer_lock = "emul"
    /\ drv = "open"
    /\ redraw_thread_active = TRUE
    /\ redraw_thread_cancel = FALSE
    /\ redraw_thread_cancel_ack = FALSE
    /\ rpc = "loop"
    /\ emul_suspended = FALSE
    /\ quit_full_screen = FALSE
    /\ emerg_quit = FALSE
    /\ early = FALSE

-----------------------------------------------------------------------------
(* The emulator thread *)

\* VideoInterrupt() quits in an emergency, or gives the lock up ...
VideoInterrupt ==
    /\ pc = "mac"
    /\ pc' = IF emerg_quit THEN "quit" ELSE "relock"
    /\ frame_buffer_lock' = IF emerg_quit THEN frame_buffer_lock ELSE "none"
    /\ UNCHANGED << purpose, drv, protocol, rpc, user >>

\* Mutant of Relock: the lock is not waited for.
RelockAtOnce ==
    /\ pc = "relock"
    /\ frame_buffer_lock' = IF frame_buffer_lock = "none" THEN "emul" ELSE frame_buffer_lock
    /\ pc' = "mac"
    /\ UNCHANGED << purpose, drv, protocol, rpc, user >>

\* ... and takes it back, after the redraw thread if that was faster.
Relock ==
    /\ pc = "relock"
    /\ frame_buffer_lock = "none"
    /\ frame_buffer_lock' = "emul"
    /\ pc' = "mac"
    /\ UNCHANGED << purpose, drv, protocol, rpc, user >>

\* The video driver changes the mode: switch_to_current_mode(). There is only
\* one mode on a full screen.
SwitchMode ==
    /\ pc = "mac"
    /\ display_type = "window"
    /\ pc' = "close"
    /\ purpose' = "mode"
    /\ UNCHANGED << frame_buffer_lock, drv, protocol, rpc, user >>

\* VideoQuitFullScreen(), from an error alert.
VideoQuitFullScreen ==
    /\ pc = "mac"
    /\ quit_full_screen' = TRUE
    /\ UNCHANGED << emulator, frame_buffer_lock, drv, protocol, rpc, emul_suspended, emerg_quit,
                    display_type >>

\* MacOS shuts down (M68K_EMUL_OP_SHUTDOWN).
Shutdown ==
    /\ pc = "mac"
    /\ pc' = "quit"
    /\ UNCHANGED << purpose, frame_buffer_lock, drv, protocol, rpc, user >>

\* video_close(): without a thread there is nothing to cancel.
CancelRedraw ==
    /\ pc = "close"
    /\ pc' = IF redraw_thread_active THEN "clear" ELSE "unlock"
    /\ redraw_thread_cancel' = (redraw_thread_cancel \/ redraw_thread_active)
    /\ UNCHANGED << purpose, frame_buffer_lock, drv, redraw_thread_active,
                    redraw_thread_cancel_ack, early, rpc, user >>

ClearAck ==
    /\ pc = "clear"
    /\ redraw_thread_cancel_ack' = FALSE
    /\ pc' = "join"
    /\ UNCHANGED << purpose, frame_buffer_lock, drv, redraw_thread_active,
                    redraw_thread_cancel, early, rpc, user >>

\* Mutant of JoinRedraw: the thread is not waited for.
JoinNobody ==
    /\ pc = "join"
    /\ pc' = "unlock"
    /\ redraw_thread_active' = FALSE
    /\ UNCHANGED << purpose, frame_buffer_lock, drv, redraw_thread_cancel,
                    redraw_thread_cancel_ack, early, rpc, user >>

JoinRedraw ==
    /\ pc = "join"
    /\ rpc = "ended"
    /\ rpc' = "none"
    /\ pc' = "spin"
    /\ UNCHANGED << purpose, frame_buffer_lock, drv, protocol, user >>

\* while (!redraw_thread_cancel_ack) ;
SpinOnAck ==
    /\ pc = "spin"
    /\ redraw_thread_cancel_ack
    /\ redraw_thread_active' = FALSE
    /\ pc' = "unlock"
    /\ UNCHANGED << purpose, frame_buffer_lock, drv, redraw_thread_cancel,
                    redraw_thread_cancel_ack, early, rpc, user >>

\* The lock may not be owned, after an open that failed; unlocking it then
\* leaves it as it is.
CloseDisplay ==
    /\ pc = "unlock"
    /\ frame_buffer_lock' = IF frame_buffer_lock = "emul" THEN "none" ELSE frame_buffer_lock
    /\ drv' = "none"
    /\ pc' = IF purpose = "mode" THEN "open" ELSE "exited"
    /\ UNCHANGED << purpose, protocol, rpc, user >>

\* video_open(). Without a driver the emulator quits; without VOSF or without a
\* thread it goes on, its caller tests for the driver only.
OpenDisplay ==
    /\ pc = "open"
    /\ \/ /\ drv' = "open"
          /\ frame_buffer_lock' = "emul"
          /\ redraw_thread_cancel' = FALSE
          /\ \/ redraw_thread_active' = TRUE /\ rpc' = "loop"
             \/ redraw_thread_active' = FALSE /\ UNCHANGED rpc
          /\ pc' = "mac"
       \/ /\ drv' = "open"
          /\ pc' = "mac"
          /\ UNCHANGED << frame_buffer_lock, redraw_thread_active, redraw_thread_cancel, rpc >>
       \/ /\ pc' = "quit"
          /\ UNCHANGED << drv, frame_buffer_lock, redraw_thread_active, redraw_thread_cancel, rpc >>
    /\ UNCHANGED << purpose, redraw_thread_cancel_ack, early, user >>

-----------------------------------------------------------------------------
(* The redraw thread, redraw_func() *)

\* A pass handles events and, when it is time, refreshes the display.
RedrawLoop ==
    /\ rpc = "loop"
    /\ rpc' = IF redraw_thread_cancel THEN "ack" ELSE "events"
    /\ UNCHANGED << emulator, frame_buffer_lock, drv, protocol, user >>

NoMoreEvents ==
    /\ rpc = "events"
    /\ rpc' \in {"loop", "refresh"}
    /\ UNCHANGED << emulator, frame_buffer_lock, drv, protocol, user >>

\* Ctrl-Tab. Ctrl cannot be down while the emulator is suspended: suspend()
\* releases it and key presses are ignored until resume().
CtrlTab ==
    /\ rpc = "events"
    /\ display_type = "dga"
    /\ drv = "open"
    /\ ~emul_suspended
    /\ rpc' = "suspend"
    /\ UNCHANGED << emulator, frame_buffer_lock, drv, protocol, user >>

\* suspend() stops the emulator thread by taking the lock.
Suspend ==
    /\ rpc = "suspend"
    /\ frame_buffer_lock = "none"
    /\ frame_buffer_lock' = "redraw"
    /\ emul_suspended' = TRUE
    /\ rpc' = "events"
    /\ UNCHANGED << emulator, drv, protocol, quit_full_screen, emerg_quit,
                    display_type >>

\* The space bar, resume().
Resume ==
    /\ rpc = "events"
    /\ emul_suspended
    /\ drv = "open"
    /\ frame_buffer_lock' = "none"
    /\ emul_suspended' = FALSE
    /\ UNCHANGED << emulator, drv, protocol, rpc, quit_full_screen, emerg_quit,
                    display_type >>

\* Ctrl-Esc.
CtrlEsc ==
    /\ rpc = "events"
    /\ ~emul_suspended
    /\ quit_full_screen' = TRUE
    /\ emerg_quit' = TRUE
    /\ UNCHANGED << emulator, frame_buffer_lock, drv, protocol, rpc, emul_suspended, display_type >>

\* video_refresh(): possibly_quit_dga_mode() deletes the driver,
\* possibly_ungrab_mouse() does not.
Refresh ==
    /\ rpc = "refresh"
    /\ drv' = IF quit_full_screen /\ display_type = "dga" THEN "quit" ELSE drv
    /\ quit_full_screen' = FALSE
    /\ rpc' = "loop"
    /\ UNCHANGED << emulator, frame_buffer_lock, protocol, emul_suspended, emerg_quit,
                    display_type >>

\* Mutant of Acknowledge: the thread ends without a word.
EndSilently ==
    /\ rpc = "ack"
    /\ rpc' = "ended"
    /\ UNCHANGED << emulator, frame_buffer_lock, drv, protocol, user >>

Acknowledge ==
    /\ rpc = "ack"
    /\ redraw_thread_cancel_ack' = TRUE
    /\ early' = (pc = "clear")
    /\ rpc' = "ended"
    /\ UNCHANGED << emulator, frame_buffer_lock, drv, redraw_thread_active,
                    redraw_thread_cancel, user >>

-----------------------------------------------------------------------------

MacVideo == VideoInterrupt \/ SwitchMode \/ VideoQuitFullScreen \/ Shutdown
VideoClose == CancelRedraw \/ ClearAck \/ JoinRedraw \/ SpinOnAck \/ CloseDisplay
VideoCall == Relock \/ VideoClose \/ OpenDisplay
Input == CtrlTab \/ Resume \/ CtrlEsc
Redraw == RedrawLoop \/ NoMoreEvents \/ Suspend \/ Refresh \/ Acknowledge

VideoTypeOK ==
    /\ display_type \in {"window", "dga"}
    /\ pc \in VideoPC \cup {"tick", "watchdog", "save"}
    /\ purpose \in {"mode", "exit"}
    /\ frame_buffer_lock \in Owner
    /\ drv \in {"none", "open", "quit"}
    /\ redraw_thread_active \in BOOLEAN
    /\ redraw_thread_cancel \in BOOLEAN
    /\ redraw_thread_cancel_ack \in BOOLEAN
    /\ rpc \in RedrawPC
    /\ emul_suspended \in BOOLEAN
    /\ quit_full_screen \in BOOLEAN
    /\ emerg_quit \in BOOLEAN
    /\ early \in BOOLEAN

\* While the redraw thread owns the frame buffer, saves it and restores it, no
\* Mac code runs that could draw: the emulator thread stands in VideoInterrupt()
\* ("this will stop the MacOS thread", suspend()).
SuspendedStops == frame_buffer_lock = "redraw" => pc = "relock"

\* No redraw thread is left behind by video_close(): as long as there is one it
\* has a driver, unless it deleted that itself (redraw_func(), "delete drv").
DriverAlive == rpc \notin {"none", "ended"} => drv # "none"

\* The two ways video_close() can hang: the acknowledgement came between the
\* request and its reset, or the thread waits in suspend() for the lock that the
\* emulator thread gives up only after joining it.
AckLost == pc = "spin" /\ ~redraw_thread_cancel_ack /\ early
LockCycle == pc = "join" /\ rpc = "suspend"

\* video_close() returns in every other case: the redraw thread looks at the
\* cancellation again and again, whatever it is doing.
ClosesOrHangs == (pc = "close") ~> (pc \notin Closing \/ AckLost \/ LockCycle)
=============================================================================
