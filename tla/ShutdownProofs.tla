---------------------------- MODULE ShutdownProofs --------------------------
(***************************************************************************)
(* Proofs about Shutdown, for every size of XPRAM and every set of byte    *)
(* values: the redraw thread stops the emulator thread while it owns the   *)
(* frame buffer, never outlives its driver, and the watchdog never writes  *)
(* after the last save. VideoInv and the types of XPRAM are inductive,     *)
(* SaveInv with both of them.                                              *)
(***************************************************************************)
EXTENDS Shutdown, TLAPS

\* Whose frame buffer it is: the emulator thread's as long as there is a redraw
\* thread, except in VideoInterrupt(), where suspend() may have it.
LockOK ==
    /\ rpc # "none" /\ pc # "relock" => frame_buffer_lock = "emul"
    /\ emul_suspended => frame_buffer_lock = "redraw"

\* Where there is a redraw thread.
ThreadOK ==
    /\ rpc # "none" => redraw_thread_active
    /\ pc \in {"spin", "unlock", "open", "exited"} => rpc = "none"

VideoInv == VideoTypeOK /\ LockOK /\ ThreadOK /\ SuspendedStops /\ DriverAlive

\* The watchdog is gone before the last save, and Mac code does not run after it.
SaveInv ==
    /\ pc = "save" => wpc = "none"
    /\ purpose = "exit" => wpc = "none" /\ pc \in Closing \cup {"exited"}
    /\ SavedAtExit

IInv == VideoInv /\ XpramTypeOK /\ SaveInv /\ ticking \in BOOLEAN /\ tick_thread_cancel \in BOOLEAN

-----------------------------------------------------------------------------
(* The display.                                                            *)

\* No call of the emulator thread takes the lock from the redraw thread, and
\* video_close() is not through before the thread has ended.
LEMMA EmulatorKeepsVideo ==
  ASSUME VideoInv, MacVideo \/ VideoCall
  PROVE  VideoInv'
  <1> USE DEF VideoInv, VideoTypeOK, LockOK, ThreadOK, SuspendedStops, DriverAlive, VideoPC,
              Closing, RedrawPC, Owner, protocol, user
  <1>1. CASE VideoInterrupt
    <2>1. CASE emerg_quit
      BY <1>1, <2>1 DEF VideoInterrupt
    <2>2. CASE ~emerg_quit
      BY <1>1, <2>2 DEF VideoInterrupt
    <2> QED  BY <2>1, <2>2
  <1>2. CASE SwitchMode
    BY <1>2 DEF SwitchMode
  <1>3. CASE VideoQuitFullScreen
    BY <1>3 DEF VideoQuitFullScreen, emulator
  <1>4. CASE Shutdown
    BY <1>4 DEF Shutdown
  <1>5. CASE Relock
    BY <1>5 DEF Relock
  <1>6. CASE CancelRedraw
    BY <1>6 DEF CancelRedraw
  <1>7. CASE ClearAck
    <2>1. /\ pc = "clear" /\ pc' = "join" /\ redraw_thread_cancel_ack' = FALSE
          /\ UNCHANGED << purpose, frame_buffer_lock, drv, redraw_thread_active,
                          redraw_thread_cancel, early, rpc, emul_suspended, quit_full_screen,
                          emerg_quit, display_type >>
      BY <1>7, Zenon DEF ClearAck
    <2>2. VideoTypeOK'
      <3>1. redraw_thread_cancel_ack' \in BOOLEAN
        BY <2>1, Zenon
      <3> HIDE DEF LockOK, ThreadOK, SuspendedStops, DriverAlive
      <3> QED  BY <2>1, <3>1
    <2>3. LockOK' /\ ThreadOK'
      BY <2>1
    <2>4. SuspendedStops' /\ DriverAlive'
      BY <2>1
    <2> QED  BY <2>2, <2>3, <2>4
  <1>8. CASE JoinRedraw
    BY <1>8 DEF JoinRedraw
  <1>9. CASE SpinOnAck
    BY <1>9 DEF SpinOnAck
  <1>10. CASE CloseDisplay
    BY <1>10 DEF CloseDisplay
  <1>11. CASE OpenDisplay
    BY <1>11 DEF OpenDisplay
  <1> QED
    BY <1>1, <1>2, <1>3, <1>4, <1>5, <1>6, <1>7, <1>8, <1>9, <1>10, <1>11
    DEF MacVideo, VideoCall, VideoClose

\* The redraw thread takes the lock when the emulator thread has given it up, and
\* gives it back before that has got on.
LEMMA RedrawKeepsVideo ==
  ASSUME VideoInv, Redraw \/ Input
  PROVE  VideoInv'
  <1> USE DEF VideoInv, VideoTypeOK, LockOK, ThreadOK, SuspendedStops, DriverAlive, VideoPC,
              Closing, RedrawPC, Owner, emulator, protocol, user
  <1>1. CASE RedrawLoop
    BY <1>1 DEF RedrawLoop
  <1>2. CASE NoMoreEvents
    BY <1>2 DEF NoMoreEvents
  <1>3. CASE Suspend
    BY <1>3 DEF Suspend
  <1>4. CASE Refresh
    <2>1. drv' = drv \/ drv' = "quit"
      BY <1>4, Zenon DEF Refresh
    <2>2. /\ rpc = "refresh" /\ rpc' = "loop" /\ quit_full_screen' = FALSE
          /\ UNCHANGED << pc, purpose, frame_buffer_lock, redraw_thread_active,
                          redraw_thread_cancel, redraw_thread_cancel_ack, early, emul_suspended,
                          emerg_quit, display_type >>
      BY <1>4, Zenon DEF Refresh
    <2>3. VideoTypeOK'
      <3>1. quit_full_screen' \in BOOLEAN
        BY <2>2, Zenon
      <3> HIDE DEF LockOK, ThreadOK, SuspendedStops, DriverAlive
      <3> QED  BY <2>1, <2>2, <3>1
    <2>4. LockOK' /\ ThreadOK'
      BY <2>1, <2>2
    <2>5. SuspendedStops' /\ DriverAlive'
      BY <2>1, <2>2
    <2> QED  BY <2>3, <2>4, <2>5
  <1>5. CASE Acknowledge
    <2>1. early' \in BOOLEAN
      BY <1>5, Zenon DEF Acknowledge
    <2> QED  BY <1>5, <2>1 DEF Acknowledge
  <1>6. CASE CtrlTab
    BY <1>6 DEF CtrlTab
  <1>7. CASE Resume
    BY <1>7 DEF Resume
  <1>8. CASE CtrlEsc
    BY <1>8 DEF CtrlEsc
  <1> QED
    BY <1>1, <1>2, <1>3, <1>4, <1>5, <1>6, <1>7, <1>8 DEF Redraw, Input

\* QuitEmulator() leaves the display alone until it calls video_close().
LEMMA QuitKeepsVideo ==
  ASSUME VideoInv, Quit
  PROVE  VideoInv'
  BY DEF Quit, CancelTick, JoinTick, JoinWatchdog, ExitAll, EmulatorAt, VideoInv, VideoTypeOK,
         LockOK, ThreadOK, SuspendedStops, DriverAlive, VideoPC, Closing, protocol, user

LEMMA VideoSame ==
  ASSUME VideoInv, UNCHANGED videoVars
  PROVE  VideoInv'
  BY DEF VideoInv, VideoTypeOK, LockOK, ThreadOK, SuspendedStops, DriverAlive, VideoPC, Closing,
         videoVars, emulator, protocol, user

LEMMA VideoKept ==
  ASSUME VideoInv, [Next]_vars
  PROVE  VideoInv'
  <1>1. MacVideo \/ VideoCall \/ Redraw \/ Input \/ Quit \/ UNCHANGED videoVars
    BY DEF Next, MacCode, InVideo, RedrawThread, UserInput, XpramThread, EndTick, vars
  <1> QED
    BY <1>1, EmulatorKeepsVideo, RedrawKeepsVideo, QuitKeepsVideo, VideoSame

-----------------------------------------------------------------------------
(* XPRAM.                                                                  *)

\* The loops over the bytes stay within XPRAM.
LEMMA AdvanceType ==
  ASSUME reg \in Registers, wpc \in WatchdogPC, NEW next \in WatchdogPC, Advance(next)
  PROVE  reg' \in Registers /\ wpc' \in WatchdogPC
  BY SizeAssumption DEF Advance, Registers

LEMMA AfterType ==
  /\ Again \in WatchdogPC
  /\ \A step \in {"memcmp", "memcpy", "open", "write", "close"} : After(step) \in WatchdogPC
  BY DEF After, Again, WatchdogPC

LEMMA WatchdogKeepsTypes ==
  ASSUME XpramTypeOK, Watchdog
  PROVE  XpramTypeOK'
  <1> USE DEF XpramTypeOK
  <1>0. 1 \in Registers
    BY SizeAssumption DEF Registers
  <1>1. CASE WakeUp
    BY <1>1 DEF WakeUp, WatchdogPC
  <1>2. CASE CompareByte
    <2>1. reg' \in Registers /\ wpc' \in WatchdogPC
      BY <1>0, <1>2, AdvanceType, AfterType DEF CompareByte
    <2> QED  BY <1>2, <2>1 DEF CompareByte
  <1>3. CASE CopyByte
    <2>1. reg' \in Registers /\ wpc' \in WatchdogPC
      BY <1>3, AdvanceType, AfterType DEF CopyByte
    <2> QED  BY <1>3, <2>1 DEF CopyByte
  <1>4. CASE OpenClose
    BY <1>4, AfterType DEF OpenClose
  <1>5. CASE WriteByte
    <2>1. reg' \in Registers /\ wpc' \in WatchdogPC
      BY <1>5, AdvanceType, AfterType DEF WriteByte
    <2> QED  BY <1>5, <2>1 DEF WriteByte
  <1>6. CASE EndWatchdog
    BY <1>6 DEF EndWatchdog, WatchdogPC
  <1> QED
    BY <1>1, <1>2, <1>3, <1>4, <1>5, <1>6 DEF Watchdog

LEMMA XpramTypesKept ==
  ASSUME XpramTypeOK, [Next]_vars
  PROVE  XpramTypeOK'
  <1>1. CASE XpramThread
    BY <1>1, WatchdogKeepsTypes DEF XpramThread
  <1>2. CASE \E r \in Registers, value \in Bytes : WriteXPRAM(r, value)
    BY <1>2 DEF WriteXPRAM, XpramTypeOK, watchdog
  <1>3. CASE JoinTick
    BY <1>3 DEF JoinTick, CancelWatchdog, XpramTypeOK, watchdog
  <1>4. CASE ExitAll
    BY <1>4 DEF ExitAll, SaveXPRAM, XpramTypeOK, watchdog
  <1>5. CASE UNCHANGED xpramVars
    BY <1>5 DEF xpramVars, watchdog, XpramTypeOK
  <1> QED
    BY <1>1, <1>2, <1>3, <1>4, <1>5
    DEF Next, MacCode, InVideo, Quit, CancelTick, JoinWatchdog, RedrawThread, UserInput, EndTick, vars

\* A watchdog that has ended writes nothing.
LEMMA WatchdogEnded ==
  ASSUME Watchdog
  PROVE  wpc # "none"
  BY DEF Watchdog, WakeUp, CompareByte, CopyByte, OpenClose, WriteByte, EndWatchdog, CancellationPoint

\* After the save nobody writes XPRAM or the file: the watchdog has ended, Mac
\* code does not run again.
LEMMA SaveKept ==
  ASSUME VideoTypeOK, SaveInv, [Next]_vars
  PROVE  SaveInv'
  <1> USE DEF SaveInv, SavedAtExit, Closing, xpramVars, watchdog
  <1>1. CASE MacCode
    BY <1>1 DEF MacCode, MacVideo, VideoInterrupt, SwitchMode, VideoQuitFullScreen, Shutdown,
                WriteXPRAM, videoVars, emulator
  <1>2. CASE InVideo
    BY <1>2 DEF InVideo, VideoCall, Relock, VideoClose, CancelRedraw, ClearAck, JoinRedraw,
                SpinOnAck, CloseDisplay, OpenDisplay, VideoTypeOK
  <1>3. CASE Quit
    BY <1>3 DEF Quit, CancelTick, JoinTick, JoinWatchdog, ExitAll, EmulatorAt, SaveXPRAM,
                CancelWatchdog
  <1>4. CASE RedrawThread \/ UserInput
    BY <1>4 DEF RedrawThread, UserInput, Redraw, Input, RedrawLoop, NoMoreEvents, Suspend, Refresh,
                Acknowledge, CtrlTab, Resume, CtrlEsc, emulator
  <1>5. CASE XpramThread
    BY <1>5, WatchdogEnded DEF XpramThread, videoVars, emulator
  <1>6. CASE EndTick \/ UNCHANGED vars
    BY <1>6 DEF EndTick, vars, videoVars, emulator
  <1> QED
    BY <1>1, <1>2, <1>3, <1>4, <1>5, <1>6 DEF Next

-----------------------------------------------------------------------------
(* The theorems.                                                           *)

LEMMA InitIInv == Init => IInv
  <1> SUFFICES ASSUME Init PROVE IInv
    OBVIOUS
  <1> USE DEF Init, VideoInit, XpramInit
  <1>1. VideoInv
    BY DEF VideoInv, VideoTypeOK, LockOK, ThreadOK, SuspendedStops, DriverAlive, VideoPC, Closing,
           RedrawPC, Owner
  <1>2. XpramTypeOK
    <2>1. 1 \in Registers
      BY SizeAssumption DEF Registers
    <2> QED  BY <2>1 DEF XpramTypeOK, WatchdogPC
  <1>3. SaveInv
    BY DEF SaveInv, SavedAtExit
  <1> QED  BY <1>1, <1>2, <1>3 DEF IInv

\* The inductive invariant holds of every behaviour.
THEOREM Invariance == Spec => []IInv
  <1>1. IInv /\ [Next]_vars => IInv'
    <2> SUFFICES ASSUME IInv, [Next]_vars PROVE IInv'
      OBVIOUS
    <2>1. VideoInv' /\ XpramTypeOK' /\ SaveInv'
      BY VideoKept, XpramTypesKept, SaveKept DEF IInv, VideoInv
    <2>2. ticking' \in BOOLEAN /\ tick_thread_cancel' \in BOOLEAN
      BY DEF IInv, Next, MacCode, InVideo, Quit, CancelTick, JoinTick, JoinWatchdog, ExitAll,
             RedrawThread, UserInput, XpramThread, EndTick, vars, ticks
    <2> QED  BY <2>1, <2>2 DEF IInv
  <1> QED  BY InitIInv, <1>1, PTL DEF Spec

\* The state of the display, of XPRAM and of the four threads stays well formed.
THEOREM TypeCorrect == Spec => []TypeOK
  <1>1. IInv => TypeOK
    BY DEF IInv, VideoInv, TypeOK
  <1> QED  BY Invariance, <1>1, PTL

\* While the redraw thread owns the frame buffer (suspend()), the emulator thread
\* stands in VideoInterrupt().
THEOREM SuspensionStops == Spec => []SuspendedStops
  <1>1. IInv => SuspendedStops
    BY DEF IInv, VideoInv
  <1> QED  BY Invariance, <1>1, PTL

\* video_close() leaves no redraw thread behind.
THEOREM ThreadHasDriver == Spec => []DriverAlive
  <1>1. IInv => DriverAlive
    BY DEF IInv, VideoInv
  <1> QED  BY Invariance, <1>1, PTL

\* After XPRAMExit() the file is what XPRAM is: QuitEmulator() has joined the
\* watchdog before.
THEOREM ExitSaves == Spec => []SavedAtExit
  <1>1. IInv => SavedAtExit
    BY DEF IInv, SaveInv
  <1> QED  BY Invariance, <1>1, PTL
=============================================================================
