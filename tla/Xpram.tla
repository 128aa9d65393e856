-------------------------------- MODULE Xpram -------------------------------
(***************************************************************************)
(* The extended parameter RAM (XPRAM), its file, and the watchdog thread   *)
(* that looks for changes once a minute (xpram_watchdog(), main_unix.cpp;  *)
(* SaveXPRAM(), xpram_unix.cpp). The thread compares, copies and writes    *)
(* byte after byte while Mac code changes XPRAM.                           *)
(***************************************************************************)
EXTENDS Naturals

CONSTANTS
    XPRAM_SIZE,     \* in bytes
    Bytes           \* values of a byte

ASSUME SizeAssumption == XPRAM_SIZE \in Nat \ {0}

VARIABLES
    XPRAM,
    last_xpram,             \* as it was when the watchdog last saved it
    file,
    wpc,                    \* where the watchdog thread is
    reg,                    \* the byte memcmp(), memcpy() or write() is at
    xpram_thread_cancel

watchdog == << last_xpram, wpc, reg >>
xpramVars == << XPRAM, file, watchdog, xpram_thread_cancel >>

Registers == 1 .. XPRAM_SIZE
WatchdogPC == {"delay", "memcmp", "memcpy", "open", "write", "close", "none"}

\* The watchdog starts with a copy of what InitAll() has loaded and completed;
\* the file may differ from that.
XpramInit ==
    /\ XPRAM \in [Registers -> Bytes]
    /\ last_xpram = XPRAM
    /\ file \in [Registers -> Bytes]
    /\ wpc = "delay"
    /\ reg = 1
    /\ xpram_thread_cancel = FALSE

-----------------------------------------------------------------------------
(* The emulator thread *)

\* MacOS writes a byte (M68K_EMUL_OP_CLKNOMEM).
WriteXPRAM(r, value) ==
    /\ XPRAM' = [XPRAM EXCEPT ![r] = value]
    /\ UNCHANGED << file, watchdog, xpram_thread_cancel >>

\* Mutant of CancelWatchdog: pthread_cancel() alone would do.
CancelNothing == UNCHANGED xpramVars

CancelWatchdog ==
    /\ xpram_thread_cancel' = TRUE
    /\ UNCHANGED << XPRAM, file, watchdog >>

\* Mutant of SaveXPRAM: nothing is written that the watchdog has seen.
SaveUnseen ==
    /\ file' = IF XPRAM = last_xpram THEN file ELSE XPRAM
    /\ UNCHANGED << XPRAM, watchdog, xpram_thread_cancel >>

\* SaveXPRAM() from XPRAMExit(), when nobody else runs that uses it.
SaveXPRAM ==
    /\ file' = XPRAM
    /\ UNCHANGED << XPRAM, watchdog, xpram_thread_cancel >>

-----------------------------------------------------------------------------
(* The watchdog thread *)

\* What follows xpram_watchdog(): another minute, or the end of xpram_func().
Again == IF xpram_thread_cancel THEN "none" ELSE "delay"

\* Mutant of After: XPRAM is saved first and copied then.
SaveFirst(step) ==
    CASE step = "memcmp" -> "open"
      [] step = "open" -> "write"
      [] step = "write" -> "close"
      [] step = "close" -> "memcpy"
      [] step = "memcpy" -> Again

\* The order of things in xpram_watchdog() and SaveXPRAM() when there is a change.
After(step) ==
    CASE step = "memcmp" -> "memcpy"
      [] step = "memcpy" -> "open"
      [] step = "open" -> "write"
      [] step = "write" -> "close"
      [] step = "close" -> Again

Advance(next) ==
    /\ reg' = IF reg = XPRAM_SIZE THEN 1 ELSE reg + 1
    /\ wpc' = IF reg = XPRAM_SIZE THEN next ELSE wpc

\* A minute is over, or xpram_thread_cancel ends it earlier.
WakeUp ==
    /\ wpc = "delay"
    /\ wpc' = "memcmp"
    /\ UNCHANGED << XPRAM, last_xpram, file, reg, xpram_thread_cancel >>

CompareByte ==
    /\ wpc = "memcmp"
    /\ IF last_xpram[reg] # XPRAM[reg] THEN wpc' = After("memcmp") /\ reg' = 1
                                       ELSE Advance(Again)
    /\ UNCHANGED << XPRAM, last_xpram, file, xpram_thread_cancel >>

CopyByte ==
    /\ wpc = "memcpy"
    /\ last_xpram' = [last_xpram EXCEPT ![reg] = XPRAM[reg]]
    /\ Advance(After("memcpy"))
    /\ UNCHANGED << XPRAM, file, xpram_thread_cancel >>

\* open() and close() of the file.
OpenClose ==
    /\ wpc \in {"open", "close"}
    /\ wpc' = After(wpc)
    /\ UNCHANGED << XPRAM, last_xpram, file, reg, xpram_thread_cancel >>

WriteByte ==
    /\ wpc = "write"
    /\ file' = [file EXCEPT ![reg] = XPRAM[reg]]
    /\ Advance(After("write"))
    /\ UNCHANGED << XPRAM, last_xpram, xpram_thread_cancel >>

\* pthread_cancel() takes effect in Delay_usec(), open(), write() or close().
CancellationPoint == wpc \in {"delay", "open", "close"} \/ (wpc = "write" /\ reg = 1)

EndWatchdog ==
    /\ xpram_thread_cancel
    /\ CancellationPoint
    /\ wpc' = "none"
    /\ UNCHANGED << XPRAM, last_xpram, file, reg, xpram_thread_cancel >>

Watchdog == WakeUp \/ CompareByte \/ CopyByte \/ OpenClose \/ WriteByte \/ EndWatchdog

XpramTypeOK ==
    /\ XPRAM \in [Registers -> Bytes]
    /\ last_xpram \in [Registers -> Bytes]
    /\ file \in [Registers -> Bytes]
    /\ wpc \in WatchdogPC
    /\ reg \in Registers
    /\ xpram_thread_cancel \in BOOLEAN

\* A byte that differs from the watchdog's copy gets into the file unless it
\* changes again, whatever happens while the watchdog is comparing, copying or
\* writing (xpram_watchdog(): the copy is made before the save).
ChangesSaved ==
    \A r \in Registers : \A value \in Bytes :
        (XPRAM[r] = value /\ last_xpram[r] # value)
            ~> (file[r] = value \/ XPRAM[r] # value)
=============================================================================
