-------------------------------- MODULE Adb ---------------------------------
(***************************************************************************)
(* The ADB emulation (adb.cpp): keyboard and mouse.  The input thread of   *)
(* the host (for X11 the redraw thread) changes the state of the mouse and *)
(* puts key events into a ring, then raises INTFLAG_ADB; the emulator      *)
(* thread hands both to the handlers of MacOS in ADBInterrupt().  These    *)
(* run at interrupt level, so ADBInterrupt() is not interrupted by itself. *)
(*                                                                         *)
(* mouse_lock is held for the position only: a step here is one use of the *)
(* position under the lock, or of a variable that has none.  One           *)
(* coordinate stands for two, which are treated alike and together.  A key *)
(* event is its number; the first is 1.                                    *)
(***************************************************************************)
EXTENDS Integers

CONSTANTS
    Buttons,            \* buttons of the mouse
    ThirdButton,        \* those only the extended mouse protocol has a bit for
    Positions,          \* coordinates the host reports in absolute mode
    KEY_BUFFER_SIZE,    \* slots of key_buffer
    Range,              \* values of a movement in the 100/200 dpi protocol: 128
    ExtendedRange,      \* and in the extended mouse protocol: 1024
    MaxKeys,            \* bound on key events
    MaxMoves,           \* bound on movements reported in relative mode
    MaxModes            \* bound on changes of mode

ASSUME SizeAssumption == KEY_BUFFER_SIZE \in Nat \ {0}
ASSUME PositionsAssumption == Positions \subseteq Nat
ASSUME RangeAssumption ==
    /\ {Range, ExtendedRange} \subseteq Nat \ {0}
    /\ Range % 2 = 0
    /\ ExtendedRange % Range = 0
ASSUME BoundsAssumption == {MaxKeys, MaxMoves, MaxModes} \subseteq Nat

VARIABLES
    relative_mouse,     \* the mode
    mouse_x,
    old_mouse_x,
    mouse_button,       \* [Buttons -> pressed]
    old_mouse_button,   \* [Buttons -> pressed], as last sent
    key_buffer,         \* [slots -> event]
    key_read_ptr,
    key_write_ptr,
    extended,           \* mouse_reg_3[1] = 4
    flag,               \* INTFLAG_ADB
    ipc,                \* where the input thread is
    pc,                 \* where the emulator thread is
    mx, mb, mac_code,   \* local variables of ADBInterrupt()
    keys,               \* history: key events so far
    overflow,           \* history: key_write_ptr has caught up with key_read_ptr
    delivered,          \* history: the last key event MacOS was given
    told,               \* history: the buttons as MacOS was given them last
    short,              \* history: it was given them last in the 100/200 dpi protocol
    cursor,             \* history: {the position MacOS was given last}, {} if it has moved since
    moves,              \* history: movements reported in relative mode
    host,               \* history: where the host has moved since the mode changed
    sent,               \* history: movement MacOS was sent since the mode changed
    modes,              \* history: changes of mode
    mixed               \* history: a position was taken in one mode and used in the other

mouse == << relative_mouse, mouse_x, mouse_button, host, moves, modes >>
ring == << key_buffer, key_read_ptr, key_write_ptr, keys, overflow >>
local == << mx, mb, mac_code >>
old == << old_mouse_x, old_mouse_button >>
macos == << told, short, cursor, sent, delivered >>
vars == << mouse, ring, pc, local, old, macos, extended, flag, ipc, mixed >>

Slots == 0 .. KEY_BUFFER_SIZE - 1

Following(ptr) == (ptr + 1) % KEY_BUFFER_SIZE

\* The absolute position is not known.
Unknown == -1

InputPC == {"idle", "zero", "bump", "post"}
EmulatorPC == {"mac", "lock", "mouse", "button", "keys", "key"}

\* A position is in the hands of ADBInterrupt().
Taken == pc \in {"mouse", "button"}

\* ADBInit(); the display driver may ask for the relative mode next.
Init ==
    /\ relative_mouse = FALSE
    /\ mouse_x = 0 /\ old_mouse_x = 0 /\ mx = 0
    /\ mouse_button = [b \in Buttons |-> FALSE]
    /\ old_mouse_button = mouse_button /\ mb = mouse_button /\ told = mouse_button
    /\ key_buffer = [i \in Slots |-> 0]
    /\ key_read_ptr = 0 /\ key_write_ptr = 0 /\ mac_code = 0
    /\ extended = FALSE /\ flag = FALSE
    /\ ipc = "idle" /\ pc = "mac"
    /\ keys = 0 /\ overflow = FALSE /\ delivered = 0
    /\ host = Unknown
    /\ moves = 0 /\ sent = 0 /\ modes = 0 /\ mixed = FALSE
    /\ short = FALSE /\ cursor = {}

-----------------------------------------------------------------------------
(* The input thread.                                                       *)

\* Mutant of Moved: a movement replaces the one that has not been sent.
MovedReplaces(x) == x

Moved(x) == IF relative_mouse THEN mouse_x + x ELSE x

\* ADBMouseMoved(), up to SetInterruptFlag().
ADBMouseMoved(x) ==
    /\ ipc = "idle"
    /\ IF relative_mouse THEN /\ x \in {-1, 1}
                              /\ moves < MaxMoves
                              /\ moves' = moves + 1
                              /\ host' = host + x
                         ELSE /\ x \in Positions
                              /\ moves' = moves
                              /\ host' = x
    /\ mouse_x' = Moved(x)
    /\ ipc' = "post"
    /\ UNCHANGED << relative_mouse, mouse_button, modes, ring, pc, local, old, macos, extended, flag, mixed >>

\* ADBMouseDown() and ADBMouseUp().
ADBMouseButton(b) ==
    /\ ipc = "idle"
    /\ mouse_button' = [mouse_button EXCEPT ![b] = ~@]
    /\ ipc' = "post"
    /\ UNCHANGED << relative_mouse, mouse_x, host, moves, modes, ring, pc, local, old, macos, extended, flag, mixed >>

\* ADBSetRelMouseMode() with another mode, up to the assignment of the position.
\* If ADBInterrupt() has taken a position, it will use it in the new mode.
ADBSetRelMouseMode ==
    /\ ipc = "idle"
    /\ modes < MaxModes
    /\ modes' = modes + 1
    /\ relative_mouse' = ~relative_mouse
    /\ host' = IF relative_mouse THEN Unknown ELSE 0
    /\ sent' = 0
    /\ mixed' = Taken
    /\ ipc' = "zero"
    /\ UNCHANGED << mouse_x, mouse_button, moves, ring, pc, local, old, told, short, cursor, delivered,
                    extended, flag >>

ZeroMouse ==
    /\ ipc = "zero"
    /\ mouse_x' = 0
    /\ ipc' = "idle"
    /\ UNCHANGED << relative_mouse, mouse_button, host, moves, modes, ring, pc, local, old, macos, extended, flag, mixed >>

\* Mutant of ADBKey: the event is stored behind the slot the pointer will release.
ADBKeyBehind ==
    /\ ipc = "idle"
    /\ keys < MaxKeys
    /\ keys' = keys + 1
    /\ key_buffer' = [key_buffer EXCEPT ![Following(key_write_ptr)] = keys + 1]
    /\ ipc' = "bump"
    /\ UNCHANGED << mouse, key_read_ptr, key_write_ptr, overflow, pc, local, old, macos, extended, flag, mixed >>

\* ADBKeyDown() and ADBKeyUp(): the event is stored ...
ADBKey ==
    /\ ipc = "idle"
    /\ keys < MaxKeys
    /\ keys' = keys + 1
    /\ key_buffer' = [key_buffer EXCEPT ![key_write_ptr] = keys + 1]
    /\ ipc' = "bump"
    /\ UNCHANGED << mouse, key_read_ptr, key_write_ptr, overflow, pc, local, old, macos, extended, flag, mixed >>

\* ... and the ring now has it; if that was the last slot, it looks empty.
BumpWrite ==
    /\ ipc = "bump"
    /\ key_write_ptr' = Following(key_write_ptr)
    /\ overflow' = (overflow \/ key_write_ptr' = key_read_ptr)
    /\ ipc' = "post"
    /\ UNCHANGED << mouse, key_buffer, key_read_ptr, keys, pc, local, old, macos, extended, flag, mixed >>

\* SetInterruptFlag() and TriggerInterrupt().
Post ==
    /\ ipc = "post"
    /\ flag' = TRUE
    /\ ipc' = "idle"
    /\ UNCHANGED << mouse, ring, pc, local, old, macos, extended, mixed >>

-----------------------------------------------------------------------------
(* The emulator thread.                                                    *)

\* ADBOp(): Listen to register 3 of the mouse selects its protocol, and a reset
\* of the bus the 100/200 dpi protocol.
ADBOp(handler) ==
    /\ pc = "mac"
    /\ extended' = handler
    /\ UNCHANGED << mouse, ring, pc, local, old, macos, flag, ipc, mixed >>

\* M68K_EMUL_OP_IRQ; MacOS has started, and ADB is initialised.
TakeInterrupt ==
    /\ pc = "mac"
    /\ flag
    /\ flag' = FALSE
    /\ pc' = "lock"
    /\ UNCHANGED << mouse, ring, local, old, macos, extended, ipc, mixed >>

\* The state of the mouse is taken with mouse_lock.
TakeMouse ==
    /\ pc = "lock"
    /\ mx' = mouse_x
    /\ mouse_x' = IF relative_mouse THEN 0 ELSE mouse_x
    /\ mb' = mouse_button
    /\ mixed' = (mixed \/ ipc = "zero")
    /\ pc' = "mouse"
    /\ UNCHANGED << relative_mouse, mouse_button, host, moves, modes, ring, mac_code, old, macos,
                    extended, flag, ipc >>

\* The movement MacOS makes of the low bits of x.
Received(x) ==
    LET r == IF extended THEN ExtendedRange ELSE Range
    IN  ((x + (r \div 2)) % r) - (r \div 2)

\* The buttons of mb for the handler of the mouse: 100/200 dpi has no bit for the third.
TellButtons ==
    /\ told' = [b \in Buttons |-> IF extended \/ b \notin ThirdButton THEN mb[b] ELSE told[b]]
    /\ short' = ~extended

\* Relative mode: the handler of the mouse is called for a movement or a button; a
\* movement takes the cursor away from where it was put.
SendRelative ==
    /\ pc = "mouse"
    /\ relative_mouse
    /\ IF mx # 0 \/ mb # old_mouse_button
       THEN /\ TellButtons
            /\ sent' = sent + Received(mx)
            /\ cursor' = IF Received(mx) = 0 THEN cursor ELSE {}
            /\ pc' = "button"
       ELSE /\ UNCHANGED << told, short, sent, cursor >>
            /\ pc' = "keys"
    /\ UNCHANGED << mouse, ring, local, old, delivered, extended, flag, ipc, mixed >>

\* Absolute mode: a position other than the last one written is written to the
\* variables of MacOS, and the handler is called for a button.
SendAbsolute ==
    /\ pc = "mouse"
    /\ ~relative_mouse
    /\ old_mouse_x' = mx
    /\ cursor' = IF mx = old_mouse_x THEN cursor ELSE {mx}
    /\ IF mb # old_mouse_button
       THEN TellButtons /\ pc' = "button"
       ELSE UNCHANGED << told, short >> /\ pc' = "keys"
    /\ UNCHANGED << mouse, ring, local, old_mouse_button, sent, delivered, extended, flag, ipc, mixed >>

\* Mutant of ButtonSent: the state of the buttons is read again.
ButtonReread ==
    /\ pc = "button"
    /\ old_mouse_button' = mouse_button
    /\ pc' = "keys"
    /\ UNCHANGED << mouse, ring, local, old_mouse_x, macos, extended, flag, ipc, mixed >>

\* The handler of the mouse returns.
ButtonSent ==
    /\ pc = "button"
    /\ old_mouse_button' = mb
    /\ pc' = "keys"
    /\ UNCHANGED << mouse, ring, local, old_mouse_x, macos, extended, flag, ipc, mixed >>

\* An event is taken from the ring ...
ReadKey ==
    /\ pc = "keys"
    /\ key_read_ptr # key_write_ptr
    /\ mac_code' = key_buffer[key_read_ptr]
    /\ key_read_ptr' = Following(key_read_ptr)
    /\ pc' = "key"
    /\ UNCHANGED << mouse, key_buffer, key_write_ptr, keys, overflow, mx, mb, old, macos, extended,
                    flag, ipc, mixed >>

\* ... and given to the handler of the keyboard.
KeySent ==
    /\ pc = "key"
    /\ delivered' = mac_code
    /\ pc' = "keys"
    /\ UNCHANGED << mouse, ring, local, old, told, short, cursor, sent, extended, flag, ipc, mixed >>

InterruptEnds ==
    /\ pc = "keys"
    /\ key_read_ptr = key_write_ptr
    /\ pc' = "mac"
    /\ UNCHANGED << mouse, ring, local, old, macos, extended, flag, ipc, mixed >>

-----------------------------------------------------------------------------

Input ==
    \/ \E x \in Positions \cup {-1, 1} : ADBMouseMoved(x)
    \/ \E b \in Buttons : ADBMouseButton(b)
    \/ ADBSetRelMouseMode
    \/ ZeroMouse
    \/ ADBKey
    \/ BumpWrite
    \/ Post

ADBInterrupt ==
    \/ TakeInterrupt
    \/ TakeMouse
    \/ SendRelative
    \/ SendAbsolute
    \/ ButtonSent
    \/ ReadKey
    \/ KeySent
    \/ InterruptEnds

Next == Input \/ ADBInterrupt \/ \E handler \in BOOLEAN : ADBOp(handler)

Spec == Init /\ [][Next]_vars

-----------------------------------------------------------------------------
(* Properties.                                                             *)

\* The state is well formed.
TypeOK ==
    /\ relative_mouse \in BOOLEAN /\ extended \in BOOLEAN /\ flag \in BOOLEAN
    /\ overflow \in BOOLEAN /\ mixed \in BOOLEAN /\ short \in BOOLEAN
    /\ cursor \subseteq Int
    /\ mouse_x \in Int /\ old_mouse_x \in Int /\ mx \in Int
    /\ sent \in Int /\ host \in Int
    /\ {mouse_button, old_mouse_button, mb, told} \subseteq [Buttons -> BOOLEAN]
    /\ key_buffer \in [Slots -> 0 .. MaxKeys]
    /\ key_read_ptr \in Slots /\ key_write_ptr \in Slots
    /\ mac_code \in 0 .. MaxKeys /\ keys \in 0 .. MaxKeys /\ delivered \in 0 .. MaxKeys
    /\ moves \in 0 .. MaxMoves /\ modes \in 0 .. MaxModes
    /\ ipc \in InputPC /\ pc \in EmulatorPC

\* As long as the ring never was full, MacOS is given the key events one by one and
\* in the order they were made, none twice, though neither pointer has a lock.
KeysInOrder == [][delivered' # delivered => overflow \/ delivered' = delivered + 1]_vars

\* When neither thread has anything to do and no interrupt is pending, MacOS has been
\* told all that happened: every key; the buttons as they are, though the third only if
\* they were sent last in the extended protocol; and in absolute mode the last position,
\* if one was reported.  It is not told a position that is the one written before a
\* relative movement took the cursor away from there: old_mouse_x still has it, and for
\* the code nothing has changed.
NothingLeft ==
    ipc = "idle" /\ pc = "mac" /\ ~flag =>
      /\ overflow \/ delivered = keys
      /\ \A b \in Buttons : told[b] = mouse_button[b] \/ (short /\ b \in ThirdButton)
      /\ IF relative_mouse THEN mouse_x = 0
         ELSE host = Unknown \/ cursor = {host} \/ (cursor = {} /\ host = old_mouse_x)

\* In relative mode no movement is lost or sent twice: what MacOS has been sent, is
\* being sent and will be sent is what the host has moved.  Only a movement of more
\* than the protocol has bits for comes short, by whole turns of these bits.
InFlight == IF pc = "mouse" THEN mx ELSE 0
MotionKept ==
    relative_mouse /\ ipc # "zero" /\ ~mixed => (sent + InFlight + mouse_x - host) % Range = 0

=============================================================================
