------------------------------ MODULE AdbProofs -----------------------------
(***************************************************************************)
(* Proofs about Adb, for every size of the ring, width of the protocols,   *)
(* set of buttons and positions, and all bounds.  While the ring does not  *)
(* overflow its pointers are the numbers of key events taken and stored,   *)
(* modulo its size: the first lemmas are about the remainder.              *)
(***************************************************************************)
EXTENDS Adb, TLAPS

\* Quotient and remainder.
LEMMA DivMod ==
  ASSUME NEW a \in Nat, NEW n \in Nat \ {0}
  PROVE /\ a \div n \in Nat /\ a % n \in 0 .. n-1 /\ a = n * (a \div n) + (a % n)
  OBVIOUS

\* They are unique.
LEMMA Unique ==
  ASSUME NEW n \in Nat \ {0}, NEW q \in Int, NEW p \in Int, NEW r \in 0 .. n-1, NEW t \in 0 .. n-1, n*q + r = n*p + t
  PROVE r = t /\ q = p
  <1>1. CASE q = p
    BY <1>1
  <1>2. CASE q < p
    <2>1. n*p >= n*q + n
      BY <1>2
    <2> QED BY <2>1
  <1>3. CASE q > p
    <2>1. n*q >= n*p + n
      BY <1>3
    <2> QED BY <2>1
  <1> QED BY <1>1, <1>2, <1>3

\* A remainder is recognised by its quotient.
LEMMA ModIs ==
  ASSUME NEW n \in Nat \ {0}, NEW a \in Nat, NEW q \in Int, NEW r \in 0 .. n - 1, a = n * q + r
  PROVE  a % n = r
  <1>1. a \div n \in Int /\ a % n \in 0 .. n - 1 /\ a = n * (a \div n) + (a % n)
    <2>1. a \div n \in Nat /\ a % n \in 0 .. n - 1 /\ a = n * (a \div n) + (a % n)
      BY DivMod, Zenon
    <2> QED
      BY <2>1
  <1> DEFINE p == a \div n
             t == a % n
  <1>2. p \in Int /\ t \in 0 .. n - 1 /\ n * p + t = n * q + r
    BY <1>1
  <1> HIDE DEF p, t
  <1>3. t = r
    BY <1>2, Unique
  <1> QED
    BY <1>3 DEF t

\* The remainder of zero.
LEMMA ZeroMod ==
  ASSUME NEW n \in Nat \ {0}
  PROVE  0 % n = 0
  <1>1. 0 = n * 0 + 0 /\ 0 \in 0 .. n - 1 /\ 0 \in Nat /\ 0 \in Int
    OBVIOUS
  <1> QED
    BY <1>1, ModIs, Zenon

\* The remainder of the next number.
LEMMA NextMod ==
  ASSUME NEW a \in Nat, NEW n \in Nat \ {0}
  PROVE ((a % n) + 1) % n = (a+1) % n
  <1> DEFINE r == a % n
             q == a \div n
  <1>1. q \in Nat /\ r \in 0 .. n - 1 /\ a = n * q + r
    BY DivMod
  <1> SUFFICES (r + 1) % n = (a + 1) % n
    BY Zenon
  <1> HIDE DEF r, q
  <1>2. CASE r + 1 < n
    <2>1. a + 1 = n * q + (r + 1) /\ r + 1 \in 0 .. n - 1 /\ a + 1 \in Nat /\ q \in Int
      BY <1>1, <1>2
    <2>2. (a + 1) % n = r + 1
      BY <2>1, ModIs, Zenon
    <2>3. (r + 1) % n = r + 1
      BY <2>1
    <2> QED
      BY <2>2, <2>3
  <1>3. CASE r + 1 = n
    <2>1. a + 1 = n * (q + 1) + 0 /\ 0 \in 0 .. n - 1 /\ a + 1 \in Nat /\ q + 1 \in Int
      BY <1>1, <1>3
    <2>2. (a + 1) % n = 0
      BY <2>1, ModIs, Zenon
    <2>3. (r + 1) % n = 0
      BY <1>3
    <2> QED
      BY <2>2, <2>3
  <1> QED
    BY <1>1, <1>2, <1>3

\* Numbers that are less than n apart have different remainders.
LEMMA ModInj ==
  ASSUME NEW a \in Nat, NEW b \in Nat, NEW n \in Nat \ {0}, a <= b, b < a + n, a % n = b % n
  PROVE a = b
  <1> DEFINE r == a % n
             q == a \div n
             p == b \div n
  <1>1. q \in Nat /\ r \in 0 .. n - 1 /\ a = n * q + r
    BY DivMod
  <1>2. p \in Nat /\ b = n * p + r
    BY DivMod
  <1> HIDE DEF r, q, p
  <1>3. n * p < n * q + n /\ n * q <= n * p
    BY <1>1, <1>2
  <1>4. CASE q = p
    BY <1>1, <1>2, <1>4
  <1>5. CASE q < p
    <2>1. n * p >= n * q + n
      BY <1>1, <1>2, <1>5
    <2> QED
      BY <1>1, <1>2, <1>3, <2>1
  <1>6. CASE p < q
    <2>1. n * q >= n * p + n
      BY <1>1, <1>2, <1>6
    <2> QED
      BY <1>1, <1>2, <1>3, <2>1
  <1> QED
    BY <1>1, <1>2, <1>4, <1>5, <1>6

\* The same of the number after it, and of the one a turn further.
LEMMA NextOf ==
  ASSUME NEW a \in Int, a - 1 \in Nat, NEW n \in Nat \ {0}
  PROVE (((a - 1) % n) + 1) % n = a % n
  <1>1. (((a - 1) % n) + 1) % n = ((a - 1) + 1) % n
    BY NextMod
  <1>2. (a - 1) + 1 = a
    OBVIOUS
  <1> QED
    BY <1>1, <1>2

LEMMA ModTurn ==
  ASSUME NEW a \in Nat, NEW n \in Nat \ {0}
  PROVE (a + n) % n = a % n
  <1> DEFINE r == a % n
             q == a \div n
  <1>1. q \in Nat /\ r \in 0 .. n - 1 /\ a = n * q + r
    BY DivMod
  <1> SUFFICES (a + n) % n = r
    BY Zenon
  <1> HIDE DEF r, q
  <1>2. a + n = n * (q + 1) + r /\ a + n \in Nat /\ q + 1 \in Int
    BY <1>1
  <1> QED
    BY <1>1, <1>2, ModIs, Zenon

\* Whole turns do not change what a turn divides, in either direction.
LEMMA ModTurns ==
  ASSUME NEW a \in Int, NEW n \in Nat \ {0}, NEW k \in Int, a % n = 0
  PROVE (a + (n * k)) % n = 0
  <1> DEFINE q == a \div n
             b == a + (n * k)
             p == b \div n
             t == b % n
  <1>1. q \in Int /\ a = n * q + 0
    OBVIOUS
  <1>2. b \in Int /\ p \in Int /\ t \in 0 .. n - 1 /\ b = n * p + t
    OBVIOUS
  <1>3. b = a + (n * k)
    OBVIOUS
  <1> HIDE DEF q, b, p, t
  <1> DEFINE s == q + k
  <1>4. n * s + 0 = n * p + t /\ s \in Int /\ 0 \in 0 .. n - 1
    BY <1>1, <1>2, <1>3
  <1> HIDE DEF s
  <1>5. 0 = t
    BY <1>2, <1>4, Unique
  <1> QED
    BY <1>5 DEF t, b

-----------------------------------------------------------------------------

\* Key events that are in the ring or have been, and those taken from it.
Stored == IF ipc = "bump" THEN keys - 1 ELSE keys
TakenKeys == IF pc = "key" THEN mac_code ELSE delivered

\* The pointers, and the events between them.
StoredOK ==
    /\ ipc = "bump" => keys > 0
    /\ key_write_ptr = Stored % KEY_BUFFER_SIZE

RingOK ==
    ~overflow =>
      /\ TakenKeys <= Stored
      /\ Stored < TakenKeys + KEY_BUFFER_SIZE
      /\ key_read_ptr = TakenKeys % KEY_BUFFER_SIZE
      /\ \A k \in Nat : TakenKeys <= k /\ k < keys => key_buffer[k % KEY_BUFFER_SIZE] = k + 1
      /\ pc = "key" => mac_code = delivered + 1

\* ADBInterrupt() will run, or is about to take the state of the mouse.
Coming == flag \/ ipc = "post" \/ pc = "lock"

KeysSeen == overflow \/ Coming \/ ipc = "bump" \/ pc # "mac" \/ delivered = keys

\* MacOS was told of the buttons s, as far as the protocol goes.
Told(s) == \A b \in Buttons : told[b] = s[b] \/ (short /\ b \in ThirdButton)

ButtonsSeen ==
    /\ pc = "button" => Told(mb)
    /\ pc # "button" => Told(old_mouse_button)
    /\ Coming \/ mouse_button = (IF Taken THEN mb ELSE old_mouse_button)

PositionSeen ==
    /\ ~relative_mouse /\ host # Unknown =>
         /\ ipc # "zero"
         /\ mouse_x = host
         /\ Coming \/ host = IF pc = "mouse" THEN mx ELSE old_mouse_x
    /\ relative_mouse /\ ipc # "zero" => Coming \/ mouse_x = 0

\* The cursor is where ADBInterrupt() put it last, unless it has moved since.
CursorKnown == cursor = {} \/ cursor = {old_mouse_x}

\* While the mode changes nothing has been reported or sent in the new one.
ModeOK == ipc = "zero" => /\ relative_mouse => host = 0
                          /\ ~mixed => ~Taken /\ sent = 0

IInv ==
    /\ TypeOK
    /\ StoredOK
    /\ RingOK
    /\ KeysSeen
    /\ ButtonsSeen
    /\ PositionSeen
    /\ CursorKnown
    /\ ModeOK
    /\ MotionKept

\* The pointers go round within the ring.
LEMMA FollowingSlot ==
  ASSUME NEW ptr \in Slots
  PROVE  Following(ptr) \in Slots
  <1>1. ptr + 1 \in Nat /\ KEY_BUFFER_SIZE \in Nat \ {0}
    BY SizeAssumption DEF Slots
  <1> QED
    BY <1>1, DivMod DEF Following, Slots

\* What MacOS makes of a movement differs from it by whole turns of the protocol.
LEMMA ReceivedTurns ==
  ASSUME NEW x \in Int
  PROVE  /\ Received(x) \in Int
         /\ \E k \in Int : Received(x) = x + (Range * k)
  <1> DEFINE r == IF extended THEN ExtendedRange ELSE Range
             h == r \div 2
             y == x + h
             q == y \div r
             t == y % r
             m == r \div Range
  <1>1. r \in Nat \ {0} /\ Range \in Nat \ {0} /\ h \in Int
    BY RangeAssumption
  <1>2. r = Range * m /\ m \in Int
    <2>1. r % Range = 0
      BY RangeAssumption
    <2> HIDE DEF r
    <2> QED
      BY <1>1, <2>1
  <1>3. Received(x) = t - h
    BY DEF Received
  <1> HIDE DEF r, h
  <1>4. y \in Int /\ y = x + h
    BY <1>1
  <1> HIDE DEF y
  <1>5. q \in Int /\ t \in Int /\ y = r * q + t
    BY <1>1, <1>4
  <1> HIDE DEF q, t, m
  <1>6. t - h = x - (r * q)
    BY <1>1, <1>4, <1>5
  <1>7. r * q = Range * (m * q)
    BY <1>1, <1>2, <1>5
  <1>8. x - (r * q) = x + (Range * (-(m * q))) /\ -(m * q) \in Int
    BY <1>1, <1>2, <1>5, <1>7
  <1>9. Received(x) = x + (Range * (-(m * q)))
    BY <1>3, <1>6, <1>8
  <1>10. Received(x) \in Int
    BY <1>1, <1>3, <1>5
  <1> QED
    BY <1>8, <1>9, <1>10

\* A call of the handler leaves MacOS with the buttons it was told, or as they were.
LEMMA TellTypes ==
  ASSUME TypeOK, TellButtons
  PROVE  told' \in [Buttons -> BOOLEAN] /\ short' \in BOOLEAN
<1>1. told \in [Buttons -> BOOLEAN] /\ mb \in [Buttons -> BOOLEAN] /\ extended \in BOOLEAN
  BY DEF TypeOK
<1>2. told' \in [Buttons -> BOOLEAN]
  BY <1>1 DEF TellButtons
<1>3. short' \in BOOLEAN
  BY Zenon DEF TellButtons
<1> QED
  BY <1>2, <1>3

\* ... and told of all of them that the protocol has a bit for.
LEMMA TellsButtons ==
  ASSUME TypeOK, TellButtons, UNCHANGED mb
  PROVE  Told(mb)'
<1>1. told' = [b \in Buttons |-> IF extended \/ b \notin ThirdButton THEN mb[b] ELSE told[b]] /\ short' = ~extended
  BY DEF TellButtons
<1>2. ASSUME NEW b \in Buttons PROVE told'[b] = mb[b] \/ (short' /\ b \in ThirdButton)
  BY <1>1, Zenon
<1> QED
  BY <1>2 DEF Told

\* Every step keeps the types.
LEMMA TypeOKKept ==
  ASSUME IInv, [Next]_vars
  PROVE  TypeOK'
<1> USE SizeAssumption, PositionsAssumption, RangeAssumption, BoundsAssumption DEF IInv, TypeOK, InputPC, EmulatorPC, Slots
<1>1. ASSUME NEW x \in Positions \cup {-1, 1}, ADBMouseMoved(x) PROVE TypeOK'
  <2>1. x \in Int
    OBVIOUS
  <2>2. mouse_x' \in Int /\ host' \in Int /\ moves' \in 0 .. MaxMoves /\ ipc' \in InputPC
    <3>1. CASE relative_mouse
      BY <1>1, <2>1, <3>1 DEF ADBMouseMoved, Moved
    <3>2. CASE ~relative_mouse
      BY <1>1, <2>1, <3>2 DEF ADBMouseMoved, Moved
    <3> QED
      BY <3>1, <3>2
  <2> QED
    BY <1>1, <2>2 DEF ADBMouseMoved, ring, local, old, macos
<1>2. ASSUME NEW b \in Buttons, ADBMouseButton(b) PROVE TypeOK'
  BY <1>2 DEF ADBMouseButton, ring, local, old, macos
<1>3. CASE ADBSetRelMouseMode
  <2>1. relative_mouse' \in BOOLEAN
    BY <1>3, Zenon DEF ADBSetRelMouseMode
  <2>2. mixed' \in BOOLEAN
    <3>1. mixed' = Taken
      BY <1>3 DEF ADBSetRelMouseMode
    <3>2. Taken \in BOOLEAN
      BY SMT DEF Taken
    <3> QED
      BY <3>1, <3>2, Zenon
  <2>3. host' \in Int /\ sent' \in Int /\ modes' \in 0 .. MaxModes /\ ipc' \in InputPC
    BY <1>3 DEF ADBSetRelMouseMode, Unknown
  <2> QED
    BY <1>3, <2>1, <2>2, <2>3 DEF ADBSetRelMouseMode, ring, local, old
<1>4. CASE ZeroMouse
  BY <1>4 DEF ZeroMouse, ring, local, old, macos
<1>5. CASE ADBKey
  <2>1. keys + 1 \in 0 .. MaxKeys
    BY <1>5 DEF ADBKey
  <2>2. key_buffer' \in [Slots -> 0 .. MaxKeys] /\ keys' \in 0 .. MaxKeys /\ ipc' \in InputPC
    BY <1>5, <2>1 DEF ADBKey
  <2> QED
    BY <1>5, <2>2 DEF ADBKey, mouse, local, old, macos
<1>6. CASE BumpWrite
  <2>1. Following(key_write_ptr) \in Slots
    BY FollowingSlot
  <2>2. overflow' \in BOOLEAN
    BY <1>6, Zenon DEF BumpWrite
  <2>3. key_write_ptr' \in Slots /\ ipc' \in InputPC
    BY <1>6, <2>1 DEF BumpWrite
  <2> QED
    BY <1>6, <2>2, <2>3 DEF BumpWrite, mouse, local, old, macos
<1>7. CASE Post
  BY <1>7 DEF Post, mouse, ring, local, old, macos
<1>8. CASE TakeInterrupt
  BY <1>8 DEF TakeInterrupt, mouse, ring, local, old, macos
<1>9. CASE TakeMouse
  BY <1>9 DEF TakeMouse, ring, old, macos
<1>10. CASE SendRelative
  <2>1. Received(mx) \in Int
    BY ReceivedTurns
  <2>2. CASE mx # 0 \/ mb # old_mouse_button
    <3>1. sent' = sent + Received(mx) /\ pc' = "button"
      BY <1>10, <2>2 DEF SendRelative
    <3>2. told' \in [Buttons -> BOOLEAN] /\ short' \in BOOLEAN
      BY <1>10, <2>2, TellTypes DEF SendRelative
    <3>3. cursor' = cursor \/ cursor' = {}
      BY <1>10, <2>2, Zenon DEF SendRelative
    <3>4. cursor' \subseteq Int
      <4>1. cursor \subseteq Int
        OBVIOUS
      <4> QED
        BY <3>3, <4>1
    <3>5. sent' \in Int
      <4>1. sent \in Int
        OBVIOUS
      <4> QED
        BY <2>1, <3>1, <4>1
    <3> QED
      BY <1>10, <3>1, <3>2, <3>4, <3>5 DEF SendRelative, mouse, ring, local, old
  <2>3. CASE ~(mx # 0 \/ mb # old_mouse_button)
    <3>1. sent' = sent /\ told' = told /\ short' = short /\ cursor' = cursor /\ pc' = "keys"
      BY <1>10, <2>3 DEF SendRelative
    <3> QED
      BY <1>10, <3>1 DEF SendRelative, mouse, ring, local, old
  <2> QED
    BY <2>2, <2>3
<1>11. CASE SendAbsolute
  <2>1. old_mouse_x' \in Int /\ pc' \in EmulatorPC /\ cursor' \subseteq Int
    BY <1>11 DEF SendAbsolute
  <2>2. told' \in [Buttons -> BOOLEAN] /\ short' \in BOOLEAN
    BY <1>11, TellTypes DEF SendAbsolute
  <2> QED
    BY <1>11, <2>1, <2>2 DEF SendAbsolute, mouse, ring, local
<1>12. CASE ButtonSent
  BY <1>12 DEF ButtonSent, mouse, ring, local, macos
<1>13. CASE ReadKey
  <2>1. Following(key_read_ptr) \in Slots
    BY FollowingSlot
  <2>2. mac_code' \in 0 .. MaxKeys /\ key_read_ptr' \in Slots /\ pc' \in EmulatorPC
    BY <1>13, <2>1 DEF ReadKey
  <2> QED
    BY <1>13, <2>2 DEF ReadKey, mouse, old, macos
<1>14. CASE KeySent
  BY <1>14 DEF KeySent, mouse, ring, local, old
<1>15. CASE InterruptEnds
  BY <1>15 DEF InterruptEnds, mouse, ring, local, old, macos
<1>16. ASSUME NEW handler \in BOOLEAN, ADBOp(handler) PROVE TypeOK'
  BY <1>16 DEF ADBOp, mouse, ring, local, old, macos
<1>17. CASE UNCHANGED vars
  BY <1>17 DEF vars, mouse, ring, local, old, macos
<1> QED
  BY <1>1, <1>2, <1>3, <1>4, <1>5, <1>6, <1>7, <1>8, <1>9, <1>10, <1>11, <1>12,
    <1>13, <1>14, <1>15, <1>16, <1>17 DEF Next, Input, ADBInterrupt

\* Storing in one slot of a function leaves the others alone (ADBKeyDown() and
\* ADBKeyUp() write one byte of key_buffer).
LEMMA ExceptOther ==
    ASSUME NEW S, NEW R, NEW f \in [S -> R], NEW a, NEW b \in S, a # b, NEW v
    PROVE  [f EXCEPT ![a] = v][b] = f[b]
BY Zenon

\* The write pointer counts the events stored.
LEMMA StoredOKKept ==
  ASSUME IInv, [Next]_vars
  PROVE  StoredOK'
<1> USE SizeAssumption, PositionsAssumption, RangeAssumption, BoundsAssumption DEF IInv, TypeOK, InputPC, EmulatorPC, Slots
<1>1. ASSUME NEW x \in Positions \cup {-1, 1}, ADBMouseMoved(x) PROVE StoredOK'
  BY <1>1 DEF ADBMouseMoved, Moved, ring, local, old, macos, StoredOK, Stored
<1>2. ASSUME NEW b \in Buttons, ADBMouseButton(b) PROVE StoredOK'
  BY <1>2 DEF ADBMouseButton, ring, local, old, macos, StoredOK, Stored
<1>3. CASE ADBSetRelMouseMode
  BY <1>3 DEF ADBSetRelMouseMode, Taken, ring, local, old, StoredOK, Stored
<1>4. CASE ZeroMouse
  BY <1>4 DEF ZeroMouse, ring, local, old, macos, StoredOK, Stored
<1>5. CASE ADBKey
  BY <1>5 DEF ADBKey, mouse, local, old, macos, StoredOK, Stored
<1>6. CASE BumpWrite
  <2>1. keys - 1 \in Nat /\ key_write_ptr = (keys - 1) % KEY_BUFFER_SIZE
    BY <1>6 DEF BumpWrite, StoredOK, Stored
  <2>2. (((keys - 1) % KEY_BUFFER_SIZE) + 1) % KEY_BUFFER_SIZE = keys % KEY_BUFFER_SIZE
    <3>1. keys \in Int /\ keys - 1 \in Nat /\ KEY_BUFFER_SIZE \in Nat \ {0}
      BY <2>1
    <3> QED
      BY <3>1, NextOf, Zenon
  <2>3. key_write_ptr' = keys % KEY_BUFFER_SIZE
    BY <1>6, <2>1, <2>2, Zenon DEF BumpWrite, Following
  <2> QED
    BY <1>6, <2>3 DEF BumpWrite, StoredOK, Stored
<1>7. CASE Post
  BY <1>7 DEF Post, mouse, ring, local, old, macos, StoredOK, Stored
<1>8. CASE TakeInterrupt
  BY <1>8 DEF TakeInterrupt, mouse, ring, local, old, macos, StoredOK, Stored
<1>9. CASE TakeMouse
  BY <1>9 DEF TakeMouse, ring, old, macos, StoredOK, Stored
<1>10. CASE SendRelative
  BY <1>10 DEF SendRelative, Received, mouse, ring, local, old, StoredOK, Stored
<1>11. CASE SendAbsolute
  BY <1>11 DEF SendAbsolute, mouse, ring, local, StoredOK, Stored
<1>12. CASE ButtonSent
  BY <1>12 DEF ButtonSent, mouse, ring, local, macos, StoredOK, Stored
<1>13. CASE ReadKey
  BY <1>13 DEF ReadKey, Following, mouse, old, macos, StoredOK, Stored
<1>14. CASE KeySent
  BY <1>14 DEF KeySent, mouse, ring, local, old, StoredOK, Stored
<1>15. CASE InterruptEnds
  BY <1>15 DEF InterruptEnds, mouse, ring, local, old, macos, StoredOK, Stored
<1>16. ASSUME NEW handler \in BOOLEAN, ADBOp(handler) PROVE StoredOK'
  BY <1>16 DEF ADBOp, mouse, ring, local, old, macos, StoredOK, Stored
<1>17. CASE UNCHANGED vars
  BY <1>17 DEF vars, mouse, ring, local, old, macos, StoredOK, Stored
<1> QED
  BY <1>1, <1>2, <1>3, <1>4, <1>5, <1>6, <1>7, <1>8, <1>9, <1>10, <1>11, <1>12,
    <1>13, <1>14, <1>15, <1>16, <1>17 DEF Next, Input, ADBInterrupt

\* The ring holds the events that are stored and not taken, in order.
LEMMA RingOKKept ==
  ASSUME IInv, [Next]_vars
  PROVE  RingOK'
<1> USE SizeAssumption, PositionsAssumption, RangeAssumption, BoundsAssumption DEF IInv, TypeOK, InputPC, EmulatorPC, Slots
<1>1. ASSUME NEW x \in Positions \cup {-1, 1}, ADBMouseMoved(x) PROVE RingOK'
  BY <1>1 DEF ADBMouseMoved, Moved, ring, local, old, macos, RingOK, StoredOK,
    Stored, TakenKeys
<1>2. ASSUME NEW b \in Buttons, ADBMouseButton(b) PROVE RingOK'
  BY <1>2 DEF ADBMouseButton, ring, local, old, macos, RingOK, StoredOK,
    Stored, TakenKeys
<1>3. CASE ADBSetRelMouseMode
  BY <1>3 DEF ADBSetRelMouseMode, Taken, ring, local, old, RingOK, StoredOK,
    Stored, TakenKeys
<1>4. CASE ZeroMouse
  BY <1>4 DEF ZeroMouse, ring, local, old, macos, RingOK, StoredOK, Stored,
    TakenKeys
<1>5. CASE ADBKey
  <2> SUFFICES ASSUME ~overflow PROVE RingOK'
    BY <1>5 DEF ADBKey, RingOK
  <2> DEFINE T == TakenKeys
  <2>1. T \in Nat /\ T' = T /\ keys \in Nat /\ keys' = keys + 1 /\ Stored = keys /\ Stored' = keys
    BY <1>5 DEF ADBKey, Stored, TakenKeys, local, macos
  <2>2. T <= keys /\ keys < T + KEY_BUFFER_SIZE /\ key_write_ptr = keys % KEY_BUFFER_SIZE
    BY <2>1 DEF RingOK, StoredOK
  <2>3. ASSUME NEW k \in Nat, T <= k, k < keys + 1
        PROVE  key_buffer'[k % KEY_BUFFER_SIZE] = k + 1
    <3>1. k % KEY_BUFFER_SIZE \in Slots
      BY DivMod DEF Slots
    <3>2. CASE k = keys
      BY <1>5, <2>2, <3>1, <3>2 DEF ADBKey
    <3>3. CASE k < keys
      <4>1. k <= keys /\ keys < k + KEY_BUFFER_SIZE
        BY <2>1, <2>2, <2>3, <3>3
      <4>2. k % KEY_BUFFER_SIZE # key_write_ptr
        <5>1. SUFFICES ASSUME k % KEY_BUFFER_SIZE = keys % KEY_BUFFER_SIZE PROVE k = keys
          BY <2>2, <3>3, <2>1
        <5>2. KEY_BUFFER_SIZE \in Nat \ {0}
          OBVIOUS
        <5> QED
          BY <2>1, <4>1, <5>1, <5>2, ModInj, Zenon
      <4>3. key_buffer[k % KEY_BUFFER_SIZE] = k + 1
        BY <2>1, <2>3, <3>3 DEF RingOK
      <4> QED
        <5> DEFINE i == k % KEY_BUFFER_SIZE
        <5>1. key_buffer' = [key_buffer EXCEPT ![key_write_ptr] = keys + 1]
          BY <1>5 DEF ADBKey
        <5> SUFFICES key_buffer'[i] = key_buffer[i]
          BY <4>3
        <5>3. i \in Slots /\ i # key_write_ptr
          BY <3>1, <4>2
        <5> HIDE DEF i
        <5>2. key_buffer \in [Slots -> 0 .. MaxKeys]
          OBVIOUS
        <5> QED
          BY <5>1, <5>2, <5>3, ExceptOther, Zenon
    <3>4. k = keys \/ k < keys
      <4>1. keys \in Nat
        BY <2>1
      <4> HIDE DEF T
      <4> QED
        BY <2>3, <4>1
    <3> QED
      BY <3>2, <3>3, <3>4
  <2>4. key_read_ptr' = T % KEY_BUFFER_SIZE /\ (pc' = "key" => mac_code' = delivered' + 1)
    BY <1>5 DEF ADBKey, RingOK, local, macos
  <2> HIDE DEF T
  <2> QED
    BY <2>1, <2>2, <2>3, <2>4 DEF RingOK, T
<1>6. CASE BumpWrite
  <2> SUFFICES ASSUME ~overflow, key_write_ptr' # key_read_ptr PROVE RingOK'
    BY <1>6 DEF BumpWrite, RingOK
  <2> DEFINE T == TakenKeys
  <2>1. T \in Nat /\ T' = T /\ keys \in Nat /\ keys' = keys /\ Stored' = keys
    BY <1>6 DEF BumpWrite, Stored, TakenKeys, local, macos
  <2>2. keys - 1 \in Nat /\ Stored = keys - 1 /\ key_write_ptr = (keys - 1) % KEY_BUFFER_SIZE
    BY <1>6 DEF BumpWrite, StoredOK, Stored
  <2>3. T <= keys - 1 /\ keys - 1 < T + KEY_BUFFER_SIZE /\ key_read_ptr = T % KEY_BUFFER_SIZE
    BY <2>2 DEF RingOK
  <2>4. key_write_ptr' = keys % KEY_BUFFER_SIZE
    <3>1. (((keys - 1) % KEY_BUFFER_SIZE) + 1) % KEY_BUFFER_SIZE = keys % KEY_BUFFER_SIZE
      <4>1. keys \in Int /\ keys - 1 \in Nat /\ KEY_BUFFER_SIZE \in Nat \ {0}
        BY <2>2
      <4> QED
        BY <4>1, NextOf, Zenon
    <3> QED
      BY <1>6, <2>2, <3>1, Zenon DEF BumpWrite, Following
  <2> HIDE DEF T
  <2>5. keys # T + KEY_BUFFER_SIZE
    <3>1. (T + KEY_BUFFER_SIZE) % KEY_BUFFER_SIZE = T % KEY_BUFFER_SIZE
      BY <2>1, ModTurn, ZenonT(30)
    <3> QED
      BY <2>3, <2>4, <3>1, ZenonT(30)
  <2>6. T <= keys /\ keys < T + KEY_BUFFER_SIZE
    BY <2>1, <2>3, <2>5
  <2>7. /\ key_read_ptr' = key_read_ptr /\ key_buffer' = key_buffer
        /\ pc' = pc /\ mac_code' = mac_code /\ delivered' = delivered
    BY <1>6 DEF BumpWrite, local, macos
  <2>8. ASSUME NEW k \in Nat, T <= k, k < keys
        PROVE  key_buffer'[k % KEY_BUFFER_SIZE] = k + 1
    BY <2>7, <2>8 DEF RingOK, T
  <2>9. pc' = "key" => mac_code' = delivered' + 1
    BY <2>7 DEF RingOK
  <2> QED
    BY <2>1, <2>3, <2>6, <2>7, <2>8, <2>9 DEF RingOK, T
<1>7. CASE Post
  BY <1>7 DEF Post, mouse, ring, local, old, macos, RingOK, StoredOK, Stored,
    TakenKeys
<1>8. CASE TakeInterrupt
  BY <1>8 DEF TakeInterrupt, mouse, ring, local, old, macos, RingOK, StoredOK,
    Stored, TakenKeys
<1>9. CASE TakeMouse
  BY <1>9 DEF TakeMouse, ring, old, macos, RingOK, StoredOK, Stored, TakenKeys
<1>10. CASE SendRelative
  BY <1>10 DEF SendRelative, Received, mouse, ring, local, old, RingOK,
    StoredOK, Stored, TakenKeys
<1>11. CASE SendAbsolute
  BY <1>11 DEF SendAbsolute, mouse, ring, local, RingOK, StoredOK, Stored,
    TakenKeys
<1>12. CASE ButtonSent
  BY <1>12 DEF ButtonSent, mouse, ring, local, macos, RingOK, StoredOK, Stored,
    TakenKeys
<1>13. CASE ReadKey
  <2> SUFFICES ASSUME ~overflow PROVE RingOK'
    BY <1>13 DEF ReadKey, RingOK
  <2>1. /\ TakenKeys = delivered /\ delivered \in Nat /\ Stored \in Nat
        /\ Stored' = Stored /\ keys' = keys /\ Stored <= keys /\ keys \in Nat
    <3>1. keys \in Nat /\ (ipc = "bump" => keys > 0)
      BY DEF StoredOK
    <3> QED
      BY <1>13, <3>1 DEF ReadKey, Stored, TakenKeys
  <2>2. /\ delivered <= Stored /\ Stored < delivered + KEY_BUFFER_SIZE
        /\ key_read_ptr = delivered % KEY_BUFFER_SIZE
    BY <2>1 DEF RingOK
  <2>3. delivered < Stored
    <3>1. delivered # Stored
      BY <1>13, <2>2 DEF ReadKey, StoredOK
    <3> QED
      BY <2>1, <2>2, <3>1
  <2>4. mac_code' = delivered + 1
    <3>1. key_buffer[delivered % KEY_BUFFER_SIZE] = delivered + 1
      BY <2>1, <2>3 DEF RingOK
    <3> QED
      BY <1>13, <2>2, <3>1 DEF ReadKey
  <2>5. TakenKeys' = delivered + 1 /\ delivered' = delivered /\ key_buffer' = key_buffer
    BY <1>13, <2>4 DEF ReadKey, TakenKeys, macos
  <2>6. key_read_ptr' = (delivered + 1) % KEY_BUFFER_SIZE
    <3>1. ((delivered % KEY_BUFFER_SIZE) + 1) % KEY_BUFFER_SIZE = (delivered + 1) % KEY_BUFFER_SIZE
      BY <2>1, NextMod
    <3> QED
      BY <1>13, <2>2, <3>1, Zenon DEF ReadKey, Following
  <2>7. ASSUME NEW k \in Nat, delivered + 1 <= k, k < keys
        PROVE  key_buffer'[k % KEY_BUFFER_SIZE] = k + 1
    <3>1. TakenKeys <= k
      BY <2>1, <2>7
    <3> QED
      BY <2>5, <2>7, <3>1 DEF RingOK
  <2> QED
    BY <2>1, <2>2, <2>3, <2>4, <2>5, <2>6, <2>7 DEF RingOK
<1>14. CASE KeySent
  BY <1>14 DEF KeySent, mouse, ring, local, old, RingOK, StoredOK, Stored,
    TakenKeys
<1>15. CASE InterruptEnds
  BY <1>15 DEF InterruptEnds, mouse, ring, local, old, macos, RingOK, StoredOK,
    Stored, TakenKeys
<1>16. ASSUME NEW handler \in BOOLEAN, ADBOp(handler) PROVE RingOK'
  BY <1>16 DEF ADBOp, mouse, ring, local, old, macos, RingOK, StoredOK, Stored,
    TakenKeys
<1>17. CASE UNCHANGED vars
  BY <1>17 DEF vars, mouse, ring, local, old, macos, RingOK, StoredOK, Stored,
    TakenKeys
<1> QED
  BY <1>1, <1>2, <1>3, <1>4, <1>5, <1>6, <1>7, <1>8, <1>9, <1>10, <1>11, <1>12,
    <1>13, <1>14, <1>15, <1>16, <1>17 DEF Next, Input, ADBInterrupt

\* A key event that MacOS has not been given is about to be looked at.
LEMMA KeysSeenKept ==
  ASSUME IInv, [Next]_vars
  PROVE  KeysSeen'
<1> USE SizeAssumption, PositionsAssumption, RangeAssumption, BoundsAssumption DEF IInv, TypeOK, InputPC, EmulatorPC, Slots
<1>1. ASSUME NEW x \in Positions \cup {-1, 1}, ADBMouseMoved(x) PROVE KeysSeen'
  BY <1>1 DEF ADBMouseMoved, Moved, ring, local, old, macos, KeysSeen, Coming
<1>2. ASSUME NEW b \in Buttons, ADBMouseButton(b) PROVE KeysSeen'
  BY <1>2 DEF ADBMouseButton, ring, local, old, macos, KeysSeen, Coming
<1>3. CASE ADBSetRelMouseMode
  BY <1>3 DEF ADBSetRelMouseMode, Taken, ring, local, old, KeysSeen, Coming
<1>4. CASE ZeroMouse
  BY <1>4 DEF ZeroMouse, ring, local, old, macos, KeysSeen, Coming
<1>5. CASE ADBKey
  BY <1>5 DEF ADBKey, mouse, local, old, macos, KeysSeen, Coming
<1>6. CASE BumpWrite
  BY <1>6 DEF BumpWrite, Following, mouse, local, old, macos, KeysSeen, Coming
<1>7. CASE Post
  BY <1>7 DEF Post, mouse, ring, local, old, macos, KeysSeen, Coming
<1>8. CASE TakeInterrupt
  BY <1>8 DEF TakeInterrupt, mouse, ring, local, old, macos, KeysSeen, Coming
<1>9. CASE TakeMouse
  BY <1>9 DEF TakeMouse, ring, old, macos, KeysSeen, Coming
<1>10. CASE SendRelative
  BY <1>10 DEF SendRelative, Received, mouse, ring, local, old, KeysSeen, Coming
<1>11. CASE SendAbsolute
  BY <1>11 DEF SendAbsolute, mouse, ring, local, KeysSeen, Coming
<1>12. CASE ButtonSent
  BY <1>12 DEF ButtonSent, mouse, ring, local, macos, KeysSeen, Coming
<1>13. CASE ReadKey
  BY <1>13 DEF ReadKey, Following, mouse, old, macos, KeysSeen, Coming
<1>14. CASE KeySent
  BY <1>14 DEF KeySent, mouse, ring, local, old, KeysSeen, Coming
<1>15. CASE InterruptEnds
  <2>1. CASE overflow \/ ipc = "bump"
    BY <1>15, <2>1 DEF InterruptEnds, KeysSeen, ring
  <2>2. CASE ~overflow /\ ipc # "bump"
    <3>1. /\ delivered <= keys /\ keys < delivered + KEY_BUFFER_SIZE
          /\ delivered % KEY_BUFFER_SIZE = keys % KEY_BUFFER_SIZE
      BY <1>15, <2>2 DEF InterruptEnds, RingOK, StoredOK, Stored, TakenKeys
    <3>2. delivered \in Nat /\ keys \in Nat
      OBVIOUS
    <3>3. delivered = keys
      BY <3>1, <3>2, ModInj
    <3> QED
      BY <1>15, <3>3 DEF InterruptEnds, KeysSeen, ring, macos
  <2> QED
    BY <2>1, <2>2
<1>16. ASSUME NEW handler \in BOOLEAN, ADBOp(handler) PROVE KeysSeen'
  BY <1>16 DEF ADBOp, mouse, ring, local, old, macos, KeysSeen, Coming
<1>17. CASE UNCHANGED vars
  BY <1>17 DEF vars, mouse, ring, local, old, macos, KeysSeen, Coming
<1> QED
  BY <1>1, <1>2, <1>3, <1>4, <1>5, <1>6, <1>7, <1>8, <1>9, <1>10, <1>11, <1>12,
    <1>13, <1>14, <1>15, <1>16, <1>17 DEF Next, Input, ADBInterrupt

\* So are the buttons ...
LEMMA ButtonsSeenKept ==
  ASSUME IInv, [Next]_vars
  PROVE  ButtonsSeen'
<1> USE SizeAssumption, PositionsAssumption, RangeAssumption, BoundsAssumption DEF IInv, TypeOK, InputPC, EmulatorPC, Slots
<1>1. ASSUME NEW x \in Positions \cup {-1, 1}, ADBMouseMoved(x) PROVE ButtonsSeen'
  BY <1>1 DEF ADBMouseMoved, Moved, ring, local, old, macos, ButtonsSeen, Told,
    Coming, Taken
<1>2. ASSUME NEW b \in Buttons, ADBMouseButton(b) PROVE ButtonsSeen'
  BY <1>2 DEF ADBMouseButton, ring, local, old, macos, ButtonsSeen, Told, Coming,
    Taken
<1>3. CASE ADBSetRelMouseMode
  BY <1>3 DEF ADBSetRelMouseMode, Taken, ring, local, old, ButtonsSeen, Told, Coming
<1>4. CASE ZeroMouse
  BY <1>4 DEF ZeroMouse, ring, local, old, macos, ButtonsSeen, Told, Coming, Taken
<1>5. CASE ADBKey
  BY <1>5 DEF ADBKey, mouse, local, old, macos, ButtonsSeen, Told, Coming, Taken
<1>6. CASE BumpWrite
  BY <1>6 DEF BumpWrite, Following, mouse, local, old, macos, ButtonsSeen, Told,
    Coming, Taken
<1>7. CASE Post
  BY <1>7 DEF Post, mouse, ring, local, old, macos, ButtonsSeen, Told, Coming, Taken
<1>8. CASE TakeInterrupt
  BY <1>8 DEF TakeInterrupt, mouse, ring, local, old, macos, ButtonsSeen, Told,
    Coming, Taken
<1>9. CASE TakeMouse
  BY <1>9 DEF TakeMouse, ring, old, macos, ButtonsSeen, Told, Coming, Taken
<1>10. CASE SendRelative
  <2>1. pc = "mouse" /\ UNCHANGED << mb, old_mouse_button, mouse_button, flag, ipc >>
    BY <1>10 DEF SendRelative, local, old, mouse
  <2>2. CASE mx # 0 \/ mb # old_mouse_button
    <3>1. TellButtons /\ pc' = "button"
      BY <1>10, <2>2 DEF SendRelative
    <3> QED
      BY <2>1, <3>1, TellsButtons DEF ButtonsSeen, Coming, Taken
  <2>3. CASE ~(mx # 0 \/ mb # old_mouse_button)
    <3>1. told' = told /\ short' = short /\ pc' = "keys" /\ mb = old_mouse_button
      BY <1>10, <2>3 DEF SendRelative
    <3> QED
      BY <2>1, <3>1 DEF ButtonsSeen, Told, Coming, Taken
  <2> QED
    BY <2>2, <2>3
<1>11. CASE SendAbsolute
  <2>1. pc = "mouse" /\ UNCHANGED << mb, old_mouse_button, mouse_button, flag, ipc >>
    BY <1>11 DEF SendAbsolute, local, mouse
  <2>2. CASE mb # old_mouse_button
    <3>1. TellButtons /\ pc' = "button"
      BY <1>11, <2>2 DEF SendAbsolute
    <3> QED
      BY <2>1, <3>1, TellsButtons DEF ButtonsSeen, Coming, Taken
  <2>3. CASE mb = old_mouse_button
    <3>1. told' = told /\ short' = short /\ pc' = "keys"
      BY <1>11, <2>3 DEF SendAbsolute
    <3> QED
      BY <2>1, <2>3, <3>1 DEF ButtonsSeen, Told, Coming, Taken
  <2> QED
    BY <2>2, <2>3
<1>12. CASE ButtonSent
  BY <1>12 DEF ButtonSent, mouse, ring, local, macos, ButtonsSeen, Told, Coming, Taken
<1>13. CASE ReadKey
  BY <1>13 DEF ReadKey, Following, mouse, old, macos, ButtonsSeen, Told, Coming, Taken
<1>14. CASE KeySent
  BY <1>14 DEF KeySent, mouse, ring, local, old, ButtonsSeen, Told, Coming, Taken
<1>15. CASE InterruptEnds
  BY <1>15 DEF InterruptEnds, mouse, ring, local, old, macos, ButtonsSeen, Told,
    Coming, Taken
<1>16. ASSUME NEW handler \in BOOLEAN, ADBOp(handler) PROVE ButtonsSeen'
  BY <1>16 DEF ADBOp, mouse, ring, local, old, macos, ButtonsSeen, Told, Coming, Taken
<1>17. CASE UNCHANGED vars
  BY <1>17 DEF vars, mouse, ring, local, old, macos, ButtonsSeen, Told, Coming, Taken
<1> QED
  BY <1>1, <1>2, <1>3, <1>4, <1>5, <1>6, <1>7, <1>8, <1>9, <1>10, <1>11, <1>12,
    <1>13, <1>14, <1>15, <1>16, <1>17 DEF Next, Input, ADBInterrupt

\* ... and the position.
LEMMA PositionSeenKept ==
  ASSUME IInv, [Next]_vars
  PROVE  PositionSeen'
<1> USE SizeAssumption, PositionsAssumption, RangeAssumption, BoundsAssumption DEF IInv, TypeOK, InputPC, EmulatorPC, Slots
<1>1. ASSUME NEW x \in Positions \cup {-1, 1}, ADBMouseMoved(x) PROVE PositionSeen'
  BY <1>1 DEF ADBMouseMoved, Moved, ring, local, old, macos, PositionSeen,
    Coming, Unknown
<1>2. ASSUME NEW b \in Buttons, ADBMouseButton(b) PROVE PositionSeen'
  BY <1>2 DEF ADBMouseButton, ring, local, old, macos, PositionSeen, Coming,
    Unknown
<1>3. CASE ADBSetRelMouseMode
  BY <1>3 DEF ADBSetRelMouseMode, Taken, ring, local, old, PositionSeen,
    Coming, Unknown
<1>4. CASE ZeroMouse
  BY <1>4 DEF ZeroMouse, ring, local, old, macos, PositionSeen, Coming, Unknown
<1>5. CASE ADBKey
  BY <1>5 DEF ADBKey, mouse, local, old, macos, PositionSeen, Coming, Unknown
<1>6. CASE BumpWrite
  BY <1>6 DEF BumpWrite, Following, mouse, local, old, macos, PositionSeen,
    Coming, Unknown
<1>7. CASE Post
  BY <1>7 DEF Post, mouse, ring, local, old, macos, PositionSeen, Coming,
    Unknown
<1>8. CASE TakeInterrupt
  BY <1>8 DEF TakeInterrupt, mouse, ring, local, old, macos, PositionSeen,
    Coming, Unknown
<1>9. CASE TakeMouse
  BY <1>9 DEF TakeMouse, ring, old, macos, PositionSeen, Coming, Unknown
<1>10. CASE SendRelative
  BY <1>10 DEF SendRelative, Received, mouse, ring, local, old, PositionSeen,
    Coming, Unknown
<1>11. CASE SendAbsolute
  BY <1>11 DEF SendAbsolute, mouse, ring, local, PositionSeen, Coming, Unknown
<1>12. CASE ButtonSent
  BY <1>12 DEF ButtonSent, mouse, ring, local, macos, PositionSeen, Coming,
    Unknown
<1>13. CASE ReadKey
  BY <1>13 DEF ReadKey, Following, mouse, old, macos, PositionSeen, Coming,
    Unknown
<1>14. CASE KeySent
  BY <1>14 DEF KeySent, mouse, ring, local, old, PositionSeen, Coming, Unknown
<1>15. CASE InterruptEnds
  BY <1>15 DEF InterruptEnds, mouse, ring, local, old, macos, PositionSeen,
    Coming, Unknown
<1>16. ASSUME NEW handler \in BOOLEAN, ADBOp(handler) PROVE PositionSeen'
  BY <1>16 DEF ADBOp, mouse, ring, local, old, macos, PositionSeen, Coming,
    Unknown
<1>17. CASE UNCHANGED vars
  BY <1>17 DEF vars, mouse, ring, local, old, macos, PositionSeen, Coming,
    Unknown
<1> QED
  BY <1>1, <1>2, <1>3, <1>4, <1>5, <1>6, <1>7, <1>8, <1>9, <1>10, <1>11, <1>12,
    <1>13, <1>14, <1>15, <1>16, <1>17 DEF Next, Input, ADBInterrupt

\* Only SendRelative and SendAbsolute are about the cursor.
LEMMA CursorKnownKept ==
  ASSUME IInv, [Next]_vars
  PROVE  CursorKnown'
<1>1. CASE SendRelative
  BY <1>1 DEF SendRelative, IInv, CursorKnown, old
<1>2. CASE SendAbsolute
  BY <1>2 DEF SendAbsolute, IInv, CursorKnown
<1>3. ASSUME ~SendRelative, ~SendAbsolute PROVE UNCHANGED << cursor, old_mouse_x >>
  BY <1>3 DEF Next, Input, ADBInterrupt, ADBMouseMoved, ADBMouseButton, ADBSetRelMouseMode, ZeroMouse,
    ADBKey, BumpWrite, Post, TakeInterrupt, TakeMouse, ButtonSent, ReadKey, KeySent, InterruptEnds, ADBOp,
    old, macos, vars
<1> QED
  BY <1>1, <1>2, <1>3 DEF IInv, CursorKnown

\* A change of mode starts from nothing.
LEMMA ModeOKKept ==
  ASSUME IInv, [Next]_vars
  PROVE  ModeOK'
<1> USE SizeAssumption, PositionsAssumption, RangeAssumption, BoundsAssumption DEF IInv, TypeOK, InputPC, EmulatorPC, Slots
<1>1. ASSUME NEW x \in Positions \cup {-1, 1}, ADBMouseMoved(x) PROVE ModeOK'
  BY <1>1 DEF ADBMouseMoved, Moved, ring, local, old, macos, ModeOK, Taken
<1>2. ASSUME NEW b \in Buttons, ADBMouseButton(b) PROVE ModeOK'
  BY <1>2 DEF ADBMouseButton, ring, local, old, macos, ModeOK, Taken
<1>3. CASE ADBSetRelMouseMode
  BY <1>3 DEF ADBSetRelMouseMode, Taken, ring, local, old, ModeOK
<1>4. CASE ZeroMouse
  BY <1>4 DEF ZeroMouse, ring, local, old, macos, ModeOK, Taken
<1>5. CASE ADBKey
  BY <1>5 DEF ADBKey, mouse, local, old, macos, ModeOK, Taken
<1>6. CASE BumpWrite
  BY <1>6 DEF BumpWrite, Following, mouse, local, old, macos, ModeOK, Taken
<1>7. CASE Post
  BY <1>7 DEF Post, mouse, ring, local, old, macos, ModeOK, Taken
<1>8. CASE TakeInterrupt
  BY <1>8 DEF TakeInterrupt, mouse, ring, local, old, macos, ModeOK, Taken
<1>9. CASE TakeMouse
  BY <1>9 DEF TakeMouse, ring, old, macos, ModeOK, Taken
<1>10. CASE SendRelative
  BY <1>10 DEF SendRelative, Received, mouse, ring, local, old, ModeOK, Taken
<1>11. CASE SendAbsolute
  BY <1>11 DEF SendAbsolute, mouse, ring, local, ModeOK, Taken
<1>12. CASE ButtonSent
  BY <1>12 DEF ButtonSent, mouse, ring, local, macos, ModeOK, Taken
<1>13. CASE ReadKey
  BY <1>13 DEF ReadKey, Following, mouse, old, macos, ModeOK, Taken
<1>14. CASE KeySent
  BY <1>14 DEF KeySent, mouse, ring, local, old, ModeOK, Taken
<1>15. CASE InterruptEnds
  BY <1>15 DEF InterruptEnds, mouse, ring, local, old, macos, ModeOK, Taken
<1>16. ASSUME NEW handler \in BOOLEAN, ADBOp(handler) PROVE ModeOK'
  BY <1>16 DEF ADBOp, mouse, ring, local, old, macos, ModeOK, Taken
<1>17. CASE UNCHANGED vars
  BY <1>17 DEF vars, mouse, ring, local, old, macos, ModeOK, Taken
<1> QED
  BY <1>1, <1>2, <1>3, <1>4, <1>5, <1>6, <1>7, <1>8, <1>9, <1>10, <1>11, <1>12,
    <1>13, <1>14, <1>15, <1>16, <1>17 DEF Next, Input, ADBInterrupt

\* Every step keeps the account of the movement.
LEMMA MotionKeptKept ==
  ASSUME IInv, [Next]_vars
  PROVE  MotionKept'
<1> USE SizeAssumption, PositionsAssumption, RangeAssumption, BoundsAssumption DEF IInv, TypeOK, InputPC, EmulatorPC, Slots
<1>1. ASSUME NEW x \in Positions \cup {-1, 1}, ADBMouseMoved(x) PROVE MotionKept'
  <2> SUFFICES ASSUME relative_mouse, ~mixed PROVE MotionKept'
    BY <1>1 DEF ADBMouseMoved, MotionKept
  <2>1. x \in Int
    OBVIOUS
  <2>2. InFlight' = InFlight /\ InFlight \in Int
    BY <1>1 DEF ADBMouseMoved, InFlight, local
  <2>3. mouse_x' = mouse_x + x /\ host' = host + x /\ sent' = sent
    BY <1>1 DEF ADBMouseMoved, Moved, macos
  <2>4. (sent + InFlight + mouse_x - host) % Range = 0
    BY <1>1 DEF ADBMouseMoved, MotionKept
  <2>5. sent' + InFlight' + mouse_x' - host' = sent + InFlight + mouse_x - host
    BY <2>1, <2>2, <2>3
  <2> QED
    BY <2>4, <2>5 DEF MotionKept
<1>2. ASSUME NEW b \in Buttons, ADBMouseButton(b) PROVE MotionKept'
  BY <1>2 DEF ADBMouseButton, ring, local, old, macos, MotionKept, InFlight
<1>3. CASE ADBSetRelMouseMode
  BY <1>3 DEF ADBSetRelMouseMode, Taken, ring, local, old, MotionKept, InFlight
<1>4. CASE ZeroMouse
  <2> SUFFICES ASSUME relative_mouse, ~mixed PROVE MotionKept'
    BY <1>4 DEF ZeroMouse, MotionKept
  <2>1. sent' = 0 /\ host' = 0 /\ mouse_x' = 0 /\ InFlight' = 0
    BY <1>4 DEF ZeroMouse, ModeOK, Taken, InFlight, macos
  <2>2. sent' + InFlight' + mouse_x' - host' = 0
    BY <2>1
  <2>3. 0 % Range = 0
    BY ZeroMod
  <2> QED
    BY <2>2, <2>3 DEF MotionKept
<1>5. CASE ADBKey
  BY <1>5 DEF ADBKey, mouse, local, old, macos, MotionKept, InFlight
<1>6. CASE BumpWrite
  BY <1>6 DEF BumpWrite, Following, mouse, local, old, macos, MotionKept,
    InFlight
<1>7. CASE Post
  BY <1>7 DEF Post, mouse, ring, local, old, macos, MotionKept, InFlight
<1>8. CASE TakeInterrupt
  BY <1>8 DEF TakeInterrupt, mouse, ring, local, old, macos, MotionKept,
    InFlight
<1>9. CASE TakeMouse
  BY <1>9 DEF TakeMouse, ring, old, macos, MotionKept, InFlight
<1>10. CASE SendRelative
  <2> SUFFICES ASSUME ipc # "zero", ~mixed PROVE MotionKept'
    BY <1>10 DEF SendRelative, MotionKept
  <2>1. (sent + mx + mouse_x - host) % Range = 0
    BY <1>10 DEF SendRelative, MotionKept, InFlight
  <2>2. InFlight' = 0 /\ mouse_x' = mouse_x /\ host' = host
    BY <1>10 DEF SendRelative, InFlight, mouse
  <2>3. CASE mx # 0 \/ mb # old_mouse_button
    <3>1. PICK k \in Int : Received(mx) = mx + (Range * k)
      BY ReceivedTurns
    <3>2. sent' = sent + Received(mx)
      BY <1>10, <2>3 DEF SendRelative
    <3> DEFINE a == sent + mx + mouse_x - host
               u == Range * k
    <3>3. a \in Int /\ u \in Int /\ Received(mx) = mx + u
      BY <3>1
    <3> HIDE DEF u
    <3>4. sent' + InFlight' + mouse_x' - host' = a + u
      BY <2>2, <3>2, <3>3
    <3>5. a % Range = 0
      BY <2>1
    <3> HIDE DEF a
    <3>6. (a + (Range * k)) % Range = 0
      BY <3>3, <3>5, ModTurns, Range \in Nat \ {0}
    <3> QED
      BY <3>4, <3>6 DEF MotionKept, u
  <2>4. CASE ~(mx # 0 \/ mb # old_mouse_button)
    <3>1. sent' + InFlight' + mouse_x' - host' = sent + mx + mouse_x - host
      BY <1>10, <2>2, <2>4 DEF SendRelative
    <3> QED
      BY <2>1, <3>1 DEF MotionKept
  <2> QED
    BY <2>3, <2>4
<1>11. CASE SendAbsolute
  BY <1>11 DEF SendAbsolute, mouse, ring, local, MotionKept, InFlight
<1>12. CASE ButtonSent
  BY <1>12 DEF ButtonSent, mouse, ring, local, macos, MotionKept, InFlight
<1>13. CASE ReadKey
  BY <1>13 DEF ReadKey, Following, mouse, old, macos, MotionKept, InFlight
<1>14. CASE KeySent
  BY <1>14 DEF KeySent, mouse, ring, local, old, MotionKept, InFlight
<1>15. CASE InterruptEnds
  BY <1>15 DEF InterruptEnds, mouse, ring, local, old, macos, MotionKept,
    InFlight
<1>16. ASSUME NEW handler \in BOOLEAN, ADBOp(handler) PROVE MotionKept'
  BY <1>16 DEF ADBOp, mouse, ring, local, old, macos, MotionKept, InFlight
<1>17. CASE UNCHANGED vars
  BY <1>17 DEF vars, mouse, ring, local, old, macos, MotionKept, InFlight
<1> QED
  BY <1>1, <1>2, <1>3, <1>4, <1>5, <1>6, <1>7, <1>8, <1>9, <1>10, <1>11, <1>12,
    <1>13, <1>14, <1>15, <1>16, <1>17 DEF Next, Input, ADBInterrupt

\* The invariant holds at first.
LEMMA InitIInv == Init => IInv
  <1> SUFFICES ASSUME Init PROVE IInv
    OBVIOUS
  <1> USE SizeAssumption, PositionsAssumption, RangeAssumption, BoundsAssumption
  <1>1. 0 \in Slots /\ 0 % KEY_BUFFER_SIZE = 0 /\ 0 % Range = 0
    BY ZeroMod DEF Slots
  <1>2. host \in Int /\ ~relative_mouse /\ host = Unknown
    BY DEF Init, Unknown
  <1>3. TypeOK
    <2>1. {mouse_button, old_mouse_button, mb, told} \subseteq [Buttons -> BOOLEAN]
      BY DEF Init
    <2>2. /\ relative_mouse \in BOOLEAN /\ extended \in BOOLEAN /\ flag \in BOOLEAN
          /\ overflow \in BOOLEAN /\ mixed \in BOOLEAN /\ short \in BOOLEAN /\ cursor \subseteq Int
      BY DEF Init
    <2>3. key_buffer \in [Slots -> 0 .. MaxKeys] /\ key_read_ptr \in Slots /\ key_write_ptr \in Slots
      BY <1>1 DEF Init
    <2> QED
      BY <1>2, <2>1, <2>2, <2>3 DEF Init, TypeOK, InputPC, EmulatorPC
  <1>4. Stored = 0 /\ TakenKeys = 0 /\ InFlight = 0
    BY DEF Init, Stored, TakenKeys, InFlight
  <1>5. StoredOK /\ KeysSeen /\ ButtonsSeen /\ ModeOK /\ CursorKnown
    BY <1>1, <1>4 DEF Init, StoredOK, KeysSeen, ButtonsSeen, Told, ModeOK, Taken, CursorKnown
  <1>6. RingOK
    BY <1>1, <1>4 DEF Init, RingOK
  <1>7. PositionSeen
    BY <1>2 DEF Init, PositionSeen
  <1>8. MotionKept
    BY <1>2 DEF MotionKept
  <1> QED
    BY <1>3, <1>5, <1>6, <1>7, <1>8 DEF IInv

\* The inductive invariant holds in every state.
THEOREM Invariance == Spec => []IInv
  <1>1. IInv /\ [Next]_vars => IInv'
    BY TypeOKKept, StoredOKKept, RingOKKept, KeysSeenKept, ButtonsSeenKept, PositionSeenKept,
       CursorKnownKept, ModeOKKept, MotionKeptKept DEF IInv
  <1> QED
    BY InitIInv, <1>1, PTL DEF Spec

-----------------------------------------------------------------------------

\* Every variable keeps its type; the pointers never leave the ring.
THEOREM TypeCorrect == Spec => []TypeOK
  <1>1. IInv => TypeOK
    BY DEF IInv
  <1> QED
    BY Invariance, <1>1, PTL

\* In relative mode the movement MacOS is sent adds up to what the host has moved,
\* although the emulator thread takes it while the input thread adds to it.
THEOREM MotionAccount == Spec => []MotionKept
  <1>1. IInv => MotionKept
    BY DEF IInv
  <1> QED
    BY Invariance, <1>1, PTL

\* At rest every key has been passed on, and so have buttons and position as far as the
\* protocol and the comparison with old_mouse_x go: what is missing is the third button
\* after a 100/200 dpi packet, and a position reported again after relative movement.
THEOREM NothingForgotten == Spec => []NothingLeft
  <1>1. IInv => NothingLeft
    <2> SUFFICES ASSUME IInv, ipc = "idle", pc = "mac", ~flag
                 PROVE  /\ overflow \/ delivered = keys
                        /\ \A b \in Buttons : told[b] = mouse_button[b] \/ (short /\ b \in ThirdButton)
                        /\ IF relative_mouse THEN mouse_x = 0
                           ELSE host = Unknown \/ cursor = {host} \/ (cursor = {} /\ host = old_mouse_x)
      BY DEF NothingLeft
    <2>1. ~Coming /\ ~Taken
      BY DEF Coming, Taken
    <2>2. overflow \/ delivered = keys
      BY <2>1 DEF IInv, KeysSeen
    <2>3. mouse_button = old_mouse_button /\ Told(old_mouse_button)
      BY <2>1 DEF IInv, ButtonsSeen
    <2>4. CASE relative_mouse
      <3>1. mouse_x = 0
        BY <2>1, <2>4 DEF IInv, PositionSeen
      <3> QED
        BY <2>2, <2>3, <2>4, <3>1 DEF Told
    <2>5. CASE ~relative_mouse
      <3>1. host = Unknown \/ host = old_mouse_x
        BY <2>1, <2>5 DEF IInv, PositionSeen
      <3>2. cursor = {} \/ cursor = {old_mouse_x}
        BY DEF IInv, CursorKnown
      <3> QED
        BY <2>2, <2>3, <2>5, <3>1, <3>2 DEF Told
    <2> QED
      BY <2>4, <2>5
  <1> QED
    BY Invariance, <1>1, PTL

\* Key events reach MacOS in their order, each once, for every size of the ring:
\* only KeySent changes what has been delivered, and to the next number.
THEOREM KeysOrdered == Spec => KeysInOrder
  <1>1. ASSUME IInv, [Next]_vars
        PROVE  delivered' # delivered => overflow \/ delivered' = delivered + 1
    <2> SUFFICES ASSUME delivered' # delivered, ~overflow
                 PROVE  delivered' = delivered + 1
      OBVIOUS
    <2>1. KeySent
      BY <1>1 DEF Next, Input, ADBInterrupt, ADBMouseMoved, ADBMouseButton, ADBSetRelMouseMode, ZeroMouse,
        ADBKey, BumpWrite, Post, TakeInterrupt, TakeMouse, SendRelative, SendAbsolute, ButtonSent,
        ReadKey, InterruptEnds, ADBOp, macos, vars
    <2> QED
      BY <1>1, <2>1 DEF KeySent, IInv, RingOK
  <1> QED
    BY Invariance, <1>1, PTL DEF Spec, KeysInOrder
=============================================================================
