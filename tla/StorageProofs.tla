---------------------------- MODULE StorageProofs ---------------------------
(***************************************************************************)
(* Proofs about the drivers and the SCSI Manager. First Drives, for every  *)
(* set of preferences: requests reach the drive they name, media are       *)
(* announced once and only for drives MacOS knows, and a disc in place     *)
(* stays. OrderOK says who works on which drive and when; the other parts  *)
(* of IInv rest on it and on each other.                                   *)
(*                                                                         *)
(* Then Scsi, for every word width, size of the table and set of TIBs: the *)
(* table holds the transfers that were asked for and loops do all their    *)
(* rounds. TableOK and TotalOK relate it to the transfers whatever order   *)
(* they are merged in; RunOK follows a loop through its own memory. What   *)
(* the sums and concatenations in them compute is proved by induction, as  *)
(* a least counterexample that cannot exist (UpTo).                        *)
(***************************************************************************)
EXTENDS Drives, Scsi, Integers, FiniteSetTheorems, SequenceTheorems, WellFoundedInduction, TLAPS

\* The session, and the two loops: the periodic call of a driver that is not yet
\* interrupt-driven, the interrupt for those that are.
OrderOK ==
    /\ queue \subseteq 1 .. opened
    /\ started => opened = Len(drives)
    /\ accrun # "none" => started /\ need_time[accrun]
    /\ \A v \in Drivers : need_time[v] => ~acc_run_called[v]
    /\ \A d \in todo["call"] : Driver(d) = accrun
    /\ \A d \in todo["interrupt"] : started /\ acc_run_called[Driver(d)]
    /\ \A c \in Contexts : todo[c] = {} => step[c] = "check"
    /\ key # 0 => Medium(key) = "floppy"
    /\ marked => key # 0
    /\ disc_found => opened # Len(drives)

NumbersOK ==
    /\ \A d, e \in queue : num[d] = num[e] => d = e
    /\ disc_found => \A d \in queue : num[d] # num[opened + 1]

\* Between PostEvent() and the assignment after it.
Posted(c, d) == step[c] = "clear" /\ d \in todo[c] /\ \A e \in todo[c] : d <= e

AnnouncedOK ==
    \A d \in queue :
        /\ announced[d] <= 1
        /\ to_be_mounted[d] /\ announced[d] # 0 => \E c \in Contexts : Posted(c, d)

HeldOK ==
    \A d \in queue :
        Driver(d) = "cdrom" /\ Medium(d) = "cd" /\ in_place[d] = 1 => locked[d] \/ allowed[d]

IInv == TypeOK /\ OrderOK /\ NumbersOK /\ AnnouncedOK /\ HeldOK

-----------------------------------------------------------------------------
(* Drive numbers                                                           *)

LEMMA LessThan ==
  ASSUME NEW x \in Nat, NEW y \in Nat, y < x
  PROVE  << y, x >> \in OpToRel(<, Nat)
  BY SMT DEF OpToRel

LEMMA LeastOf ==
  ASSUME NEW S \in SUBSET Nat, S # {}
  PROVE  \E n \in S : \A m \in S : n <= m
  <1>1. PICK n \in S : \A m \in S : ~ (<< m, n >> \in OpToRel(<, Nat))
    BY NatLessThanWellFounded, WFMin
  <1>2. \A m \in S : ~(m < n)
    BY <1>1, LessThan
  <1>3. \A m \in S : n <= m
    BY <1>2, SMT
  <1> QED  BY <1>3

\* A set is not covered by what a function makes of a smaller one.
LEMMA NotOnto ==
  ASSUME NEW A, NEW B, IsFiniteSet(A), IsFiniteSet(B), Cardinality(B) < Cardinality(A),
         NEW q \in SUBSET B, NEW f
  PROVE  \E n \in A : \A d \in q : f[d] # n
  <1> SUFFICES ASSUME \A n \in A : \E d \in q : f[d] = n
               PROVE  FALSE
    OBVIOUS
  <1> DEFINE g == [n \in A |-> CHOOSE d \in q : f[d] = n]
  <1>1. \A n \in A : g[n] \in q /\ f[g[n]] = n
    OBVIOUS
  <1>2. g \in [A -> B]
    BY <1>1
  <1> HIDE DEF g
  <1>3. \E x, y \in A : x # y /\ g[x] = g[y]
    BY <1>2, FS_PigeonHole
  <1> QED  BY <1>1, <1>3

\* The drive vectors.
LEMMA Vectors ==
  ASSUME drives \in Configs
  PROVE  /\ Len(drives) \in Nat /\ All = 1 .. Len(drives)
         /\ \A d \in All : Driver(d) \in Drivers /\ Medium(d) \in Media
  <1>1. drives \in Seq([driver : Drivers, medium : Media])
    BY ConfigsAssumption
  <1>2. Len(drives) \in Nat /\ DOMAIN drives = 1 .. Len(drives)
    BY <1>1, LenProperties
  <1>3. \A d \in 1 .. Len(drives) : drives[d] \in [driver : Drivers, medium : Media]
    BY <1>1, ElementOfSeq
  <1> QED  BY <1>2, <1>3 DEF All, Driver, Medium

\* FindFreeDriveNumber() finds a number that no drive of the queue has.
LEMMA FreeDriveNumber ==
  ASSUME TypeOK
  PROVE  /\ FindFreeDriveNumber \in 1 .. Len(drives) + 1
         /\ \A d \in queue : num[d] # FindFreeDriveNumber
  <1> DEFINE L == Len(drives)
             S == {n \in 1 .. L + 1 : \A d \in queue : num[d] # n}
  <1>1. L \in Nat /\ queue \in SUBSET (1 .. L)
    BY Vectors DEF TypeOK
  <1>2. S # {}
    <2> HIDE DEF L
    <2>1. PICK A : A = 1 .. L + 1
      OBVIOUS
    <2>2. PICK B : B = 1 .. L
      OBVIOUS
    <2>3. IsFiniteSet(A) /\ IsFiniteSet(B) /\ Cardinality(A) = L + 1 /\ Cardinality(B) = L
      BY <1>1, <2>1, <2>2, FS_Interval, SMT
    <2>4. queue \in SUBSET B /\ Cardinality(B) < Cardinality(A)
      BY <1>1, <2>2, <2>3
    <2>5. \E n \in A : \A d \in queue : num[d] # n
      BY <2>3, <2>4, NotOnto
    <2> QED  BY <2>1, <2>5
  <1>3. S \in SUBSET Nat
    BY <1>1
  <1>4. PICK n \in S : \A m \in S : n <= m
    BY <1>2, <1>3, LeastOf
  <1>5. \A m \in 1 .. n - 1 : \E d \in queue : num[d] = m
    <2>1. SUFFICES ASSUME NEW m \in 1 .. n - 1, m \notin S
                   PROVE  \E d \in queue : num[d] = m
      BY <1>1, <1>4, SMT
    <2> QED  BY <2>1, <1>1, <1>4, SMT
  <1> QED  BY <1>4, <1>5 DEF FindFreeDriveNumber

\* get_drive_info() finds a drive for every request.
LEMMA DriveFound ==
  ASSUME TypeOK, NEW q \in queue
  PROVE  LET d == Find(Driver(q), num[q])
         IN  /\ d \in All /\ Driver(d) = Driver(q) /\ num[d] = num[q]
             /\ \A e \in All : Driver(e) = Driver(q) /\ num[e] = num[q] => d <= e
  <1> DEFINE S == {d \in All : Driver(d) = Driver(q) /\ num[d] = num[q]}
  <1>1. q \in S /\ S \in SUBSET Nat
    BY Vectors DEF TypeOK
  <1>2. \E d \in S : \A e \in S : d <= e
    BY <1>1, LeastOf
  <1>3. Find(Driver(q), num[q]) = CHOOSE d \in S : \A e \in S : d <= e
    BY <1>1 DEF Find
  <1>4. /\ Find(Driver(q), num[q]) \in S
        /\ \A e \in S : Find(Driver(q), num[q]) <= e
    BY <1>2, <1>3
  <1> QED  BY <1>4

-----------------------------------------------------------------------------
(* The invariant                                                           *)

LEMMA Initially ==
  ASSUME Init
  PROVE  IInv
  <1>1. /\ Len(drives) \in Nat /\ All = 1 .. Len(drives)
    BY Vectors DEF Init
  <1>2. TypeOK
    <2>1. /\ to_be_mounted \in [All -> BOOLEAN]
          /\ present \in [All -> BOOLEAN]
      BY Zenon DEF Init
    <2>2. /\ num \in [All -> 0 .. Len(drives) + 1]
          /\ status \in [All -> {"none", "stale", "valid"}]
          /\ in_place \in [All -> {0, 1, 8}]
          /\ announced \in [All -> Nat]
          /\ opened \in 0 .. Len(drives)
          /\ key \in All \cup {0}
          /\ queue \subseteq All
      BY <1>1 DEF Init
    <2>3. /\ mount_non_hfs \in [All -> BOOLEAN]
          /\ acc_run_called \in [Drivers -> BOOLEAN]
          /\ need_time \in [Drivers -> BOOLEAN]
          /\ started \in BOOLEAN /\ disc_found \in BOOLEAN /\ marked \in BOOLEAN
          /\ locked \in [All -> BOOLEAN]
          /\ allowed \in [All -> BOOLEAN]
      BY DEF Init
    <2>4. /\ todo \in [Contexts -> SUBSET All]
          /\ step \in [Contexts -> {"check", "insert", "post", "clear"}]
          /\ accrun \in Drivers \cup {"none"}
          /\ drives \in Configs
      BY DEF Init
    <2> QED  BY <2>1, <2>2, <2>3, <2>4 DEF TypeOK
  <1>3. OrderOK
    BY DEF Init, OrderOK, Contexts
  <1> QED  BY <1>2, <1>3 DEF Init, IInv, NumbersOK, AnnouncedOK, HeldOK

\* The preferences do not change.
LEMMA SameDrives ==
  ASSUME [Next]_vars
  PROVE  drives' = drives
  <1> USE DEF config, session, accRun, loop, redraw, host, record
  <1>1. CASE MacCode
    BY <1>1 DEF MacCode, OpenDrive, LockDrive, MacStarts, Restart, AccRun, Eject, SetUserEject,
                ModifyPostEvent
  <1>2. CASE AccRunDone \/ Interrupt
    BY <1>2 DEF AccRunDone, Interrupt
  <1>3. CASE MountStep
    BY <1>3 DEF MountStep, Check, MountVolume, PostEvent, ClearFlag
  <1>4. CASE User \/ MarkFirstFloppy \/ MountFirstFloppy
    BY <1>4 DEF User, InsertMedium, RemoveMedium, PressF1, MarkFirstFloppy, MountFirstFloppy
  <1>5. CASE UNCHANGED vars
    BY <1>5 DEF vars
  <1> QED  BY <1>1, <1>2, <1>3, <1>4, <1>5 DEF Next

LEMMA OpenKeepsTypes ==
  ASSUME TypeOK, OpenDrive
  PROVE  TypeOK'
  <1> DEFINE d == opened + 1
  <1> USE DEF All, config, session, accRun, loop, redraw, host, record
  <1>1. d \in All /\ drives' = drives /\ Driver(d) \in Drivers
    BY Vectors DEF OpenDrive, TypeOK
  <1>2. FindFreeDriveNumber \in 0 .. Len(drives) + 1
    BY FreeDriveNumber, Vectors, SMT DEF TypeOK
  <1>3. /\ num' \in [All -> 0 .. Len(drives) + 1]
        /\ opened' \in 0 .. Len(drives)
    <2>1. num' = [num EXCEPT ![d] = FindFreeDriveNumber]
      BY DEF OpenDrive
    <2>2. opened' = d \/ opened' = opened
      BY DEF OpenDrive, AddDrive
    <2>3. num' \in [All -> 0 .. Len(drives) + 1]
      BY <1>1, <1>2, <2>1 DEF TypeOK
    <2>4. opened' \in 0 .. Len(drives)
      BY <1>1, <2>2, Vectors DEF TypeOK
    <2> QED  BY <2>3, <2>4
  <1>4. /\ acc_run_called' \in [Drivers -> BOOLEAN]
        /\ need_time' \in [Drivers -> BOOLEAN]
        /\ mount_non_hfs' \in [All -> BOOLEAN]
    BY <1>1 DEF OpenDrive, TypeOK
  <1>5. /\ status' \in [All -> {"none", "stale", "valid"}]
        /\ in_place' \in [All -> {0, 1, 8}]
        /\ to_be_mounted' \in [All -> BOOLEAN]
        /\ announced' \in [All -> Nat]
        /\ allowed' \in [All -> BOOLEAN]
        /\ queue' \subseteq All
        /\ disc_found' \in BOOLEAN
    <2> DEFINE disc == Driver(d) = "cdrom" /\ present[d]
    <2>1. CASE UNCHANGED << status, queue, disc_found, allowed, record >>
      <3>1. to_be_mounted' = [to_be_mounted EXCEPT ![d] = FALSE]
            \/ to_be_mounted' = [to_be_mounted EXCEPT ![d] = present[d] /\ ~disc]
        BY DEF OpenDrive
      <3>2. (present[d] /\ ~disc) \in BOOLEAN
        BY Zenon
      <3> HIDE DEF disc
      <3>3. to_be_mounted' \in [All -> BOOLEAN]
        BY <1>1, <3>1, <3>2 DEF TypeOK
      <3> QED  BY <2>1, <3>3 DEF TypeOK
    <2>2. CASE ~UNCHANGED << status, queue, disc_found, allowed, record >>
      <3>1. /\ status' = [status EXCEPT ![d] = "valid"]
            /\ in_place' = [in_place EXCEPT ![d] =
                               IF Fixed(d) THEN 8 ELSE IF present[d] /\ ~disc THEN 1 ELSE 0]
            /\ to_be_mounted' = [to_be_mounted EXCEPT ![d] = present[d] /\ ~disc]
            /\ announced' = [announced EXCEPT ![d] = 0]
            /\ allowed' = [allowed EXCEPT ![d] = FALSE]
            /\ disc_found' = disc
            /\ queue' = queue \/ queue' = queue \cup {d}
        BY <2>2 DEF OpenDrive, AddDrive
      <3>2. (present[d] /\ ~disc) \in BOOLEAN /\ disc \in BOOLEAN
        BY Zenon
      <3> HIDE DEF disc
      <3>3. to_be_mounted' \in [All -> BOOLEAN]
        BY <1>1, <3>1, <3>2 DEF TypeOK
      <3>4. (IF Fixed(d) THEN 8 ELSE IF present[d] /\ ~disc THEN 1 ELSE 0) \in {0, 1, 8}
        OBVIOUS
      <3>5. in_place' \in [All -> {0, 1, 8}]
        BY <1>1, <3>1, <3>4 DEF TypeOK
      <3> QED  BY <1>1, <3>1, <3>2, <3>3, <3>5 DEF TypeOK
    <2> QED  BY <2>1, <2>2
  <1>6. UNCHANGED << started, accrun, todo, step, key, marked, present, locked >>
    BY DEF OpenDrive
  <1> QED  BY <1>1, <1>3, <1>4, <1>5, <1>6 DEF TypeOK

\* There is a drive that LockDrive is about.
LEMMA DriveToLock ==
  ASSUME TypeOK, OrderOK, disc_found
  PROVE  /\ opened \in Nat /\ opened + 1 \in All /\ opened + 1 \in 0 .. Len(drives)
         /\ queue \subseteq All /\ opened + 1 \notin queue /\ ~started
  <1>1. Len(drives) \in Nat /\ All = 1 .. Len(drives)
    BY Vectors DEF TypeOK
  <1>2. opened \in 0 .. Len(drives) /\ opened # Len(drives) /\ ~started
    BY DEF TypeOK, OrderOK
  <1>3. opened \in Nat /\ opened + 1 \in 1 .. Len(drives) /\ opened + 1 \in 0 .. Len(drives)
    BY <1>1, <1>2
  <1>4. opened + 1 \notin queue
    BY <1>3 DEF OrderOK
  <1> QED  BY <1>1, <1>2, <1>3, <1>4 DEF TypeOK

LEMMA LockKeepsTypes ==
  ASSUME TypeOK, OrderOK, LockDrive
  PROVE  TypeOK'
  <1> DEFINE d == opened + 1
  <1>1. d \in All /\ d \in 0 .. Len(drives)
    BY DriveToLock DEF LockDrive
  <1> USE DEF All, config, session, accRun, loop, redraw, host, record
  <1>2. /\ disc_found' = FALSE
        /\ opened' = d
        /\ queue' = queue \cup {d}
        /\ in_place' = [in_place EXCEPT ![d] = 1]
        /\ to_be_mounted' = [to_be_mounted EXCEPT ![d] = TRUE]
        /\ announced' = [announced EXCEPT ![d] = 0]
        /\ locked' = [locked EXCEPT ![d] = TRUE] \/ locked' = locked
    BY DEF LockDrive, AddDrive, Lock
  <1>3. UNCHANGED << config, num, status, started, accRun, loop, redraw, present, allowed >>
    BY DEF LockDrive
  <1> HIDE DEF d
  <1>4. /\ in_place' \in [All -> {0, 1, 8}]
        /\ to_be_mounted' \in [All -> BOOLEAN]
        /\ announced' \in [All -> Nat]
        /\ locked' \in [All -> BOOLEAN]
        /\ queue' \subseteq All
    BY <1>1, <1>2 DEF TypeOK
  <1> QED  BY <1>1, <1>2, <1>3, <1>4 DEF TypeOK

LEMMA RequestsKeepTypes ==
  ASSUME TypeOK, NEW q \in queue,
         \/ Eject(q)
         \/ \E b \in BOOLEAN : SetUserEject(q, b) \/ ModifyPostEvent(q, b)
  PROVE  TypeOK'
  <1> USE DEF All, config, session, accRun, loop, redraw, host, record
  <1>1. Find(Driver(q), num[q]) \in All
    BY DriveFound
  <1>2. CASE Eject(q)
    BY <1>1, <1>2 DEF Eject, TypeOK, Lock
  <1>3. ASSUME NEW b \in BOOLEAN, SetUserEject(q, b)
        PROVE  TypeOK'
    BY <1>1, <1>3 DEF SetUserEject, TypeOK, Lock
  <1>4. ASSUME NEW b \in BOOLEAN, ModifyPostEvent(q, b)
        PROVE  TypeOK'
    BY <1>1, <1>4 DEF ModifyPostEvent, TypeOK
  <1> QED  BY <1>2, <1>3, <1>4

LEMMA LoopsKeepTypes ==
  ASSUME TypeOK, NEW c \in Contexts, NEW d \in All,
         Check(c, d) \/ MountVolume(c, d) \/ PostEvent(c, d) \/ ClearFlag(c, d)
  PROVE  TypeOK'
  <1> USE DEF All, config, session, accRun, loop, redraw, host, record, GoTo, NextDrive
  <1>1. CASE Check(c, d)
    BY <1>1 DEF Check, TypeOK
  <1>2. CASE MountVolume(c, d)
    BY <1>2 DEF MountVolume, InPlace, WriteInPlace, TypeOK, Lock
  <1>3. CASE PostEvent(c, d)
    <2>1. UNCHANGED << config, session, accRun, redraw, host, in_place, to_be_mounted >>
      BY <1>3 DEF PostEvent
    <2>2. /\ announced' = [announced EXCEPT ![d] = @ + 1] \/ announced' = announced
          /\ step' = [step EXCEPT ![c] = "clear"] \/ step' = [step EXCEPT ![c] = "check"]
          /\ todo' = todo \/ todo' = [todo EXCEPT ![c] = @ \ {d}]
      BY <1>3 DEF PostEvent
    <2>3. announced' \in [All -> Nat]
      BY <2>2 DEF TypeOK
    <2>4. todo' \in [Contexts -> SUBSET All]
      <3>1. todo[c] \ {d} \in SUBSET All
        BY DEF TypeOK
      <3>2. todo' = todo \/ todo' = [todo EXCEPT ![c] = todo[c] \ {d}]
        BY <2>2
      <3> QED  BY <3>1, <3>2 DEF TypeOK
    <2>5. step' \in [Contexts -> {"check", "insert", "post", "clear"}]
      BY <2>2 DEF TypeOK
    <2> QED  BY <2>1, <2>3, <2>4, <2>5 DEF TypeOK
  <1>4. CASE ClearFlag(c, d)
    BY <1>4 DEF ClearFlag, TypeOK
  <1> QED  BY <1>1, <1>2, <1>3, <1>4

LEMMA KeepsTypes ==
  ASSUME IInv, [Next]_vars
  PROVE  TypeOK'
  <1> USE DEF IInv, config, session, accRun, loop, redraw, host, record
  <1>1. CASE OpenDrive
    BY <1>1, OpenKeepsTypes
  <1>12. CASE LockDrive
    BY <1>12, LockKeepsTypes
  <1>2. CASE \E q \in queue : \/ Eject(q)
                              \/ \E b \in BOOLEAN : SetUserEject(q, b) \/ ModifyPostEvent(q, b)
    BY <1>2, RequestsKeepTypes
  <1>3. CASE MountStep
    BY <1>3, LoopsKeepTypes DEF MountStep
  <1>4. CASE MacStarts
    BY <1>4 DEF MacStarts, TypeOK, All
  <1>5. CASE Restart
    <2>1. 0 \in 0 .. Len(drives)
      BY Vectors DEF TypeOK
    <2>2. status' \in [All -> {"none", "stale", "valid"}]
      BY <1>5 DEF Restart, TypeOK
    <2> QED  BY <1>5, <2>1, <2>2 DEF Restart, TypeOK, All
  <1>6. CASE \E v \in Drivers : AccRun(v)
    BY <1>6 DEF AccRun, TypeOK, All, Of, Contexts
  <1>7. CASE AccRunDone
    BY <1>7 DEF AccRunDone, TypeOK, All
  <1>8. CASE Interrupt
    BY <1>8 DEF Interrupt, TypeOK, All, Of, Contexts
  <1>9. CASE User
    <2>1. ASSUME NEW d \in All, InsertMedium(d)
          PROVE  TypeOK'
      BY <2>1 DEF InsertMedium, TypeOK, All
    <2>2. ASSUME NEW d \in All, RemoveMedium(d)
          PROVE  TypeOK'
      BY <2>2 DEF RemoveMedium, TypeOK, All
    <2>3. ASSUME NEW d \in All, PressF1(d)
          PROVE  TypeOK'
      BY <2>3 DEF PressF1, TypeOK, All
    <2> QED  BY <1>9, <2>1, <2>2, <2>3 DEF User
  <1>10. CASE MountFirstFloppy
    BY <1>10 DEF MountFirstFloppy, TypeOK, All
  <1>13. CASE MarkFirstFloppy
    BY <1>13 DEF MarkFirstFloppy, WriteInPlace, TypeOK, All
  <1>11. CASE UNCHANGED vars
    BY <1>11 DEF vars, TypeOK, All
  <1> QED  BY <1>1, <1>2, <1>3, <1>4, <1>5, <1>6, <1>7, <1>8, <1>9, <1>10, <1>11, <1>12, <1>13
           DEF Next, MacCode

\* No drive is left to look at while Mac code runs.
LEMMA NothingUnderWay ==
  ASSUME TypeOK, OrderOK, accrun = "none"
  PROVE  todo["call"] = {}
  BY Vectors DEF TypeOK, OrderOK, Drivers, Contexts

\* Drives are looked at when MacOS has started, and by one loop at a time.
LEMMA LoopsApart ==
  ASSUME TypeOK, OrderOK, NEW d \in All
  PROVE  /\ \A c \in Contexts : d \in todo[c] => started
         /\ d \in todo["call"] => d \notin todo["interrupt"]
  <1>1. Driver(d) \in Drivers
    BY Vectors DEF TypeOK
  <1> QED  BY <1>1 DEF OrderOK, Contexts, Drivers

\* Open() is done with a drive, or has found a disc to lock in.
LEMMA OpenedOrFound ==
  ASSUME OpenDrive
  PROVE  \/ opened' = opened + 1 /\ ~disc_found' /\ queue' = queue /\ UNCHANGED in_place
         \/ /\ opened' = opened + 1 /\ ~disc_found' /\ queue' = queue \cup {opened + 1}
            /\ ~(Driver(opened + 1) = "cdrom" /\ present[opened + 1])
         \/ opened' = opened /\ queue' = queue
  <1> DEFINE d == opened + 1
             disc == Driver(d) = "cdrom" /\ present[d]
  <1>1. ~disc_found
    BY DEF OpenDrive
  <1>2. \/ opened' = d /\ UNCHANGED << queue, disc_found, in_place >>
        \/ disc_found' = disc /\ IF disc THEN UNCHANGED << opened, queue >> ELSE AddDrive(d)
    BY DEF OpenDrive, record
  <1> HIDE DEF disc
  <1>3. CASE opened' = d /\ UNCHANGED << queue, disc_found, in_place >>
    BY <1>1, <1>3
  <1>4. CASE disc_found' = disc /\ disc /\ UNCHANGED << opened, queue >>
    BY <1>4
  <1>5. CASE disc_found' = disc /\ ~disc /\ AddDrive(d)
    <2>1. ~disc_found'
      BY <1>5
    <2>2. ~(Driver(d) = "cdrom" /\ present[d])
      BY <1>5 DEF disc
    <2> QED  BY <1>5, <2>1, <2>2 DEF AddDrive
  <1> QED  BY <1>2, <1>3, <1>4, <1>5

LEMMA OpenKeepsOrder ==
  ASSUME TypeOK, OrderOK, OpenDrive
  PROVE  OrderOK'
  <1> DEFINE d == opened + 1
  <1> USE DEF config, session, accRun, loop, redraw, host, record
  <1>1. /\ d \in All /\ All = 1 .. Len(drives) /\ opened \in Nat /\ ~started
        /\ Driver(d) \in Drivers
    <2>1. All = 1 .. Len(drives) /\ Len(drives) \in Nat /\ opened \in Nat
      BY Vectors DEF TypeOK
    <2>2. d \in All
      BY DEF OpenDrive
    <2>3. opened # Len(drives)
      BY <2>1, <2>2
    <2>4. Driver(d) \in Drivers
      BY <2>2, Vectors DEF TypeOK
    <2> QED  BY <2>1, <2>2, <2>3, <2>4 DEF OrderOK
  <1>2. /\ acc_run_called' = [acc_run_called EXCEPT ![Driver(d)] = FALSE]
        /\ need_time' = [need_time EXCEPT ![Driver(d)] = TRUE]
        /\ \/ opened' = d /\ ~disc_found' /\ (queue' = queue \/ queue' = queue \cup {d})
           \/ opened' = opened /\ queue' = queue
        /\ UNCHANGED << drives, started, accrun, todo, step, key, marked >>
    <2>1. /\ acc_run_called' = [acc_run_called EXCEPT ![Driver(d)] = FALSE]
          /\ need_time' = [need_time EXCEPT ![Driver(d)] = TRUE]
          /\ UNCHANGED << drives, started, accrun, todo, step, key, marked >>
      BY DEF OpenDrive
    <2>2. \/ opened' = d /\ ~disc_found' /\ (queue' = queue \/ queue' = queue \cup {d})
          \/ opened' = opened /\ queue' = queue
      BY OpenedOrFound DEF OpenDrive
    <2> QED  BY <2>1, <2>2
  <1>3. queue' \subseteq 1 .. opened'
    <2>1. 1 .. opened \subseteq 1 .. d /\ d \in 1 .. d
      BY <1>1
    <2> QED  BY <1>2, <2>1 DEF OrderOK
  <1>4. \A v \in Drivers : need_time'[v] => ~acc_run_called'[v]
    BY <1>1, <1>2 DEF OrderOK, TypeOK
  <1>5. accrun = "none" /\ \A c \in Contexts : todo[c] = {}
    BY <1>1, LoopsApart DEF OrderOK, TypeOK
  <1>6. key' # 0 => Medium(key)' = "floppy"
    BY <1>2 DEF OrderOK, Medium
  <1>7. \A c \in Contexts : step[c] = "check"
    BY <1>5 DEF OrderOK
  <1>8. disc_found' => opened' # Len(drives)'
    BY <1>1, <1>2
  <1>9. marked' => key' # 0
    BY <1>2 DEF OrderOK
  <1> QED  BY <1>1, <1>2, <1>3, <1>4, <1>5, <1>6, <1>7, <1>8, <1>9 DEF OrderOK, Contexts

LEMMA LockKeepsOrder ==
  ASSUME TypeOK, OrderOK, LockDrive
  PROVE  OrderOK'
  <1> USE DEF config, session, accRun, loop, redraw, host, record
  <1>1. ~started /\ opened \in Nat
    BY DriveToLock DEF LockDrive
  <1>2. /\ opened' = opened + 1 /\ queue' = queue \cup {opened + 1} /\ disc_found' = FALSE
        /\ UNCHANGED << drives, started, acc_run_called, need_time, accrun, todo, step, key, marked >>
    BY DEF LockDrive, AddDrive
  <1>3. queue' \subseteq 1 .. opened'
    BY <1>1, <1>2 DEF OrderOK
  <1> QED  BY <1>1, <1>2, <1>3 DEF OrderOK, Contexts, Driver, Medium

LEMMA KeepsOrder ==
  ASSUME IInv, [Next]_vars
  PROVE  OrderOK'
  <1> USE DEF IInv, config, session, accRun, loop, redraw, host, record
  <1>0. drives' = drives
    BY SameDrives
  <1>1. CASE OpenDrive
    BY <1>1, OpenKeepsOrder
  <1>12. CASE LockDrive
    BY <1>12, LockKeepsOrder
  <1>2. CASE MacStarts
    BY <1>0, <1>2 DEF MacStarts, OrderOK, Driver, Medium
  <1>3. CASE Restart
    <2>1. todo["call"] = {} /\ todo["interrupt"] = {} /\ accrun = "none"
      BY <1>3, NothingUnderWay DEF Restart, InMacCode
    <2>2. /\ queue' = {} /\ opened' = 0 /\ started' = FALSE
          /\ UNCHANGED << acc_run_called, need_time, accrun, todo, step, key, marked, disc_found >>
      BY <1>3 DEF Restart
    <2>3. \A d \in todo["call"] : Driver(d)' = accrun'
      BY <2>1
    <2>4. \A d \in todo["interrupt"] : FALSE
      BY <2>1
    <2>5. disc_found' => opened' # Len(drives)'
      BY <1>0, <1>3, <2>2 DEF Restart, InMacCode, OrderOK
    <2> QED  BY <1>0, <2>1, <2>2, <2>3, <2>4, <2>5 DEF OrderOK, Medium
  <1>4. ASSUME NEW v \in Drivers, AccRun(v)
        PROVE  OrderOK'
    <2>1. step["call"] = "check" /\ started /\ need_time[v]
      BY <1>4, NothingUnderWay DEF AccRun, InMacCode, OrderOK, Contexts
    <2>2. /\ todo' = [todo EXCEPT !["call"] = Of({v})]
          /\ accrun' = v
          /\ UNCHANGED << queue, opened, started, acc_run_called, need_time, step, key, marked, disc_found >>
      BY <1>4 DEF AccRun
    <2>3. /\ todo'["call"] = Of({v}) /\ todo'["interrupt"] = todo["interrupt"]
      BY <2>2 DEF TypeOK, Contexts
    <2>4. \A d \in todo'["call"] : Driver(d)' = v
      BY <1>0, <2>3 DEF Of, Driver
    <2> QED  BY <1>0, <2>1, <2>2, <2>3, <2>4 DEF OrderOK, Contexts, Driver, Medium
  <1>5. CASE AccRunDone
    <2>1. /\ acc_run_called' = [acc_run_called EXCEPT ![accrun] = TRUE]
          /\ need_time' = [need_time EXCEPT ![accrun] = FALSE]
          /\ accrun' = "none"
          /\ todo["call"] = {} /\ todo["interrupt"] = {}
          /\ UNCHANGED << queue, opened, started, todo, step, key, marked, disc_found >>
      BY <1>5 DEF AccRunDone, Contexts
    <2>2. accrun \in Drivers
      BY <1>5 DEF AccRunDone, TypeOK
    <2>3. \A v \in Drivers : need_time'[v] => ~acc_run_called'[v]
      BY <2>1, <2>2 DEF OrderOK, TypeOK
    <2> QED  BY <1>0, <2>1, <2>3 DEF OrderOK, Medium
  <1>6. CASE Interrupt
    <2>1. /\ todo' = [todo EXCEPT !["interrupt"] = Of({v \in Drivers : acc_run_called[v]})]
          /\ started /\ todo["interrupt"] = {}
          /\ UNCHANGED << queue, opened, started, acc_run_called, need_time, accrun, step, key, marked, disc_found >>
      BY <1>6 DEF Interrupt
    <2>2. /\ todo'["call"] = todo["call"]
          /\ todo'["interrupt"] = Of({v \in Drivers : acc_run_called[v]})
      BY <2>1 DEF TypeOK, Contexts
    <2>3. \A d \in todo'["interrupt"] : acc_run_called[Driver(d)] /\ Driver(d)' = Driver(d)
      BY <1>0, <2>2 DEF Of, Driver
    <2> QED  BY <1>0, <2>1, <2>2, <2>3 DEF OrderOK, Contexts, Driver, Medium
  <1>7. ASSUME NEW c \in Contexts, NEW d \in All,
               Check(c, d) \/ MountVolume(c, d) \/ PostEvent(c, d) \/ ClearFlag(c, d)
        PROVE  OrderOK'
    <2>1. UNCHANGED << queue, opened, started, accrun, acc_run_called, need_time, key, marked, disc_found >>
      BY <1>7 DEF Check, MountVolume, PostEvent, ClearFlag
    <2>2. \/ todo' = todo /\ \E s : step' = [step EXCEPT ![c] = s]
          \/ todo' = [todo EXCEPT ![c] = @ \ {d}] /\ step' = [step EXCEPT ![c] = "check"]
      BY <1>7 DEF Check, MountVolume, PostEvent, ClearFlag, GoTo, NextDrive
    <2>3. d \in todo[c]
      BY <1>7 DEF Check, MountVolume, PostEvent, ClearFlag, At
    <2>4. \A b \in Contexts : /\ todo'[b] \subseteq todo[b]
                              /\ todo'[b] = {} => step'[b] = "check"
      BY <2>2, <2>3 DEF OrderOK, TypeOK
    <2> QED  BY <1>0, <2>1, <2>4 DEF OrderOK, Contexts, Driver, Medium
  <1>8. ASSUME NEW q \in queue,
               Eject(q) \/ \E b \in BOOLEAN : SetUserEject(q, b) \/ ModifyPostEvent(q, b)
        PROVE  OrderOK'
    <2>1. UNCHANGED << queue, opened, started, accrun, acc_run_called, need_time, todo, step, key, marked, disc_found >>
      BY <1>8 DEF Eject, SetUserEject, ModifyPostEvent
    <2> QED  BY <1>0, <2>1 DEF OrderOK, Driver, Medium
  <1>9. CASE User
    <2>1. UNCHANGED << queue, opened, started, accrun, acc_run_called, need_time, todo, step, disc_found >>
      BY <1>9 DEF User, InsertMedium, RemoveMedium, PressF1
    <2>2. \/ key' = key /\ marked' = marked
          \/ Medium(key') = "floppy" /\ marked' = marked /\ key' \in All
      BY <1>9 DEF User, InsertMedium, RemoveMedium, PressF1
    <2>3. /\ key' # 0 => Medium(key)' = "floppy"
          /\ marked' => key' # 0
      <3>1. 0 \notin All
        BY Vectors DEF TypeOK
      <3>2. CASE key' = key /\ marked' = marked
        BY <1>0, <3>2 DEF OrderOK, Medium
      <3>3. CASE Medium(key') = "floppy" /\ marked' = marked /\ key' \in All
        BY <1>0, <3>1, <3>3 DEF Medium
      <3> QED  BY <2>2, <3>2, <3>3
    <2> QED  BY <1>0, <2>1, <2>3 DEF OrderOK, Driver, Medium
  <1>10. CASE MarkFirstFloppy \/ MountFirstFloppy
    <2>1. UNCHANGED << queue, opened, started, accrun, acc_run_called, need_time, todo, step, disc_found >>
      BY <1>10 DEF MarkFirstFloppy, MountFirstFloppy
    <2>2. \/ key' = key /\ key # 0
          \/ key' = 0 /\ ~marked'
      BY <1>10 DEF MarkFirstFloppy, MountFirstFloppy, OrderOK
    <2> QED  BY <1>0, <2>1, <2>2 DEF OrderOK, Driver, Medium
  <1>11. CASE UNCHANGED vars
    BY <1>11 DEF vars, OrderOK, Driver, Medium
  <1> QED  BY <1>1, <1>2, <1>3, <1>4, <1>5, <1>6, <1>7, <1>8, <1>9, <1>10, <1>11,
              <1>12
           DEF Next, MacCode, MountStep

\* A drive that is opened gets a number of its own.
LEMMA KeepsNumbers ==
  ASSUME IInv, [Next]_vars
  PROVE  NumbersOK'
  <1> USE DEF IInv, config, session, accRun, loop, redraw, host, record
  <1>1. CASE OpenDrive
    <2> DEFINE d == opened + 1
    <2>1. d \in All /\ d \notin queue
      BY <1>1, Vectors DEF OpenDrive, OrderOK, TypeOK
    <2>2. /\ num' = [num EXCEPT ![d] = FindFreeDriveNumber]
          /\ \/ queue' = queue /\ (disc_found' => opened' = opened)
             \/ queue' = queue \cup {d} /\ ~disc_found'
      BY <1>1, OpenedOrFound DEF OpenDrive
    <2>3. \A e \in queue : num'[e] = num[e] /\ num'[d] # num[e]
      BY <2>1, <2>2, FreeDriveNumber DEF TypeOK
    <2> QED  BY <2>2, <2>3 DEF NumbersOK
  <1>9. CASE LockDrive
    <2>1. queue' = queue \cup {opened + 1} /\ num' = num /\ disc_found /\ ~disc_found'
      BY <1>9 DEF LockDrive, AddDrive
    <2> QED  BY <2>1 DEF NumbersOK
  <1>2. CASE Restart
    BY <1>2 DEF Restart, NumbersOK
  <1>3. CASE MacStarts \/ \E v \in Drivers : AccRun(v)
    <2>1. UNCHANGED << num, queue, opened, disc_found >>
      BY <1>3 DEF MacStarts, AccRun
    <2> QED  BY <2>1 DEF NumbersOK
  <1>4. CASE \E q \in queue : \/ Eject(q)
                              \/ \E b \in BOOLEAN : SetUserEject(q, b) \/ ModifyPostEvent(q, b)
    <2>1. UNCHANGED << num, queue, opened, disc_found >>
      BY <1>4 DEF Eject, SetUserEject, ModifyPostEvent
    <2> QED  BY <2>1 DEF NumbersOK
  <1>5. CASE AccRunDone \/ Interrupt
    BY <1>5 DEF AccRunDone, Interrupt, NumbersOK
  <1>6. CASE MountStep
    <2>1. UNCHANGED << num, queue, opened, disc_found >>
      BY <1>6 DEF MountStep, Check, MountVolume, PostEvent, ClearFlag
    <2> QED  BY <2>1 DEF NumbersOK
  <1>7. CASE User \/ MarkFirstFloppy \/ MountFirstFloppy
    <2>1. UNCHANGED << num, queue, opened, disc_found >>
      BY <1>7 DEF User, InsertMedium, RemoveMedium, PressF1, MarkFirstFloppy, MountFirstFloppy
    <2> QED  BY <2>1 DEF NumbersOK
  <1>8. CASE UNCHANGED vars
    BY <1>8 DEF vars, NumbersOK
  <1> QED  BY <1>1, <1>2, <1>3, <1>4, <1>5, <1>6, <1>7, <1>8, <1>9 DEF Next, MacCode

\* Who puts a disc in place has locked the drive before; who unlocks it ejects the
\* disc or gives the user leave.
LEMMA KeepsHeld ==
  ASSUME IInv, [Next]_vars
  PROVE  HeldOK'
  <1> USE DEF IInv, config, session, accRun, loop, redraw, host, record
  <1>0. drives' = drives
    BY SameDrives
  <1>1. CASE OpenDrive
    <2> DEFINE d == opened + 1
    <2>1. d \in All /\ d \notin queue /\ queue \subseteq All
      BY <1>1, Vectors DEF OpenDrive, OrderOK, TypeOK
    <2>2. /\ \A e \in All : e # d => /\ in_place'[e] = in_place[e]
                                    /\ allowed'[e] = allowed[e]
          /\ locked' = locked
      BY <1>1 DEF OpenDrive, TypeOK
    <2>3. \/ queue' = queue
          \/ queue' = queue \cup {d} /\ (Driver(d) = "cdrom" /\ Medium(d) = "cd" => in_place'[d] = 0)
      <3>1. CASE queue' = queue
        BY <3>1
      <3>2. CASE queue' # queue
        <4>1. /\ in_place' = [in_place EXCEPT ![d] = IF Fixed(d) THEN 8
                                 ELSE IF present[d] /\ ~(Driver(d) = "cdrom" /\ present[d]) THEN 1 ELSE 0]
              /\ ~(Driver(d) = "cdrom" /\ present[d])
              /\ queue' = queue \cup {d}
          BY <1>1, <3>2 DEF OpenDrive, AddDrive
        <4>2. Driver(d) = "cdrom" => ~Fixed(d)
          BY DEF Fixed
        <4> HIDE DEF d
        <4> QED  BY <2>1, <4>1, <4>2 DEF TypeOK
      <3> QED  BY <3>1, <3>2
    <2> HIDE DEF d
    <2> QED  BY <1>0, <2>1, <2>2, <2>3 DEF HeldOK, Driver, Medium
  <1>12. CASE LockDrive
    <2> DEFINE d == opened + 1
    <2>1. d \in All /\ queue \subseteq All
      BY <1>12, DriveToLock DEF LockDrive
    <2>2. /\ in_place' = [in_place EXCEPT ![d] = 1]
          /\ Lock(d, TRUE)
          /\ queue' = queue \cup {d}
          /\ UNCHANGED allowed
      BY <1>12 DEF LockDrive, AddDrive
    <2> HIDE DEF d
    <2>3. Medium(d) = "cd" => locked'[d]
      BY <2>1, <2>2 DEF TypeOK, Lock
    <2>4. \A e \in All : e # d => in_place'[e] = in_place[e] /\ locked'[e] = locked[e]
      BY <2>2 DEF TypeOK, Lock
    <2> QED  BY <1>0, <2>1, <2>2, <2>3, <2>4 DEF HeldOK, Driver, Medium
  <1>2. CASE Restart
    BY <1>2 DEF Restart, HeldOK
  <1>3. CASE MacStarts \/ (\E v \in Drivers : AccRun(v)) \/ AccRunDone \/ Interrupt \/ User
    <2>1. UNCHANGED << queue, in_place, locked, allowed >>
      BY <1>3 DEF MacStarts, AccRun, AccRunDone, Interrupt, User, InsertMedium, RemoveMedium, PressF1
    <2> QED  BY <1>0, <2>1 DEF HeldOK, Driver, Medium
  <1>4. ASSUME NEW c \in Contexts, NEW d \in All,
               Check(c, d) \/ PostEvent(c, d) \/ ClearFlag(c, d)
        PROVE  HeldOK'
    <2>1. UNCHANGED << queue, in_place, host >>
      BY <1>4 DEF Check, PostEvent, ClearFlag
    <2> QED  BY <1>0, <2>1 DEF HeldOK, Driver, Medium
  <1>5. ASSUME NEW c \in Contexts, NEW d \in All, MountVolume(c, d)
        PROVE  HeldOK'
    <2>1. /\ allowed' = [allowed EXCEPT ![d] = FALSE]
          /\ IF Driver(d) = "cdrom" THEN Lock(d, TRUE) ELSE UNCHANGED locked
          /\ in_place' = [in_place EXCEPT ![d] = 1] \/ in_place' = in_place
          /\ UNCHANGED << queue, present >>
      BY <1>5 DEF MountVolume, InPlace, WriteInPlace
    <2>2. Driver(d) = "cdrom" /\ Medium(d) = "cd" => locked'[d]
      BY <2>1 DEF TypeOK, Lock
    <2>3. \A e \in All : e # d => /\ in_place'[e] = in_place[e] /\ allowed'[e] = allowed[e]
                                  /\ locked'[e] = locked[e]
      BY <2>1 DEF TypeOK, Lock
    <2> QED  BY <1>0, <2>1, <2>2, <2>3 DEF HeldOK, Driver, Medium, TypeOK
  <1>6. ASSUME NEW q \in queue, Eject(q)
        PROVE  HeldOK'
    <2> DEFINE d == Find(Driver(q), num[q])
    <2>1. d \in All
      BY DriveFound
    <2> HIDE DEF d
    <2>2. /\ in_place' = [in_place EXCEPT ![d] = 0]
          /\ IF Driver(d) = "cdrom" THEN Lock(d, FALSE) ELSE UNCHANGED locked
          /\ UNCHANGED << queue, allowed >>
      BY <1>6 DEF Eject, d
    <2>3. in_place'[d] = 0
      BY <2>1, <2>2 DEF TypeOK
    <2>4. \A e \in All : e # d => in_place'[e] = in_place[e] /\ locked'[e] = locked[e]
      BY <2>2 DEF TypeOK, Lock
    <2> QED  BY <1>0, <2>2, <2>3, <2>4 DEF HeldOK, Driver, Medium, TypeOK
  <1>7. ASSUME NEW q \in queue, NEW b \in BOOLEAN, SetUserEject(q, b)
        PROVE  HeldOK'
    <2> DEFINE d == Find("cdrom", num[q])
    <2>1. d \in All
      BY <1>7, DriveFound DEF SetUserEject
    <2> HIDE DEF d
    <2>2. /\ Lock(d, ~b)
          /\ allowed' = [allowed EXCEPT ![d] = b]
          /\ UNCHANGED << queue, in_place >>
      BY <1>7 DEF SetUserEject, d
    <2>3. Medium(d) = "cd" => locked'[d] \/ allowed'[d]
      BY <2>1, <2>2 DEF TypeOK, Lock
    <2>4. \A e \in All : e # d => allowed'[e] = allowed[e] /\ locked'[e] = locked[e]
      BY <2>2 DEF TypeOK, Lock
    <2> QED  BY <1>0, <2>2, <2>3, <2>4 DEF HeldOK, Driver, Medium, TypeOK
  <1>8. ASSUME NEW q \in queue, NEW b \in BOOLEAN, ModifyPostEvent(q, b)
        PROVE  HeldOK'
    BY <1>0, <1>8 DEF ModifyPostEvent, HeldOK, Driver, Medium
  <1>10. CASE MarkFirstFloppy \/ MountFirstFloppy
    <2>1. /\ Medium(key) = "floppy"
          /\ in_place' = [in_place EXCEPT ![key] = 1] \/ in_place' = in_place
          /\ UNCHANGED << queue, host >>
      BY <1>10 DEF MarkFirstFloppy, MountFirstFloppy, WriteInPlace, OrderOK
    <2>2. \A e \in All : Medium(e) = "cd" => in_place'[e] = in_place[e]
      BY <2>1 DEF TypeOK
    <2> QED  BY <1>0, <2>1, <2>2 DEF HeldOK, Driver, Medium, TypeOK
  <1>11. CASE UNCHANGED vars
    BY <1>11 DEF vars, HeldOK, Driver, Medium
  <1> QED  BY <1>1, <1>2, <1>3, <1>4, <1>5, <1>6, <1>7, <1>8, <1>10, <1>11, <1>12
           DEF Next, MacCode, MountStep

\* A loop goes from drive to drive: where the other one is does not change.
LEMMA LoopsKeepAnnounced ==
  ASSUME IInv, NEW c \in Contexts, NEW d \in All,
         Check(c, d) \/ MountVolume(c, d) \/ PostEvent(c, d) \/ ClearFlag(c, d)
  PROVE  AnnouncedOK'
  <1> USE DEF IInv, config, session, accRun, loop, redraw, host, record
  <1>0. queue' = queue
    BY DEF Check, MountVolume, PostEvent, ClearFlag
  <1>1. queue' = queue /\ queue \subseteq All
    BY <1>0 DEF TypeOK
  <1>2. \A b \in Contexts \ {c} : todo'[b] = todo[b] /\ step'[b] = step[b]
    <2>1. (\E s \in {"insert", "post", "clear"} : GoTo(c, s)) \/ NextDrive(c, d)
      BY DEF Check, MountVolume, PostEvent, ClearFlag
    <2> QED  BY <2>1 DEF GoTo, NextDrive, TypeOK
  <1>3. \A e \in All : \A b \in Contexts \ {c} : Posted(b, e) => Posted(b, e)'
    BY <1>2 DEF Posted
  <1>4. CASE Check(c, d)
    <2>1. /\ UNCHANGED << announced, to_be_mounted >> /\ step[c] # "clear"
      BY <1>4 DEF Check, At
    <2>2. \A e \in All : ~Posted(c, e)
      BY <2>1 DEF Posted
    <2> QED  BY <1>1, <1>3, <2>1, <2>2 DEF AnnouncedOK
  <1>5. CASE MountVolume(c, d)
    <2>1. /\ announced' = [announced EXCEPT ![d] = 0]
          /\ \A e \in All : e # d => to_be_mounted'[e] = to_be_mounted[e]
          /\ step[c] # "clear"
      BY <1>5 DEF MountVolume, InPlace, At, TypeOK
    <2>2. \A e \in All : ~Posted(c, e)
      BY <2>1 DEF Posted
    <2>3. announced'[d] = 0 /\ \A e \in All : e # d => announced'[e] = announced[e]
      BY <2>1 DEF TypeOK
    <2> QED  BY <1>1, <1>3, <2>1, <2>2, <2>3 DEF AnnouncedOK
  <1>6. CASE PostEvent(c, d)
    <2>1. d \in todo[c] /\ (\A e \in todo[c] : d <= e) /\ step[c] # "clear"
          /\ UNCHANGED to_be_mounted
      BY <1>6 DEF PostEvent, At
    <2>2. \A e \in All : ~Posted(c, e)
      BY <2>1 DEF Posted
    <2>3. CASE to_be_mounted[d]
      <3>1. /\ announced' = [announced EXCEPT ![d] = @ + 1]
            /\ step' = [step EXCEPT ![c] = "clear"]
            /\ todo' = todo
        BY <1>6, <2>3 DEF PostEvent, GoTo
      <3>2. \A b \in Contexts \ {c} : ~Posted(b, d)
        BY <2>1, LoopsApart DEF Posted, Contexts
      <3>3. Posted(c, d)'
        BY <2>1, <3>1 DEF Posted, TypeOK
      <3>4. \A e \in queue : e # d => announced'[e] = announced[e]
        BY <1>1, <3>1 DEF TypeOK
      <3>5. d \in queue => announced[d] = 0
        BY <2>2, <2>3, <3>2 DEF AnnouncedOK
      <3>6. d \in queue => announced'[d] <= 1
        BY <3>1, <3>5 DEF TypeOK
      <3>7. \A e \in queue : e # d => \/ ~(to_be_mounted'[e] /\ announced'[e] # 0)
                                      \/ \E b \in Contexts : Posted(b, e)'
        BY <1>1, <1>3, <2>1, <2>2, <3>4 DEF AnnouncedOK
      <3> QED  BY <1>1, <3>3, <3>4, <3>6, <3>7 DEF AnnouncedOK
    <2>4. CASE ~to_be_mounted[d]
      <3>1. announced' = announced
        BY <1>6, <2>4 DEF PostEvent
      <3> QED  BY <1>1, <1>3, <2>1, <2>2, <3>1 DEF AnnouncedOK
    <2> QED  BY <2>3, <2>4
  <1>7. CASE ClearFlag(c, d)
    <2>1. /\ d \in todo[c] /\ \A e \in todo[c] : d <= e
          /\ to_be_mounted' = [to_be_mounted EXCEPT ![d] = FALSE]
          /\ announced' = announced
      BY <1>7 DEF ClearFlag, At
    <2>2. \A e \in All : Posted(c, e) => e = d
      <3>1. Len(drives) \in Nat /\ All = 1 .. Len(drives)
        BY Vectors DEF TypeOK
      <3>2. All \subseteq Nat
        BY <3>1
      <3> SUFFICES ASSUME NEW e \in All, Posted(c, e)
                   PROVE  e = d
        OBVIOUS
      <3>3. e <= d /\ d <= e
        BY <2>1 DEF Posted
      <3>4. d \in Nat /\ e \in Nat
        BY <3>2
      <3> HIDE DEF IInv, config, session, accRun, loop, redraw, host, record
      <3> QED  BY <3>3, <3>4, SMT
    <2>3. ~to_be_mounted'[d] /\ \A e \in All : e # d => to_be_mounted'[e] = to_be_mounted[e]
      BY <2>1 DEF TypeOK
    <2> QED  BY <1>1, <1>3, <2>1, <2>2, <2>3 DEF AnnouncedOK
  <1> QED  BY <1>4, <1>5, <1>6, <1>7

LEMMA KeepsAnnounced ==
  ASSUME IInv, [Next]_vars
  PROVE  AnnouncedOK'
  <1> USE DEF IInv, config, session, accRun, loop, redraw, host, record
  <1>1. CASE OpenDrive
    <2> DEFINE d == opened + 1
    <2>1. d \in All /\ d \notin queue
      BY <1>1, Vectors DEF OpenDrive, OrderOK, TypeOK
    <2>2. UNCHANGED loop
      BY <1>1 DEF OpenDrive
    <2>3. \A c \in Contexts : \A e \in All : Posted(c, e)' = Posted(c, e)
      BY <2>2 DEF Posted
    <2>4. /\ \A e \in queue : announced'[e] = announced[e] /\ to_be_mounted'[e] = to_be_mounted[e]
          /\ queue' = queue \/ (queue' = queue \cup {d} /\ announced'[d] = 0)
      BY <1>1, <2>1 DEF OpenDrive, AddDrive, TypeOK
    <2> QED  BY <2>1, <2>3, <2>4 DEF AnnouncedOK, TypeOK
  <1>10. CASE LockDrive
    <2> DEFINE d == opened + 1
    <2>1. d \in All
      BY <1>10, DriveToLock DEF LockDrive
    <2>2. /\ announced' = [announced EXCEPT ![d] = 0]
          /\ to_be_mounted' = [to_be_mounted EXCEPT ![d] = TRUE]
          /\ queue' = queue \cup {d}
          /\ UNCHANGED loop
      BY <1>10 DEF LockDrive, AddDrive
    <2> HIDE DEF d
    <2>3. announced'[d] = 0 /\ \A e \in All : e # d => /\ announced'[e] = announced[e]
                                                       /\ to_be_mounted'[e] = to_be_mounted[e]
      BY <2>1, <2>2 DEF TypeOK
    <2>4. \A c \in Contexts : \A e \in All : Posted(c, e)' = Posted(c, e)
      BY <2>2 DEF Posted
    <2> QED  BY <2>1, <2>2, <2>3, <2>4 DEF AnnouncedOK, TypeOK
  <1>2. CASE Restart
    BY <1>2 DEF Restart, AnnouncedOK
  <1>3. ASSUME NEW v \in Drivers, AccRun(v)
        PROVE  AnnouncedOK'
    <2>1. \A c \in Contexts : todo[c] = {}
      BY <1>3, NothingUnderWay DEF AccRun, InMacCode, Contexts
    <2>2. UNCHANGED << queue, announced, to_be_mounted >>
      BY <1>3 DEF AccRun
    <2> QED  BY <2>1, <2>2 DEF AnnouncedOK, Posted
  <1>4. CASE Interrupt
    <2>1. /\ todo' = [todo EXCEPT !["interrupt"] = Of({v \in Drivers : acc_run_called[v]})]
          /\ todo["interrupt"] = {}
          /\ UNCHANGED << queue, announced, to_be_mounted, step >>
      BY <1>4 DEF Interrupt
    <2>2. todo'["call"] = todo["call"]
      BY <2>1 DEF TypeOK, Contexts
    <2>3. \A c \in Contexts : \A e \in All : Posted(c, e) => Posted(c, e)'
      BY <2>1, <2>2 DEF Posted, Contexts
    <2> QED  BY <2>1, <2>3 DEF AnnouncedOK, TypeOK
  <1>5. CASE MountStep
    BY <1>5, LoopsKeepAnnounced DEF MountStep
  <1>6. CASE \E q \in queue : Eject(q)
    <2>1. PICK d : announced' = [announced EXCEPT ![d] = 0]
      BY <1>6 DEF Eject
    <2>2. UNCHANGED << queue, loop, to_be_mounted >>
      BY <1>6 DEF Eject
    <2> QED  BY <2>1, <2>2 DEF AnnouncedOK, Posted, TypeOK
  <1>7. CASE MountFirstFloppy
    <2>1. /\ announced' = [announced EXCEPT ![key] = 0]
          /\ to_be_mounted' = [to_be_mounted EXCEPT ![key] = TRUE]
          /\ UNCHANGED << queue, loop >>
      BY <1>7 DEF MountFirstFloppy
    <2> QED  BY <2>1 DEF AnnouncedOK, Posted, TypeOK
  <1>8. CASE \/ MacStarts \/ AccRunDone \/ User \/ MarkFirstFloppy
             \/ \E q \in queue : \E b \in BOOLEAN : SetUserEject(q, b) \/ ModifyPostEvent(q, b)
    <2>1. UNCHANGED << queue, announced, loop, to_be_mounted >>
      BY <1>8 DEF MacStarts, AccRunDone, User, InsertMedium, RemoveMedium, PressF1, MarkFirstFloppy,
                  SetUserEject, ModifyPostEvent
    <2> QED  BY <2>1 DEF AnnouncedOK, Posted
  <1>9. CASE UNCHANGED vars
    BY <1>9 DEF vars, AnnouncedOK, Posted
  <1> QED  BY <1>1, <1>2, <1>3, <1>4, <1>5, <1>6, <1>7, <1>8, <1>9, <1>10 DEF Next, MacCode

-----------------------------------------------------------------------------
(* The theorems                                                            *)

THEOREM Invariance == Spec => []IInv
  <1>1. Init => IInv
    BY Initially
  <1>2. IInv /\ [Next]_vars => IInv'
    <2> SUFFICES ASSUME IInv, [Next]_vars
                 PROVE  IInv'
      OBVIOUS
    <2>1. TypeOK'
      BY KeepsTypes
    <2>2. OrderOK'
      BY KeepsOrder
    <2>3. NumbersOK'
      BY KeepsNumbers
    <2>4. AnnouncedOK'
      BY KeepsAnnounced
    <2>5. HeldOK'
      BY KeepsHeld
    <2> QED  BY <2>1, <2>2, <2>3, <2>4, <2>5 DEF IInv
  <1> QED  BY <1>1, <1>2, PTL DEF Spec

\* The state of the drivers is what the types say.
THEOREM TypeCorrect == Spec => []TypeOK
  <1>1. IInv => TypeOK
    BY DEF IInv
  <1> QED  BY <1>1, Invariance, PTL

\* A request that names a drive of the queue reaches it (FindFreeDriveNumber(),
\* get_drive_info()): numbers of the session before are those of drives further on.
THEOREM RequestsArrive == Spec => []RequestsReachDrive
  <1>1. ASSUME IInv, ~OutOfMemory, NEW d \in queue
        PROVE  Find(Driver(d), num[d]) = d
    <2> DEFINE f == Find(Driver(d), num[d])
    <2>1. /\ f \in All /\ num[f] = num[d] /\ f <= d
      BY <1>1, DriveFound DEF IInv, TypeOK
    <2>2. All = 1 .. Len(drives) /\ Len(drives) \in Nat /\ opened \in Nat
      BY <1>1, Vectors DEF IInv, TypeOK
    <2>3. d \in 1 .. opened
      BY <1>1 DEF IInv, OrderOK
    <2> HIDE DEF f
    <2>4. f \in 1 .. opened
      BY <2>1, <2>2, <2>3
    <2>5. f \in queue
      BY <1>1, <2>4 DEF OutOfMemory
    <2> QED  BY <1>1, <2>1, <2>5 DEF IInv, NumbersOK, f
  <1>2. IInv => RequestsReachDrive
    BY <1>1 DEF RequestsReachDrive
  <1> QED  BY <1>2, Invariance, PTL

\* A medium is announced once, by the periodic call or by the interrupt that gets
\* into its PostEvent(), not by both.
THEOREM OneAnnouncement == Spec => []AnnouncedOnce
  <1>1. IInv => AnnouncedOnce
    BY DEF IInv, AnnouncedOK, AnnouncedOnce
  <1> QED  BY <1>1, Invariance, PTL

\* A disc in place leaves its drive only when MacOS ejects it or lets the user take it
\* out: whatever puts it in place has called SysPreventRemoval() before.
THEOREM DiscStays == Spec => DiscHeld
  <1>1. ASSUME IInv, [Next]_vars,
               NEW d \in queue, Driver(d) = "cdrom", Medium(d) = "cd", in_place[d] = 1, present[d]
        PROVE  present'[d] \/ in_place'[d] = 0 \/ allowed[d]
    <2> SUFFICES ASSUME present' # present, locked[d]
                 PROVE  present'[d] \/ in_place'[d] = 0
      BY <1>1 DEF IInv, HeldOK
    <2>0. d \in All /\ present \in [All -> BOOLEAN] /\ in_place \in [All -> {0, 1, 8}]
      BY <1>1 DEF IInv, TypeOK
    <2> USE DEF config, session, accRun, loop, redraw, host, record
    <2>1. (\E q \in queue : Eject(q)) \/ User
      BY <1>1 DEF Next, MacCode, MountStep, OpenDrive, LockDrive, MacStarts, Restart, AccRun, SetUserEject,
                  ModifyPostEvent, AccRunDone, Interrupt, Check, MountVolume, PostEvent, ClearFlag,
                  MarkFirstFloppy, MountFirstFloppy, vars
    <2>2. ASSUME NEW q \in queue, Eject(q)
          PROVE  present'[d] \/ in_place'[d] = 0
      <3> DEFINE f == Find(Driver(q), num[q])
      <3>1. /\ in_place' = [in_place EXCEPT ![f] = 0]
            /\ present' = [present EXCEPT ![f] = Medium(f) = "file"] \/ present' = present
        BY <2>2 DEF Eject
      <3> HIDE DEF f
      <3> QED  BY <1>1, <2>0, <3>1
    <2>3. CASE User
      <3>1. PICK e \in All : InsertMedium(e) \/ RemoveMedium(e)
        BY <2>3 DEF User, PressF1
      <3> QED  BY <1>1, <2>0, <3>1 DEF InsertMedium, RemoveMedium
    <2> QED  BY <2>1, <2>2, <2>3
  <1>2. IInv /\ [Next]_vars
          => [\A d \in queue :
                 Driver(d) = "cdrom" /\ Medium(d) = "cd" /\ in_place[d] = 1 /\ present[d]
                     => present'[d] \/ in_place'[d] = 0 \/ allowed[d]]_vars
    BY <1>1
  <1> QED  BY <1>2, Invariance, PTL DEF Spec, DiscHeld

\* PostEvent() names drives that AddDrive() has put into the queue of this session.
THEOREM EventsForDrives == Spec => EventsNameDrives
  <1>1. ASSUME IInv, [Next]_vars
        PROVE  [\A d \in All : announced'[d] > announced[d] => d \in queue \/ OutOfMemory]_vars
    <2> SUFFICES ASSUME NEW d \in All, announced'[d] > announced[d]
                 PROVE  d \in queue \/ OutOfMemory
      OBVIOUS
    <2>0. announced \in [All -> Nat]
      BY <1>1 DEF IInv, TypeOK
    <2>1. PICK c \in Contexts, e \in All : PostEvent(c, e)
      <3> SUFFICES ASSUME ~\E c \in Contexts : \E e \in All : PostEvent(c, e)
                   PROVE  announced' = announced \/ \E e : announced' = [announced EXCEPT ![e] = 0]
        BY <2>0
      <3> USE DEF config, session, accRun, loop, redraw, host, record
      <3>1. CASE MacCode
        BY <3>1 DEF MacCode, OpenDrive, LockDrive, MacStarts, Restart, AccRun, Eject, SetUserEject,
                    ModifyPostEvent
      <3>2. CASE MountStep
        BY <3>2 DEF MountStep, Check, MountVolume, InPlace, ClearFlag
      <3>3. CASE User \/ MarkFirstFloppy \/ MountFirstFloppy
        BY <3>3 DEF User, InsertMedium, RemoveMedium, PressF1, MarkFirstFloppy, MountFirstFloppy
      <3>4. CASE AccRunDone \/ Interrupt \/ UNCHANGED vars
        BY <3>4 DEF AccRunDone, Interrupt, vars
      <3> QED  BY <1>1, <3>1, <3>2, <3>3, <3>4 DEF Next
    <2>2. e = d /\ d \in todo[c]
      BY <2>0, <2>1 DEF PostEvent, At
    <2>3. opened = Len(drives)
      BY <1>1, <2>2, LoopsApart DEF IInv, OrderOK
    <2> QED  BY <1>1, <2>3, Vectors DEF OutOfMemory, IInv, TypeOK
  <1> QED  BY <1>1, Invariance, PTL DEF Spec, EventsNameDrives

-----------------------------------------------------------------------------
-----------------------------------------------------------------------------
(* The SCSI Manager                                                        *)

(* Induction and recursion over the beginning of Nat                       *)

\* A set that holds 0 and with each number the next one holds them all.
LEMMA UpTo ==
  ASSUME NEW N \in Nat, NEW S, 0 \in S, \A n \in 0 .. N - 1 : n \in S => n + 1 \in S
  PROVE  \A n \in 0 .. N : n \in S
  <1> DEFINE T == (0 .. N) \ S
  <1> SUFFICES ASSUME T # {}
               PROVE  FALSE
    OBVIOUS
  <1> T \in SUBSET Nat
    OBVIOUS
  <1> HIDE DEF T
  <1>1. PICK n \in T : \A m \in T : n <= m
    BY LeastOf, Zenon
  <1> USE DEF T
  <1>2. n # 0 /\ n - 1 \in 0 .. N - 1
    BY <1>1
  <1>3. n - 1 \in S
    BY <1>1, <1>2
  <1> QED  BY <1>1, <1>2, <1>3

\* Values that are computed one from the other, by one function after the other,
\* are the values of a function.
Steps(N, V) == [1 .. N -> [V -> V]]
Computes(f, V, base, N, next) ==
    /\ f \in [0 .. N -> V]
    /\ f[0] = base
    /\ \A n \in 1 .. N : f[n] = next[n][f[n - 1]]

LEMMA Recursion ==
  ASSUME NEW V, NEW base \in V, NEW N \in Nat, NEW next \in Steps(N, V)
  PROVE  \E f : Computes(f, V, base, N, next)
  <1> DEFINE S == {n \in 0 .. N : \E f : Computes(f, V, base, n, next)}
  <1>1. 0 \in S
    <2> DEFINE f == [n \in 0 .. 0 |-> base]
    <2>1. Computes(f, V, base, 0, next)
      BY DEF Computes
    <2> HIDE DEF f
    <2> QED  BY <2>1
  <1>2. ASSUME NEW n \in 0 .. N - 1, n \in S
        PROVE  n + 1 \in S
    <2>1. PICK f : Computes(f, V, base, n, next)
      BY <1>2
    <2> DEFINE g == [k \in 0 .. n + 1 |-> IF k = n + 1 THEN next[n + 1][f[n]] ELSE f[k]]
    <2>2. g \in [0 .. n + 1 -> V]
      <3>1. next[n + 1] \in [V -> V] /\ f[n] \in V /\ \A k \in 0 .. n : f[k] \in V
        BY <2>1 DEF Computes, Steps
      <3>2. next[n + 1][f[n]] \in V
        BY <3>1
      <3> QED  BY <3>1, <3>2
    <2>3. g[0] = base
      BY <2>1 DEF Computes
    <2>4. ASSUME NEW k \in 1 .. n + 1
          PROVE  g[k] = next[k][g[k - 1]]
      <3>1. g[k - 1] = f[k - 1]
        OBVIOUS
      <3>2. CASE k = n + 1
        BY <3>1, <3>2
      <3>3. CASE k # n + 1
        <4>1. k \in 1 .. n /\ g[k] = f[k]
          BY <3>3
        <4> QED  BY <2>1, <3>1, <4>1 DEF Computes
      <3> QED  BY <3>2, <3>3
    <2> HIDE DEF g
    <2>5. Computes(g, V, base, n + 1, next)
      BY <2>2, <2>3, <2>4 DEF Computes
    <2> QED  BY <2>5
  <1> HIDE DEF S
  <1>3. \A n \in 0 .. N : n \in S
    BY <1>1, <1>2, UpTo
  <1> QED  BY <1>3 DEF S

-----------------------------------------------------------------------------
(* Sum                                                                     *)

LEMMA SumIs ==
  ASSUME NEW s \in Seq(Block), NEW f, f[0] = 0,
         \A n \in 1 .. Len(s) : f[n] = f[n - 1] + s[n].len
  PROVE  Sum(s) = f[Len(s)]
  <1> DEFINE N == Len(s)
             Is(g) == g = [n \in 0 .. N |-> IF n = 0 THEN 0 ELSE g[n - 1] + s[n].len]
             h == [n \in 0 .. N |-> f[n]]
  <1>1. N \in Nat
    BY LenProperties
  <1>2. Is(h)
    <2>1. \A n \in 0 .. N : f[n] = IF n = 0 THEN 0 ELSE h[n - 1] + s[n].len
      BY <1>1
    <2> QED  BY <2>1, Zenon
  <1> HIDE DEF h
  <1>3. PICK sum : Is(sum) /\ Sum(s) = sum[N]
    <2>1. Is(CHOOSE g : Is(g))
      BY <1>2
    <2>2. Sum(s) = (CHOOSE g : Is(g))[N]
      BY Zenon DEF Sum
    <2> HIDE DEF Is
    <2> QED  BY <2>1, <2>2
  <1> DEFINE S == {n \in 0 .. N : sum[n] = f[n]}
  <1>4. 0 \in S
    BY <1>1, <1>3
  <1>5. ASSUME NEW n \in 0 .. N - 1, n \in S
        PROVE  n + 1 \in S
    <2>1. n + 1 \in 1 .. N /\ (n + 1) - 1 = n
      BY <1>1
    <2>2. sum[n + 1] = sum[n] + s[n + 1].len
      BY <1>1, <1>3, <2>1
    <2>3. f[n + 1] = f[n] + s[n + 1].len
      BY <2>1
    <2> QED  BY <1>5, <2>1, <2>2, <2>3
  <1> HIDE DEF S, N
  <1>6. \A n \in 0 .. N : n \in S
    BY <1>1, <1>4, <1>5, UpTo
  <1> QED  BY <1>1, <1>3, <1>6 DEF S, N

LEMMA Blocks ==
  ASSUME NEW t \in Block
  PROVE  t.ptr \in Numbers /\ t.len \in Numbers /\ t.ptr \in Nat /\ t.len \in Nat
  BY WidthAssumption DEF Block, Numbers

LEMMA SumComputed ==
  ASSUME NEW s \in Seq(Block)
  PROVE  \E f \in [0 .. Len(s) -> Nat] :
            f[0] = 0 /\ \A n \in 1 .. Len(s) : f[n] = f[n - 1] + s[n].len
  <1> DEFINE next == [n \in 1 .. Len(s) |-> [x \in Nat |-> x + s[n].len]]
  <1>1. Len(s) \in Nat /\ \A n \in 1 .. Len(s) : s[n].len \in Nat
    <2>1. Len(s) \in Nat /\ \A n \in 1 .. Len(s) : s[n] \in Block
      BY LenProperties, ElementOfSeq
    <2> QED  BY <2>1, Blocks
  <1>2. next \in Steps(Len(s), Nat)
    BY <1>1 DEF Steps
  <1>3. \A n \in 1 .. Len(s), x \in Nat : next[n][x] = x + s[n].len
    OBVIOUS
  <1> HIDE DEF next
  <1>4. PICK f : Computes(f, Nat, 0, Len(s), next)
    <2>1. 0 \in Nat
      OBVIOUS
    <2> QED  BY <1>1, <1>2, <2>1, Recursion, Zenon
  <1> f \in [0 .. Len(s) -> Nat]
    BY <1>4 DEF Computes
  <1>5. ASSUME NEW n \in 1 .. Len(s)
        PROVE  f[n] = f[n - 1] + s[n].len
    <2>1. n - 1 \in 0 .. Len(s)
      BY <1>1
    <2>2. f[n - 1] \in Nat
      BY <2>1
    <2> QED  BY <1>3, <1>4, <2>2 DEF Computes
  <1> QED  BY <1>4, <1>5 DEF Computes

LEMMA SumEmpty == Sum(<< >>) = 0
  <1> SUFFICES ASSUME NEW s \in Seq(Block), Len(s) = 0
               PROVE  Sum(s) = 0
    <2>1. << >> \in Seq(Block) /\ Len(<< >>) = 0
      OBVIOUS
    <2> QED  BY <2>1, Zenon
  <1>1. PICK f \in [0 .. Len(s) -> Nat] :
            f[0] = 0 /\ \A n \in 1 .. Len(s) : f[n] = f[n - 1] + s[n].len
    BY SumComputed
  <1>2. Sum(s) = f[Len(s)]
    BY <1>1, SumIs
  <1> QED  BY <1>1, <1>2

LEMMA SumNat ==
  ASSUME NEW s \in Seq(Block)
  PROVE  Sum(s) \in Nat
  <1>1. PICK f \in [0 .. Len(s) -> Nat] :
            f[0] = 0 /\ \A n \in 1 .. Len(s) : f[n] = f[n - 1] + s[n].len
    BY SumComputed
  <1>2. Sum(s) = f[Len(s)]
    BY <1>1, SumIs
  <1>3. Len(s) \in 0 .. Len(s)
    BY LenProperties
  <1> QED  BY <1>2, <1>3

LEMMA SumAppend ==
  ASSUME NEW s \in Seq(Block), NEW t \in Block
  PROVE  Sum(Append(s, t)) = Sum(s) + t.len
  <1> DEFINE u == Append(s, t)
  <1>1. /\ u \in Seq(Block) /\ Len(s) \in Nat /\ Len(u) = Len(s) + 1
        /\ u[Len(s) + 1] = t /\ \A n \in 1 .. Len(s) : u[n] = s[n]
    BY AppendProperties, LenProperties
  <1> HIDE DEF u
  <1>2. PICK f \in [0 .. Len(u) -> Nat] :
            f[0] = 0 /\ \A n \in 1 .. Len(u) : f[n] = f[n - 1] + u[n].len
    BY <1>1, SumComputed
  <1>3. Sum(u) = f[Len(u)]
    BY <1>1, <1>2, SumIs
  <1>4. Sum(s) = f[Len(s)]
    <2>1. \A n \in 1 .. Len(s) : f[n] = f[n - 1] + s[n].len
      <3> TAKE n \in 1 .. Len(s)
      <3>1. n \in 1 .. Len(u) /\ u[n] = s[n]
        BY <1>1
      <3> QED  BY <1>2, <3>1
    <2> QED  BY <1>2, <2>1, SumIs
  <1>5. f[Len(u)] = f[Len(s)] + t.len
    <2>1. Len(u) \in 1 .. Len(u) /\ Len(u) - 1 = Len(s) /\ u[Len(u)] = t
      BY <1>1
    <2> QED  BY <1>2, <2>1
  <1> QED  BY <1>3, <1>4, <1>5 DEF u

-----------------------------------------------------------------------------
(* Bytes                                                                   *)

LEMMA IntervalSeq ==
  ASSUME NEW t \in Block
  PROVE  /\ Interval(t) \in Seq(Int) /\ Len(Interval(t)) = t.len
         /\ \A j \in 1 .. t.len : Interval(t)[j] = t.ptr + j - 1
  <1>1. t.ptr \in Int /\ t.len \in Nat
    BY Blocks
  <1>2. \A j \in 1 .. t.len : t.ptr + j - 1 \in Int
    BY <1>1
  <1> QED  BY <1>1, <1>2 DEF Interval

LEMMA BytesIs ==
  ASSUME NEW s \in Seq(Block), NEW f, f[0] = << >>,
         \A n \in 1 .. Len(s) : f[n] = f[n - 1] \o Interval(s[n])
  PROVE  Bytes(s) = f[Len(s)]
  <1> DEFINE N == Len(s)
             Is(g) == g = [n \in 0 .. N |-> IF n = 0 THEN << >> ELSE g[n - 1] \o Interval(s[n])]
             h == [n \in 0 .. N |-> f[n]]
  <1>1. N \in Nat
    BY LenProperties
  <1>2. Is(h)
    <2>1. \A n \in 0 .. N : f[n] = IF n = 0 THEN << >> ELSE h[n - 1] \o Interval(s[n])
      <3> TAKE n \in 0 .. N
      <3>1. CASE n = 0
        BY <3>1
      <3>2. CASE n # 0
        <4>1. n \in 1 .. N /\ h[n - 1] = f[n - 1]
          BY <1>1, <3>2
        <4>2. f[n] = f[n - 1] \o Interval(s[n])
          BY <4>1
        <4> QED  BY <3>2, <4>1, <4>2, Zenon
      <3> QED  BY <3>1, <3>2
    <2> QED  BY <2>1, Zenon
  <1> HIDE DEF h
  <1>3. PICK bytes : Is(bytes) /\ Bytes(s) = bytes[N]
    <2>1. Is(CHOOSE g : Is(g))
      BY <1>2
    <2>2. Bytes(s) = (CHOOSE g : Is(g))[N]
      BY Zenon DEF Bytes
    <2> HIDE DEF Is
    <2> QED  BY <2>1, <2>2
  <1> DEFINE S == {n \in 0 .. N : bytes[n] = f[n]}
  <1>4. 0 \in S
    BY <1>1, <1>3
  <1>5. ASSUME NEW n \in 0 .. N - 1, n \in S
        PROVE  n + 1 \in S
    <2>1. n + 1 \in 1 .. N /\ (n + 1) - 1 = n
      BY <1>1
    <2>2. bytes[n + 1] = bytes[n] \o Interval(s[n + 1])
      BY <1>1, <1>3, <2>1
    <2>3. f[n + 1] = f[n] \o Interval(s[n + 1])
      BY <2>1
    <2>4. bytes[n] = f[n] /\ n + 1 \in 0 .. N
      BY <1>1, <1>5
    <2>5. bytes[n + 1] = f[n + 1]
      BY <2>2, <2>3, <2>4, Zenon
    <2> QED  BY <2>4, <2>5
  <1> HIDE DEF S, N
  <1>6. \A n \in 0 .. N : n \in S
    BY <1>1, <1>4, <1>5, UpTo
  <1> QED  BY <1>1, <1>3, <1>6 DEF S, N

LEMMA BytesComputed ==
  ASSUME NEW s \in Seq(Block)
  PROVE  \E f \in [0 .. Len(s) -> Seq(Int)] :
            f[0] = << >> /\ \A n \in 1 .. Len(s) : f[n] = f[n - 1] \o Interval(s[n])
  <1> DEFINE next == [n \in 1 .. Len(s) |-> [x \in Seq(Int) |-> x \o Interval(s[n])]]
  <1>1. Len(s) \in Nat /\ \A n \in 1 .. Len(s) : Interval(s[n]) \in Seq(Int)
    <2>1. Len(s) \in Nat /\ \A n \in 1 .. Len(s) : s[n] \in Block
      BY LenProperties, ElementOfSeq
    <2> QED  BY <2>1, IntervalSeq
  <1>2. next \in Steps(Len(s), Seq(Int))
    BY <1>1 DEF Steps
  <1>3. \A n \in 1 .. Len(s), x \in Seq(Int) : next[n][x] = x \o Interval(s[n])
    OBVIOUS
  <1> HIDE DEF next
  <1>4. PICK f : Computes(f, Seq(Int), << >>, Len(s), next)
    <2>1. << >> \in Seq(Int)
      OBVIOUS
    <2> QED  BY <1>1, <1>2, <2>1, Recursion, Zenon
  <1> f \in [0 .. Len(s) -> Seq(Int)]
    BY <1>4 DEF Computes
  <1>5. ASSUME NEW n \in 1 .. Len(s)
        PROVE  f[n] = f[n - 1] \o Interval(s[n])
    <2>1. n - 1 \in 0 .. Len(s)
      BY <1>1
    <2>2. f[n - 1] \in Seq(Int)
      BY <2>1
    <2> QED  BY <1>3, <1>4, <2>2 DEF Computes
  <1> QED  BY <1>4, <1>5 DEF Computes

LEMMA BytesEmpty == Bytes(<< >>) = << >>
  <1> SUFFICES ASSUME NEW s \in Seq(Block), Len(s) = 0
               PROVE  Bytes(s) = << >>
    <2>1. << >> \in Seq(Block) /\ Len(<< >>) = 0
      OBVIOUS
    <2> QED  BY <2>1, Zenon
  <1>1. PICK f \in [0 .. Len(s) -> Seq(Int)] :
            f[0] = << >> /\ \A n \in 1 .. Len(s) : f[n] = f[n - 1] \o Interval(s[n])
    BY BytesComputed
  <1>2. Bytes(s) = f[Len(s)]
    BY <1>1, BytesIs
  <1> QED  BY <1>1, <1>2

LEMMA BytesSeq ==
  ASSUME NEW s \in Seq(Block)
  PROVE  Bytes(s) \in Seq(Int)
  <1>1. PICK f \in [0 .. Len(s) -> Seq(Int)] :
            f[0] = << >> /\ \A n \in 1 .. Len(s) : f[n] = f[n - 1] \o Interval(s[n])
    BY BytesComputed
  <1>2. Bytes(s) = f[Len(s)]
    BY <1>1, BytesIs
  <1>3. Len(s) \in 0 .. Len(s)
    BY LenProperties
  <1> QED  BY <1>2, <1>3

LEMMA BytesAppend ==
  ASSUME NEW s \in Seq(Block), NEW t \in Block
  PROVE  Bytes(Append(s, t)) = Bytes(s) \o Interval(t)
  <1> DEFINE u == Append(s, t)
  <1>1. /\ u \in Seq(Block) /\ Len(s) \in Nat /\ Len(u) = Len(s) + 1
        /\ u[Len(s) + 1] = t /\ \A n \in 1 .. Len(s) : u[n] = s[n]
    BY AppendProperties, LenProperties
  <1> HIDE DEF u
  <1>2. PICK f \in [0 .. Len(u) -> Seq(Int)] :
            f[0] = << >> /\ \A n \in 1 .. Len(u) : f[n] = f[n - 1] \o Interval(u[n])
    BY <1>1, BytesComputed
  <1>3. Bytes(u) = f[Len(u)]
    BY <1>1, <1>2, BytesIs, Zenon
  <1>4. Bytes(s) = f[Len(s)]
    <2>1. \A n \in 1 .. Len(s) : f[n] = f[n - 1] \o Interval(s[n])
      <3> TAKE n \in 1 .. Len(s)
      <3>1. n \in 1 .. Len(u) /\ u[n] = s[n]
        BY <1>1
      <3> QED  BY <1>2, <3>1
    <2> QED  BY <1>2, <2>1, BytesIs
  <1>5. f[Len(u)] = f[Len(s)] \o Interval(t)
    <2>1. Len(u) \in 1 .. Len(u) /\ Len(u) - 1 = Len(s) /\ u[Len(u)] = t
      BY <1>1
    <2> QED  BY <1>2, <2>1
  <1> QED  BY <1>3, <1>4, <1>5 DEF u

-----------------------------------------------------------------------------
(* Numbers that wrap around                                                *)

\* Quotient and remainder are unique.
LEMMA OneQuotient ==
  ASSUME NEW n \in Nat \ {0}, NEW q \in Int, NEW p \in Int, NEW r \in 0 .. n - 1,
         NEW t \in 0 .. n - 1, n * q + r = n * p + t
  PROVE  q = p /\ r = t
  <1>1. CASE q = p
    BY <1>1
  <1>2. CASE q < p
    <2>1. n * q + n <= n * p
      BY <1>2
    <2> QED  BY <2>1
  <1>3. CASE p < q
    <2>1. n * p + n <= n * q
      BY <1>3
    <2> QED  BY <2>1
  <1> QED  BY <1>1, <1>2, <1>3

LEMMA Divides ==
  ASSUME NEW a \in Int, NEW n \in Nat \ {0}
  PROVE  /\ a \div n \in Int /\ a % n \in 0 .. n - 1 /\ a = n * (a \div n) + (a % n)
         /\ a \in Nat => a \div n \in Nat
  OBVIOUS

LEMMA Remainder ==
  ASSUME NEW n \in Nat \ {0}, NEW a \in Int, NEW q \in Int, NEW r \in 0 .. n - 1, a = n * q + r
  PROVE  a % n = r /\ a \div n = q
  <1> DEFINE p == a \div n
             t == a % n
  <1>1. p \in Int /\ t \in 0 .. n - 1 /\ n * p + t = n * q + r
    BY Divides
  <1> HIDE DEF p, t
  <1>2. p = q /\ t = r
    BY <1>1, OneQuotient
  <1> QED  BY <1>2 DEF p, t

LEMMA WrapNumber ==
  /\ \A a \in Int : Wrap(a) \in Numbers
  /\ \A a \in Numbers : Wrap(a) = a
  <1> Width \in Nat \ {0}
    BY WidthAssumption DEF scComp
  <1>1. ASSUME NEW a \in Int
        PROVE  Wrap(a) \in Numbers
    BY Divides DEF Wrap, Numbers
  <1>2. ASSUME NEW a \in Numbers
        PROVE  Wrap(a) = a
    <2>1. a = Width * 0 + a /\ a \in Int /\ 0 \in Int /\ a \in 0 .. Width - 1
      BY DEF Numbers
    <2> QED  BY <2>1, Remainder DEF Wrap
  <1> QED  BY <1>1, <1>2

LEMMA WrapTurns ==
  ASSUME NEW a \in Int, NEW k \in Int
  PROVE  Wrap(a + Width * k) = Wrap(a)
  <1> Width \in Nat \ {0}
    BY WidthAssumption DEF scComp
  <1> DEFINE q == a \div Width
             r == a % Width
  <1>1. q \in Int /\ r \in 0 .. Width - 1 /\ a = Width * q + r
    BY Divides
  <1> HIDE DEF q, r
  <1>2. a + Width * k = Width * (q + k) + r /\ a + Width * k \in Int /\ q + k \in Int
    BY <1>1
  <1>3. (a + Width * k) % Width = r
    BY <1>1, <1>2, Remainder, Zenon
  <1> QED  BY <1>3 DEF Wrap, r

LEMMA WrapAdd ==
  ASSUME NEW a \in Int, NEW b \in Int
  PROVE  Wrap(a + Wrap(b)) = Wrap(a + b)
  <1> Width \in Nat \ {0}
    BY WidthAssumption DEF scComp
  <1> DEFINE q == b \div Width
             r == Wrap(b)
  <1>1. q \in Int /\ r \in Int /\ b = Width * q + r
    BY Divides DEF Wrap
  <1> HIDE DEF q, r
  <1>2. a + b = (a + r) + Width * q /\ a + r \in Int
    BY <1>1
  <1>3. Wrap(a + b) = Wrap(a + r)
    BY <1>1, <1>2, WrapTurns
  <1> QED  BY <1>3 DEF r

-----------------------------------------------------------------------------
(* Merging                                                                 *)

LEMMA Adjacent ==
  ASSUME NEW t \in Block, NEW b \in Block, NEW m \in Block, b.ptr = t.ptr + t.len,
         m.ptr = t.ptr, m.len = t.len + b.len
  PROVE  Interval(t) \o Interval(b) = Interval(m)
  <1> /\ t.ptr \in Int /\ t.len \in Nat /\ b.ptr \in Int /\ b.len \in Nat
      /\ m.ptr \in Int /\ m.len \in Nat
    BY Blocks
  <1>1. /\ Interval(t) \in Seq(Int) /\ Len(Interval(t)) = t.len
        /\ \A j \in 1 .. t.len : Interval(t)[j] = t.ptr + j - 1
    BY IntervalSeq
  <1>2. /\ Interval(b) \in Seq(Int) /\ Len(Interval(b)) = b.len
        /\ \A j \in 1 .. b.len : Interval(b)[j] = b.ptr + j - 1
    BY IntervalSeq
  <1>3. /\ Interval(m) \in Seq(Int) /\ Len(Interval(m)) = m.len
        /\ \A j \in 1 .. m.len : Interval(m)[j] = m.ptr + j - 1
    BY IntervalSeq
  <1> DEFINE u == Interval(t)
             v == Interval(b)
             w == Interval(m)
  <1> HIDE DEF u, v, w
  <1>4. /\ u \o v \in Seq(Int) /\ Len(u \o v) = Len(u) + Len(v)
        /\ \A j \in 1 .. Len(u) + Len(v) :
              (u \o v)[j] = IF j <= Len(u) THEN u[j] ELSE v[j - Len(u)]
    BY <1>1, <1>2, ConcatProperties DEF u, v
  <1>5. ASSUME NEW j \in 1 .. Len(u \o v)
        PROVE  (u \o v)[j] = w[j]
    <2>1. Len(u) = t.len /\ Len(v) = b.len /\ j \in 1 .. m.len
      BY <1>1, <1>2, <1>4 DEF u, v
    <2>2. w[j] = t.ptr + j - 1
      BY <1>3, <2>1 DEF w
    <2>3. CASE j <= t.len
      BY <1>1, <1>4, <2>1, <2>2, <2>3 DEF u
    <2>4. CASE ~ (j <= t.len)
      <3>1. j - t.len \in 1 .. b.len
        BY <2>1, <2>4
      <3>2. v[j - t.len] = b.ptr + (j - t.len) - 1
        BY <1>2, <3>1 DEF v
      <3>3. (u \o v)[j] = v[j - t.len]
        BY <1>4, <2>1, <2>4
      <3> QED  BY <2>2, <3>2, <3>3
    <2> QED  BY <2>3, <2>4
  <1>6. Len(u \o v) = Len(w) /\ w \in Seq(Int)
    BY <1>1, <1>2, <1>3, <1>4 DEF u, v, w
  <1>7. u \o v = w
    BY <1>4, <1>5, <1>6, SeqEqual
  <1> QED  BY <1>7 DEF u, v, w

LEMMA LastLonger ==
  ASSUME NEW s \in Seq(Block), s # << >>, NEW k \in Numbers,
         NEW m, m = [s EXCEPT ![Len(s)].len = k]
  PROVE  \E front \in Seq(Block), t \in Block :
            /\ s = Append(front, t) /\ t = s[Len(s)]
            /\ m = Append(front, [ptr |-> t.ptr, len |-> k])
            /\ [ptr |-> t.ptr, len |-> k] \in Block
            /\ m \in Seq(Block) /\ Len(m) = Len(s)
  <1>1. PICK front \in Seq(Block), t \in Block : s = Append(front, t)
    BY SequenceEmptyOrAppend
  <1> DEFINE e == [ptr |-> t.ptr, len |-> k]
  <1>2. e \in Block /\ t \in [ptr : Numbers, len : Numbers]
    BY Blocks DEF Block
  <1>3. /\ Len(s) \in 1 .. Len(s) /\ Len(s) = Len(front) + 1 /\ s[Len(s)] = t
        /\ \A j \in 1 .. Len(front) : s[j] = front[j]
        /\ Len(front) \in Nat
    BY <1>1, AppendProperties, LenProperties
  <1>4. [t EXCEPT !.len = k] = e
    BY <1>2
  <1>5. m = [s EXCEPT ![Len(s)] = e]
    BY <1>3, <1>4
  <1> HIDE DEF e
  <1>6. /\ m \in Seq(Block) /\ Len(m) = Len(s)
        /\ \A j \in 1 .. Len(s) : m[j] = IF j = Len(s) THEN e ELSE s[j]
    BY <1>2, <1>3, <1>5, ExceptSeq
  <1>7. /\ Append(front, e) \in Seq(Block) /\ Len(Append(front, e)) = Len(front) + 1
        /\ Append(front, e)[Len(front) + 1] = e
        /\ \A j \in 1 .. Len(front) : Append(front, e)[j] = front[j]
    BY <1>2, AppendProperties
  <1>8. \A j \in 1 .. Len(m) : m[j] = Append(front, e)[j]
    BY <1>3, <1>6, <1>7
  <1>9. m = Append(front, e)
    BY <1>3, <1>6, <1>7, <1>8, SeqEqual
  <1> QED  BY <1>1, <1>2, <1>3, <1>6, <1>9 DEF e

\* What a merge does to the table: Transfer with Adjoins.
LEMMA Merge ==
  ASSUME NEW s \in Seq(Block), s # << >>, NEW b \in Block, b.ptr = s[Len(s)].ptr + s[Len(s)].len,
         NEW m, m = [s EXCEPT ![Len(s)].len = Wrap(@ + b.len)]
  PROVE  /\ m \in Seq(Block) /\ Len(m) = Len(s)
         /\ Wrap(Sum(m)) = Wrap(Sum(s) + b.len)
         /\ Sum(s) + b.len < Width => /\ Sum(m) = Sum(s) + b.len
                                      /\ Bytes(m) = Bytes(s) \o Interval(b)
  <1> DEFINE l == s[Len(s)].len + b.len
             k == Wrap(l)
  <1>1. s[Len(s)] \in Block
    <2>1. Len(s) \in 1 .. Len(s)
      BY EmptySeq, LenProperties
    <2> QED  BY <2>1, ElementOfSeq
  <1>2. l \in Nat /\ b.len \in Nat
    BY <1>1, Blocks
  <1>3. k \in Numbers /\ k \in Nat
    BY <1>2, WrapNumber DEF Numbers
  <1>4. m = [s EXCEPT ![Len(s)].len = k]
    OBVIOUS
  <1> HIDE DEF k
  <1>5. PICK front \in Seq(Block), t \in Block :
            /\ s = Append(front, t) /\ t = s[Len(s)]
            /\ m = Append(front, [ptr |-> t.ptr, len |-> k])
            /\ [ptr |-> t.ptr, len |-> k] \in Block
            /\ m \in Seq(Block) /\ Len(m) = Len(s)
    BY <1>3, <1>4, LastLonger
  <1> DEFINE e == [ptr |-> t.ptr, len |-> k]
  <1>6. Sum(front) \in Nat /\ Sum(s) = Sum(front) + t.len /\ Sum(m) = Sum(front) + k
    <2>1. e \in Block /\ e.len = k /\ m = Append(front, e)
      BY <1>5
    <2> HIDE DEF e
    <2>2. Sum(m) = Sum(front) + k
      BY <2>1, SumAppend
    <2>3. Sum(s) = Sum(front) + t.len
      BY <1>5, SumAppend, Zenon
    <2> QED  BY <2>2, <2>3, SumNat
  <1>7. l = t.len + b.len /\ t.len \in Nat /\ t.ptr \in Nat /\ b.ptr = t.ptr + t.len
    BY <1>5, Blocks
  <1>8. Wrap(Sum(m)) = Wrap(Sum(s) + b.len)
    <2>1. Wrap(Sum(front) + k) = Wrap(Sum(front) + l)
      BY <1>2, <1>6, WrapAdd DEF k
    <2>2. Sum(front) + l = Sum(s) + b.len
      BY <1>2, <1>6, <1>7
    <2> QED  BY <1>6, <2>1, <2>2
  <1>9. ASSUME Sum(s) + b.len < Width
        PROVE  Sum(m) = Sum(s) + b.len /\ Bytes(m) = Bytes(s) \o Interval(b)
    <2>1. l \in Numbers
      BY <1>2, <1>6, <1>7, <1>9, WidthAssumption DEF Numbers
    <2>2. k = l
      BY <2>1, WrapNumber DEF k
    <2>3. Sum(m) = Sum(s) + b.len
      BY <1>2, <1>6, <1>7, <2>2
    <2>4. Bytes(m) = Bytes(front) \o Interval(e) /\ Bytes(s) = Bytes(front) \o Interval(t)
      BY <1>5, BytesAppend
    <2>5. Interval(t) \o Interval(b) = Interval(e)
      <3>1. e \in Block /\ e.ptr = t.ptr /\ e.len = t.len + b.len
        BY <1>5, <1>7, <2>2
      <3> HIDE DEF e
      <3> QED  BY <1>7, <3>1, Adjacent
    <2> HIDE DEF e, l
    <2>6. Bytes(front) \in Seq(Int) /\ Interval(t) \in Seq(Int) /\ Interval(b) \in Seq(Int)
      BY BytesSeq, IntervalSeq
    <2>7. (Bytes(front) \o Interval(t)) \o Interval(b) = Bytes(front) \o (Interval(t) \o Interval(b))
      <3> DEFINE x == Bytes(front)
                 y == Interval(t)
                 z == Interval(b)
      <3>1. x \in Seq(Int) /\ y \in Seq(Int) /\ z \in Seq(Int)
        BY <2>6
      <3> HIDE DEF x, y, z
      <3>2. (x \o y) \o z = x \o (y \o z)
        BY <3>1, ConcatAssociative, SMTT(20)
      <3> QED  BY <3>2 DEF x, y, z
    <2>8. Bytes(m) = Bytes(s) \o Interval(b)
      BY <2>4, <2>5, <2>7, Zenon
    <2> QED  BY <2>3, <2>8
  <1> QED  BY <1>5, <1>8, <1>9

-----------------------------------------------------------------------------
(* The invariants                                                          *)

\* Only a transaction in its transfer phase runs a TIB.
BusOK == tib # Idle => phase = "transfer"

TotalOK == phase # "free" => sg_total_length = Wrap(Sum(sg))

TableOK == Sum(transfers) < Width => Sum(sg) = Sum(transfers) /\ Bytes(sg) = Bytes(transfers)

\* The i-th address of a loop after some rounds, and the memory of the loop when
\* these are done, and in the round after them the first i instructions.
Rounds(l) == IF l.rounds = 0 THEN Width ELSE l.rounds
Address(l, i, rounds) ==
    Wrap(l.body[i].ptr + (IF l.body[i].op = scInc THEN rounds * l.body[i].len ELSE 0))
InMemory(l, rounds, done) ==
    LET n == Len(l.body) IN
    /\ \A i \in 1 .. n :
          /\ mem[3 * i - 3] = l.body[i].op
          /\ mem[3 * i - 2] = Address(l, i, IF i <= done THEN rounds + 1 ELSE rounds)
          /\ mem[3 * i - 1] = l.body[i].len
    /\ mem[3 * n] = scLoop
    /\ mem[3 * n + 1] = Wrap(-3 * n)
    /\ mem[3 * n + 2] = Wrap(l.rounds - rounds)
    /\ mem[3 * n + 3] = scStop

\* What is expected is the transfers of this loop, after the b before it.
Expects(l, b) ==
    LET turns == Len(l.body) * Rounds(l) IN
    /\ expected \in Seq(Block)
    /\ Len(expected) = b + turns
    /\ \A k \in 1 .. turns : expected[b + k] = Unrolled(l)[k]

\* It has not started, is in one of its rounds, or is through.
Ready(l, b) == tib = Idle /\ InMemory(l, 0, 0) /\ transfers = SubSeq(expected, 1, b)
InRound(l, b, rounds, done) ==
    /\ tib = 3 * done
    /\ InMemory(l, rounds, done)
    /\ transfers = SubSeq(expected, 1, b + Len(l.body) * rounds + done)
Through(l) ==
    /\ tib = 3 * Len(l.body) + 3
    /\ mem[tib] = scStop
    /\ transfers = expected

UnderWay(l, b) ==
    \/ Ready(l, b)
    \/ \E rounds \in 0 .. Rounds(l) - 1, done \in 0 .. Len(l.body) :
          InRound(l, b, rounds, done)
    \/ Through(l)

RunOK ==
    expected # Unknown =>
        \E l \in Loops, b \in 0 .. Len(transfers) : Expects(l, b) /\ UnderWay(l, b)

ScsiInv == ScsiTypeOK /\ BusOK /\ TotalOK /\ TableOK /\ RunOK

-----------------------------------------------------------------------------
(* Types                                                                   *)

LEMMA Opcodes ==
  /\ {scInc, scNoInc, scAdd, scMove, scLoop, scNop, scStop, scComp} \subseteq Numbers
  /\ 0 \in Numbers /\ Idle \notin Numbers
  /\ \A a \in Numbers : a \in Nat
  BY WidthAssumption DEF Numbers, scInc, scNoInc, scAdd, scMove, scLoop, scNop, scStop, scComp, Idle

LEMMA CellsType ==
  ASSUME NEW t \in Seq(Instruction)
  PROVE  Cells(t) \in [Numbers -> Numbers]
  <1>1. ASSUME NEW a \in Numbers, a < 3 * Len(t)
        PROVE  Field(t[a \div 3 + 1], a % 3) \in Numbers
    <2>1. a \in Nat /\ Len(t) \in Nat
      BY Opcodes, LenProperties
    <2>2. a \div 3 + 1 \in 1 .. Len(t) /\ a % 3 \in {0, 1, 2}
      BY <1>1, <2>1
    <2>3. t[a \div 3 + 1] \in Instruction
      BY <2>2, ElementOfSeq
    <2> QED  BY <2>2, <2>3 DEF Field, Instruction
  <1> QED  BY <1>1, Opcodes DEF Cells

\* The TIB of a loop.
LEMMA LoopTibIs ==
  ASSUME NEW l \in Loops
  PROVE  LET n == Len(l.body)
             t == LoopTib(l)
         IN  /\ n \in Nat \ {0} /\ 3 * (n + 2) <= Width /\ l.rounds \in Numbers
             /\ l.body \in Seq(Instruction)
             /\ \A i \in 1 .. n : l.body[i] \in Instruction /\ l.body[i].op \in {scInc, scNoInc}
             /\ t \in Seq(Instruction) /\ Len(t) = n + 2
             /\ \A i \in 1 .. n : t[i] = l.body[i]
             /\ t[n + 1] = [op |-> scLoop, ptr |-> Wrap(-3 * n), len |-> l.rounds]
             /\ t[n + 2] = [op |-> scStop, ptr |-> 0, len |-> 0]
  <1> DEFINE n == Len(l.body)
             x == [op |-> scLoop, ptr |-> Wrap(-3 * n), len |-> l.rounds]
             y == [op |-> scStop, ptr |-> 0, len |-> 0]
             e == << x, y >>
  <1>1. /\ l.body \in Seq(Instruction) /\ l.body # << >> /\ l.rounds \in Numbers
        /\ \A i \in 1 .. n : l.body[i].op \in {scInc, scNoInc}
        /\ 3 * (n + 2) <= Width
    BY LoopsAssumption
  <1>2. n \in Nat \ {0} /\ \A i \in 1 .. n : l.body[i] \in Instruction
    BY <1>1, EmptySeq, LenProperties, ElementOfSeq
  <1>3. Wrap(-3 * n) \in Numbers
    <2>1. -3 * n \in Int
      BY <1>2
    <2> QED  BY <2>1, WrapNumber
  <1>4. x \in Instruction /\ y \in Instruction
    BY <1>1, <1>3, Opcodes DEF Instruction
  <1>5. LoopTib(l) = l.body \o e
    BY DEF LoopTib
  <1> HIDE DEF x, y
  <1>6. e \in Seq(Instruction) /\ Len(e) = 2 /\ e[1] = x /\ e[2] = y
    BY <1>4
  <1> HIDE DEF e
  <1>7. /\ LoopTib(l) \in Seq(Instruction) /\ Len(LoopTib(l)) = n + 2
        /\ \A i \in 1 .. n + 2 : LoopTib(l)[i] = IF i <= n THEN l.body[i] ELSE e[i - n]
    <2> DEFINE body == l.body
    <2> HIDE DEF body
    <2>1. body \in Seq(Instruction) /\ Len(body) = n /\ LoopTib(l) = body \o e
      BY <1>1, <1>5 DEF body
    <2> HIDE DEF n
    <2>2. /\ body \o e \in Seq(Instruction) /\ Len(body \o e) = Len(body) + Len(e)
          /\ \A i \in 1 .. Len(body) + Len(e) :
                (body \o e)[i] = IF i <= Len(body) THEN body[i] ELSE e[i - Len(body)]
      BY <1>6, <2>1, ConcatProperties, Zenon
    <2> QED  BY <1>6, <2>1, <2>2 DEF body
  <1>8. \A i \in 1 .. n : LoopTib(l)[i] = l.body[i]
    BY <1>2, <1>7
  <1>9. LoopTib(l)[n + 1] = x /\ LoopTib(l)[n + 2] = y
    BY <1>2, <1>6, <1>7
  <1> QED  BY <1>1, <1>2, <1>7, <1>8, <1>9 DEF x, y

\* What exec_tib() reads are numbers.
LEMMA Operands ==
  ASSUME ScsiTypeOK, tib # Idle
  PROVE  /\ Op \in Numbers /\ Ptr \in Numbers /\ Length \in Numbers
         /\ [ptr |-> Ptr, len |-> Length] \in Block
         /\ tib \in Numbers
         /\ Wrap(tib + 1) \in Numbers /\ Wrap(tib + 2) \in Numbers /\ Wrap(tib + 3) \in Numbers
  <1>1. tib \in Numbers /\ tib + 1 \in Int /\ tib + 2 \in Int /\ tib + 3 \in Int
    BY Opcodes DEF ScsiTypeOK
  <1>2. Wrap(tib + 1) \in Numbers /\ Wrap(tib + 2) \in Numbers /\ Wrap(tib + 3) \in Numbers
    BY <1>1, WrapNumber
  <1> QED  BY <1>1, <1>2 DEF ScsiTypeOK, Op, Ptr, Length, Block

\* What a transfer does to the table and the list of transfers.
LEMMA TableTypes ==
  ASSUME ScsiTypeOK, Transfer
  PROVE  /\ sg' \in Seq(Block) /\ Len(sg') <= SG_TABLE_SIZE /\ transfers' \in Seq(Block)
         /\ sg_total_length' \in Numbers /\ tib' \in Numbers \cup {Idle}
         /\ mem' \in [Numbers -> Numbers]
  <1> DEFINE b == [ptr |-> Ptr, len |-> Length]
  <1>0. tib # Idle
    BY DEF Transfer, Fetch
  <1>1. /\ Ptr \in Numbers /\ Length \in Numbers /\ b \in Block
        /\ Wrap(tib + 1) \in Numbers /\ Wrap(tib + 3) \in Numbers
    BY <1>0, Operands
  <1>2. Wrap(Ptr + Length) \in Numbers /\ Wrap(sg_total_length + Length) \in Numbers
    <2>1. Ptr \in Nat /\ Length \in Nat /\ sg_total_length \in Nat
      BY <1>1, Opcodes, Zenon DEF ScsiTypeOK
    <2>2. Ptr + Length \in Int /\ sg_total_length + Length \in Int
      BY <2>1
    <2> QED  BY <2>2, WrapNumber
  <1>3. mem' \in [Numbers -> Numbers]
    BY <1>1, <1>2 DEF Transfer, ScsiTypeOK
  <1>4. CASE ~Adjoins /\ Len(sg) = SG_TABLE_SIZE
    BY <1>3, <1>4 DEF Transfer, ScsiTypeOK, table
  <1>5. CASE ~(~Adjoins /\ Len(sg) = SG_TABLE_SIZE)
    <2>1. /\ sg' = IF Adjoins THEN [sg EXCEPT ![Len(sg)].len = Wrap(@ + b.len)] ELSE Append(sg, b)
          /\ sg_total_length' = Wrap(sg_total_length + Length)
          /\ transfers' = Append(transfers, b)
          /\ tib' = Wrap(tib + 3)
      BY <1>5 DEF Transfer, Continue
    <2>2. b.ptr = Ptr /\ b.len = Length
      OBVIOUS
    <2> HIDE DEF b
    <2>3. transfers' \in Seq(Block)
      BY <1>1, <2>1, AppendProperties DEF ScsiTypeOK
    <2>4. sg' \in Seq(Block) /\ Len(sg') <= SG_TABLE_SIZE
      <3>1. CASE Adjoins
        <4>1. sg \in Seq(Block) /\ sg # << >> /\ b.ptr = sg[Len(sg)].ptr + sg[Len(sg)].len
          BY <2>2, <3>1 DEF Adjoins, ScsiTypeOK
        <4>2. sg' \in Seq(Block) /\ Len(sg') = Len(sg)
          BY <1>1, <2>1, <3>1, <4>1, Merge
        <4> QED  BY <4>2 DEF ScsiTypeOK
      <3>2. CASE ~Adjoins
        <4>1. sg' = Append(sg, b) /\ Len(sg) # SG_TABLE_SIZE
          BY <1>5, <2>1, <3>2
        <4>2. sg' \in Seq(Block) /\ Len(sg') = Len(sg) + 1 /\ Len(sg) \in Nat
          BY <1>1, <4>1, AppendProperties, LenProperties DEF ScsiTypeOK
        <4> QED  BY <4>1, <4>2, TableAssumption DEF ScsiTypeOK
      <3> QED  BY <3>1, <3>2
    <2> QED  BY <1>1, <1>2, <1>3, <2>1, <2>3, <2>4
  <1> QED  BY <1>4, <1>5

LEMMA TypesKept ==
  ASSUME ScsiTypeOK, BusOK, [ScsiNext]_scsiVars
  PROVE  ScsiTypeOK' /\ BusOK'
  <1> USE DEF ScsiTypeOK, BusOK, bus, table, Continue
  <1>1. CASE NewTib
    <2>1. mem' \in [Numbers -> Numbers]
      <3>1. CASE \E l \in Loops : mem' = Cells(LoopTib(l))
        <4>1. PICK l \in Loops : mem' = Cells(LoopTib(l))
          BY <3>1
        <4>2. LoopTib(l) \in Seq(Instruction)
          BY LoopTibIs
        <4> QED  BY <4>1, <4>2, CellsType, Zenon
      <3>2. CASE \E t \in OtherTibs : mem' = Cells(t)
        BY <3>2, OtherTibsAssumption, CellsType
      <3> QED  BY <1>1, <3>1, <3>2 DEF NewTib
    <2> QED  BY <1>1, <2>1 DEF NewTib
  <1>2. CASE SCSIReset
    BY <1>2, TableAssumption DEF SCSIReset
  <1>3. CASE SCSIGet
    <2>1. 0 \in Numbers /\ 0 <= SG_TABLE_SIZE
      BY Opcodes, TableAssumption
    <2> QED  BY <1>3, <2>1 DEF SCSIGet
  <1>4. CASE SCSICmd
    BY <1>4 DEF SCSICmd
  <1>5. CASE SCSIComplete
    BY <1>5 DEF SCSIComplete
  <1>6. CASE \E id \in Ids : SCSISelect(id)
    BY <1>6 DEF SCSISelect
  <1>7. CASE \E read \in BOOLEAN : StartTib(read)
    BY <1>7, Opcodes DEF StartTib
  <1>8. CASE Transfer
    <2>1. tib # Idle /\ UNCHANGED bus
      BY <1>8 DEF Transfer, Fetch
    <2> QED  BY <1>8, <2>1, TableTypes
  <1>9. CASE Add
    <2>1. tib # Idle
      BY <1>9 DEF Add, Fetch
    <2>2. mem[Ptr] + Length \in Int /\ Ptr \in Numbers
      <3>1. Ptr \in Numbers /\ Length \in Numbers
        BY <2>1, Operands
      <3>2. mem[Ptr] \in Numbers
        BY <3>1
      <3> QED  BY <3>1, <3>2, Opcodes
    <2>3. Wrap(mem[Ptr] + Length) \in Numbers /\ Wrap(tib + 3) \in Numbers
      BY <2>1, <2>2, Operands, WrapNumber
    <2> QED  BY <1>9, <2>1, <2>2, <2>3 DEF Add
  <1>10. CASE Move
    <2>1. tib # Idle
      BY <1>10 DEF Move, Fetch
    <2>2. Ptr \in Numbers /\ Length \in Numbers /\ Wrap(tib + 3) \in Numbers
      BY <2>1, Operands
    <2> QED  BY <1>10, <2>1, <2>2 DEF Move
  <1>11. CASE Loop
    <2>1. tib # Idle
      BY <1>11 DEF Loop, Fetch
    <2>2. Length - 1 \in Int /\ tib + Ptr \in Int /\ tib + 3 \in Int /\ Wrap(tib + 2) \in Numbers
      <3>1. Ptr \in Numbers /\ Length \in Numbers /\ tib \in Numbers /\ Wrap(tib + 2) \in Numbers
        BY <2>1, Operands
      <3>2. Ptr \in Nat /\ Length \in Nat /\ tib \in Nat
        BY <3>1, Opcodes, Zenon
      <3> QED  BY <3>1, <3>2
    <2>3. Wrap(Length - 1) \in Numbers /\ Wrap(tib + Ptr) \in Numbers /\ Wrap(tib + 3) \in Numbers
      BY <2>2, WrapNumber
    <2> QED  BY <1>11, <2>1, <2>2, <2>3 DEF Loop
  <1>12. CASE Nop
    <2>1. tib # Idle
      BY <1>12 DEF Nop, Fetch
    <2>2. Wrap(tib + 3) \in Numbers
      BY <2>1, Operands
    <2> QED  BY <1>12, <2>1, <2>2 DEF Nop
  <1>13. CASE Return
    BY <1>13 DEF Return
  <1>14. CASE UNCHANGED scsiVars
    BY <1>14 DEF scsiVars
  <1> QED
    BY <1>1, <1>2, <1>3, <1>4, <1>5, <1>6, <1>7, <1>8, <1>9, <1>10, <1>11, <1>12, <1>13, <1>14
    DEF ScsiNext, Call, ExecTib

-----------------------------------------------------------------------------
(* The table                                                               *)

LEMMA TransferKeepsTable ==
  ASSUME ScsiTypeOK, BusOK, TotalOK, TableOK, Transfer
  PROVE  TotalOK' /\ TableOK'
  <1> DEFINE b == [ptr |-> Ptr, len |-> Length]
  <1>1. tib # Idle /\ phase = "transfer" /\ UNCHANGED bus
    BY DEF Transfer, Fetch, BusOK
  <1>2. CASE ~Adjoins /\ Len(sg) = SG_TABLE_SIZE
    <2>1. UNCHANGED << table, transfers >>
      BY <1>2 DEF Transfer
    <2> QED  BY <1>1, <2>1 DEF TotalOK, TableOK, table, bus
  <1>3. CASE ~(~Adjoins /\ Len(sg) = SG_TABLE_SIZE)
    <2>1. /\ sg' = IF Adjoins THEN [sg EXCEPT ![Len(sg)].len = Wrap(@ + b.len)] ELSE Append(sg, b)
          /\ sg_total_length' = Wrap(sg_total_length + b.len)
          /\ transfers' = Append(transfers, b)
      BY <1>3 DEF Transfer
    <2>2. b \in Block /\ b.ptr = Ptr
      BY <1>1, Operands
    <2> HIDE DEF b
    <2>3. sg \in Seq(Block) /\ transfers \in Seq(Block) /\ b.len \in Nat
      BY <2>2, Blocks DEF ScsiTypeOK
    <2>4. /\ Sum(sg) \in Nat /\ Sum(transfers) \in Nat
          /\ Sum(transfers') = Sum(transfers) + b.len
          /\ Bytes(transfers') = Bytes(transfers) \o Interval(b)
      BY <2>1, <2>2, <2>3, SumNat, SumAppend, BytesAppend
    <2>5. /\ Wrap(Sum(sg')) = Wrap(Sum(sg) + b.len)
          /\ Sum(sg) + b.len < Width => /\ Sum(sg') = Sum(sg) + b.len
                                        /\ Bytes(sg') = Bytes(sg) \o Interval(b)
      <3>1. CASE Adjoins
        <4>1. sg # << >> /\ b.ptr = sg[Len(sg)].ptr + sg[Len(sg)].len
          BY <2>2, <3>1 DEF Adjoins
        <4> QED  BY <2>1, <2>2, <2>3, <3>1, <4>1, Merge
      <3>2. CASE ~Adjoins
        <4>1. sg' = Append(sg, b)
          BY <2>1, <3>2
        <4> QED  BY <2>2, <2>3, <4>1, SumAppend, BytesAppend
      <3> QED  BY <3>1, <3>2
    <2>6. sg_total_length' = Wrap(Sum(sg'))
      <3>0. b.len \in Int /\ Sum(sg) \in Int
        BY <2>3, <2>4
      <3>1. sg_total_length = Wrap(Sum(sg)) /\ Wrap(b.len + Wrap(Sum(sg))) = Wrap(b.len + Sum(sg))
        BY <1>1, <3>0, WrapAdd DEF TotalOK
      <3>2. Wrap(Sum(sg)) \in Int
        BY <2>4, WrapNumber, Opcodes
      <3>3. b.len + Wrap(Sum(sg)) = Wrap(Sum(sg)) + b.len /\ b.len + Sum(sg) = Sum(sg) + b.len
        BY <2>3, <2>4, <3>2
      <3> QED  BY <2>1, <2>5, <3>1, <3>3
    <2>7. ASSUME Sum(transfers') < Width
          PROVE  Sum(sg') = Sum(transfers') /\ Bytes(sg') = Bytes(transfers')
      <3>1. Sum(transfers) < Width
        BY <2>3, <2>4, <2>7, WidthAssumption
      <3>2. Sum(sg) = Sum(transfers) /\ Bytes(sg) = Bytes(transfers)
        BY <3>1 DEF TableOK
      <3>3. Sum(sg) + b.len < Width
        BY <2>4, <2>7, <3>2
      <3> QED  BY <2>4, <2>5, <3>2, <3>3
    <2> QED  BY <2>6, <2>7 DEF TotalOK, TableOK
  <1> QED  BY <1>2, <1>3

LEMMA EmptyTable == Wrap(0) = 0 /\ Wrap(Sum(<< >>)) = 0
  BY SumEmpty, WrapNumber, Opcodes

LEMMA TableKept ==
  ASSUME ScsiTypeOK, BusOK, TotalOK, TableOK, [ScsiNext]_scsiVars
  PROVE  TotalOK' /\ TableOK'
  <1> USE DEF bus, table
  <1>1. CASE NewTib
    BY <1>1 DEF NewTib, TotalOK, TableOK
  <1>2. CASE SCSIReset
    BY <1>2 DEF SCSIReset, TotalOK, TableOK
  <1>3. CASE SCSIGet
    <2>1. sg' = << >> /\ transfers' = << >> /\ sg_total_length' = 0
      BY <1>3 DEF SCSIGet
    <2> QED  BY <2>1, EmptyTable DEF TotalOK, TableOK
  <1>4. CASE SCSICmd
    BY <1>4 DEF SCSICmd, TotalOK, TableOK
  <1>5. CASE SCSIComplete
    BY <1>5 DEF SCSIComplete, TotalOK, TableOK
  <1>6. CASE \E id \in Ids : SCSISelect(id)
    BY <1>6 DEF SCSISelect, TotalOK, TableOK
  <1>7. CASE \E read \in BOOLEAN : StartTib(read)
    BY <1>7 DEF StartTib, TotalOK, TableOK
  <1>8. CASE Transfer
    BY <1>8, TransferKeepsTable
  <1>9. CASE Add
    BY <1>9 DEF Add, TotalOK, TableOK
  <1>10. CASE Move
    BY <1>10 DEF Move, TotalOK, TableOK
  <1>11. CASE Loop
    BY <1>11 DEF Loop, TotalOK, TableOK
  <1>12. CASE Nop
    BY <1>12 DEF Nop, TotalOK, TableOK
  <1>13. CASE Return
    BY <1>13 DEF Return, TotalOK, TableOK
  <1>14. CASE UNCHANGED scsiVars
    BY <1>14 DEF scsiVars, TotalOK, TableOK
  <1> QED
    BY <1>1, <1>2, <1>3, <1>4, <1>5, <1>6, <1>7, <1>8, <1>9, <1>10, <1>11, <1>12, <1>13, <1>14
    DEF ScsiNext, Call, ExecTib

-----------------------------------------------------------------------------
(* Loops                                                                   *)

LEMMA LoopsAre ==
  ASSUME NEW l \in Loops
  PROVE  /\ Len(l.body) \in Nat \ {0} /\ 3 * (Len(l.body) + 2) <= Width
         /\ l.rounds \in Numbers /\ Rounds(l) \in Nat \ {0} /\ Rounds(l) <= Width
         /\ \A i \in 1 .. Len(l.body) :
               /\ l.body[i].op \in {scInc, scNoInc}
               /\ l.body[i].ptr \in Numbers /\ l.body[i].len \in Numbers
  <1>1. /\ Len(l.body) \in Nat \ {0} /\ 3 * (Len(l.body) + 2) <= Width /\ l.rounds \in Numbers
        /\ \A i \in 1 .. Len(l.body) :
              l.body[i] \in Instruction /\ l.body[i].op \in {scInc, scNoInc}
    BY LoopTibIs
  <1>2. Rounds(l) \in Nat \ {0} /\ Rounds(l) <= Width
    BY <1>1, WidthAssumption DEF Rounds, Numbers, scComp
  <1> QED  BY <1>1, <1>2 DEF Instruction

\* The counter of scLoop, after one round more.
LEMMA Countdown ==
  ASSUME NEW l \in Loops, NEW rounds \in 0 .. Rounds(l) - 1
  PROVE  /\ Wrap(Wrap(l.rounds - rounds) - 1) = Wrap(l.rounds - (rounds + 1))
         /\ Wrap(l.rounds - (rounds + 1)) = Rounds(l) - (rounds + 1)
  <1>1. /\ l.rounds \in Int /\ rounds \in Int /\ Rounds(l) \in Nat /\ Rounds(l) <= Width
        /\ Width \in Int
    BY LoopsAre, Opcodes, WidthAssumption
  <1>2. Wrap(l.rounds - rounds) \in Int
    BY <1>1, WrapNumber, Opcodes
  <1>3. Wrap(-1 + Wrap(l.rounds - rounds)) = Wrap(-1 + (l.rounds - rounds))
    <2>1. -1 \in Int /\ l.rounds - rounds \in Int
      BY <1>1
    <2> QED  BY <2>1, WrapAdd, Zenon
  <1>4. /\ -1 + Wrap(l.rounds - rounds) = Wrap(l.rounds - rounds) - 1
        /\ -1 + (l.rounds - rounds) = l.rounds - (rounds + 1)
    BY <1>1, <1>2
  <1>5. Rounds(l) - (rounds + 1) \in Numbers
    BY <1>1 DEF Numbers
  <1>6. Wrap(l.rounds - (rounds + 1)) = Wrap(Rounds(l) - (rounds + 1))
    <2>1. CASE l.rounds # 0
      BY <2>1 DEF Rounds
    <2>2. CASE l.rounds = 0
      <3>1. Rounds(l) - (rounds + 1) = (l.rounds - (rounds + 1)) + Width * 1
        BY <1>1, <2>2 DEF Rounds
      <3>2. l.rounds - (rounds + 1) \in Int /\ 1 \in Int
        BY <1>1
      <3>3. Wrap((l.rounds - (rounds + 1)) + Width * 1) = Wrap(l.rounds - (rounds + 1))
        BY <3>2, WrapTurns, Zenon
      <3> QED  BY <3>1, <3>3
    <2> QED  BY <2>1, <2>2
  <1> QED  BY <1>3, <1>4, <1>5, <1>6, WrapNumber

LEMMA AddressIs ==
  ASSUME NEW l \in Loops, NEW i \in 1 .. Len(l.body), NEW rounds \in Nat
  PROVE  /\ Address(l, i, rounds) \in Numbers
         /\ Address(l, i, 0) = l.body[i].ptr
         /\ l.body[i].op = scInc =>
               Wrap(Address(l, i, rounds) + l.body[i].len) = Address(l, i, rounds + 1)
         /\ l.body[i].op # scInc => Address(l, i, rounds) = Address(l, i, rounds + 1)
  <1> DEFINE p == l.body[i].ptr
             n == l.body[i].len
  <1>1. p \in Nat /\ n \in Nat /\ p \in Numbers
    BY LoopsAre, Opcodes
  <1>2. CASE l.body[i].op = scInc
    <2>1. \A r \in Nat : Address(l, i, r) = Wrap(p + r * n)
      BY <1>2 DEF Address
    <2> HIDE DEF p, n
    <2>2. p + rounds * n \in Int /\ p + 0 * n = p
      BY <1>1
    <2>3. Wrap(p + rounds * n) \in Numbers /\ Wrap(p) = p
      BY <1>1, <2>2, WrapNumber
    <2>4. Wrap(n + Wrap(p + rounds * n)) = Wrap(n + (p + rounds * n))
      BY <1>1, <2>2, WrapAdd
    <2>5. Wrap(p + rounds * n) \in Int
      BY <2>3, Opcodes
    <2>6. /\ n + Wrap(p + rounds * n) = Wrap(p + rounds * n) + n
          /\ n + (p + rounds * n) = p + (rounds + 1) * n
      BY <1>1, <2>5
    <2>7. Wrap(Wrap(p + rounds * n) + n) = Wrap(p + (rounds + 1) * n)
      BY <2>4, <2>6
    <2>8. rounds + 1 \in Nat /\ 0 \in Nat
      OBVIOUS
    <2> QED  BY <1>2, <2>1, <2>2, <2>3, <2>7, <2>8 DEF p, n
  <1>3. CASE l.body[i].op # scInc
    <2>1. \A r \in Nat : Address(l, i, r) = Wrap(p + 0)
      BY <1>3 DEF Address
    <2>2. p + 0 = p /\ Wrap(p) = p
      BY <1>1, WrapNumber
    <2> QED  BY <1>1, <1>3, <2>1, <2>2
  <1> QED  BY <1>2, <1>3

\* What a loop is for, by round and instruction.
LEMMA UnrolledIs ==
  ASSUME NEW l \in Loops
  PROVE  /\ Unrolled(l) \in Seq(Block) /\ Len(Unrolled(l)) = Len(l.body) * Rounds(l)
         /\ \A rounds \in 0 .. Rounds(l) - 1, i \in 1 .. Len(l.body) :
               /\ Len(l.body) * rounds + i \in 1 .. Len(l.body) * Rounds(l)
               /\ Unrolled(l)[Len(l.body) * rounds + i] =
                     [ptr |-> Address(l, i, rounds), len |-> l.body[i].len]
  <1> DEFINE n == Len(l.body)
             turns == n * Rounds(l)
             e(k) == [ptr |-> Address(l, ((k - 1) % n) + 1, (k - 1) \div n),
                      len |-> l.body[((k - 1) % n) + 1].len]
  <1>1. n \in Nat \ {0} /\ Rounds(l) \in Nat \ {0}
    BY LoopsAre
  <1>2. Unrolled(l) = [k \in 1 .. turns |-> e(k)]
    BY Zenon DEF Unrolled, Rounds, Address
  <1>3. turns \in Nat
    BY <1>1
  <1>4. ASSUME NEW k \in 1 .. turns
        PROVE  e(k) \in Block
    <2>1. k - 1 \in Nat
      BY <1>3
    <2>2. (k - 1) % n \in 0 .. n - 1 /\ (k - 1) \div n \in Nat
      <3> HIDE DEF n
      <3>1. k - 1 \in Int
        BY <2>1
      <3> QED  BY <1>1, <2>1, <3>1, Divides, Zenon
    <2> DEFINE i == ((k - 1) % n) + 1
               r == (k - 1) \div n
    <2>3. i \in 1 .. n /\ r \in Nat
      <3> DEFINE j == (k - 1) % n
      <3>1. j \in 0 .. n - 1
        BY <2>2
      <3> HIDE DEF j, n
      <3>2. j + 1 \in 1 .. n
        BY <1>1, <3>1
      <3> QED  BY <2>2, <3>2 DEF j
    <2> HIDE DEF i, r
    <2>4. Address(l, i, r) \in Numbers /\ l.body[i].len \in Numbers
      BY <2>3, AddressIs, LoopsAre
    <2> QED  BY <2>4 DEF i, r, Block
  <1> HIDE DEF turns, e
  <1>5. Unrolled(l) \in Seq(Block) /\ Len(Unrolled(l)) = turns
    BY <1>2, <1>3, <1>4
  <1>6. ASSUME NEW rounds \in 0 .. Rounds(l) - 1, NEW i \in 1 .. n
        PROVE  /\ n * rounds + i \in 1 .. turns
               /\ Unrolled(l)[n * rounds + i] =
                     [ptr |-> Address(l, i, rounds), len |-> l.body[i].len]
    <2> DEFINE k == n * rounds + i
    <2>0. n \in Nat \ {0} /\ i \in 1 .. n /\ rounds \in Nat /\ rounds <= Rounds(l) - 1 /\ Rounds(l) \in Nat
      BY <1>1
    <2> HIDE DEF n
    <2>1. n * rounds <= n * (Rounds(l) - 1) /\ n * rounds \in Nat
      BY <2>0
    <2>2. n * (Rounds(l) - 1) = n * Rounds(l) - n /\ n * Rounds(l) \in Nat
      BY <2>0
    <2>3. k \in 1 .. turns
      BY <2>0, <2>1, <2>2 DEF turns
    <2>4. k - 1 = n * rounds + (i - 1) /\ k - 1 \in Int /\ i - 1 \in 0 .. n - 1
      BY <2>0, <2>1
    <2> HIDE DEF k
    <2>5. (k - 1) % n = i - 1 /\ (k - 1) \div n = rounds
      <3>1. rounds \in Int
        BY <2>0
      <3> QED  BY <2>0, <2>4, <3>1, Remainder, Zenon
    <2>6. (i - 1) + 1 = i
      BY <2>0
    <2>7. e(k) = [ptr |-> Address(l, i, rounds), len |-> l.body[i].len]
      BY <2>5, <2>6, Zenon DEF e
    <2> QED  BY <1>2, <2>3, <2>7 DEF k
  <1> QED  BY <1>5, <1>6 DEF turns

(* Running a loop                                                          *)

LEMMA SubSeqNext ==
  ASSUME NEW S, NEW s \in Seq(S), NEW m \in Nat, m < Len(s)
  PROVE  Append(SubSeq(s, 1, m), s[m + 1]) = SubSeq(s, 1, m + 1)
  <1>1. Len(s) \in Nat /\ 1 \in 1 .. Len(s) /\ m + 1 \in 1 .. Len(s) /\ (m + 1) - 1 = m
    BY LenProperties
  <1>2. SubSeq(s, 1, m + 1) = SubSeq(s, 1, m) \o << s[m + 1] >>
    BY <1>1, SubSeqRecursiveSecond
  <1>3. \A j \in 1 .. m : s[j] \in S
    BY <1>1, ElementOfSeq
  <1>4. SubSeq(s, 1, m) \in Seq(S) /\ s[m + 1] \in S
    BY <1>1, <1>3, SubSeqProperties, ElementOfSeq
  <1> QED  BY <1>2, <1>4, AppendIsConcat

\* A loop as Mac code writes it.
LEMMA CellsOfLoop ==
  ASSUME NEW l \in Loops, mem' = Cells(LoopTib(l))
  PROVE  InMemory(l, 0, 0)'
  <1> DEFINE n == Len(l.body)
             t == LoopTib(l)
  <1>1. /\ n \in Nat \ {0} /\ 3 * (n + 2) <= Width /\ Len(t) = n + 2
        /\ l.rounds \in Numbers
        /\ \A i \in 1 .. n : t[i] = l.body[i]
        /\ t[n + 1] = [op |-> scLoop, ptr |-> Wrap(-3 * n), len |-> l.rounds]
        /\ t[n + 2] = [op |-> scStop, ptr |-> 0, len |-> 0]
    BY LoopTibIs
  <1>2. ASSUME NEW i \in 1 .. n + 2
        PROVE  /\ mem'[3 * i - 3] = t[i].op
               /\ mem'[3 * i - 2] = t[i].ptr
               /\ mem'[3 * i - 1] = t[i].len
    <2>1. ASSUME NEW a \in Numbers, NEW k \in 0 .. 2, a = 3 * (i - 1) + k
          PROVE  mem'[a] = Field(t[i], k)
      <3>1. i \in Nat /\ a \in Int /\ i - 1 \in Int /\ 3 \in Nat \ {0} /\ k \in 0 .. 3 - 1
        BY <1>1, <2>1, Opcodes
      <3>2. a % 3 = k /\ a \div 3 = i - 1
        BY <2>1, <3>1, Remainder, Zenon
      <3>3. a < 3 * Len(t) /\ (i - 1) + 1 = i
        BY <1>1, <2>1, <3>1
      <3>4. mem'[a] = Field(t[a \div 3 + 1], a % 3)
        BY <2>1, <3>3 DEF Cells
      <3> QED  BY <3>2, <3>3, <3>4
    <2>2. 3 * i - 3 \in Numbers /\ 3 * i - 2 \in Numbers /\ 3 * i - 1 \in Numbers
      <3>1. i \in Nat /\ 1 <= i /\ i <= n + 2 /\ n \in Nat /\ 3 * (n + 2) <= Width /\ Width \in Nat
        BY <1>1, WidthAssumption
      <3> HIDE DEF n
      <3> QED  BY <3>1 DEF Numbers
    <2>3. /\ 3 * i - 3 = 3 * (i - 1) + 0 /\ 3 * i - 2 = 3 * (i - 1) + 1
          /\ 3 * i - 1 = 3 * (i - 1) + 2
      BY <1>1
    <2>4. /\ mem'[3 * i - 3] = Field(t[i], 0) /\ mem'[3 * i - 2] = Field(t[i], 1)
          /\ mem'[3 * i - 1] = Field(t[i], 2)
      <3>1. 0 \in 0 .. 2 /\ 1 \in 0 .. 2 /\ 2 \in 0 .. 2
        OBVIOUS
      <3> HIDE DEF t
      <3> QED  BY <2>1, <2>2, <2>3, <3>1
    <2> QED  BY <2>4 DEF Field
  <1> HIDE DEF t
  <1>3. ASSUME NEW i \in 1 .. n
        PROVE  /\ mem'[3 * i - 3] = l.body[i].op
               /\ mem'[3 * i - 2] = Address(l, i, IF i <= 0 THEN 0 + 1 ELSE 0)
               /\ mem'[3 * i - 1] = l.body[i].len
    <2>1. i \in 1 .. n + 2 /\ t[i] = l.body[i] /\ ~(i <= 0) /\ 0 \in Nat
      BY <1>1
    <2>2. Address(l, i, 0) = l.body[i].ptr
      BY <2>1, AddressIs
    <2> QED  BY <1>2, <2>1, <2>2
  <1>4. /\ mem'[3 * n] = scLoop /\ mem'[3 * n + 1] = Wrap(-3 * n)
        /\ mem'[3 * n + 2] = l.rounds
    <2>1. /\ n + 1 \in 1 .. n + 2 /\ 3 * (n + 1) - 3 = 3 * n /\ 3 * (n + 1) - 2 = 3 * n + 1
          /\ 3 * (n + 1) - 1 = 3 * n + 2
      BY <1>1
    <2>2. /\ t[n + 1].op = scLoop /\ t[n + 1].ptr = Wrap(-3 * n) /\ t[n + 1].len = l.rounds
      BY <1>1
    <2>3. /\ mem'[3 * (n + 1) - 3] = t[n + 1].op /\ mem'[3 * (n + 1) - 2] = t[n + 1].ptr
          /\ mem'[3 * (n + 1) - 1] = t[n + 1].len
      BY <1>2, <2>1
    <2> QED  BY <2>1, <2>2, <2>3
  <1>5. mem'[3 * n + 3] = scStop
    <2>1. n + 2 \in 1 .. n + 2 /\ 3 * (n + 2) - 3 = 3 * n + 3
      BY <1>1
    <2>2. mem'[3 * (n + 2) - 3] = t[n + 2].op
      BY <1>2, <2>1
    <2> QED  BY <1>1, <2>1, <2>2
  <1>6. Wrap(l.rounds - 0) = l.rounds
    <2>1. l.rounds - 0 = l.rounds
      BY <1>1, Opcodes
    <2> QED  BY <1>1, <2>1, WrapNumber
  <1> QED  BY <1>3, <1>4, <1>5, <1>6 DEF InMemory

LEMMA NewLoop ==
  ASSUME ScsiTypeOK, NEW l \in Loops, NewTib, mem' = Cells(LoopTib(l)),
         expected' = transfers \o Unrolled(l)
  PROVE  RunOK'
  <1> DEFINE b == Len(transfers)
             u == Unrolled(l)
  <1>1. transfers \in Seq(Block) /\ u \in Seq(Block) /\ Len(u) = Len(l.body) * Rounds(l) /\ b \in Nat
    BY UnrolledIs, LenProperties DEF ScsiTypeOK
  <1> HIDE DEF u
  <1>2. /\ expected' \in Seq(Block) /\ Len(expected') = b + Len(u)
        /\ \A k \in 1 .. b + Len(u) : expected'[k] = IF k <= b THEN transfers[k] ELSE u[k - b]
    BY <1>1, ConcatProperties DEF u
  <1>3. Len(u) \in Nat
    BY <1>1, LenProperties
  <1>4. Expects(l, b)'
    <2>1. \A k \in 1 .. Len(u) : expected'[b + k] = u[k]
      <3> TAKE k \in 1 .. Len(u)
      <3>1. b + k \in 1 .. b + Len(u) /\ ~(b + k <= b) /\ (b + k) - b = k
        BY <1>1, <1>3
      <3> QED  BY <1>2, <3>1
    <2>2. UNCHANGED transfers
      BY DEF NewTib
    <2> HIDE DEF b
    <2>3. b' = b
      BY <2>2 DEF b
    <2> QED  BY <1>1, <1>2, <2>1, <2>3 DEF Expects, u
  <1>5. SubSeq(expected', 1, b) = transfers
    <2>1. b \in 0 .. Len(expected') /\ \A i \in 1 .. b : expected'[i] = transfers[i] /\ transfers[i] \in Block
      BY <1>1, <1>2, <1>3, ElementOfSeq
    <2>2. /\ SubSeq(expected', 1, b) \in Seq(Block) /\ Len(SubSeq(expected', 1, b)) = b
          /\ \A i \in 1 .. b : SubSeq(expected', 1, b)[i] = expected'[i]
      <3>1. /\ SubSeq(expected', 1, b) \in Seq(Block)
            /\ Len(SubSeq(expected', 1, b)) = IF 1 <= b THEN b - 1 + 1 ELSE 0
            /\ \A i \in 1 .. b - 1 + 1 : SubSeq(expected', 1, b)[i] = expected'[1 + i - 1]
        BY <1>1, <2>1, SubSeqProperties
      <3>2. (IF 1 <= b THEN b - 1 + 1 ELSE 0) = b /\ b - 1 + 1 = b
        BY <1>1
      <3> QED  BY <1>1, <3>1, <3>2
    <2> QED  BY <1>1, <2>1, <2>2, SeqEqual
  <1>6. Ready(l, b)'
    BY <1>5, CellsOfLoop DEF NewTib, Ready
  <1>7. b \in 0 .. Len(transfers')
    BY <1>1 DEF NewTib
  <1> QED  BY <1>4, <1>6, <1>7 DEF RunOK, UnderWay, NewTib

\* In its rounds a loop runs its body and then the scLoop.
LEMMA InBody ==
  ASSUME NEW l \in Loops, NEW b \in Nat, NEW rounds \in 0 .. Rounds(l) - 1,
         NEW done \in 0 .. Len(l.body) - 1, InRound(l, b, rounds, done)
  PROVE  /\ Op = l.body[done + 1].op /\ Op \in {scInc, scNoInc}
         /\ Ptr = Address(l, done + 1, rounds) /\ Length = l.body[done + 1].len
         /\ Wrap(tib + 1) = 3 * done + 1 /\ Wrap(tib + 3) = 3 * (done + 1)
  <1> DEFINE n == Len(l.body)
  <1>1. n \in Nat /\ 3 * (n + 2) <= Width /\ done \in Nat /\ done + 1 \in 1 .. n /\ Width \in Nat
    BY LoopsAre, WidthAssumption
  <1>2. tib = 3 * done
    BY DEF InRound
  <1>3. ~(done + 1 <= done) /\ 3 * (done + 1) - 3 = 3 * done /\ 3 * (done + 1) - 2 = 3 * done + 1
        /\ 3 * (done + 1) - 1 = 3 * done + 2
    BY <1>1
  <1>4. /\ mem[3 * done] = l.body[done + 1].op
        /\ mem[3 * done + 1] = Address(l, done + 1, rounds)
        /\ mem[3 * done + 2] = l.body[done + 1].len
    <2>1. /\ mem[3 * (done + 1) - 3] = l.body[done + 1].op
          /\ mem[3 * (done + 1) - 2] =
                Address(l, done + 1, IF done + 1 <= done THEN rounds + 1 ELSE rounds)
          /\ mem[3 * (done + 1) - 1] = l.body[done + 1].len
      BY <1>1 DEF InRound, InMemory
    <2> QED  BY <1>3, <2>1
  <1>5. 3 * done + 1 \in Numbers /\ 3 * done + 2 \in Numbers /\ 3 * done + 3 \in Numbers
    <2> HIDE DEF n
    <2> QED  BY <1>1 DEF Numbers
  <1>6. Wrap(tib + 1) = 3 * done + 1 /\ Wrap(tib + 2) = 3 * done + 2 /\ Wrap(tib + 3) = 3 * done + 3
    BY <1>2, <1>5, WrapNumber
  <1>7. l.body[done + 1].op \in {scInc, scNoInc} /\ 3 * done + 3 = 3 * (done + 1)
    BY <1>1, LoopsAre
  <1> QED  BY <1>2, <1>4, <1>6, <1>7 DEF Op, Ptr, Length

LEMMA AtLoop ==
  ASSUME NEW l \in Loops, NEW b \in Nat, NEW rounds \in 0 .. Rounds(l) - 1,
         InRound(l, b, rounds, Len(l.body))
  PROVE  /\ Op = scLoop /\ Length = Wrap(l.rounds - rounds)
         /\ Wrap(tib + 2) = 3 * Len(l.body) + 2
         /\ Wrap(tib + Ptr) = 0 /\ Wrap(tib + 3) = 3 * Len(l.body) + 3
  <1> DEFINE n == Len(l.body)
  <1>1. n \in Nat /\ 3 * (n + 2) <= Width /\ Width \in Nat
    BY LoopsAre, WidthAssumption
  <1>2. tib = 3 * n /\ mem[3 * n] = scLoop /\ mem[3 * n + 1] = Wrap(-3 * n)
        /\ mem[3 * n + 2] = Wrap(l.rounds - rounds)
    BY DEF InRound, InMemory
  <1> HIDE DEF n
  <1>3. 3 * n + 1 \in Numbers /\ 3 * n + 2 \in Numbers /\ 3 * n + 3 \in Numbers
    BY <1>1 DEF Numbers
  <1>4. Wrap(tib + 1) = 3 * n + 1 /\ Wrap(tib + 2) = 3 * n + 2 /\ Wrap(tib + 3) = 3 * n + 3
    BY <1>2, <1>3, WrapNumber
  <1>5. Wrap(3 * n + Wrap(-3 * n)) = 0
    <2>1. 3 * n \in Int /\ -3 * n \in Int /\ 3 * n + (-3 * n) = 0
      BY <1>1
    <2>2. Wrap(3 * n + Wrap(-3 * n)) = Wrap(3 * n + (-3 * n))
      BY <2>1, WrapAdd, Zenon
    <2> QED  BY <2>1, <2>2, EmptyTable
  <1> QED  BY <1>2, <1>4, <1>5 DEF Op, Ptr, Length, n

LEMMA Halted ==
  ASSUME NEW l \in Loops, Through(l)
  PROVE  Op = scStop /\ transfers = expected /\ tib # Idle
  BY LoopsAre DEF Through, Op, Idle

LEMMA NotIdle ==
  ASSUME NEW l \in Loops, NEW b, NEW rounds, NEW done \in 0 .. Len(l.body), InRound(l, b, rounds, done)
  PROVE  tib # Idle
  BY LoopsAre DEF InRound, Idle

\* Where a TIB is that does what is expected of it.
Located(l, b) ==
    \/ Ready(l, b)
    \/ \E rounds \in 0 .. Rounds(l) - 1, done \in 0 .. Len(l.body) - 1 :
          InRound(l, b, rounds, done)
    \/ \E rounds \in 0 .. Rounds(l) - 1 : InRound(l, b, rounds, Len(l.body))
    \/ Through(l)

LEMMA Where ==
  ASSUME RunOK, expected # Unknown
  PROVE  \E l \in Loops, b \in 0 .. Len(transfers) : Expects(l, b) /\ b \in Nat /\ Located(l, b)
  <1>1. PICK l \in Loops, b \in 0 .. Len(transfers) : Expects(l, b) /\ UnderWay(l, b)
    BY DEF RunOK
  <1>2. b \in Nat /\ \A done \in 0 .. Len(l.body) : done \in 0 .. Len(l.body) - 1 \/ done = Len(l.body)
    BY LoopsAre
  <1> QED  BY <1>1, <1>2 DEF UnderWay, Located

\* A transfer of the body: the next one of those expected.
LEMMA BodyStep ==
  ASSUME ScsiTypeOK, Transfer, expected' # Unknown,
         NEW l \in Loops, NEW b \in 0 .. Len(transfers), b \in Nat, Expects(l, b),
         NEW rounds \in 0 .. Rounds(l) - 1, NEW done \in 0 .. Len(l.body) - 1,
         InRound(l, b, rounds, done)
  PROVE  /\ Expects(l, b)' /\ b \in 0 .. Len(transfers')
         /\ InRound(l, b, rounds, done + 1)'
  <1> DEFINE n == Len(l.body)
             m == b + n * rounds + done
             x == [ptr |-> Ptr, len |-> Length]
  <1>1. /\ n \in Nat \ {0} /\ rounds \in Nat /\ Rounds(l) \in Nat /\ done \in Nat
        /\ done + 1 \in 1 .. n /\ 3 * (n + 2) <= Width /\ Width \in Nat
    BY LoopsAre, WidthAssumption
  <1>2. /\ Op = l.body[done + 1].op /\ Op \in {scInc, scNoInc}
        /\ Ptr = Address(l, done + 1, rounds) /\ Length = l.body[done + 1].len
        /\ Wrap(tib + 1) = 3 * done + 1 /\ Wrap(tib + 3) = 3 * (done + 1)
    BY InBody
  <1>3. /\ tib' = Wrap(tib + 3) /\ expected' = expected /\ transfers' = Append(transfers, x)
        /\ mem' = IF Op = scInc THEN [mem EXCEPT ![Wrap(tib + 1)] = Wrap(Ptr + Length)] ELSE mem
    BY DEF Transfer, Unexpected, Continue
  <1>4. n * rounds \in Nat /\ n * Rounds(l) \in Nat /\ n * rounds + (done + 1) \in 1 .. n * Rounds(l)
        /\ Unrolled(l)[n * rounds + (done + 1)] = x
    <2>1. n * rounds \in Nat /\ n * Rounds(l) \in Nat
      <3> HIDE DEF n
      <3> QED  BY <1>1
    <2> QED  BY <1>1, <1>2, <2>1, UnrolledIs
  <1>5. /\ expected \in Seq(Block) /\ Len(expected) = b + n * Rounds(l)
        /\ expected[b + (n * rounds + (done + 1))] = x
    BY <1>4 DEF Expects
  <1> HIDE DEF x
  <1>6. transfers' = SubSeq(expected, 1, m + 1)
    <2>1. transfers = SubSeq(expected, 1, m)
      BY DEF InRound
    <2>2. m \in Nat /\ m + 1 = b + (n * rounds + (done + 1)) /\ m < Len(expected)
      <3> DEFINE p == n * rounds
                 q == n * Rounds(l)
      <3>1. p \in Nat /\ q \in Nat /\ p + (done + 1) \in 1 .. q /\ Len(expected) = b + q
        BY <1>4, <1>5
      <3>2. m = b + p + done
        OBVIOUS
      <3> HIDE DEF m, p, q
      <3>3. m \in Nat /\ m + 1 = b + (p + (done + 1)) /\ m < Len(expected)
        BY <1>1, <3>1, <3>2
      <3> QED  BY <3>3 DEF p
    <2> HIDE DEF m
    <2>3. Append(SubSeq(expected, 1, m), expected[m + 1]) = SubSeq(expected, 1, m + 1)
      BY <1>5, <2>2, SubSeqNext
    <2> QED  BY <1>3, <1>5, <2>1, <2>2, <2>3
  <1>7. m + 1 = b + n * rounds + (done + 1)
    <2> HIDE DEF n
    <2> QED  BY <1>1, <1>4
  <1>8. b \in 0 .. Len(transfers')
    <2>1. Len(transfers') = Len(transfers) + 1 /\ Len(transfers) \in Nat
      <3>1. x \in Block
        <4>1. tib # Idle
          BY DEF Transfer, Fetch
        <4> QED  BY <4>1, Operands DEF x
      <3> QED  BY <1>3, <3>1, AppendProperties, LenProperties DEF ScsiTypeOK
    <2> QED  BY <2>1
  <1>9. InMemory(l, rounds, done + 1)'
    <2>1. /\ mem \in [Numbers -> Numbers]
          /\ \A a \in Numbers : a # 3 * done + 1 => mem'[a] = mem[a]
          /\ mem'[3 * done + 1] = Address(l, done + 1, rounds + 1)
      <3>1. mem \in [Numbers -> Numbers] /\ 3 * done + 1 \in Numbers
        <4>1. 3 * done + 1 \in Numbers
          <5> HIDE DEF n
          <5> QED  BY <1>1 DEF Numbers
        <4> QED  BY <4>1 DEF ScsiTypeOK
      <3>2. CASE Op = scInc
        <4>1. mem' = [mem EXCEPT ![3 * done + 1] = Wrap(Ptr + Length)]
          BY <1>2, <1>3, <3>2
        <4>2. Wrap(Ptr + Length) = Address(l, done + 1, rounds + 1)
          <5>1. /\ l.body[done + 1].op = scInc
                /\ Ptr = Address(l, done + 1, rounds) /\ Length = l.body[done + 1].len
            BY <1>2, <3>2
          <5>2. Wrap(Address(l, done + 1, rounds) + l.body[done + 1].len)
                    = Address(l, done + 1, rounds + 1)
            BY <1>1, <5>1, AddressIs
          <5> QED  BY <5>1, <5>2
        <4> QED  BY <3>1, <4>1, <4>2
      <3>3. CASE Op # scInc
        <4>1. mem' = mem
          BY <1>3, <3>3
        <4>2. mem[3 * done + 1] = Address(l, done + 1, rounds)
          <5>1. 3 * done = tib /\ Wrap(tib + 1) = 3 * done + 1
            BY <1>2 DEF InRound
          <5> QED  BY <1>2, <5>1 DEF Ptr
        <4>3. Address(l, done + 1, rounds) = Address(l, done + 1, rounds + 1)
          BY <1>1, <1>2, <3>3, AddressIs
        <4> QED  BY <3>1, <4>1, <4>2, <4>3
      <3> QED  BY <3>2, <3>3
    <2>2. InMemory(l, rounds, done)
      BY DEF InRound
    <2>3. ASSUME NEW i \in 1 .. n
          PROVE  /\ mem'[3 * i - 3] = l.body[i].op
                 /\ mem'[3 * i - 2] = Address(l, i, IF i <= done + 1 THEN rounds + 1 ELSE rounds)
                 /\ mem'[3 * i - 1] = l.body[i].len
      <3>1. /\ mem[3 * i - 3] = l.body[i].op
            /\ mem[3 * i - 2] = Address(l, i, IF i <= done THEN rounds + 1 ELSE rounds)
            /\ mem[3 * i - 1] = l.body[i].len
        BY <2>2 DEF InMemory
      <3>2. /\ 3 * i - 3 \in Numbers /\ 3 * i - 2 \in Numbers /\ 3 * i - 1 \in Numbers
            /\ 3 * i - 3 # 3 * done + 1 /\ 3 * i - 1 # 3 * done + 1
            /\ i # done + 1 => 3 * i - 2 # 3 * done + 1 /\ (i <= done + 1 <=> i <= done)
            /\ i = done + 1 => 3 * i - 2 = 3 * done + 1 /\ i <= done + 1
        <4> HIDE DEF n
        <4> QED  BY <1>1 DEF Numbers
      <3>3. mem'[3 * i - 3] = l.body[i].op /\ mem'[3 * i - 1] = l.body[i].len
        BY <2>1, <3>1, <3>2
      <3>4. mem'[3 * i - 2] = Address(l, i, IF i <= done + 1 THEN rounds + 1 ELSE rounds)
        <4>1. CASE i = done + 1
          BY <2>1, <3>2, <4>1
        <4>2. CASE i # done + 1
          <5>1. mem'[3 * i - 2] = mem[3 * i - 2]
            BY <2>1, <3>2, <4>2
          <5>2. (IF i <= done + 1 THEN rounds + 1 ELSE rounds) = IF i <= done THEN rounds + 1 ELSE rounds
            BY <3>2, <4>2
          <5> QED  BY <3>1, <5>1, <5>2
        <4> QED  BY <4>1, <4>2
      <3> QED  BY <3>3, <3>4
    <2>4. /\ 3 * n \in Numbers /\ 3 * n + 1 \in Numbers /\ 3 * n + 2 \in Numbers
          /\ 3 * n + 3 \in Numbers
          /\ 3 * n # 3 * done + 1 /\ 3 * n + 1 # 3 * done + 1 /\ 3 * n + 2 # 3 * done + 1
          /\ 3 * n + 3 # 3 * done + 1
      <3> HIDE DEF n
      <3> QED  BY <1>1 DEF Numbers
    <2>5. /\ mem'[3 * n] = scLoop /\ mem'[3 * n + 1] = Wrap(-3 * n)
          /\ mem'[3 * n + 2] = Wrap(l.rounds - rounds) /\ mem'[3 * n + 3] = scStop
      BY <2>1, <2>2, <2>4 DEF InMemory
    <2> QED  BY <2>3, <2>5 DEF InMemory
  <1>10. tib' = 3 * (done + 1)
    BY <1>2, <1>3
  <1>11. InRound(l, b, rounds, done + 1)'
    BY <1>3, <1>6, <1>7, <1>9, <1>10 DEF InRound
  <1>12. Expects(l, b)'
    BY <1>3 DEF Expects
  <1> QED  BY <1>8, <1>11, <1>12

\* The scLoop at the end of a round: back, or on to the scStop.
LEMMA LoopStep ==
  ASSUME ScsiTypeOK, Loop,
         NEW l \in Loops, NEW b \in 0 .. Len(transfers), b \in Nat, Expects(l, b),
         NEW rounds \in 0 .. Rounds(l) - 1, InRound(l, b, rounds, Len(l.body))
  PROVE  /\ Expects(l, b)'
         /\ \/ rounds + 1 \in 0 .. Rounds(l) - 1 /\ InRound(l, b, rounds + 1, 0)'
            \/ Through(l)'
  <1> DEFINE n == Len(l.body)
  <1>1. /\ n \in Nat \ {0} /\ rounds \in Nat /\ Rounds(l) \in Nat /\ rounds <= Rounds(l) - 1
        /\ 3 * (n + 2) <= Width /\ Width \in Nat
    BY LoopsAre, WidthAssumption
  <1>2. /\ Length = Wrap(l.rounds - rounds) /\ Wrap(tib + 2) = 3 * n + 2
        /\ Wrap(tib + Ptr) = 0 /\ Wrap(tib + 3) = 3 * n + 3
    BY AtLoop
  <1>3. /\ mem' = [mem EXCEPT ![Wrap(tib + 2)] = Wrap(Length - 1)]
        /\ tib' = Wrap(IF Wrap(Length - 1) > 0 THEN tib + Ptr ELSE tib + 3)
        /\ UNCHANGED << transfers, expected >>
    BY DEF Loop
  <1>4. /\ Wrap(Length - 1) = Wrap(l.rounds - (rounds + 1))
        /\ Wrap(Length - 1) = Rounds(l) - (rounds + 1)
    BY <1>2, Countdown
  <1>5. Expects(l, b)'
    BY <1>3 DEF Expects
  <1>6. InMemory(l, rounds, n) /\ transfers = SubSeq(expected, 1, b + n * rounds + n)
    BY DEF InRound
  <1>7. /\ mem'[3 * n + 2] = Wrap(l.rounds - (rounds + 1))
        /\ \A a \in Numbers : a # 3 * n + 2 => mem'[a] = mem[a]
    <2>1. 3 * n + 2 \in Numbers
      <3> HIDE DEF n
      <3> QED  BY <1>1 DEF Numbers
    <2> QED  BY <1>2, <1>3, <1>4, <2>1 DEF ScsiTypeOK
  <1>8. /\ 3 * n \in Numbers /\ 3 * n + 1 \in Numbers /\ 3 * n + 3 \in Numbers
        /\ 3 * n # 3 * n + 2 /\ 3 * n + 1 # 3 * n + 2 /\ 3 * n + 3 # 3 * n + 2
    <2> HIDE DEF n
    <2> QED  BY <1>1 DEF Numbers
  <1>9. mem'[3 * n] = scLoop /\ mem'[3 * n + 1] = Wrap(-3 * n) /\ mem'[3 * n + 3] = scStop
    BY <1>6, <1>7, <1>8 DEF InMemory
  <1>10. CASE rounds + 1 \in 0 .. Rounds(l) - 1
    <2>1. Wrap(Length - 1) > 0
      BY <1>1, <1>4, <1>10
    <2>2. tib' = 3 * 0
      BY <1>2, <1>3, <2>1
    <2>3. b + n * rounds + n = b + n * (rounds + 1) + 0
      <3> HIDE DEF n
      <3> QED  BY <1>1
    <2>4. ASSUME NEW i \in 1 .. n
          PROVE  /\ mem'[3 * i - 3] = l.body[i].op
                 /\ mem'[3 * i - 2] =
                       Address(l, i, IF i <= 0 THEN (rounds + 1) + 1 ELSE rounds + 1)
                 /\ mem'[3 * i - 1] = l.body[i].len
      <3>1. /\ mem[3 * i - 3] = l.body[i].op
            /\ mem[3 * i - 2] = Address(l, i, IF i <= n THEN rounds + 1 ELSE rounds)
            /\ mem[3 * i - 1] = l.body[i].len
        BY <1>6 DEF InMemory
      <3>2. /\ 3 * i - 3 \in Numbers /\ 3 * i - 2 \in Numbers /\ 3 * i - 1 \in Numbers
            /\ 3 * i - 3 # 3 * n + 2 /\ 3 * i - 2 # 3 * n + 2 /\ 3 * i - 1 # 3 * n + 2
            /\ i <= n /\ ~(i <= 0)
        <4> HIDE DEF n
        <4> QED  BY <1>1 DEF Numbers
      <3> QED  BY <1>7, <3>1, <3>2
    <2>5. InMemory(l, rounds + 1, 0)'
      BY <1>7, <1>9, <2>4 DEF InMemory
    <2> QED  BY <1>3, <1>5, <1>6, <1>10, <2>2, <2>3, <2>5 DEF InRound
  <1>11. CASE rounds + 1 \notin 0 .. Rounds(l) - 1
    <2>1. rounds + 1 = Rounds(l)
      BY <1>1, <1>11
    <2>2. ~(Wrap(Length - 1) > 0)
      BY <1>1, <1>4, <2>1
    <2>3. tib' = 3 * n + 3
      BY <1>2, <1>3, <2>2
    <2>4. expected \in Seq(Block) /\ Len(expected) = b + n * Rounds(l)
      BY DEF Expects
    <2>5. b + n * rounds + n = b + n * Rounds(l)
      <3> HIDE DEF n
      <3>1. n * rounds + n = n * (rounds + 1) /\ n * rounds \in Nat /\ n * (rounds + 1) \in Nat
        BY <1>1
      <3> QED  BY <1>1, <2>1, <3>1
    <2>6. transfers' = expected'
      BY <1>3, <1>6, <2>4, <2>5, SubSeqFull
    <2> QED  BY <1>5, <1>9, <2>3, <2>6 DEF Through
  <1> QED  BY <1>10, <1>11

\* An instruction other than those of the loop.
LEMMA OtherStep ==
  ASSUME RunOK, expected # Unknown, tib # Idle
  PROVE  Op \in {scInc, scNoInc, scLoop, scStop}
  <1>1. PICK l \in Loops, b \in 0 .. Len(transfers) : Expects(l, b) /\ b \in Nat /\ Located(l, b)
    BY Where
  <1>2. ~Ready(l, b)
    BY DEF Ready
  <1> QED  BY <1>1, <1>2, InBody, AtLoop, Halted DEF Located

LEMMA TransferKeepsRun ==
  ASSUME ScsiTypeOK, RunOK, Transfer, expected' # Unknown
  PROVE  RunOK'
  <1>0. expected' = expected /\ tib # Idle /\ Op \in {scInc, scNoInc}
    BY DEF Transfer, Fetch, Unexpected
  <1>1. PICK l \in Loops, b \in 0 .. Len(transfers) : Expects(l, b) /\ b \in Nat /\ Located(l, b)
    BY <1>0, Where
  <1>2. ~Ready(l, b)
    BY <1>0 DEF Ready
  <1>3. ~ \E rounds \in 0 .. Rounds(l) - 1 : InRound(l, b, rounds, Len(l.body))
    BY <1>0, <1>1, AtLoop DEF scLoop, scInc, scNoInc
  <1>4. ~Through(l)
    BY <1>0, Halted DEF scStop, scInc, scNoInc
  <1>5. PICK rounds \in 0 .. Rounds(l) - 1, done \in 0 .. Len(l.body) - 1 :
            InRound(l, b, rounds, done)
    BY <1>1, <1>2, <1>3, <1>4 DEF Located
  <1>6. /\ Expects(l, b)' /\ b \in 0 .. Len(transfers')
        /\ InRound(l, b, rounds, done + 1)'
    BY <1>1, <1>5, BodyStep
  <1>7. done + 1 \in 0 .. Len(l.body)
    BY LoopsAre
  <1> QED  BY <1>6, <1>7 DEF RunOK, UnderWay

LEMMA LoopKeepsRun ==
  ASSUME ScsiTypeOK, RunOK, Loop, expected # Unknown
  PROVE  RunOK'
  <1>0. expected' = expected /\ transfers' = transfers /\ tib # Idle /\ Op = scLoop
    BY DEF Loop, Fetch
  <1>1. PICK l \in Loops, b \in 0 .. Len(transfers) : Expects(l, b) /\ b \in Nat /\ Located(l, b)
    BY <1>0, Where
  <1>2. ~Ready(l, b)
    BY <1>0 DEF Ready
  <1>3. ~ \E rounds \in 0 .. Rounds(l) - 1, done \in 0 .. Len(l.body) - 1 :
             InRound(l, b, rounds, done)
    <2> SUFFICES ASSUME NEW rounds \in 0 .. Rounds(l) - 1, NEW done \in 0 .. Len(l.body) - 1,
                        InRound(l, b, rounds, done)
                 PROVE  FALSE
      OBVIOUS
    <2>1. Op \in {scInc, scNoInc}
      BY <1>1, InBody
    <2> QED  BY <1>0, <2>1 DEF scLoop, scInc, scNoInc
  <1>4. ~Through(l)
    BY <1>0, Halted DEF scStop, scLoop
  <1>5. PICK rounds \in 0 .. Rounds(l) - 1 : InRound(l, b, rounds, Len(l.body))
    BY <1>1, <1>2, <1>3, <1>4 DEF Located
  <1>6. /\ Expects(l, b)'
        /\ \/ rounds + 1 \in 0 .. Rounds(l) - 1 /\ InRound(l, b, rounds + 1, 0)'
           \/ Through(l)'
    BY <1>1, <1>5, LoopStep
  <1>7. 0 \in 0 .. Len(l.body) /\ b \in 0 .. Len(transfers')
    BY <1>0, LoopsAre
  <1> QED  BY <1>6, <1>7 DEF RunOK, UnderWay

LEMMA StartKeepsRun ==
  ASSUME RunOK, NEW read, StartTib(read), expected # Unknown
  PROVE  RunOK'
  <1>0. tib = Idle /\ tib' = 0 /\ UNCHANGED << mem, transfers, expected >>
    BY DEF StartTib
  <1>1. PICK l \in Loops, b \in 0 .. Len(transfers) : Expects(l, b) /\ UnderWay(l, b)
    BY DEF RunOK
  <1>2. Ready(l, b)
    BY <1>0, <1>1, NotIdle, Halted DEF UnderWay
  <1>3. InRound(l, b, 0, 0)'
    <2>1. b + Len(l.body) * 0 + 0 = b /\ 3 * 0 = 0
      BY LoopsAre
    <2> QED  BY <1>0, <1>2, <2>1 DEF Ready, InRound, InMemory
  <1>4. Expects(l, b)' /\ b \in 0 .. Len(transfers')
    BY <1>0, <1>1 DEF Expects
  <1>5. 0 \in 0 .. Rounds(l) - 1 /\ 0 \in 0 .. Len(l.body)
    BY LoopsAre
  <1> QED  BY <1>3, <1>4, <1>5 DEF RunOK, UnderWay

LEMMA RunSame ==
  ASSUME RunOK, UNCHANGED << mem, tib, transfers, expected >>
  PROVE  RunOK'
  <1> SUFFICES ASSUME expected # Unknown
               PROVE  RunOK'
    BY DEF RunOK
  <1>1. PICK l \in Loops, b \in 0 .. Len(transfers) : Expects(l, b) /\ UnderWay(l, b)
    BY DEF RunOK
  <1>2. Expects(l, b)' /\ b \in 0 .. Len(transfers')
    BY <1>1 DEF Expects
  <1>3. CASE Ready(l, b)
    <2>1. Ready(l, b)'
      BY <1>3 DEF Ready, InMemory
    <2> QED  BY <1>2, <2>1 DEF RunOK, UnderWay
  <1>4. CASE \E rounds \in 0 .. Rounds(l) - 1, done \in 0 .. Len(l.body) :
                InRound(l, b, rounds, done)
    <2>1. PICK rounds \in 0 .. Rounds(l) - 1, done \in 0 .. Len(l.body) :
              InRound(l, b, rounds, done)
      BY <1>4
    <2>2. InRound(l, b, rounds, done)'
      BY <2>1 DEF InRound, InMemory
    <2> QED  BY <1>2, <2>2 DEF RunOK, UnderWay
  <1>5. CASE Through(l)
    <2>1. Through(l)'
      BY <1>5 DEF Through
    <2> QED  BY <1>2, <2>1 DEF RunOK, UnderWay
  <1> QED  BY <1>1, <1>3, <1>4, <1>5 DEF UnderWay

LEMMA RunKept ==
  ASSUME ScsiTypeOK, RunOK, [ScsiNext]_scsiVars
  PROVE  RunOK'
  <1>0. SUFFICES ASSUME expected' # Unknown
                 PROVE  RunOK'
    BY DEF RunOK
  <1>1. CASE NewTib
    <2>1. PICK l \in Loops : mem' = Cells(LoopTib(l)) /\ expected' = transfers \o Unrolled(l)
      BY <1>0, <1>1 DEF NewTib
    <2> QED  BY <1>1, <2>1, NewLoop
  <1>2. CASE SCSIReset
    BY <1>0, <1>2 DEF SCSIReset
  <1>3. CASE SCSIGet
    BY <1>0, <1>3 DEF SCSIGet
  <1>4. CASE SCSICmd
    BY <1>4, RunSame DEF SCSICmd
  <1>5. CASE SCSIComplete
    BY <1>5, RunSame DEF SCSIComplete
  <1>6. CASE \E id \in Ids : SCSISelect(id)
    BY <1>6, RunSame DEF SCSISelect
  <1>7. CASE \E read \in BOOLEAN : StartTib(read)
    <2>1. expected # Unknown
      BY <1>0, <1>7 DEF StartTib
    <2> QED  BY <1>7, <2>1, StartKeepsRun
  <1>8. CASE Transfer
    BY <1>0, <1>8, TransferKeepsRun
  <1>9. CASE Add \/ Move \/ Nop
    <2>1. expected # Unknown /\ tib # Idle /\ Op \in {scAdd, scMove, scNop}
      BY <1>0, <1>9 DEF Add, Move, Nop, Fetch
    <2>2. Op \in {scInc, scNoInc, scLoop, scStop}
      BY <2>1, OtherStep
    <2> QED
      BY <2>1, <2>2 DEF scInc, scNoInc, scAdd, scMove, scLoop, scNop, scStop
  <1>10. CASE Loop
    <2>1. expected # Unknown
      BY <1>0, <1>10 DEF Loop
    <2> QED  BY <1>10, <2>1, LoopKeepsRun
  <1>11. CASE Return
    BY <1>0, <1>11 DEF Return, Unexpected
  <1>12. CASE UNCHANGED scsiVars
    BY <1>12, RunSame DEF scsiVars, bus, table
  <1> QED
    BY <1>1, <1>2, <1>3, <1>4, <1>5, <1>6, <1>7, <1>8, <1>9, <1>10, <1>11, <1>12
    DEF ScsiNext, Call, ExecTib

-----------------------------------------------------------------------------
(* Theorems                                                                *)

LEMMA ScsiInitInv == ScsiInit => ScsiInv
  <1> SUFFICES ASSUME ScsiInit
               PROVE  ScsiInv
    OBVIOUS
  <1>1. mem \in [Numbers -> Numbers]
    <2>1. PICK l \in Loops : mem = Cells(LoopTib(l))
      BY DEF ScsiInit
    <2> QED  BY <2>1, LoopTibIs, CellsType
  <1>2. ScsiTypeOK
    <2>1. 0 \in Numbers /\ 0 <= SG_TABLE_SIZE
      BY Opcodes, TableAssumption
    <2> QED  BY <1>1, <2>1 DEF ScsiInit, ScsiTypeOK
  <1> QED  BY <1>2 DEF ScsiInit, ScsiInv, BusOK, TotalOK, TableOK, RunOK

\* The invariant of SCSI Manager and exec_tib(), for every table size, word width
\* and set of TIBs, those that write into themselves included.
THEOREM ScsiInvariant == ScsiSpec => []ScsiInv
  <1>1. ScsiInv /\ [ScsiNext]_scsiVars => ScsiInv'
    BY TypesKept, TableKept, RunKept DEF ScsiInv
  <1> QED  BY <1>1, ScsiInitInv, PTL DEF ScsiSpec

\* What exec_tib() is asked to transfer is in the table, byte for byte and in its
\* order, up to 4 GB.
THEOREM TableIs == ScsiSpec => []TableIsTransfers
  <1>1. ScsiInv => TableIsTransfers
    BY DEF ScsiInv, TableOK, TableIsTransfers
  <1> QED  BY <1>1, ScsiInvariant, PTL

\* scsi_send_cmd() is given the length of its table, modulo 2^32.
THEOREM TotalIs == ScsiSpec => []TotalIsSum
  <1>1. ScsiInv => TotalIsSum
    BY DEF ScsiInv, TotalOK, TotalIsSum
  <1> QED  BY <1>1, ScsiInvariant, PTL

\* A new TIB that reaches its scStop has done every round of its loop, for every
\* body, counts of 0 and loops that wrap around the address space included.
THEOREM EveryRound == ScsiSpec => AllRounds
  <1>1. ASSUME ScsiInv, Fetch(scStop), expected # Unknown
        PROVE  transfers = expected
    <2>0. tib # Idle /\ Op = scStop /\ RunOK
      BY <1>1 DEF Fetch, ScsiInv
    <2>1. PICK l \in Loops, b \in 0 .. Len(transfers) : Expects(l, b) /\ b \in Nat /\ Located(l, b)
      BY <1>1, <2>0, Where
    <2>2. ~Ready(l, b)
      BY <2>0 DEF Ready
    <2>3. Through(l)
      BY <2>0, <2>1, <2>2, InBody, AtLoop DEF Located, scStop, scLoop, scInc, scNoInc
    <2> QED  BY <2>3 DEF Through
  <1>2. ScsiInv /\ [ScsiNext]_scsiVars
            => [Fetch(scStop) /\ expected # Unknown /\ tib' = Idle => transfers = expected]_scsiVars
    BY <1>1
  <1> QED  BY <1>2, ScsiInvariant, PTL DEF ScsiSpec, AllRounds
=============================================================================
