------------------------------- MODULE Drives -------------------------------
(***************************************************************************)
(* The floppy, disk and CD-ROM drivers (sony.cpp, disk.cpp, cdrom.cpp):    *)
(* how drives get a number and a status record when MacOS starts, and how  *)
(* media are noticed and announced to MacOS with a disk event, by the      *)
(* periodic Control() call after startup, by the 1 Hz interrupt from then  *)
(* on, and by Ctrl-F1 on the redraw thread. The three drivers share one    *)
(* scheme and differ where "driver" says so.                               *)
(*                                                                         *)
(* PostEvent() is a 68k trap: only there can the 1 Hz interrupt get into   *)
(* the periodic call. The interrupt itself is not interrupted. The host    *)
(* and the redraw thread run beside all of it.                             *)
(***************************************************************************)
EXTENDS Naturals, Sequences

CONSTANT Configs    \* drive vectors that the preferences can describe

Drivers == {"sony", "disk", "cdrom"}
Media == {"file", "floppy", "cd"}

ASSUME ConfigsAssumption == Configs \subseteq Seq([driver : Drivers, medium : Media])

VARIABLES
    drives,             \* the vectors of the three drivers, one after the other
    num,
    status,             \* whose memory info->status is: "none", this or another session's
    in_place,           \* dsDiskInPlace of the status record
    to_be_mounted,
    mount_non_hfs,
    acc_run_called,
    need_time,          \* the driver's dNeedTime flag: periodic calls wanted
    queue,              \* the drive queue of MacOS
    opened,             \* drives that Open() has dealt with in this session
    disc_found,         \* it has found a disc in the next one
    started,            \* HasMacStarted()
    accrun,             \* the driver whose periodic Control() runs
    todo,               \* drives mount_mountable_volumes() has to look at,
    step,               \* and where it is, in the call and in the interrupt
    key,                \* the drive Ctrl-F1 has found a disk in, or 0,
    marked,             \* and its status record says so
    present,            \* a medium is in the drive
    locked,             \* the drive does not open
    announced,          \* history: events since the medium was flagged for mounting
    allowed             \* history: MacOS lets the user take the disc out

config == << drives, mount_non_hfs >>
session == << num, status, queue, opened, disc_found, started >>
accRun == << acc_run_called, need_time, accrun >>
loop == << todo, step >>
redraw == << key, marked >>
host == << present, locked, allowed >>
record == << in_place, announced >>
vars == << config, session, accRun, loop, redraw, host, record, to_be_mounted >>

All == DOMAIN drives
Contexts == {"call", "interrupt"}
Driver(d) == drives[d].driver
Medium(d) == drives[d].medium
Of(vs) == {d \in All : Driver(d) \in vs}

\* SysIsFixedDisk() matters to the disk driver only; the floppy driver does not
\* poll (DISK_INSERT_CHECK).
Fixed(d) == Driver(d) = "disk" /\ Medium(d) = "file"
Polled(d) == Driver(d) # "sony"

\* get_drive_info(): the first drive of the vector that has the number.
Find(driver, n) ==
    LET found == {d \in All : Driver(d) = driver /\ num[d] = n}
    IN  IF found = {} THEN 0 ELSE CHOOSE d \in found : \A e \in found : d <= e

\* Mutant of FindFreeDriveNumber: the number after the first one is not tested.
NextDriveNumber ==
    IF \E d \in queue : num[d] = 1 THEN 2 ELSE 1

FindFreeDriveNumber ==
    CHOOSE n \in 1 .. Len(drives) + 1 :
        /\ \A d \in queue : num[d] # n
        /\ \A m \in 1 .. n - 1 : \E d \in queue : num[d] = m

Init ==
    /\ drives \in Configs
    /\ num = [d \in All |-> 0]
    /\ status = [d \in All |-> "none"]
    /\ in_place = [d \in All |-> 0]
    /\ to_be_mounted \in [All -> BOOLEAN]
    /\ mount_non_hfs = [d \in All |-> TRUE]
    /\ acc_run_called = [v \in Drivers |-> FALSE]
    /\ need_time = [v \in Drivers |-> FALSE]
    /\ queue = {}
    /\ opened = 0 /\ disc_found = FALSE
    /\ started = FALSE
    /\ accrun = "none"
    /\ todo = [c \in Contexts |-> {}]
    /\ step = [c \in Contexts |-> "check"]
    /\ key = 0 /\ marked = FALSE
    /\ present \in {p \in [All -> BOOLEAN] : \A d \in All : Medium(d) = "file" => p[d]}
    /\ locked = [d \in All |-> FALSE]
    /\ announced = [d \in All |-> 0]
    /\ allowed = [d \in All |-> FALSE]

-----------------------------------------------------------------------------
(* MacOS starts *)

\* SysPreventRemoval() and SysAllowRemoval() work on a real CD-ROM drive.
Lock(d, value) ==
    locked' = IF Medium(d) = "cd" THEN [locked EXCEPT ![d] = value] ELSE locked

AddDrive(d) ==
    /\ opened' = d
    /\ queue' = queue \cup {d}

\* Open() for one drive. Without memory for the status record the drive keeps
\* its number and whatever info->status was. A disc that is found in a CD-ROM
\* drive is not locked in yet.
OpenDrive ==
    LET d == opened + 1
        disc == Driver(d) = "cdrom" /\ present[d] IN
    /\ d \in All
    /\ ~disc_found
    /\ acc_run_called' = [acc_run_called EXCEPT ![Driver(d)] = FALSE]
    /\ need_time' = [need_time EXCEPT ![Driver(d)] = TRUE]
    /\ num' = [num EXCEPT ![d] = FindFreeDriveNumber]
    /\ mount_non_hfs' = [mount_non_hfs EXCEPT ![d] = TRUE]
    /\ \/ /\ opened' = d
          /\ to_be_mounted' = [to_be_mounted EXCEPT ![d] = FALSE]
          /\ UNCHANGED << status, queue, disc_found, allowed, record >>
       \/ /\ status' = [status EXCEPT ![d] = "valid"]
          /\ in_place' = [in_place EXCEPT ![d] =
                             IF Fixed(d) THEN 8 ELSE IF present[d] /\ ~disc THEN 1 ELSE 0]
          /\ to_be_mounted' = [to_be_mounted EXCEPT ![d] = present[d] /\ ~disc]
          /\ announced' = [announced EXCEPT ![d] = 0]
          /\ allowed' = [allowed EXCEPT ![d] = FALSE]
          /\ disc_found' = disc
          /\ IF disc THEN UNCHANGED << opened, queue >> ELSE AddDrive(d)
    /\ UNCHANGED << drives, started, accrun, loop, redraw, present, locked >>

\* SysPreventRemoval() comes second: by now the disc may be gone.
LockDrive ==
    LET d == opened + 1 IN
    /\ disc_found
    /\ disc_found' = FALSE
    /\ Lock(d, TRUE)
    /\ in_place' = [in_place EXCEPT ![d] = 1]
    /\ to_be_mounted' = [to_be_mounted EXCEPT ![d] = TRUE]
    /\ announced' = [announced EXCEPT ![d] = 0]
    /\ AddDrive(d)
    /\ UNCHANGED << config, num, status, started, accRun, loop, redraw, present, allowed >>

\* The ROM sets the warm start flag when its drivers are open.
MacStarts ==
    /\ opened = Len(drives)
    /\ ~started
    /\ started' = TRUE
    /\ UNCHANGED << config, num, status, queue, opened, disc_found, accRun, loop, redraw, host, record, to_be_mounted >>

\* Mac code runs: no emulator routine is under way.
InMacCode == started /\ accrun = "none" /\ todo["interrupt"] = {}

\* The RESET opcode tells the drivers nothing. Drive queue and warm start flag
\* are gone, the status records are memory of the new session.
Restart ==
    /\ InMacCode
    /\ started' = FALSE
    /\ opened' = 0
    /\ queue' = {}
    /\ status' = [d \in All |-> IF status[d] = "valid" THEN "stale" ELSE status[d]]
    /\ UNCHANGED << config, num, disc_found, accRun, loop, redraw, host, record, to_be_mounted >>

-----------------------------------------------------------------------------
(* mount_mountable_volumes() *)

\* Mutant of AccRun: the interrupt is let in before the drives are mounted.
AccRunEarly(v) ==
    /\ InMacCode
    /\ need_time[v]
    /\ accrun' = v
    /\ acc_run_called' = [acc_run_called EXCEPT ![v] = TRUE]
    /\ todo' = [todo EXCEPT !["call"] = Of({v})]
    /\ UNCHANGED << config, session, need_time, step, redraw, host, record, to_be_mounted >>

\* Control() with accRun: looks at the driver's drives ...
AccRun(v) ==
    /\ InMacCode
    /\ need_time[v]
    /\ accrun' = v
    /\ todo' = [todo EXCEPT !["call"] = Of({v})]
    /\ UNCHANGED << config, session, acc_run_called, need_time, step, redraw, host, record, to_be_mounted >>

\* ... and leaves the rest to the interrupt.
AccRunDone ==
    /\ accrun # "none"
    /\ todo = [c \in Contexts |-> {}]
    /\ acc_run_called' = [acc_run_called EXCEPT ![accrun] = TRUE]
    /\ need_time' = [need_time EXCEPT ![accrun] = FALSE]
    /\ accrun' = "none"
    /\ UNCHANGED << config, session, loop, redraw, host, record, to_be_mounted >>

\* Emulator routines can be interrupted in traps: PostEvent(), and those of
\* PatchAfterStartup(), which the floppy driver calls after the loop.
InTrap ==
    \/ accrun # "none" /\ step["call"] = "clear"
    \/ accrun = "sony" /\ todo["call"] = {}

\* Mutant of Interrupt: it does not wait for MacOS.
InterruptUngated ==
    /\ todo["interrupt"] = {}
    /\ accrun = "none" \/ InTrap
    /\ \E v \in Drivers : acc_run_called[v]
    /\ todo' = [todo EXCEPT !["interrupt"] = Of({v \in Drivers : acc_run_called[v]})]
    /\ UNCHANGED << config, session, accRun, step, redraw, host, record, to_be_mounted >>

\* SonyInterrupt(), DiskInterrupt() and CDROMInterrupt(), once MacOS has started.
Interrupt ==
    /\ started
    /\ todo["interrupt"] = {}
    /\ accrun = "none" \/ InTrap
    /\ \E v \in Drivers : acc_run_called[v]
    /\ todo' = [todo EXCEPT !["interrupt"] = Of({v \in Drivers : acc_run_called[v]})]
    /\ UNCHANGED << config, session, accRun, step, redraw, host, record, to_be_mounted >>

\* The drive the loop is at; the call waits for an interrupt to end.
At(c, s, d) ==
    /\ d \in todo[c]
    /\ \A e \in todo[c] : d <= e
    /\ c = "call" => todo["interrupt"] = {}
    /\ step[c] = s

GoTo(c, s) == step' = [step EXCEPT ![c] = s] /\ UNCHANGED todo
NextDrive(c, d) ==
    /\ todo' = [todo EXCEPT ![c] = @ \ {d}]
    /\ step' = [step EXCEPT ![c] = "check"]

\* Was a disk inserted? A drive whose status record is not its own reads
\* whatever is there. MountVolume() asks SysIsDiskInserted() again at once: the
\* two questions are one step.
Check(c, d) ==
    /\ At(c, "check", d)
    /\ \E seen \in (IF status[d] = "valid" THEN {in_place[d]} ELSE {0, 1}) :
          GoTo(c, IF Polled(d) /\ seen = 0 /\ present[d] THEN "insert" ELSE "post")
    /\ UNCHANGED << config, session, accRun, redraw, host, record, to_be_mounted >>

WriteInPlace(d) ==
    in_place' = IF status[d] = "valid" THEN [in_place EXCEPT ![d] = 1] ELSE in_place

InPlace(d) ==
    /\ WriteInPlace(d)
    /\ announced' = [announced EXCEPT ![d] = 0]

\* Mutant of MountVolume: the disc is not held.
MountUnlocked(c, d) ==
    /\ At(c, "insert", d)
    /\ InPlace(d)
    /\ allowed' = [allowed EXCEPT ![d] = FALSE]
    /\ \/ to_be_mounted' = [to_be_mounted EXCEPT ![d] = TRUE]
       \/ Driver(d) = "cdrom" /\ ~mount_non_hfs[d] /\ UNCHANGED to_be_mounted
    /\ GoTo(c, "post")
    /\ UNCHANGED << config, session, accRun, redraw, present, locked >>

\* Mutant of MountVolume: nobody asks for discs without an HFS partition.
MountHFSOnly(c, d) ==
    /\ At(c, "insert", d)
    /\ IF Driver(d) = "cdrom" THEN Lock(d, TRUE) ELSE UNCHANGED locked
    /\ InPlace(d)
    /\ allowed' = [allowed EXCEPT ![d] = FALSE]
    /\ \/ to_be_mounted' = [to_be_mounted EXCEPT ![d] = TRUE]
       \/ Driver(d) = "cdrom" /\ UNCHANGED to_be_mounted
    /\ GoTo(c, "post")
    /\ UNCHANGED << config, session, accRun, redraw, present >>

\* The rest of DiskMountVolume() or CDROMMountVolume(), whether or not the medium
\* is still there. A disc without an HFS partition may be of no interest.
MountVolume(c, d) ==
    /\ At(c, "insert", d)
    /\ IF Driver(d) = "cdrom" THEN Lock(d, TRUE) ELSE UNCHANGED locked
    /\ InPlace(d)
    /\ allowed' = [allowed EXCEPT ![d] = FALSE]
    /\ \/ to_be_mounted' = [to_be_mounted EXCEPT ![d] = TRUE]
       \/ Driver(d) = "cdrom" /\ ~mount_non_hfs[d] /\ UNCHANGED to_be_mounted
    /\ GoTo(c, "post")
    /\ UNCHANGED << config, session, accRun, redraw, present >>

PostEvent(c, d) ==
    /\ At(c, "post", d)
    /\ IF to_be_mounted[d]
       THEN GoTo(c, "clear") /\ announced' = [announced EXCEPT ![d] = @ + 1]
       ELSE NextDrive(c, d) /\ UNCHANGED announced
    /\ UNCHANGED << config, session, accRun, redraw, host, in_place, to_be_mounted >>

ClearFlag(c, d) ==
    /\ At(c, "clear", d)
    /\ to_be_mounted' = [to_be_mounted EXCEPT ![d] = FALSE]
    /\ NextDrive(c, d)
    /\ UNCHANGED << config, session, accRun, redraw, host, record >>

-----------------------------------------------------------------------------
(* MacOS calls Control() for a drive of its queue *)

\* Code 7. A fixed disk is announced again at once, which changes nothing here;
\* a floppy drive may not be able to eject, an image file stays where it is.
Eject(q) ==
    LET d == Find(Driver(q), num[q]) IN
    /\ InMacCode
    /\ status[d] = "valid"
    /\ in_place[d] = 1
    /\ in_place' = [in_place EXCEPT ![d] = 0]
    /\ announced' = [announced EXCEPT ![d] = 0]
    /\ IF Driver(d) = "cdrom" THEN Lock(d, FALSE) ELSE UNCHANGED locked
    /\ \/ present' = [present EXCEPT ![d] = Medium(d) = "file"]
       \/ Medium(d) = "floppy" /\ UNCHANGED present
    /\ UNCHANGED << config, session, accRun, loop, redraw, allowed, to_be_mounted >>

\* Code 80.
SetUserEject(q, allow) ==
    LET d == Find("cdrom", num[q]) IN
    /\ InMacCode
    /\ Driver(q) = "cdrom"
    /\ status[d] = "valid"
    /\ in_place[d] > 0
    /\ Lock(d, ~allow)
    /\ allowed' = [allowed EXCEPT ![d] = allow]
    /\ UNCHANGED << config, session, accRun, loop, redraw, present, record, to_be_mounted >>

\* Code 76.
ModifyPostEvent(q, value) ==
    /\ InMacCode
    /\ Driver(q) = "cdrom"
    /\ mount_non_hfs' = [mount_non_hfs EXCEPT ![Find("cdrom", num[q])] = value]
    /\ UNCHANGED << drives, session, accRun, loop, redraw, host, record, to_be_mounted >>

-----------------------------------------------------------------------------
(* The user and the redraw thread *)

InsertMedium(d) ==
    /\ Medium(d) # "file"
    /\ ~present[d]
    /\ present' = [present EXCEPT ![d] = TRUE]
    /\ UNCHANGED << config, session, accRun, loop, redraw, locked, allowed, record, to_be_mounted >>

RemoveMedium(d) ==
    /\ Medium(d) # "file"
    /\ present[d]
    /\ ~locked[d]
    /\ present' = [present EXCEPT ![d] = FALSE]
    /\ UNCHANGED << config, session, accRun, loop, redraw, locked, allowed, record, to_be_mounted >>

\* Ctrl-F1, SysMountFirstFloppy(): is there a disk ...
PressF1(d) ==
    /\ key = 0
    /\ Medium(d) = "floppy"
    /\ \A e \in 1 .. d - 1 : Medium(e) # "floppy"
    /\ present[d]
    /\ key' = d
    /\ UNCHANGED << config, session, accRun, loop, marked, host, record, to_be_mounted >>

\* ... then the status record is written, at any time and without regard to the
\* emulator thread; the HFS partition is looked for ...
MarkFirstFloppy ==
    /\ key # 0
    /\ ~marked
    /\ marked' = TRUE
    /\ WriteInPlace(key)
    /\ UNCHANGED << config, session, accRun, loop, key, host, announced, to_be_mounted >>

\* ... and the disk is flagged.
MountFirstFloppy ==
    /\ marked
    /\ marked' = FALSE
    /\ key' = 0
    /\ to_be_mounted' = [to_be_mounted EXCEPT ![key] = TRUE]
    /\ announced' = [announced EXCEPT ![key] = 0]
    /\ UNCHANGED << config, session, accRun, loop, host, in_place >>

-----------------------------------------------------------------------------

MountStep ==
    \E c \in Contexts : \E d \in All :
        Check(c, d) \/ MountVolume(c, d) \/ PostEvent(c, d) \/ ClearFlag(c, d)

MacCode ==
    \/ OpenDrive \/ LockDrive \/ MacStarts \/ Restart
    \/ \E v \in Drivers : AccRun(v)
    \/ \E q \in queue :
          \/ Eject(q)
          \/ \E b \in BOOLEAN : SetUserEject(q, b) \/ ModifyPostEvent(q, b)

User == \E d \in All : InsertMedium(d) \/ RemoveMedium(d) \/ PressF1(d)

Next == MacCode \/ AccRunDone \/ Interrupt \/ MountStep \/ User \/ MarkFirstFloppy \/ MountFirstFloppy

Spec == Init /\ [][Next]_vars

\* The 1 Hz interrupt comes again and again and emulator routines end.
FairSpec == Spec /\ WF_vars(Interrupt) /\ WF_vars(MountStep) /\ WF_vars(AccRunDone)

-----------------------------------------------------------------------------

TypeOK ==
    /\ drives \in Configs
    /\ num \in [All -> 0 .. Len(drives) + 1]
    /\ status \in [All -> {"none", "stale", "valid"}]
    /\ in_place \in [All -> {0, 1, 8}]
    /\ to_be_mounted \in [All -> BOOLEAN]
    /\ mount_non_hfs \in [All -> BOOLEAN]
    /\ acc_run_called \in [Drivers -> BOOLEAN]
    /\ need_time \in [Drivers -> BOOLEAN]
    /\ queue \subseteq All
    /\ opened \in 0 .. Len(drives)
    /\ disc_found \in BOOLEAN /\ started \in BOOLEAN
    /\ accrun \in Drivers \cup {"none"}
    /\ todo \in [Contexts -> SUBSET All]
    /\ step \in [Contexts -> {"check", "insert", "post", "clear"}]
    /\ key \in All \cup {0} /\ marked \in BOOLEAN
    /\ present \in [All -> BOOLEAN]
    /\ locked \in [All -> BOOLEAN]
    /\ announced \in [All -> Nat]
    /\ allowed \in [All -> BOOLEAN]

\* A status record could not be allocated in this session.
OutOfMemory == \E d \in 1 .. opened : d \notin queue

\* As long as memory lasts, a request that names a drive of the queue reaches
\* that drive (FindFreeDriveNumber(), get_drive_info()).
RequestsReachDrive ==
    ~OutOfMemory => \A d \in queue : Find(Driver(d), num[d]) = d

\* A medium, or a press of the key, is announced once: the interrupt that gets
\* into the PostEvent() of the periodic call does not announce it again
\* (acc_run_called, "interrupt routine is now active").
AnnouncedOnce == \A d \in queue : announced[d] <= 1

\* A disc that is in place leaves its drive only when MacOS ejects it or lets the
\* user take it out (SysPreventRemoval() in CDROMOpen() and CDROMMountVolume()).
\* It may leave between the test and the lock, before it is in place: then MacOS
\* is told of an empty drive.
DiscHeld ==
    [][\A d \in queue :
          Driver(d) = "cdrom" /\ Medium(d) = "cd" /\ in_place[d] = 1 /\ present[d]
              => present'[d] \/ in_place'[d] = 0 \/ allowed[d]]_vars

\* As long as memory lasts, events name drives that MacOS has in its queue, also
\* after a restart, when acc_run_called and to_be_mounted are still those of the
\* session before (disk.cpp, "interrupt routine is now active").
EventsNameDrives ==
    [][\A d \in All : announced'[d] > announced[d] => d \in queue \/ OutOfMemory]_vars

\* A medium that is put into an empty polled drive while MacOS runs is announced
\* (mount_mountable_volumes(), "check if disk was inserted"), unless Ctrl-F1 is
\* pressed for it: the status record then says that it is in place, and the flag of
\* the redraw thread is lost when the emulator thread clears one it has just served.
InsertedAnnounced ==
    \A d \in UNION {DOMAIN c : c \in Configs} :
        (/\ d \in queue /\ Polled(d) /\ started /\ acc_run_called[Driver(d)]
         /\ in_place[d] = 0 /\ present[d] /\ mount_non_hfs[d])
        ~> (d \in queue => \/ announced[d] = 1
                           \/ ~present[d] \/ ~mount_non_hfs[d]
                           \/ key = d)
=============================================================================
