-------------------------------- MODULE Scsi --------------------------------
(***************************************************************************)
(* The SCSI Manager (scsi.cpp): the logical phases of a transaction, and   *)
(* exec_tib(), which runs the transfer instruction blocks (TIBs) of        *)
(* SCSIRead() and SCSIWrite() and collects their transfers in a scatter/   *)
(* gather table that SCSIComplete() sends. A TIB changes itself while it   *)
(* runs: addresses advance and loop counts count down in its own memory.   *)
(*                                                                         *)
(* Memory is a row of cells, an instruction has three: opcode, ptr, len.   *)
(* Mac numbers and addresses have "Width" values and wrap around; host     *)
(* pointers do not.                                                        *)
(***************************************************************************)
EXTENDS Integers, Sequences

CONSTANTS
    Width,              \* 2^32
    SG_TABLE_SIZE,
    Ids,                \* of devices that are selected, in 0 .. 7,
    Targets,            \* and of those that answer
    Loops,              \* TIBs: bodies that are repeated ...
    OtherTibs,          \* ... and any others
    MaxTransfers        \* bound: no TIB is run after more transfers

VARIABLES
    phase,
    target_id,
    reading,
    sg,                 \* the used part of sg_ptr and sg_len
    sg_total_length,
    mem,                \* the Mac memory that holds the TIB
    tib,                \* address of the next instruction, or Idle
    transfers,          \* history: the transfers since SCSIGet()
    expected            \* history: what they come to at scStop, or Unknown

bus == << phase, target_id, reading >>
table == << sg, sg_total_length >>
scsiVars == << bus, table, mem, tib, transfers, expected >>

Idle == -1
Unknown == << "unknown" >>

scInc == 1
scNoInc == 2
scAdd == 3
scMove == 4
scLoop == 5
scNop == 6
scStop == 7
scComp == 8

Wrap(n) == n % Width
Numbers == 0 .. Width - 1
Block == [ptr : Numbers, len : Numbers]

Sum(s) ==
    LET sum[n \in 0 .. Len(s)] == IF n = 0 THEN 0 ELSE sum[n - 1] + s[n].len
    IN  sum[Len(s)]

\* The bytes of a list of transfers, by host address.
Interval(t) == [j \in 1 .. t.len |-> t.ptr + j - 1]
Bytes(s) ==
    LET bytes[n \in 0 .. Len(s)] == IF n = 0 THEN << >> ELSE bytes[n - 1] \o Interval(s[n])
    IN  bytes[Len(s)]

-----------------------------------------------------------------------------
(* TIBs *)

\* A TIB is a sequence of [op, ptr, len], at address 0. The memory after it is
\* cleared.
Field(t, n) == CASE n = 0 -> t.op [] n = 1 -> t.ptr [] n = 2 -> t.len
Cells(t) == [a \in Numbers |-> IF a < 3 * Len(t) THEN Field(t[a \div 3 + 1], a % 3) ELSE 0]

\* A loop is [rounds, body]: scLoop leads back over the body.
LoopTib(loop) ==
    loop.body \o << [op |-> scLoop, ptr |-> Wrap(-3 * Len(loop.body)), len |-> loop.rounds],
                    [op |-> scStop, ptr |-> 0, len |-> 0] >>

\* What a loop is for: as many rounds as it says, with a count of 0 all Width of
\* them, and in each an scInc starts where it ended in the one before.
Unrolled(loop) ==
    LET n == Len(loop.body)
        rounds == IF loop.rounds = 0 THEN Width ELSE loop.rounds
    IN  [k \in 1 .. n * rounds |->
            LET t == loop.body[((k - 1) % n) + 1] IN
            [ptr |-> Wrap(t.ptr + (IF t.op = scInc THEN ((k - 1) \div n) * t.len ELSE 0)),
             len |-> t.len]]

Instruction == [op : Numbers, ptr : Numbers, len : Numbers]

ASSUME WidthAssumption == Width \in Nat /\ Width > scComp
ASSUME TableAssumption == SG_TABLE_SIZE \in Nat \ {0} /\ MaxTransfers \in Nat
ASSUME LoopsAssumption ==
    \A l \in Loops :
        /\ l.rounds \in Numbers
        /\ l.body \in Seq(Instruction) \ {<< >>}
        /\ \A i \in 1 .. Len(l.body) : l.body[i].op \in {scInc, scNoInc}
        /\ 3 * (Len(l.body) + 2) <= Width
ASSUME OtherTibsAssumption == OtherTibs \subseteq Seq(Instruction)

ScsiInit ==
    /\ phase = "free"
    /\ target_id = 8
    /\ reading = FALSE
    /\ sg = << >>
    /\ sg_total_length = 0
    /\ mem \in {Cells(LoopTib(l)) : l \in Loops}
    /\ tib = Idle
    /\ transfers = << >>
    /\ expected = Unknown

\* Mac code writes a TIB into the memory.
NewTib ==
    /\ tib = Idle
    /\ \/ \E l \in Loops : mem' = Cells(LoopTib(l)) /\ expected' = transfers \o Unrolled(l)
       \/ \E t \in OtherTibs : mem' = Cells(t) /\ expected' = Unknown
    /\ UNCHANGED << bus, table, tib, transfers >>

-----------------------------------------------------------------------------
(* The calls *)

SCSIReset ==
    /\ tib = Idle
    /\ phase' = "free"
    /\ target_id' = 8
    /\ sg' = << >>
    /\ transfers' = << >>
    /\ expected' = Unknown
    /\ UNCHANGED << reading, sg_total_length, mem, tib >>

\* Mutant of SCSIGet: the length of the transaction before stays.
KeepTotal ==
    /\ tib = Idle
    /\ phase = "free"
    /\ phase' = "arbitrated"
    /\ reading' = FALSE
    /\ sg' = << >>
    /\ transfers' = << >>
    /\ expected' = Unknown
    /\ UNCHANGED << target_id, sg_total_length, mem, tib >>

SCSIGet ==
    /\ tib = Idle
    /\ phase = "free"
    /\ phase' = "arbitrated"
    /\ reading' = FALSE
    /\ sg' = << >>
    /\ sg_total_length' = 0
    /\ transfers' = << >>
    /\ expected' = Unknown
    /\ UNCHANGED << target_id, mem, tib >>

\* An ID that is not valid changes nothing: the bus stays arbitrated.
SCSISelect(id) ==
    /\ tib = Idle
    /\ phase = "arbitrated"
    /\ target_id' = id
    /\ phase' = IF id \in Targets THEN "selected" ELSE "free"
    /\ UNCHANGED << reading, table, mem, tib, transfers, expected >>

\* The device may not have the logical unit.
SCSICmd ==
    /\ tib = Idle
    /\ phase = "selected"
    /\ phase' \in {"transfer", "free"}
    /\ UNCHANGED << target_id, reading, table, mem, tib, transfers, expected >>

\* SCSIRead() and SCSIWrite().
StartTib(read) ==
    /\ tib = Idle
    /\ phase = "transfer"
    /\ Len(transfers) <= MaxTransfers
    /\ reading' = (reading \/ read)
    /\ tib' = 0
    /\ UNCHANGED << phase, target_id, table, mem, transfers, expected >>

\* scsi_send_cmd() gets the table whatever the TIBs returned.
SCSIComplete ==
    /\ tib = Idle
    /\ phase = "transfer"
    /\ phase' = "free"
    /\ UNCHANGED << target_id, reading, table, mem, tib, transfers, expected >>

-----------------------------------------------------------------------------
(* exec_tib() *)

Op == mem[tib]
Ptr == mem[Wrap(tib + 1)]
Length == mem[Wrap(tib + 2)]
Fetch(op) == tib # Idle /\ Op = op
Unexpected == expected' = Unknown
Continue == tib' = Wrap(tib + 3)

\* Mutant of Adjoins: where the last entry starts is what matters.
SameStart == sg # << >> /\ sg[Len(sg)].ptr = Ptr

\* The transfer begins where the last one of the table ends.
Adjoins == sg # << >> /\ Ptr = sg[Len(sg)].ptr + sg[Len(sg)].len

\* scInc and scNoInc. An scInc has already advanced when the table is full.
Transfer ==
    /\ Fetch(scInc) \/ Fetch(scNoInc)
    /\ mem' = IF Op = scInc THEN [mem EXCEPT ![Wrap(tib + 1)] = Wrap(Ptr + Length)] ELSE mem
    /\ IF ~Adjoins /\ Len(sg) = SG_TABLE_SIZE
       THEN /\ tib' = Idle
            /\ Unexpected
            /\ UNCHANGED << table, transfers >>
       ELSE /\ sg' = IF Adjoins THEN [sg EXCEPT ![Len(sg)].len = Wrap(@ + Length)]
                                ELSE Append(sg, [ptr |-> Ptr, len |-> Length])
            /\ sg_total_length' = Wrap(sg_total_length + Length)
            /\ transfers' = Append(transfers, [ptr |-> Ptr, len |-> Length])
            /\ Continue
            /\ UNCHANGED expected
    /\ UNCHANGED bus

Add ==
    /\ Fetch(scAdd)
    /\ mem' = [mem EXCEPT ![Ptr] = Wrap(@ + Length)]
    /\ Continue
    /\ UNCHANGED << bus, table, transfers, expected >>

Move ==
    /\ Fetch(scMove)
    /\ mem' = [mem EXCEPT ![Length] = mem[Ptr]]
    /\ Continue
    /\ UNCHANGED << bus, table, transfers, expected >>

\* Mutant of Loop: one round more.
LoopOnce ==
    /\ Fetch(scLoop)
    /\ mem' = [mem EXCEPT ![Wrap(tib + 2)] = Wrap(Length - 1)]
    /\ tib' = Wrap(IF Length > 0 THEN tib + Ptr ELSE tib + 3)
    /\ UNCHANGED << bus, table, transfers, expected >>

\* Mutant of Loop: the count is not written back.
LoopForever ==
    /\ Fetch(scLoop)
    /\ tib' = Wrap(IF Wrap(Length - 1) > 0 THEN tib + Ptr ELSE tib + 3)
    /\ UNCHANGED << bus, table, mem, transfers, expected >>

\* The count is unsigned.
Loop ==
    /\ Fetch(scLoop)
    /\ mem' = [mem EXCEPT ![Wrap(tib + 2)] = Wrap(Length - 1)]
    /\ tib' = Wrap(IF Wrap(Length - 1) > 0 THEN tib + Ptr ELSE tib + 3)
    /\ UNCHANGED << bus, table, transfers, expected >>

Nop == Fetch(scNop) /\ Continue /\ UNCHANGED << bus, table, mem, transfers, expected >>

\* scStop, scComp and unknown opcodes.
Return ==
    /\ tib # Idle
    /\ Op \notin {scInc, scNoInc, scAdd, scMove, scLoop, scNop}
    /\ tib' = Idle
    /\ Unexpected
    /\ UNCHANGED << bus, table, mem, transfers >>

-----------------------------------------------------------------------------

Call ==
    \/ NewTib \/ SCSIReset \/ SCSIGet \/ SCSICmd \/ SCSIComplete
    \/ \E id \in Ids : SCSISelect(id)
    \/ \E read \in BOOLEAN : StartTib(read)

ExecTib == Transfer \/ Add \/ Move \/ Loop \/ Nop \/ Return

ScsiNext == Call \/ ExecTib

ScsiSpec == ScsiInit /\ [][ScsiNext]_scsiVars

\* A call returns when it can.
ScsiFairSpec == ScsiSpec /\ WF_scsiVars(ExecTib)

-----------------------------------------------------------------------------

ScsiTypeOK ==
    /\ phase \in {"free", "arbitrated", "selected", "transfer"}
    /\ target_id \in Ids \cup {8}
    /\ reading \in BOOLEAN
    /\ sg \in Seq(Block) /\ Len(sg) <= SG_TABLE_SIZE
    /\ sg_total_length \in Numbers
    /\ mem \in [Numbers -> Numbers]
    /\ tib \in Numbers \cup {Idle}
    /\ transfers \in Seq(Block)

\* The table is what the TIBs have asked for since SCSIGet(), byte for byte and
\* in their order, however it was merged and wherever an error ended them, as
\* long as there are less than 4 GB ("Merge to previous entry", exec_tib()).
TableIsTransfers ==
    phase = "transfer" /\ Sum(transfers) < Width => Bytes(sg) = Bytes(transfers)

\* scsi_send_cmd() is given the length of its table (sg_total_length), of this
\* transaction only, even when the table wraps around.
TotalIsSum ==
    phase = "transfer" => sg_total_length = Wrap(Sum(sg))

\* A new TIB that reaches its scStop has done every round of its loop, no less
\* and no more (scLoop in exec_tib()).
AllRounds ==
    [][Fetch(scStop) /\ expected # Unknown /\ tib' = Idle => transfers = expected]_scsiVars

\* No TIB whose loops repeat what precedes them keeps the emulator forever.
TibEnds == (tib # Idle) ~> (tib = Idle)
=============================================================================
