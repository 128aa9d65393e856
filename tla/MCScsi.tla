-------------------------------- MODULE MCScsi ------------------------------
(* Instances of Scsi for TLC. *)
EXTENDS Scsi

Instr(o, p, l) == [op |-> o, ptr |-> p, len |-> l]

MCLoops == {
    [rounds |-> 3, body |-> << Instr(scInc, 4, 2) >>],
    [rounds |-> 2, body |-> << Instr(scInc, 0, 1), Instr(scInc, 8, 2) >>],
    [rounds |-> 2, body |-> << Instr(scNoInc, 5, 1), Instr(scNoInc, 6, 1) >>],
    [rounds |-> 0, body |-> << Instr(scInc, 1, 1) >>]}

\* A loop that sets its count itself and can run again; a loop that only takes
\* time; a TIB that changes the address of its transfer and ends with an scComp.
MCOtherTibs == {
    << Instr(scMove, 2, 8), Instr(scNoInc, 3, 2), Instr(scLoop, 13, 0),
       Instr(scNop, 0, 0), Instr(scStop, 0, 0) >>,
    << Instr(scNop, 0, 0), Instr(scLoop, 13, 2), Instr(scStop, 0, 0) >>,
    << Instr(scAdd, 4, 3), Instr(scInc, 0, 2), Instr(scComp, 0, 0) >>}
=============================================================================
