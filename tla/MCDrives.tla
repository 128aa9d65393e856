------------------------------- MODULE MCDrives -----------------------------
(* Instances of Drives for TLC. *)
EXTENDS Drives

Drive(v, m) == [driver |-> v, medium |-> m]

MCConfigs == {<< Drive("disk", "file"), Drive("disk", "floppy") >>,
              << Drive("sony", "floppy"), Drive("cdrom", "cd") >>,
              << Drive("sony", "file"), Drive("cdrom", "file"), Drive("cdrom", "cd") >>}
=============================================================================
