---------------------------- MODULE MCSerialPort ----------------------------
(* Instances of SerialPort for TLC. *)
EXTENDS SerialPort

MCDirs == {"in", "out"}
=============================================================================
