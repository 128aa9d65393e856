-------------------------------- MODULE MCAdb -------------------------------
(* Instances of Adb for TLC. *)
EXTENDS Adb
MCPositions == {0, 1}
=============================================================================
