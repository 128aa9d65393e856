----------------------------- MODULE MCEthernet -----------------------------
(* Constants of Ethernet for TLC. *)
EXTENDS Ethernet

\* Packets of an Ethernet type, and 802.2 packets.
MCTypes == {"ether", "802.2"}
=============================================================================
