--------------------------- MODULE MCUdpSequence ---------------------------
(* Small instances of UdpSequence for TLC *)
EXTENDS UdpSequence

CONSTANTS c1, c2
=============================================================================
