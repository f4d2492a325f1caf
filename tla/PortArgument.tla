---------------------------- MODULE PortArgument ----------------------------
(***************************************************************************)
(* port() of control.c: what it makes of "PORT h1,h2,h3,h4,p1,p2". h and p *)
(* are the numbers sscanf() read, which may be any integers.               *)
(***************************************************************************)
EXTENDS Integers

Octet == 0..255

(* The six checks read *in_address + 1, *in_address + 2, ...: the first     *)
(* number plus one, plus two, and never the numbers that follow it.         *)
Accepted(h, p) ==
  /\ \A i \in 0..3 : h[1] + i \in Octet
  /\ \A i \in 0..1 : p[1] + i \in Octet

(* _port = (unsigned short)(p1 * 256 + p2) *)
DecodedPortMutant(p) == (p[2] * 256 + p[1]) % 65536
DecodedPort(p) == (p[1] * 256 + p[2]) % 65536

(* inet_pton() refuses what is not four octets, and the address stays as    *)
(* memset() left it: 0.0.0.0.                                               *)
DecodedHost(h) ==
  IF \A i \in 1..4 : h[i] \in Octet THEN h ELSE <<0, 0, 0, 0>>

-----------------------------------------------------------------------------
(* What RFC 959 and the checks' form mean: six octets. *)
Legal(h, p) ==
  /\ h \in [1..4 -> Octet]
  /\ p \in [1..2 -> Octet]

MeantPort(p) == p[1] * 256 + p[2]
=============================================================================
