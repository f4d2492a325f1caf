---------------------------- MODULE MCFtpServer ----------------------------
(* Small instances of FtpServer for TLC. Sessions are interchangeable, and  *)
(* so are threads; descriptor numbers are not.                              *)
EXTENDS FtpServer, TLC

CONSTANTS s1, s2, t1, t2

Alike == Permutations(Session) \cup Permutations(Tid)
=============================================================================
