---------------------------- MODULE MCFileStore ----------------------------
(* Small instances of FileStore for TLC. The threads are interchangeable.   *)
EXTENDS FileStore, TLC

CONSTANTS a, b, t1, t2

Alike == Permutations(Tid)
=============================================================================
