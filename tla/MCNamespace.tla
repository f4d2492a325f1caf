---------------------------- MODULE MCNamespace ----------------------------
(* Small instances of Namespace for TLC. The slots are interchangeable.     *)
EXTENDS Namespace

CONSTANTS s1, s2, a, b

Tree == {<<>>, <<a>>, <<b>>, <<a, b>>}

(* The port of the second one begins with 255. *)
Ports == {<<<<127, 0, 0, 1>>, <<254, 255>>>>, <<<<127, 0, 0, 1>>, <<255, 0>>>>}

Alike == Permutations(Slot)
=============================================================================
