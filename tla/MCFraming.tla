----------------------------- MODULE MCFraming -----------------------------
(* Small instances of Framing for TLC: one client of each kind. *)
EXTENDS Framing

CONSTANTS careful, paired, hasty, x
=============================================================================
