----------------------------- MODULE FtpService -----------------------------
(***************************************************************************)
(* What the server promises each client: the greeting, then one answer per *)
(* command, no command while an answer is due, the file commands only      *)
(* after USER and PASS were accepted in that order, and a transfer that    *)
(* begins and is reported while its command waits for the answer.          *)
(***************************************************************************)
CONSTANT Session

VARIABLES
  phase,    \* how far each session has come
  waiting   \* the sessions whose client waits for an answer

Phase == {"away", "connected", "password", "available", "transfer", "gone"}

Init ==
  /\ phase = [s \in Session |-> "away"]
  /\ waiting = [s \in Session |-> FALSE]

Ask(s) ==
  /\ ~ waiting[s]
  /\ phase[s] \in {"away", "connected", "password", "available"}
  /\ waiting' = [waiting EXCEPT ![s] = TRUE]
  /\ UNCHANGED phase

(* An answer may take the session one step further. *)
Further(p) ==
  CASE p = "away"      -> {"connected"}
    [] p = "connected" -> {"connected", "password"}
    [] p = "password"  -> {"password", "available"}
    [] OTHER           -> {p}

Answer(s) ==
  /\ waiting[s]
  /\ waiting' = [waiting EXCEPT ![s] = FALSE]
  /\ \E p \in Further(phase[s]) : phase' = [phase EXCEPT ![s] = p]

BeginTransfer(s) ==
  /\ waiting[s]
  /\ phase[s] = "available"
  /\ phase' = [phase EXCEPT ![s] = "transfer"]
  /\ UNCHANGED waiting

EndTransfer(s) ==
  /\ ~ waiting[s]
  /\ phase[s] = "transfer"
  /\ phase' = [phase EXCEPT ![s] = "available"]
  /\ UNCHANGED waiting

Leave(s) ==
  /\ ~ waiting[s]
  /\ phase[s] \in {"connected", "password", "available"}
  /\ phase' = [phase EXCEPT ![s] = "gone"]
  /\ UNCHANGED waiting

Next == \E s \in Session : \/ Ask(s)
                           \/ Answer(s)
                           \/ BeginTransfer(s)
                           \/ EndTransfer(s)
                           \/ Leave(s)

Spec == Init /\ [][Next]_<<phase, waiting>>
=============================================================================
