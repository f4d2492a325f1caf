----------------------------- MODULE WholeFiles -----------------------------
(***************************************************************************)
(* What a client expects of the server's files: a stored file is the whole *)
(* of one upload, it is replaced when an upload ends and nobody sees it    *)
(* before, and a download brings the whole file.                           *)
(***************************************************************************)
EXTENDS Integers, Sequences

CONSTANTS
  File,     \* names of files
  Data,     \* the contents clients upload
  Getter,   \* those who may be downloading
  Unknown,  \* what a file holds while it is being uploaded
  Nothing   \* what a Getter without a finished download has

VARIABLES
  stored,   \* the content of each file, or Unknown
  sending,  \* the content a client is uploading to each file
  fetched,  \* what each Getter has received
  broken    \* how many uploads of each file broke off

Prefix(data, n) == SubSeq(data, 1, n)

Init ==
  /\ stored = [f \in File |-> <<>>]
  /\ sending = [f \in File |-> <<>>]
  /\ fetched = [g \in Getter |-> Nothing]
  /\ broken = [f \in File |-> 0]

BeginUpload(f) ==
  /\ stored[f] # Unknown
  /\ stored' = [stored EXCEPT ![f] = Unknown]
  /\ \E data \in Data : sending' = [sending EXCEPT ![f] = data]
  /\ UNCHANGED <<fetched, broken>>

EndUpload(f) ==
  /\ stored[f] = Unknown
  /\ stored' = [stored EXCEPT ![f] = sending[f]]
  /\ sending' = [sending EXCEPT ![f] = <<>>]
  /\ UNCHANGED <<fetched, broken>>

(* The connection of an upload breaks: some of the beginning is there. *)
BreakUpload(f) ==
  /\ stored[f] = Unknown
  /\ \E n \in 0..Len(sending[f]) : stored' = [stored EXCEPT ![f] = Prefix(sending[f], n)]
  /\ sending' = [sending EXCEPT ![f] = <<>>]
  /\ broken' = [broken EXCEPT ![f] = @ + 1]
  /\ UNCHANGED fetched

EndDownload(g, f) ==
  /\ stored[f] # Unknown
  /\ fetched' = [fetched EXCEPT ![g] = stored[f]]
  /\ UNCHANGED <<stored, sending, broken>>

Forget(g) ==
  /\ fetched' = [fetched EXCEPT ![g] = Nothing]
  /\ UNCHANGED <<stored, sending, broken>>

Next ==
  \/ \E f \in File : BeginUpload(f) \/ EndUpload(f) \/ BreakUpload(f)
  \/ \E g \in Getter, f \in File : EndDownload(g, f)
  \/ \E g \in Getter : Forget(g)

Spec == Init /\ [][Next]_<<stored, sending, fetched, broken>>
=============================================================================
