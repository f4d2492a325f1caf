----------------------------- MODULE FtpClients -----------------------------
(***************************************************************************)
(* The FTP clients at the other end of the control and data connections.   *)
(* They are not part of the server: an arbitrary client sends any command  *)
(* at any time, and leaves at any time. A Patient client reads the final   *)
(* reply to a command before it sends the next, asks for a transfer only   *)
(* after PORT, or after it connected to the address of the 227 reply, and  *)
(* leaves only after QUIT: so does the FTP library that autograde.py       *)
(* drives (which, on a download, awaits the end of the data as well). A    *)
(* Careful client moreover lets the thread of its last transfer end, which *)
(* it cannot observe, and uses each data address for exactly one transfer. *)
(***************************************************************************)
EXTENDS FtpState

Transfers == {"RETR", "STOR", "LIST"}

Connect(s) ==
  /\ Running
  /\ conn[s] = "new"
  /\ conn' = [conn EXCEPT ![s] = "queued"]
  /\ owed' = [owed EXCEPT ![s] = IF s \in Patient THEN 1 ELSE 0]
  /\ UNCHANGED <<slots, watching, main, task, fds, line, told, dataReady, last, loggedIn>>

(* What a client's own rules allow it to send next. *)
MaySend(s, c) ==
  /\ s \in Patient =>
       /\ owed[s] <= 0
       /\ last[s] # "QUIT"
       /\ c \in Transfers => dataReady[s]
  /\ s \in Careful =>
       /\ \A t \in Tid : task[t].who # s
       /\ c \in {"PORT", "PASV", "QUIT"} => ~dataReady[s] /\ told[s] = NoAddress

Send(s, c) ==
  /\ Running
  /\ conn[s] = "open"
  /\ line[s] = "none"
  /\ MaySend(s, c)
  /\ line' = [line EXCEPT ![s] = c]
  /\ IF s \in Patient
     THEN /\ owed' = [owed EXCEPT ![s] = owed[s] + 1]
          /\ last' = [last EXCEPT ![s] = c]
     ELSE UNCHANGED <<owed, last>>
  /\ dataReady' = [dataReady EXCEPT ![s] = dataReady[s] /\ c \notin Transfers]
  /\ UNCHANGED <<slots, watching, main, task, fds, conn, told, loggedIn>>

(* The client connects to the address of the last 227 reply. *)
DataConnect(s) ==
  /\ Running
  /\ conn[s] = "open"
  /\ fds[told[s]] = Pasv(s, "waiting")
  /\ fds' = [fds EXCEPT ![told[s]] = Pasv(s, "pending")]
  /\ told' = [told EXCEPT ![s] = NoAddress]
  /\ dataReady' = [dataReady EXCEPT ![s] = s \in Patient]
  /\ UNCHANGED <<slots, watching, main, task, conn, line, owed, last, loggedIn>>

(* The client closes its end of a data connection: to end an upload, after *)
(* the reply, or, when it is impatient, at any time.                       *)
DataClose(s) ==
  /\ Running
  /\ s \in Patient => last[s] = "STOR" \/ owed[s] <= 0
  /\ \E f \in Fd :
       /\ fds[f] = Data(s, "open")
       /\ fds' = [fds EXCEPT ![f] = Data(s, "closed")]
  /\ UNCHANGED <<slots, watching, main, task, peers>>

HangUp(s) ==
  /\ Running
  /\ conn[s] = "open"
  /\ s \in Patient => last[s] = "QUIT" /\ owed[s] <= 0
  /\ conn' = [conn EXCEPT ![s] = "gone"]
  /\ UNCHANGED <<slots, watching, main, task, fds, line, owed, told, dataReady, last, loggedIn>>

ClientStep(s) ==
  \/ Connect(s)
  \/ \E c \in Commands : Send(s, c)
  \/ DataConnect(s)
  \/ DataClose(s)
  \/ HangUp(s)
=============================================================================
