------------------------------ MODULE Framing -------------------------------
(***************************************************************************)
(* How control_init (operator.c) makes commands of the bytes it reads, and *)
(* what interpret() (interpreter.c) takes as the command. There is one     *)
(* buffer, in_buf, for all connections, and it is never cleared: a command *)
(* is what one read() returned, cut two bytes before its end, up to the    *)
(* first zero in the buffer.                                               *)
(***************************************************************************)
EXTENDS Integers, Sequences, FiniteSets

CONSTANTS
  Session,   \* control connections
  Careful,   \* those whose client sends a line at a time, which arrives in
             \* one piece, and waits for the answer
  Paired,    \* those whose bytes arrive two or more at a time, in any pieces,
             \* and no more before an answer than fit the buffer
  Nobody,    \* who sent a byte that nobody sent
  Letter,    \* the bytes of commands
  Loose,     \* the bytes of clients that are not Careful
  CR, LF, Zero,
  BufSize,   \* MAX_BUF
  MaxLines,  \* bound on the lines of a Careful client
  MaxBytes   \* bound on the bytes of another client

Byte == Letter \cup {CR, LF, Zero}

ASSUME ClientAssumption ==
  /\ Careful \cap Paired = {}
  /\ Careful \cup Paired \subseteq Session
  /\ Nobody \notin Session
ASSUME ByteAssumption ==
  /\ Loose \subseteq Byte
  /\ Zero \notin Letter \cup {CR, LF}
ASSUME FramingBounds ==
  /\ BufSize \in Nat /\ BufSize > 3
  /\ MaxLines \in Nat
  /\ MaxBytes \in Nat

Cell == 0..BufSize - 1
Word == UNION {[1..n -> Letter] : n \in 1..BufSize - 2}

VARIABLES
  inBuf,    \* in_buf
  sender,   \* history: who sent the byte in each cell
  queue,    \* the bytes that have arrived on each connection
  conn,     \* "reset": the next read() fails
  serving,  \* the connection control_init reads from, and len
  up,       \* the process runs
  sent,     \* the lines each Careful client has sent
  heard,    \* the commands of Careful clients given to their handlers
  bytes,    \* how many bytes the others have sent
  foreign   \* history: the sessions a command of which had a byte of another

clientVars == <<queue, conn, sent, bytes>>
vars == <<inBuf, sender, serving, up, heard, foreign, clientVars>>

TypeOK ==
  /\ inBuf \in [Cell -> Byte]
  /\ sender \in [Cell -> Session \cup {Nobody}]
  /\ queue \in [Session -> Seq(Byte)]
  /\ conn \in [Session -> {"open", "reset", "closed", "gone"}]
  /\ serving \in [who : Session \cup {Nobody}, len : 0..BufSize]
  /\ up \in BOOLEAN
  /\ sent \in [Session -> Seq(Word)]
  /\ heard \in [Session -> Seq(Seq(Byte))]
  /\ bytes \in [Session -> 0..MaxBytes]
  /\ foreign \subseteq Session

Waiting == [who |-> Nobody, len |-> 0]

Init ==
  /\ inBuf = [i \in Cell |-> Zero]
  /\ sender = [i \in Cell |-> Nobody]
  /\ queue = [s \in Session |-> <<>>]
  /\ conn = [s \in Session |-> "open"]
  /\ serving = Waiting
  /\ up = TRUE
  /\ sent = [s \in Session |-> <<>>]
  /\ heard = [s \in Session |-> <<>>]
  /\ bytes = [s \in Session |-> 0]
  /\ foreign = {}

-----------------------------------------------------------------------------
(* The clients *)

SendLine(s, w) ==
  /\ s \in Careful
  /\ conn[s] = "open"
  /\ sent[s] = heard[s]
  /\ Len(sent[s]) < MaxLines
  /\ sent' = [sent EXCEPT ![s] = Append(@, w)]
  /\ queue' = [queue EXCEPT ![s] = w \o <<CR, LF>>]
  /\ UNCHANGED <<inBuf, sender, serving, up, heard, foreign, conn, bytes>>

Unanswered(s) == Len(queue[s]) + (IF serving.who = s THEN serving.len ELSE 0)

(* A piece of another client's stream arrives. *)
Arrive(s, piece) ==
  /\ s \notin Careful
  /\ conn[s] = "open"
  /\ s \in Paired => Len(piece) > 1 /\ Unanswered(s) + Len(piece) <= BufSize
  /\ bytes[s] + Len(piece) <= MaxBytes
  /\ bytes' = [bytes EXCEPT ![s] = @ + Len(piece)]
  /\ queue' = [queue EXCEPT ![s] = @ \o piece]
  /\ UNCHANGED <<inBuf, sender, serving, up, heard, foreign, conn, sent>>

(* A client that is not Careful leaves at any time; a reset drops what has  *)
(* not been read.                                                           *)
Leave(s) ==
  /\ s \notin Careful
  /\ conn[s] = "open"
  /\ \/ conn' = [conn EXCEPT ![s] = "closed"] /\ UNCHANGED queue
     \/ conn' = [conn EXCEPT ![s] = "reset"] /\ queue' = [queue EXCEPT ![s] = <<>>]
  /\ UNCHANGED <<inBuf, sender, serving, up, heard, foreign, sent, bytes>>

-----------------------------------------------------------------------------
(* The main thread *)

Smaller(m, n) == IF m < n THEN m ELSE n

(* read(eventfd, in_buf + at, MAX_BUF - at) of n bytes *)
Fill(s, at, n) ==
  /\ inBuf' = [i \in Cell |-> IF i >= at /\ i < at + n THEN queue[s][i - at + 1] ELSE inBuf[i]]
  /\ sender' = [i \in Cell |-> IF i >= at /\ i < at + n THEN s ELSE sender[i]]
  /\ queue' = [queue EXCEPT ![s] = SubSeq(@, n + 1, Len(@))]
  /\ serving' = [who |-> s, len |-> at + n]

Read(s) ==
  /\ up /\ serving = Waiting
  /\ queue[s] # <<>>
  /\ Fill(s, 0, Smaller(Len(queue[s]), BufSize))
  /\ UNCHANGED <<up, heard, foreign, conn, sent, bytes>>

(* read() returns 0 or -1: the connection is closed. *)
ReadEnd(s) ==
  /\ up /\ serving = Waiting
  /\ queue[s] = <<>>
  /\ conn[s] \in {"closed", "reset"}
  /\ conn' = [conn EXCEPT ![s] = "gone"]
  /\ UNCHANGED <<inBuf, sender, serving, up, heard, foreign, queue, sent, bytes>>

(* The byte before in_buf is the last one of dir, a zero. *)
ByteAt(i) == IF i \in Cell THEN inBuf[i] ELSE Zero

(* while(!in_buf[len - 1]) *)
EndsInZero == up /\ serving # Waiting /\ ByteAt(serving.len - 1) = Zero
Complete   == up /\ serving # Waiting /\ ByteAt(serving.len - 1) # Zero

(* len += read(..): blocks until there is more. With the buffer full, or    *)
(* once the client has left, it returns 0 for ever.                         *)
ReadMore ==
  LET s == serving.who
      room == BufSize - serving.len
  IN /\ EndsInZero
     /\ room > 0 /\ queue[s] # <<>>
     /\ Fill(s, serving.len, Smaller(Len(queue[s]), room))
     /\ UNCHANGED <<up, heard, foreign, conn, sent, bytes>>

(* len += -1 *)
ReadMoreFails ==
  LET s == serving.who
  IN /\ EndsInZero
     /\ conn[s] = "reset"
     /\ conn' = [conn EXCEPT ![s] = "closed"]
     /\ serving' = [serving EXCEPT !.len = @ - 1]
     /\ UNCHANGED <<inBuf, sender, up, heard, foreign, queue, sent, bytes>>

(* in_buf[len - 2] = 0, which after one byte is outside the buffer. *)
TerminatedMutant1(len) == inBuf
TerminatedMutant2(len) == [i \in Cell |-> IF i = len - 1 THEN Zero ELSE inBuf[i]]
TerminatedMutant3(len) == [i \in Cell |-> IF i = len THEN Zero ELSE inBuf[i]]
TerminatedMutant4(len) == [i \in Cell \cup {len} |-> IF i = len THEN Zero ELSE inBuf[i]]
TerminatedAt(len) == [i \in Cell |-> IF i = len - 2 THEN Zero ELSE inBuf[i]]

(* The C string at the start of a buffer: the cells before the first zero. *)
StringCells(buf) == {i \in Cell : \A j \in 0..i : buf[j] # Zero}

(* interpret(): strtok() finds no word in an empty string, and              *)
(* interpret_comand compares with a null pointer: the process ends.         *)
Interpret ==
  LET s == serving.who
      buf == TerminatedAt(serving.len)
      cells == StringCells(buf)
      command == [i \in 1..Cardinality(cells) |-> buf[i - 1]]
  IN /\ Complete
     /\ inBuf' = buf
     /\ up' = (cells # {})
     /\ heard' = IF s \in Careful THEN [heard EXCEPT ![s] = Append(@, command)] ELSE heard
     /\ foreign' = IF \A i \in cells : sender[i] = s THEN foreign ELSE foreign \cup {s}
     /\ serving' = Waiting
     /\ UNCHANGED <<sender, clientVars>>

Pieces == UNION {[1..n -> Loose] : n \in 1..3}

ServerStep ==
  \/ \E s \in Session : Read(s) \/ ReadEnd(s)
  \/ ReadMore
  \/ ReadMoreFails
  \/ Interpret

ClientStep(s) ==
  \/ \E w \in Word : SendLine(s, w)
  \/ \E piece \in Pieces : Arrive(s, piece)
  \/ Leave(s)

Next == ServerStep \/ \E s \in Session : ClientStep(s)

Spec == Init /\ [][Next]_vars

-----------------------------------------------------------------------------
(* A client that sends a line at a time and waits for the answer is heard   *)
(* line by line, word for word, although the buffer keeps what others have  *)
(* left in it and others send what they like.                               *)
LinesHeard ==
  \A s \in Careful :
    /\ \A i \in 1..Len(heard[s]) : heard[s][i] = sent[s][i]
    /\ up /\ queue[s] = <<>> /\ serving.who # s => heard[s] = sent[s]

(* No command of a client whose bytes come at least in pairs holds a byte   *)
(* of another one. (One of a single byte does: the rest is the last command *)
(* that was read, whoever sent it.)                                         *)
OwnBytes == foreign \cap (Careful \cup Paired) = {}

(* interpret() always finds a zero in the buffer: its strcpy() stays inside. *)
ZeroInside ==
  Complete => \E i \in Cell : TerminatedAt(serving.len)[i] = Zero
=============================================================================
