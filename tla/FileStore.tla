----------------------------- MODULE FileStore ------------------------------
(***************************************************************************)
(* The contents of the served files while the threads of several transfers *)
(* write and read them and the main thread lists them: fopen() in retr and *)
(* stor and the two passes of list (control.c), the loops and the fclose() *)
(* of send_file and recv_file (ftputils.c). The data connections           *)
(* themselves are the business of FtpServer.                               *)
(*                                                                         *)
(* A file is a sequence of chunks, the pieces fwrite() and fread() move;   *)
(* <<u, i>> is the i-th chunk of upload u. stdio holds back what is written *)
(* until its buffer is full or the FILE is closed.                         *)
(***************************************************************************)
EXTENDS Integers, Sequences, FiniteSets

CONSTANTS
  File,        \* names of files
  Kept,        \* files the clients never use in two transfers at a time
  Tid,         \* transfer threads that may be alive at the same time
  MaxUploads,  \* bound on the uploads of a behaviour
  MaxChunks,   \* bound on the chunks of one upload
  BufSize,     \* chunks that stdio holds back
  ChunkBytes,  \* bytes of a chunk
  IntRange,    \* 2^32: list keeps the sizes in an int
  Nothing      \* no content

ASSUME FileAssumption == File # {} /\ Kept \subseteq File
ASSUME StoreBounds ==
  /\ MaxUploads \in Nat
  /\ MaxChunks \in Nat
  /\ BufSize \in Nat \ {0}
  /\ ChunkBytes \in Nat \ {0}
  /\ IntRange \in Nat \ {0}

Hole  == <<0, 0>>    \* zeros between the end of a file and a write beyond it
Chunk == ((1..MaxUploads) \X (1..MaxChunks)) \cup {Hole}

(* At most n chunks in a row *)
Pieces(n) == UNION {[1..k -> Chunk] : k \in 0..n}

(* The chunks of an upload of n chunks *)
Upload(u, n) == [i \in 1..n |-> <<u, i>>]
Uploads == {Upload(u, n) : u \in 1..MaxUploads, n \in 0..MaxChunks}

(* A transfer thread and its FILE. off is the kernel's file offset; buf is  *)
(* what stdio holds back; sent is what the client of a download received;   *)
(* up and total are the upload its client makes, read how far it has come.  *)
Thread == [pc    : {"idle", "open", "loop", "report", "close", "dead"},
           kind  : {"send", "recv"},
           file  : File,
           off   : 0..MaxChunks,
           buf   : Pieces(BufSize),
           sent  : Pieces(MaxChunks),
           size  : 0..MaxChunks,
           up    : 0..MaxUploads,
           total : 0..MaxChunks,
           read  : 0..MaxChunks]

VARIABLES
  content,  \* what each file holds on the disk
  present,  \* the files that exist
  uploads,  \* how many uploads have begun
  thread,   \* the transfer threads
  list      \* list() in the main thread

vars == <<content, present, uploads, thread, list>>

TypeOK ==
  /\ content \in [File -> Pieces(MaxChunks)]
  /\ present \subseteq File
  /\ uploads \in 0..MaxUploads
  /\ thread \in [Tid -> Thread]
  /\ list \in [pc    : {"none", "measure", "print"},
               todo  : SUBSET File,
               max   : 0..(IntRange \div 2),
               seen  : [File -> 0..MaxChunks]]

NoFile == CHOOSE f \in File : TRUE
Idle == [pc |-> "idle", kind |-> "send", file |-> NoFile, off |-> 0, buf |-> <<>>,
         sent |-> <<>>, size |-> 0, up |-> 0, total |-> 0, read |-> 0]
NotListing == [pc |-> "none", todo |-> {}, max |-> 0, seen |-> [f \in File |-> 0]]

Init ==
  /\ content = [f \in File |-> <<>>]
  /\ present = Kept
  /\ uploads = 0
  /\ thread = [t \in Tid |-> Idle]
  /\ list = NotListing

-----------------------------------------------------------------------------
(* The main thread is in list(), or still in retr(), and serves nobody. *)
MainBusy == list.pc # "none" \/ \E t \in Tid : thread[t].pc = "open"

Uses(f, kinds) ==
  \E t \in Tid : /\ thread[t].pc \notin {"idle", "dead"}
                 /\ thread[t].file = f
                 /\ thread[t].kind \in kinds

(* stor(): fopen(.., "w+") empties the file, or creates it; the new thread  *)
(* will receive n chunks.                                                   *)
Stor(t, f, n) ==
  /\ ~ MainBusy
  /\ thread[t].pc = "idle"
  /\ uploads < MaxUploads
  /\ f \in Kept => ~ Uses(f, {"send", "recv"})
  /\ content' = [content EXCEPT ![f] = <<>>]
  /\ present' = present \cup {f}
  /\ uploads' = uploads + 1
  /\ thread' = [thread EXCEPT ![t] = [Idle EXCEPT
       !.pc = "loop", !.kind = "recv", !.file = f, !.up = uploads + 1, !.total = n]]
  /\ UNCHANGED list

(* retr(): fopen(.., "rb") *)
RetrOpen(t, f) ==
  /\ ~ MainBusy
  /\ thread[t].pc = "idle"
  /\ f \in present
  /\ f \in Kept => ~ Uses(f, {"recv"})
  /\ thread' = [thread EXCEPT ![t] = [Idle EXCEPT !.pc = "open", !.file = f]]
  /\ UNCHANGED <<content, present, uploads, list>>

SizeOf(f) == Len(content[f])

(* fseek() to the end, ftell(), rewind(); the 150 reply tells the size. *)
RetrSizeMutant(t) ==
  /\ thread[t].pc = "open"
  /\ thread' = [thread EXCEPT ![t].pc = "loop", ![t].size = SizeOf(thread[t].file),
                              ![t].off = SizeOf(thread[t].file)]
  /\ UNCHANGED <<content, present, uploads, list>>

RetrSize(t) ==
  /\ thread[t].pc = "open"
  /\ thread' = [thread EXCEPT ![t].pc = "loop", ![t].size = SizeOf(thread[t].file)]
  /\ UNCHANGED <<content, present, uploads, list>>

-----------------------------------------------------------------------------
(* write() of data at offset off of a file that holds old *)
WrittenMutant(old, off, data) == old \o data
Written(old, off, data) ==
  LET end == off + Len(data)
  IN IF data = <<>> THEN old
     ELSE [i \in 1..(IF end > Len(old) THEN end ELSE Len(old)) |->
             IF i > off /\ i <= end THEN data[i - off]
             ELSE IF i <= Len(old) THEN old[i] ELSE Hole]

(* What the buffer holds goes to the disk. *)
Flush(t) ==
  LET x == thread[t]
  IN content' = [content EXCEPT ![x.file] = Written(@, x.off, x.buf)]

(* read() of a chunk and fwrite(): a full buffer is written first. *)
FullMutant(t) == Len(thread[t].buf) > BufSize
Full(t) == Len(thread[t].buf) = BufSize

Receive(t) ==
  LET x == thread[t]
      chunk == <<x.up, x.read + 1>>
  IN /\ x.pc = "loop" /\ x.kind = "recv"
     /\ x.read < x.total
     /\ IF Full(t)
        THEN /\ Flush(t)
             /\ thread' = [thread EXCEPT ![t].read = @ + 1, ![t].buf = <<chunk>>,
                                         ![t].off = @ + Len(x.buf)]
        ELSE /\ thread' = [thread EXCEPT ![t].read = @ + 1, ![t].buf = Append(@, chunk)]
             /\ UNCHANGED content
     /\ UNCHANGED <<present, uploads, list>>

(* fread() of a chunk and send_msg() *)
Send(t) ==
  LET x == thread[t]
  IN /\ x.pc = "loop" /\ x.kind = "send"
     /\ x.off < SizeOf(x.file)
     /\ thread' = [thread EXCEPT ![t].sent = Append(@, content[x.file][x.off + 1]),
                                 ![t].off = @ + 1]
     /\ UNCHANGED <<content, present, uploads, list>>

(* read() returns 0 when the client has closed the connection, feof() is    *)
(* true where the file ends now.                                            *)
EndOfData(t) ==
  LET x == thread[t]
  IN /\ x.pc = "loop"
     /\ x.kind = "recv" => x.read = x.total
     /\ x.kind = "send" => x.off >= SizeOf(x.file)
     /\ thread' = [thread EXCEPT ![t].pc = "report"]
     /\ UNCHANGED <<content, present, uploads, list>>

(* read() or write() of the data connection fails: the thread returns, and  *)
(* nobody closes the FILE.                                                  *)
Break(t) ==
  /\ thread[t].pc = "loop"
  /\ thread' = [thread EXCEPT ![t].pc = "dead"]
  /\ UNCHANGED <<content, present, uploads, list>>

(* "226 Transfer complete." *)
Report(t) ==
  /\ thread[t].pc = "report"
  /\ thread' = [thread EXCEPT ![t].pc = "close"]
  /\ UNCHANGED <<content, present, uploads, list>>

(* fclose() *)
CloseMutant(t) ==
  /\ thread[t].pc = "close"
  /\ thread' = [thread EXCEPT ![t] = Idle]
  /\ UNCHANGED <<content, present, uploads, list>>

Close(t) ==
  /\ thread[t].pc = "close"
  /\ Flush(t)
  /\ thread' = [thread EXCEPT ![t] = Idle]
  /\ UNCHANGED <<present, uploads, list>>

-----------------------------------------------------------------------------
Bytes(n) == n * ChunkBytes

(* int file_size = file_stat.st_size *)
ToInt(n) ==
  LET r == n % IntRange IN IF r >= IntRange \div 2 THEN r - IntRange ELSE r

(* The number of digits "%d" and "%ld" print: the size is below 10^10. *)
Digits(n) == 1 + Cardinality({d \in 1..9 : n >= 10^d})

ListOpen ==
  /\ ~ MainBusy
  /\ list' = [NotListing EXCEPT !.pc = "measure", !.todo = present]
  /\ UNCHANGED <<content, present, uploads, thread>>

(* First pass: the largest size; seen is history. *)
LargerSizeMutant(f) == ToInt(Bytes(SizeOf(f)))
LargerSize(f) ==
  LET n == ToInt(Bytes(SizeOf(f))) IN IF n > list.max THEN n ELSE list.max

ListMeasure(f) ==
  /\ list.pc = "measure"
  /\ f \in list.todo
  /\ list' = [list EXCEPT !.todo = @ \ {f}, !.max = LargerSize(f),
                          !.seen = [@ EXCEPT ![f] = SizeOf(f)]]
  /\ UNCHANGED <<content, present, uploads, thread>>

(* The directory is opened again and the data connection made, which may    *)
(* take as long as the client likes.                                        *)
ListReopen ==
  /\ list.pc = "measure"
  /\ list.todo = {}
  /\ list' = [list EXCEPT !.pc = "print", !.todo = present]
  /\ UNCHANGED <<content, present, uploads, thread>>

(* Second pass: format_file_info writes the size to the end of a column of  *)
(* as many characters as the largest size has digits.                       *)
Column(f) == Digits(list.max) - Digits(Bytes(SizeOf(f)))

ListPrint(f) ==
  /\ list.pc = "print"
  /\ f \in list.todo
  /\ list' = [list EXCEPT !.todo = @ \ {f}]
  /\ UNCHANGED <<content, present, uploads, thread>>

ListDone ==
  /\ list.pc = "print"
  /\ list.todo = {}
  /\ list' = NotListing
  /\ UNCHANGED <<content, present, uploads, thread>>

ThreadStep(t) ==
  \/ Receive(t)
  \/ Send(t)
  \/ EndOfData(t)
  \/ Break(t)
  \/ Report(t)
  \/ Close(t)

MainStep ==
  \/ \E t \in Tid, f \in File, n \in 0..MaxChunks : Stor(t, f, n)
  \/ \E t \in Tid, f \in File : RetrOpen(t, f)
  \/ \E t \in Tid : RetrSize(t)
  \/ ListOpen
  \/ \E f \in File : ListMeasure(f)
  \/ ListReopen
  \/ \E f \in File : ListPrint(f)
  \/ ListDone

Next == MainStep \/ \E t \in Tid : ThreadStep(t)

Spec == Init /\ [][Next]_vars

-----------------------------------------------------------------------------
(* However many uploads and downloads of one file overlap, no chunk ever    *)
(* moves: what a file holds, and what a client receives, at some place was  *)
(* sent for that place, or is a hole an emptied file was left with.         *)
InPlace(data) == \A i \in 1..Len(data) : data[i] = Hole \/ data[i][2] = i

NothingMoves ==
  /\ \A f \in File : InPlace(content[f])
  /\ \A t \in Tid : InPlace(thread[t].sent)

(* A download of a file nobody uploads meanwhile has as many bytes as its   *)
(* 150 reply said.                                                          *)
SizeAnnounced ==
  \A t \in Tid :
    LET x == thread[t]
    IN x.kind = "send" /\ x.file \in Kept /\ x.pc \in {"report", "close"} =>
         Len(x.sent) = x.size

(* A size that has not grown since the first pass of LIST, and that an int  *)
(* can hold, fits its column: format_file_info's index is not negative.     *)
ColumnFits ==
  \A f \in File :
    list.pc = "print" /\ f \in list.todo =>
      \/ SizeOf(f) > list.seen[f]
      \/ Bytes(SizeOf(f)) >= IntRange \div 2
      \/ Column(f) >= 0

(* The Kept files behave like WholeFiles although recv_file writes them     *)
(* piece by piece: the thread that has one open hides it.                   *)
Receives(t, f) == /\ thread[t].pc \notin {"idle", "dead"}
                  /\ thread[t].kind = "recv"
                  /\ thread[t].file = f
Receiving(f) == {t \in Tid : Receives(t, f)}

BrokeOff(f) == {t \in Tid : /\ thread[t].pc = "dead"
                            /\ thread[t].kind = "recv"
                            /\ thread[t].file = f}

Downloaded(t) == /\ thread[t].pc \in {"report", "close"}
                 /\ thread[t].kind = "send"
                 /\ thread[t].file \in Kept

StoredView(f) == IF Receiving(f) = {} THEN content[f] ELSE <<Hole>>
SendingView(f) ==
  IF Receiving(f) = {} THEN <<>>
  ELSE LET x == thread[CHOOSE t \in Receiving(f) : TRUE] IN Upload(x.up, x.total)
FetchedView(t) == IF Downloaded(t) THEN thread[t].sent ELSE Nothing

StoredNow  == [f \in Kept |-> StoredView(f)]
SendingNow == [f \in Kept |-> SendingView(f)]
FetchedNow == [t \in Tid |-> FetchedView(t)]
BrokenNow  == [f \in Kept |-> Cardinality(BrokeOff(f))]

Whole == INSTANCE WholeFiles WITH
  File    <- Kept,
  Data    <- Uploads,
  Getter  <- Tid,
  Unknown <- <<Hole>>,
  stored  <- StoredNow,
  sending <- SendingNow,
  fetched <- FetchedNow,
  broken  <- BrokenNow

(* Clients that keep a file to one transfer at a time, until its thread has *)
(* closed it, download exactly what was uploaded last, and uploads replace  *)
(* a file as a whole or, where the connection breaks, end with a beginning. *)
FilesWhole == Whole!Spec

-----------------------------------------------------------------------------
(* What autograde.py expects: once storbinary() has returned '226', and no  *)
(* other transfer touches the file, the file on the disk equals what was    *)
(* sent. recv_file sends 226 before fclose() writes the rest.               *)
StoredWhenReported ==
  \A t \in Tid :
    LET x == thread[t]
    IN x.pc = "close" /\ x.kind = "recv" /\ x.file \in Kept =>
         content[x.file] = Upload(x.up, x.total)
=============================================================================
