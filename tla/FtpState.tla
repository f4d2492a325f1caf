------------------------------ MODULE FtpState ------------------------------
(***************************************************************************)
(* The state the FTP server's threads share (data.h, status.h), the part   *)
(* of the kernel they work through (the process's table of descriptors)    *)
(* and what the clients at the other end know.                             *)
(*                                                                         *)
(* clients[] is indexed by the NUMBER of the control connection's          *)
(* descriptor, and the kernel hands out the lowest free number: descriptor *)
(* numbers are therefore kept as numbers, from 0 to MaxFd.                 *)
(***************************************************************************)
EXTENDS Integers

CONSTANTS
  Session,   \* control connections; each is opened at most once
  Nobody,    \* the owner of an object that belongs to no session
  Patient,   \* sessions whose client waits for the reply to each command
  Careful,   \* sessions whose client also waits for the transfer thread to
             \* end and uses each data address for exactly one transfer
  Commands,  \* the commands the clients send
  Faults,    \* the failures of the environment that may happen
  Tid,       \* transfer threads that may be alive at the same time
  MaxFd      \* the largest descriptor number of the process

Verb == {"USER", "PASS", "PORT", "PASV", "RETR", "STOR", "LIST", "QUIT",
         "OTHER", "EMPTY"}
Fault == {"badarg", "nofile", "directory", "refused", "syscall", "reset", "sigpipe"}

ListenFd == 3
NoAddress == ListenFd   \* no client is ever told the listening socket's number
Fd       == 0..MaxFd

ASSUME SessionAssumption ==
  /\ Careful \subseteq Patient
  /\ Patient \subseteq Session
  /\ Nobody \notin Session
ASSUME InputAssumption ==
  /\ Commands \subseteq Verb
  /\ Faults \subseteq Fault
ASSUME BoundAssumption ==
  /\ MaxFd \in Nat
  /\ MaxFd > ListenFd

(* status.h: the values of Client.status and of Client.transfer_mode *)
DISCONNECTED == "DISCONNECTED"
CONNECTED    == "CONNECTED"
PASSWORD     == "PASSWORD"
AVAILAVLE    == "AVAILAVLE"
TRANSFER     == "TRANSFER"
Status       == {DISCONNECTED, CONNECTED, PASSWORD, AVAILAVLE, TRANSFER}

NONE_MODE == "NONE"
PASV_MODE == "PASV"
PORT_MODE == "PORT"
Mode      == {NONE_MODE, PASV_MODE, PORT_MODE}

-----------------------------------------------------------------------------
(* What a descriptor of the process may refer to. "peer" is the state of the *)
(* other end: of a listening data socket, whether a client is waiting to be  *)
(* accepted; of a data connection, whether the client has closed its end.    *)
Object == [kind : {"free", "std", "listen", "ctl", "sock", "pasv", "data", "file"},
           who  : Session \cup {Nobody},
           peer : {"none", "waiting", "pending", "open", "closed"}]

Plain(k)   == [kind |-> k, who |-> Nobody, peer |-> "none"]
Free       == Plain("free")     \* the number is not in use
File       == Plain("file")     \* a FILE or a DIR
Ctl(s)     == [kind |-> "ctl",  who |-> s, peer |-> "none"]
Sock(s)    == [kind |-> "sock", who |-> s, peer |-> "none"]
Pasv(s, p) == [kind |-> "pasv", who |-> s, peer |-> p]
Data(s, p) == [kind |-> "data", who |-> s, peer |-> p]

Line == Verb \cup {"none"}     \* a line of a control connection, or none

(* The main thread's position and locals: the descriptor it serves, the     *)
(* command and the status it read, the data socket and the FILE or DIR it   *)
(* has just opened.                                                         *)
MainState == [pc   : {"select", "scan", "handle", "listen", "data", "swap",
                      "file", "list", "exited", "killed"},
              fd   : Fd, cmd : Line, seen : Status, sock : Fd, file : Fd]

(* A transfer thread's position and its TransTask; "who" is history: the   *)
(* session whose command started it.                                       *)
Task == [pc   : {"idle", "start", "loop", "report", "avail", "close", "zero", "dead"},
         kind : {"send", "spin", "recv"},
         fd   : Fd, file : Fd, who : Session \cup {Nobody}]

VARIABLES
  status,     \* clients[fd].status
  mode,       \* clients[fd].transfer_mode
  dataFd,     \* clients[fd].data_fd
  clientFds,  \* client_fds
  maxFd,      \* max_fd
  tempFds,    \* temp_fds: the descriptors of this pass not yet visited
  clientCnt,  \* client_cnt
  main,       \* the main thread
  task,       \* the transfer threads
  fds,        \* what each descriptor number refers to
  conn,       \* the state of each control connection
  line,       \* the command waiting to be read on each control connection
  owed,       \* the final replies each Patient client is waiting for
  told,       \* the listener behind a 227 reply not yet connected to
  dataReady,  \* the Patient clients that announced an address or connected to one
  last,       \* the last command of each Patient client
  loggedIn    \* the sessions whose PASS was accepted

slots    == <<status, mode, dataFd>>
watching == <<clientFds, maxFd, tempFds, clientCnt>>
peers    == <<conn, line, owed, told, dataReady, last, loggedIn>>
vars     == <<slots, watching, main, task, fds, peers>>

SlotsOK ==
  /\ status \in [Fd -> Status]
  /\ mode \in [Fd -> Mode]
  /\ dataFd \in [Fd -> Fd]
WatchingOK ==
  /\ clientFds \in SUBSET Fd
  /\ maxFd \in Fd
  /\ tempFds \in SUBSET Fd
  /\ clientCnt \in Nat
ThreadsOK ==
  /\ main \in MainState
  /\ task \in [Tid -> Task]
FdsOK == fds \in [Fd -> Object]
PeersOK ==
  /\ conn \in [Session -> {"new", "queued", "open", "gone"}]
  /\ line \in [Session -> Line]
  /\ owed \in [Session -> Int]
  /\ told \in [Session -> Fd]
  /\ dataReady \in [Session -> BOOLEAN]
  /\ last \in [Session -> Line]
  /\ loggedIn \in [Session -> BOOLEAN]

TypeOK == SlotsOK /\ WatchingOK /\ ThreadsOK /\ FdsOK /\ PeersOK

-----------------------------------------------------------------------------
Scanning == [pc |-> "scan", fd |-> 0, cmd |-> "none", seen |-> DISCONNECTED,
             sock |-> 0, file |-> 0]
Idle     == [pc |-> "idle", kind |-> "send", fd |-> 0, file |-> 0, who |-> Nobody]

(* The process is running: control_init has not returned, no signal came. *)
Running == main.pc \notin {"exited", "killed"}

(* socket(), accept(), fopen() and opendir() take the lowest free number *)
(* and fail with EMFILE when there is none.                              *)
IsLowestFree(f) ==
  /\ fds[f] = Free
  /\ \A g \in Fd : fds[g] = Free => f <= g
NoFreeFd == \A f \in Fd : fds[f] # Free

(* close() of every number in S: a control connection among them ends. *)
CloseAll(S) ==
  /\ fds' = [f \in Fd |-> IF f \in S THEN Free ELSE fds[f]]
  /\ conn' = [s \in Session |->
                IF \E f \in S : fds[f] = Ctl(s) THEN "gone" ELSE conn[s]]

(* A final reply (2xx to 5xx) written to descriptor f reaches whoever is at *)
(* the other end of f; Patient clients count. -1: a reply to no command.    *)
Reply(f) ==
  owed' = [s \in Session |->
             IF s \in Patient /\ fds[f] = Ctl(s) /\ conn[s] = "open" /\ owed[s] > -1
             THEN owed[s] - 1 ELSE owed[s]]
=============================================================================
