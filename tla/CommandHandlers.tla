-------------------------- MODULE CommandHandlers --------------------------
(***************************************************************************)
(* interpret() of interpreter.c and the handlers of control.c, as far as   *)
(* they touch the login state, the data connection and the replies. The    *)
(* handlers run in the main thread: while one of them blocks, nothing else *)
(* is served. main.fd is the control connection, main.seen the status read *)
(* under the lock before the switch.                                       *)
(***************************************************************************)
EXTENDS FtpState

TransferVerb == {"RETR", "STOR", "LIST"}

Serving(seen, verbs) ==
  /\ main.pc = "handle"
  /\ main.seen = seen
  /\ main.cmd \in verbs

(* The handler returns to the loop, with or without a final reply. *)
Answer == Reply(main.fd) /\ main' = Scanning
Silent == UNCHANGED owed /\ main' = Scanning

(* Commands that draw one reply and leave this module's state alone: a verb *)
(* that is not allowed before the login, a verb without effect on it, or a  *)
(* malformed argument (LIST looks at no argument).                          *)
AnswerOnly ==
  /\ \/ Serving(CONNECTED, Verb) /\ (main.cmd = "USER" => "badarg" \in Faults)
     \/ Serving(PASSWORD, Verb)  /\ (main.cmd = "PASS" => "badarg" \in Faults)
     \/ Serving(AVAILAVLE, {"USER", "PASS", "OTHER", "QUIT"})
     \/ Serving(AVAILAVLE, {"PORT", "PASV", "RETR", "STOR"}) /\ "badarg" \in Faults
  /\ Answer
  /\ UNCHANGED <<slots, watching, task, fds, conn, line, told, dataReady, last, loggedIn>>

(* "case TRANSFER: break;" - the command is dropped without a reply. *)
Ignore ==
  /\ Serving(TRANSFER, Verb) \/ Serving(DISCONNECTED, Verb)
  /\ Silent
  /\ UNCHANGED <<slots, watching, task, fds, conn, line, told, dataReady, last, loggedIn>>

UserMutant ==
  /\ Serving(CONNECTED, {"USER"})
  /\ status' = [status EXCEPT ![main.fd] = AVAILAVLE]
  /\ Answer
  /\ UNCHANGED <<mode, dataFd, watching, task, fds, conn, line, told, dataReady, last, loggedIn>>

User ==
  /\ Serving(CONNECTED, {"USER"})
  /\ status' = [status EXCEPT ![main.fd] = PASSWORD]
  /\ Answer
  /\ UNCHANGED <<mode, dataFd, watching, task, fds, conn, line, told, dataReady, last, loggedIn>>

Pass ==
  /\ Serving(PASSWORD, {"PASS"})
  /\ status' = [status EXCEPT ![main.fd] = AVAILAVLE]
  /\ loggedIn' = [s \in Session |-> loggedIn[s] \/ fds[main.fd] = Ctl(s)]
  /\ Answer
  /\ UNCHANGED <<mode, dataFd, watching, task, fds, conn, line, told, dataReady, last>>

(* The reply tells the client to connect to listener g, or that the address *)
(* it announced is accepted.                                                *)
Tell(g, announced) ==
  /\ told' = [s \in Session |-> IF fds[main.fd] = Ctl(s) THEN g ELSE told[s]]
  /\ dataReady' = [s \in Session |-> IF fds[main.fd] = Ctl(s)
                                      THEN announced /\ s \in Patient ELSE dataReady[s]]

Port ==
  /\ Serving(AVAILAVLE, {"PORT"})
  /\ mode' = [mode EXCEPT ![main.fd] = PORT_MODE]
  /\ Tell(NoAddress, TRUE)
  /\ Answer
  /\ UNCHANGED <<status, dataFd, watching, task, fds, conn, line, last, loggedIn>>

-----------------------------------------------------------------------------
(* The handlers' data socket belongs to the session they serve. *)
Owner == fds[main.fd].who

(* socket() fails, or bind() fails and the socket stays open: 502. *)
PasvFails ==
  /\ Serving(AVAILAVLE, {"PASV"})
  /\ \/ NoFreeFd /\ UNCHANGED fds
     \/ /\ "syscall" \in Faults
        /\ \E f \in Fd : IsLowestFree(f) /\ fds' = [fds EXCEPT ![f] = Sock(Owner)]
  /\ Answer
  /\ UNCHANGED <<slots, watching, task, conn, line, told, dataReady, last, loggedIn>>

(* socket(), bind(), clients[].data_fd = data_socket; what data_fd held is lost. *)
PasvOpen ==
  /\ Serving(AVAILAVLE, {"PASV"})
  /\ \E f \in Fd :
       /\ IsLowestFree(f)
       /\ fds' = [fds EXCEPT ![f] = Sock(Owner)]
       /\ dataFd' = [dataFd EXCEPT ![main.fd] = f]
       /\ main' = [main EXCEPT !.pc = "listen", !.sock = f]
  /\ UNCHANGED <<status, mode, watching, task, peers>>

ListeningMutant(g) == fds[g]
Listening(g) == Pasv(fds[g].who, "waiting")

(* listen(clients[].data_fd), getsockname(data_socket), the 227 reply. *)
PasvListen ==
  /\ main.pc = "listen"
  /\ LET g == dataFd[main.fd]
     IN /\ fds[g].kind = "sock"
        /\ fds' = [fds EXCEPT ![g] = Listening(g)]
        /\ mode' = [mode EXCEPT ![main.fd] = PASV_MODE]
        /\ Tell(g, FALSE)
  /\ Answer
  /\ UNCHANGED <<status, dataFd, watching, task, conn, line, last, loggedIn>>

(* data_fd no longer is the new socket, or listen() fails: 502. *)
PasvListenFails ==
  /\ main.pc = "listen"
  /\ fds[dataFd[main.fd]].kind # "sock" \/ "syscall" \in Faults
  /\ Answer
  /\ UNCHANGED <<slots, watching, task, fds, conn, line, told, dataReady, last, loggedIn>>

-----------------------------------------------------------------------------
(* RETR and STOR go straight to the data connection. *)
StartTransfer ==
  /\ Serving(AVAILAVLE, {"RETR", "STOR"})
  /\ main' = [main EXCEPT !.pc = "data"]
  /\ UNCHANGED <<slots, watching, task, fds, peers>>

(* LIST sends 150 and opens the directory before the data connection. *)
OpenDirectory ==
  /\ Serving(AVAILAVLE, {"LIST"})
  /\ \E f \in Fd :
       /\ IsLowestFree(f)
       /\ fds' = [fds EXCEPT ![f] = File]
       /\ main' = [main EXCEPT !.pc = "data", !.file = f]
  /\ UNCHANGED <<slots, watching, task, peers>>

OpenDirectoryFails ==
  /\ Serving(AVAILAVLE, {"LIST"})
  /\ NoFreeFd \/ "nofile" \in Faults
  /\ Answer
  /\ UNCHANGED <<slots, watching, task, fds, conn, line, told, dataReady, last, loggedIn>>

(* What follows the data connection: RETR and STOR open the file, LIST *)
(* sends the entries.                                                  *)
AfterData == IF main.cmd = "LIST" THEN "list" ELSE "file"

(* PORT mode: a new socket is connected to the client's address. *)
ConnectData ==
  /\ main.pc = "data"
  /\ mode[main.fd] = PORT_MODE
  /\ \E f \in Fd :
       /\ IsLowestFree(f)
       /\ fds' = [fds EXCEPT ![f] = Data(Owner, "open")]
       /\ dataFd' = [dataFd EXCEPT ![main.fd] = f]
  /\ main' = [main EXCEPT !.pc = AfterData]
  /\ UNCHANGED <<status, mode, watching, task, peers>>

(* PORT mode without a socket: 504 or, for LIST, 550. *)
NoDataSocket ==
  /\ main.pc = "data"
  /\ mode[main.fd] = PORT_MODE
  /\ NoFreeFd
  /\ Answer
  /\ UNCHANGED <<slots, watching, task, fds, conn, line, told, dataReady, last, loggedIn>>

(* PORT mode, bind() or connect() fails and the socket stays open: 502 or   *)
(* 425 for RETR and STOR; interpret() has no reply to these codes for LIST. *)
ConnectDataFails ==
  /\ main.pc = "data"
  /\ mode[main.fd] = PORT_MODE
  /\ "refused" \in Faults
  /\ \E f \in Fd : IsLowestFree(f) /\ fds' = [fds EXCEPT ![f] = Sock(Owner)]
  /\ IF main.cmd = "LIST" THEN Silent ELSE Answer
  /\ UNCHANGED <<slots, watching, task, conn, line, told, dataReady, last, loggedIn>>

(* PASV mode: accept() blocks until a client has connected. *)
AcceptData ==
  /\ main.pc = "data"
  /\ mode[main.fd] = PASV_MODE
  /\ LET g == dataFd[main.fd]
     IN \E f \in Fd :
          /\ fds[g].kind = "pasv"
          /\ fds[g].peer = "pending"
          /\ IsLowestFree(f)
          /\ fds' = [fds EXCEPT ![f] = Data(fds[g].who, "open"), ![g].peer = "none"]
          /\ main' = [main EXCEPT !.pc = "swap", !.sock = f]
  /\ UNCHANGED <<slots, watching, task, peers>>

(* close(clients[].data_fd); clients[].data_fd = pasv_datafd. *)
ReplaceListenerMutant1 ==
  /\ dataFd' = [dataFd EXCEPT ![main.fd] = main.sock]
  /\ UNCHANGED <<fds, conn>>
ReplaceListenerMutant2 ==
  /\ CloseAll({dataFd[main.fd]})
  /\ UNCHANGED dataFd
ReplaceListenerMutant3 == UNCHANGED <<fds, conn, dataFd>>
ReplaceListener ==
  /\ CloseAll({dataFd[main.fd]})
  /\ dataFd' = [dataFd EXCEPT ![main.fd] = main.sock]

SwapDataMutant ==
  /\ main.pc = "swap"
  /\ main' = [main EXCEPT !.pc = "data"]
  /\ UNCHANGED <<slots, watching, task, fds, peers>>

SwapData ==
  /\ main.pc = "swap"
  /\ ReplaceListener
  /\ main' = [main EXCEPT !.pc = AfterData]
  /\ UNCHANGED <<status, mode, watching, task, line, owed, told, dataReady, last, loggedIn>>

(* accept() on something that does not listen, or without a free number     *)
(* (return -4), and a transfer without PORT or PASV (return -5): interpret() *)
(* has no reply to either.                                                  *)
NoDataAddress ==
  /\ main.pc = "data"
  /\ \/ mode[main.fd] = NONE_MODE
     \/ /\ mode[main.fd] = PASV_MODE
        /\ fds[dataFd[main.fd]].kind # "pasv" \/ NoFreeFd
  /\ Silent
  /\ UNCHANGED <<slots, watching, task, fds, conn, line, told, dataReady, last, loggedIn>>

-----------------------------------------------------------------------------
(* The TransTask of the new thread. *)
NewTask(k, f) == [pc |-> "start", kind |-> k, fd |-> main.fd, file |-> f, who |-> Owner]

(* fopen(), 150 and pthread_create(). RETR of a directory opens it as well; *)
(* every fread() of it fails and feof() never becomes true ("spin").        *)
SpawnThread ==
  /\ main.pc = "file"
  /\ \E f \in Fd, t \in Tid, k \in {"send", "spin", "recv"} :
       /\ IsLowestFree(f)
       /\ task[t].pc = "idle"
       /\ (main.cmd = "STOR") = (k = "recv")
       /\ k = "spin" => "directory" \in Faults
       /\ fds' = [fds EXCEPT ![f] = File]
       /\ task' = [task EXCEPT ![t] = NewTask(k, f)]
  /\ main' = Scanning
  /\ UNCHANGED <<slots, watching, peers>>

(* fopen() fails (502), or pthread_create() fails and the file stays open   *)
(* (425). The data connection stays open and the transfer mode as it was.   *)
SpawnFails ==
  /\ main.pc = "file"
  /\ \/ ("nofile" \in Faults \/ NoFreeFd) /\ UNCHANGED fds
     \/ /\ \A t \in Tid : task[t].pc # "idle"
        /\ \E f \in Fd : IsLowestFree(f) /\ fds' = [fds EXCEPT ![f] = File]
  /\ Answer
  /\ UNCHANGED <<slots, watching, task, conn, line, told, dataReady, last, loggedIn>>

(* LIST writes the entries, closes the directory and the data connection    *)
(* and sends 226, all in the main thread.                                   *)
SendList ==
  /\ main.pc = "list"
  /\ CloseAll({main.file, dataFd[main.fd]})
  /\ dataFd' = [dataFd EXCEPT ![main.fd] = 0]
  /\ mode' = [mode EXCEPT ![main.fd] = NONE_MODE]
  /\ Answer
  /\ UNCHANGED <<status, watching, task, line, told, dataReady, last, loggedIn>>

HandlerNext ==
  \/ AnswerOnly
  \/ Ignore
  \/ User
  \/ Pass
  \/ Port
  \/ PasvFails
  \/ PasvOpen
  \/ PasvListen
  \/ PasvListenFails
  \/ StartTransfer
  \/ OpenDirectory
  \/ OpenDirectoryFails
  \/ ConnectData
  \/ NoDataSocket
  \/ ConnectDataFails
  \/ AcceptData
  \/ SwapData
  \/ NoDataAddress
  \/ SpawnThread
  \/ SpawnFails
  \/ SendList
=============================================================================
