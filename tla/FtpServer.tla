----------------------------- MODULE FtpServer -----------------------------
(***************************************************************************)
(* The whole server: the main thread (ControlLoop, CommandHandlers), the   *)
(* transfer threads (TransferThreads) and the clients (FtpClients), and    *)
(* what the composition has to guarantee.                                  *)
(***************************************************************************)
EXTENDS ControlLoop, CommandHandlers, TransferThreads, FtpClients

(* control_init up to its loop: standard input, output and error are open, *)
(* the listening socket has the next number.                               *)
Init ==
  /\ status = [f \in Fd |-> DISCONNECTED]
  /\ mode = [f \in Fd |-> NONE_MODE]
  /\ dataFd = [f \in Fd |-> 0]
  /\ clientFds = {ListenFd}
  /\ maxFd = ListenFd
  /\ tempFds = {}
  /\ clientCnt = 0
  /\ main = [Scanning EXCEPT !.pc = "select"]
  /\ task = [t \in Tid |-> Idle]
  /\ fds = [f \in Fd |-> IF f < ListenFd THEN Plain("std")
                         ELSE IF f = ListenFd THEN Plain("listen") ELSE Free]
  /\ conn = [s \in Session |-> "new"]
  /\ line = [s \in Session |-> "none"]
  /\ owed = [s \in Session |-> 0]
  /\ told = [s \in Session |-> NoAddress]
  /\ dataReady = [s \in Session |-> FALSE]
  /\ last = [s \in Session |-> "none"]
  /\ loggedIn = [s \in Session |-> FALSE]

(* send_msg() writes replies to the control connection, a thread and LIST   *)
(* to what data_fd refers to.                                               *)
WritesTo(f) ==
  \/ /\ main.pc \in {"handle", "listen", "data", "file", "list"}
     /\ main.seen # TRANSFER
     /\ f = main.fd
  \/ main.pc = "list" /\ f = dataFd[main.fd]
  \/ \E t \in Tid : task[t].pc = "report" /\ f = task[t].fd
  \/ \E t \in Tid : /\ task[t].pc = "loop" /\ task[t].kind = "send"
                    /\ f = dataFd[task[t].fd]

(* Nobody is at the other end of f (any more). *)
NoReader(f) ==
  \/ fds[f].kind = "ctl" /\ conn[fds[f].who] = "gone"
  \/ fds[f].kind = "data" /\ fds[f].peer = "closed"
  \/ fds[f].kind \in {"sock", "pasv"}

(* Such a write raises SIGPIPE; nothing handles it, and the process ends.   *)
BrokenPipe ==
  /\ "sigpipe" \in Faults
  /\ Running
  /\ \E f \in Fd : WritesTo(f) /\ NoReader(f)
  /\ main' = [main EXCEPT !.pc = "killed"]
  /\ UNCHANGED <<slots, watching, task, fds, peers>>

MainStep == LoopNext \/ HandlerNext

Next ==
  \/ LoopNext
  \/ HandlerNext
  \/ \E t \in Tid : ThreadStep(t)
  \/ \E s \in Session : ClientStep(s)
  \/ BrokenPipe

Spec == Init /\ [][Next]_vars

(* The operating system schedules every thread, and a patient client that   *)
(* uploads a file reaches its end.                                          *)
FairSpec ==
  /\ Spec
  /\ WF_vars(MainStep)
  /\ \A t \in Tid : WF_vars(ThreadStep(t))
  /\ \A s \in Patient : WF_vars(DataClose(s))

-----------------------------------------------------------------------------
(* What holds whatever the clients do and whatever fails. *)

(* max_fd is the largest watched descriptor: select() looks at all of them, *)
(* and the loop at no more than it has to.                                  *)
MaxFdIsLargest ==
  /\ maxFd \in clientFds
  /\ \A f \in clientFds : f <= maxFd

(* No watched descriptor has a slot marked DISCONNECTED: the loop would pass *)
(* it over without reading, and select() would report it for ever.          *)
WatchedSlotsLive ==
  \A f \in clientFds \ {ListenFd} : status[f] # DISCONNECTED

(* No control connection is forgotten: as long as the process holds its     *)
(* descriptor it is watched, and a client that has not left has one.        *)
ConnectionsWatched ==
  /\ \A f \in Fd : fds[f].kind = "ctl" => f \in clientFds
  /\ \A s \in Session : conn[s] = "open" => \E f \in Fd : fds[f] = Ctl(s)

(* No thread ever closes the listening socket, and it is always watched. *)
ListenerOpen ==
  /\ fds[ListenFd] = Plain("listen")
  /\ ListenFd \in clientFds

-----------------------------------------------------------------------------
(* What the server guarantees to clients that keep to the rules. *)

(* "You can only send command USER before logging in!": a session can use   *)
(* the file commands only after its own PASS was accepted.                  *)
LoginFirst ==
  \A f \in Fd, s \in Session :
    fds[f] = Ctl(s) /\ status[f] \in {AVAILAVLE, TRANSFER} => loggedIn[s]

Transferring(t) == task[t].pc \in {"start", "loop", "report", "avail"}

(* A thread finds its own session in its slot, and its own data connection  *)
(* in data_fd, from its start until it has closed that connection.          *)
OwnDataConnection ==
  \A t \in Tid :
    task[t].pc \in {"start", "loop", "report", "avail", "close"} =>
      /\ fds[task[t].fd] = Ctl(task[t].who)
      /\ \E p \in {"open", "closed"} : Target(t) = Data(task[t].who, p)

(* The address of a 227 reply can be connected to until the client does. *)
PassiveAddressValid ==
  \A s \in Session :
    conn[s] = "open" /\ told[s] # NoAddress => fds[told[s]] = Pasv(s, "waiting")

(* Every watched descriptor but the listening socket is a connection:       *)
(* otherwise select() fails and the server ends, or another session's data  *)
(* is read as commands.                                                     *)
WatchedAreConnections ==
  \A f \in clientFds \ {ListenFd} : fds[f].kind = "ctl"

(* accept() of a data connection, in the main thread, never waits, and      *)
(* never fails because its socket does not listen: the client, and it is    *)
(* the one being served, has connected before it asked for the transfer.    *)
AcceptNeverWaits ==
  main.pc = "data" /\ mode[main.fd] = PASV_MODE =>
    fds[dataFd[main.fd]] = Pasv(Owner, "pending")

(* No write of the main thread or of a transfer thread finds the other end  *)
(* closed: a client that keeps to the rules cannot end the process, and     *)
(* with it everybody's session, by SIGPIPE.                                 *)
PipesWhole == \A f \in Fd : WritesTo(f) => ~ NoReader(f)

(* No descriptor leaks: each open one is watched, is the data_fd of a       *)
(* watched slot, or belongs to a running thread or to the main thread.      *)
FdsAccounted ==
  \A f \in Fd :
    f > ListenFd /\ fds[f] # Free =>
      \/ f \in clientFds
      \/ \E c \in clientFds : dataFd[c] = f
      \/ \E t \in Tid : task[t].pc \notin {"idle", "dead"} /\ task[t].file = f
      \/ f \in {main.sock, main.file}

Served(s) == main.fd # 0 /\ fds[main.fd] = Ctl(s)

(* Every command gets exactly one final reply: when nothing of a session is *)
(* waiting, being handled or being transferred, its client waits for none.  *)
RepliesBalanced ==
  \A s \in Patient :
    /\ owed[s] >= 0
    /\ /\ conn[s] = "open"
       /\ line[s] = "none"
       /\ ~ Served(s)
       /\ \A t \in Tid : task[t].who = s => ~ Transferring(t)
       => owed[s] = 0

(* The server ends for no client that keeps to the rules. *)
StaysUp == main.pc \notin {"exited", "killed"}

-----------------------------------------------------------------------------
(* What must eventually happen. *)

(* Every command, and every new connection, is eventually answered: each    *)
(* client is again and again one that waits for nothing.                    *)
AllAnswered == \A s \in Session : []<>(owed[s] <= 0)

(* The main thread never stays in one handler: it returns to select().      *)
MainReturns == []<>(main.pc = "select")

(* Every transfer thread ends, and its descriptors are closed.              *)
ThreadsFinish == \A t \in Tid : []<>(task[t].pc = "idle")

-----------------------------------------------------------------------------
(* Careful clients get the service of FtpService: a session's phase is the  *)
(* status of its slot.                                                      *)
PhaseOf(st) == CASE st = CONNECTED -> "connected"
                 [] st = PASSWORD  -> "password"
                 [] st = AVAILAVLE -> "available"
                 [] st = TRANSFER  -> "transfer"
                 [] OTHER          -> "gone"

ServicePhase ==
  [s \in Session |->
     CASE conn[s] \in {"new", "queued"} -> "away"
       [] conn[s] = "gone"              -> "gone"
       [] OTHER -> PhaseOf(status[CHOOSE f \in Fd : fds[f] = Ctl(s)])]
ServiceWaiting == [s \in Session |-> owed[s] > 0]

Service == INSTANCE FtpService WITH phase <- ServicePhase, waiting <- ServiceWaiting

(* Every step of the server and its clients is a step of that service. *)
ServiceKept == Service!Spec
-----------------------------------------------------------------------------
(* What the sources say of the program, and its threads do not keep. *)

(* "503 You can only send command USER before logging in!": a slot is         *)
(* AVAILAVLE, and its session may use every command, only after the session's *)
(* own PASS.                                                                  *)
AvailableAfterLogin ==
  \A f \in Fd, s \in Session :
    fds[f] = Ctl(s) /\ status[f] = AVAILAVLE => loggedIn[s]

(* A client that has read "226 Transfer complete." may quit: autograde.py    *)
(* does. Its QUIT is not read while the slot still says TRANSFER.           *)
QuitHeard == main.pc = "handle" /\ main.cmd = "QUIT" => main.seen # TRANSFER
=============================================================================
