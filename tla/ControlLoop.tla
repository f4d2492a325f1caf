---------------------------- MODULE ControlLoop ----------------------------
(***************************************************************************)
(* control_init of operator.c: select() over client_fds, one pass over the *)
(* ready descriptors in increasing order, accept() of new control          *)
(* connections, read() of a command line or of the end of a connection.    *)
(***************************************************************************)
EXTENDS FtpState

(* select() reports a descriptor whose read() would not block. A number a  *)
(* thread closed behind the loop's back and the kernel gave out again      *)
(* stands for another object, which may be readable at any time.           *)
Readable(f) ==
  LET s == fds[f].who
  IN CASE fds[f].kind = "listen" -> \E c \in Session : conn[c] = "queued"
       [] fds[f].kind = "ctl"    -> line[s] # "none" \/ conn[s] = "gone"
       [] OTHER                  -> TRUE

(* select() fails with EBADF on a closed number; control_init returns. *)
SelectFails ==
  /\ main.pc = "select"
  /\ \E f \in clientFds : fds[f] = Free
  /\ main' = [main EXCEPT !.pc = "exited"]
  /\ UNCHANGED <<slots, watching, task, fds, peers>>

Select ==
  /\ main.pc = "select"
  /\ \A f \in clientFds : fds[f] # Free
  /\ LET ready == {f \in clientFds : f <= maxFd /\ Readable(f)}
     IN ready # {} /\ tempFds' = ready
  /\ main' = [main EXCEPT !.pc = "scan"]
  /\ UNCHANGED <<slots, clientFds, maxFd, clientCnt, task, fds, peers>>

(* The for loop visits the ready descriptors in order, up to max_fd. *)
AtEvent(e) ==
  /\ main.pc = "scan"
  /\ e \in tempFds
  /\ e <= maxFd
  /\ \A f \in tempFds : e <= f

EndPass ==
  /\ main.pc = "scan"
  /\ \A f \in tempFds : f > maxFd
  /\ tempFds' = {}
  /\ main' = [main EXCEPT !.pc = "select"]
  /\ UNCHANGED <<slots, clientFds, maxFd, clientCnt, task, fds, peers>>

-----------------------------------------------------------------------------
Larger(a, b) == IF a > b THEN a ELSE b

(* FD_SET and FD_CLR on client_fds *)
WatchMutant(f) == UNCHANGED clientFds
Watch(f) == clientFds' = clientFds \cup {f}

StopWatchingMutant(e) == UNCHANGED clientFds
StopWatching(e) == clientFds' = clientFds \ {e}

(* accept(), a slot in clients[], FD_SET and the 220 greeting. *)
Accept ==
  /\ AtEvent(ListenFd)
  /\ \E s \in Session, f \in Fd :
       /\ conn[s] = "queued"
       /\ IsLowestFree(f)
       /\ fds' = [fds EXCEPT ![f] = Ctl(s)]
       /\ conn' = [conn EXCEPT ![s] = "open"]
       /\ owed' = [owed EXCEPT ![s] = 0]
       /\ status' = [status EXCEPT ![f] = CONNECTED]
       /\ Watch(f)
       /\ maxFd' = Larger(f, maxFd)
  /\ tempFds' = tempFds \ {ListenFd}
  /\ clientCnt' = clientCnt + 1
  /\ UNCHANGED <<mode, dataFd, main, task, line, told, dataReady, last, loggedIn>>

(* The client, one that does not wait for the greeting, has reset its       *)
(* connection before accept(): the write() of 220 fails and control_init    *)
(* returns -1, or it raises SIGPIPE. The connection is watched by then.     *)
GreetingFails ==
  /\ AtEvent(ListenFd)
  /\ "reset" \in Faults
  /\ \E s \in Session \ Patient, f \in Fd :
       /\ conn[s] = "queued"
       /\ IsLowestFree(f)
       /\ fds' = [fds EXCEPT ![f] = Ctl(s)]
       /\ conn' = [conn EXCEPT ![s] = "gone"]
       /\ status' = [status EXCEPT ![f] = CONNECTED]
       /\ Watch(f)
       /\ maxFd' = Larger(f, maxFd)
  /\ \/ main' = [main EXCEPT !.pc = "exited"]
     \/ "sigpipe" \in Faults /\ main' = [main EXCEPT !.pc = "killed"]
  /\ UNCHANGED <<mode, dataFd, tempFds, clientCnt, task, line, owed, told,
                 dataReady, last, loggedIn>>

(* accept() fails when no number is free; control_init returns -1. *)
AcceptFails ==
  /\ AtEvent(ListenFd)
  /\ NoFreeFd
  /\ main' = [main EXCEPT !.pc = "exited"]
  /\ UNCHANGED <<slots, watching, task, fds, peers>>

(* The loop reads from a ready descriptor other than the listening one if    *)
(* its slot is in use. What would follow if it is not (the descriptor stays *)
(* watched and ready, and the loop spins) has no action: WatchedSlotsLive   *)
(* says, and FtpServerProofs proves, that it never comes to that.           *)
IsClientMutant(e) == TRUE
IsClient(e) == e # ListenFd /\ status[e] # DISCONNECTED

(* read() returned 0 or -1: the end of the connection, a number that has    *)
(* been closed, or an object that is not a connection.                      *)
ReadFails(e) ==
  \/ fds[e].kind = "ctl" /\ line[fds[e].who] = "none" /\ conn[fds[e].who] = "gone"
  \/ fds[e].kind # "ctl"

RefindMaxMutant1(e, S) == IF e = maxFd THEN maxFd' = e - 1 ELSE UNCHANGED maxFd
RefindMaxMutant2(e, S) == IF e = maxFd THEN maxFd' = -1 ELSE UNCHANGED maxFd

(* "Refind the largest fd in fd set", when the largest has just gone. *)
RefindMax(e, S) ==
  IF e = maxFd /\ \E i \in S : 0 < i /\ i <= maxFd
  THEN \E i \in S : /\ 0 < i /\ i <= maxFd
                    /\ \A j \in S : 0 < j /\ j <= maxFd => j <= i
                    /\ maxFd' = i
  ELSE UNCHANGED maxFd

Disconnect(e) ==
  /\ AtEvent(e)
  /\ IsClient(e)
  /\ ReadFails(e)
  /\ CloseAll({e})
  /\ StopWatching(e)
  /\ status' = [status EXCEPT ![e] = DISCONNECTED]
  /\ mode' = [mode EXCEPT ![e] = NONE_MODE]
  /\ dataFd' = [dataFd EXCEPT ![e] = 0]
  /\ RefindMax(e, clientFds \ {e})
  /\ tempFds' = tempFds \ {e}
  /\ UNCHANGED <<clientCnt, main, task, line, owed, told, dataReady, last, loggedIn>>

(* read() of a line, and interpret() as far as its locked read of the       *)
(* status; the switch that follows works on that copy, without the lock.    *)
ReadLine(e) ==
  /\ AtEvent(e)
  /\ IsClient(e)
  /\ \E s \in Session :
       /\ fds[e] = Ctl(s)
       /\ line[s] \notin {"none", "EMPTY"}
       /\ line' = [line EXCEPT ![s] = "none"]
       /\ main' = [main EXCEPT !.pc = "handle", !.fd = e, !.cmd = line[s],
                               !.seen = status[e]]
  /\ tempFds' = tempFds \ {e}
  /\ UNCHANGED <<slots, clientFds, maxFd, clientCnt, task, fds, conn, owed,
                 told, dataReady, last, loggedIn>>

(* strtok() finds no word in an empty line and strcmp() reads through NULL. *)
ReadEmptyLine(e) ==
  /\ AtEvent(e)
  /\ IsClient(e)
  /\ \E s \in Session :
       /\ fds[e] = Ctl(s)
       /\ line[s] = "EMPTY"
       /\ line' = [line EXCEPT ![s] = "none"]
  /\ main' = [main EXCEPT !.pc = "killed"]
  /\ UNCHANGED <<slots, watching, task, fds, conn, owed, told, dataReady, last, loggedIn>>

LoopNext ==
  \/ SelectFails
  \/ Select
  \/ EndPass
  \/ Accept
  \/ GreetingFails
  \/ AcceptFails
  \/ \E e \in Fd : Disconnect(e)
  \/ \E e \in Fd : ReadLine(e)
  \/ \E e \in Fd : ReadEmptyLine(e)
=============================================================================
