-------------------------- MODULE TransferThreads --------------------------
(***************************************************************************)
(* send_file and recv_file of ftputils.c, one thread per transfer. They    *)
(* reach the data connection through clients[client_fd].data_fd at every   *)
(* use, hold the lock only for the two changes of status, and know the     *)
(* session by the number of its descriptor.                                *)
(***************************************************************************)
EXTENDS FtpState

Target(t) == fds[dataFd[task[t].fd]]

At(t, p) == Running /\ task[t].pc = p
Goto(t, p) == task' = [task EXCEPT ![t].pc = p]

(* lock; status = TRANSFER; unlock *)
Begin(t) ==
  /\ At(t, "start")
  /\ status' = [status EXCEPT ![task[t].fd] = TRANSFER]
  /\ Goto(t, "loop")
  /\ UNCHANGED <<mode, dataFd, watching, main, fds, peers>>

LoopEndsMutant(t) ==
  /\ At(t, "loop")
  /\ task[t].kind = "send"
  /\ Goto(t, "report")
  /\ UNCHANGED <<slots, watching, main, fds, peers>>

(* A receiver's read() returns 0: the peer closed its end of the connection  *)
(* that data_fd refers to, or of its own data connection, on which the read()*)
(* was issued before data_fd changed. Standard input may be at its end too.  *)
ReadsEnd(t) ==
  \/ \E f \in Fd : fds[f] = Data(task[t].who, "closed")
  \/ Target(t).kind = "data" /\ Target(t).peer = "closed"
  \/ \E s \in Session : Target(t) = Ctl(s) /\ line[s] = "none" /\ conn[s] = "gone"
  \/ Target(t).kind = "std"

(* The loop ends: a sender after the last block of the file, a receiver at   *)
(* the end of what it reads.                                                 *)
LoopEnds(t) ==
  /\ At(t, "loop")
  /\ \/ task[t].kind = "send"
     \/ task[t].kind = "recv" /\ ReadsEnd(t)
  /\ Goto(t, "report")
  /\ UNCHANGED <<slots, watching, main, fds, peers>>

(* A receiver whose data_fd was closed and given out again as a control      *)
(* connection takes that connection's command for a part of its file.        *)
LoopReads(t) ==
  /\ At(t, "loop")
  /\ task[t].kind = "recv"
  /\ \E s \in Session :
       /\ Target(t) = Ctl(s)
       /\ line[s] # "none"
       /\ line' = [line EXCEPT ![s] = "none"]
  /\ UNCHANGED <<slots, watching, main, task, fds, conn, owed, told, dataReady,
                 last, loggedIn>>

(* read() or write() returns -1: the thread returns at once. The status     *)
(* stays TRANSFER; the file and the data connection stay open.              *)
LoopFails(t) ==
  /\ At(t, "loop")
  /\ \/ task[t].kind \in {"send", "recv"} /\ Target(t).kind \in {"free", "std"}
     \/ task[t].kind = "recv" /\ Target(t).kind \in {"sock", "pasv", "file"}
     \/ "reset" \in Faults /\ task[t].kind \in {"send", "recv"}
          /\ Target(t).kind = "data" /\ Target(t).peer = "closed"
  /\ Goto(t, "dead")
  /\ UNCHANGED <<slots, watching, main, fds, peers>>

ReportMutant(t) ==
  /\ At(t, "report")
  /\ Goto(t, "avail")
  /\ UNCHANGED <<slots, watching, main, fds, peers>>

(* 226 on the control connection *)
Report(t) ==
  /\ At(t, "report")
  /\ Reply(task[t].fd)
  /\ Goto(t, "avail")
  /\ UNCHANGED <<slots, watching, main, fds, conn, line, told, dataReady, last, loggedIn>>

MakeAvailableMutant(t) ==
  /\ At(t, "avail")
  /\ status' = [status EXCEPT ![task[t].fd] = CONNECTED]
  /\ mode' = [mode EXCEPT ![task[t].fd] = NONE_MODE]
  /\ Goto(t, "close")
  /\ UNCHANGED <<dataFd, watching, main, fds, peers>>

(* lock; status = AVAILAVLE; transfer_mode = NONE_MODE; unlock *)
MakeAvailable(t) ==
  /\ At(t, "avail")
  /\ status' = [status EXCEPT ![task[t].fd] = AVAILAVLE]
  /\ mode' = [mode EXCEPT ![task[t].fd] = NONE_MODE]
  /\ Goto(t, "close")
  /\ UNCHANGED <<dataFd, watching, main, fds, peers>>

FinishedMutant(t) == {task[t].file, task[t].fd}
Finished(t) == {task[t].file, dataFd[task[t].fd]}

(* fclose(file); close(clients[].data_fd) *)
CloseData(t) ==
  /\ At(t, "close")
  /\ CloseAll(Finished(t))
  /\ Goto(t, "zero")
  /\ UNCHANGED <<slots, watching, main, line, owed, told, dataReady, last, loggedIn>>

(* clients[].data_fd = 0 *)
ForgetData(t) ==
  /\ At(t, "zero")
  /\ dataFd' = [dataFd EXCEPT ![task[t].fd] = 0]
  /\ task' = [task EXCEPT ![t] = Idle]
  /\ UNCHANGED <<status, mode, watching, main, fds, peers>>

ThreadStep(t) ==
  \/ Begin(t)
  \/ LoopEnds(t)
  \/ LoopReads(t)
  \/ LoopFails(t)
  \/ Report(t)
  \/ MakeAvailable(t)
  \/ CloseData(t)
  \/ ForgetData(t)
=============================================================================
