--------------------------- MODULE CarefulProofs ---------------------------
(***************************************************************************)
(* What the server guarantees when every client is Careful, for any number *)
(* of them, of descriptors and of threads, and whatever fails: five safety *)
(* properties from one inductive invariant, CarefulInv; from it and a      *)
(* second one, PipesInv, that nothing is written to a closed connection;   *)
(* and that the server implements FtpService.                              *)
(***************************************************************************)
EXTENDS FtpServerProofs

(* A control connection, its slot, its transfer thread, the main thread     *)
(* while it handles a command of it, and its client are bound together:     *)
(* SessionOK says how, one part for each of them.                           *)
Handling  == {"handle", "listen", "data", "swap", "file", "list"}
Serves(s) == main.pc \in Handling /\ fds[main.fd] = Ctl(s)

DataOf(s)     == {Data(s, "open"), Data(s, "closed")}
Ready(s, f)   == \/ mode[f] = PORT_MODE
                 \/ mode[f] = PASV_MODE /\ fds[dataFd[f]] = Pasv(s, "pending")
NoOffer(s)    == told[s] = NoAddress /\ dataReady[s] = FALSE
NoThread(s)   == \A t \in Tid : task[t].who # s

(* The commands that a careful client sends only when no address it was     *)
(* told, and none it announced, is left to use; and those that use one.     *)
Addressing == {"PORT", "PASV", "QUIT"}
Using      == Addressing \cup TransferVerb

(* What the client has sent and been sent: before the connection is         *)
(* accepted nothing but the connection itself, then one command at a time,  *)
(* and nothing after QUIT.                                                  *)
ClientOK(s) ==
  /\ conn[s] = "new" => owed[s] = 0
  /\ conn[s] = "queued" => owed[s] = 1
  /\ conn[s] \in {"new", "queued"} => line[s] = "none" /\ NoOffer(s) /\ last[s] = "none"
  /\ conn[s] = "gone" => owed[s] = 0 /\ last[s] = "QUIT"
  /\ owed[s] \in {0, 1}
  /\ line[s] # "none" => owed[s] = 1 /\ line[s] = last[s]
  /\ line[s] \in Using => NoOffer(s)
  /\ last[s] = "QUIT" => NoOffer(s)
  /\ dataReady[s] => told[s] = NoAddress

(* The slot of an accepted connection. *)
SlotOK(s, f) ==
  /\ conn[s] \in {"open", "gone"}
  /\ \A g \in Fd : fds[g] = Ctl(s) => g = f
  /\ status[f] \in {AVAILAVLE, TRANSFER} => loggedIn[s]
  /\ status[f] = TRANSFER => ~ NoThread(s)
  /\ told[s] # NoAddress =>
       mode[f] = PASV_MODE /\ dataFd[f] = told[s] /\ fds[told[s]] = Pasv(s, "waiting")
  /\ dataReady[s] \/ line[s] \in TransferVerb => Ready(s, f)

(* A thread has its slot and its descriptors to itself, and reports to a    *)
(* client that waits for it.                                                *)
Holding == {"start", "loop", "report", "avail", "close", "dead"}

StageOK(s, k) ==
  /\ k.pc \in {"start", "close", "zero"} => status[k.fd] = AVAILAVLE
  /\ k.pc \in {"loop", "report", "avail", "dead"} => status[k.fd] = TRANSFER
  /\ k.pc \in {"start", "loop", "report", "dead"} => owed[s] = 1
  /\ k.pc \in {"avail", "close", "zero"} => owed[s] = 0
  /\ k.pc \in Holding => fds[k.file] = File /\ fds[dataFd[k.fd]] \in DataOf(s)

ThreadOK(s, t) ==
  /\ \A u \in Tid : task[u].who = s => u = t
  /\ fds[task[t].fd] = Ctl(s)
  /\ conn[s] = "open"
  /\ line[s] = "none"
  /\ NoOffer(s)
  /\ last[s] \in {"RETR", "STOR"}
  /\ ~ Serves(s)
  /\ StageOK(s, task[t])

(* The main thread handles a command of a client that waits for the answer, *)
(* with the status that is still the slot's, and finds in data_fd what the  *)
(* step before has put there.                                               *)
HandlerOK(s) ==
  LET m == main
      d == fds[dataFd[main.fd]]
  IN /\ conn[s] = "open"
     /\ line[s] = "none"
     /\ owed[s] = 1
     /\ m.cmd = last[s]
     /\ m.cmd \in Using => NoOffer(s)
     /\ m.seen = status[m.fd]
     /\ m.seen \in {CONNECTED, PASSWORD, AVAILAVLE}
     /\ m.pc # "handle" => m.seen = AVAILAVLE
     /\ m.pc = "listen" => m.cmd = "PASV" /\ m.sock = dataFd[m.fd] /\ d = Sock(s)
     /\ m.pc \in {"data", "swap", "file", "list"} => m.cmd \in TransferVerb
     /\ m.pc \in {"handle", "data"} /\ m.cmd \in TransferVerb => Ready(s, m.fd)
     /\ m.pc = "swap" => d = Pasv(s, "none") /\ fds[m.sock] \in DataOf(s)
     /\ m.pc \in {"file", "list"} => d \in DataOf(s)
     /\ m.pc = "file" => m.cmd # "LIST"
     /\ m.pc = "list" => m.cmd = "LIST"
     /\ m.pc \in {"data", "swap", "list"} /\ m.cmd = "LIST" => fds[m.file] = File

SessionOK(s) ==
  /\ ClientOK(s)
  /\ \A f \in Fd : fds[f] = Ctl(s) => SlotOK(s, f)
  /\ \A t \in Tid : task[t].who = s => ThreadOK(s, t)
  /\ Serves(s) => HandlerOK(s)

(* And no two of them hold the same file. *)
Listing == main.pc \in {"data", "swap", "list"} /\ main.cmd = "LIST"

FilesApart ==
  \A t \in Tid : task[t].pc \in Holding =>
    /\ Listing => task[t].file # main.file
    /\ \A u \in Tid : task[u].pc \in Holding /\ u # t => task[u].file # task[t].file

CtlShape == \A f \in Fd : fds[f].kind = "ctl" => \E s \in Session : fds[f] = Ctl(s)

OwnersKnown ==
  /\ \A t \in Tid : task[t].pc = "idle" <=> task[t].who = Nobody
  /\ main.pc \in Handling => \E s \in Session : fds[main.fd] = Ctl(s)

CarefulInv ==
  /\ WatchedAreConnections
  /\ CtlShape
  /\ OwnersKnown
  /\ FilesApart
  /\ \A s \in Session : SessionOK(s)

-----------------------------------------------------------------------------
(* A step in which session r takes no part: nothing of it changes, what it  *)
(* holds included, and the main thread does not begin to handle a command   *)
(* of it.                                                                   *)
SamePeer(r) ==
  /\ conn'[r] = conn[r] /\ line'[r] = line[r] /\ owed'[r] = owed[r] /\ told'[r] = told[r]
  /\ dataReady'[r] = dataReady[r] /\ last'[r] = last[r] /\ loggedIn'[r] = loggedIn[r]

SameSlot(r) ==
  /\ \A f \in Fd : fds[f].who = r \/ fds'[f].who = r => fds'[f] = fds[f]
  /\ \A f \in Fd : fds[f] = Ctl(r) =>
       status'[f] = status[f] /\ mode'[f] = mode[f] /\ dataFd'[f] = dataFd[f]

SameThread(r) ==
  \A t \in Tid : task[t].who = r \/ task'[t].who = r =>
    /\ task'[t] = task[t]
    /\ task[t].pc \in Holding => fds'[task[t].file] = fds[task[t].file]

SameHandler(r) ==
  Serves(r)' => main' = main /\ (Listing => fds'[main.file] = fds[main.file])

Same(r) == SamePeer(r) /\ SameSlot(r) /\ SameThread(r) /\ SameHandler(r)

(* Such a step keeps SessionOK(r). *)
LEMMA Apart ==
  ASSUME TypeOK, TypeOK', NEW r \in Session, SessionOK(r), Same(r)
  PROVE  SessionOK(r)'
<1>1. \A f \in Fd : fds'[f] = Ctl(r) <=> fds[f] = Ctl(r)
  BY DEF Same, SameSlot, Ctl
<1>2. ClientOK(r)'
  BY DEF SessionOK, ClientOK, Same, SamePeer, NoOffer
<1>3. NoThread(r)' <=> NoThread(r)
  BY DEF NoThread, Same, SameThread
<1>4. ASSUME NEW f \in Fd, fds'[f] = Ctl(r) PROVE SlotOK(r, f)'
  <2>1. SlotOK(r, f) /\ fds[f] = Ctl(r)
    BY <1>1, <1>4 DEF SessionOK
  <2>2. status'[f] = status[f] /\ mode'[f] = mode[f] /\ dataFd'[f] = dataFd[f]
    BY <2>1 DEF Same, SameSlot
  <2>3. told[r] \in Fd /\ dataFd[f] \in Fd
    BY DEF TypeOK, PeersOK, SlotsOK
  <2>4. Ready(r, f) => Ready(r, f)'
    BY <2>2, <2>3 DEF Ready, Same, SameSlot, Pasv
  <2>5. fds[told[r]] = Pasv(r, "waiting") => fds'[told[r]] = Pasv(r, "waiting")
    BY <2>3 DEF Same, SameSlot, Pasv
  <2> QED
    BY <1>1, <1>3, <2>1, <2>2, <2>4, <2>5 DEF SlotOK, Same, SamePeer
<1>5. ASSUME NEW t \in Tid, task'[t].who = r PROVE ThreadOK(r, t)'
  <2>1. task'[t] = task[t] /\ ThreadOK(r, t)
    BY <1>5 DEF Same, SameThread, SessionOK
  <2>2. task[t].fd \in Fd /\ task[t].file \in Fd /\ dataFd[task[t].fd] \in Fd
    BY DEF TypeOK, ThreadsOK, Task, SlotsOK
  <2>3. fds[task[t].fd] = Ctl(r)
    BY <2>1 DEF ThreadOK
  <2>4. \A u \in Tid : task'[u].who = r => u = t
    BY <2>1 DEF ThreadOK, Same, SameThread
  <2>5. /\ status'[task[t].fd] = status[task[t].fd]
        /\ dataFd'[task[t].fd] = dataFd[task[t].fd]
        /\ fds'[task[t].fd] = Ctl(r)
    BY <1>1, <2>2, <2>3 DEF Same, SameSlot
  <2>6. ~ Serves(r)'
    BY <2>1, <2>2, <1>1 DEF ThreadOK, Same, SameHandler, Serves, TypeOK, ThreadsOK, MainState
  <2>7. ASSUME task[t].pc \in Holding
        PROVE  fds'[task[t].file] = File /\ fds'[dataFd[task[t].fd]] \in DataOf(r)
    <3>1. fds[task[t].file] = File /\ fds[dataFd[task[t].fd]] \in DataOf(r)
      BY <2>1, <2>7 DEF ThreadOK, StageOK
    <3>2. fds[dataFd[task[t].fd]].who = r
      BY <3>1 DEF DataOf, Data
    <3>3. fds'[dataFd[task[t].fd]] = fds[dataFd[task[t].fd]]
      BY <2>2, <3>2 DEF Same, SameSlot
    <3>4. fds'[task[t].file] = fds[task[t].file]
      BY <2>1, <2>7, <1>5 DEF Same, SameThread
    <3> QED
      BY <3>1, <3>3, <3>4
  <2>8. SamePeer(r)
    BY DEF Same
  <2> QED
    BY <2>1, <2>4, <2>5, <2>6, <2>7, <2>8 DEF ThreadOK, StageOK, SamePeer, NoOffer
<1>6. ASSUME Serves(r)' PROVE HandlerOK(r)'
  <2>1. main' = main /\ (Listing => fds'[main.file] = fds[main.file])
    BY <1>6 DEF Same, SameHandler
  <2>2. main.fd \in Fd /\ dataFd[main.fd] \in Fd /\ main.sock \in Fd
    BY DEF TypeOK, ThreadsOK, MainState, SlotsOK
  <2>3. Serves(r) /\ fds[main.fd] = Ctl(r)
    BY <1>1, <1>6, <2>1, <2>2 DEF Serves
  <2>4. HandlerOK(r)
    BY <2>3 DEF SessionOK
  <2>5. /\ status'[main.fd] = status[main.fd]
        /\ mode'[main.fd] = mode[main.fd]
        /\ dataFd'[main.fd] = dataFd[main.fd]
    BY <2>2, <2>3 DEF Same, SameSlot
  <2>6. \A f \in Fd : fds[f].who = r => fds'[f] = fds[f]
    BY DEF Same, SameSlot
  <2>7. /\ Ready(r, main.fd) => Ready(r, main.fd)'
        /\ \A p \in {"none"} : fds[dataFd[main.fd]] = Pasv(r, p) =>
             fds'[dataFd[main.fd]] = Pasv(r, p)
        /\ fds[dataFd[main.fd]] = Sock(r) => fds'[dataFd[main.fd]] = Sock(r)
        /\ fds[dataFd[main.fd]] \in DataOf(r) => fds'[dataFd[main.fd]] \in DataOf(r)
        /\ fds[main.sock] \in DataOf(r) => fds'[main.sock] \in DataOf(r)
    BY <2>1, <2>2, <2>5, <2>6 DEF Ready, Pasv, Sock, DataOf, Data
  <2>8. SamePeer(r)
    BY DEF Same
  <2> QED
    BY <2>1, <2>4, <2>5, <2>7, <2>8 DEF HandlerOK, SamePeer, NoOffer, Listing
<1> QED
  BY <1>2, <1>4, <1>5, <1>6 DEF SessionOK

(* The parts of the invariant that are not about one session, when a step   *)
(* neither opens nor closes a control connection.                           *)
SameConnections ==
  /\ UNCHANGED clientFds
  /\ \A f \in Fd : fds[f].kind = "ctl" \/ fds'[f].kind = "ctl" => fds'[f] = fds[f]

LEMMA ConnectionsApart ==
  ASSUME TypeOK, CarefulInv, SameConnections
  PROVE  WatchedAreConnections' /\ CtlShape'
<1>1. WatchedAreConnections'
  BY DEF CarefulInv, WatchedAreConnections, SameConnections, TypeOK, WatchingOK
<1>2. CtlShape'
  BY DEF CarefulInv, CtlShape, SameConnections
<1> QED
  BY <1>1, <1>2

(* A step of one session keeps the invariant if it keeps that session's     *)
(* part and leaves the others apart.                                        *)
LEMMA OneSession ==
  ASSUME TypeOK, TypeOK', CarefulInv, NEW s \in Session,
         \A r \in Session \ {s} : Same(r),
         SessionOK(s)', WatchedAreConnections', CtlShape', OwnersKnown', FilesApart'
  PROVE  CarefulInv'
<1>1. ASSUME NEW r \in Session PROVE SessionOK(r)'
  <2>1. CASE r = s
    BY <2>1
  <2>2. CASE r # s
    BY <2>2, Apart DEF CarefulInv
  <2> QED
    BY <2>1, <2>2
<1> QED
  BY <1>1 DEF CarefulInv

(* A step of no session, which at most stops the main thread or takes it    *)
(* back to the loop, keeps the invariant.                                   *)
LEMMA NoSession ==
  ASSUME TypeOK, TypeOK', CarefulInv, UNCHANGED <<slots, clientFds, task, fds, peers>>,
         main' = main \/ main'.pc \notin Handling
  PROVE  CarefulInv' /\ \A r \in Session : Same(r)
<1>1. \A r \in Session : Same(r)
  BY DEF Same, SamePeer, SameSlot, SameThread, SameHandler, slots, peers, Serves
<1>2. \A r \in Session : SessionOK(r)'
  BY <1>1, Apart DEF CarefulInv
<1>3. WatchedAreConnections' /\ CtlShape'
  BY ConnectionsApart DEF SameConnections
<1>4. OwnersKnown'
  BY DEF OwnersKnown, CarefulInv
<1>5. FilesApart'
  BY DEF FilesApart, CarefulInv, Listing, Handling
<1> QED
  BY <1>1, <1>2, <1>3, <1>4, <1>5 DEF CarefulInv

(* The invariant holds when control_init enters its loop. *)
LEMMA InitCareful == Init => CarefulInv
<1> SUFFICES ASSUME Init PROVE CarefulInv
  OBVIOUS
<1>1. \A f \in Fd : fds[f].kind # "ctl"
  BY DEF Init, Plain, Free
<1>2. main.pc = "select" /\ \A t \in Tid : task[t].pc = "idle" /\ task[t].who = Nobody
  BY DEF Init, Scanning, Idle
<1>3. \A s \in Session : ClientOK(s)
  BY DEF Init, ClientOK, NoOffer, Using, Addressing, TransferVerb
<1>4. ASSUME NEW s \in Session PROVE SessionOK(s)
  <2>1. \A f \in Fd : fds[f] # Ctl(s)
    BY <1>1 DEF Ctl
  <2>2. ~ Serves(s) /\ NoThread(s)
    BY <1>2, SessionAssumption DEF Serves, Handling, NoThread
  <2> QED
    BY <1>3, <2>1, <2>2 DEF SessionOK, NoThread
<1>5. WatchedAreConnections /\ CtlShape
  BY <1>1 DEF Init, WatchedAreConnections, CtlShape
<1>6. OwnersKnown /\ FilesApart
  BY <1>2 DEF OwnersKnown, FilesApart, Holding, Handling
<1> QED
  BY <1>4, <1>5, <1>6 DEF CarefulInv

-----------------------------------------------------------------------------
(* The transfer threads. What a thread that is at work knows. *)
LEMMA ThreadKnows ==
  ASSUME TypeOK, CarefulInv, NEW t \in Tid, task[t].pc # "idle"
  PROVE  /\ task[t].who \in Session
         /\ ThreadOK(task[t].who, t)
         /\ ClientOK(task[t].who)
         /\ SlotOK(task[t].who, task[t].fd)
         /\ task[t].fd \in Fd /\ task[t].file \in Fd /\ dataFd[task[t].fd] \in Fd
<1>1. task[t] \in Task
  BY DEF TypeOK, ThreadsOK
<1>2. task[t].who \in Session
  BY <1>1 DEF CarefulInv, OwnersKnown, Task
<1>3. task[t].fd \in Fd /\ task[t].file \in Fd /\ dataFd[task[t].fd] \in Fd
  BY <1>1 DEF Task, TypeOK, SlotsOK
<1>4. SessionOK(task[t].who)
  BY <1>2 DEF CarefulInv
<1>5. ThreadOK(task[t].who, t) /\ ClientOK(task[t].who)
  BY <1>4 DEF SessionOK
<1>6. SlotOK(task[t].who, task[t].fd)
  BY <1>3, <1>4, <1>5 DEF SessionOK, ThreadOK
<1> QED
  BY <1>2, <1>3, <1>5, <1>6

(* What a step of a thread may touch: its own entry, its own slot, the      *)
(* file and the data connection it holds, the replies its client waits for. *)
ThreadTouches(t) ==
  LET k == task[t]
  IN /\ \A u \in Tid : u # t => task'[u] = task[u]
     /\ \/ task'[t] = Idle
        \/ /\ task'[t].pc # "idle"
           /\ task'[t].who = k.who
           /\ task'[t].fd = k.fd
     /\ task'[t].pc \in Holding => k.pc \in Holding /\ task'[t].file = k.file
     /\ \A f \in Fd : f # k.fd =>
          status'[f] = status[f] /\ mode'[f] = mode[f] /\ dataFd'[f] = dataFd[f]
     /\ \A f \in Fd : fds'[f] # fds[f] =>
          fds'[f] = Free /\ k.pc \in Holding /\ f \in {k.file, dataFd[k.fd]}
     /\ \A s \in Session : s # k.who => SamePeer(s)
     /\ UNCHANGED <<clientFds, main>>

(* It is kept from everything that belongs to another session. *)
LEMMA ThreadApart ==
  ASSUME TypeOK, TypeOK', CarefulInv, NEW t \in Tid, task[t].pc # "idle", ThreadTouches(t)
  PROVE  /\ \A r \in Session \ {task[t].who} : Same(r)
         /\ WatchedAreConnections' /\ CtlShape'
         /\ FilesApart' /\ OwnersKnown'
<1> DEFINE k == task[t]
<1>1. /\ k.who \in Session /\ ThreadOK(k.who, t)
      /\ k.fd \in Fd /\ k.file \in Fd /\ dataFd[k.fd] \in Fd
  BY ThreadKnows
<1>2. \A f \in Fd : fds'[f] # fds[f] =>
        fds'[f] = Free /\ k.pc \in Holding /\ (fds[f] = File \/ fds[f] \in DataOf(k.who))
  BY <1>1 DEF ThreadTouches, ThreadOK, StageOK
<1>3. SameConnections
  <2>1. Free.kind # "ctl" /\ File.kind # "ctl" /\ \A d \in DataOf(k.who) : d.kind # "ctl"
    BY DEF Free, File, Plain, DataOf, Data
  <2> QED
    BY <1>2, <2>1 DEF SameConnections, ThreadTouches
<1>4. ASSUME NEW u \in Tid, u # t, task[u].pc \in Holding
      PROVE  fds'[task[u].file] = fds[task[u].file]
  <2>1. task[u].file \in Fd /\ fds[task[u].file] = File
    BY <1>4, ThreadKnows DEF ThreadOK, StageOK, Holding
  <2>2. k.pc \in Holding => task[u].file # k.file
    BY <1>4 DEF CarefulInv, FilesApart
  <2>3. k.pc \in Holding => task[u].file # dataFd[k.fd]
    BY <1>1, <2>1 DEF ThreadOK, StageOK, DataOf, Data, File, Plain
  <2> QED
    BY <2>1, <2>2, <2>3 DEF ThreadTouches
<1>5. Listing => fds'[main.file] = fds[main.file]
  <2> SUFFICES ASSUME Listing PROVE fds'[main.file] = fds[main.file]
    OBVIOUS
  <2>1. PICK s \in Session : fds[main.fd] = Ctl(s)
    BY DEF Listing, CarefulInv, OwnersKnown, Handling
  <2>2. main.file \in Fd /\ fds[main.file] = File
    <3>1. HandlerOK(s)
      BY <2>1 DEF CarefulInv, SessionOK, Serves, Listing, Handling
    <3> QED
      BY <3>1 DEF HandlerOK, Listing, TypeOK, ThreadsOK, MainState
  <2>3. k.pc \in Holding => main.file # k.file
    BY DEF CarefulInv, FilesApart
  <2>4. k.pc \in Holding => main.file # dataFd[k.fd]
    BY <1>1, <2>2 DEF ThreadOK, StageOK, DataOf, Data, File, Plain
  <2> QED
    BY <2>2, <2>3, <2>4 DEF ThreadTouches
<1>6. ASSUME NEW r \in Session \ {k.who} PROVE Same(r)
  <2>1. SamePeer(r)
    BY <1>6 DEF ThreadTouches
  <2>2. SameSlot(r)
    <3>1. \A f \in Fd : fds[f].who = r \/ fds'[f].who = r => fds'[f] = fds[f]
      BY <1>2, <1>6, SessionAssumption DEF DataOf, Data, File, Free, Plain
    <3>2. \A f \in Fd : fds[f] = Ctl(r) => f # k.fd
      BY <1>1, <1>6 DEF ThreadOK, Ctl
    <3> QED
      BY <3>1, <3>2 DEF SameSlot, ThreadTouches
  <2>3. SameThread(r)
    BY <1>4, <1>6, SessionAssumption DEF SameThread, ThreadTouches, Idle
  <2>4. SameHandler(r)
    BY <1>5 DEF SameHandler, ThreadTouches
  <2> QED
    BY <2>1, <2>2, <2>3, <2>4 DEF Same
<1>7. FilesApart'
  BY DEF ThreadTouches, CarefulInv, FilesApart, Listing
<1>8. OwnersKnown'
  <2>1. \A u \in Tid : task'[u].pc = "idle" <=> task'[u].who = Nobody
    BY <1>1, SessionAssumption DEF ThreadTouches, CarefulInv, OwnersKnown, Idle
  <2>2. \A s \in Session : fds[main.fd] = Ctl(s) => fds'[main.fd] = Ctl(s)
    BY <1>3 DEF SameConnections, Ctl, TypeOK, ThreadsOK, MainState
  <2> QED
    BY <2>1, <2>2 DEF OwnersKnown, CarefulInv, ThreadTouches
<1> QED
  BY <1>3, <1>6, <1>7, <1>8, ConnectionsApart

(* Its own session goes on to the next stage. *)
LEMMA ThreadAlone ==
  ASSUME TypeOK, TypeOK', CarefulInv, NEW t \in Tid, task[t].pc # "idle", ThreadTouches(t),
         NEW s \in Session, s = task[t].who,
         conn'[s] = conn[s], line'[s] = line[s], told'[s] = told[s],
         dataReady'[s] = dataReady[s], last'[s] = last[s], loggedIn'[s] = loggedIn[s],
         owed'[s] \in {0, 1},
         status'[task[t].fd] \in {AVAILAVLE, TRANSFER},
         status'[task[t].fd] = TRANSFER => task'[t].who = s,
         task'[t].who = s => StageOK(s, task[t])'
  PROVE  CarefulInv' /\ \A r \in Session \ {s} : Same(r)
<1> DEFINE k == task[t]
<1>1. /\ ThreadOK(s, t) /\ ClientOK(s) /\ SlotOK(s, k.fd)
      /\ k.fd \in Fd /\ k.file \in Fd /\ dataFd[k.fd] \in Fd
  BY ThreadKnows
<1>2. \A f \in Fd : fds'[f] = Ctl(s) <=> fds[f] = Ctl(s)
  BY <1>1 DEF ThreadTouches, ThreadOK, StageOK, Ctl, File, Free, Plain, DataOf, Data
<1>3. ClientOK(s)'
  BY <1>1 DEF ThreadOK, ClientOK, NoOffer, Using, Addressing, TransferVerb
<1>4. ASSUME NEW f \in Fd, fds'[f] = Ctl(s) PROVE SlotOK(s, f)'
  <2>1. f = k.fd
    BY <1>1, <1>2, <1>4 DEF SlotOK
  <2>2. loggedIn[s]
    BY <1>1 DEF SlotOK, ThreadOK, StageOK, TypeOK, ThreadsOK, Task
  <2> QED
    BY <1>1, <1>2, <2>1, <2>2 DEF SlotOK, ThreadOK, NoOffer, NoThread, TransferVerb
<1>5. ASSUME NEW u \in Tid, task'[u].who = s PROVE ThreadOK(s, u)'
  <2>1. u = t /\ \A v \in Tid : task'[v].who = s => v = t
    BY <1>1, <1>5 DEF ThreadTouches, ThreadOK
  <2>2. task'[t].fd = k.fd
    BY <1>5, <2>1, SessionAssumption DEF ThreadTouches, Idle
  <2>3. fds'[k.fd] = Ctl(s) /\ ~ Serves(s)'
    BY <1>1, <1>2 DEF ThreadOK, Serves, ThreadTouches, TypeOK, ThreadsOK, MainState
  <2> QED
    BY <1>1, <1>5, <2>1, <2>2, <2>3 DEF ThreadOK, NoOffer
<1>6. ~ Serves(s)'
  BY <1>1, <1>2 DEF ThreadOK, Serves, ThreadTouches, TypeOK, ThreadsOK, MainState
<1>7. SessionOK(s)'
  BY <1>3, <1>4, <1>5, <1>6 DEF SessionOK
<1> QED
  BY <1>7, ThreadApart, OneSession

(* A receiver's data_fd is no control connection: it reads no commands. *)
LEMMA NoCommandsTaken ==
  ASSUME TypeOK, CarefulInv, NEW t \in Tid PROVE ~ LoopReads(t)
<1> SUFFICES ASSUME LoopReads(t) PROVE FALSE
  OBVIOUS
<1>1. task[t].pc = "loop" /\ \E r \in Session : Target(t) = Ctl(r)
  BY DEF LoopReads, At
<1>2. Target(t) \in DataOf(task[t].who)
  BY <1>1, ThreadKnows DEF ThreadOK, StageOK, Holding, Target
<1> QED
  BY <1>1, <1>2 DEF DataOf, Data, Ctl

(* A client that keeps to the rules waits for its greeting. *)
LEMMA AllGreeted == ASSUME Careful = Session PROVE ~ GreetingFails
BY SessionAssumption DEF GreetingFails

(* The steps of send_file and recv_file keep the invariant. *)
LEMMA ThreadCareful ==
  ASSUME Careful = Session, TypeOK, TypeOK', CarefulInv, NEW t \in Tid, ThreadStep(t)
  PROVE  CarefulInv' /\ \A r \in Session \ {task[t].who} : Same(r)
<1> DEFINE k == task[t]
           s == task[t].who
<1>1. k.pc # "idle" /\ k.pc # "dead"
  BY NoCommandsTaken DEF ThreadStep, At, Begin, LoopEnds, LoopFails, Report, MakeAvailable, CloseData, ForgetData
<1>2. /\ s \in Session /\ ThreadOK(s, t) /\ ClientOK(s)
      /\ k.fd \in Fd /\ k.file \in Fd /\ dataFd[k.fd] \in Fd
  BY <1>1, ThreadKnows
<1>3. k \in Task /\ StageOK(s, k) /\ owed[s] \in {0, 1}
  BY <1>2 DEF TypeOK, ThreadsOK, ThreadOK, ClientOK
<1>4. ASSUME NEW p \in {"loop", "report", "avail", "close", "zero", "dead"}, Goto(t, p)
      PROVE  /\ \A u \in Tid : u # t => task'[u] = task[u]
             /\ task'[t] = [k EXCEPT !.pc = p]
             /\ task'[t].pc = p /\ task'[t].who = s
             /\ task'[t].fd = k.fd /\ task'[t].file = k.file
  BY <1>3, <1>4 DEF Goto, Task, TypeOK, ThreadsOK
<1>5. CASE Begin(t)
  <2>1. k.pc = "start" /\ status' = [status EXCEPT ![k.fd] = TRANSFER] /\ Goto(t, "loop")
        /\ UNCHANGED <<mode, dataFd, watching, main, fds, peers>>
    BY <1>5 DEF Begin, At
  <2>2. status'[k.fd] = TRANSFER /\ \A f \in Fd : f # k.fd => status'[f] = status[f]
    BY <1>2, <2>1 DEF TypeOK, SlotsOK
  <2>3. ThreadTouches(t)
    BY <1>4, <2>1, <2>2 DEF ThreadTouches, SamePeer, peers, watching, Holding
  <2>4. StageOK(s, k)'
    BY <1>3, <1>4, <2>1, <2>2 DEF StageOK, Holding, peers
  <2> QED
    BY <1>1, <1>2, <1>3, <1>4, <2>1, <2>2, <2>3, <2>4, ThreadAlone DEF peers
<1>6. ASSUME NEW p \in {"report", "dead"}, k.pc = "loop", Goto(t, p),
             UNCHANGED <<slots, watching, main, fds, peers>>
      PROVE  CarefulInv' /\ \A r \in Session \ {s} : Same(r)
  <2>1. ThreadTouches(t)
    BY <1>4, <1>6 DEF ThreadTouches, SamePeer, peers, watching, slots, Holding
  <2>2. StageOK(s, k)' /\ status'[k.fd] = TRANSFER
    BY <1>3, <1>4, <1>6 DEF StageOK, Holding, peers, slots
  <2> QED
    BY <1>1, <1>2, <1>3, <1>4, <1>6, <2>1, <2>2, ThreadAlone DEF peers
<1>7. CASE LoopEnds(t)
  BY <1>6, <1>7 DEF LoopEnds, At
<1>8. CASE LoopFails(t)
  BY <1>6, <1>8 DEF LoopFails, At
<1>9. CASE Report(t)
  <2>1. k.pc = "report" /\ Reply(k.fd) /\ Goto(t, "avail")
        /\ UNCHANGED <<slots, watching, main, fds, conn, line, told, dataReady, last, loggedIn>>
    BY <1>9 DEF Report, At
  <2>2. s \in Patient
    BY <1>2, SessionAssumption
  <2>3. owed'[s] = 0 /\ \A r \in Session : r # s => owed'[r] = owed[r]
    BY <1>2, <1>3, <2>1, <2>2 DEF Reply, StageOK, ThreadOK, Ctl
  <2>4. ThreadTouches(t)
    BY <1>4, <2>1, <2>3 DEF ThreadTouches, SamePeer, watching, slots, Holding
  <2>5. StageOK(s, k)' /\ status'[k.fd] = TRANSFER
    BY <1>3, <1>4, <2>1, <2>3 DEF StageOK, Holding, slots
  <2> QED
    BY <1>1, <1>2, <1>4, <2>1, <2>3, <2>4, <2>5, ThreadAlone
<1>10. CASE MakeAvailable(t)
  <2>1. k.pc = "avail" /\ Goto(t, "close")
        /\ status' = [status EXCEPT ![k.fd] = AVAILAVLE]
        /\ mode' = [mode EXCEPT ![k.fd] = NONE_MODE]
        /\ UNCHANGED <<dataFd, watching, main, fds, peers>>
    BY <1>10 DEF MakeAvailable, At
  <2>2. status'[k.fd] = AVAILAVLE
        /\ \A f \in Fd : f # k.fd => status'[f] = status[f] /\ mode'[f] = mode[f]
    BY <1>2, <2>1 DEF TypeOK, SlotsOK
  <2>3. ThreadTouches(t)
    BY <1>4, <2>1, <2>2 DEF ThreadTouches, SamePeer, peers, watching, Holding
  <2>4. StageOK(s, k)'
    BY <1>3, <1>4, <2>1, <2>2 DEF StageOK, Holding, peers
  <2> QED
    BY <1>1, <1>2, <1>3, <1>4, <2>1, <2>2, <2>3, <2>4, ThreadAlone DEF peers, AVAILAVLE, TRANSFER
<1>11. CASE CloseData(t)
  <2>1. k.pc = "close" /\ Goto(t, "zero") /\ CloseAll({k.file, dataFd[k.fd]})
        /\ UNCHANGED <<slots, watching, main, line, owed, told, dataReady, last, loggedIn>>
    BY <1>11 DEF CloseData, At, Finished
  <2>2. \A f \in {k.file, dataFd[k.fd]}, r \in Session : fds[f] # Ctl(r)
    BY <1>3, <2>1 DEF StageOK, Holding, DataOf, Data, File, Plain, Ctl
  <2>3. \A r \in Session : conn'[r] = conn[r]
    BY <2>1, <2>2 DEF CloseAll
  <2>4. ThreadTouches(t)
    BY <1>4, <2>1, <2>3 DEF ThreadTouches, CloseAll, SamePeer, watching, slots, Holding
  <2>5. StageOK(s, k)' /\ status'[k.fd] = AVAILAVLE
    BY <1>3, <1>4, <2>1 DEF StageOK, Holding, slots
  <2> QED
    BY <1>1, <1>2, <1>3, <1>4, <2>1, <2>3, <2>4, <2>5, ThreadAlone DEF AVAILAVLE, TRANSFER
<1>12. CASE ForgetData(t)
  <2>1. k.pc = "zero" /\ dataFd' = [dataFd EXCEPT ![k.fd] = 0]
        /\ task' = [task EXCEPT ![t] = Idle]
        /\ UNCHANGED <<status, mode, watching, main, fds, peers>>
    BY <1>12 DEF ForgetData, At
  <2>2. task'[t] = Idle /\ \A u \in Tid : u # t => task'[u] = task[u]
    BY <2>1 DEF TypeOK, ThreadsOK
  <2>3. \A f \in Fd : f # k.fd => dataFd'[f] = dataFd[f]
    BY <1>2, <2>1 DEF TypeOK, SlotsOK
  <2>4. ThreadTouches(t)
    BY <2>1, <2>2, <2>3 DEF ThreadTouches, SamePeer, peers, watching, Holding, Idle
  <2>5. status'[k.fd] = AVAILAVLE
    BY <1>3, <2>1 DEF StageOK
  <2>6. task'[t].who # s
    BY <1>2, <2>2, SessionAssumption DEF Idle
  <2> QED
    BY <1>1, <1>2, <1>3, <2>1, <2>4, <2>5, <2>6, ThreadAlone DEF peers, AVAILAVLE, TRANSFER
<1> QED
  BY <1>5, <1>7, <1>8, <1>9, <1>10, <1>11, <1>12, NoCommandsTaken DEF ThreadStep

-----------------------------------------------------------------------------
(* The clients. What a client does touches nothing of another session. *)
ClientTouches(s) ==
  /\ UNCHANGED <<slots, clientFds, main, task>>
  /\ \A f \in Fd : fds'[f] # fds[f] => fds[f].who = s /\ fds'[f].who = s
                                       /\ fds[f].kind # "ctl" /\ fds'[f].kind # "ctl"
  /\ \A r \in Session : r # s => SamePeer(r)

LEMMA ClientApart ==
  ASSUME TypeOK, TypeOK', CarefulInv, NEW s \in Session, ClientTouches(s), SessionOK(s)'
  PROVE  CarefulInv' /\ \A r \in Session \ {s} : Same(r)
<1>1. \A f \in Fd : fds[f] = File => fds'[f] = File
  BY SessionAssumption DEF ClientTouches, File, Plain
<1>2. ASSUME NEW t \in Tid, task[t].pc \in Holding
      PROVE  fds'[task[t].file] = fds[task[t].file]
  BY <1>1, <1>2, ThreadKnows DEF ThreadOK, StageOK, Holding
<1>3. ASSUME NEW r \in Session, Serves(r), Listing PROVE fds'[main.file] = fds[main.file]
  <2>1. HandlerOK(r)
    BY <1>3 DEF CarefulInv, SessionOK
  <2> QED
    BY <1>1, <1>3, <2>1 DEF HandlerOK, Listing, TypeOK, ThreadsOK, MainState
<1>4. \A f \in Fd, r \in Session : fds'[f] = Ctl(r) <=> fds[f] = Ctl(r)
  BY DEF ClientTouches, Ctl
<1>5. main.fd \in Fd
  BY DEF TypeOK, ThreadsOK, MainState
<1>6. ASSUME NEW r \in Session \ {s} PROVE Same(r)
  <2>1. SameSlot(r)
    BY <1>6 DEF SameSlot, ClientTouches, slots
  <2>2. SameThread(r)
    BY <1>2 DEF SameThread, ClientTouches
  <2>3. SameHandler(r)
    BY <1>3, <1>4, <1>5 DEF SameHandler, ClientTouches, Serves
  <2> QED
    BY <1>6, <2>1, <2>2, <2>3 DEF Same, ClientTouches
<1>7. WatchedAreConnections' /\ CtlShape'
  BY ConnectionsApart DEF SameConnections, ClientTouches
<1>8. OwnersKnown'
  BY <1>4, <1>5 DEF OwnersKnown, CarefulInv, ClientTouches
<1>9. FilesApart'
  BY DEF FilesApart, CarefulInv, ClientTouches, Listing
<1> QED
  BY <1>6, <1>7, <1>8, <1>9, OneSession

(* Its own session keeps its slot, and has no thread that would mind:       *)
(* unless it only closes its end of a data connection, a client acts while  *)
(* no transfer is done for it.                                              *)
LEMMA ClientAlone ==
  ASSUME TypeOK, TypeOK', CarefulInv, NEW s \in Session, ClientTouches(s),
         ClientOK(s)', NoThread(s), Serves(s) => HandlerOK(s)', UNCHANGED loggedIn,
         \A f \in Fd : fds[f] = Ctl(s) =>
           /\ conn'[s] \in {"open", "gone"}
           /\ told'[s] # NoAddress =>
                mode[f] = PASV_MODE /\ dataFd[f] = told'[s] /\ fds'[told'[s]] = Pasv(s, "waiting")
           /\ dataReady'[s] \/ line'[s] \in TransferVerb => Ready(s, f)'
  PROVE  CarefulInv' /\ \A r \in Session \ {s} : Same(r)
<1>1. \A f \in Fd : fds'[f] = Ctl(s) <=> fds[f] = Ctl(s)
  BY DEF ClientTouches, Ctl
<1>2. ASSUME NEW f \in Fd, fds'[f] = Ctl(s) PROVE SlotOK(s, f)'
  <2>1. SlotOK(s, f) /\ fds[f] = Ctl(s)
    BY <1>1, <1>2 DEF CarefulInv, SessionOK
  <2> QED
    BY <1>1, <2>1 DEF SlotOK, ClientTouches, slots, NoThread
<1>3. NoThread(s)' /\ (Serves(s)' => HandlerOK(s)')
  BY <1>1 DEF ClientTouches, NoThread, Serves, TypeOK, ThreadsOK, MainState
<1>4. SessionOK(s)'
  BY <1>2, <1>3 DEF SessionOK, NoThread
<1> QED
  BY <1>4, ClientApart

(* When a client has no command under way, neither has the server. *)
LEMMA NothingUnderWay ==
  ASSUME TypeOK, CarefulInv, NEW s \in Session,
         conn[s] # "open" \/ owed[s] # 1 \/ line[s] # "none" \/ ~ NoOffer(s)
  PROVE  /\ Serves(s) => /\ conn[s] = "open" /\ owed[s] = 1 /\ line[s] = "none"
                         /\ main.cmd = last[s] /\ main.cmd \notin Using
         /\ ~ NoThread(s) => conn[s] = "open" /\ line[s] = "none" /\ NoOffer(s)
<1>1. SessionOK(s)
  BY DEF CarefulInv
<1>2. Serves(s) => HandlerOK(s)
  BY <1>1 DEF SessionOK
<1>3. ~ NoThread(s) => \E t \in Tid : ThreadOK(s, t)
  BY <1>1 DEF SessionOK, NoThread
<1> QED
  BY <1>2, <1>3 DEF HandlerOK, ThreadOK

(* The steps of careful clients keep the invariant. *)
LEMMA ClientCareful ==
  ASSUME Careful = Session, TypeOK, TypeOK', ServingInv, CarefulInv,
         NEW s \in Session, ClientStep(s)
  PROVE  CarefulInv' /\ \A r \in Session \ {s} : Same(r)
<1>1. SessionOK(s) /\ ClientOK(s) /\ s \in Patient
  BY SessionAssumption DEF CarefulInv, SessionOK
<1>2. CASE Connect(s)
  <2>1. conn[s] = "new" /\ conn'[s] = "queued" /\ owed'[s] = 1
        /\ UNCHANGED <<slots, watching, main, task, fds, line, told, dataReady, last, loggedIn>>
        /\ \A r \in Session : r # s => conn'[r] = conn[r] /\ owed'[r] = owed[r]
    BY <1>1, <1>2 DEF Connect, TypeOK, PeersOK
  <2>2. ClientTouches(s)
    BY <2>1 DEF ClientTouches, SamePeer, watching
  <2>3. NoThread(s) /\ ~ Serves(s) /\ \A f \in Fd : fds[f] # Ctl(s)
    <3>1. \A f \in Fd : fds[f] = Ctl(s) => SlotOK(s, f)
      BY <1>1 DEF SessionOK
    <3>2. \A f \in Fd : fds[f] # Ctl(s)
      BY <2>1, <3>1 DEF SlotOK
    <3>3. NoThread(s)
      BY <2>1, NothingUnderWay
    <3> QED
      BY <3>2, <3>3 DEF Serves, TypeOK, ThreadsOK, MainState
  <2>4. ClientOK(s)'
    BY <1>1, <2>1 DEF ClientOK, NoOffer, Using, Addressing, TransferVerb
  <2> QED
    BY <2>1, <2>2, <2>3, <2>4, ClientAlone
<1>3. ASSUME NEW c \in Commands, Send(s, c)
      PROVE  CarefulInv' /\ \A r \in Session \ {s} : Same(r)
  <2>1. /\ conn[s] = "open" /\ line[s] = "none" /\ owed[s] <= 0 /\ last[s] # "QUIT"
        /\ c \in TransferVerb => dataReady[s]
        /\ NoThread(s)
        /\ c \in Addressing => NoOffer(s)
    BY <1>1, <1>3 DEF Send, MaySend, NoThread, Transfers, TransferVerb, Addressing, NoOffer,
                      TypeOK, PeersOK
  <2>2. owed[s] = 0 /\ c # "none"
    BY <1>1, <2>1, InputAssumption DEF ClientOK, Verb
  <2>3. /\ line'[s] = c /\ owed'[s] = 1 /\ last'[s] = c
        /\ dataReady'[s] = (dataReady[s] /\ c \notin TransferVerb)
        /\ UNCHANGED <<slots, watching, main, task, fds, conn, told, loggedIn>>
        /\ \A r \in Session : r # s => /\ line'[r] = line[r] /\ owed'[r] = owed[r]
                                       /\ last'[r] = last[r] /\ dataReady'[r] = dataReady[r]
    BY <1>1, <1>3, <2>2 DEF Send, TypeOK, PeersOK, Transfers, TransferVerb
  <2>4. ClientTouches(s)
    BY <2>3 DEF ClientTouches, SamePeer, watching
  <2>5. ~ Serves(s)
    BY <2>2, NothingUnderWay
  <2>6. NoOffer(s) => NoOffer(s)'
    BY <2>3 DEF NoOffer
  <2>7. c \in TransferVerb => NoOffer(s)'
    BY <1>1, <2>1, <2>3 DEF NoOffer, ClientOK
  <2>8. ClientOK(s)'
    BY <1>1, <2>1, <2>2, <2>3, <2>6, <2>7 DEF ClientOK, Using, Addressing
  <2>9. \A f \in Fd : fds[f] = Ctl(s) => SlotOK(s, f)
    BY <1>1 DEF SessionOK
  <2>10. \A f \in Fd : Ready(s, f)' <=> Ready(s, f)
    BY <2>3 DEF Ready, slots
  <2> QED
    BY <2>1, <2>3, <2>4, <2>5, <2>8, <2>9, <2>10, ClientAlone DEF SlotOK
<1>4. CASE DataConnect(s)
  <2> DEFINE g == told[s]
  <2>1. /\ conn[s] = "open" /\ fds[g] = Pasv(s, "waiting")
        /\ fds' = [fds EXCEPT ![g] = Pasv(s, "pending")]
        /\ told'[s] = NoAddress /\ dataReady'[s] = TRUE
        /\ UNCHANGED <<slots, watching, main, task, conn, line, owed, last, loggedIn>>
        /\ \A r \in Session : r # s => told'[r] = told[r] /\ dataReady'[r] = dataReady[r]
    BY <1>1, <1>4 DEF DataConnect, TypeOK, PeersOK
  <2>2. g \in Fd /\ g # NoAddress
    BY <2>1 DEF TypeOK, PeersOK, ServingInv, ListenerOpen, NoAddress, Pasv, Plain
  <2>3. fds'[g] = Pasv(s, "pending") /\ \A f \in Fd : f # g => fds'[f] = fds[f]
    BY <2>1, <2>2 DEF TypeOK, FdsOK
  <2>4. ClientTouches(s)
    BY <2>1, <2>3 DEF ClientTouches, SamePeer, watching, Pasv
  <2>5. ~ NoOffer(s)
    BY <2>2 DEF NoOffer
  <2>6. NoThread(s)
    BY <2>5, NothingUnderWay
  <2>7. ASSUME Serves(s) PROVE HandlerOK(s)'
    <3>1. HandlerOK(s)
      BY <1>1, <2>7 DEF SessionOK
    <3>2. main.cmd \notin Using
      BY <2>5, <2>7, NothingUnderWay
    <3>3. main.pc = "handle"
      BY <2>7, <3>1, <3>2 DEF HandlerOK, Serves, Handling, Using, Addressing
    <3> QED
      BY <2>1, <3>1, <3>2, <3>3 DEF HandlerOK, Using, slots
  <2>8. ClientOK(s)'
    BY <1>1, <2>1, <2>5 DEF ClientOK, NoOffer
  <2>9. \A f \in Fd : fds[f] = Ctl(s) => Ready(s, f)'
    <3>1. \A f \in Fd : fds[f] = Ctl(s) => mode[f] = PASV_MODE /\ dataFd[f] = g
      BY <1>1, <2>2 DEF SessionOK, SlotOK
    <3> QED
      BY <2>1, <2>3, <3>1 DEF Ready, slots
  <2> QED
    BY <2>1, <2>4, <2>6, <2>7, <2>8, <2>9, ClientAlone
<1>5. CASE DataClose(s)
  <2>1. PICK g \in Fd : fds[g] = Data(s, "open") /\ fds' = [fds EXCEPT ![g] = Data(s, "closed")]
    BY <1>5 DEF DataClose
  <2>2. UNCHANGED <<slots, watching, main, task, peers>>
    BY <1>5 DEF DataClose
  <2>3. fds'[g] = Data(s, "closed") /\ \A f \in Fd : f # g => fds'[f] = fds[f]
    BY <2>1 DEF TypeOK, FdsOK
  <2>4. ClientTouches(s)
    BY <2>1, <2>2, <2>3 DEF ClientTouches, SamePeer, watching, peers, Data
  <2>5. \A f \in Fd : /\ fds[f].kind # "data" => fds'[f] = fds[f]
                      /\ fds[f] \in DataOf(s) => fds'[f] \in DataOf(s)
                      /\ fds'[f] = Ctl(s) <=> fds[f] = Ctl(s)
    BY <2>1, <2>3 DEF DataOf, Data, Ctl
  <2>6. ClientOK(s)'
    BY <1>1, <2>2 DEF ClientOK, NoOffer, peers
  <2>7. ASSUME NEW f \in Fd, fds'[f] = Ctl(s) PROVE SlotOK(s, f)'
    <3>1. SlotOK(s, f)
      BY <1>1, <2>5, <2>7 DEF SessionOK
    <3>2. told[s] \in Fd /\ dataFd[f] \in Fd
      BY DEF TypeOK, PeersOK, SlotsOK
    <3>3. Ready(s, f) => Ready(s, f)'
      BY <2>2, <2>5, <3>2 DEF Ready, Pasv, slots
    <3>4. fds[told[s]] = Pasv(s, "waiting") => fds'[told[s]] = Pasv(s, "waiting")
      BY <2>5, <3>2 DEF Pasv
    <3> QED
      BY <2>2, <2>5, <3>1, <3>3, <3>4 DEF SlotOK, slots, peers, NoThread
  <2>8. \A f \in Fd : fds[f] = File => fds'[f] = File
    BY <2>5 DEF File, Plain
  <2>9. Serves(s)' <=> Serves(s)
    BY <2>2, <2>5 DEF Serves, TypeOK, ThreadsOK, MainState
  <2>10. ASSUME NEW t \in Tid, task'[t].who = s PROVE ThreadOK(s, t)'
    <3>1. ThreadOK(s, t) /\ task[t].fd \in Fd /\ task[t].file \in Fd /\ dataFd[task[t].fd] \in Fd
      BY <1>1, <2>2, <2>10 DEF SessionOK, TypeOK, ThreadsOK, Task, SlotsOK
    <3>2. StageOK(s, task[t])'
      BY <2>2, <2>5, <2>8, <3>1 DEF ThreadOK, StageOK, slots, peers
    <3> QED
      BY <2>2, <2>5, <2>9, <3>1, <3>2 DEF ThreadOK, NoOffer, peers
  <2>11. ASSUME Serves(s)' PROVE HandlerOK(s)'
    <3>1. HandlerOK(s)
      BY <1>1, <2>9, <2>11 DEF SessionOK
    <3>2. main.fd \in Fd /\ main.sock \in Fd /\ main.file \in Fd /\ dataFd[main.fd] \in Fd
      BY DEF TypeOK, ThreadsOK, MainState, SlotsOK
    <3>3. Ready(s, main.fd) => Ready(s, main.fd)'
      BY <2>2, <2>5, <3>2 DEF Ready, Pasv, slots
    <3>4. /\ fds[dataFd[main.fd]] = Sock(s) => fds'[dataFd[main.fd]] = Sock(s)
          /\ fds[dataFd[main.fd]] = Pasv(s, "none") => fds'[dataFd[main.fd]] = Pasv(s, "none")
      BY <2>5, <3>2 DEF Sock, Pasv
    <3> QED
      BY <2>2, <2>5, <2>8, <3>1, <3>2, <3>3, <3>4 DEF HandlerOK, NoOffer, slots, peers
  <2>12. SessionOK(s)'
    BY <2>6, <2>7, <2>10, <2>11 DEF SessionOK
  <2> QED
    BY <2>4, <2>12, ClientApart
<1>6. CASE HangUp(s)
  <2>1. /\ conn[s] = "open" /\ conn'[s] = "gone" /\ last[s] = "QUIT" /\ owed[s] <= 0
        /\ UNCHANGED <<slots, watching, main, task, fds, line, owed, told, dataReady, last, loggedIn>>
        /\ \A r \in Session : r # s => conn'[r] = conn[r]
    BY <1>1, <1>6 DEF HangUp, TypeOK, PeersOK
  <2>2. owed[s] = 0
    BY <1>1, <2>1 DEF ClientOK
  <2>3. ClientTouches(s)
    BY <2>1 DEF ClientTouches, SamePeer, watching
  <2>4. ~ Serves(s)
    BY <2>2, NothingUnderWay
  <2>5. NoThread(s)
    BY <1>1, <2>1 DEF NoThread, SessionOK, ThreadOK
  <2>6. ClientOK(s)'
    BY <1>1, <2>1, <2>2 DEF ClientOK, NoOffer
  <2>7. NoOffer(s)' /\ line'[s] = "none"
    BY <1>1, <2>1, <2>2 DEF ClientOK, NoOffer
  <2> QED
    BY <2>1, <2>3, <2>4, <2>5, <2>6, <2>7, ClientAlone DEF NoOffer, TransferVerb
<1> QED
  BY <1>2, <1>3, <1>4, <1>5, <1>6 DEF ClientStep

-----------------------------------------------------------------------------
(* The loop. A step of the main thread that changes at most one number of   *)
(* the table, from or to an object of s or of nobody, and of the slots at   *)
(* most that number's, leaves the other sessions apart while it handles no  *)
(* command of theirs.                                                       *)
MainTouches(s, e) ==
  /\ UNCHANGED task
  /\ \A f \in Fd : f # e =>
       /\ fds'[f] = fds[f]
       /\ status'[f] = status[f] /\ mode'[f] = mode[f] /\ dataFd'[f] = dataFd[f]
  /\ fds[e] # File /\ fds[e].who \in {s, Nobody} /\ fds'[e].who \in {s, Nobody}
  /\ \A r \in Session : r # s => SamePeer(r) /\ ~ Serves(r)'

LEMMA MainApart ==
  ASSUME TypeOK, TypeOK', CarefulInv, NEW s \in Session, NEW e \in Fd, MainTouches(s, e)
  PROVE  \A r \in Session \ {s} : Same(r)
<1> SUFFICES ASSUME NEW r \in Session \ {s} PROVE Same(r)
  OBVIOUS
<1>1. r # s /\ r # Nobody
  BY SessionAssumption
<1>2. \A t \in Tid : task[t].pc \in Holding => task[t].file \in Fd /\ fds[task[t].file] = File
  BY ThreadKnows DEF ThreadOK, StageOK, Holding
<1>3. SameSlot(r)
  BY <1>1 DEF MainTouches, SameSlot, Ctl
<1>4. SameThread(r)
  BY <1>2 DEF MainTouches, SameThread
<1>5. SamePeer(r) /\ SameHandler(r)
  BY <1>1 DEF MainTouches, SameHandler
<1> QED
  BY <1>3, <1>4, <1>5 DEF Same

(* A control connection taken in by accept(). *)
LEMMA AcceptCareful ==
  ASSUME TypeOK, TypeOK', CarefulInv, Accept
  PROVE  CarefulInv' /\ \A r \in Session : conn'[r] = conn[r] => Same(r)
<1>1. PICK s \in Session, f \in Fd :
        /\ conn[s] = "queued"
        /\ IsLowestFree(f)
        /\ fds' = [fds EXCEPT ![f] = Ctl(s)]
        /\ conn' = [conn EXCEPT ![s] = "open"]
        /\ owed' = [owed EXCEPT ![s] = 0]
        /\ status' = [status EXCEPT ![f] = CONNECTED]
        /\ clientFds' = clientFds \cup {f}
  BY DEF Accept, Watch
<1>2. /\ main.pc = "scan"
      /\ UNCHANGED <<mode, dataFd, main, task, line, told, dataReady, last, loggedIn>>
  BY DEF Accept, AtEvent
<1>3. fds[f] = Free /\ fds'[f] = Ctl(s) /\ \A g \in Fd : g # f => fds'[g] = fds[g]
  BY <1>1 DEF IsLowestFree, TypeOK, FdsOK
<1>4. conn'[s] = "open" /\ owed'[s] = 0
      /\ \A r \in Session : r # s => conn'[r] = conn[r] /\ owed'[r] = owed[r]
  BY <1>1 DEF TypeOK, PeersOK
<1>5. status'[f] = CONNECTED /\ \A g \in Fd : g # f => status'[g] = status[g]
  BY <1>1 DEF TypeOK, SlotsOK
<1>6. ClientOK(s) /\ \A g \in Fd : fds[g] # Ctl(s)
  BY <1>1 DEF CarefulInv, SessionOK, SlotOK
<1>7. NoThread(s)
  BY <1>1, NothingUnderWay
<1>8. \A r \in Session : ~ Serves(r)'
  BY <1>2 DEF Serves, Handling
<1>9. MainTouches(s, f)
  BY <1>2, <1>3, <1>4, <1>5, <1>8 DEF MainTouches, SamePeer, Free, Plain, Ctl, File
<1>10. SessionOK(s)'
  <2>1. ClientOK(s)'
    BY <1>1, <1>2, <1>4, <1>6 DEF ClientOK, NoOffer
  <2>2. NoOffer(s)' /\ line'[s] = "none"
    BY <1>1, <1>2, <1>6 DEF ClientOK, NoOffer
  <2>3. \A g \in Fd : fds'[g] = Ctl(s) => g = f
    BY <1>3, <1>6
  <2>4. SlotOK(s, f)'
    BY <1>4, <1>5, <2>2, <2>3 DEF SlotOK, NoOffer, TransferVerb, CONNECTED, AVAILAVLE, TRANSFER
  <2> QED
    BY <1>2, <1>7, <1>8, <2>1, <2>3, <2>4 DEF SessionOK, NoThread
<1>11. WatchedAreConnections' /\ CtlShape'
  <2>1. fds'[f].kind = "ctl"
    BY <1>3 DEF Ctl
  <2>2. WatchedAreConnections'
    BY <1>1, <1>3, <2>1 DEF CarefulInv, WatchedAreConnections, TypeOK, WatchingOK
  <2>3. CtlShape'
    BY <1>3 DEF CarefulInv, CtlShape
  <2> QED
    BY <2>2, <2>3
<1>12. OwnersKnown' /\ FilesApart'
  BY <1>2 DEF CarefulInv, OwnersKnown, FilesApart, Listing, Handling
<1> QED
  BY <1>1, <1>4, <1>9, <1>10, <1>11, <1>12, MainApart, OneSession

(* The end of a connection: it is one that its client left after QUIT. *)
LEMMA DisconnectCareful ==
  ASSUME TypeOK, TypeOK', ServingInv, CarefulInv, NEW e \in Fd, Disconnect(e)
  PROVE  CarefulInv' /\ \A r \in Session : fds[e] # Ctl(r) => Same(r)
<1>1. e \in clientFds \ {ListenFd}
  BY DEF Disconnect, AtEvent, IsClient, ServingInv, ListenerNotHeld
<1>2. PICK s \in Session : fds[e] = Ctl(s)
  BY <1>1 DEF CarefulInv, WatchedAreConnections, CtlShape
<1>3. /\ main.pc = "scan" /\ CloseAll({e}) /\ clientFds' = clientFds \ {e}
      /\ status' = [status EXCEPT ![e] = DISCONNECTED]
      /\ mode' = [mode EXCEPT ![e] = NONE_MODE]
      /\ dataFd' = [dataFd EXCEPT ![e] = 0]
      /\ UNCHANGED <<main, task, line, owed, told, dataReady, last, loggedIn>>
  BY DEF Disconnect, AtEvent, StopWatching
<1>4. conn[s] = "gone" /\ line[s] = "none"
  BY <1>2 DEF Disconnect, ReadFails, Ctl
<1>5. fds'[e] = Free /\ \A f \in Fd : f # e => fds'[f] = fds[f]
  BY <1>3 DEF CloseAll
<1>6. \A r \in Session : conn'[r] = conn[r]
  <2>1. \A r \in Session : fds[e] = Ctl(r) => conn[r] = "gone"
    BY <1>2, <1>4 DEF Ctl
  <2> QED
    BY <1>3, <2>1 DEF CloseAll
<1>7. \A f \in Fd : f # e =>
        status'[f] = status[f] /\ mode'[f] = mode[f] /\ dataFd'[f] = dataFd[f]
  BY <1>3 DEF TypeOK, SlotsOK
<1>8. \A r \in Session : ~ Serves(r)'
  BY <1>3 DEF Serves, Handling
<1>9. MainTouches(s, e)
  BY <1>2, <1>3, <1>5, <1>6, <1>7, <1>8 DEF MainTouches, SamePeer, Free, Plain, Ctl, File
<1>10. SessionOK(s)'
  <2>1. ClientOK(s) /\ SlotOK(s, e)
    BY <1>2 DEF CarefulInv, SessionOK
  <2>2. ClientOK(s)'
    BY <1>3, <1>6, <2>1 DEF ClientOK, NoOffer
  <2>3. \A f \in Fd : fds'[f] # Ctl(s)
    BY <1>5, <2>1 DEF SlotOK, Free, Plain, Ctl
  <2>4. NoThread(s)
    BY <1>4, NothingUnderWay
  <2> QED
    BY <1>3, <1>8, <2>2, <2>3, <2>4 DEF SessionOK, NoThread
<1>11. WatchedAreConnections' /\ CtlShape'
  BY <1>3, <1>5 DEF CarefulInv, WatchedAreConnections, CtlShape, TypeOK, WatchingOK, Free, Plain
<1>12. OwnersKnown' /\ FilesApart'
  BY <1>3 DEF CarefulInv, OwnersKnown, FilesApart, Listing, Handling
<1> QED
  BY <1>2, <1>9, <1>10, <1>11, <1>12, MainApart, OneSession

(* A command read from a connection: nothing is under way for its client,   *)
(* so that the copy of the status is, and stays, the slot's.                *)
LEMMA ReadLineCareful ==
  ASSUME TypeOK, TypeOK', ServingInv, CarefulInv, NEW e \in Fd,
         ReadLine(e) \/ ReadEmptyLine(e)
  PROVE  CarefulInv' /\ \A r \in Session : fds[e] # Ctl(r) => Same(r)
<1>1. PICK s \in Session :
        /\ fds[e] = Ctl(s)
        /\ line[s] # "none"
        /\ line' = [line EXCEPT ![s] = "none"]
        /\ \/ main'.pc = "killed"
           \/ /\ main'.pc = "handle" /\ main'.fd = e /\ main'.cmd = line[s]
              /\ main'.seen = status[e]
  BY DEF ReadLine, ReadEmptyLine, TypeOK, ThreadsOK, MainState
<1>2. /\ main.pc = "scan" /\ status[e] # DISCONNECTED
      /\ UNCHANGED <<slots, clientFds, task, fds, conn, owed, told, dataReady, last, loggedIn>>
  BY DEF ReadLine, ReadEmptyLine, AtEvent, IsClient, watching
<1>3. line'[s] = "none" /\ \A r \in Session : r # s => line'[r] = line[r]
  BY <1>1 DEF TypeOK, PeersOK
<1>4. ClientOK(s) /\ SlotOK(s, e)
  BY <1>1 DEF CarefulInv, SessionOK
<1>5. conn[s] = "open" /\ owed[s] = 1 /\ line[s] = last[s]
  BY <1>1, <1>4 DEF ClientOK, SlotOK
<1>6. NoThread(s)
  BY <1>1, NothingUnderWay
<1>7. \A r \in Session : r # s => ~ Serves(r)'
  BY <1>1, <1>2 DEF Serves, Handling, Ctl
<1>8. MainTouches(s, e)
  BY <1>1, <1>2, <1>3, <1>7 DEF MainTouches, SamePeer, slots, Ctl, File, Plain
<1>9. SessionOK(s)'
  <2>1. ClientOK(s)'
    BY <1>2, <1>3, <1>4 DEF ClientOK, NoOffer, Using, Addressing, TransferVerb
  <2>2. ASSUME NEW f \in Fd, fds'[f] = Ctl(s) PROVE SlotOK(s, f)'
    <3>1. SlotOK(s, f)
      BY <1>2, <2>2 DEF CarefulInv, SessionOK
    <3> QED
      BY <1>2, <1>3, <3>1 DEF SlotOK, Ready, NoThread, slots, TransferVerb
  <2>3. ASSUME Serves(s)' PROVE HandlerOK(s)'
    <3>1. main'.pc = "handle" /\ main'.fd = e /\ main'.cmd = line[s] /\ main'.seen = status[e]
      BY <1>1, <2>3 DEF Serves, Handling
    <3>2. main'.cmd \in Using => NoOffer(s)'
      BY <1>2, <1>4, <3>1 DEF ClientOK, NoOffer
    <3>3. main'.seen \in {CONNECTED, PASSWORD, AVAILAVLE}
      BY <1>2, <1>4, <1>6, <3>1 DEF SlotOK, TypeOK, SlotsOK, Status
    <3>4. main'.cmd \in TransferVerb => Ready(s, e)'
      BY <1>2, <1>4, <3>1 DEF SlotOK, Ready, slots
    <3> QED
      BY <1>2, <1>3, <1>5, <3>1, <3>2, <3>3, <3>4 DEF HandlerOK, slots
  <2> QED
    BY <1>2, <1>6, <2>1, <2>2, <2>3 DEF SessionOK, NoThread
<1>10. WatchedAreConnections' /\ CtlShape'
  BY <1>2, ConnectionsApart DEF SameConnections
<1>11. OwnersKnown' /\ FilesApart'
  BY <1>1, <1>2 DEF CarefulInv, OwnersKnown, FilesApart, Listing, Handling
<1> QED
  BY <1>1, <1>8, <1>9, <1>10, <1>11, MainApart, OneSession

(* The steps of control_init's loop keep the invariant. *)
LEMMA LoopCareful ==
  ASSUME Careful = Session, TypeOK, TypeOK', ServingInv, CarefulInv, LoopNext
  PROVE  CarefulInv'
<1>1. ASSUME SelectFails \/ Select \/ EndPass \/ AcceptFails PROVE CarefulInv'
  <2>1. UNCHANGED <<slots, clientFds, task, fds, peers>>
    BY <1>1 DEF SelectFails, Select, EndPass, AcceptFails, watching
  <2>2. main'.pc \in {"exited", "scan", "select"}
    BY <1>1 DEF SelectFails, Select, EndPass, AcceptFails, TypeOK, ThreadsOK, MainState
  <2> QED
    BY <2>1, <2>2, NoSession DEF Handling
<1> QED
  BY <1>1, AllGreeted, AcceptCareful, DisconnectCareful, ReadLineCareful DEF LoopNext

-----------------------------------------------------------------------------
(* The handlers. What is known while a command of s is handled. *)
LEMMA HandlerKnows ==
  ASSUME TypeOK, CarefulInv, main.pc \in Handling
  PROVE  \E s \in Session :
           /\ fds[main.fd] = Ctl(s) /\ Owner = s /\ Serves(s)
           /\ HandlerOK(s) /\ ClientOK(s) /\ SlotOK(s, main.fd) /\ NoThread(s)
           /\ main.fd \in Fd /\ main.sock \in Fd /\ main.file \in Fd /\ dataFd[main.fd] \in Fd
<1>1. main.fd \in Fd /\ main.sock \in Fd /\ main.file \in Fd /\ dataFd[main.fd] \in Fd
  BY DEF TypeOK, ThreadsOK, MainState, SlotsOK
<1>2. PICK s \in Session : fds[main.fd] = Ctl(s)
  BY DEF CarefulInv, OwnersKnown
<1>3. Serves(s) /\ Owner = s
  BY <1>2 DEF Serves, Owner, Ctl
<1>4. SessionOK(s)
  BY DEF CarefulInv
<1>5. HandlerOK(s) /\ ClientOK(s) /\ SlotOK(s, main.fd)
  BY <1>1, <1>2, <1>3, <1>4 DEF SessionOK
<1>6. NoThread(s)
  BY <1>3, <1>4 DEF NoThread, SessionOK, ThreadOK
<1> QED
  BY <1>1, <1>2, <1>3, <1>5, <1>6

(* What a handler of a command of s may touch: the slot it serves, free     *)
(* numbers, the objects of s, and the directory it lists. It may start a    *)
(* thread for s.                                                            *)
HandlerTouches(s) ==
  /\ UNCHANGED clientFds
  /\ \A t \in Tid : task'[t] # task[t] =>
       task[t].who = Nobody /\ task'[t].who = s /\ task'[t].pc # "idle"
  /\ \A f \in Fd : f # main.fd =>
       status'[f] = status[f] /\ mode'[f] = mode[f] /\ dataFd'[f] = dataFd[f]
  /\ \A f \in Fd : fds'[f] # fds[f] =>
       /\ fds[f].kind # "ctl" /\ fds[f].who \in {s, Nobody}
       /\ fds'[f].kind # "ctl" /\ fds'[f].who \in {s, Nobody}
       /\ fds[f] = File => Listing /\ f = main.file
  /\ \A r \in Session : r # s => SamePeer(r)
  /\ conn'[s] = conn[s] /\ line'[s] = line[s] /\ last'[s] = last[s]
  /\ main'.pc \notin Handling \/ main'.fd = main.fd

(* The other sessions are apart. *)
HandlerKeeps == \A r \in Session : fds[main.fd] # Ctl(r) => Same(r)

LEMMA HandlerApart ==
  ASSUME TypeOK, TypeOK', CarefulInv, NEW s \in Session, Serves(s), HandlerTouches(s)
  PROVE  /\ HandlerKeeps
         /\ \A r \in Session \ {s} : Same(r)
         /\ WatchedAreConnections' /\ CtlShape' /\ OwnersKnown'
         /\ \A f \in Fd, r \in Session : fds'[f] = Ctl(r) <=> fds[f] = Ctl(r)
<1>1. \A f \in Fd, r \in Session : fds'[f] = Ctl(r) <=> fds[f] = Ctl(r)
  BY DEF HandlerTouches, Ctl
<1>2. main.fd \in Fd /\ fds[main.fd] = Ctl(s)
  BY DEF Serves, TypeOK, ThreadsOK, MainState
<1>3. \A t \in Tid : task[t].pc \in Holding => fds'[task[t].file] = fds[task[t].file]
  <2> SUFFICES ASSUME NEW t \in Tid, task[t].pc \in Holding
               PROVE  fds'[task[t].file] = fds[task[t].file]
    OBVIOUS
  <2>1. task[t].file \in Fd /\ fds[task[t].file] = File
    BY ThreadKnows DEF ThreadOK, StageOK, Holding
  <2>2. Listing => task[t].file # main.file
    BY DEF CarefulInv, FilesApart
  <2> QED
    BY <2>1, <2>2 DEF HandlerTouches
<1>4. ASSUME NEW r \in Session \ {s} PROVE Same(r)
  <2>1. r # s /\ r # Nobody
    BY SessionAssumption
  <2>2. \A f \in Fd : fds[f] = Ctl(r) => f # main.fd
    BY <1>2, <2>1 DEF Ctl
  <2>3. SameSlot(r)
    BY <2>1, <2>2 DEF SameSlot, HandlerTouches
  <2>4. SameThread(r)
    BY <1>3, <2>1 DEF SameThread, HandlerTouches
  <2>5. ~ Serves(r)'
    BY <1>1, <1>2, <2>1, <2>2 DEF Serves, HandlerTouches
  <2>6. SamePeer(r) /\ SameHandler(r)
    BY <2>1, <2>5 DEF SameHandler, HandlerTouches
  <2> QED
    BY <2>3, <2>4, <2>6 DEF Same
<1>5. SameConnections
  BY DEF SameConnections, HandlerTouches
<1>6. OwnersKnown'
  <2>1. \A t \in Tid : task'[t].pc = "idle" <=> task'[t].who = Nobody
    BY SessionAssumption DEF CarefulInv, OwnersKnown, HandlerTouches
  <2> QED
    BY <1>1, <1>2, <2>1 DEF OwnersKnown, HandlerTouches
<1> QED
  BY <1>1, <1>2, <1>4, <1>5, <1>6, ConnectionsApart DEF HandlerKeeps

(* Its own session goes on: the slot stays right, and either the handler    *)
(* goes on or it has ended.                                                 *)
LEMMA HandlerAlone ==
  ASSUME TypeOK, TypeOK', CarefulInv, NEW s \in Session, Serves(s), HandlerTouches(s),
         NEW e \in Fd, e = main.fd, ClientOK(s)', UNCHANGED task, FilesApart',
         status'[e] \in {CONNECTED, PASSWORD, AVAILAVLE},
         status'[e] = AVAILAVLE => loggedIn'[s],
         told'[s] # NoAddress => /\ mode'[e] = PASV_MODE
                                 /\ dataFd'[e] = told'[s]
                                 /\ fds'[told'[s]] = Pasv(s, "waiting"),
         dataReady'[s] => Ready(s, e)',
         main'.pc \in Handling => HandlerOK(s)'
  PROVE  CarefulInv' /\ HandlerKeeps
<1>1. \A f \in Fd : fds'[f] = Ctl(s) <=> fds[f] = Ctl(s)
  BY HandlerApart
<1>2. /\ main.pc \in Handling
      /\ fds[main.fd] = Ctl(s) /\ main.fd \in Fd /\ SlotOK(s, main.fd) /\ HandlerOK(s)
  BY DEF Serves, CarefulInv, SessionOK, TypeOK, ThreadsOK, MainState
<1>3. NoThread(s)
  BY DEF NoThread, CarefulInv, SessionOK, ThreadOK
<1>4. ASSUME NEW f \in Fd, fds'[f] = Ctl(s) PROVE SlotOK(s, f)'
  <2>1. f = e
    BY <1>1, <1>2, <1>4 DEF SlotOK
  <2>2. line'[s] = "none"
    BY <1>2 DEF HandlerOK, HandlerTouches
  <2>3. conn'[s] \in {"open", "gone"} /\ \A g \in Fd : fds'[g] = Ctl(s) => g = e
    BY <1>1, <1>2 DEF SlotOK, HandlerTouches
  <2> QED
    BY <2>1, <2>2, <2>3 DEF SlotOK, TransferVerb, CONNECTED, PASSWORD, AVAILAVLE, TRANSFER
<1>5. SessionOK(s)'
  BY <1>3, <1>4 DEF SessionOK, NoThread, Serves
<1> QED
  BY <1>5, HandlerApart, OneSession

(* A reply, or none, at the end of a handler. *)
LEMMA HandlerReplies ==
  ASSUME Careful = Session, CarefulInv, NEW s \in Session, Serves(s),
         Answer \/ Silent, TypeOK
  PROVE  /\ main' = Scanning /\ main'.pc = "scan"
         /\ owed'[s] \in {0, 1} /\ (Answer => owed'[s] = 0)
         /\ \A r \in Session : r # s => owed'[r] = owed[r]
<1>1. HandlerOK(s) /\ fds[main.fd] = Ctl(s) /\ s \in Patient
  BY SessionAssumption DEF CarefulInv, SessionOK, Serves
<1>2. Answer => owed'[s] = 0 /\ \A r \in Session : r # s => owed'[r] = owed[r]
  BY <1>1 DEF Answer, Reply, HandlerOK, Ctl
<1>3. Silent => owed'[s] = 1 /\ \A r \in Session : r # s => owed'[r] = owed[r]
  BY <1>1 DEF Silent, HandlerOK
<1> QED
  BY <1>2, <1>3 DEF Answer, Silent, Scanning

(* A handler that ends, and leaves behind at most a descriptor it opened. *)
LEMMA HandlerGivesUp ==
  ASSUME Careful = Session, TypeOK, TypeOK', CarefulInv, main.pc \in Handling,
         Answer \/ Silent,
         UNCHANGED <<slots, clientFds, task, conn, line, told, dataReady, last, loggedIn>>,
         \/ UNCHANGED fds
         \/ \E f \in Fd, x \in {Sock(Owner), File} :
              IsLowestFree(f) /\ fds' = [fds EXCEPT ![f] = x]
  PROVE  CarefulInv' /\ HandlerKeeps
<1>1. PICK s \in Session :
        /\ fds[main.fd] = Ctl(s) /\ Owner = s /\ Serves(s)
        /\ HandlerOK(s) /\ ClientOK(s) /\ SlotOK(s, main.fd) /\ NoThread(s)
        /\ main.fd \in Fd
  BY HandlerKnows
<1>2. PICK e \in Fd : e = main.fd
  BY <1>1
<1>3. /\ main'.pc = "scan" /\ owed'[s] \in {0, 1}
      /\ \A r \in Session : r # s => owed'[r] = owed[r]
  BY <1>1, HandlerReplies
<1>4. \A f \in Fd : fds'[f] # fds[f] => /\ fds[f] = Free
                                        /\ fds'[f] \in {Sock(s), File}
  BY <1>1 DEF IsLowestFree, TypeOK, FdsOK
<1>5. HandlerTouches(s)
  BY <1>3, <1>4 DEF HandlerTouches, SamePeer, slots, Handling, Free, File, Plain, Sock
<1>6. ClientOK(s)'
  BY <1>1, <1>3 DEF ClientOK, NoOffer, HandlerOK
<1>7. FilesApart'
  BY <1>3 DEF CarefulInv, FilesApart, Listing
<1>8. told[s] \in Fd /\ dataFd[e] \in Fd
  BY DEF TypeOK, PeersOK, SlotsOK
<1>9. \A f \in Fd, p \in {"waiting", "pending"} : fds[f] = Pasv(s, p) => fds'[f] = Pasv(s, p)
  BY <1>4 DEF Pasv, Free, Plain
<1>10. Ready(s, e) => Ready(s, e)'
  BY <1>8, <1>9 DEF Ready, slots
<1>11. status'[e] \in {CONNECTED, PASSWORD, AVAILAVLE} /\ (status'[e] = AVAILAVLE => loggedIn'[s])
  BY <1>1, <1>2 DEF HandlerOK, SlotOK, slots
<1>12. told'[s] # NoAddress => /\ mode'[e] = PASV_MODE /\ dataFd'[e] = told'[s]
                               /\ fds'[told'[s]] = Pasv(s, "waiting")
  BY <1>1, <1>2, <1>8, <1>9 DEF SlotOK, slots
<1>13. dataReady'[s] => Ready(s, e)'
  BY <1>1, <1>2, <1>10 DEF SlotOK
<1>14. main'.pc \notin Handling
  BY <1>3 DEF Handling
<1> QED
  BY <1>1, <1>2, <1>5, <1>6, <1>7, <1>11, <1>12, <1>13, <1>14, HandlerAlone

(* The commands that change the slot or what the client knows, and end. *)
LEMMA LoginCareful ==
  ASSUME Careful = Session, TypeOK, TypeOK', CarefulInv, User \/ Pass \/ Port
  PROVE  CarefulInv' /\ HandlerKeeps
<1>1. /\ main.pc = "handle" /\ main.cmd \in {"USER", "PASS", "PORT"} /\ Answer
      /\ UNCHANGED <<dataFd, watching, task, fds, conn, line, last>>
  BY DEF User, Pass, Port, Serving
<1>2. PICK s \in Session :
        /\ fds[main.fd] = Ctl(s) /\ Owner = s /\ Serves(s)
        /\ HandlerOK(s) /\ ClientOK(s) /\ SlotOK(s, main.fd) /\ NoThread(s)
        /\ main.fd \in Fd
  BY <1>1, HandlerKnows DEF Handling
<1>3. PICK e \in Fd : e = main.fd
  BY <1>2
<1>4. /\ main'.pc = "scan" /\ owed'[s] = 0
      /\ \A r \in Session : r # s => owed'[r] = owed[r]
  BY <1>1, <1>2, HandlerReplies
<1>5. \A r \in Session : fds[main.fd] = Ctl(r) <=> r = s
  BY <1>2 DEF Ctl
<1>6. FilesApart' /\ main'.pc \notin Handling
  BY <1>1, <1>4 DEF CarefulInv, FilesApart, Listing, Handling
<1>7. CASE User \/ Pass
  <2>1. /\ \A f \in Fd : f # e => status'[f] = status[f]
        /\ status'[e] \in {PASSWORD, AVAILAVLE}
        /\ status'[e] = AVAILAVLE => loggedIn'[s]
        /\ \A r \in Session : r # s => loggedIn'[r] = loggedIn[r]
        /\ UNCHANGED <<mode, told, dataReady>>
    <3>1. CASE User
      BY <1>3, <3>1 DEF User, TypeOK, SlotsOK, PASSWORD, AVAILAVLE
    <3>2. CASE Pass
      <4>1. loggedIn'[s] /\ \A r \in Session : r # s => loggedIn'[r] = loggedIn[r]
        BY <1>5, <3>2 DEF Pass, TypeOK, PeersOK
      <4> QED
        BY <1>3, <3>2, <4>1 DEF Pass, TypeOK, SlotsOK
    <3> QED
      BY <1>7, <3>1, <3>2
  <2>2. HandlerTouches(s)
    BY <1>1, <1>3, <1>4, <1>6, <2>1 DEF HandlerTouches, SamePeer, watching
  <2>3. ClientOK(s)'
    BY <1>1, <1>2, <1>4, <2>1 DEF ClientOK, NoOffer, HandlerOK
  <2>4. told'[s] # NoAddress => /\ mode'[e] = PASV_MODE /\ dataFd'[e] = told'[s]
                                /\ fds'[told'[s]] = Pasv(s, "waiting")
    BY <1>1, <1>2, <1>3, <2>1 DEF SlotOK
  <2>5. dataReady'[s] => Ready(s, e)'
    BY <1>1, <1>2, <1>3, <2>1 DEF SlotOK, Ready
  <2> QED
    BY <1>1, <1>2, <1>3, <1>6, <2>1, <2>2, <2>3, <2>4, <2>5, HandlerAlone
<1>8. CASE Port
  <2>1. /\ \A f \in Fd : f # e => mode'[f] = mode[f]
        /\ mode'[e] = PORT_MODE
        /\ told'[s] = NoAddress /\ dataReady'[s] \in BOOLEAN
        /\ \A r \in Session : r # s => told'[r] = told[r] /\ dataReady'[r] = dataReady[r]
        /\ UNCHANGED <<status, loggedIn>>
    BY <1>3, <1>5, <1>8 DEF Port, Tell, TypeOK, SlotsOK, PeersOK
  <2>2. HandlerTouches(s)
    BY <1>1, <1>3, <1>4, <1>6, <2>1 DEF HandlerTouches, SamePeer, watching
  <2>3. main.cmd = "PORT" /\ main.seen = AVAILAVLE
    BY <1>8 DEF Port, Serving
  <2>4. ClientOK(s)'
    BY <1>1, <1>2, <1>4, <2>1, <2>3 DEF ClientOK, NoOffer, HandlerOK, Using, Addressing, TransferVerb
  <2>5. status'[e] = AVAILAVLE /\ loggedIn'[s]
    BY <1>2, <1>3, <2>1, <2>3 DEF HandlerOK, SlotOK
  <2>6. Ready(s, e)'
    BY <2>1 DEF Ready
  <2> QED
    BY <1>1, <1>2, <1>3, <1>6, <2>1, <2>2, <2>4, <2>5, <2>6, HandlerAlone
<1> QED
  BY <1>7, <1>8

(* PASV: socket() and bind(), then listen() and the reply that names the    *)
(* listener.                                                                *)
LEMMA PassiveCareful ==
  ASSUME Careful = Session, TypeOK, TypeOK', CarefulInv, PasvOpen \/ PasvListen
  PROVE  CarefulInv' /\ HandlerKeeps
<1>1. PICK s \in Session :
        /\ fds[main.fd] = Ctl(s) /\ Owner = s /\ Serves(s)
        /\ HandlerOK(s) /\ ClientOK(s) /\ SlotOK(s, main.fd) /\ NoThread(s)
        /\ main.fd \in Fd /\ dataFd[main.fd] \in Fd
  BY HandlerKnows DEF PasvOpen, PasvListen, Serving, Handling
<1>2. PICK e \in Fd : e = main.fd
  BY <1>1
<1>3. \A r \in Session : fds[main.fd] = Ctl(r) <=> r = s
  BY <1>1 DEF Ctl
<1>4. CASE PasvOpen
  <2>1. PICK f \in Fd :
          /\ IsLowestFree(f)
          /\ fds' = [fds EXCEPT ![f] = Sock(s)]
          /\ dataFd' = [dataFd EXCEPT ![main.fd] = f]
          /\ main' = [main EXCEPT !.pc = "listen", !.sock = f]
    BY <1>1, <1>4 DEF PasvOpen
  <2>2. /\ main.pc = "handle" /\ main.cmd = "PASV" /\ main.seen = AVAILAVLE
        /\ UNCHANGED <<status, mode, watching, task, peers>>
    BY <1>4 DEF PasvOpen, Serving
  <2>3. /\ fds[f] = Free /\ fds'[f] = Sock(s) /\ \A g \in Fd : g # f => fds'[g] = fds[g]
        /\ dataFd'[e] = f /\ \A g \in Fd : g # e => dataFd'[g] = dataFd[g]
    BY <1>2, <2>1 DEF IsLowestFree, TypeOK, FdsOK, SlotsOK
  <2>4. /\ main'.pc = "listen" /\ main'.fd = e /\ main'.sock = f
        /\ main'.cmd = "PASV" /\ main'.seen = AVAILAVLE
    BY <1>2, <2>1, <2>2 DEF TypeOK, ThreadsOK, MainState
  <2>5. HandlerTouches(s)
    BY <1>2, <2>2, <2>3, <2>4 DEF HandlerTouches, SamePeer, peers, watching, Free, File, Plain, Sock
  <2>6. ClientOK(s)'
    BY <1>1, <2>2 DEF ClientOK, NoOffer, peers
  <2>7. NoOffer(s) /\ NoOffer(s)'
    BY <1>1, <2>2 DEF HandlerOK, NoOffer, Using, Addressing, peers
  <2>8. FilesApart'
    BY <2>2, <2>4 DEF CarefulInv, FilesApart, Listing
  <2>9. HandlerOK(s)'
    BY <1>1, <1>2, <2>2, <2>3, <2>4, <2>7 DEF HandlerOK, peers, TransferVerb
  <2>10. status'[e] = AVAILAVLE /\ loggedIn'[s]
    BY <1>1, <1>2, <2>2 DEF HandlerOK, SlotOK, peers
  <2> QED
    BY <1>1, <1>2, <2>2, <2>5, <2>6, <2>7, <2>8, <2>9, <2>10, HandlerAlone DEF NoOffer
<1>5. CASE PasvListen
  <2> DEFINE g == dataFd[main.fd]
  <2>1. /\ main.pc = "listen" /\ Answer
        /\ fds' = [fds EXCEPT ![g] = Listening(g)]
        /\ mode' = [mode EXCEPT ![main.fd] = PASV_MODE]
        /\ Tell(g, FALSE)
        /\ UNCHANGED <<status, dataFd, watching, task, conn, line, last, loggedIn>>
    BY <1>5 DEF PasvListen
  <2>2. main.cmd = "PASV" /\ fds[g] = Sock(s) /\ main.seen = AVAILAVLE
    BY <1>1, <2>1 DEF HandlerOK
  <2>3. /\ fds'[g] = Pasv(s, "waiting") /\ \A f \in Fd : f # g => fds'[f] = fds[f]
        /\ mode'[e] = PASV_MODE /\ \A f \in Fd : f # e => mode'[f] = mode[f]
    BY <1>1, <1>2, <2>1, <2>2 DEF TypeOK, FdsOK, SlotsOK, Listening, Sock
  <2>4. /\ told'[s] = g /\ dataReady'[s] = FALSE
        /\ \A r \in Session : r # s => told'[r] = told[r] /\ dataReady'[r] = dataReady[r]
    BY <1>3, <2>1 DEF Tell, TypeOK, PeersOK
  <2>5. /\ main'.pc = "scan" /\ owed'[s] = 0
        /\ \A r \in Session : r # s => owed'[r] = owed[r]
    BY <1>1, <2>1, HandlerReplies
  <2>6. HandlerTouches(s)
    BY <1>2, <2>1, <2>2, <2>3, <2>4, <2>5 DEF HandlerTouches, SamePeer, watching, Handling,
                                              File, Plain, Sock, Pasv
  <2>7. ClientOK(s)'
    BY <1>1, <2>1, <2>2, <2>4, <2>5 DEF ClientOK, HandlerOK, Using, Addressing, TransferVerb
  <2>8. FilesApart' /\ main'.pc \notin Handling
    BY <2>1, <2>5 DEF CarefulInv, FilesApart, Listing, Handling
  <2>9. status'[e] = AVAILAVLE /\ loggedIn'[s]
    BY <1>1, <1>2, <2>1, <2>2 DEF HandlerOK, SlotOK
  <2>10. dataFd'[e] = told'[s] /\ fds'[told'[s]] = Pasv(s, "waiting")
    BY <1>2, <2>1, <2>3, <2>4
  <2> QED
    BY <1>1, <1>2, <2>1, <2>3, <2>4, <2>6, <2>7, <2>8, <2>9, <2>10, HandlerAlone
<1> QED
  BY <1>4, <1>5

(* The start of a transfer, and the directory that LIST opens for it. *)
LEMMA StartCareful ==
  ASSUME Careful = Session, TypeOK, TypeOK', CarefulInv, StartTransfer \/ OpenDirectory
  PROVE  CarefulInv' /\ HandlerKeeps
<1>1. PICK s \in Session :
        /\ fds[main.fd] = Ctl(s) /\ Owner = s /\ Serves(s)
        /\ HandlerOK(s) /\ ClientOK(s) /\ SlotOK(s, main.fd) /\ NoThread(s)
        /\ main.fd \in Fd /\ dataFd[main.fd] \in Fd
  BY HandlerKnows DEF StartTransfer, OpenDirectory, Serving, Handling
<1>2. PICK e \in Fd : e = main.fd
  BY <1>1
<1>3. /\ main.pc = "handle" /\ main.seen = AVAILAVLE /\ main.cmd \in TransferVerb
      /\ UNCHANGED <<slots, watching, task, peers>>
  BY DEF StartTransfer, OpenDirectory, Serving, TransferVerb
<1>4. /\ main'.pc = "data" /\ main'.fd = e /\ main'.cmd = main.cmd /\ main'.seen = AVAILAVLE
      /\ \A f \in Fd : fds'[f] # fds[f] => fds[f] = Free /\ fds'[f] = File
      /\ main.cmd = "LIST" => fds'[main'.file] = File /\ fds[main'.file] = Free
  <2>1. CASE StartTransfer
    BY <1>2, <1>3, <2>1 DEF StartTransfer, Serving, TypeOK, ThreadsOK, MainState
  <2>2. CASE OpenDirectory
    BY <1>2, <1>3, <2>2 DEF OpenDirectory, IsLowestFree, TypeOK, ThreadsOK, MainState, FdsOK
  <2> QED
    BY <2>1, <2>2
<1>5. HandlerTouches(s)
  BY <1>2, <1>3, <1>4 DEF HandlerTouches, SamePeer, slots, peers, watching, Free, File, Plain
<1>6. ClientOK(s)'
  BY <1>1, <1>3 DEF ClientOK, NoOffer, peers
<1>7. NoOffer(s) /\ NoOffer(s)'
  BY <1>1, <1>3 DEF HandlerOK, NoOffer, Using, peers
<1>8. FilesApart'
  <2>1. \A t \in Tid : task[t].pc \in Holding => fds[task[t].file] = File
    BY ThreadKnows DEF ThreadOK, StageOK, Holding
  <2>2. Listing' => fds[main'.file] = Free
    BY <1>4 DEF Listing
  <2> QED
    BY <1>3, <2>1, <2>2 DEF CarefulInv, FilesApart, Free, File, Plain
<1>9. Ready(s, e)'
  <2>1. Ready(s, e)
    BY <1>1, <1>2, <1>3 DEF HandlerOK
  <2> QED
    BY <1>1, <1>2, <1>3, <1>4, <2>1 DEF Ready, slots, Pasv, Free, Plain
<1>10. HandlerOK(s)'
  BY <1>1, <1>2, <1>3, <1>4, <1>7, <1>9 DEF HandlerOK, peers, slots
<1>11. status'[e] = AVAILAVLE /\ loggedIn'[s]
  BY <1>1, <1>2, <1>3 DEF HandlerOK, SlotOK, peers, slots
<1> QED
  BY <1>1, <1>2, <1>3, <1>5, <1>6, <1>7, <1>8, <1>10, <1>11, HandlerAlone DEF NoOffer

(* The data connection: connect() in PORT mode, accept() and the swap of    *)
(* listener and connection in PASV mode. What is connected belongs to s.    *)
LEMMA ConnectCareful ==
  ASSUME Careful = Session, TypeOK, TypeOK', CarefulInv, ConnectData \/ AcceptData \/ SwapData
  PROVE  CarefulInv' /\ HandlerKeeps
<1>1. PICK s \in Session :
        /\ fds[main.fd] = Ctl(s) /\ Owner = s /\ Serves(s)
        /\ HandlerOK(s) /\ ClientOK(s) /\ SlotOK(s, main.fd) /\ NoThread(s)
        /\ main.fd \in Fd /\ main.sock \in Fd /\ main.file \in Fd /\ dataFd[main.fd] \in Fd
  BY HandlerKnows DEF ConnectData, AcceptData, SwapData, Handling
<1>2. PICK e \in Fd : e = main.fd
  BY <1>1
<1>3. /\ main.pc \in {"data", "swap"} /\ main.seen = AVAILAVLE /\ main.cmd \in TransferVerb
      /\ main.cmd = "LIST" => fds[main.file] = File
  BY <1>1 DEF ConnectData, AcceptData, SwapData, HandlerOK
<1>4. UNCHANGED <<status, mode, watching, task, line, owed, told, dataReady, last, loggedIn>>
  BY DEF ConnectData, AcceptData, SwapData, slots, peers
<1>5. NoOffer(s) /\ NoOffer(s)'
  BY <1>1, <1>3, <1>4 DEF HandlerOK, NoOffer, Using
<1>6. status'[e] = AVAILAVLE /\ loggedIn'[s]
  BY <1>1, <1>2, <1>3, <1>4 DEF HandlerOK, SlotOK
<1>7. ASSUME \A f \in Fd : f # e => dataFd'[f] = dataFd[f],
             \A f \in Fd : fds'[f] # fds[f] =>
               /\ fds[f].kind \in {"free", "pasv"} /\ fds[f].who \in {s, Nobody}
               /\ fds'[f].kind \in {"free", "pasv", "data"} /\ fds'[f].who \in {s, Nobody},
             \A r \in Session : conn'[r] = conn[r],
             main'.pc \in {"swap", AfterData}, main'.fd = e, main'.cmd = main.cmd,
             main'.seen = AVAILAVLE, main'.file = main.file,
             main'.pc = "swap" => fds'[dataFd'[e]] = Pasv(s, "none") /\ fds'[main'.sock] \in DataOf(s),
             main'.pc = AfterData => fds'[dataFd'[e]] \in DataOf(s)
      PROVE  CarefulInv' /\ HandlerKeeps
  <2>1. HandlerTouches(s)
    BY <1>2, <1>4, <1>7 DEF HandlerTouches, SamePeer, watching, File, Plain
  <2>2. ClientOK(s)'
    BY <1>1, <1>4, <1>7 DEF ClientOK, NoOffer
  <2>3. FilesApart'
    BY <1>3, <1>4, <1>7 DEF CarefulInv, FilesApart, Listing
  <2>4. main.cmd = "LIST" => fds'[main'.file] = File
    BY <1>1, <1>3, <1>7 DEF File, Plain
  <2>5. main'.pc \in {"swap", "file", "list"} /\ (main'.pc = "list" <=> main'.pc # "swap" /\ main.cmd = "LIST")
    BY <1>7 DEF AfterData
  <2>6. conn'[s] = "open" /\ line'[s] = "none" /\ owed'[s] = 1 /\ main.cmd = last'[s]
    BY <1>1, <1>4, <1>7 DEF HandlerOK
  <2>7. HandlerOK(s)'
    BY <1>3, <1>5, <1>6, <1>7, <2>4, <2>5, <2>6 DEF HandlerOK, AfterData
  <2> QED
    BY <1>1, <1>2, <1>4, <1>5, <1>6, <2>1, <2>2, <2>3, <2>7, HandlerAlone DEF NoOffer
<1>8. CASE ConnectData
  <2>1. PICK f \in Fd :
          /\ IsLowestFree(f)
          /\ fds' = [fds EXCEPT ![f] = Data(s, "open")]
          /\ dataFd' = [dataFd EXCEPT ![main.fd] = f]
    BY <1>1, <1>8 DEF ConnectData
  <2>2. main' = [main EXCEPT !.pc = AfterData] /\ UNCHANGED conn
    BY <1>8 DEF ConnectData, peers
  <2>3. /\ fds[f] = Free /\ fds'[f] = Data(s, "open") /\ \A g \in Fd : g # f => fds'[g] = fds[g]
        /\ dataFd'[e] = f /\ \A g \in Fd : g # e => dataFd'[g] = dataFd[g]
    BY <1>2, <2>1 DEF IsLowestFree, TypeOK, FdsOK, SlotsOK
  <2>4. /\ main'.pc = AfterData /\ main'.fd = e /\ main'.cmd = main.cmd
        /\ main'.seen = AVAILAVLE /\ main'.file = main.file /\ AfterData # "swap"
    BY <1>2, <1>3, <2>2 DEF TypeOK, ThreadsOK, MainState, AfterData
  <2> QED
    BY <1>7, <2>2, <2>3, <2>4 DEF Free, Plain, Data, DataOf
<1>9. CASE AcceptData
  <2> DEFINE g == dataFd[main.fd]
  <2>1. PICK f \in Fd :
          /\ IsLowestFree(f) /\ fds[g].kind = "pasv" /\ fds[g].peer = "pending"
          /\ fds' = [fds EXCEPT ![f] = Data(fds[g].who, "open"), ![g].peer = "none"]
          /\ main' = [main EXCEPT !.pc = "swap", !.sock = f]
    BY <1>9 DEF AcceptData
  <2>2. main.pc = "data" /\ mode[main.fd] = PASV_MODE /\ UNCHANGED <<slots, peers>>
    BY <1>9 DEF AcceptData
  <2>3. fds[g] = Pasv(s, "pending") /\ fds[f] = Free
    BY <1>1, <1>3, <2>1, <2>2 DEF HandlerOK, Ready, PASV_MODE, PORT_MODE, IsLowestFree
  <2>4. f # g
    BY <2>3 DEF Pasv, Free, Plain
  <2>5. /\ fds'[f] = Data(s, "open") /\ fds'[g] = Pasv(s, "none")
        /\ \A h \in Fd : h # f /\ h # g => fds'[h] = fds[h]
    BY <1>1, <2>1, <2>3, <2>4 DEF TypeOK, FdsOK, Pasv
  <2>6. /\ main'.pc = "swap" /\ main'.fd = e /\ main'.sock = f /\ main'.cmd = main.cmd
        /\ main'.seen = AVAILAVLE /\ main'.file = main.file /\ AfterData # "swap"
    BY <1>2, <1>3, <2>1 DEF TypeOK, ThreadsOK, MainState, AfterData
  <2>7. \A h \in Fd : fds'[h] # fds[h] =>
               /\ fds[h].kind \in {"free", "pasv"} /\ fds[h].who \in {s, Nobody}
               /\ fds'[h].kind \in {"free", "pasv", "data"} /\ fds'[h].who \in {s, Nobody}
    BY <2>3, <2>5 DEF Free, Plain, Data, Pasv
  <2> QED
    BY <1>2, <1>7, <2>2, <2>5, <2>6, <2>7 DEF DataOf, slots, peers
<1>10. CASE SwapData
  <2> DEFINE g == dataFd[main.fd]
  <2>1. /\ main.pc = "swap" /\ CloseAll({g})
        /\ dataFd' = [dataFd EXCEPT ![main.fd] = main.sock]
        /\ main' = [main EXCEPT !.pc = AfterData]
    BY <1>10 DEF SwapData, ReplaceListener
  <2>2. fds[g] = Pasv(s, "none") /\ fds[main.sock] \in DataOf(s)
    BY <1>1, <2>1 DEF HandlerOK
  <2>3. main.sock # g
    BY <2>2 DEF Pasv, DataOf, Data
  <2>4. fds'[g] = Free /\ \A h \in Fd : h # g => fds'[h] = fds[h]
    BY <1>1, <2>1 DEF CloseAll
  <2>5. \A r \in Session : conn'[r] = conn[r]
    <3>1. \A r \in Session : fds[g] # Ctl(r)
      BY <2>2 DEF Pasv, Ctl
    <3> QED
      BY <2>1, <3>1 DEF CloseAll
  <2>6. dataFd'[e] = main.sock /\ \A h \in Fd : h # e => dataFd'[h] = dataFd[h]
    BY <1>1, <1>2, <2>1 DEF TypeOK, SlotsOK
  <2>7. /\ main'.pc = AfterData /\ main'.fd = e /\ main'.cmd = main.cmd
        /\ main'.seen = AVAILAVLE /\ main'.file = main.file /\ AfterData # "swap"
    BY <1>2, <1>3, <2>1 DEF TypeOK, ThreadsOK, MainState, AfterData
  <2>8. fds'[main.sock] \in DataOf(s)
    BY <1>1, <2>2, <2>3, <2>4
  <2>9. \A h \in Fd : fds'[h] # fds[h] =>
               /\ fds[h].kind \in {"free", "pasv"} /\ fds[h].who \in {s, Nobody}
               /\ fds'[h].kind \in {"free", "pasv", "data"} /\ fds'[h].who \in {s, Nobody}
    BY <2>2, <2>4 DEF Free, Plain, Pasv
  <2> QED
    BY <1>7, <2>5, <2>6, <2>7, <2>8, <2>9
<1> QED
  BY <1>8, <1>9, <1>10

(* LIST ends: it closes its directory and its own data connection. *)
LEMMA ListCareful ==
  ASSUME Careful = Session, TypeOK, TypeOK', CarefulInv, SendList
  PROVE  CarefulInv' /\ HandlerKeeps
<1>1. PICK s \in Session :
        /\ fds[main.fd] = Ctl(s) /\ Owner = s /\ Serves(s)
        /\ HandlerOK(s) /\ ClientOK(s) /\ SlotOK(s, main.fd) /\ NoThread(s)
        /\ main.fd \in Fd /\ main.file \in Fd /\ dataFd[main.fd] \in Fd
  BY HandlerKnows DEF SendList, Handling
<1>2. PICK e \in Fd : e = main.fd
  BY <1>1
<1>3. /\ main.pc = "list" /\ Answer /\ CloseAll({main.file, dataFd[main.fd]})
      /\ dataFd' = [dataFd EXCEPT ![main.fd] = 0]
      /\ mode' = [mode EXCEPT ![main.fd] = NONE_MODE]
      /\ UNCHANGED <<status, watching, task, line, told, dataReady, last, loggedIn>>
  BY DEF SendList
<1>4. /\ main.cmd = "LIST" /\ main.seen = AVAILAVLE
      /\ fds[main.file] = File /\ fds[dataFd[main.fd]] \in DataOf(s)
  BY <1>1, <1>3 DEF HandlerOK
<1>5. \A f \in {main.file, dataFd[main.fd]} :
        /\ fds[f].kind \in {"file", "data"} /\ fds[f].who \in {s, Nobody}
        /\ fds[f] = File => f = main.file
  BY <1>4 DEF File, Plain, DataOf, Data
<1>6. \A r \in Session : conn'[r] = conn[r]
  <2>1. \A r \in Session, f \in {main.file, dataFd[main.fd]} : fds[f] # Ctl(r)
    BY <1>5 DEF Ctl
  <2> QED
    BY <1>3, <2>1 DEF CloseAll
<1>7. \A f \in Fd : fds'[f] # fds[f] => fds'[f] = Free /\ f \in {main.file, dataFd[main.fd]}
  BY <1>3 DEF CloseAll
<1>8. \A f \in Fd : f # e => dataFd'[f] = dataFd[f] /\ mode'[f] = mode[f]
  BY <1>2, <1>3 DEF TypeOK, SlotsOK
<1>9. /\ main'.pc = "scan" /\ owed'[s] = 0
      /\ \A r \in Session : r # s => owed'[r] = owed[r]
  BY <1>1, <1>3, HandlerReplies
<1>10. Listing
  BY <1>3, <1>4 DEF Listing
<1>11. HandlerTouches(s)
  BY <1>2, <1>3, <1>5, <1>6, <1>7, <1>8, <1>9, <1>10
  DEF HandlerTouches, SamePeer, watching, Handling, Free, Plain
<1>12. ClientOK(s)'
  BY <1>1, <1>3, <1>6, <1>9 DEF ClientOK, NoOffer, HandlerOK
<1>13. FilesApart' /\ main'.pc \notin Handling
  BY <1>3, <1>9 DEF CarefulInv, FilesApart, Listing, Handling
<1>14. status'[e] = AVAILAVLE /\ loggedIn'[s]
  BY <1>1, <1>2, <1>3, <1>4 DEF HandlerOK, SlotOK
<1>15. NoOffer(s)'
  BY <1>1, <1>3, <1>4 DEF HandlerOK, NoOffer, Using, TransferVerb
<1> QED
  BY <1>1, <1>2, <1>3, <1>11, <1>12, <1>13, <1>14, <1>15, HandlerAlone DEF NoOffer

(* RETR and STOR hand the data connection and a new file to a thread. *)
LEMMA SpawnCareful ==
  ASSUME Careful = Session, TypeOK, TypeOK', CarefulInv, SpawnThread
  PROVE  CarefulInv' /\ HandlerKeeps
<1>1. PICK s \in Session :
        /\ fds[main.fd] = Ctl(s) /\ Owner = s /\ Serves(s)
        /\ HandlerOK(s) /\ ClientOK(s) /\ SlotOK(s, main.fd) /\ NoThread(s)
        /\ main.fd \in Fd /\ dataFd[main.fd] \in Fd
  BY HandlerKnows DEF SpawnThread, Handling
<1>2. PICK f \in Fd, t \in Tid, k \in {"send", "spin", "recv"} :
        /\ IsLowestFree(f)
        /\ task[t].pc = "idle"
        /\ fds' = [fds EXCEPT ![f] = File]
        /\ task' = [task EXCEPT ![t] = NewTask(k, f)]
  BY DEF SpawnThread
<1>3. main.pc = "file" /\ main' = Scanning /\ UNCHANGED <<slots, watching, peers>>
  BY DEF SpawnThread
<1>4. /\ main.cmd \in {"RETR", "STOR"} /\ main.seen = AVAILAVLE
      /\ status[main.fd] = AVAILAVLE /\ fds[dataFd[main.fd]] \in DataOf(s)
      /\ conn[s] = "open" /\ line[s] = "none" /\ owed[s] = 1 /\ last[s] = main.cmd
      /\ NoOffer(s)
  BY <1>1, <1>3 DEF HandlerOK, TransferVerb, Using
<1>5. fds[f] = Free /\ fds'[f] = File /\ \A g \in Fd : g # f => fds'[g] = fds[g]
  BY <1>2 DEF IsLowestFree, TypeOK, FdsOK
<1>6. /\ task'[t].pc = "start" /\ task'[t].fd = main.fd /\ task'[t].file = f /\ task'[t].who = s
      /\ \A u \in Tid : u # t => task'[u] = task[u]
      /\ task[t].who = Nobody
  BY <1>1, <1>2 DEF NewTask, TypeOK, ThreadsOK, CarefulInv, OwnersKnown
<1>7. main'.pc = "scan"
  BY <1>3 DEF Scanning
<1>8. HandlerTouches(s)
  BY <1>3, <1>5, <1>6, <1>7
  DEF HandlerTouches, SamePeer, watching, slots, peers, Handling, Free, File, Plain
<1>9. FilesApart'
  <2>1. \A u \in Tid : task[u].pc \in Holding => task[u].file # f
    <3>1. \A u \in Tid : task[u].pc \in Holding => fds[task[u].file] = File
      BY ThreadKnows DEF ThreadOK, StageOK, Holding
    <3> QED
      BY <1>5, <3>1 DEF Free, File, Plain
  <2>2. ~ Listing'
    BY <1>7 DEF Listing
  <2>3. \A u \in Tid : u # t => task'[u] = task[u]
    BY <1>6
  <2> QED
    BY <1>6, <2>1, <2>2, <2>3 DEF CarefulInv, FilesApart
<1>10. SessionOK(s)'
  <2>1. \A g \in Fd : fds'[g] = Ctl(s) <=> fds[g] = Ctl(s)
    BY <1>1, <1>8, HandlerApart
  <2>2. ~ Serves(s)'
    BY <1>7 DEF Serves, Handling
  <2>3. ClientOK(s)'
    BY <1>1, <1>3 DEF ClientOK, NoOffer, peers
  <2>4. NoOffer(s)'
    BY <1>3, <1>4 DEF NoOffer, peers
  <2>5. ASSUME NEW g \in Fd, fds'[g] = Ctl(s) PROVE SlotOK(s, g)'
    <3>1. g = main.fd
      BY <1>1, <2>1, <2>5 DEF SlotOK
    <3>2. status'[g] = AVAILAVLE /\ loggedIn'[s] /\ conn'[s] = "open" /\ line'[s] = "none"
      BY <1>1, <1>3, <1>4, <3>1 DEF SlotOK, slots, peers
    <3>3. \A h \in Fd : fds'[h] = Ctl(s) => h = g
      BY <1>1, <2>1, <3>1 DEF SlotOK
    <3> QED
      BY <2>4, <3>2, <3>3 DEF SlotOK, NoOffer, TransferVerb, AVAILAVLE, TRANSFER
  <2>6. ASSUME NEW u \in Tid, task'[u].who = s PROVE ThreadOK(s, u)'
    <3>1. u = t /\ \A v \in Tid : task'[v].who = s => v = t
      BY <1>1, <1>6, <2>6 DEF NoThread
    <3>2. fds'[dataFd[main.fd]] \in DataOf(s)
      BY <1>1, <1>4, <1>5 DEF DataOf, Data, Free, Plain
    <3>3. StageOK(s, task[t])'
      BY <1>3, <1>4, <1>5, <1>6, <3>2 DEF StageOK, Holding, slots, peers
    <3>4. fds'[main.fd] = Ctl(s)
      BY <1>1, <2>1
    <3> QED
      BY <1>3, <1>4, <1>6, <2>2, <2>4, <3>1, <3>3, <3>4 DEF ThreadOK, peers
  <2> QED
    BY <2>2, <2>3, <2>5, <2>6 DEF SessionOK
<1> QED
  BY <1>1, <1>8, <1>9, <1>10, HandlerApart, OneSession

(* The steps of interpret() and of its handlers keep the invariant. *)
LEMMA HandlerCareful ==
  ASSUME Careful = Session, TypeOK, TypeOK', CarefulInv, HandlerNext
  PROVE  CarefulInv' /\ HandlerKeeps
<1>1. CASE AnswerOnly \/ Ignore
  BY <1>1, HandlerGivesUp DEF AnswerOnly, Ignore, Serving, Handling, watching
<1>2. CASE PasvFails
  BY <1>2, HandlerGivesUp DEF PasvFails, Serving, Handling, watching
<1>3. CASE PasvListenFails
  BY <1>3, HandlerGivesUp DEF PasvListenFails, Handling, watching
<1>4. CASE OpenDirectoryFails
  BY <1>4, HandlerGivesUp DEF OpenDirectoryFails, Serving, Handling, watching
<1>5. CASE NoDataSocket
  BY <1>5, HandlerGivesUp DEF NoDataSocket, Handling, watching
<1>6. CASE ConnectDataFails
  BY <1>6, HandlerGivesUp DEF ConnectDataFails, Handling, watching
<1>7. CASE NoDataAddress
  BY <1>7, HandlerGivesUp DEF NoDataAddress, Handling, watching
<1>8. CASE SpawnFails
  BY <1>8, HandlerGivesUp DEF SpawnFails, Handling, watching
<1> QED
  BY <1>1, <1>2, <1>3, <1>4, <1>5, <1>6, <1>7, <1>8, LoginCareful, PassiveCareful,
     StartCareful, ConnectCareful, ListCareful, SpawnCareful DEF HandlerNext

(* Every step keeps the invariant. *)
LEMMA NextCareful ==
  ASSUME Careful = Session, TypeOK, TypeOK', ServingInv, CarefulInv, [Next]_vars
  PROVE  CarefulInv'
<1>1. CASE BrokenPipe
  <2>1. main'.pc = "killed"
    BY <1>1 DEF BrokenPipe, TypeOK, ThreadsOK, MainState
  <2> QED
    BY <1>1, <2>1, NoSession DEF BrokenPipe, watching, Handling
<1>2. CASE UNCHANGED vars
  BY <1>2, NoSession DEF vars, watching
<1> QED
  BY <1>1, <1>2, LoopCareful, HandlerCareful, ThreadCareful, ClientCareful DEF Next

(* The inductive invariant holds in every state. *)
LEMMA CarefulInvariant == ASSUME Careful = Session PROVE Spec => []CarefulInv
<1>1. TypeOK /\ TypeOK' /\ ServingInv /\ CarefulInv /\ [Next]_vars => CarefulInv'
  BY NextCareful
<1> QED
  BY <1>1, InitCareful, TypeCorrect, ServingInvariant, PTL DEF Spec

-----------------------------------------------------------------------------
(* No session reaches the file commands before its own PASS was accepted,   *)
(* however the sessions' commands and transfers interleave.                 *)
THEOREM LoginAlwaysFirst == ASSUME Careful = Session PROVE Spec => []LoginFirst
<1>1. CarefulInv => LoginFirst
  BY DEF CarefulInv, SessionOK, SlotOK, LoginFirst
<1> QED
  BY <1>1, CarefulInvariant, PTL

(* A thread, which knows its session by the number of its descriptor only,  *)
(* finds that session and its own data connection there as long as it       *)
(* writes to them, reads from them or closes them.                          *)
THEOREM DataConnectionAlwaysOwn ==
  ASSUME Careful = Session PROVE Spec => []OwnDataConnection
<1>1. TypeOK /\ CarefulInv => OwnDataConnection
  <2> SUFFICES ASSUME TypeOK, CarefulInv, NEW t \in Tid,
                      task[t].pc \in {"start", "loop", "report", "avail", "close"}
               PROVE  /\ fds[task[t].fd] = Ctl(task[t].who)
                      /\ \E p \in {"open", "closed"} : Target(t) = Data(task[t].who, p)
    BY DEF OwnDataConnection
  <2>1. ThreadOK(task[t].who, t)
    BY ThreadKnows
  <2>2. Target(t) \in DataOf(task[t].who)
    BY <2>1 DEF ThreadOK, StageOK, Holding, Target
  <2> QED
    BY <2>1, <2>2 DEF ThreadOK, DataOf
<1> QED
  BY <1>1, TypeCorrect, CarefulInvariant, PTL

(* The address of a 227 reply stays good until its client connects to it:   *)
(* no thread and no other session closes the listener or takes its number.  *)
THEOREM PassiveAddressAlwaysValid ==
  ASSUME Careful = Session PROVE Spec => []PassiveAddressValid
<1>1. ServingInv /\ CarefulInv => PassiveAddressValid
  <2> SUFFICES ASSUME ServingInv, CarefulInv, NEW s \in Session,
                      conn[s] = "open", told[s] # NoAddress
               PROVE  fds[told[s]] = Pasv(s, "waiting")
    BY DEF PassiveAddressValid
  <2>1. PICK f \in Fd : fds[f] = Ctl(s)
    BY DEF ServingInv, ConnectionsWatched
  <2> QED
    BY <2>1 DEF CarefulInv, SessionOK, SlotOK
<1> QED
  BY <1>1, ServingInvariant, CarefulInvariant, PTL

(* select() is never given a closed number, nor another session's data      *)
(* connection or a file: the loop does not end, and reads only commands.    *)
THEOREM WatchedAlwaysConnections ==
  ASSUME Careful = Session PROVE Spec => []WatchedAreConnections
<1>1. CarefulInv => WatchedAreConnections
  BY DEF CarefulInv
<1> QED
  BY <1>1, CarefulInvariant, PTL

(* The main thread is never held up in accept(): Ready, which the client    *)
(* made true before it asked for the transfer, still holds when the handler *)
(* comes to the data connection.                                            *)
THEOREM AcceptAtOnce == ASSUME Careful = Session PROVE Spec => []AcceptNeverWaits
<1>1. TypeOK /\ CarefulInv => AcceptNeverWaits
  <2> SUFFICES ASSUME TypeOK, CarefulInv, main.pc = "data", mode[main.fd] = PASV_MODE
               PROVE  fds[dataFd[main.fd]] = Pasv(Owner, "pending")
    BY DEF AcceptNeverWaits
  <2>1. PICK s \in Session : HandlerOK(s) /\ Owner = s
    BY HandlerKnows DEF Handling
  <2> QED
    BY <2>1 DEF HandlerOK, Ready, PASV_MODE, PORT_MODE
<1> QED
  BY <1>1, TypeCorrect, CarefulInvariant, PTL

-----------------------------------------------------------------------------
(* SIGPIPE. A data connection over which something is to be sent, from the  *)
(* moment it is made to the end of the loop, has its client at the other    *)
(* end.                                                                     *)
PipeOK(s) ==
  /\ \A t \in Tid : task[t].who = s /\ task[t].pc \in {"start", "loop"} /\ task[t].kind = "send" =>
       last[s] = "RETR" /\ Target(t) = Data(s, "open")
  /\ Serves(s) /\ main.cmd # "STOR" =>
       /\ main.pc = "swap" => fds[main.sock] = Data(s, "open")
       /\ main.pc \in {"file", "list"} => fds[dataFd[main.fd]] = Data(s, "open")

PipesInv == \A s \in Session : PipeOK(s)

(* A step of another session leaves it so. *)
LEMMA PipeApart ==
  ASSUME TypeOK, CarefulInv, NEW r \in Session, Same(r), PipeOK(r)
  PROVE  PipeOK(r)'
<1>1. \A f \in Fd : fds[f].who = r \/ fds'[f].who = r => fds'[f] = fds[f]
  BY DEF Same, SameSlot
<1>2. \A f \in Fd : fds[f] = Ctl(r) => dataFd'[f] = dataFd[f]
  BY DEF Same, SameSlot
<1>3. ASSUME NEW t \in Tid, task'[t].who = r, task'[t].pc \in {"start", "loop"}, task'[t].kind = "send"
      PROVE  last'[r] = "RETR" /\ Target(t)' = Data(r, "open")
  <2>1. task'[t] = task[t] /\ last'[r] = last[r]
    BY <1>3 DEF Same, SameThread, SamePeer
  <2>2. task[t].pc # "idle"
    BY <1>3, <2>1
  <2>3. /\ fds[task[t].fd] = Ctl(r)
        /\ task[t].fd \in Fd /\ dataFd[task[t].fd] \in Fd
    BY <1>3, <2>1, <2>2, ThreadKnows DEF ThreadOK
  <2>4. last[r] = "RETR" /\ fds[dataFd[task[t].fd]] = Data(r, "open")
    BY <1>3, <2>1 DEF PipeOK, Target
  <2>5. fds[dataFd[task[t].fd]].who = r
    BY <2>4 DEF Data
  <2> QED
    BY <1>1, <1>2, <2>1, <2>3, <2>4, <2>5 DEF Target
<1>4. ASSUME Serves(r)'
      PROVE  /\ main' = main /\ Serves(r)
             /\ \A f \in {main.sock, dataFd[main.fd]} : fds[f] = Data(r, "open") => fds'[f] = fds[f]
             /\ dataFd'[main.fd] = dataFd[main.fd]
  <2>1. main' = main /\ fds'[main.fd] = Ctl(r)
    BY <1>4 DEF Same, SameHandler, Serves
  <2>2. main.fd \in Fd /\ main.sock \in Fd /\ dataFd[main.fd] \in Fd
    BY DEF TypeOK, ThreadsOK, MainState, SlotsOK
  <2>3. fds[main.fd] = Ctl(r)
    BY <1>1, <2>1, <2>2 DEF Ctl
  <2> QED
    BY <1>1, <1>2, <1>4, <2>1, <2>2, <2>3 DEF Serves, Data
<1> QED
  BY <1>3, <1>4 DEF PipeOK

(* A session has nothing to be sent when no transfer is under way for it. *)
LEMMA PipeIdle ==
  ASSUME NEW s \in Session, NoThread(s)', main'.pc \notin {"swap", "file", "list"}
  PROVE  PipeOK(s)'
BY DEF PipeOK, NoThread

(* And nothing but the connection its handler has made. *)
LEMMA PipeMade ==
  ASSUME NEW s \in Session, NoThread(s)',
         main'.pc = "swap" => main'.cmd = "STOR" \/ fds'[main'.sock] = Data(s, "open"),
         main'.pc \in {"file", "list"} =>
           main'.cmd = "STOR" \/ fds'[dataFd'[main'.fd]] = Data(s, "open")
  PROVE  PipeOK(s)'
BY DEF PipeOK, NoThread

LEMMA LoopPipes ==
  ASSUME Careful = Session, TypeOK, TypeOK', ServingInv, CarefulInv, PipesInv, LoopNext
  PROVE  PipesInv'
<1> SUFFICES ASSUME NEW r \in Session PROVE PipeOK(r)'
  BY DEF PipesInv
<1>1. PipeOK(r) /\ (Same(r) => PipeOK(r)')
  BY PipeApart DEF PipesInv
<1>2. CASE SelectFails \/ Select \/ EndPass \/ AcceptFails
  <2>1. UNCHANGED <<slots, clientFds, task, fds, peers>>
    BY <1>2 DEF SelectFails, Select, EndPass, AcceptFails, watching
  <2>2. main'.pc \in {"exited", "scan", "select"}
    BY <1>2 DEF SelectFails, Select, EndPass, AcceptFails, TypeOK, ThreadsOK, MainState
  <2> QED
    BY <1>1, <2>1, <2>2, NoSession DEF Handling
<1>3. CASE Accept
  <2>1. main'.pc = "scan" /\ task' = task
    BY <1>3 DEF Accept, AtEvent
  <2>2. conn'[r] # conn[r] => conn[r] # "open"
    BY <1>3 DEF Accept, TypeOK, PeersOK
  <2>3. conn'[r] # conn[r] => NoThread(r)'
    BY <2>1, <2>2, NothingUnderWay DEF NoThread
  <2> QED
    BY <1>1, <1>3, <2>1, <2>3, AcceptCareful, PipeIdle
<1>4. ASSUME NEW e \in Fd, Disconnect(e) \/ ReadLine(e) \/ ReadEmptyLine(e) PROVE PipeOK(r)'
  <2>1. fds[e] # Ctl(r) => Same(r)
    BY <1>4, DisconnectCareful, ReadLineCareful
  <2>2. main'.pc \in {"scan", "handle", "killed"} /\ task' = task
    BY <1>4 DEF Disconnect, ReadLine, ReadEmptyLine, AtEvent, TypeOK, ThreadsOK, MainState
  <2>3. ASSUME fds[e] = Ctl(r) PROVE conn[r] = "gone" \/ line[r] # "none"
    <3>1. CASE Disconnect(e)
      BY <2>3, <3>1 DEF Disconnect, ReadFails, Ctl
    <3>2. ASSUME NEW s \in Session, fds[e] = Ctl(s), line[s] # "none" PROVE line[r] # "none"
      BY <2>3, <3>2 DEF Ctl
    <3>3. CASE ReadLine(e)
      BY <3>2, <3>3 DEF ReadLine
    <3>4. CASE ReadEmptyLine(e)
      BY <3>2, <3>4 DEF ReadEmptyLine
    <3> QED
      BY <1>4, <3>1, <3>3, <3>4
  <2>4. fds[e] = Ctl(r) => NoThread(r)'
    BY <2>2, <2>3, NothingUnderWay DEF NoThread
  <2> QED
    BY <1>1, <2>1, <2>2, <2>4, PipeIdle
<1> QED
  BY <1>2, <1>3, <1>4, AllGreeted DEF LoopNext

(* A thread sends over the connection its handler has left it. *)
LEMMA ThreadPipes ==
  ASSUME Careful = Session, TypeOK, TypeOK', CarefulInv, PipesInv, NEW t \in Tid, ThreadStep(t)
  PROVE  PipesInv'
<1>1. task[t].pc # "idle"
  BY NoCommandsTaken DEF ThreadStep, At, Begin, LoopEnds, LoopFails, Report, MakeAvailable, CloseData, ForgetData
<1>2. PICK s \in Session : task[t].who = s /\ ThreadOK(s, t) /\ PipeOK(s)
  BY <1>1, ThreadKnows DEF PipesInv
<1>3. \A r \in Session \ {s} : Same(r)
  BY <1>2, ThreadCareful
<1>4. /\ main' = main
      /\ \A u \in Tid : u # t => task'[u] = task[u]
      /\ \A f \in Fd : fds'[f] = fds[f] \/ fds'[f] = Free
  BY NoCommandsTaken DEF ThreadStep, Begin, LoopEnds, LoopFails, Report, MakeAvailable, CloseData, ForgetData,
         Goto, CloseAll, TypeOK, ThreadsOK
<1>5. ~ Serves(s)'
  <2>1. main.fd \in Fd /\ Free # Ctl(s)
    BY DEF TypeOK, ThreadsOK, MainState, Ctl, Free, Plain
  <2> QED
    BY <1>2, <1>4, <2>1 DEF ThreadOK, Serves
<1>6. ASSUME task'[t].pc \in {"start", "loop"}
      PROVE  /\ task[t].pc \in {"start", "loop"} /\ task'[t].kind = task[t].kind
             /\ task'[t].fd = task[t].fd
             /\ UNCHANGED <<dataFd, fds, last>>
  <2>1. CASE Begin(t)
    BY <2>1 DEF Begin, At, Goto, TypeOK, ThreadsOK, Task, peers
  <2>2. CASE \E q \in {"report", "avail", "close", "dead", "zero"} : Goto(t, q)
    BY <1>6, <2>2 DEF Goto, TypeOK, ThreadsOK
  <2>3. CASE task' = [task EXCEPT ![t] = Idle]
    BY <1>6, <2>3 DEF Idle, TypeOK, ThreadsOK
  <2> QED
    BY <2>1, <2>2, <2>3, NoCommandsTaken DEF ThreadStep, LoopEnds, LoopFails, Report, MakeAvailable, CloseData, ForgetData
<1>7. ASSUME NEW u \in Tid, task'[u].who = s, task'[u].pc \in {"start", "loop"}, task'[u].kind = "send"
      PROVE  last'[s] = "RETR" /\ Target(u)' = Data(s, "open")
  <2>1. u = t
    BY <1>2, <1>4, <1>7 DEF ThreadOK
  <2> QED
    BY <1>2, <1>6, <1>7, <2>1 DEF PipeOK, Target
<1>8. PipeOK(s)'
  BY <1>5, <1>7 DEF PipeOK
<1> QED
  BY <1>2, <1>3, <1>8, PipeApart DEF PipesInv

(* A client closes a data connection only when it uploads or has its reply. *)
LEMMA ClientPipes ==
  ASSUME Careful = Session, TypeOK, TypeOK', ServingInv, CarefulInv, PipesInv,
         NEW s \in Session, ClientStep(s)
  PROVE  PipesInv'
<1>1. \A r \in Session \ {s} : Same(r)
  BY ClientCareful
<1>2. UNCHANGED <<slots, main, task>>
  BY DEF ClientStep, Connect, Send, DataConnect, DataClose, HangUp
<1>3. s \in Patient /\ PipeOK(s) /\ SessionOK(s)
  BY SessionAssumption DEF PipesInv, CarefulInv, SessionOK
<1>4. \A t \in Tid : task[t].who = s /\ task[t].pc \in {"start", "loop"} =>
        owed[s] = 1 /\ task[t].fd \in Fd /\ dataFd[task[t].fd] \in Fd
  BY <1>3, ThreadKnows DEF SessionOK, ThreadOK, StageOK
<1>5. Serves(s) => owed[s] = 1 /\ main.cmd = last[s]
  BY <1>3 DEF SessionOK, HandlerOK
<1>6. main.fd \in Fd /\ main.sock \in Fd /\ dataFd[main.fd] \in Fd
  BY DEF TypeOK, ThreadsOK, MainState, SlotsOK
<1>7. \A f \in Fd : fds'[f] = Ctl(s) => fds[f] = Ctl(s)
  BY DEF ClientStep, Connect, Send, DataConnect, DataClose, HangUp, Ctl, Pasv, Data, TypeOK, FdsOK
<1>8. Serves(s)' => Serves(s)
  BY <1>2, <1>6, <1>7 DEF Serves
<1>9. ASSUME last[s] # "STOR", owed[s] = 1
      PROVE  last'[s] = last[s] /\ \A f \in Fd : fds[f] = Data(s, "open") => fds'[f] = fds[f]
  <2>1. ~ DataClose(s) /\ \A c \in Commands : ~ Send(s, c)
    BY <1>3, <1>9 DEF DataClose, Send, MaySend
  <2> QED
    BY <2>1 DEF ClientStep, Connect, DataConnect, HangUp, Pasv, Data, TypeOK, FdsOK
<1>10. PipeOK(s)'
  BY <1>2, <1>3, <1>4, <1>5, <1>6, <1>8, <1>9 DEF PipeOK, Target, slots
<1> QED
  BY <1>1, <1>10, PipeApart DEF PipesInv

(* A handler makes a connection with the client at its other end, and hands *)
(* it on.                                                                   *)
LEMMA HandlerPipes ==
  ASSUME Careful = Session, TypeOK, TypeOK', CarefulInv, PipesInv, HandlerNext
  PROVE  PipesInv'
<1>1. main.pc \in Handling
  BY DEF HandlerNext, AnswerOnly, Ignore, User, Pass, Port, PasvFails, PasvOpen, PasvListen,
         PasvListenFails, StartTransfer, OpenDirectory, OpenDirectoryFails, ConnectData,
         NoDataSocket, ConnectDataFails, AcceptData, SwapData, NoDataAddress, SpawnThread,
         SpawnFails, SendList, Serving, Handling
<1>2. PICK s \in Session :
        /\ fds[main.fd] = Ctl(s) /\ Owner = s /\ Serves(s) /\ HandlerOK(s) /\ NoThread(s)
        /\ main.fd \in Fd /\ main.sock \in Fd /\ dataFd[main.fd] \in Fd
  BY <1>1, HandlerKnows
<1>3. PipeOK(s)
  BY DEF PipesInv
<1>4. \A r \in Session \ {s} : Same(r)
  <2>1. \A r \in Session : r # s => fds[main.fd] # Ctl(r)
    BY <1>2 DEF Ctl
  <2> QED
    BY <2>1, HandlerCareful DEF HandlerKeeps
<1> SUFFICES PipeOK(s)'
  BY <1>4, PipeApart DEF PipesInv
<1>5. CASE ConnectData
  <2>1. PICK f \in Fd : fds' = [fds EXCEPT ![f] = Data(s, "open")]
                        /\ dataFd' = [dataFd EXCEPT ![main.fd] = f]
    BY <1>2, <1>5 DEF ConnectData
  <2>2. fds'[dataFd'[main.fd]] = Data(s, "open")
    BY <1>2, <2>1 DEF TypeOK, FdsOK, SlotsOK
  <2>3. main'.pc \in {"file", "list"} /\ main'.fd = main.fd /\ task' = task
    BY <1>5 DEF ConnectData, AfterData, TypeOK, ThreadsOK, MainState
  <2>4. NoThread(s)'
    BY <1>2, <2>3 DEF NoThread
  <2> QED
    BY <2>2, <2>3, <2>4, PipeMade
<1>6. CASE AcceptData
  <2> DEFINE g == dataFd[main.fd]
  <2>1. PICK f \in Fd :
          /\ IsLowestFree(f) /\ fds[g].kind = "pasv"
          /\ fds' = [fds EXCEPT ![f] = Data(fds[g].who, "open"), ![g].peer = "none"]
          /\ main' = [main EXCEPT !.pc = "swap", !.sock = f]
    BY <1>6 DEF AcceptData
  <2>2. main.pc = "data" /\ mode[main.fd] = PASV_MODE /\ task' = task
    BY <1>6 DEF AcceptData
  <2>3. fds[g] = Pasv(s, "pending") /\ fds[f] = Free
    BY <1>2, <2>1, <2>2 DEF HandlerOK, Ready, PASV_MODE, PORT_MODE, IsLowestFree
  <2>4. fds'[f] = Data(s, "open")
    BY <1>2, <2>1, <2>3 DEF TypeOK, FdsOK, Pasv, Free, Plain
  <2>5. main'.pc = "swap" /\ main'.sock = f
    BY <2>1 DEF TypeOK, ThreadsOK, MainState
  <2>6. NoThread(s)'
    BY <1>2, <2>2 DEF NoThread
  <2> QED
    BY <2>4, <2>5, <2>6, PipeMade
<1>7. CASE SwapData
  <2>1. /\ main.pc = "swap" /\ CloseAll({dataFd[main.fd]}) /\ task' = task
        /\ dataFd' = [dataFd EXCEPT ![main.fd] = main.sock]
        /\ main' = [main EXCEPT !.pc = AfterData]
    BY <1>7 DEF SwapData, ReplaceListener
  <2>2. fds[dataFd[main.fd]] = Pasv(s, "none") /\ fds[main.sock] \in DataOf(s)
    BY <1>2, <2>1 DEF HandlerOK
  <2>3. main.sock # dataFd[main.fd]
    BY <2>2 DEF Pasv, DataOf, Data
  <2>4. fds'[dataFd'[main.fd]] = fds[main.sock]
    BY <1>2, <2>1, <2>3 DEF CloseAll, TypeOK, SlotsOK
  <2>5. main'.pc \in {"file", "list"} /\ main'.fd = main.fd /\ main'.cmd = main.cmd
    BY <2>1 DEF AfterData, TypeOK, ThreadsOK, MainState
  <2>6. NoThread(s)'
    BY <1>2, <2>1 DEF NoThread
  <2>7. main.cmd # "STOR" => fds[main.sock] = Data(s, "open")
    BY <1>2, <1>3, <2>1 DEF PipeOK
  <2> QED
    BY <2>4, <2>5, <2>6, <2>7, PipeMade
<1>8. CASE SpawnThread
  <2>1. PICK f \in Fd, t \in Tid, k \in {"send", "spin", "recv"} :
          /\ IsLowestFree(f)
          /\ (main.cmd = "STOR") = (k = "recv")
          /\ fds' = [fds EXCEPT ![f] = File]
          /\ task' = [task EXCEPT ![t] = NewTask(k, f)]
    BY <1>8 DEF SpawnThread
  <2>2. main.pc = "file" /\ main' = Scanning /\ UNCHANGED <<slots, peers>>
    BY <1>8 DEF SpawnThread
  <2>3. /\ task'[t] = [pc |-> "start", kind |-> k, fd |-> main.fd, file |-> f, who |-> s]
        /\ \A u \in Tid : u # t => task'[u] = task[u]
    BY <1>2, <2>1 DEF NewTask, TypeOK, ThreadsOK
  <2>4. k = "send" => main.cmd # "STOR"
    BY <2>1
  <2>5. main.cmd \in {"RETR", "STOR"} /\ last[s] = main.cmd
    BY <1>2, <2>2 DEF HandlerOK, TransferVerb
  <2>6. k = "send" => last[s] = "RETR" /\ fds[dataFd[main.fd]] = Data(s, "open")
    BY <1>2, <1>3, <2>2, <2>4, <2>5 DEF PipeOK
  <2>7. fds[dataFd[main.fd]] = Data(s, "open") => fds'[dataFd[main.fd]] = Data(s, "open")
    BY <1>2, <2>1 DEF IsLowestFree, Free, Plain, Data, TypeOK, FdsOK
  <2>8. ASSUME NEW u \in Tid, task'[u].who = s, task'[u].kind = "send"
        PROVE  last'[s] = "RETR" /\ Target(u)' = Data(s, "open")
    <3>1. u = t
      BY <1>2, <2>3, <2>8 DEF NoThread
    <3> QED
      BY <2>2, <2>3, <2>6, <2>7, <2>8, <3>1 DEF Target, slots, peers
  <2>9. main'.pc = "scan"
    BY <2>2 DEF Scanning
  <2> QED
    BY <2>8, <2>9 DEF PipeOK
<1>9. CASE ~ (ConnectData \/ AcceptData \/ SwapData \/ SpawnThread)
  <2>1. task' = task /\ main'.pc \notin {"swap", "file", "list"}
    <3>1. CASE PasvOpen \/ StartTransfer \/ OpenDirectory
      BY <3>1 DEF PasvOpen, StartTransfer, OpenDirectory, TypeOK, ThreadsOK, MainState
    <3>2. CASE ~ (PasvOpen \/ StartTransfer \/ OpenDirectory)
      <4>1. task' = task /\ main' = Scanning
        BY <1>9, <3>2 DEF HandlerNext, AnswerOnly, Ignore, User, Pass, Port, PasvFails, PasvListen,
             PasvListenFails, OpenDirectoryFails, NoDataSocket, ConnectDataFails, NoDataAddress,
             SpawnFails, SendList, Answer, Silent
      <4> QED
        BY <4>1 DEF Scanning
    <3> QED
      BY <3>1, <3>2
  <2>2. NoThread(s)'
    BY <1>2, <2>1 DEF NoThread
  <2> QED
    BY <2>1, <2>2, PipeIdle
<1> QED
  BY <1>5, <1>6, <1>7, <1>8, <1>9

LEMMA NextPipes ==
  ASSUME Careful = Session, TypeOK, TypeOK', ServingInv, CarefulInv, PipesInv, [Next]_vars
  PROVE  PipesInv'
<1>1. CASE BrokenPipe \/ UNCHANGED vars
  <2>1. UNCHANGED <<slots, clientFds, task, fds, peers>> /\ (main' = main \/ main'.pc = "killed")
    BY <1>1 DEF BrokenPipe, vars, watching, TypeOK, ThreadsOK, MainState
  <2>2. \A r \in Session : Same(r)
    BY <2>1, NoSession DEF Handling
  <2> QED
    BY <2>2, PipeApart DEF PipesInv
<1> QED
  BY <1>1, LoopPipes, HandlerPipes, ThreadPipes, ClientPipes DEF Next

LEMMA PipesInvariant == ASSUME Careful = Session PROVE Spec => []PipesInv
<1>1. Init => PipesInv
  <2> SUFFICES ASSUME Init, NEW s \in Session PROVE PipeOK(s)
    BY DEF PipesInv
  <2>1. \A t \in Tid : task[t].pc = "idle"
    BY DEF Init, Idle
  <2>2. ~ Serves(s)
    BY DEF Init, Scanning, Serves, Handling
  <2> QED
    BY <2>1, <2>2 DEF PipeOK
<1>2. TypeOK /\ TypeOK' /\ ServingInv /\ CarefulInv /\ PipesInv /\ [Next]_vars => PipesInv'
  BY NextPipes
<1> QED
  BY <1>1, <1>2, CarefulInvariant, TypeCorrect, ServingInvariant, PTL DEF Spec

(* Every write of a reply, of a listing and of a file finds its client      *)
(* still there.                                                             *)
LEMMA PipesHold == TypeOK /\ CarefulInv /\ PipesInv => PipesWhole
<1> SUFFICES ASSUME TypeOK, CarefulInv, PipesInv, NEW f \in Fd, WritesTo(f) PROVE ~ NoReader(f)
  BY DEF PipesWhole
<1>1. ASSUME NEW s \in Session, fds[f] = Ctl(s), conn[s] = "open" PROVE ~ NoReader(f)
  BY <1>1 DEF NoReader, Ctl
<1>2. ASSUME NEW s \in Session, fds[f] = Data(s, "open") PROVE ~ NoReader(f)
  BY <1>2 DEF NoReader, Data
<1>3. CASE main.pc \in Handling /\ f = main.fd
  <2>1. PICK s \in Session : fds[main.fd] = Ctl(s) /\ HandlerOK(s)
    BY <1>3, HandlerKnows
  <2> QED
    BY <1>1, <1>3, <2>1 DEF HandlerOK
<1>4. CASE main.pc = "list" /\ f = dataFd[main.fd]
  <2>1. PICK s \in Session : HandlerOK(s) /\ Serves(s)
    BY <1>4, HandlerKnows DEF Handling
  <2>2. PipeOK(s) /\ main.cmd = "LIST"
    BY <1>4, <2>1 DEF PipesInv, HandlerOK
  <2> QED
    BY <1>2, <1>4, <2>1, <2>2 DEF PipeOK
<1>5. ASSUME NEW t \in Tid, task[t].pc = "report", f = task[t].fd PROVE ~ NoReader(f)
  <2>1. task[t].who \in Session /\ ThreadOK(task[t].who, t)
    BY <1>5, ThreadKnows
  <2> QED
    BY <1>1, <1>5, <2>1 DEF ThreadOK
<1>6. ASSUME NEW t \in Tid, task[t].pc = "loop", task[t].kind = "send", f = dataFd[task[t].fd]
      PROVE  ~ NoReader(f)
  <2>1. task[t].who \in Session
    BY <1>6, ThreadKnows
  <2>2. fds[f] = Data(task[t].who, "open")
    BY <1>6, <2>1 DEF PipesInv, PipeOK, Target
  <2> QED
    BY <1>2, <2>1, <2>2
<1> QED
  BY <1>3, <1>4, <1>5, <1>6 DEF WritesTo, Handling

(* No client that keeps to the rules ends the process by SIGPIPE, whatever  *)
(* fails around it: each session's writes meet an open connection.          *)
THEOREM PipesAlwaysWhole == ASSUME Careful = Session PROVE Spec => []PipesWhole
BY PipesHold, TypeCorrect, CarefulInvariant, PipesInvariant, PTL

-----------------------------------------------------------------------------
(* The server implements FtpService. The phase of an accepted session is    *)
(* the status of its slot, which is the only one it has.                    *)
PhaseRight ==
  \A s \in Session :
    /\ conn[s] \in {"new", "queued"} => ServicePhase[s] = "away"
    /\ conn[s] = "gone" => ServicePhase[s] = "gone"
    /\ \A f \in Fd : conn[s] = "open" /\ fds[f] = Ctl(s) =>
         ServicePhase[s] = PhaseOf(status[f])

LEMMA PhaseOfSession == CarefulInv => PhaseRight
<1> SUFFICES ASSUME CarefulInv, NEW s \in Session
             PROVE  /\ conn[s] \in {"new", "queued"} => ServicePhase[s] = "away"
                    /\ conn[s] = "gone" => ServicePhase[s] = "gone"
                    /\ \A f \in Fd : conn[s] = "open" /\ fds[f] = Ctl(s) =>
                         ServicePhase[s] = PhaseOf(status[f])
  BY DEF PhaseRight
<1>1. conn[s] \in {"new", "queued"} => ServicePhase[s] = "away"
  BY DEF ServicePhase
<1>2. conn[s] = "gone" => ServicePhase[s] = "gone"
  BY DEF ServicePhase
<1>3. ASSUME NEW f \in Fd, conn[s] = "open", fds[f] = Ctl(s)
      PROVE  ServicePhase[s] = PhaseOf(status[f])
  <2>1. (CHOOSE g \in Fd : fds[g] = Ctl(s)) = f
    <3>1. \A g \in Fd : fds[g] = Ctl(s) => g = f
      BY <1>3 DEF CarefulInv, SessionOK, SlotOK
    <3> QED
      BY <1>3, <3>1
  <2>2. conn[s] \notin {"new", "queued"} /\ conn[s] # "gone"
    BY <1>3
  <2>3. ServicePhase[s] = PhaseOf(status[CHOOSE g \in Fd : fds[g] = Ctl(s)])
    BY <2>2 DEF ServicePhase
  <2> QED
    BY <2>1, <2>3
<1> QED
  BY <1>1, <1>2, <1>3

(* A session that keeps its connection, its slot's status and the reply it  *)
(* waits for looks the same to its client.                                  *)
Quiet(r) ==
  /\ conn'[r] = conn[r] /\ owed'[r] = owed[r]
  /\ \A f \in Fd : conn[r] = "open" /\ fds[f] = Ctl(r) =>
       fds'[f] = Ctl(r) /\ status'[f] = status[f]

ServiceInv == TypeOK /\ ServingInv /\ CarefulInv

LEMMA QuietSame ==
  ASSUME ServiceInv, ServiceInv', NEW r \in Session, Quiet(r)
  PROVE  ServicePhase'[r] = ServicePhase[r] /\ ServiceWaiting'[r] = ServiceWaiting[r]
<1>1. PhaseRight
  BY PhaseOfSession DEF ServiceInv
<1>2. (CarefulInv => PhaseRight)'
  BY PhaseOfSession, PTL
<1>3. PhaseRight'
  BY <1>2 DEF ServiceInv
<1>4. CASE conn[r] = "open"
  <2>1. PICK f \in Fd : fds[f] = Ctl(r)
    BY <1>4 DEF ServiceInv, ServingInv, ConnectionsWatched
  <2>2. ServicePhase[r] = PhaseOf(status[f])
    BY <1>1, <1>4, <2>1 DEF PhaseRight
  <2>3. ServicePhase'[r] = PhaseOf(status'[f])
    <3>1. fds'[f] = Ctl(r) /\ conn'[r] = "open"
      BY <1>4, <2>1 DEF Quiet
    <3> QED
      BY <1>3, <3>1 DEF PhaseRight, PhaseOf
  <2>4. status'[f] = status[f]
    BY <1>4, <2>1 DEF Quiet
  <2> QED
    BY <2>2, <2>3, <2>4 DEF Quiet, ServiceWaiting
<1>5. CASE conn[r] # "open"
  <2>1. conn[r] \in {"new", "queued", "gone"}
    BY <1>5 DEF ServiceInv, TypeOK, PeersOK
  <2> QED
    BY <1>1, <1>3, <2>1 DEF Quiet, PhaseRight, ServiceWaiting
<1> QED
  BY <1>4, <1>5

(* When at most one session changes, the service's state changes there only. *)
LEMMA OneMoves ==
  ASSUME ServiceInv, ServiceInv', NEW s \in Session, \A r \in Session \ {s} : Quiet(r)
  PROVE  /\ ServicePhase' = [ServicePhase EXCEPT ![s] = ServicePhase'[s]]
         /\ ServiceWaiting' = [ServiceWaiting EXCEPT ![s] = ServiceWaiting'[s]]
<1>1. \A r \in Session : r # s =>
        ServicePhase'[r] = ServicePhase[r] /\ ServiceWaiting'[r] = ServiceWaiting[r]
  BY QuietSame
<1>2. DOMAIN ServicePhase = Session /\ DOMAIN ServicePhase' = Session
      /\ DOMAIN ServiceWaiting = Session /\ DOMAIN ServiceWaiting' = Session
  BY DEF ServicePhase, ServiceWaiting
<1>3. /\ ServicePhase = [r \in Session |-> ServicePhase[r]]
      /\ ServicePhase' = [r \in Session |-> ServicePhase'[r]]
      /\ ServiceWaiting = [r \in Session |-> ServiceWaiting[r]]
      /\ ServiceWaiting' = [r \in Session |-> ServiceWaiting'[r]]
  BY DEF ServicePhase, ServiceWaiting
<1> QED
  BY <1>1, <1>2, <1>3

(* A step that every session looks the same after is no step of the service. *)
LEMMA NothingServed ==
  ASSUME ServiceInv, ServiceInv', \A r \in Session : Quiet(r)
  PROVE  UNCHANGED <<ServicePhase, ServiceWaiting>>
<1>1. \A r \in Session : /\ ServicePhase'[r] = ServicePhase[r]
                         /\ ServiceWaiting'[r] = ServiceWaiting[r]
  BY QuietSame
<1>2. /\ ServicePhase = [r \in Session |-> ServicePhase[r]]
      /\ ServicePhase' = [r \in Session |-> ServicePhase'[r]]
      /\ ServiceWaiting = [r \in Session |-> ServiceWaiting[r]]
      /\ ServiceWaiting' = [r \in Session |-> ServiceWaiting'[r]]
  BY DEF ServicePhase, ServiceWaiting
<1> QED
  BY <1>1, <1>2

(* A step that moves one session moves it as the service allows. *)
Moves(s) ==
  LET was == ServicePhase[s]
      is  == ServicePhase'[s]
  IN \/ /\ owed[s] = 0 /\ owed'[s] = 1
        /\ was \in {"away", "connected", "password", "available"} /\ is = was
     \/ /\ owed[s] = 1 /\ owed'[s] = 0
        /\ is \in Service!Further(was)
     \/ /\ owed[s] = 1 /\ owed'[s] = 1
        /\ was = "available" /\ is = "transfer"
     \/ /\ owed[s] = 0 /\ owed'[s] = 0
        /\ was = "transfer" /\ is = "available"
     \/ /\ owed[s] = 0 /\ owed'[s] = 0
        /\ was \in {"connected", "password", "available"} /\ is = "gone"

LEMMA OneServed ==
  ASSUME ServiceInv, ServiceInv', NEW s \in Session, Moves(s),
         \A r \in Session \ {s} : Quiet(r)
  PROVE  Service!Next
<1>1. /\ ServicePhase' = [ServicePhase EXCEPT ![s] = ServicePhase'[s]]
      /\ ServiceWaiting' = [ServiceWaiting EXCEPT ![s] = ServiceWaiting'[s]]
  BY OneMoves
<1>2. /\ ServicePhase = [r \in Session |-> ServicePhase[r]]
      /\ ServiceWaiting = [r \in Session |-> ServiceWaiting[r]]
  BY DEF ServicePhase, ServiceWaiting
<1>3. /\ ServicePhase'[s] = ServicePhase[s] => UNCHANGED ServicePhase
      /\ ServiceWaiting'[s] = ServiceWaiting[s] => UNCHANGED ServiceWaiting
  BY <1>1, <1>2
<1>4. /\ owed[s] = 1 => ServiceWaiting[s]
      /\ owed[s] = 0 => ~ ServiceWaiting[s]
      /\ owed[s] = 0 => ServiceWaiting[s] = FALSE
      /\ owed[s] = 1 => ServiceWaiting[s] = TRUE
      /\ owed'[s] = 1 => ServiceWaiting'[s] = TRUE
      /\ owed'[s] = 0 => ServiceWaiting'[s] = FALSE
  <2>1. ServiceWaiting[s] = (owed[s] > 0) /\ ServiceWaiting'[s] = (owed'[s] > 0)
    BY DEF ServiceWaiting
  <2>2. /\ owed[s] = 1 => owed[s] > 0
        /\ owed[s] = 0 => ~ (owed[s] > 0)
        /\ owed'[s] = 1 => owed'[s] > 0
        /\ owed'[s] = 0 => ~ (owed'[s] > 0)
    OBVIOUS
  <2>3. ASSUME NEW b \in BOOLEAN PROVE (b => b = TRUE) /\ (~ b => b = FALSE)
    OBVIOUS
  <2>4. (owed[s] > 0) \in BOOLEAN /\ (owed'[s] > 0) \in BOOLEAN
    OBVIOUS
  <2> QED
    BY <2>1, <2>2, <2>3, <2>4, Zenon
<1>5. /\ owed'[s] = 1 => ServiceWaiting' = [ServiceWaiting EXCEPT ![s] = TRUE]
      /\ owed'[s] = 0 => ServiceWaiting' = [ServiceWaiting EXCEPT ![s] = FALSE]
      /\ owed'[s] = owed[s] /\ owed[s] \in {0, 1} => UNCHANGED ServiceWaiting
  BY <1>1, <1>3, <1>4
<1>6. Service!Ask(s) \/ Service!Answer(s) \/ Service!BeginTransfer(s)
      \/ Service!EndTransfer(s) \/ Service!Leave(s)
  <2>1. CASE owed[s] = 0 /\ owed'[s] = 1
    BY <1>3, <1>4, <1>5, <2>1 DEF Moves, Service!Ask
  <2>2. CASE owed[s] = 1 /\ owed'[s] = 0
    BY <1>1, <1>4, <1>5, <2>2 DEF Moves, Service!Answer
  <2>3. CASE owed[s] = 1 /\ owed'[s] = 1
    BY <1>1, <1>4, <1>5, <2>3 DEF Moves, Service!BeginTransfer
  <2>4. CASE owed[s] = 0 /\ owed'[s] = 0
    BY <1>1, <1>4, <1>5, <2>4 DEF Moves, Service!EndTransfer, Service!Leave
  <2> QED
    BY <2>1, <2>2, <2>3, <2>4 DEF Moves
<1> QED
  BY <1>6 DEF Service!Next

(* Between two states of a connection that stays open, the phase moves with *)
(* the status of its slot.                                                  *)
LEMMA SlotPhase ==
  ASSUME ServiceInv, ServiceInv', NEW s \in Session, NEW e \in Fd,
         conn[s] = "open", conn'[s] = "open", fds[e] = Ctl(s), fds'[e] = Ctl(s)
  PROVE  ServicePhase[s] = PhaseOf(status[e]) /\ ServicePhase'[s] = PhaseOf(status'[e])
<1>1. PhaseRight
  BY PhaseOfSession DEF ServiceInv
<1>2. (CarefulInv => PhaseRight)'
  BY PhaseOfSession, PTL
<1>3. ServicePhase[s] = PhaseOf(status[e])
  BY <1>1 DEF PhaseRight
<1>4. ServicePhase'[s] = PhaseOf(status'[e])
  BY <1>2 DEF ServiceInv, PhaseRight, PhaseOf
<1> QED
  BY <1>3, <1>4

(* A control connection keeps its number, and ends for no thread and for no *)
(* handler of the server.                                                   *)
ControlKept ==
  /\ \A r \in Session : conn'[r] = conn[r]
  /\ \A f \in Fd, r \in Session : fds[f] = Ctl(r) => fds'[f] = Ctl(r)

LEMMA ClosedControl ==
  ASSUME NEW S, CloseAll(S), \A f \in S : fds[f].kind # "ctl"
  PROVE  ControlKept
<1>1. \A f \in S, r \in Session : fds[f] # Ctl(r)
  BY DEF Ctl
<1> QED
  BY <1>1 DEF CloseAll, ControlKept

LEMMA OpenedControl ==
  ASSUME TypeOK, NEW f \in Fd, NEW x, fds[f].kind # "ctl", fds' = [fds EXCEPT ![f] = x],
         UNCHANGED conn
  PROVE  ControlKept
BY DEF ControlKept, Ctl, TypeOK, FdsOK

LEMMA LowestNoControl == ASSUME NEW f \in Fd, IsLowestFree(f) PROVE fds[f].kind # "ctl"
BY DEF IsLowestFree, Free, Plain

LEMMA ThreadsKeepControl ==
  ASSUME TypeOK, CarefulInv, NEW t \in Tid, ThreadStep(t)
  PROVE  ControlKept
<1>1. CASE CloseData(t)
  <2>1. task[t].pc = "close" /\ CloseAll({task[t].file, dataFd[task[t].fd]})
    BY <1>1 DEF CloseData, At, Finished
  <2>2. fds[task[t].file] = File /\ fds[dataFd[task[t].fd]] \in DataOf(task[t].who)
    BY <2>1, ThreadKnows DEF ThreadOK, StageOK, Holding
  <2> QED
    BY <2>1, <2>2, ClosedControl DEF File, Plain, DataOf, Data
<1>2. CASE ~ CloseData(t)
  <2>1. UNCHANGED <<fds, conn>>
    BY <1>2, NoCommandsTaken
       DEF ThreadStep, Begin, LoopEnds, LoopFails, Report, MakeAvailable, ForgetData, peers
  <2> QED
    BY <2>1 DEF ControlKept
<1> QED
  BY <1>1, <1>2

LEMMA HandlersKeepControl ==
  ASSUME TypeOK, CarefulInv, HandlerNext
  PROVE  ControlKept
<1>1. ASSUME UNCHANGED <<fds, conn>> PROVE ControlKept
  BY <1>1 DEF ControlKept
<1>2. ASSUME NEW f \in Fd, NEW x, IsLowestFree(f), fds' = [fds EXCEPT ![f] = x], UNCHANGED conn
      PROVE  ControlKept
  BY <1>2, OpenedControl, LowestNoControl
<1>3. main.fd \in Fd /\ dataFd[main.fd] \in Fd
  BY DEF TypeOK, ThreadsOK, MainState, SlotsOK
<1>4. CASE AnswerOnly \/ Ignore \/ User \/ Pass \/ Port \/ PasvListenFails \/ StartTransfer
           \/ OpenDirectoryFails \/ NoDataSocket \/ NoDataAddress
  BY <1>1, <1>4 DEF AnswerOnly, Ignore, User, Pass, Port, PasvListenFails, StartTransfer,
                    OpenDirectoryFails, NoDataSocket, NoDataAddress, peers
<1>5. CASE PasvFails \/ ConnectDataFails \/ SpawnFails
  BY <1>1, <1>2, <1>5 DEF PasvFails, ConnectDataFails, SpawnFails
<1>6. CASE PasvOpen \/ OpenDirectory \/ ConnectData \/ SpawnThread
  BY <1>2, <1>6 DEF PasvOpen, OpenDirectory, ConnectData, SpawnThread, peers
<1>7. CASE PasvListen
  BY <1>3, <1>7, OpenedControl DEF PasvListen
<1>8. CASE AcceptData
  <2>1. PICK f \in Fd :
          /\ IsLowestFree(f) /\ fds[dataFd[main.fd]].kind = "pasv"
          /\ fds' = [fds EXCEPT ![f] = Data(fds[dataFd[main.fd]].who, "open"),
                                ![dataFd[main.fd]].peer = "none"]
    BY <1>8 DEF AcceptData
  <2>2. fds[f].kind # "ctl"
    BY <2>1, LowestNoControl
  <2>3. \A g \in Fd : g # f /\ g # dataFd[main.fd] => fds'[g] = fds[g]
    BY <1>3, <2>1 DEF TypeOK, FdsOK
  <2>4. \A g \in Fd, r \in Session : fds[g] = Ctl(r) => fds'[g] = Ctl(r)
    <3>1. \A g \in Fd, r \in Session : fds[g] = Ctl(r) => fds[g].kind = "ctl"
      BY DEF Ctl
    <3>2. fds[dataFd[main.fd]].kind # "ctl"
      BY <2>1
    <3> QED
      BY <2>2, <2>3, <3>1, <3>2
  <2> QED
    BY <1>8, <2>4 DEF ControlKept, AcceptData, peers
<1>9. CASE SwapData
  <2>1. main.pc = "swap" /\ CloseAll({dataFd[main.fd]})
    BY <1>9 DEF SwapData, ReplaceListener
  <2>2. PICK s \in Session : HandlerOK(s)
    BY <2>1, HandlerKnows DEF Handling
  <2> QED
    BY <2>1, <2>2, ClosedControl DEF HandlerOK, Pasv
<1>10. CASE SendList
  <2>1. main.pc = "list" /\ CloseAll({main.file, dataFd[main.fd]})
    BY <1>10 DEF SendList
  <2>2. PICK s \in Session : HandlerOK(s)
    BY <2>1, HandlerKnows DEF Handling
  <2>3. fds[main.file] = File /\ fds[dataFd[main.fd]] \in DataOf(s)
    BY <2>1, <2>2 DEF HandlerOK
  <2> QED
    BY <2>1, <2>3, ClosedControl DEF File, Plain, DataOf, Data
<1> QED
  BY <1>4, <1>5, <1>6, <1>7, <1>8, <1>9, <1>10 DEF HandlerNext

(* What remains to be said of a step of a thread or of a handler: which      *)
(* status and which owed reply it changes.                                  *)
LEMMA SlotServed ==
  ASSUME ServiceInv, ServiceInv', ControlKept,
         NEW s \in Session, NEW e \in Fd, fds[e] = Ctl(s), conn[s] = "open",
         \A f \in Fd : f # e => status'[f] = status[f],
         \A r \in Session : r # s => owed'[r] = owed[r],
         \/ status'[e] = status[e] /\ owed'[s] = owed[s]
         \/ /\ owed[s] = 1 /\ owed'[s] = 0
            /\ status[e] \in {CONNECTED, PASSWORD, AVAILAVLE, TRANSFER}
            /\ \/ status'[e] = status[e]
               \/ status[e] = CONNECTED /\ status'[e] = PASSWORD
               \/ status[e] = PASSWORD /\ status'[e] = AVAILAVLE
         \/ /\ owed[s] = 1 /\ owed'[s] = 1
            /\ status[e] = AVAILAVLE /\ status'[e] = TRANSFER
         \/ /\ owed[s] = 0 /\ owed'[s] = 0
            /\ status[e] = TRANSFER /\ status'[e] = AVAILAVLE
  PROVE  Service!Next \/ UNCHANGED <<ServicePhase, ServiceWaiting>>
<1>1. \A f \in Fd : fds[f] = Ctl(s) => f = e
  BY DEF ServiceInv, CarefulInv, SessionOK, SlotOK
<1>2. \A r \in Session \ {s} : Quiet(r)
  <2>1. \A r \in Session \ {s} : fds[e] # Ctl(r)
    BY DEF Ctl
  <2> QED
    BY <2>1 DEF Quiet, ControlKept
<1>3. CASE status'[e] = status[e] /\ owed'[s] = owed[s]
  <2>1. Quiet(s)
    BY <1>1, <1>3 DEF Quiet, ControlKept
  <2> QED
    BY <1>2, <2>1, NothingServed
<1>4. CASE ~ (status'[e] = status[e] /\ owed'[s] = owed[s])
  <2>1. ServicePhase[s] = PhaseOf(status[e]) /\ ServicePhase'[s] = PhaseOf(status'[e])
    BY SlotPhase DEF ControlKept
  <2>2. Moves(s)
    BY <1>4, <2>1
    DEF Moves, PhaseOf, CONNECTED, PASSWORD, AVAILAVLE, TRANSFER, Service!Further
  <2> QED
    BY <1>2, <2>2, OneServed
<1> QED
  BY <1>3, <1>4

(* A transfer begins and ends while its thread changes the status, and is   *)
(* reported between the two.                                                *)
LEMMA ThreadServed ==
  ASSUME Careful = Session, ServiceInv, ServiceInv', NEW t \in Tid, ThreadStep(t)
  PROVE  Service!Next \/ UNCHANGED <<ServicePhase, ServiceWaiting>>
<1> DEFINE k == task[t]
           s == task[t].who
<1> USE DEF ServiceInv
<1>1. k.pc # "idle"
  BY NoCommandsTaken DEF ThreadStep, At, Begin, LoopEnds, LoopFails, Report, MakeAvailable, CloseData, ForgetData
<1>2. /\ s \in Session /\ s \in Patient /\ k.fd \in Fd
      /\ fds[k.fd] = Ctl(s) /\ conn[s] = "open" /\ StageOK(s, k)
  BY <1>1, ThreadKnows, SessionAssumption DEF ThreadOK
<1>3. ControlKept
  BY ThreadsKeepControl
<1>4. ASSUME UNCHANGED <<status, owed>>
      PROVE  Service!Next \/ UNCHANGED <<ServicePhase, ServiceWaiting>>
  BY <1>2, <1>3, <1>4, SlotServed
<1>5. CASE LoopEnds(t) \/ LoopFails(t) \/ CloseData(t) \/ ForgetData(t)
  BY <1>4, <1>5 DEF LoopEnds, LoopFails, CloseData, ForgetData, slots, peers
<1>6. CASE Begin(t)
  <2>1. /\ status[k.fd] = AVAILAVLE /\ owed[s] = 1
        /\ status' = [status EXCEPT ![k.fd] = TRANSFER] /\ UNCHANGED owed
    BY <1>2, <1>6 DEF Begin, At, StageOK, peers
  <2>2. status'[k.fd] = TRANSFER /\ \A f \in Fd : f # k.fd => status'[f] = status[f]
    BY <1>2, <2>1 DEF TypeOK, SlotsOK
  <2> QED
    BY <1>2, <1>3, <2>1, <2>2, SlotServed
<1>7. CASE Report(t)
  <2>1. status[k.fd] = TRANSFER /\ owed[s] = 1 /\ Reply(k.fd) /\ UNCHANGED status
    BY <1>2, <1>7 DEF Report, At, StageOK, slots
  <2>2. owed'[s] = 0 /\ \A r \in Session : r # s => owed'[r] = owed[r]
    BY <1>2, <2>1 DEF Reply, Ctl
  <2> QED
    BY <1>2, <1>3, <2>1, <2>2, SlotServed
<1>8. CASE MakeAvailable(t)
  <2>1. /\ status[k.fd] = TRANSFER /\ owed[s] = 0
        /\ status' = [status EXCEPT ![k.fd] = AVAILAVLE] /\ UNCHANGED owed
    BY <1>2, <1>8 DEF MakeAvailable, At, StageOK, peers
  <2>2. status'[k.fd] = AVAILAVLE /\ \A f \in Fd : f # k.fd => status'[f] = status[f]
    BY <1>2, <2>1 DEF TypeOK, SlotsOK
  <2> QED
    BY <1>2, <1>3, <2>1, <2>2, SlotServed
<1> QED
  BY <1>5, <1>6, <1>7, <1>8, NoCommandsTaken DEF ThreadStep

(* A handler ends with at most one answer, and USER and PASS take the login *)
(* one step further.                                                        *)
LEMMA HandlerServed ==
  ASSUME Careful = Session, ServiceInv, ServiceInv', HandlerNext
  PROVE  Service!Next \/ UNCHANGED <<ServicePhase, ServiceWaiting>>
<1> USE DEF ServiceInv
<1>1. main.pc \in Handling
  BY DEF HandlerNext, Handling, Serving, AnswerOnly, Ignore, User, Pass, Port, PasvFails, PasvOpen,
         PasvListen, PasvListenFails, StartTransfer, OpenDirectory, OpenDirectoryFails, ConnectData,
         NoDataSocket, ConnectDataFails, AcceptData, SwapData, NoDataAddress, SpawnThread,
         SpawnFails, SendList
<1>2. PICK s \in Session :
        /\ fds[main.fd] = Ctl(s) /\ Serves(s) /\ HandlerOK(s) /\ main.fd \in Fd
  BY <1>1, HandlerKnows
<1>3. /\ conn[s] = "open" /\ owed[s] = 1 /\ main.seen = status[main.fd]
      /\ status[main.fd] \in {CONNECTED, PASSWORD, AVAILAVLE}
  BY <1>2 DEF HandlerOK
<1>4. ControlKept
  BY HandlersKeepControl
<1>5. Answer \/ Silent =>
        owed'[s] \in {0, 1} /\ \A r \in Session : r # s => owed'[r] = owed[r]
  BY <1>2, HandlerReplies
<1>6. Answer => owed'[s] = 0
  BY <1>2, HandlerReplies
<1>7. ASSUME UNCHANGED status, Answer \/ Silent \/ UNCHANGED owed
      PROVE  Service!Next \/ UNCHANGED <<ServicePhase, ServiceWaiting>>
  <2>1. owed'[s] \in {0, 1} /\ \A r \in Session : r # s => owed'[r] = owed[r]
    BY <1>3, <1>5, <1>7
  <2> QED
    BY <1>2, <1>3, <1>4, <1>7, <2>1, SlotServed
<1>8. CASE User \/ Pass
  <2>1. /\ \/ status[main.fd] = CONNECTED /\ status'[main.fd] = PASSWORD
           \/ status[main.fd] = PASSWORD /\ status'[main.fd] = AVAILAVLE
        /\ \A f \in Fd : f # main.fd => status'[f] = status[f]
    BY <1>2, <1>3, <1>8 DEF User, Pass, Serving, TypeOK, SlotsOK
  <2>2. owed'[s] = 0 /\ \A r \in Session : r # s => owed'[r] = owed[r]
    BY <1>5, <1>6, <1>8 DEF User, Pass
  <2> QED
    BY <1>2, <1>3, <1>4, <2>1, <2>2, SlotServed
<1>9. CASE ~ (User \/ Pass)
  <2>1. UNCHANGED status
    BY <1>9 DEF HandlerNext, AnswerOnly, Ignore, Port, PasvFails, PasvOpen,
         PasvListen, PasvListenFails, StartTransfer, OpenDirectory, OpenDirectoryFails, ConnectData,
         NoDataSocket, ConnectDataFails, AcceptData, SwapData, NoDataAddress, SpawnThread,
         SpawnFails, SendList, slots
  <2>2. Answer \/ Silent \/ UNCHANGED owed
    BY <1>9 DEF HandlerNext, AnswerOnly, Ignore, Port, PasvFails, PasvOpen,
         PasvListen, PasvListenFails, StartTransfer, OpenDirectory, OpenDirectoryFails, ConnectData,
         NoDataSocket, ConnectDataFails, AcceptData, SwapData, NoDataAddress, SpawnThread,
         SpawnFails, SendList, peers
  <2> QED
    BY <1>7, <2>1, <2>2
<1> QED
  BY <1>8, <1>9

(* A client that asks or leaves does so while its session is neither        *)
(* unknown to the server nor in a transfer.                                 *)
LEMMA RestingPhase ==
  ASSUME ServiceInv, NEW s \in Session, conn[s] = "open", NoThread(s)
  PROVE  ServicePhase[s] \in {"connected", "password", "available"}
<1> USE DEF ServiceInv
<1>1. PICK e \in Fd : fds[e] = Ctl(s)
  BY DEF ServingInv, ConnectionsWatched
<1>2. e \in clientFds \ {ListenFd}
  BY <1>1 DEF ServingInv, ConnectionsWatched, ListenerOpen, Ctl, Plain
<1>3. status[e] \in Status \ {DISCONNECTED, TRANSFER}
  <2>1. status[e] # DISCONNECTED
    BY <1>2 DEF ServingInv, WatchedSlotsLive
  <2>2. status[e] # TRANSFER
    BY <1>1 DEF CarefulInv, SessionOK, SlotOK
  <2> QED
    BY <2>1, <2>2 DEF TypeOK, SlotsOK
<1>4. ServicePhase[s] = PhaseOf(status[e])
  BY <1>1, PhaseOfSession DEF PhaseRight
<1> QED
  BY <1>3, <1>4 DEF PhaseOf, Status, DISCONNECTED, CONNECTED, PASSWORD, AVAILAVLE, TRANSFER

LEMMA ClientServed ==
  ASSUME Careful = Session, ServiceInv, ServiceInv', NEW s \in Session, ClientStep(s)
  PROVE  Service!Next \/ UNCHANGED <<ServicePhase, ServiceWaiting>>
<1> USE DEF ServiceInv
<1>1. ClientOK(s) /\ s \in Patient
  BY SessionAssumption DEF CarefulInv, SessionOK
<1>2. PhaseRight /\ PhaseRight'
  <2>1. (CarefulInv => PhaseRight)'
    BY PhaseOfSession, PTL
  <2> QED
    BY <2>1, PhaseOfSession
<1>3. CASE Connect(s)
  <2>1. conn[s] = "new" /\ conn'[s] = "queued" /\ owed'[s] = 1 /\ UNCHANGED <<status, fds>>
        /\ \A r \in Session : r # s => conn'[r] = conn[r] /\ owed'[r] = owed[r]
    BY <1>1, <1>3 DEF Connect, TypeOK, PeersOK, slots
  <2>2. Moves(s)
    BY <1>1, <1>2, <2>1 DEF Moves, ClientOK, PhaseRight
  <2> QED
    BY <2>1, <2>2, OneServed DEF Quiet
<1>4. ASSUME NEW c \in Commands, Send(s, c)
      PROVE  Service!Next \/ UNCHANGED <<ServicePhase, ServiceWaiting>>
  <2>1. /\ conn[s] = "open" /\ owed[s] = 0 /\ owed'[s] = 1 /\ NoThread(s)
        /\ UNCHANGED <<status, fds, conn, task>>
        /\ \A r \in Session : r # s => owed'[r] = owed[r]
    BY <1>1, <1>4 DEF Send, MaySend, NoThread, ClientOK, TypeOK, PeersOK, slots
  <2>2. ServicePhase[s] \in {"connected", "password", "available"}
    BY <2>1, RestingPhase
  <2>3. conn'[s] = "open" /\ NoThread(s)'
    BY <2>1 DEF NoThread
  <2>4. ServicePhase'[s] = ServicePhase[s]
    <3>1. PICK e \in Fd : fds[e] = Ctl(s)
      BY <2>1 DEF ServingInv, ConnectionsWatched
    <3> QED
      BY <2>1, <3>1, SlotPhase
  <2>5. Moves(s)
    BY <2>1, <2>2, <2>4 DEF Moves
  <2> QED
    BY <2>1, <2>5, OneServed DEF Quiet
<1>5. CASE DataConnect(s) \/ DataClose(s)
  <2>1. UNCHANGED <<status, conn, owed>>
    BY <1>5 DEF DataConnect, DataClose, slots, peers
  <2>2. \A f \in Fd, r \in Session : fds[f] = Ctl(r) => fds'[f] = Ctl(r)
    <3>1. \A g \in Fd : fds'[g] # fds[g] => fds[g].kind \in {"pasv", "data"}
      <4>1. CASE DataConnect(s)
        <5>1. /\ fds[told[s]] = Pasv(s, "waiting")
              /\ fds' = [fds EXCEPT ![told[s]] = Pasv(s, "pending")]
          BY <4>1, Zenon DEF DataConnect
        <5> QED
          BY <5>1 DEF Pasv, TypeOK, FdsOK
      <4>2. CASE DataClose(s)
        <5>1. PICK h \in Fd : /\ fds[h] = Data(s, "open")
                              /\ fds' = [fds EXCEPT ![h] = Data(s, "closed")]
          BY <4>2, Zenon DEF DataClose
        <5> QED
          BY <5>1 DEF Data, TypeOK, FdsOK
      <4> QED
        BY <1>5, <4>1, <4>2
    <3> QED
      BY <3>1 DEF Ctl
  <2> QED
    BY <2>1, <2>2, NothingServed DEF Quiet
<1>6. CASE HangUp(s)
  <2>1. /\ conn[s] = "open" /\ conn'[s] = "gone" /\ owed[s] = 0 /\ last[s] = "QUIT"
        /\ UNCHANGED <<status, fds, owed>>
        /\ \A r \in Session : r # s => conn'[r] = conn[r]
    BY <1>1, <1>6 DEF HangUp, ClientOK, TypeOK, PeersOK, slots
  <2>2. NoThread(s)
    BY <2>1 DEF NoThread, CarefulInv, SessionOK, ThreadOK
  <2>3. ServicePhase[s] \in {"connected", "password", "available"}
    BY <2>1, <2>2, RestingPhase
  <2>4. ServicePhase'[s] = "gone"
    BY <1>2, <2>1 DEF PhaseRight
  <2>5. Moves(s)
    BY <2>1, <2>3, <2>4 DEF Moves
  <2> QED
    BY <2>1, <2>5, OneServed DEF Quiet
<1> QED
  BY <1>3, <1>4, <1>5, <1>6 DEF ClientStep

LEMMA LoopServed ==
  ASSUME Careful = Session, ServiceInv, ServiceInv', LoopNext
  PROVE  Service!Next \/ UNCHANGED <<ServicePhase, ServiceWaiting>>
<1> USE DEF ServiceInv
<1>1. ASSUME UNCHANGED <<status, fds, conn, owed>>
      PROVE  Service!Next \/ UNCHANGED <<ServicePhase, ServiceWaiting>>
  BY <1>1, NothingServed DEF Quiet
<1>2. CASE SelectFails \/ Select \/ EndPass \/ AcceptFails
  BY <1>1, <1>2 DEF SelectFails, Select, EndPass, AcceptFails, slots, peers
<1>3. ASSUME NEW e \in Fd, ReadLine(e) \/ ReadEmptyLine(e)
      PROVE  Service!Next \/ UNCHANGED <<ServicePhase, ServiceWaiting>>
  BY <1>1, <1>3 DEF ReadLine, ReadEmptyLine, slots
<1>4. CASE Accept
  <2>1. PICK s \in Session, f \in Fd :
          /\ conn[s] = "queued" /\ IsLowestFree(f)
          /\ fds' = [fds EXCEPT ![f] = Ctl(s)]
          /\ conn' = [conn EXCEPT ![s] = "open"]
          /\ owed' = [owed EXCEPT ![s] = 0]
          /\ status' = [status EXCEPT ![f] = CONNECTED]
    BY <1>4 DEF Accept
  <2>2. fds'[f] = Ctl(s) /\ \A g \in Fd : g # f => fds'[g] = fds[g] /\ status'[g] = status[g]
    BY <2>1 DEF TypeOK, FdsOK, SlotsOK
  <2>3. conn'[s] = "open" /\ owed'[s] = 0 /\ status'[f] = CONNECTED
        /\ \A r \in Session : r # s => conn'[r] = conn[r] /\ owed'[r] = owed[r]
    BY <2>1 DEF TypeOK, PeersOK, SlotsOK
  <2>4. \A r \in Session : fds[f] # Ctl(r)
    BY <2>1, LowestNoControl DEF Ctl
  <2>5. \A r \in Session \ {s} : Quiet(r)
    BY <2>2, <2>3, <2>4 DEF Quiet
  <2>6. PhaseRight /\ PhaseRight'
    <3>1. (CarefulInv => PhaseRight)'
      BY PhaseOfSession, PTL
    <3> QED
      BY <3>1, PhaseOfSession
  <2>7. ServicePhase[s] = "away" /\ owed[s] = 1
    BY <2>1, <2>6 DEF PhaseRight, CarefulInv, SessionOK, ClientOK
  <2>8. ServicePhase'[s] = "connected"
    <3>1. ServicePhase'[s] = PhaseOf(status'[f])
      BY <2>2, <2>3, <2>6 DEF PhaseRight, PhaseOf
    <3> QED
      BY <2>3, <3>1 DEF PhaseOf, CONNECTED, PASSWORD, AVAILAVLE, TRANSFER
  <2>9. Moves(s)
    BY <2>3, <2>7, <2>8 DEF Moves, Service!Further
  <2> QED
    BY <2>5, <2>9, OneServed
<1>5. ASSUME NEW e \in Fd, Disconnect(e)
      PROVE  Service!Next \/ UNCHANGED <<ServicePhase, ServiceWaiting>>
  <2>1. e \in clientFds \ {ListenFd}
    BY <1>5 DEF Disconnect, AtEvent, IsClient, ServingInv, ListenerNotHeld
  <2>2. PICK s \in Session : fds[e] = Ctl(s)
    BY <2>1 DEF CarefulInv, WatchedAreConnections, CtlShape
  <2>3. conn[s] = "gone"
    BY <1>5, <2>2 DEF Disconnect, ReadFails, Ctl
  <2>4. /\ CloseAll({e}) /\ status' = [status EXCEPT ![e] = DISCONNECTED]
        /\ UNCHANGED owed
    BY <1>5 DEF Disconnect
  <2>5. \A f \in Fd : f # e => fds'[f] = fds[f] /\ status'[f] = status[f]
    BY <2>4 DEF CloseAll, TypeOK, SlotsOK
  <2>6. \A r \in Session : fds[e] = Ctl(r) => r = s
    BY <2>2 DEF Ctl
  <2>7. \A r \in Session : conn'[r] = conn[r]
    BY <2>3, <2>4, <2>6 DEF CloseAll
  <2>8. \A r \in Session : Quiet(r)
    BY <2>3, <2>4, <2>5, <2>6, <2>7 DEF Quiet
  <2> QED
    BY <2>8, NothingServed
<1> QED
  BY <1>2, <1>3, <1>4, <1>5, AllGreeted DEF LoopNext

LEMMA NextServed ==
  ASSUME Careful = Session, ServiceInv, ServiceInv', [Next]_vars
  PROVE  Service!Next \/ UNCHANGED <<ServicePhase, ServiceWaiting>>
<1>1. CASE BrokenPipe \/ UNCHANGED vars
  <2>1. UNCHANGED <<status, fds, conn, owed>>
    BY <1>1 DEF BrokenPipe, vars, slots, peers
  <2> QED
    BY <2>1, NothingServed DEF Quiet
<1> QED
  BY <1>1, LoopServed, HandlerServed, ThreadServed, ClientServed DEF Next

LEMMA InitServed == Init => Service!Init
<1> SUFFICES ASSUME Init PROVE Service!Init
  OBVIOUS
<1>1. ServicePhase = [s \in Session |-> "away"]
  BY DEF Init, ServicePhase
<1>2. ASSUME NEW s \in Session PROVE (owed[s] > 0) = FALSE
  <2>1. owed[s] = 0
    BY DEF Init
  <2>2. ~ (owed[s] > 0)
    BY <2>1
  <2>3. (owed[s] > 0) \in BOOLEAN
    OBVIOUS
  <2> QED
    BY <2>2, <2>3, Zenon
<1>3. ServiceWaiting = [s \in Session |-> FALSE]
  BY <1>2, Zenon DEF ServiceWaiting
<1> QED
  BY <1>1, <1>3 DEF Service!Init

(* The server and its careful clients implement FtpService: the greeting,   *)
(* one answer to each command, the login in two steps, and a transfer that  *)
(* begins and is answered while its command waits, whatever else happens.   *)
THEOREM ServiceAlwaysKept == ASSUME Careful = Session PROVE Spec => ServiceKept
<1>1. Spec => []ServiceInv
  BY TypeCorrect, ServingInvariant, CarefulInvariant, PTL DEF ServiceInv
<1>2. ASSUME ServiceInv, ServiceInv', [Next]_vars
      PROVE  [Service!Next]_<<ServicePhase, ServiceWaiting>>
  BY <1>2, NextServed
<1>3. Init => Service!Init
  BY InitServed
<1> QED
  BY <1>1, <1>2, <1>3, PTL DEF Spec, ServiceKept, Service!Spec
=============================================================================
