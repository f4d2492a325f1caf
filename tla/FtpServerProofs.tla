-------------------------- MODULE FtpServerProofs --------------------------
(***************************************************************************)
(* What the server keeps true whatever its clients do, however many there  *)
(* are, whatever fails and whatever the transfer threads left behind do.   *)
(***************************************************************************)
EXTENDS FtpServer, TLAPS

USE SessionAssumption, InputAssumption, BoundAssumption
 DEF Fd, ListenFd, NoAddress

(* Every object the server or a client puts into the table is an Object. *)
LEMMA ObjectTypes ==
  /\ Free \in Object /\ File \in Object
  /\ \A s \in Session \cup {Nobody} :
       /\ Ctl(s) \in Object
       /\ Sock(s) \in Object
       /\ \A p \in {"none", "waiting", "pending", "open", "closed"} :
            Pasv(s, p) \in Object /\ Data(s, p) \in Object
BY DEF Free, File, Plain, Ctl, Sock, Pasv, Data, Object

(* What a step leaves alone keeps its type. *)
LEMMA TypeFrames ==
  /\ SlotsOK /\ UNCHANGED slots => SlotsOK'
  /\ WatchingOK /\ UNCHANGED watching => WatchingOK'
  /\ ThreadsOK /\ UNCHANGED <<main, task>> => ThreadsOK'
  /\ FdsOK /\ UNCHANGED fds => FdsOK'
  /\ PeersOK /\ UNCHANGED peers => PeersOK'
BY DEF SlotsOK, WatchingOK, ThreadsOK, FdsOK, PeersOK, slots, watching, peers

(* control_init's set-up leaves every variable in its type. *)
LEMMA InitTypeOK == Init => TypeOK
<1> SUFFICES ASSUME Init PROVE TypeOK
  OBVIOUS
<1>1. SlotsOK
  BY DEF Init, SlotsOK, Status, Mode, DISCONNECTED, NONE_MODE
<1>2. WatchingOK
  BY DEF Init, WatchingOK
<1>3. ThreadsOK
  BY DEF Init, ThreadsOK, Idle, Scanning, MainState, Task, Line, Status, DISCONNECTED
<1>4. FdsOK
  BY DEF Init, FdsOK, Plain, Free, Object
<1>5. PeersOK
  BY DEF Init, PeersOK, Line
<1> QED
  BY <1>1, <1>2, <1>3, <1>4, <1>5 DEF TypeOK

(* The steps of control_init's loop keep the types. *)
LEMMA LoopTypeOK == TypeOK /\ LoopNext => TypeOK'
<1> SUFFICES ASSUME TypeOK, LoopNext PROVE TypeOK'
  OBVIOUS
<1> USE TypeFrames DEF TypeOK
<1>1. CASE SelectFails
  BY <1>1 DEF SelectFails, ThreadsOK, MainState
<1>2. CASE Select
  BY <1>2 DEF Select, ThreadsOK, WatchingOK, MainState, watching
<1>3. CASE EndPass
  BY <1>3 DEF EndPass, ThreadsOK, WatchingOK, MainState
<1>4. CASE Accept
  <2>1. PICK s \in Session, f \in Fd :
          /\ fds' = [fds EXCEPT ![f] = Ctl(s)]
          /\ conn' = [conn EXCEPT ![s] = "open"]
          /\ owed' = [owed EXCEPT ![s] = 0]
          /\ status' = [status EXCEPT ![f] = CONNECTED]
          /\ Watch(f)
          /\ maxFd' = Larger(f, maxFd)
    BY <1>4 DEF Accept
  <2>2. FdsOK'
    BY <2>1, ObjectTypes DEF FdsOK
  <2>3. SlotsOK'
    BY <1>4, <2>1 DEF Accept, SlotsOK, Status, CONNECTED
  <2>4. WatchingOK'
    BY <1>4, <2>1 DEF Accept, WatchingOK, Watch, Larger
  <2>5. PeersOK'
    BY <1>4, <2>1 DEF Accept, PeersOK
  <2> QED
    BY <1>4, <2>2, <2>3, <2>4, <2>5 DEF Accept
<1>5. CASE AcceptFails
  BY <1>5 DEF AcceptFails, ThreadsOK, MainState
<1>6. ASSUME NEW e \in Fd, Disconnect(e) PROVE TypeOK'
  <2>1. FdsOK'
    BY <1>6, ObjectTypes DEF Disconnect, CloseAll, FdsOK
  <2>2. SlotsOK'
    BY <1>6 DEF Disconnect, SlotsOK, Status, Mode, DISCONNECTED, NONE_MODE
  <2>3. WatchingOK'
    BY <1>6 DEF Disconnect, WatchingOK, StopWatching, RefindMax
  <2>4. PeersOK'
    BY <1>6 DEF Disconnect, PeersOK, CloseAll
  <2> QED
    BY <1>6, <2>1, <2>2, <2>3, <2>4 DEF Disconnect
<1>7. ASSUME NEW e \in Fd, ReadLine(e) PROVE TypeOK'
  <2>1. PICK s \in Session :
          /\ line' = [line EXCEPT ![s] = "none"]
          /\ main' = [main EXCEPT !.pc = "handle", !.fd = e, !.cmd = line[s],
                                  !.seen = status[e]]
    BY <1>7 DEF ReadLine
  <2>2. line[s] \in Line /\ status[e] \in Status
    BY DEF PeersOK, SlotsOK
  <2>3. main' \in MainState
    BY <2>1, <2>2 DEF ThreadsOK, MainState
  <2>4. PeersOK'
    BY <1>7, <2>1 DEF ReadLine, PeersOK, Line
  <2> QED
    BY <1>7, <2>3, <2>4 DEF ReadLine, ThreadsOK, WatchingOK
<1>8. ASSUME NEW e \in Fd, ReadEmptyLine(e) PROVE TypeOK'
  <2>1. PeersOK'
    BY <1>8 DEF ReadEmptyLine, PeersOK, Line
  <2> QED
    BY <1>8, <2>1 DEF ReadEmptyLine, ThreadsOK, MainState
<1>9. CASE GreetingFails
  <2>1. PICK s \in Session, f \in Fd :
          /\ fds' = [fds EXCEPT ![f] = Ctl(s)]
          /\ conn' = [conn EXCEPT ![s] = "gone"]
          /\ status' = [status EXCEPT ![f] = CONNECTED]
          /\ Watch(f)
          /\ maxFd' = Larger(f, maxFd)
    BY <1>9 DEF GreetingFails
  <2>2. FdsOK'
    BY <2>1, ObjectTypes DEF FdsOK
  <2>3. SlotsOK'
    BY <1>9, <2>1 DEF GreetingFails, SlotsOK, Status, CONNECTED
  <2>4. WatchingOK'
    BY <1>9, <2>1 DEF GreetingFails, WatchingOK, Watch, Larger
  <2>5. PeersOK'
    BY <1>9, <2>1 DEF GreetingFails, PeersOK
  <2>6. ThreadsOK'
    BY <1>9 DEF GreetingFails, ThreadsOK, MainState
  <2> QED
    BY <2>2, <2>3, <2>4, <2>5, <2>6
<1> QED
  BY <1>1, <1>2, <1>3, <1>4, <1>5, <1>6, <1>7, <1>8, <1>9 DEF LoopNext

(* A handler that ends returns to the loop, with a reply or without. *)
LEMMA HandlerEnds ==
  ASSUME TypeOK, Answer \/ Silent
  PROVE  main' \in MainState /\ owed' \in [Session -> Int]
BY DEF TypeOK, PeersOK, Answer, Silent, Reply, Scanning, MainState, Line, Status, DISCONNECTED

(* The session a handler serves, if its descriptor still has one. *)
LEMMA OwnerType == TypeOK => Owner \in Session \cup {Nobody}
BY DEF TypeOK, FdsOK, ThreadsOK, Owner, MainState, Object

(* The steps of interpret() and of its handlers keep the types. *)
LEMMA HandlerTypeOK == TypeOK /\ HandlerNext => TypeOK'
<1> SUFFICES ASSUME TypeOK, HandlerNext PROVE TypeOK'
  OBVIOUS
<1> USE TypeFrames, OwnerType, ObjectTypes DEF TypeOK
<1>a. ASSUME Answer \/ Silent, UNCHANGED task PROVE ThreadsOK'
  BY <1>a, HandlerEnds DEF ThreadsOK
<1>b. ASSUME Answer \/ Silent, UNCHANGED <<conn, line, told, dataReady, last, loggedIn>>
      PROVE  PeersOK'
  BY <1>b, HandlerEnds DEF PeersOK
<1>1. CASE AnswerOnly
  BY <1>1, <1>a, <1>b DEF AnswerOnly
<1>2. CASE Ignore
  BY <1>2, <1>a, <1>b DEF Ignore
<1>3. CASE User
  BY <1>3, <1>a, <1>b DEF User, SlotsOK, Status, PASSWORD
<1>4. CASE Pass
  <2>1. SlotsOK'
    BY <1>4 DEF Pass, SlotsOK, Status, AVAILAVLE
  <2>2. PeersOK'
    BY <1>4, HandlerEnds DEF Pass, PeersOK
  <2> QED
    BY <1>4, <1>a, <2>1, <2>2 DEF Pass
<1>5. CASE Port
  <2>1. SlotsOK'
    BY <1>5 DEF Port, SlotsOK, Mode, PORT_MODE
  <2>2. PeersOK'
    <3>1. told' \in [Session -> Fd]
      BY <1>5 DEF Port, Tell, PeersOK
    <3>2. dataReady' \in [Session -> BOOLEAN]
      BY <1>5 DEF Port, Tell, PeersOK
    <3> QED
      BY <1>5, <3>1, <3>2, HandlerEnds DEF Port, PeersOK
  <2> QED
    BY <1>5, <1>a, <2>1, <2>2 DEF Port
<1>6. CASE PasvFails
  <2>1. FdsOK'
    BY <1>6 DEF PasvFails, FdsOK
  <2> QED
    BY <1>6, <1>a, <1>b, <2>1 DEF PasvFails
<1>7. CASE PasvOpen
  <2>1. FdsOK'
    BY <1>7 DEF PasvOpen, FdsOK
  <2>2. SlotsOK'
    <3>1. PICK f \in Fd : dataFd' = [dataFd EXCEPT ![main.fd] = f]
      BY <1>7 DEF PasvOpen
    <3>2. dataFd \in [Fd -> Fd]
      BY DEF SlotsOK
    <3>3. dataFd' \in [Fd -> Fd]
      BY ONLY <3>1, <3>2
    <3> QED
      BY <1>7, <3>3 DEF PasvOpen, SlotsOK
  <2>3. ThreadsOK'
    BY <1>7 DEF PasvOpen, ThreadsOK, MainState
  <2> QED
    BY <1>7, <2>1, <2>2, <2>3 DEF PasvOpen
<1>8. CASE PasvListen
  <2>1. dataFd[main.fd] \in Fd
    BY DEF SlotsOK, ThreadsOK, MainState
  <2>2. fds[dataFd[main.fd]].who \in Session \cup {Nobody}
    BY <2>1 DEF FdsOK, Object
  <2>3. FdsOK'
    BY <1>8, <2>1, <2>2 DEF PasvListen, FdsOK, Listening
  <2>4. SlotsOK'
    BY <1>8 DEF PasvListen, SlotsOK, Mode, PASV_MODE
  <2>5. PeersOK'
    BY <1>8, <2>1, HandlerEnds DEF PasvListen, Tell, PeersOK
  <2> QED
    BY <1>8, <1>a, <2>3, <2>4, <2>5 DEF PasvListen
<1>9. CASE PasvListenFails
  BY <1>9, <1>a, <1>b DEF PasvListenFails
<1>10. CASE StartTransfer
  BY <1>10 DEF StartTransfer, ThreadsOK, MainState
<1>11. CASE OpenDirectory
  <2>1. FdsOK'
    BY <1>11 DEF OpenDirectory, FdsOK
  <2>2. ThreadsOK'
    BY <1>11 DEF OpenDirectory, ThreadsOK, MainState
  <2> QED
    BY <1>11, <2>1, <2>2 DEF OpenDirectory
<1>12. CASE OpenDirectoryFails
  BY <1>12, <1>a, <1>b DEF OpenDirectoryFails
<1>13. CASE ConnectData
  <2>1. FdsOK'
    BY <1>13 DEF ConnectData, FdsOK
  <2>2. SlotsOK'
    <3>1. PICK f \in Fd : dataFd' = [dataFd EXCEPT ![main.fd] = f]
      BY <1>13 DEF ConnectData
    <3>2. dataFd \in [Fd -> Fd]
      BY DEF SlotsOK
    <3>3. dataFd' \in [Fd -> Fd]
      BY ONLY <3>1, <3>2
    <3> QED
      BY <1>13, <3>3 DEF ConnectData, SlotsOK
  <2>3. ThreadsOK'
    BY <1>13 DEF ConnectData, AfterData, ThreadsOK, MainState
  <2> QED
    BY <1>13, <2>1, <2>2, <2>3 DEF ConnectData
<1>14. CASE NoDataSocket
  BY <1>14, <1>a, <1>b DEF NoDataSocket
<1>15. CASE ConnectDataFails
  <2>1. FdsOK'
    BY <1>15 DEF ConnectDataFails, FdsOK
  <2> QED
    BY <1>15, <1>a, <1>b, <2>1 DEF ConnectDataFails
<1>16. CASE AcceptData
  <2> DEFINE g == dataFd[main.fd]
  <2>1. g \in Fd
    BY DEF SlotsOK, ThreadsOK, MainState
  <2>2. PICK f \in Fd :
          /\ fds' = [fds EXCEPT ![f] = Data(fds[g].who, "open"), ![g].peer = "none"]
          /\ main' = [main EXCEPT !.pc = "swap", !.sock = f]
    BY <1>16 DEF AcceptData
  <2>3. fds[g] \in Object /\ [fds[g] EXCEPT !.peer = "none"] \in Object
    BY <2>1 DEF FdsOK, Object
  <2>4. Data(fds[g].who, "open") \in Object
    BY <2>3 DEF Object
  <2>5. [Data(fds[g].who, "open") EXCEPT !.peer = "none"] \in Object
    BY <2>4 DEF Object
  <2>6. FdsOK'
    BY <2>1, <2>2, <2>3, <2>4, <2>5 DEF FdsOK
  <2>7. ThreadsOK'
    BY <1>16, <2>2 DEF AcceptData, ThreadsOK, MainState
  <2> QED
    BY <1>16, <2>6, <2>7 DEF AcceptData
<1>17. CASE SwapData
  <2>1. FdsOK'
    BY <1>17 DEF SwapData, ReplaceListener, CloseAll, FdsOK
  <2>2. SlotsOK'
    BY <1>17 DEF SwapData, ReplaceListener, SlotsOK, ThreadsOK, MainState
  <2>3. ThreadsOK'
    BY <1>17 DEF SwapData, AfterData, ThreadsOK, MainState
  <2>4. PeersOK'
    BY <1>17 DEF SwapData, ReplaceListener, CloseAll, PeersOK
  <2> QED
    BY <1>17, <2>1, <2>2, <2>3, <2>4 DEF SwapData
<1>18. CASE NoDataAddress
  BY <1>18, <1>a, <1>b DEF NoDataAddress
<1>19. CASE SpawnThread
  <2>1. PICK f \in Fd, t \in Tid, k \in {"send", "spin", "recv"} :
          /\ fds' = [fds EXCEPT ![f] = File]
          /\ task' = [task EXCEPT ![t] = NewTask(k, f)]
    BY <1>19 DEF SpawnThread
  <2>2. FdsOK'
    BY <2>1 DEF FdsOK
  <2>3. NewTask(k, f) \in Task
    BY DEF NewTask, Task, ThreadsOK, MainState
  <2>4. ThreadsOK'
    BY <1>19, <2>1, <2>3 DEF SpawnThread, ThreadsOK, Scanning, MainState, Line, Status,
                            DISCONNECTED
  <2> QED
    BY <1>19, <2>2, <2>4 DEF SpawnThread
<1>20. CASE SpawnFails
  <2>1. FdsOK'
    BY <1>20 DEF SpawnFails, FdsOK
  <2> QED
    BY <1>20, <1>a, <1>b, <2>1 DEF SpawnFails
<1>21. CASE SendList
  <2>1. FdsOK'
    BY <1>21 DEF SendList, CloseAll, FdsOK
  <2>2. SlotsOK'
    <3>1. mode' \in [Fd -> Mode]
      <4>1. mode' = [mode EXCEPT ![main.fd] = NONE_MODE]
        BY <1>21 DEF SendList
      <4>2. mode \in [Fd -> Mode] /\ NONE_MODE \in Mode
        BY DEF SlotsOK, Mode
      <4> QED
        BY ONLY <4>1, <4>2
    <3>2. dataFd' = [dataFd EXCEPT ![main.fd] = 0]
      BY <1>21 DEF SendList
    <3>3. dataFd \in [Fd -> Fd] /\ 0 \in Fd
      <4>1. dataFd \in [Fd -> Fd]
        BY DEF SlotsOK
      <4>2. 0 \in Fd
        BY BoundAssumption DEF Fd
      <4> QED
        BY ONLY <4>1, <4>2
    <3>4. dataFd' \in [Fd -> Fd]
      BY ONLY <3>2, <3>3
    <3> QED
      BY <1>21, <3>1, <3>4 DEF SendList, SlotsOK
  <2>3. PeersOK'
    <3>1. conn' \in [Session -> {"new", "queued", "open", "gone"}]
      BY <1>21 DEF SendList, CloseAll, PeersOK
    <3> QED
      BY <1>21, <3>1, HandlerEnds DEF SendList, PeersOK
  <2> QED
    BY <1>21, <1>a, <2>1, <2>2, <2>3 DEF SendList
<1> QED
  BY <1>1, <1>2, <1>3, <1>4, <1>5, <1>6, <1>7, <1>8, <1>9, <1>10, <1>11,
     <1>12, <1>13, <1>14, <1>15, <1>16, <1>17, <1>18, <1>19, <1>20, <1>21
  DEF HandlerNext

(* The steps of send_file and recv_file keep the types. *)
LEMMA ThreadTypeOK == TypeOK /\ (\E t \in Tid : ThreadStep(t)) => TypeOK'
<1> SUFFICES ASSUME TypeOK, NEW t \in Tid, ThreadStep(t) PROVE TypeOK'
  OBVIOUS
<1> USE TypeFrames, ObjectTypes DEF TypeOK
<1>a. ASSUME NEW p \in {"loop", "report", "avail", "close", "zero", "dead"},
             Goto(t, p), UNCHANGED main
      PROVE  ThreadsOK'
  BY <1>a DEF Goto, ThreadsOK, Task
<1>b. task[t].fd \in Fd
  BY DEF ThreadsOK, Task
<1>1. CASE Begin(t)
  BY <1>1, <1>a, <1>b DEF Begin, SlotsOK, Status, TRANSFER
<1>2. CASE LoopEnds(t)
  BY <1>2, <1>a DEF LoopEnds
<1>3. CASE LoopFails(t)
  BY <1>3, <1>a DEF LoopFails
<1>4. CASE Report(t)
  <2>1. PeersOK'
    BY <1>4 DEF Report, Reply, PeersOK
  <2> QED
    BY <1>4, <1>a, <2>1 DEF Report
<1>5. CASE MakeAvailable(t)
  <2>1. SlotsOK'
    BY <1>5, <1>b DEF MakeAvailable, SlotsOK, Status, Mode, AVAILAVLE, NONE_MODE
  <2> QED
    BY <1>5, <1>a, <2>1 DEF MakeAvailable
<1>6. CASE CloseData(t)
  <2>1. FdsOK'
    BY <1>6 DEF CloseData, CloseAll, FdsOK
  <2>2. PeersOK'
    BY <1>6 DEF CloseData, CloseAll, PeersOK
  <2> QED
    BY <1>6, <1>a, <2>1, <2>2 DEF CloseData
<1>7. CASE ForgetData(t)
  <2>1. SlotsOK'
    BY <1>7, <1>b DEF ForgetData, SlotsOK
  <2>2. ThreadsOK'
    BY <1>7 DEF ForgetData, ThreadsOK, Idle, Task
  <2> QED
    BY <1>7, <2>1, <2>2 DEF ForgetData
<1>8. CASE LoopReads(t)
  <2>1. PeersOK'
    BY <1>8 DEF LoopReads, PeersOK, Line
  <2> QED
    BY <1>8, <2>1 DEF LoopReads
<1> QED
  BY <1>1, <1>2, <1>3, <1>4, <1>5, <1>6, <1>7, <1>8 DEF ThreadStep

(* Nothing a client does disturbs the types. *)
LEMMA ClientTypeOK == TypeOK /\ (\E s \in Session : ClientStep(s)) => TypeOK'
<1> SUFFICES ASSUME TypeOK, NEW s \in Session, ClientStep(s) PROVE TypeOK'
  OBVIOUS
<1> USE TypeFrames, ObjectTypes DEF TypeOK
<1>1. CASE Connect(s)
  <2>1. PeersOK'
    BY <1>1 DEF Connect, PeersOK
  <2> QED
    BY <1>1, <2>1 DEF Connect
<1>2. ASSUME NEW c \in Commands, Send(s, c) PROVE TypeOK'
  <2>1. PeersOK'
    BY <1>2 DEF Send, PeersOK, Line
  <2> QED
    BY <1>2, <2>1 DEF Send
<1>3. CASE DataConnect(s)
  <2>1. FdsOK'
    BY <1>3 DEF DataConnect, FdsOK
  <2>2. PeersOK'
    BY <1>3 DEF DataConnect, PeersOK
  <2> QED
    BY <1>3, <2>1, <2>2 DEF DataConnect
<1>4. CASE DataClose(s)
  <2>1. FdsOK'
    BY <1>4 DEF DataClose, FdsOK
  <2> QED
    BY <1>4, <2>1 DEF DataClose
<1>5. CASE HangUp(s)
  <2>1. PeersOK'
    BY <1>5 DEF HangUp, PeersOK
  <2> QED
    BY <1>5, <2>1 DEF HangUp
<1> QED
  BY <1>1, <1>2, <1>3, <1>4, <1>5 DEF ClientStep

(* Every step keeps the types. *)
LEMMA NextTypeOK == TypeOK /\ [Next]_vars => TypeOK'
<1> SUFFICES ASSUME TypeOK, [Next]_vars PROVE TypeOK'
  OBVIOUS
<1>1. CASE BrokenPipe
  BY <1>1, TypeFrames DEF BrokenPipe, TypeOK, ThreadsOK, MainState
<1>2. CASE UNCHANGED vars
  BY <1>2, TypeFrames DEF vars, TypeOK
<1> QED
  BY <1>1, <1>2, LoopTypeOK, HandlerTypeOK, ThreadTypeOK, ClientTypeOK DEF Next

(* The state the threads share keeps its types: in particular max_fd stays  *)
(* a descriptor number, and every slot a status of status.h.                *)
THEOREM TypeCorrect == Spec => []TypeOK
BY InitTypeOK, NextTypeOK, PTL DEF Spec

-----------------------------------------------------------------------------
(* Why: a pass visits watched descriptors only, and no slot, thread or      *)
(* handler ever holds the number of the listening socket, so that what they *)
(* close, however late and however often, is never that one.                *)
ListenerNotHeld ==
  /\ tempFds \subseteq clientFds
  /\ \A f \in Fd : dataFd[f] # ListenFd
  /\ \A t \in Tid : task[t].file # ListenFd
  /\ main.sock # ListenFd
  /\ main.file # ListenFd

(* The inductive invariant: together with TypeOK, each part needs the others. *)
ServingInv ==
  /\ MaxFdIsLargest
  /\ WatchedSlotsLive
  /\ ConnectionsWatched
  /\ ListenerOpen
  /\ ListenerNotHeld

(* Only accept() and the end of a connection change client_fds and max_fd.  *)
(* Every other step is harmless to what ServingInv says: it may close       *)
(* control connections, but then their clients see the end of them; it puts *)
(* no control connection into the table; it marks no slot DISCONNECTED; and *)
(* it takes no hold of the listening socket.                                *)
HarmlessTable ==
  /\ \A f \in Fd :
       fds'[f] # fds[f] =>
         /\ f # ListenFd
         /\ fds'[f].kind # "ctl"
         /\ \A s \in Session : fds[f] = Ctl(s) => conn'[s] # "open"
  /\ \A s \in Session : conn'[s] = "open" => conn[s] = "open"

HarmlessSlots ==
  \A f \in Fd :
    /\ status'[f] = status[f] \/ status'[f] # DISCONNECTED
    /\ dataFd'[f] = dataFd[f] \/ dataFd'[f] # ListenFd

HarmlessThreads ==
  /\ \A t \in Tid : task'[t].file = task[t].file \/ task'[t].file # ListenFd
  /\ main'.sock = main.sock \/ main'.sock # ListenFd
  /\ main'.file = main.file \/ main'.file # ListenFd

Harmless ==
  /\ HarmlessTable
  /\ HarmlessSlots
  /\ HarmlessThreads
  /\ UNCHANGED <<clientFds, maxFd>>
  /\ tempFds' \subseteq clientFds

(* A harmless step keeps the invariant. *)
LEMMA HarmlessServing ==
  ASSUME TypeOK, TypeOK', ServingInv, Harmless
  PROVE  ServingInv'
<1> USE DEF ServingInv, Harmless
<1>1. MaxFdIsLargest'
  BY DEF MaxFdIsLargest
<1>2. WatchedSlotsLive'
  BY DEF WatchedSlotsLive, HarmlessSlots, TypeOK, WatchingOK
<1>3. ConnectionsWatched'
  BY DEF ConnectionsWatched, HarmlessTable
<1>4. ListenerOpen'
  BY DEF ListenerOpen, HarmlessTable
<1>5. ListenerNotHeld'
  BY DEF ListenerNotHeld, HarmlessSlots, HarmlessThreads
<1> QED
  BY <1>1, <1>2, <1>3, <1>4, <1>5

(* What a step leaves alone it does not harm. *)
LEMMA HarmlessFrames ==
  /\ UNCHANGED <<fds, conn>> => HarmlessTable
  /\ UNCHANGED <<status, dataFd>> => HarmlessSlots
  /\ UNCHANGED <<main, task>> => HarmlessThreads
BY DEF HarmlessTable, HarmlessSlots, HarmlessThreads

(* close() of any numbers but the listening socket's *)
LEMMA CloseHarmless ==
  ASSUME NEW S, ListenFd \notin S, CloseAll(S)
  PROVE  HarmlessTable
BY DEF CloseAll, HarmlessTable, Free, Plain

(* A new descriptor takes a number that is free, so not the listening one. *)
LEMMA OpenHarmless ==
  ASSUME TypeOK, ServingInv, UNCHANGED conn, NEW f \in Fd, IsLowestFree(f),
         NEW x, x.kind # "ctl", fds' = [fds EXCEPT ![f] = x]
  PROVE  HarmlessTable /\ f # ListenFd
BY DEF TypeOK, FdsOK, ServingInv, ListenerOpen, IsLowestFree, Free, Plain, Ctl, HarmlessTable

(* The number the kernel would hand out next. *)
LEMMA FreeNotListening ==
  ASSUME ServingInv, NEW f \in Fd, IsLowestFree(f)
  PROVE  f # ListenFd
BY DEF ServingInv, ListenerOpen, IsLowestFree, Free, Plain

(* The invariant holds when control_init enters its loop. *)
LEMMA InitServing == Init => ServingInv
<1> SUFFICES ASSUME Init PROVE ServingInv
  OBVIOUS
<1>1. MaxFdIsLargest /\ WatchedSlotsLive /\ ListenerOpen
  BY DEF Init, MaxFdIsLargest, WatchedSlotsLive, ListenerOpen
<1>2. ConnectionsWatched
  BY DEF Init, ConnectionsWatched, Plain, Free
<1>3. ListenerNotHeld
  BY DEF Init, ListenerNotHeld, Idle, Scanning
<1> QED
  BY <1>1, <1>2, <1>3 DEF ServingInv

-----------------------------------------------------------------------------
(* accept() adds the new descriptor to the slots and to client_fds together, *)
(* whether the greeting reaches the client or finds it gone.                 *)
LEMMA AcceptServing ==
  ASSUME TypeOK, TypeOK', ServingInv, Accept \/ GreetingFails
  PROVE  ServingInv'
<1> USE DEF ServingInv
<1>1. PICK s \in Session, f \in Fd, p \in {"open", "gone"} :
        /\ conn[s] = "queued"
        /\ IsLowestFree(f)
        /\ fds' = [fds EXCEPT ![f] = Ctl(s)]
        /\ conn' = [conn EXCEPT ![s] = p]
        /\ status' = [status EXCEPT ![f] = CONNECTED]
        /\ Watch(f)
        /\ maxFd' = Larger(f, maxFd)
  <2>1. CASE Accept
    BY <2>1 DEF Accept
  <2>2. CASE GreetingFails
    BY <2>2 DEF GreetingFails
  <2> QED
    BY <2>1, <2>2
<1>2. f # ListenFd
  BY <1>1, FreeNotListening
<1>3. MaxFdIsLargest'
  BY <1>1 DEF MaxFdIsLargest, Watch, Larger, TypeOK, WatchingOK
<1>4. WatchedSlotsLive'
  BY <1>1 DEF WatchedSlotsLive, Watch, TypeOK, SlotsOK, WatchingOK, CONNECTED, DISCONNECTED
<1>5. ConnectionsWatched'
  <2>1. \A g \in Fd : fds'[g].kind = "ctl" => g \in clientFds'
    BY <1>1 DEF ConnectionsWatched, Watch, TypeOK, FdsOK
  <2>2. ASSUME NEW c \in Session, conn'[c] = "open" PROVE \E g \in Fd : fds'[g] = Ctl(c)
    <3>1. CASE c = s
      BY <1>1, <3>1 DEF TypeOK, FdsOK
    <3>2. CASE c # s
      <4>1. conn[c] = "open"
        BY <1>1, <2>2, <3>2 DEF TypeOK, PeersOK
      <4>2. PICK g \in Fd : fds[g] = Ctl(c)
        BY <4>1 DEF ConnectionsWatched
      <4>3. g # f
        BY <1>1, <4>2 DEF IsLowestFree, Free, Plain, Ctl
      <4> QED
        BY <1>1, <4>2, <4>3 DEF TypeOK, FdsOK
    <3> QED
      BY <3>1, <3>2
  <2> QED
    BY <2>1, <2>2 DEF ConnectionsWatched
<1>6. ListenerOpen'
  BY <1>1, <1>2 DEF ListenerOpen, Watch, TypeOK, FdsOK
<1>7. ListenerNotHeld'
  <2>1. UNCHANGED <<dataFd, task>> /\ main'.sock = main.sock /\ main'.file = main.file
    BY DEF Accept, GreetingFails, TypeOK, ThreadsOK, MainState
  <2>2. tempFds' \subseteq tempFds
    BY DEF Accept, GreetingFails
  <2> QED
    BY <1>1, <2>1, <2>2 DEF ListenerNotHeld, Watch
<1> QED
  BY <1>3, <1>4, <1>5, <1>6, <1>7

(* The end of a connection: FD_CLR and the search for the next max_fd *)
(* put the invariant back.                                            *)
LEMMA DisconnectServing ==
  ASSUME TypeOK, TypeOK', ServingInv, NEW e \in Fd, Disconnect(e)
  PROVE  ServingInv'
<1> USE DEF ServingInv
<1>1. e # ListenFd /\ e \in clientFds
  BY DEF Disconnect, IsClient, AtEvent, ListenerNotHeld
<1>2. clientFds' = clientFds \ {e}
  BY DEF Disconnect, StopWatching
<1>3. MaxFdIsLargest'
  <2>1. ListenFd \in clientFds' /\ clientFds' \subseteq Fd
    BY <1>1, <1>2 DEF ListenerOpen, TypeOK, WatchingOK
  <2>2. RefindMax(e, clientFds')
    BY <1>2 DEF Disconnect
  <2>3. CASE e = maxFd
    <3>1. \E i \in clientFds' : 0 < i /\ i <= maxFd
      BY <2>1 DEF MaxFdIsLargest, ListenerOpen
    <3>2. PICK i \in clientFds' :
            /\ 0 < i /\ i <= maxFd
            /\ \A j \in clientFds' : 0 < j /\ j <= maxFd => j <= i
            /\ maxFd' = i
      BY <2>2, <2>3, <3>1 DEF RefindMax
    <3>3. \A j \in clientFds' : j <= i
      BY <1>2, <2>1, <3>2 DEF MaxFdIsLargest
    <3> QED
      BY <3>2, <3>3 DEF MaxFdIsLargest
  <2>4. CASE e # maxFd
    BY <1>2, <2>2, <2>4 DEF RefindMax, MaxFdIsLargest
  <2> QED
    BY <2>3, <2>4
<1>4. WatchedSlotsLive'
  BY <1>2 DEF Disconnect, WatchedSlotsLive, TypeOK, SlotsOK, WatchingOK
<1>5. HarmlessTable
  BY <1>1, CloseHarmless DEF Disconnect
<1>6. fds'[e] = Free
  BY DEF Disconnect, CloseAll
<1>7. ConnectionsWatched'
  <2>1. \A f \in Fd : fds'[f].kind = "ctl" => f \in clientFds'
    BY <1>2, <1>5, <1>6 DEF ConnectionsWatched, HarmlessTable, Free, Plain
  <2>2. \A s \in Session : conn'[s] = "open" => \E f \in Fd : fds'[f] = Ctl(s)
    BY <1>5 DEF ConnectionsWatched, HarmlessTable
  <2> QED
    BY <2>1, <2>2 DEF ConnectionsWatched
<1>8. ListenerOpen'
  BY <1>1, <1>2, <1>5 DEF ListenerOpen, HarmlessTable
<1>9. ListenerNotHeld'
  BY <1>2 DEF Disconnect, ListenerNotHeld, TypeOK, SlotsOK
<1> QED
  BY <1>3, <1>4, <1>7, <1>8, <1>9

(* The steps of control_init's loop keep the invariant. *)
LEMMA LoopServing ==
  ASSUME TypeOK, TypeOK', ServingInv, LoopNext
  PROVE  ServingInv'
<1> USE HarmlessFrames, HarmlessServing DEF Harmless, slots, watching, peers
<1>a. tempFds \subseteq clientFds
  BY DEF ServingInv, ListenerNotHeld
<1>b. ASSUME UNCHANGED task, main'.sock = main.sock, main'.file = main.file
      PROVE  HarmlessThreads
  BY <1>b DEF HarmlessThreads
<1>c. ASSUME NEW p \in {"exited", "killed", "scan", "select"}, main' = [main EXCEPT !.pc = p]
      PROVE  main'.sock = main.sock /\ main'.file = main.file
  BY <1>c DEF TypeOK, ThreadsOK, MainState
<1>1. CASE SelectFails
  BY <1>1, <1>a, <1>b, <1>c DEF SelectFails
<1>2. CASE Select
  BY <1>2, <1>b, <1>c DEF Select
<1>3. CASE EndPass
  BY <1>3, <1>b, <1>c DEF EndPass
<1>4. CASE AcceptFails
  BY <1>4, <1>a, <1>b, <1>c DEF AcceptFails
<1>5. ASSUME NEW e \in Fd, ReadLine(e) PROVE ServingInv'
  <2>1. main'.sock = main.sock /\ main'.file = main.file
    BY <1>5 DEF ReadLine, TypeOK, ThreadsOK, MainState
  <2> QED
    BY <1>5, <1>a, <1>b, <2>1 DEF ReadLine
<1>6. ASSUME NEW e \in Fd, ReadEmptyLine(e) PROVE ServingInv'
  BY <1>6, <1>a, <1>b, <1>c DEF ReadEmptyLine
<1> QED
  BY <1>1, <1>2, <1>3, <1>4, <1>5, <1>6, AcceptServing, DisconnectServing DEF LoopNext

(* So do the handlers, whatever data_fd has become under them. *)
LEMMA HandlerServing ==
  ASSUME TypeOK, TypeOK', ServingInv, HandlerNext
  PROVE  ServingInv'
<1> USE HarmlessFrames DEF slots, watching, peers
<1>a. tempFds \subseteq clientFds /\ dataFd[main.fd] # ListenFd /\ main.file # ListenFd
  BY DEF ServingInv, ListenerNotHeld, TypeOK, ThreadsOK, MainState
<1>b. ASSUME HarmlessTable, HarmlessSlots, HarmlessThreads, UNCHANGED watching
      PROVE  ServingInv'
  BY <1>a, <1>b, HarmlessServing DEF Harmless
<1>c. ASSUME Answer \/ Silent, UNCHANGED task PROVE HarmlessThreads
  BY <1>c DEF Answer, Silent, Scanning, HarmlessThreads
<1>d. ASSUME UNCHANGED <<fds, status, dataFd>>, UNCHANGED <<conn, task, watching>>,
             Answer \/ Silent
      PROVE  ServingInv'
  BY <1>b, <1>c, <1>d
<1>e. ASSUME NEW f \in Fd, IsLowestFree(f), UNCHANGED conn,
             \/ fds' = [fds EXCEPT ![f] = File]
             \/ \E w \in Session \cup {Nobody} :
                  \/ fds' = [fds EXCEPT ![f] = Sock(w)]
                  \/ fds' = [fds EXCEPT ![f] = Data(w, "open")]
      PROVE  HarmlessTable
  <2>1. File.kind # "ctl"
    BY DEF File, Plain
  <2>2. \A w : Sock(w).kind # "ctl" /\ Data(w, "open").kind # "ctl"
    BY DEF Sock, Data
  <2> QED
    BY <1>e, <2>1, <2>2, OpenHarmless
<1>f. Owner \in Session \cup {Nobody}
  BY OwnerType
<1>1. CASE AnswerOnly
  BY <1>1, <1>d DEF AnswerOnly
<1>2. CASE Ignore
  BY <1>2, <1>d DEF Ignore
<1>3. CASE User
  <2>1. HarmlessSlots
    BY <1>3 DEF User, HarmlessSlots, TypeOK, SlotsOK, PASSWORD, DISCONNECTED
  <2> QED
    BY <1>3, <1>b, <1>c, <2>1 DEF User
<1>4. CASE Pass
  <2>1. HarmlessSlots
    BY <1>4 DEF Pass, HarmlessSlots, TypeOK, SlotsOK, AVAILAVLE, DISCONNECTED
  <2> QED
    BY <1>4, <1>b, <1>c, <2>1 DEF Pass
<1>5. CASE Port
  BY <1>5, <1>d DEF Port
<1>6. CASE PasvFails
  <2>1. HarmlessTable
    BY <1>6, <1>e, <1>f DEF PasvFails
  <2> QED
    BY <1>6, <1>b, <1>c, <2>1 DEF PasvFails
<1>7. CASE PasvOpen
  <2>1. PICK f \in Fd :
          /\ IsLowestFree(f)
          /\ fds' = [fds EXCEPT ![f] = Sock(Owner)]
          /\ dataFd' = [dataFd EXCEPT ![main.fd] = f]
          /\ main' = [main EXCEPT !.pc = "listen", !.sock = f]
    BY <1>7 DEF PasvOpen
  <2>2. f # ListenFd
    BY <2>1, FreeNotListening
  <2>3. HarmlessTable
    BY <1>7, <1>e, <1>f, <2>1 DEF PasvOpen
  <2>4. HarmlessSlots
    BY <1>7, <2>1, <2>2 DEF PasvOpen, HarmlessSlots, TypeOK, SlotsOK
  <2>5. HarmlessThreads
    BY <1>7, <2>1, <2>2 DEF PasvOpen, HarmlessThreads, TypeOK, ThreadsOK, MainState
  <2> QED
    BY <1>7, <1>b, <2>3, <2>4, <2>5 DEF PasvOpen
<1>8. CASE PasvListen
  <2>1. fds[dataFd[main.fd]].kind = "sock" /\ UNCHANGED conn
    BY <1>8 DEF PasvListen
  <2>2. fds' = [fds EXCEPT ![dataFd[main.fd]] = Listening(dataFd[main.fd])]
    BY <1>8 DEF PasvListen
  <2>3. HarmlessTable
    BY <1>a, <2>1, <2>2 DEF HarmlessTable, Listening, Pasv, Ctl, TypeOK, FdsOK
  <2> QED
    BY <1>8, <1>b, <1>c, <2>3 DEF PasvListen
<1>9. CASE PasvListenFails
  BY <1>9, <1>d DEF PasvListenFails
<1>10. CASE StartTransfer
  <2>1. HarmlessThreads
    BY <1>10 DEF StartTransfer, HarmlessThreads, TypeOK, ThreadsOK, MainState
  <2> QED
    BY <1>10, <1>b, <2>1 DEF StartTransfer
<1>11. CASE OpenDirectory
  <2>1. PICK f \in Fd :
          /\ IsLowestFree(f)
          /\ fds' = [fds EXCEPT ![f] = File]
          /\ main' = [main EXCEPT !.pc = "data", !.file = f]
    BY <1>11 DEF OpenDirectory
  <2>2. HarmlessTable
    BY <1>11, <1>e, <2>1 DEF OpenDirectory
  <2>3. HarmlessThreads
    BY <1>11, <2>1, FreeNotListening
       DEF OpenDirectory, HarmlessThreads, TypeOK, ThreadsOK, MainState
  <2> QED
    BY <1>11, <1>b, <2>2, <2>3 DEF OpenDirectory
<1>12. CASE OpenDirectoryFails
  BY <1>12, <1>d DEF OpenDirectoryFails
<1>13. CASE ConnectData
  <2>1. PICK f \in Fd :
          /\ IsLowestFree(f)
          /\ fds' = [fds EXCEPT ![f] = Data(Owner, "open")]
          /\ dataFd' = [dataFd EXCEPT ![main.fd] = f]
    BY <1>13 DEF ConnectData
  <2>2. HarmlessTable
    BY <1>13, <1>e, <1>f, <2>1 DEF ConnectData
  <2>3. HarmlessSlots
    BY <1>13, <2>1, FreeNotListening DEF ConnectData, HarmlessSlots, TypeOK, SlotsOK
  <2>4. HarmlessThreads
    BY <1>13 DEF ConnectData, HarmlessThreads, TypeOK, ThreadsOK, MainState
  <2> QED
    BY <1>13, <1>b, <2>2, <2>3, <2>4 DEF ConnectData
<1>14. CASE NoDataSocket
  BY <1>14, <1>d DEF NoDataSocket
<1>15. CASE ConnectDataFails
  <2>1. HarmlessTable
    BY <1>15, <1>e, <1>f DEF ConnectDataFails
  <2> QED
    BY <1>15, <1>b, <1>c, <2>1 DEF ConnectDataFails
<1>16. CASE AcceptData
  <2> DEFINE g == dataFd[main.fd]
  <2>1. PICK f \in Fd :
          /\ fds[g].kind = "pasv"
          /\ IsLowestFree(f)
          /\ fds' = [fds EXCEPT ![f] = Data(fds[g].who, "open"), ![g].peer = "none"]
          /\ main' = [main EXCEPT !.pc = "swap", !.sock = f]
    BY <1>16 DEF AcceptData
  <2>2. f # ListenFd /\ f # g
    BY <2>1, FreeNotListening DEF IsLowestFree, Free, Plain
  <2>3. fds'[f].kind # "ctl" /\ \A s \in Session : fds[f] # Ctl(s)
    BY <2>1, <2>2 DEF IsLowestFree, Free, Plain, Ctl, Data, TypeOK, FdsOK
  <2>4. g \in Fd => fds'[g].kind # "ctl" /\ \A s \in Session : fds[g] # Ctl(s)
    <3> SUFFICES ASSUME g \in Fd PROVE fds'[g].kind # "ctl" /\ \A s \in Session : fds[g] # Ctl(s)
      OBVIOUS
    <3>1. fds[g] \in Object /\ fds'[g] = [fds[g] EXCEPT !.peer = "none"]
      BY <2>1, <2>2 DEF TypeOK, FdsOK
    <3> HIDE DEF g
    <3>2. fds'[g].kind = fds[g].kind
      BY <3>1 DEF Object
    <3> QED
      BY <2>1, <3>2 DEF Ctl
  <2>5. \A h \in Fd : h # f /\ h # g => fds'[h] = fds[h]
    BY <2>1 DEF TypeOK, FdsOK
  <2>6. HarmlessTable
    BY <1>16, <1>a, <2>2, <2>3, <2>4, <2>5 DEF AcceptData, HarmlessTable
  <2>7. HarmlessThreads
    BY <1>16, <2>1, <2>2 DEF AcceptData, HarmlessThreads, TypeOK, ThreadsOK, MainState
  <2> QED
    BY <1>16, <1>b, <2>6, <2>7 DEF AcceptData
<1>17. CASE SwapData
  <2>1. HarmlessTable
    BY <1>17, <1>a, CloseHarmless DEF SwapData, ReplaceListener
  <2>2. HarmlessSlots
    BY <1>17 DEF SwapData, ReplaceListener, HarmlessSlots, TypeOK, SlotsOK,
                ServingInv, ListenerNotHeld
  <2>3. HarmlessThreads
    BY <1>17 DEF SwapData, HarmlessThreads, TypeOK, ThreadsOK, MainState
  <2> QED
    BY <1>17, <1>b, <2>1, <2>2, <2>3 DEF SwapData
<1>18. CASE NoDataAddress
  BY <1>18, <1>d DEF NoDataAddress
<1>19. CASE SpawnThread
  <2>1. PICK f \in Fd, t \in Tid, k \in {"send", "spin", "recv"} :
          /\ IsLowestFree(f)
          /\ fds' = [fds EXCEPT ![f] = File]
          /\ task' = [task EXCEPT ![t] = NewTask(k, f)]
    BY <1>19 DEF SpawnThread
  <2>2. HarmlessTable
    BY <1>19, <1>e, <2>1 DEF SpawnThread
  <2>3. HarmlessThreads
    BY <1>19, <2>1, FreeNotListening
       DEF SpawnThread, HarmlessThreads, NewTask, Scanning, TypeOK, ThreadsOK
  <2> QED
    BY <1>19, <1>b, <2>2, <2>3 DEF SpawnThread
<1>20. CASE SpawnFails
  <2>1. HarmlessTable
    BY <1>20, <1>e DEF SpawnFails
  <2> QED
    BY <1>20, <1>b, <1>c, <2>1 DEF SpawnFails
<1>21. CASE SendList
  <2>1. HarmlessTable
    BY <1>21, <1>a, CloseHarmless DEF SendList
  <2>2. HarmlessSlots
    BY <1>21 DEF SendList, HarmlessSlots, TypeOK, SlotsOK
  <2> QED
    BY <1>21, <1>b, <1>c, <2>1, <2>2 DEF SendList
<1> QED
  BY <1>1, <1>2, <1>3, <1>4, <1>5, <1>6, <1>7, <1>8, <1>9, <1>10, <1>11,
     <1>12, <1>13, <1>14, <1>15, <1>16, <1>17, <1>18, <1>19, <1>20, <1>21
  DEF HandlerNext

(* So do the transfer threads, whichever session their slot now serves. *)
LEMMA ThreadServing ==
  ASSUME TypeOK, TypeOK', ServingInv, NEW t \in Tid, ThreadStep(t)
  PROVE  ServingInv'
<1> USE HarmlessFrames DEF slots, watching, peers
<1>a. /\ tempFds \subseteq clientFds
      /\ task[t].fd \in Fd
      /\ task[t].file # ListenFd
      /\ dataFd[task[t].fd] # ListenFd
  BY DEF ServingInv, ListenerNotHeld, TypeOK, ThreadsOK, Task
<1>b. ASSUME HarmlessTable, HarmlessSlots, HarmlessThreads, UNCHANGED watching
      PROVE  ServingInv'
  BY <1>a, <1>b, HarmlessServing DEF Harmless
<1>c. ASSUME NEW p, Goto(t, p), UNCHANGED main PROVE HarmlessThreads
  BY <1>c DEF Goto, HarmlessThreads, TypeOK, ThreadsOK, Task
<1>1. CASE Begin(t)
  <2>1. HarmlessSlots
    BY <1>1 DEF Begin, HarmlessSlots, TypeOK, SlotsOK, TRANSFER, DISCONNECTED
  <2> QED
    BY <1>1, <1>b, <1>c, <2>1 DEF Begin
<1>2. CASE LoopEnds(t)
  BY <1>2, <1>b, <1>c DEF LoopEnds
<1>3. CASE LoopFails(t)
  BY <1>3, <1>b, <1>c DEF LoopFails
<1>4. CASE Report(t)
  BY <1>4, <1>b, <1>c DEF Report
<1>5. CASE MakeAvailable(t)
  <2>1. HarmlessSlots
    BY <1>5 DEF MakeAvailable, HarmlessSlots, TypeOK, SlotsOK, AVAILAVLE, DISCONNECTED
  <2> QED
    BY <1>5, <1>b, <1>c, <2>1 DEF MakeAvailable
<1>6. CASE CloseData(t)
  <2>1. HarmlessTable
    BY <1>6, <1>a, CloseHarmless DEF CloseData, Finished
  <2> QED
    BY <1>6, <1>b, <1>c, <2>1 DEF CloseData
<1>7. CASE ForgetData(t)
  <2>1. HarmlessSlots
    BY <1>7 DEF ForgetData, HarmlessSlots, TypeOK, SlotsOK
  <2>2. HarmlessThreads
    BY <1>7 DEF ForgetData, HarmlessThreads, Idle, TypeOK, ThreadsOK
  <2> QED
    BY <1>7, <1>b, <2>1, <2>2 DEF ForgetData
<1>8. CASE LoopReads(t)
  BY <1>8, <1>b DEF LoopReads
<1> QED
  BY <1>1, <1>2, <1>3, <1>4, <1>5, <1>6, <1>7, <1>8 DEF ThreadStep

(* So do the clients. *)
LEMMA ClientServing ==
  ASSUME TypeOK, TypeOK', ServingInv, NEW s \in Session, ClientStep(s)
  PROVE  ServingInv'
<1> USE HarmlessFrames DEF slots, watching, peers
<1>a. ASSUME HarmlessTable, UNCHANGED <<slots, watching, main, task>> PROVE ServingInv'
  BY <1>a, HarmlessServing DEF Harmless, ServingInv, ListenerNotHeld
<1>1. CASE Connect(s)
  <2>1. HarmlessTable
    BY <1>1 DEF Connect, HarmlessTable, TypeOK, PeersOK
  <2> QED
    BY <1>1, <1>a, <2>1 DEF Connect
<1>2. ASSUME NEW c \in Commands, Send(s, c) PROVE ServingInv'
  BY <1>2, <1>a DEF Send
<1>3. CASE DataConnect(s)
  <2>1. told[s] \in Fd /\ fds[told[s]] = Pasv(s, "waiting") /\ UNCHANGED conn
    BY <1>3 DEF DataConnect, TypeOK, PeersOK
  <2>2. fds' = [fds EXCEPT ![told[s]] = Pasv(s, "pending")]
    BY <1>3 DEF DataConnect
  <2>3. told[s] # ListenFd
    BY <2>1 DEF ServingInv, ListenerOpen, Plain, Pasv
  <2>4. HarmlessTable
    BY <2>1, <2>2, <2>3 DEF HarmlessTable, Pasv, Ctl, TypeOK, FdsOK
  <2> QED
    BY <1>3, <1>a, <2>4 DEF DataConnect
<1>4. CASE DataClose(s)
  <2>1. PICK f \in Fd : fds[f] = Data(s, "open") /\ fds' = [fds EXCEPT ![f] = Data(s, "closed")]
    BY <1>4 DEF DataClose
  <2>2. f # ListenFd
    BY <2>1 DEF ServingInv, ListenerOpen, Plain, Data
  <2>3. HarmlessTable
    BY <1>4, <2>1, <2>2 DEF DataClose, HarmlessTable, Data, Ctl, TypeOK, FdsOK
  <2> QED
    BY <1>4, <1>a, <2>3 DEF DataClose
<1>5. CASE HangUp(s)
  <2>1. HarmlessTable
    BY <1>5 DEF HangUp, HarmlessTable, TypeOK, PeersOK
  <2> QED
    BY <1>5, <1>a, <2>1 DEF HangUp
<1> QED
  BY <1>1, <1>2, <1>3, <1>4, <1>5 DEF ClientStep

(* Every step keeps the invariant. *)
LEMMA NextServing ==
  ASSUME TypeOK, TypeOK', ServingInv, [Next]_vars
  PROVE  ServingInv'
<1> USE HarmlessFrames DEF slots, watching, peers
<1>a. tempFds \subseteq clientFds
  BY DEF ServingInv, ListenerNotHeld
<1>1. CASE BrokenPipe
  <2>1. HarmlessThreads
    BY <1>1 DEF BrokenPipe, HarmlessThreads, TypeOK, ThreadsOK, MainState
  <2> QED
    BY <1>1, <1>a, <2>1, HarmlessServing DEF BrokenPipe, Harmless
<1>2. CASE UNCHANGED vars
  BY <1>2, <1>a, HarmlessServing DEF vars, Harmless
<1> QED
  BY <1>1, <1>2, LoopServing, HandlerServing, ThreadServing, ClientServing DEF Next

(* The inductive invariant holds in every state. *)
LEMMA ServingInvariant == Spec => []ServingInv
<1>1. TypeOK /\ TypeOK' /\ ServingInv /\ [Next]_vars => ServingInv'
  BY NextServing
<1> QED
  BY <1>1, InitServing, TypeCorrect, PTL DEF Spec

(* select() is always given the whole of client_fds, and the scan of a pass *)
(* ends at the largest descriptor in it: "Refind the largest fd" is right.  *)
THEOREM MaxFdAlwaysLargest == Spec => []MaxFdIsLargest
<1>1. ServingInv => MaxFdIsLargest
  BY DEF ServingInv
<1> QED
  BY <1>1, ServingInvariant, PTL

(* No descriptor is watched whose slot the loop would pass over: select()   *)
(* never spins on a descriptor that nobody reads.                           *)
THEOREM WatchedSlotsAlwaysLive == Spec => []WatchedSlotsLive
<1>1. ServingInv => WatchedSlotsLive
  BY DEF ServingInv
<1> QED
  BY <1>1, ServingInvariant, PTL

(* No control connection is forgotten while its descriptor is open, and a   *)
(* client that sees its connection open has a descriptor: threads that      *)
(* close foreign descriptors cut clients off, they never hide them.         *)
THEOREM ConnectionsAlwaysWatched == Spec => []ConnectionsWatched
<1>1. ServingInv => ConnectionsWatched
  BY DEF ServingInv
<1> QED
  BY <1>1, ServingInvariant, PTL

(* Whatever the transfer threads close twice or too late, the listening     *)
(* socket stays open and watched.                                           *)
THEOREM ListenerAlwaysOpen == Spec => []ListenerOpen
<1>1. ServingInv => ListenerOpen
  BY DEF ServingInv
<1> QED
  BY <1>1, ServingInvariant, PTL
=============================================================================
