--------------------------- MODULE CapacityProofs ---------------------------
(***************************************************************************)
(* What the server guarantees when every client is Careful, no call of its *)
(* handlers fails, and it has as many threads and descriptors as its       *)
(* sessions can need: it stays up, though transfers may be reset or never  *)
(* end; and if none is reset, no descriptor leaks and each command is      *)
(* answered. Which number of descriptors is enough, is part of the claim.  *)
(* SIGPIPE is not assumed away: it is proved that nothing raises it.       *)
(***************************************************************************)
EXTENDS CarefulProofs, FiniteSetTheorems

(* Three descriptors for each session (its connection, its listener or data *)
(* connection, its file), and one for accept() while LIST has all three.    *)
Enough ==
  /\ IsFiniteSet(Session) /\ IsFiniteSet(Tid)
  /\ Cardinality(Tid) >= Cardinality(Session)
  /\ MaxFd - ListenFd > 3 * Cardinality(Session)

Undisturbed ==
  /\ Careful = Session
  /\ Faults \subseteq {"reset", "directory", "sigpipe"}
  /\ "EMPTY" \notin Commands

-----------------------------------------------------------------------------
(* What a session owns of the table, in each of its three parts. *)
Part == {"control", "data", "file"}

OfSession(g, s) == fds[g].kind \in {"sock", "pasv", "data"} /\ fds[g].who = s

Owns(s, k, g) ==
  \/ k = "control" /\ fds[g] = Ctl(s)
  \/ k = "data" /\ OfSession(g, s) /\ \E f \in Fd : fds[f] = Ctl(s) /\ dataFd[f] = g
  \/ k = "file" /\ \E t \in Tid : task[t].who = s /\ task[t].pc \in Holding /\ task[t].file = g
  \/ k = "file" /\ Listing /\ Serves(s) /\ main.file = g

(* Every open number has an owner; between accept() and the swap of the     *)
(* descriptors the new connection is in the hands of the main thread.       *)
HasOwner(g) == (\E s \in Session, k \in Part : Owns(s, k, g)) \/ (main.pc = "swap" /\ g = main.sock)

AllOwned == \A g \in Fd : g > ListenFd /\ fds[g] # Free => HasOwner(g)
StdOpen  == \A f \in Fd : f < ListenFd => fds[f] = Plain("std")

(* The slot a new connection gets has no data_fd from the one before it. *)
SlotsClear == \A f \in Fd : fds[f].kind # "ctl" => dataFd[f] = 0

(* data_fd is 0 unless the client has an address or a transfer to use it    *)
(* for; in PORT mode it is 0 until the server has connected.                *)
UsesData(s) ==
  \/ told[s] # NoAddress \/ dataReady[s] \/ line[s] \in TransferVerb
  \/ ~ NoThread(s)
  \/ Serves(s) /\ (main.pc # "handle" \/ main.cmd \in TransferVerb)

DataOK(s, f) ==
  dataFd[f] # 0 =>
    /\ status[f] \in {AVAILAVLE, TRANSFER}
    /\ UsesData(s)
    /\ mode[f] = PORT_MODE =>
         ~ NoThread(s) \/ (Serves(s) /\ main.pc \in {"listen", "file", "list"})

(* A reply that is due is on its way or was its thread's to send; no thread *)
(* has died if no connection is reset, and none finds another connection of *)
(* its session in data_fd once it has closed its own.                       *)
AnswerDue(s) ==
  owed[s] = 1 /\ conn[s] = "open" => line[s] # "none" \/ Serves(s) \/ ~ NoThread(s)

WorksOn(s, t) ==
  /\ "reset" \notin Faults => task[t].pc # "dead"
  /\ task[t].pc = "zero" => ~ OfSession(dataFd[task[t].fd], s)

SettledOK(s) ==
  /\ line[s] # "EMPTY"
  /\ \A f \in Fd : fds[f] = Ctl(s) => DataOK(s, f)
  /\ AnswerDue(s)
  /\ \A t \in Tid : task[t].who = s => WorksOn(s, t)

SettledInv ==
  /\ StaysUp
  /\ StdOpen
  /\ SlotsClear
  /\ AllOwned
  /\ \A s \in Session : SettledOK(s)

-----------------------------------------------------------------------------
(* No session owns two numbers in one part. *)
LEMMA OneOfEach ==
  ASSUME TypeOK, CarefulInv, NEW s \in Session, NEW k \in Part, NEW g, NEW h,
         g \in Fd, h \in Fd, Owns(s, k, g), Owns(s, k, h)
  PROVE  g = h
<1>1. \A f, e \in Fd : fds[f] = Ctl(s) /\ fds[e] = Ctl(s) => f = e
  BY DEF CarefulInv, SessionOK, SlotOK
<1>2. \A t, u \in Tid : task[t].who = s /\ task[u].who = s => t = u
  BY DEF CarefulInv, SessionOK, ThreadOK
<1>3. \A t \in Tid : task[t].who = s => ~ Serves(s)
  BY DEF CarefulInv, SessionOK, ThreadOK
<1>4. CASE k = "control"
  BY <1>1, <1>4 DEF Owns
<1>5. CASE k = "data"
  BY <1>1, <1>5 DEF Owns
<1>6. CASE k = "file"
  BY <1>2, <1>3, <1>6 DEF Owns
<1> QED
  BY <1>4, <1>5, <1>6 DEF Part

LEMMA PartCount == IsFiniteSet(Part) /\ Cardinality(Part) = 3
<1>1. IsFiniteSet({}) /\ Cardinality({}) = 0
  BY FS_EmptySet
<1>2. IsFiniteSet({"control"}) /\ Cardinality({"control"}) = 1
  BY FS_Singleton
<1>3. IsFiniteSet({"control", "data"}) /\ Cardinality({"control", "data"}) = 2
  <2>1. {"control", "data"} = {"control"} \cup {"data"} /\ "data" \notin {"control"}
    OBVIOUS
  <2> QED
    BY <1>2, <2>1, FS_AddElement
<1>4. Part = {"control", "data"} \cup {"file"} /\ "file" \notin {"control", "data"}
  BY DEF Part
<1> QED
  BY <1>3, <1>4, FS_AddElement

(* Whoever takes a number finds one: more than three for each session would *)
(* have to be open otherwise.                                               *)
LEMMA NumberLeft ==
  ASSUME Enough, TypeOK, CarefulInv, AllOwned, main.pc # "swap"
  PROVE  ~ NoFreeFd
<1> SUFFICES ASSUME NoFreeFd PROVE FALSE
  OBVIOUS
<1> DEFINE Open == (ListenFd + 1)..MaxFd
           Places == Session \X Part
           place == [g \in Open |-> CHOOSE x \in Places : Owns(x[1], x[2], g)]
<1>1. /\ IsFiniteSet(Places)
      /\ Cardinality(Places) = Cardinality(Session) * 3
  BY PartCount, FS_Product DEF Enough
<1>2. Cardinality(Session) \in Nat
  BY FS_CardinalityType DEF Enough
<1>3. /\ IsFiniteSet(Open)
      /\ Cardinality(Open) = MaxFd - ListenFd
  <2>1. ListenFd + 1 \in Int /\ MaxFd \in Int /\ ~ (ListenFd + 1 > MaxFd)
    BY BoundAssumption DEF ListenFd
  <2>2. MaxFd - (ListenFd + 1) + 1 = MaxFd - ListenFd
    BY BoundAssumption DEF ListenFd
  <2> QED
    BY <2>1, <2>2, FS_Interval
<1>4. Cardinality(Places) < Cardinality(Open)
  BY <1>1, <1>2, <1>3, BoundAssumption DEF Enough, ListenFd
<1>5. ASSUME NEW g \in Open
      PROVE  g \in Fd /\ \E x \in Places : Owns(x[1], x[2], g)
  <2>1. g \in Fd /\ g > ListenFd /\ fds[g] # Free
    BY BoundAssumption DEF Fd, ListenFd, NoFreeFd
  <2>2. PICK s \in Session, k \in Part : Owns(s, k, g)
    BY <2>1 DEF AllOwned, HasOwner
  <2>3. <<s, k>> \in Places /\ <<s, k>>[1] = s /\ <<s, k>>[2] = k
    OBVIOUS
  <2> QED
    BY <2>1, <2>2, <2>3
<1>6. \A g \in Open : place[g] \in Places /\ Owns(place[g][1], place[g][2], g)
  BY <1>5
<1>7. place \in [Open -> Places]
  BY <1>6
<1>8. PICK g, h \in Open : g # h /\ place[g] = place[h]
  <2> HIDE DEF place, Open, Places
  <2> QED
    BY <1>1, <1>3, <1>4, <1>7, FS_PigeonHole
<1>9. place[g][1] \in Session /\ place[g][2] \in Part
  BY <1>6
<1> QED
  BY <1>5, <1>6, <1>8, <1>9, OneOfEach

(* Nor is there a want of threads: the session that starts one has none. *)
LEMMA ThreadLeft ==
  ASSUME Enough, TypeOK, CarefulInv, NEW s \in Session, NoThread(s)
  PROVE  \E t \in Tid : task[t].pc = "idle"
<1> SUFFICES ASSUME \A t \in Tid : task[t].pc # "idle" PROVE FALSE
  OBVIOUS
<1> DEFINE Others == Session \ {s}
           whose == [t \in Tid |-> task[t].who]
<1>1. IsFiniteSet(Others) /\ Cardinality(Others) = Cardinality(Session) - 1
  BY FS_RemoveElement DEF Enough
<1>2. Cardinality(Session) \in Nat /\ Cardinality(Tid) \in Nat
  BY FS_CardinalityType DEF Enough
<1>3. Cardinality(Others) < Cardinality(Tid)
  BY <1>1, <1>2 DEF Enough
<1>4. whose \in [Tid -> Others]
  <2>1. \A t \in Tid : task[t].who \in Session
    BY ThreadKnows
  <2> QED
    BY <2>1 DEF NoThread
<1>5. PICK t, u \in Tid : t # u /\ whose[t] = whose[u]
  <2>1. IsFiniteSet(Tid)
    BY DEF Enough
  <2> HIDE DEF whose, Others
  <2> QED
    BY <1>1, <1>3, <1>4, <2>1, FS_PigeonHole
<1>6. ThreadOK(task[t].who, t) /\ task[u].who = task[t].who
  BY <1>5, ThreadKnows
<1> QED
  BY <1>5, <1>6 DEF ThreadOK

-----------------------------------------------------------------------------
(* A step that leaves r apart, and does not end the handling of a command   *)
(* of r, leaves r settled and what it owns its own.                         *)
Apart2(r) == Same(r) /\ (Serves(r) => Serves(r)' /\ main' = main)

LEMMA SettledApart ==
  ASSUME TypeOK, TypeOK', CarefulInv, NEW r \in Session, SettledOK(r), Apart2(r)
  PROVE  SettledOK(r)'
<1>1. SamePeer(r) /\ SameSlot(r) /\ SameThread(r) /\ SameHandler(r)
  BY DEF Apart2, Same
<1>2. \A f \in Fd : fds'[f] = Ctl(r) => fds[f] = Ctl(r)
  BY <1>1 DEF SameSlot, Ctl
<1>3. NoThread(r)' <=> NoThread(r)
  BY <1>1 DEF NoThread, SameThread
<1>4. Serves(r) => Serves(r)' /\ main' = main
  BY DEF Apart2
<1>5. UsesData(r) => UsesData(r)'
  BY <1>1, <1>3, <1>4 DEF UsesData, SamePeer
<1>6. ASSUME NEW f \in Fd, fds'[f] = Ctl(r) PROVE DataOK(r, f)'
  <2>1. DataOK(r, f) /\ status'[f] = status[f] /\ mode'[f] = mode[f] /\ dataFd'[f] = dataFd[f]
    BY <1>1, <1>2, <1>6 DEF SettledOK, SameSlot
  <2> QED
    BY <1>3, <1>4, <1>5, <2>1 DEF DataOK
<1>7. ASSUME NEW t \in Tid, task'[t].who = r PROVE WorksOn(r, t)'
  <2>1. task'[t] = task[t] /\ WorksOn(r, t) /\ ThreadOK(r, t)
    BY <1>1, <1>7 DEF SettledOK, SameThread, CarefulInv, SessionOK
  <2>2. task[t].fd \in Fd /\ dataFd[task[t].fd] \in Fd /\ fds[task[t].fd] = Ctl(r)
    BY <2>1 DEF ThreadOK, TypeOK, ThreadsOK, Task, SlotsOK
  <2>3. dataFd'[task[t].fd] = dataFd[task[t].fd]
    BY <1>1, <2>2 DEF SameSlot
  <2>4. OfSession(dataFd[task[t].fd], r)' => OfSession(dataFd[task[t].fd], r)
    BY <1>1, <2>1, <2>2, <2>3 DEF OfSession, SameSlot
  <2> QED
    BY <2>1, <2>4 DEF WorksOn
<1>8. AnswerDue(r)'
  BY <1>1, <1>3, <1>4 DEF SettledOK, AnswerDue, SamePeer
<1>9. line'[r] # "EMPTY"
  BY <1>1 DEF SettledOK, SamePeer
<1> QED
  BY <1>6, <1>7, <1>8, <1>9 DEF SettledOK

(* What a session owns stays its own while none of it is closed, data_fd    *)
(* stays, its thread goes on and LIST goes on.                              *)
OwnKept(s) ==
  /\ \A g \in Fd : /\ fds[g] = Ctl(s) => fds'[g] = Ctl(s)
                   /\ OfSession(g, s) => OfSession(g, s)'
  /\ \A f \in Fd : fds[f] = Ctl(s) => dataFd'[f] = dataFd[f] \/ ~ OfSession(dataFd[f], s)
  /\ \A t \in Tid : task[t].who = s /\ task[t].pc \in Holding =>
       task'[t].who = s /\ task'[t].pc \in Holding /\ task'[t].file = task[t].file
  /\ Serves(s) /\ Listing => Serves(s)' /\ Listing' /\ main'.file = main.file

LEMMA OwnStays ==
  ASSUME TypeOK, NEW s \in Session, OwnKept(s), NEW k \in Part, NEW g \in Fd, Owns(s, k, g)
  PROVE  Owns(s, k, g)'
<1>1. CASE k = "control"
  BY <1>1 DEF Owns, OwnKept
<1>2. CASE k = "data"
  <2>1. OfSession(g, s)
    BY <1>2 DEF Owns
  <2>2. PICK f \in Fd : fds[f] = Ctl(s) /\ dataFd[f] = g
    BY <1>2 DEF Owns
  <2> QED
    BY <1>2, <2>1, <2>2 DEF Owns, OwnKept
<1>3. CASE k = "file"
  BY <1>3 DEF Owns, OwnKept
<1> QED
  BY <1>1, <1>2, <1>3 DEF Part

LEMMA OwnApart ==
  ASSUME TypeOK, TypeOK', NEW r \in Session, Apart2(r)
  PROVE  OwnKept(r)
<1>1. SameSlot(r) /\ SameThread(r)
  BY DEF Apart2, Same
<1>2. \A g \in Fd : /\ fds[g] = Ctl(r) => fds'[g] = Ctl(r)
                    /\ OfSession(g, r) => OfSession(g, r)'
  BY <1>1 DEF SameSlot, OfSession, Ctl
<1>3. \A f \in Fd : fds[f] = Ctl(r) => dataFd'[f] = dataFd[f]
  BY <1>1 DEF SameSlot
<1>4. \A t \in Tid : task[t].who = r => task'[t] = task[t]
  BY <1>1 DEF SameThread
<1>5. Serves(r) /\ Listing => Serves(r)' /\ Listing' /\ main'.file = main.file
  BY DEF Apart2, Listing
<1> QED
  BY <1>2, <1>3, <1>4, <1>5 DEF OwnKept

LEMMA ClearStays ==
  ASSUME CarefulInv, SlotsClear, \A f \in Fd, r \in Session : fds[f] = Ctl(r) => fds'[f] = Ctl(r),
         \A f \in Fd : dataFd'[f] # dataFd[f] => \E r \in Session : fds[f] = Ctl(r)
  PROVE  SlotsClear'
<1>1. \A r \in Session : Ctl(r).kind = "ctl"
  BY DEF Ctl
<1> QED
  BY <1>1 DEF SlotsClear, CarefulInv, CtlShape

(* A step keeps the invariant if it leaves all sessions but one apart, that *)
(* one settled, and no number without an owner that it has opened or that   *)
(* was that session's.                                                      *)
LEMMA OneSettled ==
  ASSUME TypeOK, TypeOK', CarefulInv, SettledInv, NEW s \in Session,
         \A r \in Session \ {s} : Apart2(r),
         main'.pc \notin {"exited", "killed"},
         \A f \in Fd : fds'[f] # fds[f] => fds[f].kind # "std",
         SettledOK(s)', SlotsClear',
         \A g \in Fd : /\ fds'[g] # Free
                       /\ \/ fds[g] = Free
                          \/ \E k \in Part : Owns(s, k, g)
                          \/ main.pc = "swap" /\ g = main.sock
                       => HasOwner(g)'
  PROVE  SettledInv'
<1>1. StaysUp' /\ StdOpen'
  BY DEF SettledInv, StaysUp, StdOpen, Plain
<1>2. \A r \in Session : SettledOK(r)'
  BY SettledApart DEF SettledInv
<1>3. AllOwned'
  <2> SUFFICES ASSUME NEW g \in Fd, g > ListenFd, fds'[g] # Free PROVE HasOwner(g)'
    BY DEF AllOwned
  <2>1. CASE fds[g] = Free \/ (\E k \in Part : Owns(s, k, g)) \/ (main.pc = "swap" /\ g = main.sock)
    BY <2>1
  <2>2. ASSUME NEW r \in Session \ {s}, NEW k \in Part, Owns(r, k, g) PROVE HasOwner(g)'
    BY <2>2, OwnApart, OwnStays DEF HasOwner
  <2> QED
    BY <2>1, <2>2 DEF SettledInv, AllOwned, HasOwner
<1> QED
  BY <1>1, <1>2, <1>3 DEF SettledInv

-----------------------------------------------------------------------------
(* The transfer threads. One whose connection is reset keeps what it holds, *)
(* and its session's place among the threads, for good; no other loop fails *)
(* and each of these reports, closes what it holds and forgets it.          *)
LEMMA ThreadSettled ==
  ASSUME Undisturbed, TypeOK, TypeOK', CarefulInv, CarefulInv', SettledInv,
         NEW t \in Tid, ThreadStep(t), NEW s \in Session, s = task[t].who
  PROVE  SettledInv'
<1> DEFINE k == task[t]
<1>1. k.pc # "idle"
  BY NoCommandsTaken DEF ThreadStep, At, Begin, LoopEnds, LoopFails, Report, MakeAvailable, CloseData, ForgetData
<1>2. /\ s \in Session /\ ThreadOK(s, t) /\ fds[k.fd] = Ctl(s) /\ ~ Serves(s)
      /\ k.fd \in Fd /\ k.file \in Fd /\ dataFd[k.fd] \in Fd
  BY <1>1, ThreadKnows DEF ThreadOK
<1>3. StageOK(s, k) /\ SettledOK(s) /\ WorksOn(s, t)
  BY <1>2 DEF ThreadOK, SettledInv, SettledOK
<1>4. "reset" \notin Faults => ~ LoopFails(t)
  <2>1. CASE k.pc = "loop"
    BY <1>2, <1>3, <2>1
    DEF LoopFails, StageOK, Holding, DataOf, Data, Target
  <2> QED
    BY <2>1 DEF LoopFails, At
<1>5. ControlKept /\ fds'[k.fd] = Ctl(s)
  BY <1>2, ThreadsKeepControl DEF ControlKept
<1>6. /\ main' = main /\ line' = line /\ conn' = conn
      /\ ~ CloseData(t) => fds' = fds
      /\ ~ ForgetData(t) => dataFd' = dataFd
  <2>1. conn' = conn
    BY <1>5 DEF ControlKept, TypeOK, PeersOK
  <2>2. main' = main /\ line' = line /\ (~ CloseData(t) => fds' = fds)
    BY NoCommandsTaken DEF ThreadStep, Begin, LoopEnds, LoopFails, Report, MakeAvailable, CloseData, ForgetData, peers
  <2>3. ~ ForgetData(t) => dataFd' = dataFd
    BY NoCommandsTaken DEF ThreadStep, Begin, LoopEnds, LoopFails, Report, MakeAvailable, CloseData, slots
  <2> QED
    BY <2>1, <2>2, <2>3
<1>7. /\ \A u \in Tid : u # t => task'[u] = task[u]
      /\ ForgetData(t) => task'[t] = Idle /\ k.pc = "zero"
      /\ ~ ForgetData(t) => /\ task'[t].who = s /\ task'[t].file = k.file /\ task'[t].fd = k.fd
                            /\ "reset" \notin Faults => task'[t].pc # "dead"
                            /\ k.pc \in Holding
                            /\ CloseData(t) => task'[t].pc = "zero"
                            /\ ~ CloseData(t) => task'[t].pc \in Holding
  <2>1. ASSUME ForgetData(t)
        PROVE  task'[t] = Idle /\ k.pc = "zero" /\ \A u \in Tid : u # t => task'[u] = task[u]
    BY <2>1 DEF ForgetData, At, TypeOK, ThreadsOK
  <2>2. ASSUME NEW p, Goto(t, p)
        PROVE  /\ \A u \in Tid : u # t => task'[u] = task[u]
               /\ task'[t].who = s /\ task'[t].file = k.file /\ task'[t].fd = k.fd
               /\ task'[t].pc = p
    BY <2>2 DEF Goto, TypeOK, ThreadsOK, Task
  <2>3. ASSUME CloseData(t) PROVE Goto(t, "zero") /\ k.pc \in Holding
    BY <2>3 DEF CloseData, At, Holding
  <2>4. ASSUME ~ CloseData(t), ~ ForgetData(t)
        PROVE  k.pc \in Holding /\ \E p \in Holding : Goto(t, p) /\ ("reset" \notin Faults => p # "dead")
    BY <1>4, <2>4, NoCommandsTaken DEF ThreadStep, Begin, LoopEnds, LoopFails, Report, MakeAvailable, At, Holding
  <2>5. ForgetData(t) => ~ CloseData(t)
    BY DEF ForgetData, CloseData, At
  <2> QED
    BY <2>1, <2>2, <2>3, <2>4, <2>5 DEF Holding
<1>8. CloseData(t) => /\ \A g \in Fd : fds'[g] = IF g \in {k.file, dataFd[k.fd]} THEN Free ELSE fds[g]
                      /\ fds[k.file] = File /\ fds[dataFd[k.fd]] \in DataOf(s)
  <2>1. CloseData(t) => CloseAll({k.file, dataFd[k.fd]}) /\ k.pc = "close"
    BY DEF CloseData, Finished, At
  <2> QED
    BY <1>3, <2>1 DEF CloseAll, StageOK, Holding
<1>9. \A r \in Session \ {s} : Apart2(r)
  <2>1. \A r \in Session \ {s} : Same(r)
    BY ThreadCareful DEF Undisturbed
  <2>2. \A r \in Session : Serves(r) => Serves(r)'
    BY <1>5, <1>6 DEF Serves, ControlKept, TypeOK, ThreadsOK, MainState
  <2> QED
    BY <1>6, <2>1, <2>2 DEF Apart2
<1>10. SettledOK(s)'
  <2>1. ASSUME NEW f \in Fd, fds'[f] = Ctl(s) PROVE f = k.fd
    BY <1>2, <1>5, <2>1 DEF CarefulInv, SessionOK, SlotOK
  <2>2. CASE ForgetData(t)
    <3>1. dataFd'[k.fd] = 0 /\ owed' = owed /\ owed[s] = 0
      BY <1>2, <1>3, <1>7, <2>2 DEF ForgetData, TypeOK, SlotsOK, StageOK, peers
    <3>2. \A u \in Tid : task'[u].who # s
      BY <1>2, <1>7, <2>2, SessionAssumption DEF ThreadOK, Idle
    <3> QED
      BY <1>2, <1>3, <1>6, <2>1, <3>1, <3>2 DEF SettledOK, DataOK, AnswerDue
  <2>3. CASE ~ ForgetData(t)
    <3>1. ~ NoThread(s)' /\ ThreadOK(s, t)' /\ task'[t].fd = k.fd
      BY <1>2, <1>7, <2>3 DEF NoThread, CarefulInv, SessionOK
    <3>2. task'[t].pc \in Holding \cup {"zero"}
      BY <1>7, <2>3
    <3>3. status'[k.fd] \in {AVAILAVLE, TRANSFER}
      BY <3>1, <3>2 DEF ThreadOK, StageOK, Holding
    <3>4. \A f \in Fd : fds'[f] = Ctl(s) => DataOK(s, f)'
      BY <2>1, <3>1, <3>3 DEF DataOK, UsesData
    <3>5. \A u \in Tid : task'[u].who = s => u = t
      BY <3>1 DEF ThreadOK
    <3>6. WorksOn(s, t)'
      <4>1. CloseData(t) => fds'[dataFd'[k.fd]] = Free
        BY <1>2, <1>6, <1>8, <2>3
      <4> QED
        BY <1>7, <2>3, <3>1, <4>1 DEF WorksOn, OfSession, Free, Plain, Holding
    <3> QED
      BY <1>3, <1>6, <3>1, <3>4, <3>5, <3>6 DEF SettledOK, AnswerDue
  <2> QED
    BY <2>2, <2>3
<1>11. ASSUME NEW g \in Fd, fds'[g] # Free,
              fds[g] = Free \/ (\E p \in Part : Owns(s, p, g)) \/ (main.pc = "swap" /\ g = main.sock)
       PROVE  HasOwner(g)'
  <2>1. fds[g] # Free
    BY <1>6, <1>8, <1>11
  <2>2. CASE main.pc = "swap" /\ g = main.sock
    BY <1>6, <2>2 DEF HasOwner
  <2>3. ASSUME NEW p \in Part, Owns(s, p, g) PROVE HasOwner(g)'
    <3>1. \A f \in Fd : fds[f] = Ctl(s) => f = k.fd
      BY <1>2 DEF CarefulInv, SessionOK, SlotOK
    <3>2. \A u \in Tid : task[u].who = s => u = t
      BY <1>2 DEF ThreadOK
    <3>3. CASE CloseData(t)
      <4>1. p = "control"
        BY <1>2, <1>8, <1>11, <2>3, <3>1, <3>2, <3>3 DEF Owns
      <4> QED
        BY <1>2, <1>5, <2>3, <4>1 DEF Owns, HasOwner, ControlKept
    <3>4. CASE ~ CloseData(t)
      <4>1. OwnKept(s)
        <5>1. \A f \in Fd : fds[f] = Ctl(s) => dataFd'[f] = dataFd[f] \/ ~ OfSession(dataFd[f], s)
          BY <1>3, <1>6, <1>7, <3>1 DEF WorksOn
        <5>2. \A u \in Tid : task[u].who = s /\ task[u].pc \in Holding =>
                task'[u].who = s /\ task'[u].pc \in Holding /\ task'[u].file = task[u].file
          BY <1>7, <3>2, <3>4 DEF Holding
        <5> QED
          BY <1>2, <1>6, <3>4, <5>1, <5>2 DEF OwnKept, OfSession
      <4> QED
        BY <1>2, <2>3, <4>1, OwnStays DEF HasOwner
    <3> QED
      BY <3>3, <3>4
  <2> QED
    BY <1>11, <2>1, <2>2, <2>3
<1>12. \A f \in Fd : fds'[f] # fds[f] => fds[f].kind # "std"
  BY <1>6, <1>8 DEF File, Plain, DataOf, Data
<1>13. SlotsClear'
  <2>1. \A f \in Fd : dataFd'[f] # dataFd[f] => fds[f] = Ctl(s)
    <3>1. ForgetData(t) => \A f \in Fd : f # k.fd => dataFd'[f] = dataFd[f]
      BY <1>2 DEF ForgetData, TypeOK, SlotsOK
    <3> QED
      BY <1>2, <1>6, <3>1
  <2> QED
    BY <1>5, <2>1, ClearStays DEF SettledInv, ControlKept
<1> QED
  BY <1>2, <1>6, <1>9, <1>10, <1>11, <1>12, <1>13, OneSettled DEF SettledInv, StaysUp

-----------------------------------------------------------------------------
(* The clients. They open and close no number of the server's table, and    *)
(* what they announce or connect to is for a transfer they will ask for.    *)
LEMMA ClientSettled ==
  ASSUME Undisturbed, TypeOK, TypeOK', ServingInv, CarefulInv, SettledInv,
         NEW s \in Session, ClientStep(s)
  PROVE  SettledInv'
<1>1. s \in Patient /\ SessionOK(s) /\ SettledOK(s)
  BY SessionAssumption DEF Undisturbed, CarefulInv, SettledInv
<1>2. UNCHANGED <<slots, main, task>>
  BY DEF ClientStep, Connect, Send, DataConnect, DataClose, HangUp
<1>3. \A f \in Fd :
        \/ fds'[f] = fds[f]
        \/ \E p, q \in {"waiting", "pending"} : fds[f] = Pasv(s, p) /\ fds'[f] = Pasv(s, q)
        \/ \E p, q \in {"open", "closed"} : fds[f] = Data(s, p) /\ fds'[f] = Data(s, q)
  <2>1. CASE Connect(s) \/ (\E c \in Commands : Send(s, c)) \/ HangUp(s)
    BY <2>1 DEF Connect, Send, HangUp
  <2>2. CASE DataConnect(s) \/ DataClose(s)
    BY <2>2 DEF DataConnect, DataClose, TypeOK, FdsOK, PeersOK
  <2> QED
    BY <2>1, <2>2 DEF ClientStep
<1>4. \A f \in Fd, r \in Session : fds'[f] = Ctl(r) <=> fds[f] = Ctl(r)
  BY <1>3 DEF Ctl, Pasv, Data
<1>5. \A f \in Fd : OfSession(f, s)' <=> OfSession(f, s)
  BY <1>3 DEF OfSession, Pasv, Data
<1>6. \A r \in Session : Serves(r)' <=> Serves(r)
  BY <1>2, <1>4 DEF Serves, TypeOK, ThreadsOK, MainState
<1>7. \A r \in Session \ {s} : Apart2(r)
  BY <1>2, <1>6, ClientCareful DEF Apart2, Undisturbed
<1>8. OwnKept(s)
  BY <1>2, <1>4, <1>5, <1>6 DEF OwnKept, slots, Listing
<1>9. \A f \in Fd : fds[f].kind = "std" => fds'[f] = fds[f]
  BY <1>3 DEF Pasv, Data
<1>10. ASSUME NEW g \in Fd, fds'[g] # Free,
              fds[g] = Free \/ (\E p \in Part : Owns(s, p, g)) \/ (main.pc = "swap" /\ g = main.sock)
       PROVE  HasOwner(g)'
  <2>1. fds[g] # Free
    BY <1>3, <1>10 DEF Pasv, Data, Free, Plain
  <2>2. CASE main.pc = "swap" /\ g = main.sock
    BY <1>2, <2>2 DEF HasOwner
  <2> QED
    BY <1>8, <1>10, <2>1, <2>2, OwnStays DEF HasOwner
<1>11. UsesData(s) /\ (\E f \in Fd : fds[f] = Ctl(s)) => UsesData(s)'
  <2> SUFFICES ASSUME UsesData(s), NEW f \in Fd, fds[f] = Ctl(s) PROVE UsesData(s)'
    OBVIOUS
  <2>1. NoThread(s)' <=> NoThread(s)
    BY <1>2 DEF NoThread
  <2>2. CASE Connect(s)
    BY <1>1, <2>2 DEF Connect, SessionOK, SlotOK
  <2>3. ASSUME NEW c \in Commands, Send(s, c) PROVE UsesData(s)'
    <3>1. /\ line[s] = "none" /\ line'[s] = c /\ told' = told
          /\ dataReady'[s] = (dataReady[s] /\ c \notin Transfers)
      BY <2>3 DEF Send, TypeOK, PeersOK
    <3> QED
      BY <1>2, <1>6, <2>1, <3>1 DEF UsesData, Transfers, TransferVerb
  <2>4. CASE DataConnect(s)
    <3>1. dataReady'[s]
      BY <1>1, <2>4 DEF DataConnect, TypeOK, PeersOK
    <3> QED
      BY <3>1 DEF UsesData
  <2>5. CASE DataClose(s) \/ HangUp(s)
    BY <1>2, <1>6, <2>1, <2>5 DEF UsesData, DataClose, HangUp, peers
  <2> QED
    BY <2>2, <2>3, <2>4, <2>5 DEF ClientStep
<1>12. AnswerDue(s)'
  <2>1. NoThread(s)' <=> NoThread(s)
    BY <1>2 DEF NoThread
  <2>2. CASE Connect(s) \/ HangUp(s)
    BY <2>2 DEF Connect, HangUp, AnswerDue, TypeOK, PeersOK
  <2>3. ASSUME NEW c \in Commands, Send(s, c) PROVE AnswerDue(s)'
    <3>1. line'[s] # "none"
      BY <2>3, InputAssumption DEF Send, TypeOK, PeersOK, Verb
    <3> QED
      BY <3>1 DEF AnswerDue
  <2>4. CASE DataConnect(s) \/ DataClose(s)
    BY <1>1, <1>6, <2>1, <2>4 DEF DataConnect, DataClose, SettledOK, AnswerDue, peers
  <2> QED
    BY <2>2, <2>3, <2>4 DEF ClientStep
<1>13. line'[s] # "EMPTY"
  <2>1. ASSUME NEW c \in Commands, Send(s, c) PROVE line'[s] # "EMPTY"
    BY <2>1 DEF Send, TypeOK, PeersOK, Undisturbed
  <2> QED
    BY <1>1, <2>1 DEF ClientStep, Connect, DataConnect, DataClose, HangUp, peers, SettledOK
<1>14. SettledOK(s)'
  <2>1. ASSUME NEW f \in Fd, fds'[f] = Ctl(s) PROVE DataOK(s, f)'
    <3>1. DataOK(s, f) /\ fds[f] = Ctl(s)
      BY <1>1, <1>4, <2>1 DEF SettledOK
    <3> QED
      BY <1>2, <1>6, <1>11, <3>1 DEF DataOK, slots, NoThread
  <2>2. ASSUME NEW t \in Tid, task'[t].who = s PROVE WorksOn(s, t)'
    <3>1. WorksOn(s, t) /\ dataFd[task[t].fd] \in Fd
      BY <1>1, <1>2, <2>2 DEF SettledOK, TypeOK, ThreadsOK, Task, SlotsOK
    <3> QED
      BY <1>2, <1>5, <3>1 DEF WorksOn, slots
  <2> QED
    BY <1>12, <1>13, <2>1, <2>2 DEF SettledOK
<1>15. SlotsClear'
  BY <1>2, <1>4, ClearStays DEF SettledInv, slots
<1> QED
  BY <1>2, <1>7, <1>9, <1>10, <1>14, <1>15, OneSettled DEF SettledInv, StaysUp

-----------------------------------------------------------------------------
(* The loop. A step in which no session takes part and no number changes. *)
LEMMA NoneSettled ==
  ASSUME TypeOK, TypeOK', CarefulInv, SettledInv,
         UNCHANGED <<slots, clientFds, task, fds, peers>>,
         \/ main' = main
         \/ /\ main.pc \notin Handling
            /\ main'.pc \notin Handling \cup {"exited", "killed"}
  PROVE  SettledInv'
<1>1. \A r \in Session : Apart2(r)
  <2>1. \A r \in Session : Same(r)
    BY NoSession
  <2>2. \A r \in Session : Serves(r) => Serves(r)' /\ main' = main
    BY DEF Serves
  <2> QED
    BY <2>1, <2>2 DEF Apart2
<1>2. \A r \in Session : SettledOK(r)'
  BY <1>1, SettledApart DEF SettledInv
<1>3. AllOwned'
  <2> SUFFICES ASSUME NEW g \in Fd, g > ListenFd, fds'[g] # Free PROVE HasOwner(g)'
    BY DEF AllOwned
  <2>1. HasOwner(g)
    BY DEF SettledInv, AllOwned
  <2>2. ASSUME NEW r \in Session, NEW k \in Part, Owns(r, k, g) PROVE HasOwner(g)'
    BY <1>1, <2>2, OwnApart, OwnStays DEF HasOwner
  <2>3. main.pc = "swap" => main' = main
    BY DEF Handling
  <2> QED
    BY <2>1, <2>2, <2>3 DEF HasOwner
<1>4. StaysUp' /\ StdOpen' /\ SlotsClear'
  BY DEF SettledInv, StaysUp, StdOpen, SlotsClear, slots, Plain
<1> QED
  BY <1>2, <1>3, <1>4 DEF SettledInv

(* A new connection is its own owner, and its slot is clear. *)
LEMMA AcceptSettled ==
  ASSUME TypeOK, TypeOK', CarefulInv, CarefulInv', SettledInv, Accept
  PROVE  SettledInv'
<1>1. PICK s \in Session, f \in Fd :
        /\ conn[s] = "queued"
        /\ IsLowestFree(f)
        /\ fds' = [fds EXCEPT ![f] = Ctl(s)]
        /\ conn' = [conn EXCEPT ![s] = "open"]
        /\ owed' = [owed EXCEPT ![s] = 0]
        /\ status' = [status EXCEPT ![f] = CONNECTED]
  BY DEF Accept
<1>2. main.pc = "scan" /\ UNCHANGED <<mode, dataFd, main, task, line, told, dataReady, last, loggedIn>>
  BY DEF Accept, AtEvent
<1>3. fds[f] = Free /\ fds'[f] = Ctl(s) /\ \A g \in Fd : g # f => fds'[g] = fds[g]
  BY <1>1 DEF IsLowestFree, TypeOK, FdsOK
<1>4. \A r \in Session : ~ Serves(r)
  BY <1>2 DEF Serves, Handling
<1>5. \A r \in Session \ {s} : Apart2(r)
  BY <1>1, <1>4, AcceptCareful DEF Apart2, TypeOK, PeersOK
<1>6. NoThread(s)
  BY <1>1, NothingUnderWay
<1>7. SettledOK(s)'
  <2>1. dataFd'[f] = 0
    BY <1>2, <1>3 DEF SettledInv, SlotsClear, Free, Plain
  <2>2. \A g \in Fd : fds'[g] = Ctl(s) => g = f
    BY <1>3 DEF CarefulInv, SessionOK, SlotOK
  <2>3. owed'[s] = 0 /\ line'[s] # "EMPTY"
    BY <1>1, <1>2 DEF TypeOK, PeersOK, SettledInv, SettledOK
  <2> QED
    BY <1>2, <1>6, <2>1, <2>2, <2>3 DEF SettledOK, DataOK, AnswerDue, NoThread
<1>8. SlotsClear'
  BY <1>2, <1>3 DEF SettledInv, SlotsClear, Ctl
<1>9. ASSUME NEW g \in Fd, fds'[g] # Free,
             fds[g] = Free \/ (\E p \in Part : Owns(s, p, g)) \/ (main.pc = "swap" /\ g = main.sock)
      PROVE  HasOwner(g)'
  <2>1. CASE g = f
    <3>1. Owns(s, "control", g)'
      BY <1>3, <2>1 DEF Owns
    <3> QED
      BY <3>1 DEF HasOwner, Part
  <2>2. CASE g # f
    <3>1. OwnKept(s)
      BY <1>2, <1>3, <1>4, <1>6 DEF OwnKept, OfSession, NoThread, Ctl, Free, Plain
    <3> QED
      BY <1>2, <1>3, <1>9, <2>2, <3>1, OwnStays DEF HasOwner
  <2> QED
    BY <2>1, <2>2
<1>10. \A g \in Fd : fds'[g] # fds[g] => fds[g].kind # "std"
  BY <1>3 DEF Free, Plain
<1> QED
  BY <1>2, <1>5, <1>7, <1>8, <1>9, <1>10, OneSettled DEF SettledInv, StaysUp

(* A connection that has ended had no data_fd to lose: its client used what *)
(* it announced before it quit.                                             *)
LEMMA DisconnectSettled ==
  ASSUME TypeOK, TypeOK', ServingInv, CarefulInv, CarefulInv', SettledInv,
         NEW e \in Fd, Disconnect(e)
  PROVE  SettledInv'
<1>1. e \in clientFds \ {ListenFd}
  BY DEF Disconnect, AtEvent, IsClient, ServingInv, ListenerNotHeld
<1>2. PICK s \in Session : fds[e] = Ctl(s)
  BY <1>1 DEF CarefulInv, WatchedAreConnections, CtlShape
<1>3. /\ main.pc = "scan" /\ CloseAll({e})
      /\ dataFd' = [dataFd EXCEPT ![e] = 0]
      /\ UNCHANGED <<main, task, line, owed, told, dataReady, last, loggedIn>>
  BY DEF Disconnect, AtEvent
<1>4. conn[s] = "gone" /\ line[s] = "none"
  BY <1>2 DEF Disconnect, ReadFails, Ctl
<1>5. fds'[e] = Free /\ \A f \in Fd : f # e => fds'[f] = fds[f]
  BY <1>3 DEF CloseAll
<1>6. conn'[s] = "gone"
  BY <1>3, <1>4 DEF CloseAll
<1>7. \A r \in Session : ~ Serves(r)
  BY <1>3 DEF Serves, Handling
<1>8. \A r \in Session \ {s} : Apart2(r)
  <2>1. \A r \in Session \ {s} : fds[e] # Ctl(r)
    BY <1>2 DEF Ctl
  <2> QED
    BY <1>7, <2>1, DisconnectCareful DEF Apart2
<1>9. NoThread(s) /\ NoOffer(s)
  <2>1. NoThread(s)
    BY <1>4, NothingUnderWay
  <2>2. ClientOK(s)
    BY DEF CarefulInv, SessionOK
  <2> QED
    BY <1>4, <2>1, <2>2 DEF ClientOK
<1>10. \A f \in Fd : fds[f] = Ctl(s) => f = e
  BY <1>2 DEF CarefulInv, SessionOK, SlotOK
<1>11. dataFd[e] = 0
  <2>1. ~ UsesData(s)
    BY <1>4, <1>7, <1>9 DEF UsesData, NoOffer, TransferVerb
  <2> QED
    BY <1>2, <2>1 DEF SettledInv, SettledOK, DataOK
<1>12. SettledOK(s)'
  <2>1. \A f \in Fd : fds'[f] # Ctl(s)
    BY <1>5, <1>10 DEF Free, Plain, Ctl
  <2> QED
    BY <1>3, <1>4, <1>6, <1>9, <2>1 DEF SettledOK, AnswerDue, NoThread
<1>13. SlotsClear'
  <2>1. dataFd'[e] = 0 /\ \A f \in Fd : f # e => dataFd'[f] = dataFd[f]
    BY <1>3 DEF TypeOK, SlotsOK
  <2> QED
    BY <1>5, <2>1 DEF SettledInv, SlotsClear
<1>14. ASSUME NEW g \in Fd, fds'[g] # Free,
              fds[g] = Free \/ (\E p \in Part : Owns(s, p, g)) \/ (main.pc = "swap" /\ g = main.sock)
       PROVE  HasOwner(g)'
  <2>1. g # e /\ fds[g] # Free
    BY <1>5, <1>14
  <2>2. PICK p \in Part : Owns(s, p, g)
    BY <1>3, <1>14, <2>1
  <2>3. ~ OfSession(0, s)
    BY BoundAssumption DEF SettledInv, StdOpen, OfSession, Plain, Fd, ListenFd
  <2> QED
    BY <1>7, <1>9, <1>10, <1>11, <2>1, <2>2, <2>3 DEF Owns, NoThread, Part
<1>15. \A g \in Fd : fds'[g] # fds[g] => fds[g].kind # "std"
  BY <1>2, <1>5 DEF Ctl
<1> QED
  BY <1>3, <1>8, <1>12, <1>13, <1>14, <1>15, OneSettled DEF SettledInv, StaysUp

(* A command that is read is being handled. *)
LEMMA ReadLineSettled ==
  ASSUME TypeOK, TypeOK', ServingInv, CarefulInv, CarefulInv', SettledInv,
         NEW e \in Fd, ReadLine(e)
  PROVE  SettledInv'
<1>1. PICK s \in Session :
        /\ fds[e] = Ctl(s)
        /\ line' = [line EXCEPT ![s] = "none"]
        /\ main' = [main EXCEPT !.pc = "handle", !.fd = e, !.cmd = line[s], !.seen = status[e]]
  BY DEF ReadLine
<1>2. /\ main.pc = "scan"
      /\ UNCHANGED <<slots, task, fds, conn, owed, told, dataReady, last, loggedIn>>
  BY DEF ReadLine, AtEvent
<1>3. line'[s] = "none" /\ main'.pc = "handle" /\ main'.fd = e /\ main'.cmd = line[s]
  BY <1>1 DEF TypeOK, PeersOK, ThreadsOK, MainState
<1>4. \A r \in Session : ~ Serves(r)
  BY <1>2 DEF Serves, Handling
<1>5. Serves(s)'
  BY <1>1, <1>2, <1>3 DEF Serves, Handling
<1>6. \A r \in Session \ {s} : Apart2(r)
  <2>1. \A r \in Session \ {s} : fds[e] # Ctl(r)
    BY <1>1 DEF Ctl
  <2> QED
    BY <1>4, <2>1, ReadLineCareful DEF Apart2
<1>7. NoThread(s)' <=> NoThread(s)
  BY <1>2 DEF NoThread
<1>8. UsesData(s) => UsesData(s)'
  BY <1>2, <1>3, <1>4, <1>5, <1>7 DEF UsesData
<1>9. SettledOK(s)'
  BY <1>2, <1>3, <1>4, <1>5, <1>7, <1>8
  DEF SettledInv, SettledOK, DataOK, AnswerDue, WorksOn, OfSession, slots
<1>10. OwnKept(s)
  BY <1>2, <1>4 DEF OwnKept, OfSession, slots
<1>11. SlotsClear'
  BY <1>2 DEF SettledInv, SlotsClear, slots
<1>12. \A g \in Fd : fds[g] # Free /\ ((\E p \in Part : Owns(s, p, g)) \/ (main.pc = "swap" /\ g = main.sock))
          => HasOwner(g)'
  BY <1>2, <1>10, OwnStays DEF HasOwner
<1> QED
  BY <1>2, <1>3, <1>6, <1>9, <1>11, <1>12, OneSettled

(* What would end the server in its loop does not come about. *)
LEMMA LoopSettled ==
  ASSUME Enough, Undisturbed, TypeOK, TypeOK', ServingInv, CarefulInv, CarefulInv', SettledInv, LoopNext
  PROVE  SettledInv'
<1>1. ~ SelectFails
  <2>1. \A f \in clientFds : f \in Fd /\ fds[f] # Free
    BY DEF CarefulInv, WatchedAreConnections, ServingInv, ListenerOpen, TypeOK, WatchingOK,
           Free, Plain
  <2> QED
    BY <2>1 DEF SelectFails
<1>2. ~ AcceptFails
  BY NumberLeft DEF AcceptFails, AtEvent, SettledInv
<1>3. \A e \in Fd : ~ ReadEmptyLine(e)
  BY DEF ReadEmptyLine, SettledInv, SettledOK
<1>4. ~ GreetingFails
  BY AllGreeted DEF Undisturbed
<1>5. CASE Select \/ EndPass
  <2>1. /\ UNCHANGED <<slots, clientFds, task, fds, peers>>
        /\ main.pc \in {"select", "scan"} /\ main'.pc \in {"select", "scan"}
    BY <1>5 DEF Select, EndPass, TypeOK, ThreadsOK, MainState
  <2> QED
    BY <2>1, NoneSettled DEF Handling
<1> QED
  BY <1>1, <1>2, <1>3, <1>4, <1>5, AcceptSettled, DisconnectSettled, ReadLineSettled DEF LoopNext

-----------------------------------------------------------------------------
(* The handlers. What is known while a command of s is handled. *)
LEMMA HandlerHas ==
  ASSUME Undisturbed, TypeOK, CarefulInv, SettledInv, main.pc \in Handling
  PROVE  \E s \in Session, e \in Fd :
           /\ e = main.fd /\ fds[e] = Ctl(s) /\ Owner = s /\ Serves(s) /\ s \in Patient
           /\ HandlerOK(s) /\ NoThread(s) /\ DataOK(s, e) /\ line[s] = "none"
           /\ \A f \in Fd : fds[f] = Ctl(s) => f = e
           /\ \A r \in Session : r # s => fds[e] # Ctl(r)
           /\ ~ OfSession(0, s)
           /\ main.sock \in Fd /\ main.file \in Fd /\ dataFd[e] \in Fd
<1>1. PICK s \in Session :
        /\ fds[main.fd] = Ctl(s) /\ Owner = s /\ Serves(s)
        /\ HandlerOK(s) /\ SlotOK(s, main.fd) /\ NoThread(s)
        /\ main.fd \in Fd /\ main.sock \in Fd /\ main.file \in Fd /\ dataFd[main.fd] \in Fd
  BY HandlerKnows
<1>2. DataOK(s, main.fd)
  BY <1>1 DEF SettledInv, SettledOK
<1>3. s \in Patient /\ line[s] = "none"
  BY <1>1, SessionAssumption DEF Undisturbed, HandlerOK
<1>4. \A f \in Fd : fds[f] = Ctl(s) => f = main.fd
  BY <1>1 DEF SlotOK
<1>5. \A r \in Session : r # s => fds[main.fd] # Ctl(r)
  BY <1>1 DEF Ctl
<1>6. ~ OfSession(0, s)
  BY BoundAssumption DEF SettledInv, StdOpen, OfSession, Plain, Fd, ListenFd
<1> QED
  BY <1>1, <1>2, <1>3, <1>4, <1>5, <1>6

(* A step of a handler keeps the invariant if it leaves the slot with a     *)
(* data_fd that is 0 or in use, and goes on, answers or starts a thread.    *)
LEMMA HandlerSettles ==
  ASSUME Undisturbed, TypeOK, TypeOK', CarefulInv, CarefulInv', SettledInv, HandlerNext,
         NEW s \in Session, NEW e \in Fd, e = main.fd, fds[e] = Ctl(s), Serves(s), NoThread(s),
         DataOK(s, e)',
         \A f \in Fd : f # e => dataFd'[f] = dataFd[f],
         \A f \in Fd : fds'[f] # fds[f] => fds[f].kind # "std",
         \A t \in Tid : task'[t] = task[t] \/ task'[t].pc = "start",
         UNCHANGED line, main'.pc \notin {"exited", "killed"},
         owed'[s] = 0 \/ ~ NoThread(s)' \/ (main'.pc \in Handling /\ main'.fd = e),
         \A g \in Fd : /\ fds'[g] # Free
                       /\ \/ fds[g] = Free
                          \/ \E k \in Part : Owns(s, k, g)
                          \/ main.pc = "swap" /\ g = main.sock
                       => HasOwner(g)'
  PROVE  SettledInv'
<1>1. ControlKept /\ fds'[e] = Ctl(s)
  BY HandlersKeepControl DEF ControlKept
<1>2. \A r \in Session \ {s} : Apart2(r)
  <2>1. \A r \in Session \ {s} : fds[main.fd] # Ctl(r)
    BY DEF Ctl
  <2> QED
    BY <2>1, HandlerCareful DEF Apart2, HandlerKeeps, Undisturbed, Serves
<1>3. \A f \in Fd : fds'[f] = Ctl(s) => f = e
  BY <1>1 DEF CarefulInv, SessionOK, SlotOK
<1>4. AnswerDue(s)'
  BY <1>1 DEF AnswerDue, Serves
<1>5. \A t \in Tid : task'[t].who = s => WorksOn(s, t)'
  BY DEF WorksOn, NoThread
<1>6. SettledOK(s)'
  BY <1>3, <1>4, <1>5 DEF SettledOK, SettledInv
<1>7. SlotsClear'
  BY <1>1, ClearStays DEF SettledInv, ControlKept
<1> QED
  BY <1>2, <1>6, <1>7, OneSettled

(* Failures for want of a number, of a thread or of a data address, and the *)
(* commands dropped in TRANSFER, do not come about.                         *)
LEMMA NothingFails ==
  ASSUME Enough, Undisturbed, TypeOK, CarefulInv, SettledInv
  PROVE  /\ ~ Ignore
         /\ ~ PasvFails
         /\ ~ PasvListenFails
         /\ ~ OpenDirectoryFails
         /\ ~ NoDataSocket
         /\ ~ ConnectDataFails
         /\ ~ NoDataAddress
         /\ ~ SpawnFails
<1>1. main.pc # "swap" => ~ NoFreeFd
  BY NumberLeft DEF SettledInv
<1>2. {"badarg", "syscall", "nofile", "refused"} \cap Faults = {}
  BY DEF Undisturbed
<1>3. CASE main.pc \notin Handling
  BY <1>3 DEF Ignore, PasvFails, PasvListenFails, OpenDirectoryFails, NoDataSocket,
              ConnectDataFails, NoDataAddress, SpawnFails, Serving, Handling
<1>4. CASE main.pc \in Handling
  <2>1. PICK s \in Session, e \in Fd : e = main.fd /\ HandlerOK(s) /\ NoThread(s)
    BY <1>4, HandlerHas
  <2>2. ~ Ignore
    BY <2>1 DEF Ignore, Serving, HandlerOK, DISCONNECTED, CONNECTED, PASSWORD, AVAILAVLE, TRANSFER
  <2>3. ~ PasvFails /\ ~ OpenDirectoryFails /\ ~ NoDataSocket /\ ~ ConnectDataFails
    BY <1>1, <1>2 DEF PasvFails, OpenDirectoryFails, NoDataSocket, ConnectDataFails, Serving
  <2>4. ~ PasvListenFails
    BY <1>2, <2>1 DEF PasvListenFails, HandlerOK, Sock
  <2>5. ~ NoDataAddress
    BY <1>1, <2>1 DEF NoDataAddress, HandlerOK, Ready, Pasv, NONE_MODE, PASV_MODE, PORT_MODE
  <2>6. ~ SpawnFails
    BY <1>1, <1>2, <2>1, ThreadLeft DEF SpawnFails
  <2> QED
    BY <2>2, <2>3, <2>4, <2>5, <2>6
<1> QED
  BY <1>3, <1>4

(* A reply and no more, and the commands of the login: none of them is sent *)
(* while data_fd would be lost.                                             *)
LEMMA AnswerSettled ==
  ASSUME Undisturbed, TypeOK, TypeOK', CarefulInv, CarefulInv', SettledInv,
         AnswerOnly \/ User \/ Pass \/ Port
  PROVE  SettledInv'
<1>1. /\ main.pc = "handle" /\ Answer
      /\ UNCHANGED <<dataFd, task, fds, line>>
      /\ \/ main.seen \in {CONNECTED, PASSWORD}
         \/ /\ main.cmd \notin TransferVerb
            /\ main.cmd # "PORT" => UNCHANGED <<status, mode, told, dataReady>>
  BY DEF AnswerOnly, User, Pass, Port, Serving, Undisturbed, TransferVerb, slots
<1>2. PICK s \in Session, e \in Fd :
        /\ e = main.fd /\ fds[e] = Ctl(s) /\ Serves(s) /\ HandlerOK(s) /\ NoThread(s)
        /\ DataOK(s, e) /\ line[s] = "none"
  BY <1>1, HandlerHas DEF Handling
<1>3. main' = Scanning /\ main'.pc = "scan" /\ owed'[s] = 0
  BY <1>1, <1>2, HandlerReplies DEF Undisturbed
<1>4. NoThread(s)' <=> NoThread(s)
  BY <1>1 DEF NoThread
<1>5. DataOK(s, e)'
  <2>1. CASE main.seen \in {CONNECTED, PASSWORD}
    <3>1. dataFd[e] = 0
      BY <1>2, <2>1 DEF DataOK, HandlerOK, CONNECTED, PASSWORD, AVAILAVLE, TRANSFER
    <3> QED
      BY <1>1, <3>1 DEF DataOK
  <2>2. CASE main.cmd = "PORT"
    <3>1. ~ UsesData(s)
      BY <1>1, <1>2, <2>2 DEF UsesData, HandlerOK, NoOffer, Using, Addressing, TransferVerb
    <3> QED
      BY <1>1, <1>2, <3>1 DEF DataOK
  <2>3. CASE main.seen \notin {CONNECTED, PASSWORD} /\ main.cmd # "PORT"
    BY <1>1, <1>2, <1>4, <2>3 DEF DataOK, UsesData
  <2> QED
    BY <2>1, <2>2, <2>3
<1>6. OwnKept(s)
  BY <1>1, <1>2 DEF OwnKept, OfSession, NoThread, Listing
<1>7. \A g \in Fd : /\ fds'[g] # Free
                    /\ \/ fds[g] = Free
                       \/ \E k \in Part : Owns(s, k, g)
                       \/ main.pc = "swap" /\ g = main.sock
                    => HasOwner(g)'
  BY <1>1, <1>6, OwnStays DEF HasOwner
<1>8. HandlerNext
  BY DEF HandlerNext
<1> QED
  BY <1>1, <1>2, <1>3, <1>5, <1>7, <1>8, HandlerSettles

(* PASV: the new socket becomes data_fd, and then the address the client is *)
(* told.                                                                    *)
LEMMA PassiveSettled ==
  ASSUME Undisturbed, TypeOK, TypeOK', ServingInv, CarefulInv, CarefulInv', SettledInv,
         PasvOpen \/ PasvListen
  PROVE  SettledInv'
<1>1. PICK s \in Session, e \in Fd :
        /\ e = main.fd /\ fds[e] = Ctl(s) /\ Owner = s /\ Serves(s)
        /\ HandlerOK(s) /\ NoThread(s) /\ DataOK(s, e) /\ line[s] = "none"
        /\ \A f \in Fd : fds[f] = Ctl(s) => f = e
        /\ ~ OfSession(0, s) /\ dataFd[e] \in Fd
  BY HandlerHas DEF PasvOpen, PasvListen, Serving, Handling
<1>2. HandlerNext
  BY DEF HandlerNext
<1>3. UNCHANGED task /\ main.pc \notin {"data", "swap", "list"}
  BY DEF PasvOpen, PasvListen, Serving
<1>4. CASE PasvOpen
  <2>1. PICK f \in Fd :
          /\ IsLowestFree(f)
          /\ fds' = [fds EXCEPT ![f] = Sock(s)]
          /\ dataFd' = [dataFd EXCEPT ![main.fd] = f]
          /\ main' = [main EXCEPT !.pc = "listen", !.sock = f]
    BY <1>1, <1>4 DEF PasvOpen
  <2>2. /\ main.pc = "handle" /\ main.cmd = "PASV" /\ main.seen = AVAILAVLE
        /\ UNCHANGED <<status, mode, peers>>
    BY <1>4 DEF PasvOpen, Serving
  <2>3. /\ fds[f] = Free /\ fds'[f] = Sock(s) /\ \A g \in Fd : g # f => fds'[g] = fds[g]
        /\ dataFd'[e] = f /\ \A g \in Fd : g # e => dataFd'[g] = dataFd[g]
    BY <1>1, <2>1 DEF IsLowestFree, TypeOK, FdsOK, SlotsOK
  <2>4. main'.pc = "listen" /\ main'.fd = e
    BY <1>1, <2>1 DEF TypeOK, ThreadsOK, MainState
  <2>5. fds'[e] = Ctl(s) /\ Serves(s)'
    BY <1>1, <2>3, <2>4 DEF Serves, Handling, Ctl, Free, Plain
  <2>6. dataFd[e] = 0
    <3>1. ~ UsesData(s)
      BY <1>1, <2>2 DEF UsesData, HandlerOK, NoOffer, Using, Addressing, TransferVerb
    <3> QED
      BY <1>1, <3>1 DEF DataOK
  <2>7. DataOK(s, e)'
    BY <1>1, <2>2, <2>4, <2>5 DEF DataOK, UsesData, HandlerOK
  <2>8. OwnKept(s)
    BY <1>1, <1>3, <2>3, <2>6 DEF OwnKept, OfSession, NoThread, Listing, Ctl, Free, Plain
  <2>9. HasOwner(f)'
    <3>1. Owns(s, "data", f)'
      BY <2>3, <2>5 DEF Owns, OfSession, Sock
    <3> QED
      BY <3>1 DEF HasOwner, Part
  <2>10. \A g \in Fd : /\ fds'[g] # Free
                       /\ \/ fds[g] = Free
                          \/ \E k \in Part : Owns(s, k, g)
                          \/ main.pc = "swap" /\ g = main.sock
                       => HasOwner(g)'
    BY <1>3, <2>3, <2>8, <2>9, OwnStays DEF HasOwner
  <2>11. \A g \in Fd : fds'[g] # fds[g] => fds[g].kind # "std"
    BY <2>3 DEF Free, Plain
  <2> QED
    BY <1>1, <1>2, <1>3, <2>2, <2>3, <2>4, <2>7, <2>10, <2>11, HandlerSettles DEF peers, Handling
<1>5. CASE PasvListen
  <2> DEFINE g == dataFd[main.fd]
  <2>1. /\ main.pc = "listen" /\ Answer
        /\ fds' = [fds EXCEPT ![g] = Listening(g)]
        /\ mode' = [mode EXCEPT ![main.fd] = PASV_MODE]
        /\ Tell(g, FALSE)
        /\ UNCHANGED <<status, dataFd, line>>
    BY <1>5 DEF PasvListen
  <2>2. fds[g] = Sock(s) /\ main.seen = AVAILAVLE
    BY <1>1, <2>1 DEF HandlerOK
  <2>3. /\ fds'[g] = Pasv(s, "waiting") /\ \A f \in Fd : f # g => fds'[f] = fds[f]
        /\ mode'[e] = PASV_MODE /\ told'[s] = g /\ g # NoAddress
    BY <1>1, <2>1, <2>2
    DEF TypeOK, FdsOK, SlotsOK, PeersOK, Listening, Sock, Tell, ServingInv, ListenerNotHeld, NoAddress
  <2>4. main' = Scanning /\ main'.pc = "scan" /\ owed'[s] = 0
    BY <1>1, <2>1, HandlerReplies DEF Undisturbed
  <2>5. DataOK(s, e)'
    BY <1>1, <2>1, <2>2, <2>3 DEF DataOK, UsesData, HandlerOK, PASV_MODE, PORT_MODE
  <2>6. OwnKept(s)
    BY <1>1, <1>3, <2>1, <2>2, <2>3 DEF OwnKept, OfSession, NoThread, Listing, Ctl, Sock, Pasv
  <2>7. \A h \in Fd : /\ fds'[h] # Free
                      /\ \/ fds[h] = Free
                         \/ \E k \in Part : Owns(s, k, h)
                         \/ main.pc = "swap" /\ h = main.sock
                      => HasOwner(h)'
    BY <1>3, <2>2, <2>3, <2>6, OwnStays DEF HasOwner, Sock, Free, Plain
  <2>8. \A h \in Fd : fds'[h] # fds[h] => fds[h].kind # "std"
    BY <2>2, <2>3 DEF Sock
  <2> QED
    BY <1>1, <1>2, <1>3, <2>1, <2>4, <2>5, <2>7, <2>8, HandlerSettles
<1> QED
  BY <1>4, <1>5

(* The start of a transfer, and the directory that LIST holds open. *)
LEMMA StartSettled ==
  ASSUME Undisturbed, TypeOK, TypeOK', CarefulInv, CarefulInv', SettledInv,
         StartTransfer \/ OpenDirectory
  PROVE  SettledInv'
<1>1. PICK s \in Session, e \in Fd :
        /\ e = main.fd /\ fds[e] = Ctl(s) /\ Serves(s) /\ NoThread(s) /\ DataOK(s, e)
  BY HandlerHas DEF StartTransfer, OpenDirectory, Serving, Handling
<1>2. HandlerNext
  BY DEF HandlerNext
<1>3. /\ main.pc = "handle" /\ UNCHANGED <<slots, task, peers>>
      /\ main'.pc = "data" /\ main'.fd = e /\ main'.cmd = main.cmd
  BY <1>1 DEF StartTransfer, OpenDirectory, Serving, TypeOK, ThreadsOK, MainState
<1>4. PICK f \in Fd :
        /\ \A g \in Fd : g # f => fds'[g] = fds[g]
        /\ fds'[f] = fds[f] \/ (/\ main.cmd = "LIST" /\ main'.file = f
                                /\ fds[f] = Free /\ fds'[f] = File)
  <2>1. CASE StartTransfer
    BY <1>1, <2>1 DEF StartTransfer
  <2>2. CASE OpenDirectory
    BY <2>2 DEF OpenDirectory, Serving, IsLowestFree, TypeOK, ThreadsOK, MainState, FdsOK
  <2> QED
    BY <2>1, <2>2
<1>5. \A g \in Fd : fds'[g] # fds[g] => fds[g] = Free
  BY <1>4
<1>6. fds'[e] = Ctl(s) /\ Serves(s)'
  BY <1>1, <1>3, <1>5 DEF Serves, Handling, Ctl, Free, Plain
<1>7. DataOK(s, e)'
  BY <1>1, <1>3, <1>6 DEF DataOK, UsesData, slots
<1>8. OwnKept(s)
  BY <1>1, <1>3, <1>5 DEF OwnKept, OfSession, NoThread, Listing, Ctl, Free, Plain, slots
<1>9. fds[f] = Free /\ fds'[f] # Free => HasOwner(f)'
  <2>1. fds[f] = Free /\ fds'[f] # Free => Owns(s, "file", f)'
    BY <1>3, <1>4, <1>6 DEF Owns, Listing
  <2> QED
    BY <2>1 DEF HasOwner, Part
<1>10. \A g \in Fd : /\ fds'[g] # Free
                     /\ \/ fds[g] = Free
                        \/ \E k \in Part : Owns(s, k, g)
                        \/ main.pc = "swap" /\ g = main.sock
                     => HasOwner(g)'
  BY <1>3, <1>4, <1>8, <1>9, OwnStays DEF HasOwner
<1>11. \A g \in Fd : fds'[g] # fds[g] => fds[g].kind # "std"
  BY <1>5 DEF Free, Plain
<1> QED
  BY <1>1, <1>2, <1>3, <1>7, <1>10, <1>11, HandlerSettles DEF slots, peers, Handling

(* The data connection. In PORT mode there was no data_fd yet; in PASV mode *)
(* the listener is closed as the connection takes its place.                *)
LEMMA ConnectSettled ==
  ASSUME Undisturbed, TypeOK, TypeOK', CarefulInv, CarefulInv', SettledInv,
         ConnectData \/ AcceptData \/ SwapData
  PROVE  SettledInv'
<1>1. PICK s \in Session, e \in Fd :
        /\ e = main.fd /\ fds[e] = Ctl(s) /\ Owner = s /\ Serves(s)
        /\ HandlerOK(s) /\ NoThread(s) /\ DataOK(s, e)
        /\ \A f \in Fd : fds[f] = Ctl(s) => f = e
        /\ ~ OfSession(0, s)
        /\ main.sock \in Fd /\ main.file \in Fd /\ dataFd[e] \in Fd
  BY HandlerHas DEF ConnectData, AcceptData, SwapData, Handling
<1>2. HandlerNext
  BY DEF HandlerNext
<1>3. /\ main.pc \in {"data", "swap"} /\ main.seen = AVAILAVLE /\ main.cmd \in TransferVerb
      /\ UNCHANGED <<status, mode, task, line, owed, told, dataReady, last, loggedIn>>
      /\ status[e] = AVAILAVLE
  BY <1>1 DEF ConnectData, AcceptData, SwapData, HandlerOK, slots, peers
<1>4. AfterData \in {"file", "list"} /\ (main.cmd = "LIST" <=> AfterData = "list")
  BY DEF AfterData
<1>5. ASSUME main'.fd = e, main'.cmd = main.cmd, main'.file = main.file,
             main'.pc \in {"swap", "list", "file"}, main.cmd = "LIST" => main'.pc # "file",
             main'.pc = "swap" => mode[e] # PORT_MODE,
             \A f \in Fd : f # e => dataFd'[f] = dataFd[f],
             \A f \in Fd : fds'[f] # fds[f] => fds[f].kind \in {"free", "pasv"},
             \A f \in Fd : OfSession(f, s) /\ dataFd[e] = f =>
               (f = dataFd'[e] /\ OfSession(f, s)') \/ fds'[f] = Free,
             \A f \in Fd : fds'[f] # Free /\ (fds[f] = Free \/ (main.pc = "swap" /\ f = main.sock))
                             => HasOwner(f)'
      PROVE  SettledInv'
  <2>1. fds'[e] = Ctl(s) /\ Serves(s)'
    BY <1>1, <1>5 DEF Serves, Handling, Ctl
  <2>2. DataOK(s, e)'
    BY <1>3, <1>5, <2>1 DEF DataOK, UsesData
  <2>3. ASSUME NEW g \in Fd, fds'[g] # Free, NEW k \in Part, Owns(s, k, g) PROVE HasOwner(g)'
    <3>1. CASE k = "control"
      BY <1>1, <2>1, <2>3, <3>1 DEF Owns, HasOwner
    <3>2. CASE k = "data"
      <4>1. g = dataFd'[e] /\ OfSession(g, s)'
        BY <1>1, <1>5, <2>3, <3>2 DEF Owns
      <4>2. Owns(s, k, g)'
        BY <2>1, <3>2, <4>1 DEF Owns
      <4> QED
        BY <4>2 DEF HasOwner
    <3>3. CASE k = "file"
      <4>1. Listing /\ main.file = g /\ main.cmd = "LIST"
        BY <1>1, <2>3, <3>3 DEF Owns, NoThread, Listing
      <4>2. Owns(s, k, g)'
        BY <1>5, <2>1, <3>3, <4>1 DEF Owns, Listing
      <4> QED
        BY <4>2 DEF HasOwner
    <3> QED
      BY <3>1, <3>2, <3>3 DEF Part
  <2> QED
    BY <1>1, <1>2, <1>3, <1>5, <2>2, <2>3, HandlerSettles DEF Handling
<1>6. CASE ConnectData
  <2>1. PICK f \in Fd :
          /\ IsLowestFree(f)
          /\ fds' = [fds EXCEPT ![f] = Data(s, "open")]
          /\ dataFd' = [dataFd EXCEPT ![main.fd] = f]
    BY <1>1, <1>6 DEF ConnectData
  <2>2. main.pc = "data" /\ mode[e] = PORT_MODE /\ main' = [main EXCEPT !.pc = AfterData]
    BY <1>1, <1>6 DEF ConnectData
  <2>3. /\ fds[f] = Free /\ fds'[f] = Data(s, "open") /\ \A g \in Fd : g # f => fds'[g] = fds[g]
        /\ dataFd'[e] = f /\ \A g \in Fd : g # e => dataFd'[g] = dataFd[g]
    BY <1>1, <2>1 DEF IsLowestFree, TypeOK, FdsOK, SlotsOK
  <2>4. main'.pc = AfterData /\ main'.fd = e /\ main'.cmd = main.cmd /\ main'.file = main.file
    BY <1>1, <2>2 DEF TypeOK, ThreadsOK, MainState
  <2>5. dataFd[e] = 0
    BY <1>1, <2>2 DEF DataOK
  <2>6. fds'[e] = Ctl(s) /\ Owns(s, "data", f)'
    BY <1>1, <2>3 DEF Owns, OfSession, Ctl, Data, Free, Plain
  <2>7. HasOwner(f)'
    BY <2>6 DEF HasOwner, Part
  <2>8. \A g \in Fd : fds'[g] # fds[g] => fds[g].kind \in {"free", "pasv"}
    BY <2>3 DEF Free, Plain
  <2> QED
    BY <1>1, <1>4, <1>5, <2>2, <2>3, <2>4, <2>5, <2>7, <2>8
<1>7. CASE AcceptData
  <2> DEFINE g == dataFd[main.fd]
  <2>1. PICK f \in Fd :
          /\ IsLowestFree(f) /\ fds[g].kind = "pasv" /\ fds[g].peer = "pending"
          /\ fds' = [fds EXCEPT ![f] = Data(fds[g].who, "open"), ![g].peer = "none"]
          /\ main' = [main EXCEPT !.pc = "swap", !.sock = f]
    BY <1>7 DEF AcceptData
  <2>2. main.pc = "data" /\ mode[e] = PASV_MODE /\ dataFd' = dataFd
    BY <1>1, <1>7 DEF AcceptData, slots
  <2>3. fds[g] = Pasv(s, "pending") /\ fds[f] = Free /\ f # g
    BY <1>1, <1>3, <2>1, <2>2
    DEF HandlerOK, Ready, PASV_MODE, PORT_MODE, IsLowestFree, Pasv, Free, Plain
  <2>4. /\ fds'[f] = Data(s, "open") /\ fds'[g] = Pasv(s, "none")
        /\ \A h \in Fd : h # f /\ h # g => fds'[h] = fds[h]
    BY <1>1, <2>1, <2>3 DEF TypeOK, FdsOK, Pasv
  <2>5. /\ main'.pc = "swap" /\ main'.fd = e /\ main'.sock = f /\ main'.cmd = main.cmd
        /\ main'.file = main.file
    BY <1>1, <2>1 DEF TypeOK, ThreadsOK, MainState
  <2>6. HasOwner(f)'
    BY <2>5 DEF HasOwner
  <2>7. \A h \in Fd : OfSession(h, s) /\ dataFd[e] = h => h = dataFd'[e] /\ OfSession(h, s)'
    BY <1>1, <2>2, <2>4 DEF OfSession, Pasv
  <2>8. \A h \in Fd : fds'[h] # fds[h] => fds[h].kind \in {"free", "pasv"}
    BY <2>3, <2>4 DEF Free, Plain, Pasv
  <2>9. \A h \in Fd : fds[h] = Free /\ fds'[h] # Free => h = f
    BY <2>3, <2>4 DEF Free, Plain, Pasv
  <2> QED
    BY <1>5, <2>2, <2>5, <2>6, <2>7, <2>8, <2>9 DEF PASV_MODE, PORT_MODE
<1>8. CASE SwapData
  <2> DEFINE g == dataFd[main.fd]
  <2>1. /\ main.pc = "swap" /\ CloseAll({g})
        /\ dataFd' = [dataFd EXCEPT ![main.fd] = main.sock]
        /\ main' = [main EXCEPT !.pc = AfterData]
    BY <1>8 DEF SwapData, ReplaceListener
  <2>2. fds[g] = Pasv(s, "none") /\ fds[main.sock] \in DataOf(s) /\ main.sock # g
    BY <1>1, <2>1 DEF HandlerOK, Pasv, DataOf, Data
  <2>3. fds'[g] = Free /\ \A h \in Fd : h # g => fds'[h] = fds[h]
    BY <1>1, <2>1 DEF CloseAll
  <2>4. dataFd'[e] = main.sock /\ \A h \in Fd : h # e => dataFd'[h] = dataFd[h]
    BY <1>1, <2>1 DEF TypeOK, SlotsOK
  <2>5. main'.pc = AfterData /\ main'.fd = e /\ main'.cmd = main.cmd /\ main'.file = main.file
    BY <1>1, <2>1 DEF TypeOK, ThreadsOK, MainState
  <2>6. ASSUME NEW f \in Fd, f = main.sock PROVE HasOwner(f)'
    <3>1. fds'[f] \in DataOf(s) /\ fds'[e] = Ctl(s)
      BY <1>1, <2>2, <2>3, <2>6 DEF Pasv, Ctl
    <3>2. OfSession(f, s)'
      BY <3>1 DEF OfSession, DataOf, Data
    <3>3. Owns(s, "data", f)'
      BY <2>4, <2>6, <3>1, <3>2 DEF Owns
    <3> QED
      BY <3>3 DEF HasOwner, Part
  <2>7. \A h \in Fd : fds'[h] # fds[h] => fds[h].kind \in {"free", "pasv"}
    BY <2>2, <2>3 DEF Pasv
  <2> QED
    BY <1>1, <1>4, <1>5, <2>1, <2>2, <2>3, <2>4, <2>5, <2>6, <2>7
<1> QED
  BY <1>6, <1>7, <1>8

(* The file of a transfer is its thread's from the moment it is open. *)
LEMMA SpawnSettled ==
  ASSUME Undisturbed, TypeOK, TypeOK', CarefulInv, CarefulInv', SettledInv, SpawnThread
  PROVE  SettledInv'
<1>1. PICK s \in Session, e \in Fd :
        /\ e = main.fd /\ fds[e] = Ctl(s) /\ Owner = s /\ Serves(s)
        /\ HandlerOK(s) /\ NoThread(s)
  BY HandlerHas DEF SpawnThread, Handling
<1>2. HandlerNext
  BY DEF HandlerNext
<1>3. PICK f \in Fd, t \in Tid, k \in {"send", "spin", "recv"} :
        /\ IsLowestFree(f)
        /\ task[t].pc = "idle"
        /\ (main.cmd = "STOR") = (k = "recv")
        /\ k = "spin" => "directory" \in Faults
        /\ fds' = [fds EXCEPT ![f] = File]
        /\ task' = [task EXCEPT ![t] = NewTask(k, f)]
  BY Zenon DEF SpawnThread
<1>4. main.pc = "file" /\ main' = Scanning /\ UNCHANGED <<slots, peers>> /\ main'.pc = "scan"
  BY DEF SpawnThread, Scanning
<1>5. fds[f] = Free /\ fds'[f] = File /\ \A g \in Fd : g # f => fds'[g] = fds[g]
  BY <1>3 DEF IsLowestFree, TypeOK, FdsOK
<1>6. /\ task'[t].pc = "start" /\ task'[t].file = f /\ task'[t].who = s
      /\ \A u \in Tid : u # t => task'[u] = task[u]
  BY <1>1, <1>3 DEF NewTask, TypeOK, ThreadsOK
<1>7. ~ NoThread(s)'
  BY <1>6 DEF NoThread
<1>8. DataOK(s, e)'
  BY <1>1, <1>4, <1>7 DEF DataOK, UsesData, HandlerOK, slots
<1>9. OwnKept(s)
  BY <1>1, <1>4, <1>5 DEF OwnKept, OfSession, NoThread, Listing, Ctl, Free, Plain, slots
<1>10. HasOwner(f)'
  <2>1. Owns(s, "file", f)'
    BY <1>6 DEF Owns, Holding
  <2> QED
    BY <2>1 DEF HasOwner, Part
<1>11. \A g \in Fd : /\ fds'[g] # Free
                     /\ \/ fds[g] = Free
                        \/ \E p \in Part : Owns(s, p, g)
                        \/ main.pc = "swap" /\ g = main.sock
                     => HasOwner(g)'
  BY <1>4, <1>5, <1>9, <1>10, OwnStays DEF HasOwner
<1>12. \A g \in Fd : fds'[g] # fds[g] => fds[g].kind # "std"
  BY <1>5 DEF Free, Plain
<1> QED
  BY <1>1, <1>2, <1>4, <1>6, <1>7, <1>8, <1>11, <1>12, HandlerSettles DEF slots, peers

(* LIST closes what it has opened. *)
LEMMA ListSettled ==
  ASSUME Undisturbed, TypeOK, TypeOK', CarefulInv, CarefulInv', SettledInv, SendList
  PROVE  SettledInv'
<1>1. PICK s \in Session, e \in Fd :
        /\ e = main.fd /\ fds[e] = Ctl(s) /\ Serves(s) /\ HandlerOK(s) /\ NoThread(s)
        /\ \A f \in Fd : fds[f] = Ctl(s) => f = e
        /\ main.file \in Fd /\ dataFd[e] \in Fd
  BY HandlerHas DEF SendList, Handling
<1>2. HandlerNext
  BY DEF HandlerNext
<1>3. /\ main.pc = "list" /\ Answer /\ CloseAll({main.file, dataFd[main.fd]})
      /\ dataFd' = [dataFd EXCEPT ![main.fd] = 0]
      /\ UNCHANGED <<task, line>>
  BY DEF SendList
<1>4. fds[main.file] = File /\ fds[dataFd[e]] \in DataOf(s)
  BY <1>1, <1>3 DEF HandlerOK
<1>5. \A g \in Fd : fds'[g] = IF g \in {main.file, dataFd[e]} THEN Free ELSE fds[g]
  BY <1>1, <1>3 DEF CloseAll
<1>6. dataFd'[e] = 0 /\ \A f \in Fd : f # e => dataFd'[f] = dataFd[f]
  BY <1>1, <1>3 DEF TypeOK, SlotsOK
<1>7. main' = Scanning /\ main'.pc = "scan" /\ owed'[s] = 0
  BY <1>1, <1>3, HandlerReplies DEF Undisturbed
<1>8. DataOK(s, e)'
  BY <1>6 DEF DataOK
<1>9. fds'[e] = Ctl(s)
  BY <1>1, <1>4, <1>5 DEF File, Plain, Ctl, DataOf, Data
<1>10. ASSUME NEW g \in Fd, fds'[g] # Free,
              fds[g] = Free \/ (\E k \in Part : Owns(s, k, g)) \/ (main.pc = "swap" /\ g = main.sock)
       PROVE  HasOwner(g)'
  <2>1. PICK k \in Part : Owns(s, k, g)
    BY <1>3, <1>5, <1>10
  <2>2. k = "control"
    BY <1>1, <1>5, <1>10, <2>1 DEF Owns, NoThread
  <2>3. Owns(s, k, g)'
    BY <1>1, <1>9, <2>1, <2>2 DEF Owns
  <2> QED
    BY <2>3 DEF HasOwner
<1>11. \A g \in Fd : fds'[g] # fds[g] => fds[g].kind # "std"
  BY <1>4, <1>5 DEF File, Plain, DataOf, Data
<1> QED
  BY <1>1, <1>2, <1>3, <1>6, <1>7, <1>8, <1>10, <1>11, HandlerSettles

(* The steps of interpret() and of its handlers keep the invariant. *)
LEMMA HandlerSettled ==
  ASSUME Enough, Undisturbed, TypeOK, TypeOK', ServingInv, CarefulInv, CarefulInv', SettledInv,
         HandlerNext
  PROVE  SettledInv'
BY NothingFails, AnswerSettled, PassiveSettled, StartSettled, ConnectSettled, SpawnSettled,
   ListSettled DEF HandlerNext

-----------------------------------------------------------------------------
(* The invariant holds when control_init enters its loop. *)
LEMMA InitSettled == Undisturbed /\ Init => SettledInv
<1> SUFFICES ASSUME Undisturbed, Init PROVE SettledInv
  OBVIOUS
<1>1. main.pc = "select" /\ \A t \in Tid : task[t].who = Nobody
  BY DEF Init, Scanning, Idle
<1>2. \A f \in Fd : /\ dataFd[f] = 0
                    /\ fds[f] = IF f < ListenFd THEN Plain("std")
                                ELSE IF f = ListenFd THEN Plain("listen") ELSE Free
  BY DEF Init
<1>3. StaysUp /\ StdOpen /\ SlotsClear
  BY <1>1, <1>2 DEF StaysUp, StdOpen, SlotsClear
<1>4. AllOwned
  BY <1>2 DEF AllOwned, Fd, ListenFd
<1>5. ASSUME NEW s \in Session PROVE SettledOK(s)
  <2>1. line[s] = "none" /\ owed[s] = 0
    BY DEF Init
  <2>2. \A t \in Tid : task[t].who # s
    BY <1>1, SessionAssumption
  <2> QED
    BY <1>2, <2>1, <2>2 DEF SettledOK, DataOK, AnswerDue
<1> QED
  BY <1>3, <1>4, <1>5 DEF SettledInv

(* Every step keeps the invariant. *)
LEMMA NextSettled ==
  ASSUME Enough, Undisturbed, TypeOK, TypeOK', ServingInv, CarefulInv, CarefulInv', PipesInv,
         SettledInv, [Next]_vars
  PROVE  SettledInv'
<1>1. ~ BrokenPipe
  BY PipesHold DEF BrokenPipe, PipesWhole
<1>2. ASSUME NEW t \in Tid, ThreadStep(t) PROVE SettledInv'
  <2>1. task[t].pc # "idle"
    BY <1>2, NoCommandsTaken DEF ThreadStep, At, Begin, LoopEnds, LoopFails, Report, MakeAvailable, CloseData, ForgetData
  <2>2. task[t].who \in Session
    BY <2>1, ThreadKnows
  <2> QED
    BY <1>2, <2>2, ThreadSettled
<1>3. CASE UNCHANGED vars
  BY <1>3, NoneSettled DEF vars, watching
<1> QED
  BY <1>1, <1>2, <1>3, LoopSettled, HandlerSettled, ClientSettled DEF Next

(* The inductive invariant holds in every state. *)
LEMMA SettledInvariant == ASSUME Enough, Undisturbed PROVE Spec => []SettledInv
<1>1. Careful = Session
  BY DEF Undisturbed
<1>2. TypeOK /\ TypeOK' /\ ServingInv /\ CarefulInv /\ CarefulInv' /\ PipesInv /\ SettledInv
        /\ [Next]_vars => SettledInv'
  BY NextSettled
<1>3. Init => SettledInv
  BY InitSettled
<1>4. Spec => []CarefulInv /\ []PipesInv
  BY <1>1, CarefulInvariant, PipesInvariant
<1> QED
  BY <1>2, <1>3, <1>4, TypeCorrect, ServingInvariant, PTL DEF Spec

-----------------------------------------------------------------------------
(* control_init returns for no failure of select(), accept() or read(), and *)
(* no empty line and no lost peer kills the process: the server ends for    *)
(* none of these clients, and for no reset of their data connections.       *)
THEOREM AlwaysStaysUp == ASSUME Enough, Undisturbed PROVE Spec => []StaysUp
<1>1. SettledInv => StaysUp
  BY DEF SettledInv
<1> QED
  BY <1>1, SettledInvariant, PTL

(* No path through the handlers and the threads leaks a descriptor: whoever *)
(* opened one has it, hands it on, or has closed it.                        *)
THEOREM DescriptorsAccounted ==
  ASSUME Enough, Undisturbed, "reset" \notin Faults PROVE Spec => []FdsAccounted
<1>1. TypeOK /\ ServingInv /\ SettledInv => FdsAccounted
  <2> SUFFICES ASSUME TypeOK, ServingInv, SettledInv, NEW g \in Fd, g > ListenFd, fds[g] # Free
               PROVE  \/ g \in clientFds
                      \/ \E c \in clientFds : dataFd[c] = g
                      \/ \E t \in Tid : task[t].pc \notin {"idle", "dead"} /\ task[t].file = g
                      \/ g \in {main.sock, main.file}
    BY DEF FdsAccounted
  <2>1. \A f \in Fd, s \in Session : fds[f] = Ctl(s) => f \in clientFds
    BY DEF ServingInv, ConnectionsWatched, Ctl
  <2>2. HasOwner(g)
    BY DEF SettledInv, AllOwned
  <2>3. CASE main.pc = "swap" /\ g = main.sock
    BY <2>3
  <2>4. ASSUME NEW s \in Session, NEW k \in Part, Owns(s, k, g)
        PROVE  \/ g \in clientFds
               \/ \E c \in clientFds : dataFd[c] = g
               \/ \E t \in Tid : task[t].pc \notin {"idle", "dead"} /\ task[t].file = g
               \/ g = main.file
    <3>1. ASSUME NEW t \in Tid, task[t].who = s PROVE task[t].pc # "dead"
      BY <3>1 DEF SettledInv, SettledOK, WorksOn
    <3> QED
      BY <2>1, <2>4, <3>1 DEF Owns, Holding
  <2> QED
    BY <2>2, <2>3, <2>4 DEF HasOwner
<1> QED
  BY <1>1, TypeCorrect, ServingInvariant, SettledInvariant, PTL

(* Every command draws exactly one final reply: never two, and when nothing *)
(* of a session is under way any more, none is still due.                   *)
THEOREM RepliesAlwaysBalanced ==
  ASSUME Enough, Undisturbed, "reset" \notin Faults PROVE Spec => []RepliesBalanced
<1>1. TypeOK /\ CarefulInv /\ SettledInv => RepliesBalanced
  <2> SUFFICES ASSUME TypeOK, CarefulInv, SettledInv, NEW s \in Patient
               PROVE  /\ owed[s] >= 0
                      /\ /\ conn[s] = "open"
                         /\ line[s] = "none"
                         /\ ~ Served(s)
                         /\ \A t \in Tid : task[t].who = s => ~ Transferring(t)
                         => owed[s] = 0
    BY DEF RepliesBalanced
  <2>1. s \in Session
    BY SessionAssumption
  <2>2. owed[s] \in {0, 1} /\ AnswerDue(s)
    BY <2>1 DEF CarefulInv, SessionOK, ClientOK, SettledInv, SettledOK
  <2>3. Serves(s) => Served(s)
    <3>1. fds[0] = Plain("std")
      BY BoundAssumption DEF SettledInv, StdOpen, Fd, ListenFd
    <3> QED
      BY <3>1 DEF Serves, Served, Ctl, Plain
  <2>4. ASSUME NEW t \in Tid, task[t].who = s, ~ Transferring(t) PROVE owed[s] = 0
    <3>1. task[t].pc # "idle"
      BY <2>1, <2>4, SessionAssumption DEF CarefulInv, OwnersKnown
    <3>2. task[t].pc \in {"close", "zero"}
      BY <2>1, <2>4, <3>1 DEF Transferring, SettledInv, SettledOK, WorksOn, TypeOK, ThreadsOK, Task
    <3> QED
      BY <2>4, <3>1, <3>2, ThreadKnows DEF ThreadOK, StageOK
  <2> QED
    BY <2>2, <2>3, <2>4 DEF AnswerDue, NoThread
<1>2. ASSUME Undisturbed PROVE Spec => []CarefulInv
  BY <1>2, CarefulInvariant DEF Undisturbed
<1> QED
  BY <1>1, <1>2, TypeCorrect, SettledInvariant, PTL
=============================================================================
