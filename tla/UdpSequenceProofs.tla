------------------------- MODULE UdpSequenceProofs --------------------------
(***************************************************************************)
(* The numbers of server.py's answers and the order in which client.py     *)
(* prints them, for any number of clients, of numbers and of faults of the *)
(* network.                                                                *)
(***************************************************************************)
EXTENDS UdpSequence, TLAPS

Arrived(c) == {printed[c][k] : k \in 1..Len(printed[c])}

(* The counter is ahead of all answers. *)
NumbersBelow == \A d \in Answers : d.seq < sequence

Inv == TypeOK /\ NumbersUnique /\ NumbersBelow

(* What is on its way for a client, or from it, and how often it received.  *)
Mine(c) == {d \in net : Owner(d) = c}
Rounds(c) == IF at[c] = "closed" THEN i[c] + 1 ELSE i[c]

(* Nothing there is about a number the client has yet to send. *)
Behind(c) ==
  /\ \A d \in Mine(c) : d.msg <= i[c]
  /\ Len(printed[c]) = Rounds(c)
  /\ \A k \in 1..Len(printed[c]) : printed[c][k].msg <= k - 1

(* If the client has nothing twice, it is its last number or the answer to  *)
(* it, and the server gave that answer the highest number so far.           *)
After(c, n) == \A k \in 1..Len(printed[c]) : printed[c][k].seq < n

Ordered(c) ==
  /\ \A d, e \in Mine(c) : d = e
  /\ \A d \in Mine(c) : d.msg = i[c] /\ (d.to # "server" => After(c, d.seq))
  /\ at[c] \in {"send", "closed"} => Mine(c) = {}
  /\ \A k \in 1..Len(printed[c]) : printed[c][k].msg = k - 1
  /\ \A k \in 1..Len(printed[c]) : \A j \in 1..k - 1 : printed[c][j].seq < printed[c][k].seq

InOrder ==
  /\ Inv
  /\ \A c \in Client : Behind(c)
  /\ \A c \in Client \ doubled : Ordered(c)

-----------------------------------------------------------------------------
LEMMA Forms ==
  ASSUME TypeOK
  PROVE  /\ \A d \in Request : d.to = "server" /\ d.from \in Client /\ d.msg \in Number
         /\ \A d \in Answer : d.to \in Client /\ d.to # "server" /\ d.seq \in Nat /\ d.msg \in Number
BY UdpAssumption DEF Request, Answer

LEMMA NextRoundType ==
  ASSUME TypeOK, NEW c \in Client, NextRound(c)
  PROVE  /\ at' \in [Client -> {"send", "recv", "closed", "failed"}]
         /\ i' \in [Client -> Number]
<1>1. i[c] \in Int /\ 0 <= i[c] /\ i[c] <= Count - 1 /\ Count \in Int
  BY UdpAssumption DEF TypeOK, Number
<1>2. CASE i[c] < Count - 1
  <2>1. i[c] + 1 \in Number
    BY <1>1, <1>2 DEF Number
  <2> QED
    BY <1>2, <2>1 DEF NextRound, TypeOK
<1>3. CASE ~ (i[c] < Count - 1)
  BY <1>3 DEF NextRound, TypeOK
<1> QED
  BY <1>2, <1>3

(* A delivery leaves only datagrams that were there or are sent. *)
LEMMA DeliverType ==
  ASSUME TypeOK, NEW d \in net, NEW more, Deliver(d, more), more \subseteq Request \cup Answer
  PROVE  /\ net' \subseteq net \cup more
         /\ net' \subseteq Request \cup Answer
         /\ doubled' \subseteq Client
         /\ faults' \in 0..MaxFaults
<1>1. Owner(d) \in Client
  BY Forms DEF TypeOK, Owner
<1>2. faults \in 0..MaxFaults /\ MaxFaults \in Nat
  BY UdpAssumption DEF TypeOK
<1>3. faults < MaxFaults => faults + 1 \in 0..MaxFaults
  BY <1>2
<1> QED
  BY <1>1, <1>3 DEF Deliver, TypeOK

LEMMA NextTypeOK == TypeOK /\ [Next]_vars => TypeOK'
<1> SUFFICES ASSUME TypeOK, [Next]_vars PROVE TypeOK'
  OBVIOUS
<1>1. CASE UNCHANGED vars
  BY <1>1 DEF TypeOK, vars, server, client
<1>2. CASE Bind
  BY <1>2 DEF Bind, TypeOK, client
<1>3. ASSUME NEW d \in net, Lose(d) PROVE TypeOK'
  <2>1. Owner(d) \in Client
    BY Forms DEF TypeOK, Owner
  <2>2. faults' \in 0..MaxFaults
    BY <1>3, UdpAssumption DEF Lose, TypeOK
  <2> QED
    BY <1>3, <2>1, <2>2 DEF Lose, TypeOK, server, client
<1>4. ASSUME NEW d \in net, Serve(d) PROVE TypeOK'
  <2> DEFINE a == [to |-> d.from, seq |-> sequence, msg |-> d.msg]
  <2>1. d \in Request
    BY <1>4, Forms DEF Serve, TypeOK
  <2>2. a \in Answer
    BY <2>1 DEF Answer, Request, TypeOK
  <2>3. Deliver(d, {a})
    BY <1>4 DEF Serve
  <2> HIDE DEF a
  <2>4. /\ net' \subseteq Request \cup Answer
        /\ doubled' \subseteq Client
        /\ faults' \in 0..MaxFaults
    BY <2>2, <2>3, DeliverType
  <2>5. sequence' \in Nat
    BY <1>4 DEF Serve, TypeOK
  <2> QED
    BY <1>4, <2>4, <2>5 DEF Serve, TypeOK, client
<1>5. ASSUME NEW c \in Client, Send(c) PROVE TypeOK'
  <2>1. [to |-> "server", from |-> c, msg |-> i[c]] \in Request
    BY DEF Request, TypeOK
  <2> QED
    BY <1>5, <2>1 DEF Send, TypeOK, server
<1>6. ASSUME NEW c \in Client, Fail(c) PROVE TypeOK'
  BY <1>6 DEF Fail, TypeOK, server
<1>7. ASSUME NEW c \in Client, NEW d \in net, Recv(c, d) PROVE TypeOK'
  <2>1. d \in Answer
    BY <1>7, Forms, UdpAssumption DEF Recv, TypeOK
  <2>2. Append(printed[c], d) \in Seq(Answer)
    BY <2>1 DEF TypeOK
  <2>3. printed' \in [Client -> Seq(Answer)]
    BY <1>7, <2>2 DEF Recv, TypeOK
  <2>4. /\ net' \subseteq Request \cup Answer
        /\ doubled' \subseteq Client
        /\ faults' \in 0..MaxFaults
    BY <1>7, DeliverType DEF Recv
  <2>5. NextRound(c)
    BY <1>7 DEF Recv
  <2>6. /\ at' \in [Client -> {"send", "recv", "closed", "failed"}]
        /\ i' \in [Client -> Number]
    BY <2>5, NextRoundType
  <2> QED
    BY <1>7, <2>3, <2>4, <2>6 DEF Recv, TypeOK, server
<1> QED
  BY <1>1, <1>2, <1>3, <1>4, <1>5, <1>6, <1>7 DEF Next

LEMMA InitTypeOK == Init => TypeOK
<1> SUFFICES ASSUME Init PROVE TypeOK
  OBVIOUS
<1>1. 0 \in Number /\ 0 \in 0..MaxFaults
  BY UdpAssumption DEF Number
<1>2. printed \in [Client -> Seq(Answer)]
  BY DEF Init
<1>3. i \in [Client -> Number]
  BY <1>1 DEF Init
<1>4. at \in [Client -> {"send", "recv", "closed", "failed"}]
  BY DEF Init
<1> QED
  BY <1>1, <1>2, <1>3, <1>4 DEF Init, TypeOK

(* The programs and the datagrams between them keep their types.            *)
THEOREM TypeCorrect == Spec => []TypeOK
BY InitTypeOK, NextTypeOK, PTL DEF Spec

-----------------------------------------------------------------------------
LEMMA AnswersAre == Answers = {d \in net : d.to # "server"} \cup UNION {Arrived(c) : c \in Client}
BY DEF Answers, Arrived

LEMMA ArrivedAppend ==
  ASSUME TypeOK, NEW c \in Client, NEW d,
         printed' = [printed EXCEPT ![c] = Append(@, d)]
  PROVE  \A u \in Client : Arrived(u)' \subseteq Arrived(u) \cup {d}
<1>1. \A u \in Client : printed[u] \in Seq(Answer)
  BY DEF TypeOK
<1>2. CASE d \notin Answer
  BY <1>1, <1>2 DEF TypeOK, Arrived
<1>3. CASE d \in Answer
  BY <1>1, <1>3 DEF TypeOK, Arrived
<1> QED
  BY <1>2, <1>3

(* The answers after a step were there before it, or the server has just    *)
(* sent one with the number that comes next.                                *)
LEMMA AnswersGrow ==
  ASSUME TypeOK, [Next]_vars
  PROVE  \/ /\ Answers' \subseteq Answers
            /\ sequence' = sequence
         \/ /\ sequence' = sequence + 1
            /\ \E a : a.seq = sequence /\ Answers' \subseteq Answers \cup {a}
<1>a. ASSUME UNCHANGED <<sequence, printed>>, net' \subseteq net \cup Request
      PROVE  Answers' \subseteq Answers /\ sequence' = sequence
  BY <1>a, Forms DEF Answers
<1>1. CASE UNCHANGED vars
  BY <1>1, <1>a DEF vars, server, client
<1>2. CASE Bind
  BY <1>2, <1>a DEF Bind, client
<1>3. ASSUME NEW d \in net, Lose(d) PROVE Answers' \subseteq Answers /\ sequence' = sequence
  BY <1>3, <1>a DEF Lose, client, server
<1>4. ASSUME NEW d \in net, Serve(d)
      PROVE  /\ sequence' = sequence + 1
             /\ \E a : a.seq = sequence /\ Answers' \subseteq Answers \cup {a}
  <2> DEFINE a == [to |-> d.from, seq |-> sequence, msg |-> d.msg]
  <2>1. net' \subseteq net \cup {a}
    BY <1>4 DEF Serve, Deliver
  <2>2. printed' = printed
    BY <1>4 DEF Serve, client
  <2>3. a.seq = sequence
    OBVIOUS
  <2> HIDE DEF a
  <2>4. Answers' \subseteq Answers \cup {a}
    BY <2>1, <2>2 DEF Answers
  <2> QED
    BY <1>4, <2>3, <2>4 DEF Serve
<1>5. ASSUME NEW c \in Client, Send(c) PROVE Answers' \subseteq Answers /\ sequence' = sequence
  <2>1. [to |-> "server", from |-> c, msg |-> i[c]] \in Request
    BY DEF Request, TypeOK
  <2> QED
    BY <1>5, <1>a, <2>1 DEF Send, server
<1>6. ASSUME NEW c \in Client, Fail(c) PROVE Answers' \subseteq Answers /\ sequence' = sequence
  BY <1>6, <1>a DEF Fail, server
<1>7. ASSUME NEW c \in Client, NEW d \in net, Recv(c, d)
      PROVE  Answers' \subseteq Answers /\ sequence' = sequence
  <2>1. \A u \in Client : Arrived(u)' \subseteq Arrived(u) \cup {d}
    BY <1>7, ArrivedAppend DEF Recv
  <2>2. d \in Answers
    BY <1>7, UdpAssumption DEF Recv, Answers
  <2>3. net' \subseteq net
    BY <1>7 DEF Recv, Deliver
  <2>4. Answers' = {e \in net' : e.to # "server"} \cup UNION {Arrived(u)' : u \in Client}
    BY DEF Answers, Arrived
  <2>5. Answers' \subseteq Answers
    BY <2>1, <2>2, <2>3, <2>4, AnswersAre
  <2> QED
    BY <1>7, <2>5 DEF Recv, server
<1> QED
  BY <1>1, <1>2, <1>3, <1>4, <1>5, <1>6, <1>7 DEF Next

LEMMA AnswersType ==
  ASSUME TypeOK
  PROVE  Answers \subseteq Answer
<1>1. {d \in net : d.to # "server"} \subseteq Answer
  BY Forms DEF TypeOK
<1>2. \A c \in Client : Arrived(c) \subseteq Answer
  BY DEF TypeOK, Arrived
<1> QED
  BY <1>1, <1>2, AnswersAre

LEMMA NextInv == Inv /\ [Next]_vars => Inv'
<1> SUFFICES ASSUME Inv, [Next]_vars PROVE Inv'
  OBVIOUS
<1>1. TypeOK /\ TypeOK'
  BY NextTypeOK DEF Inv
<1>2. sequence \in Nat /\ \A d \in Answers : d.seq \in Nat /\ d.seq < sequence
  BY <1>1, AnswersType, Forms DEF Inv, NumbersBelow, TypeOK
<1>3. CASE Answers' \subseteq Answers /\ sequence' = sequence
  BY <1>1, <1>3 DEF Inv, NumbersBelow, NumbersUnique
<1>4. CASE /\ sequence' = sequence + 1
           /\ \E a : a.seq = sequence /\ Answers' \subseteq Answers \cup {a}
  <2>1. PICK a : a.seq = sequence /\ Answers' \subseteq Answers \cup {a}
    BY <1>4
  <2>2. \A d \in Answers : d.seq # a.seq
    BY <1>2, <2>1
  <2>3. NumbersUnique'
    BY <2>1, <2>2 DEF Inv, NumbersUnique
  <2>4. NumbersBelow'
    BY <1>2, <1>4, <2>1 DEF NumbersBelow
  <2> QED
    BY <1>1, <2>3, <2>4 DEF Inv
<1> QED
  BY <1>1, <1>3, <1>4, AnswersGrow

LEMMA InitInv == Init => Inv
<1>1. Init => Answers = {}
  BY DEF Init, Answers
<1> QED
  BY <1>1, InitTypeOK DEF Inv, NumbersUnique, NumbersBelow

(* server.py numbers its answers: no two different answers, to whichever    *)
(* clients, have the same number, whatever the network does.                *)
THEOREM NumbersAlwaysUnique == Spec => []NumbersUnique
<1>1. Inv => NumbersUnique
  BY DEF Inv
<1> QED
  BY <1>1, InitInv, NextInv, PTL DEF Spec

-----------------------------------------------------------------------------
(* A client whose own part does not change keeps what it has. *)
Idle(c) ==
  Mine(c)' \subseteq Mine(c) /\ at'[c] = at[c] /\ i'[c] = i[c] /\ printed'[c] = printed[c]

LEMMA BehindFrame == ASSUME NEW c \in Client, Behind(c), Idle(c) PROVE Behind(c)'
BY DEF Behind, Idle, Rounds

LEMMA OrderedFrame == ASSUME NEW c \in Client, Ordered(c), Idle(c) PROVE Ordered(c)'
<1>1. \A d \in Mine(c)' : d \in Mine(c)
  BY DEF Idle
<1> QED
  BY <1>1 DEF Ordered, Idle, After

(* A number has been sent. *)
LEMMA SendKeeps ==
  ASSUME TypeOK, NEW c \in Client, Send(c), NEW u \in Client
  PROVE  (Behind(u) => Behind(u)') /\ (Ordered(u) => Ordered(u)')
<1> DEFINE r == [to |-> "server", from |-> c, msg |-> i[c]]
<1>1. Owner(r) = c /\ r.msg = i[c] /\ r.to = "server"
  BY DEF Owner
<1>2. net' \subseteq net \cup {r}
  BY DEF Send
<1>3. at' = [at EXCEPT ![c] = "recv"] /\ at[c] = "send" /\ i' = i /\ printed' = printed
  BY DEF Send
<1>4. at'[c] = "recv" /\ \A v \in Client : v # c => at'[v] = at[v]
  BY <1>3 DEF TypeOK
<1> HIDE DEF r
<1>5. Mine(u)' \subseteq IF u = c THEN Mine(u) \cup {r} ELSE Mine(u)
  BY <1>1, <1>2 DEF Mine, Owner
<1>6. CASE u # c
  BY <1>3, <1>4, <1>5, <1>6, OrderedFrame, BehindFrame DEF Idle
<1>7. CASE u = c
  <2>1. at[u] = "send" /\ at'[u] = "recv"
    BY <1>3, <1>4, <1>7
  <2>2. ASSUME Behind(u) PROVE Behind(u)'
    <3>1. i[u] \in Int
      BY DEF TypeOK, Number
    <3>2. \A d \in Mine(u)' : d.msg <= i'[u]
      BY <1>1, <1>3, <1>5, <1>7, <2>2, <3>1 DEF Behind
    <3>3. Rounds(u)' = Rounds(u)
      BY <1>3, <2>1 DEF Rounds
    <3> QED
      BY <1>3, <2>2, <3>2, <3>3 DEF Behind
  <2>3. ASSUME Ordered(u) PROVE Ordered(u)'
    <3>1. Mine(u)' \subseteq {r}
      BY <1>5, <1>7, <2>1, <2>3 DEF Ordered
    <3>2. \A d \in Mine(u)' : d.msg = i'[u] /\ d.to = "server"
      BY <1>1, <1>3, <1>7, <3>1
    <3> QED
      BY <1>3, <2>1, <2>3, <3>1, <3>2 DEF Ordered
  <2> QED
    BY <2>2, <2>3
<1> QED
  BY <1>6, <1>7

(* The server has answered one: with a number above all printed. *)
LEMMA ServeKeeps ==
  ASSUME TypeOK, NumbersBelow, NEW d \in net, Serve(d), NEW u \in Client
  PROVE  /\ Behind(u) => Behind(u)'
         /\ Ordered(u) /\ u \notin doubled' => Ordered(u)'
<1> DEFINE a == [to |-> d.from, seq |-> sequence, msg |-> d.msg]
<1>1. d \in Request /\ d.to = "server"
  BY Forms DEF Serve, TypeOK
<1>2. Owner(d) = d.from /\ Owner(a) = d.from /\ a.msg = d.msg /\ a.seq = sequence
  BY <1>1, UdpAssumption DEF Owner, Request
<1>3. Deliver(d, {a}) /\ at' = at /\ i' = i /\ printed' = printed
  BY DEF Serve, client
<1>4. Owner(d) # u \/ u \in doubled' \/ net' = (net \ {d}) \cup {a}
  BY <1>3 DEF Deliver
<1>5. net' \subseteq net \cup {a}
  BY <1>3 DEF Deliver
<1> HIDE DEF a
<1>6. CASE Owner(d) # u
  <2>1. Mine(u)' \subseteq Mine(u)
    BY <1>2, <1>5, <1>6 DEF Mine, Owner
  <2> QED
    BY <1>3, <2>1, OrderedFrame, BehindFrame DEF Idle
<1>7. CASE Owner(d) = u
  <2>1. d \in Mine(u) /\ Mine(u)' \subseteq Mine(u) \cup {a}
    BY <1>5, <1>7 DEF Mine, Owner
  <2>2. ASSUME Behind(u) PROVE Behind(u)'
    <3>1. \A e \in Mine(u)' : e.msg <= i'[u]
      BY <1>2, <1>3, <2>1, <2>2 DEF Behind
    <3> QED
      BY <1>3, <2>2, <3>1 DEF Behind, Rounds
  <2>3. ASSUME Ordered(u), u \notin doubled' PROVE Ordered(u)'
    <3>1. Mine(u) = {d} /\ d.msg = i[u] /\ at[u] \notin {"send", "closed"}
      BY <2>1, <2>3 DEF Ordered
    <3>2. Mine(u)' \subseteq {a}
      BY <1>4, <1>7, <2>3, <3>1 DEF Mine, Owner
    <3>3. After(u, sequence)
      BY DEF After, NumbersBelow, Answers
    <3>4. \A e \in Mine(u)' : e.msg = i'[u] /\ After(u, e.seq)'
      BY <1>2, <1>3, <3>1, <3>2, <3>3 DEF After
    <3> QED
      BY <1>3, <2>3, <3>1, <3>2, <3>4 DEF Ordered
  <2> QED
    BY <2>2, <2>3
<1> QED
  BY <1>6, <1>7

(* A client has printed one and goes on. *)
LEMMA RecvKeeps ==
  ASSUME TypeOK, NEW c \in Client, NEW d \in net, Recv(c, d), NEW u \in Client, Behind(u)
  PROVE  /\ Behind(u)'
         /\ Ordered(u) /\ u \notin doubled' => Ordered(u)'
<1>1. d.to = c /\ Owner(d) = c /\ at[c] = "recv" /\ NextRound(c) /\ Deliver(d, {})
  BY UdpAssumption DEF Recv, Owner
<1>2. printed' = [printed EXCEPT ![c] = Append(@, d)]
  BY DEF Recv
<1>3. net' \subseteq net /\ (Owner(d) = u /\ u \notin doubled' => net' = net \ {d})
  BY <1>1 DEF Deliver
<1>4. at \in [Client -> {"send", "recv", "closed", "failed"}] /\ i \in [Client -> Number]
  BY DEF TypeOK
<1>5. CASE u # c
  <2>1. Mine(u)' \subseteq Mine(u)
    BY <1>3 DEF Mine, Owner
  <2>2. at'[u] = at[u] /\ i'[u] = i[u]
    BY <1>1, <1>4, <1>5 DEF NextRound
  <2>3. printed'[u] = printed[u]
    BY <1>2, <1>5 DEF TypeOK
  <2> QED
    BY <2>1, <2>2, <2>3, OrderedFrame, BehindFrame DEF Idle
<1>6. CASE u = c
  <2> DEFINE n == i[c]
  <2>1. n \in Int /\ 0 <= n /\ Len(printed[c]) = n
    BY <1>1, <1>4, <1>6, UdpAssumption DEF Number, Behind, Rounds
  <2>2. d \in Answer /\ printed[c] \in Seq(Answer)
    BY <1>1, Forms, UdpAssumption DEF TypeOK
  <2>3. printed'[c] = Append(printed[c], d)
    BY <1>2 DEF TypeOK
  <2>4. d \in Mine(c) /\ d.msg \in Int
    BY <1>1, <2>2, Forms DEF Mine, Number
  <2>5. /\ Len(printed'[c]) = n + 1 /\ printed'[c][n + 1] = d
        /\ \A k \in 1..n : printed'[c][k] = printed[c][k]
    BY <2>1, <2>2, <2>3
  <2>6. \/ at'[c] = "send" /\ i'[c] = n + 1
        \/ at'[c] = "closed" /\ i'[c] = n
    BY <1>1, <1>4 DEF NextRound
  <2> HIDE DEF n
  <2>7. \A k \in 1..(n + 1) : k \in 1..n \/ k = n + 1
    BY <2>1
  <2>8. Behind(c)'
    <3>1. \A e \in Mine(c)' : e \in Mine(c) /\ e.msg \in Int
      BY <1>3, Forms DEF Mine, Owner, TypeOK, Number
    <3>2. \A e \in Mine(c)' : e.msg <= i'[c]
      BY <1>6, <2>1, <2>6, <3>1 DEF Behind, n
    <3>3. Len(printed'[c]) = Rounds(c)'
      BY <2>5, <2>6 DEF Rounds
    <3>4. d.msg <= (n + 1) - 1
      BY <1>6, <2>1, <2>4 DEF Behind, n
    <3>5. \A k \in 1..n : printed'[c][k].msg <= k - 1
      BY <1>6, <2>1, <2>5 DEF Behind
    <3>6. \A k \in 1..(n + 1) : printed'[c][k].msg <= k - 1
      BY <2>5, <2>7, <3>4, <3>5
    <3> QED
      BY <2>5, <3>2, <3>3, <3>6 DEF Behind
  <2>9. ASSUME Ordered(c), c \notin doubled' PROVE Ordered(c)'
    <3>1. Mine(c) = {d} /\ d.msg = n /\ After(c, d.seq)
      BY <1>1, <2>4, <2>9, UdpAssumption DEF Ordered, n
    <3>2. Mine(c)' = {}
      BY <1>1, <1>3, <1>6, <2>9, <3>1 DEF Mine, Owner
    <3>3. \A k \in 1..n : printed'[c][k].msg = k - 1
      BY <2>1, <2>5, <2>9 DEF Ordered
    <3>4. \A k \in 1..(n + 1) : printed'[c][k].msg = k - 1
      <4>1. d.msg = (n + 1) - 1
        BY <2>1, <3>1
      <4> QED
        BY <2>5, <2>7, <3>3, <4>1
    <3>5. \A k \in 1..n : \A j \in 1..k - 1 : printed'[c][j].seq < printed'[c][k].seq
      <4> SUFFICES ASSUME NEW k \in 1..n, NEW j \in 1..k - 1
                   PROVE  printed'[c][j].seq < printed'[c][k].seq
        OBVIOUS
      <4>1. j \in 1..n
        BY <2>1
      <4>2. printed[c][j].seq < printed[c][k].seq
        BY <2>1, <2>9 DEF Ordered
      <4> QED
        BY <2>5, <4>1, <4>2
    <3>6. \A j \in 1..(n + 1) - 1 : printed'[c][j].seq < d.seq
      BY <2>1, <2>5, <3>1 DEF After
    <3>7. \A k \in 1..(n + 1) : \A j \in 1..k - 1 : printed'[c][j].seq < printed'[c][k].seq
      BY <2>5, <2>7, <3>5, <3>6
    <3> QED
      BY <2>5, <3>2, <3>4, <3>7 DEF Ordered
  <2> QED
    BY <1>6, <2>8, <2>9
<1> QED
  BY <1>5, <1>6

LEMMA NextInOrder == InOrder /\ [Next]_vars => InOrder'
<1> SUFFICES ASSUME InOrder, [Next]_vars PROVE InOrder'
  OBVIOUS
<1>1. TypeOK /\ TypeOK' /\ NumbersBelow /\ Inv'
  BY NextInv DEF InOrder, Inv
<1>2. doubled \subseteq doubled'
  BY DEF Next, vars, client, server, Bind, Lose, Serve, Deliver, Send, Fail, Recv
<1>3. SUFFICES ASSUME NEW u \in Client, Behind(u)
               PROVE  Behind(u)' /\ (Ordered(u) /\ u \notin doubled' => Ordered(u)')
  BY <1>1, <1>2, <1>3 DEF InOrder
<1>4. ASSUME Idle(u) PROVE Behind(u)' /\ (Ordered(u) => Ordered(u)')
  BY <1>3, <1>4, OrderedFrame, BehindFrame
<1>5. ASSUME net' \subseteq net, at'[u] = at[u], i' = i, printed' = printed PROVE Idle(u)
  BY <1>5 DEF Mine, Owner, Idle
<1>6. CASE UNCHANGED vars
  BY <1>4, <1>5, <1>6 DEF vars, client, server
<1>7. CASE Bind
  BY <1>4, <1>5, <1>7 DEF Bind, client
<1>8. ASSUME NEW d \in net, Lose(d) PROVE Idle(u)
  BY <1>5, <1>8 DEF Lose, client
<1>9. ASSUME NEW c \in Client, Fail(c) PROVE Behind(u)' /\ (Ordered(u) => Ordered(u)')
  <2>1. CASE u # c
    BY <1>1, <1>4, <1>5, <1>9, <2>1 DEF Fail, TypeOK
  <2>2. CASE u = c
    <3>1. at[u] = "recv" /\ at'[u] = "failed"
      BY <1>1, <1>9, <2>2 DEF Fail, TypeOK
    <3>2. Mine(u)' = Mine(u) /\ i' = i /\ printed' = printed
      BY <1>9 DEF Fail, Mine, Owner
    <3>3. Rounds(u)' = Rounds(u)
      BY <3>1, <3>2 DEF Rounds
    <3>4. Behind(u)'
      BY <1>3, <3>2, <3>3 DEF Behind
    <3>5. Ordered(u) => Ordered(u)'
      BY <3>1, <3>2 DEF Ordered, After
    <3> QED
      BY <3>4, <3>5
  <2> QED
    BY <2>1, <2>2
<1>10. ASSUME NEW d \in net, Serve(d)
       PROVE  Behind(u)' /\ (Ordered(u) /\ u \notin doubled' => Ordered(u)')
  BY <1>1, <1>3, <1>10, ServeKeeps
<1>11. ASSUME NEW c \in Client, Send(c) PROVE Behind(u)' /\ (Ordered(u) => Ordered(u)')
  BY <1>1, <1>3, <1>11, SendKeeps
<1>12. ASSUME NEW c \in Client, NEW d \in net, Recv(c, d)
       PROVE  Behind(u)' /\ (Ordered(u) /\ u \notin doubled' => Ordered(u)')
  BY <1>1, <1>3, <1>12, RecvKeeps
<1> QED
  BY <1>4, <1>6, <1>7, <1>8, <1>9, <1>10, <1>11, <1>12 DEF Next

LEMMA InitInOrder == Init => InOrder
<1> SUFFICES ASSUME Init PROVE InOrder
  OBVIOUS
<1>1. Inv
  BY InitInv
<1>2. \A c \in Client : Mine(c) = {} /\ printed[c] = <<>> /\ i[c] = 0 /\ at[c] = "send"
  BY DEF Init, Mine
<1>3. ASSUME NEW c \in Client PROVE Behind(c) /\ Ordered(c)
  <2>1. Len(printed[c]) = 0 /\ Rounds(c) = 0
    BY <1>2 DEF Rounds
  <2>2. 1..Len(printed[c]) = {}
    BY <2>1
  <2>3. Behind(c)
    BY <1>2, <2>1, <2>2 DEF Behind
  <2>4. Ordered(c)
    BY <1>2, <2>2 DEF Ordered
  <2> QED
    BY <2>3, <2>4
<1> QED
  BY <1>1, <1>3 DEF InOrder

(* In its k-th round a client prints no answer to a number it has yet to    *)
(* send, whatever comes twice or late; and one none of whose own datagrams  *)
(* came twice prints the answer to the number it has just sent, numbered by *)
(* the server higher than all those before.                                 *)
THEOREM AlwaysInTurn == Spec => []InTurn
<1>1. InOrder => InTurn
  BY DEF InOrder, Behind, Ordered, InTurn
<1> QED
  BY <1>1, InitInOrder, NextInOrder, PTL DEF Spec
=============================================================================
