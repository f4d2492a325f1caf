---------------------------- MODULE UdpSequence -----------------------------
(***************************************************************************)
(* The UDP exercise of FTP/udp: client.py sends the numbers from 0 to 50   *)
(* one by one and waits for an answer after each, without a timeout;       *)
(* server.py answers every datagram with the number of datagrams it has    *)
(* answered before. Between them datagrams are lost, come twice and        *)
(* overtake each other.                                                    *)
(***************************************************************************)
EXTENDS Integers, Sequences

CONSTANTS
  Client,    \* runs of client.py
  Count,     \* the numbers each of them sends (51 in client.py)
  MaxFaults  \* bound on the datagrams lost or delivered twice

ASSUME UdpAssumption ==
  /\ Count \in Nat \ {0}
  /\ MaxFaults \in Nat
  /\ "server" \notin Client

Number  == 0..Count - 1
Request == [to : {"server"}, from : Client, msg : Number]
Answer  == [to : Client, seq : Nat, msg : Number]

VARIABLES
  listening,  \* server.py has bound its port
  sequence,   \* server.py: sequence
  at,         \* client.py: where each client is
  i,          \* client.py: i
  printed,    \* client.py: the answers printed
  net,        \* the datagrams on their way
  refused,    \* the clients whose host told them that nobody listens
  lost,       \* history: the clients a datagram of which was lost
  doubled,    \* history: those a datagram of which came twice
  faults      \* how many datagrams were lost or came twice

server == <<listening, sequence>>
client == <<at, i, printed>>
vars == <<server, client, net, refused, lost, doubled, faults>>

TypeOK ==
  /\ listening \in BOOLEAN
  /\ sequence \in Nat
  /\ at \in [Client -> {"send", "recv", "closed", "failed"}]
  /\ i \in [Client -> Number]
  /\ printed \in [Client -> Seq(Answer)]
  /\ net \subseteq Request \cup Answer
  /\ refused \subseteq Client
  /\ lost \subseteq Client
  /\ doubled \subseteq Client
  /\ faults \in 0..MaxFaults

Init ==
  /\ listening = FALSE
  /\ sequence = 0
  /\ at = [c \in Client |-> "send"]
  /\ i = [c \in Client |-> 0]
  /\ printed = [c \in Client |-> <<>>]
  /\ net = {}
  /\ refused = {}
  /\ lost = {}
  /\ doubled = {}
  /\ faults = 0

Bind ==
  /\ ~ listening
  /\ listening' = TRUE
  /\ UNCHANGED <<sequence, client, net, refused, lost, doubled, faults>>

-----------------------------------------------------------------------------
(* The network *)

Owner(d) == IF d.to = "server" THEN d.from ELSE d.to

Lose(d) ==
  /\ faults < MaxFaults
  /\ faults' = faults + 1
  /\ net' = net \ {d}
  /\ lost' = lost \cup {Owner(d)}
  /\ UNCHANGED <<server, client, refused, doubled>>

(* d is delivered, and "more" is sent; or d comes once more later. *)
Deliver(d, more) ==
  \/ net' = (net \ {d}) \cup more /\ UNCHANGED <<doubled, faults>>
  \/ /\ faults < MaxFaults
     /\ faults' = faults + 1
     /\ net' = net \cup more
     /\ doubled' = doubled \cup {Owner(d)}

-----------------------------------------------------------------------------
(* server.py: recvfrom(), sequence += 1, sendto() *)
ServeMutant(d) ==
  /\ listening
  /\ d.to = "server"
  /\ Deliver(d, {[to |-> d.from, seq |-> d.msg, msg |-> d.msg]})
  /\ sequence' = sequence + 1
  /\ UNCHANGED <<listening, client, refused, lost>>

Serve(d) ==
  /\ listening
  /\ d.to = "server"
  /\ Deliver(d, {[to |-> d.from, seq |-> sequence, msg |-> d.msg]})
  /\ sequence' = sequence + 1
  /\ UNCHANGED <<listening, client, refused, lost>>

(* client.py: sock.sendto(). Where nobody listens the datagram is lost, and *)
(* the host may say so at the next recv().                                  *)
Send(c) ==
  /\ at[c] = "send"
  /\ at' = [at EXCEPT ![c] = "recv"]
  /\ IF listening
     THEN /\ net' = net \cup {[to |-> "server", from |-> c, msg |-> i[c]]}
          /\ UNCHANGED <<refused, lost>>
     ELSE /\ refused' \in {refused, refused \cup {c}}
          /\ lost' = lost \cup {c}
          /\ UNCHANGED net
  /\ UNCHANGED <<server, i, printed, doubled, faults>>

(* "cannot reach the server" *)
Fail(c) ==
  /\ at[c] = "recv"
  /\ c \in refused
  /\ at' = [at EXCEPT ![c] = "failed"]
  /\ UNCHANGED <<server, i, printed, net, refused, lost, doubled, faults>>

(* The loop goes on, or has come to its end and the socket is closed. *)
NextRoundMutant1(c) ==
  IF i[c] < Count - 1
  THEN i' = [i EXCEPT ![c] = @ + 1] /\ UNCHANGED at
  ELSE at' = [at EXCEPT ![c] = "closed"] /\ UNCHANGED i

NextRoundMutant2(c) ==
  IF i[c] < Count
  THEN i' = [i EXCEPT ![c] = @ + 1] /\ at' = [at EXCEPT ![c] = "send"]
  ELSE at' = [at EXCEPT ![c] = "closed"] /\ UNCHANGED i

NextRoundMutant3(c) ==
  IF i[c] < Count - 1
  THEN at' = [at EXCEPT ![c] = "send"] /\ UNCHANGED i
  ELSE at' = [at EXCEPT ![c] = "closed"] /\ UNCHANGED i

NextRound(c) ==
  IF i[c] < Count - 1
  THEN i' = [i EXCEPT ![c] = @ + 1] /\ at' = [at EXCEPT ![c] = "send"]
  ELSE at' = [at EXCEPT ![c] = "closed"] /\ UNCHANGED i

(* print(sock.recv()): whichever answer comes first *)
Recv(c, d) ==
  /\ at[c] = "recv"
  /\ d.to = c
  /\ printed' = [printed EXCEPT ![c] = Append(@, d)]
  /\ NextRound(c)
  /\ Deliver(d, {})
  /\ UNCHANGED <<server, refused, lost>>

Next ==
  \/ Bind
  \/ \E d \in net : Lose(d) \/ Serve(d)
  \/ \E c \in Client : \/ Send(c)
                       \/ Fail(c)
                       \/ \E d \in net : Recv(c, d)

Spec == Init /\ [][Next]_vars

ClientStep(c) == Send(c) \/ Fail(c) \/ \E d \in net : Recv(c, d)

(* Both programs run as long as they can. *)
FairSpec ==
  /\ Spec
  /\ WF_vars(\E d \in net : Serve(d))
  /\ \A c \in Client : WF_vars(ClientStep(c))

-----------------------------------------------------------------------------
Answers == {d \in net : d.to # "server"}
           \cup UNION {{printed[c][k] : k \in 1..Len(printed[c])} : c \in Client}

(* server.py numbers its answers: whatever the network loses or repeats, no *)
(* two different answers, to whichever clients, have the same number.       *)
NumbersUnique == \A d, e \in Answers : d.seq = e.seq => d = e

(* The client looks at no answer. In its k-th round it never prints one to  *)
(* a number it has yet to send, even if datagrams came twice and it has     *)
(* fallen behind; if none of its own did, it prints the answer to the       *)
(* number just sent, and the server's numbers increase.                     *)
InTurn ==
  \A c \in Client : \A k \in 1..Len(printed[c]) :
    /\ printed[c][k].msg <= k - 1
    /\ c \notin doubled =>
         /\ printed[c][k].msg = k - 1
         /\ \A j \in 1..k - 1 : printed[c][j].seq < printed[c][k].seq

(* A client none of whose datagrams is lost comes to its end. (One that     *)
(* loses a datagram waits for ever.)                                        *)
Finishes == \A c \in Client : <>(c \in lost \/ at[c] = "closed")
=============================================================================
