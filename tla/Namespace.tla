----------------------------- MODULE Namespace ------------------------------
(***************************************************************************)
(* The session's directory, its RNFR path, its TYPE and its PORT address   *)
(* in clients[] (data.h), the commands that use and change them (cwd, mkd, *)
(* rmd, rnfr, rnto, type, port and stor of control.c, and their cases in   *)
(* interpret) and the tree of files they act on. The main thread runs one  *)
(* handler after the other and the transfer threads create no names: every *)
(* command is one step. Only sessions that have logged in send them.       *)
(*                                                                         *)
(* A path is the sequence of its names; connect_dir, which turns an        *)
(* argument into one, is checked in ConnectDir. An object keeps its number *)
(* when it is renamed. A slot is used by one session after the other.      *)
(***************************************************************************)
EXTENDS PortArgument, SequencesExt

CONSTANTS
  Slot,        \* indexes of clients[]
  Name,        \* names of files
  Path,        \* the paths of the bounded tree, sequences of names
  PortArg,     \* the <<h, p>> clients send with PORT, all of them legal
  MaxObjects,  \* bound on the objects ever created
  NoPath,      \* an empty string where a path is expected
  NoPort       \* a data address of zeros

Root == <<>>

ASSUME PathAssumption ==
  /\ Root \in Path
  /\ \A p \in Path \ {Root} : p \in Seq(Name) /\ Front(p) \in Path
ASSUME PortAssumption == \A a \in PortArg : Legal(a[1], a[2])
ASSUME ObjectAssumption == MaxObjects \in Nat

BINARY == "BINARY"
ASCII  == "ASCII"

Object  == [kind : {"none", "dir", "file"}, id : 0..MaxObjects]
Address == {<<a[1], MeantPort(a[2])>> : a \in PortArg}
Session == [dir : Path \cup {NoPath}, rndir : Path \cup {NoPath},
            type : {BINARY, ASCII}, addr : Address \cup {NoPort}]

VARIABLES
  tree,     \* what each path names
  objects,  \* how many objects have been created
  live,     \* the slots with a session
  clients,  \* clients[]
  own,      \* what each client takes its session's state to be
  found     \* the object of each client's RNFR, 0: none, or it has moved since

vars == <<tree, objects, live, clients, own, found>>

TypeOK ==
  /\ tree \in [Path -> Object]
  /\ objects \in 0..MaxObjects
  /\ live \subseteq Slot
  /\ clients \in [Slot -> Session]
  /\ own \in [Slot -> Session]
  /\ found \in [Slot -> 0..MaxObjects]

Nothing == [kind |-> "none", id |-> 0]

(* memset(&clients[eventfd], 0, ..) *)
Zeroed == [dir |-> NoPath, rndir |-> NoPath, type |-> BINARY, addr |-> NoPort]
Fresh  == [Zeroed EXCEPT !.dir = Root]

Init ==
  /\ tree = [p \in Path |-> IF p = Root THEN [kind |-> "dir", id |-> 0] ELSE Nothing]
  /\ objects = 0
  /\ live = {}
  /\ clients = [s \in Slot |-> Zeroed]
  /\ own = [s \in Slot |-> Zeroed]
  /\ found = [s \in Slot |-> 0]

-----------------------------------------------------------------------------
(* A connection is accepted: status and dir are all that is set. *)
Accept(s) ==
  /\ s \notin live
  /\ live' = live \cup {s}
  /\ clients' = [clients EXCEPT ![s].dir = Root]
  /\ own' = [own EXCEPT ![s] = Fresh]
  /\ UNCHANGED <<tree, objects, found>>

ClearedMutant(s) == [clients[s] EXCEPT !.dir = NoPath]
Cleared(s) == Zeroed

Disconnect(s) ==
  /\ s \in live
  /\ live' = live \ {s}
  /\ clients' = [clients EXCEPT ![s] = Cleared(s)]
  /\ own' = [own EXCEPT ![s] = Zeroed]
  /\ found' = [found EXCEPT ![s] = 0]
  /\ UNCHANGED <<tree, objects>>

(* connect_dir and real_dir of an argument: a path, a name below the        *)
(* session's directory, or "..", which at the root gives -1 (NoPath):       *)
(* ArgumentsResolved of ConnectDir.                                         *)
Absolute == [form : {"path"}, path : Path]
Relative == [form : {"name"}, path : {<<n>> : n \in Name}]
Parent   == [form |-> "up", path |-> Root]
Arg      == Absolute \cup Relative \cup {Parent}

ResolvedAtMutant(d, a) == IF a.form = "up" THEN NoPath ELSE a.path
ResolvedAt(d, a) ==
  CASE a.form = "path"            -> a.path
    [] a.form = "name"            -> d \o a.path
    [] a.form = "up" /\ d = Root  -> NoPath
    [] a.form = "up" /\ d # Root  -> Front(d)

(* The bounded tree has no deeper paths. *)
InBounds(d, a) == ResolvedAt(d, a) \in Path \cup {NoPath}

(* What the client of slot s means by a, from its own idea of where it is. *)
Meant(s, a) == CASE a.form = "path" -> a.path
                 [] a.form = "name" -> own[s].dir \o a.path
                 [] OTHER -> IF own[s].dir = Root THEN NoPath ELSE Front(own[s].dir)

Exists(p) == p # NoPath /\ tree[p].kind # "none"
IsDir(p)  == p # NoPath /\ tree[p].kind = "dir"
Below(p)  == {q \in Path : IsStrictPrefix(p, q) /\ Exists(q)}

Serve(s, a) == s \in live /\ InBounds(clients[s].dir, a)

(* cwd: the directory is stored once opendir() has opened it. *)
Cwd(s, a) ==
  LET p == ResolvedAt(clients[s].dir, a)
  IN /\ Serve(s, a)
     /\ IF IsDir(p)
        THEN /\ clients' = [clients EXCEPT ![s].dir = p]
             /\ own' = [own EXCEPT ![s].dir = Meant(s, a)]
        ELSE UNCHANGED <<clients, own>>
     /\ UNCHANGED <<tree, objects, live, found>>

(* mkdir(), open(O_CREAT): the name is free and its directory exists. *)
Creatable(p) ==
  /\ p # NoPath
  /\ ~ Exists(p)
  /\ p # Root => IsDir(Front(p))

Create(p, kind) ==
  /\ objects < MaxObjects
  /\ objects' = objects + 1
  /\ tree' = [tree EXCEPT ![p] = [kind |-> kind, id |-> objects + 1]]

(* mkd; stor, where fopen(.., "w+") creates what does not exist. Both act   *)
(* outside this tree when connect_dir has refused the path.                 *)
Make(s, a, kind) ==
  LET p == ResolvedAt(clients[s].dir, a)
  IN /\ Serve(s, a)
     /\ Creatable(p)
     /\ p = Root => kind = "dir"
     /\ Create(p, kind)
     /\ UNCHANGED <<live, clients, own, found>>

(* An RNFR still holds if the object it found has kept its place. *)
Places(t, id) == {p \in Path : t[p].id = id}
StillThere(u) == IF Places(tree', found[u]) = Places(tree, found[u]) THEN found[u] ELSE 0

(* rmd: rmdir() of an empty directory, the served one included *)
Rmd(s, a) ==
  LET p == ResolvedAt(clients[s].dir, a)
  IN /\ Serve(s, a)
     /\ IsDir(p)
     /\ Below(p) = {}
     /\ tree' = [tree EXCEPT ![p] = Nothing]
     /\ found' = [u \in Slot |-> StillThere(u)]
     /\ UNCHANGED <<objects, live, clients, own>>

(* rnfr: the path is stored once access() has found it. *)
RnfrKeepsMutant(p) == p # NoPath
RnfrKeeps(p) == Exists(p)

Rnfr(s, a) ==
  LET p == ResolvedAt(clients[s].dir, a)
  IN /\ Serve(s, a)
     /\ IF RnfrKeeps(p) THEN clients' = [clients EXCEPT ![s].rndir = p]
                        ELSE UNCHANGED clients
     /\ IF Exists(p)
        THEN /\ own' = [own EXCEPT ![s].rndir = Meant(s, a)]
             /\ found' = [found EXCEPT ![s] = tree[Meant(s, a)].id]
        ELSE UNCHANGED <<own, found>>
     /\ UNCHANGED <<tree, objects, live>>

(* rename(): a file replaces a file, a directory an empty one that is not   *)
(* below it; the bounded tree has a place for what moves along.             *)
Renamable(old, new) ==
  /\ Exists(old) /\ old # Root
  /\ new \notin {NoPath, Root}
  /\ IsDir(Front(new))
  /\ new # old =>
       /\ IsDir(old) = IsDir(new) \/ ~ Exists(new)
       /\ Below(new) = {}
       /\ ~ IsPrefix(old, new)
  /\ \A q \in Below(old) : new \o SubSeq(q, Len(old) + 1, Len(q)) \in Path

Renamed(old, new) ==
  [q \in Path |->
     IF IsPrefix(new, q)
     THEN LET source == old \o SubSeq(q, Len(new) + 1, Len(q))
          IN IF source \in Path THEN tree[source] ELSE Nothing
     ELSE IF IsPrefix(old, q) THEN Nothing ELSE tree[q]]

(* rnto: clients[].rndir stays as it is. *)
Rnto(s, a) ==
  LET p == ResolvedAt(clients[s].dir, a)
  IN /\ Serve(s, a)
     /\ Renamable(clients[s].rndir, p)
     /\ tree' = Renamed(clients[s].rndir, p)
     /\ found' = [u \in Slot |-> StillThere(u)]
     /\ UNCHANGED <<objects, live, clients, own>>

Type(s, t) ==
  /\ s \in live
  /\ clients' = [clients EXCEPT ![s].type = t]
  /\ own' = [own EXCEPT ![s].type = t]
  /\ UNCHANGED <<tree, objects, live, found>>

(* port: the address is stored if the checks accept it; the client takes it *)
(* as it meant it on 200.                                                   *)
Port(s, arg) ==
  /\ s \in live
  /\ Accepted(arg[1], arg[2])
  /\ clients' = [clients EXCEPT ![s].addr = <<DecodedHost(arg[1]), DecodedPort(arg[2])>>]
  /\ own' = [own EXCEPT ![s].addr = <<arg[1], MeantPort(arg[2])>>]
  /\ UNCHANGED <<tree, objects, live, found>>

Next ==
  \E s \in Slot :
    \/ Accept(s)
    \/ Disconnect(s)
    \/ \E a \in Arg : \/ Cwd(s, a)
                      \/ \E kind \in {"dir", "file"} : Make(s, a, kind)
                      \/ Rmd(s, a)
                      \/ Rnfr(s, a)
                      \/ Rnto(s, a)
    \/ \E t \in {BINARY, ASCII} : Type(s, t)
    \/ \E arg \in PortArg : Port(s, arg)

Spec == Init /\ [][Next]_vars

-----------------------------------------------------------------------------
(* A session's state is what its own accepted commands made it, whatever    *)
(* other sessions do, and whatever the session left that had the slot       *)
(* before: its directory, RNFR path, TYPE and data address.                 *)
OwnState == clients = own

(* RNTO acts after an RNFR only. It moves what is at the path that its own  *)
(* session's last accepted RNFR found to the place the client means,        *)
(* wherever the client has changed to in between and whatever all sessions  *)
(* have created, removed or renamed; and that is the object RNFR found,     *)
(* unless this object itself was moved.                                     *)
RenamesFound ==
  [][\A s \in Slot, a \in Arg :
       Rnto(s, a) =>
         /\ own[s].rndir # NoPath
         /\ tree'[Meant(s, a)] = tree[own[s].rndir]
         /\ found[s] # 0 => tree'[Meant(s, a)].id = found[s]]_vars
=============================================================================
