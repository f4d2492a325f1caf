-------------------------- MODULE NamespaceProofs ---------------------------
(***************************************************************************)
(* Sessions keep their own state and RNTO renames what RNFR found, for any *)
(* tree of paths, any number of sessions and any legal addresses; and what *)
(* port() makes of every legal argument.                                   *)
(***************************************************************************)
EXTENDS Namespace, TLAPS

(* A free slot is as accept() expects it: of what it needs only dir is set. *)
FreeZeroed == \A s \in Slot : s \notin live => clients[s] = Zeroed

NothingHasNoId == \A p \in Path : tree[p].kind = "none" => tree[p].id = 0

FoundThere ==
  \A s \in Slot : found[s] # 0 => /\ clients[s].rndir \in Path
                                  /\ tree[clients[s].rndir].id = found[s]

Inv == TypeOK /\ OwnState /\ FreeZeroed /\ NothingHasNoId /\ FoundThere

-----------------------------------------------------------------------------
(* The mistaken checks of port() and the legal addresses. *)

(* port() refuses exactly those legal addresses that begin with more than   *)
(* 252 and those legal ports whose first number is 255.                     *)
THEOREM LegalAccepted ==
  ASSUME NEW h, NEW p, Legal(h, p)
  PROVE  Accepted(h, p) <=> h[1] <= 252 /\ p[1] <= 254
<1>1. h[1] \in 0..255 /\ p[1] \in 0..255
  BY DEF Legal, Octet
<1>2. (\A i \in 0..3 : h[1] + i \in 0..255) <=> h[1] <= 252
  <2>1. 3 \in 0..3
    OBVIOUS
  <2>2. (\A i \in 0..3 : h[1] + i \in 0..255) => h[1] + 3 \in 0..255
    BY <2>1, Zenon
  <2>4. h[1] + 3 \in 0..255 => h[1] <= 252
    BY ONLY <1>1
  <2>3. h[1] <= 252 => \A i \in 0..3 : h[1] + i \in 0..255
    BY <1>1
  <2> QED
    BY <2>2, <2>3, <2>4, Zenon
<1>3. (\A i \in 0..1 : p[1] + i \in 0..255) <=> p[1] <= 254
  <2>1. 1 \in 0..1
    OBVIOUS
  <2>2. (\A i \in 0..1 : p[1] + i \in 0..255) => p[1] + 1 \in 0..255
    BY <2>1, Zenon
  <2>4. p[1] + 1 \in 0..255 => p[1] <= 254
    BY ONLY <1>1
  <2>3. p[1] <= 254 => \A i \in 0..1 : p[1] + i \in 0..255
    BY <1>1
  <2> QED
    BY <2>2, <2>3, <2>4, Zenon
<1> QED
  BY <1>2, <1>3 DEF Accepted, Octet

(* Two octets fit an unsigned short. *)
LEMMA TwoOctets ==
  ASSUME NEW a \in 0..255, NEW b \in 0..255
  PROVE  (a * 256 + b) % 65536 = a * 256 + b
<1>1. a \in Int /\ 0 <= a /\ a <= 255 /\ b \in Int /\ 0 <= b /\ b <= 255
  OBVIOUS
<1>2. a * 256 + b \in Int /\ 0 <= a * 256 + b /\ a * 256 + b <= 65535
  BY ONLY <1>1
<1>3. \A n \in Int : 0 <= n /\ n <= 65535 => n % 65536 = n
  BY ONLY TRUE
<1> QED
  BY ONLY <1>2, <1>3

(* What port() stores for a legal address is the address the client meant:  *)
(* the cast to unsigned short and inet_pton() lose nothing of it.           *)
THEOREM StoredIsMeant ==
  ASSUME NEW h, NEW p, Legal(h, p)
  PROVE  DecodedHost(h) = h /\ DecodedPort(p) = MeantPort(p)
<1>1. DecodedHost(h) = h
  BY DEF DecodedHost, Legal, Octet
<1>2. p[1] \in 0..255 /\ p[2] \in 0..255
  BY DEF Legal, Octet
<1>3. (p[1] * 256 + p[2]) % 65536 = p[1] * 256 + p[2]
  <2> DEFINE a == p[1]
             b == p[2]
  <2>1. a \in 0..255 /\ b \in 0..255
    BY <1>2
  <2> HIDE DEF a, b
  <2>2. (a * 256 + b) % 65536 = a * 256 + b
    BY <2>1, TwoOctets
  <2> QED
    BY <2>2 DEF a, b
<1> QED
  BY <1>1, <1>3 DEF DecodedPort, MeantPort

-----------------------------------------------------------------------------
(* The client and connect_dir mean the same path.                           *)
LEMMA MeantIsResolved ==
  ASSUME OwnState, NEW s \in Slot, NEW a \in Arg
  PROVE  Meant(s, a) = ResolvedAt(clients[s].dir, a)
<1>1. a.form \in {"path", "name", "up"}
  BY DEF Arg, Absolute, Relative, Parent
<1>2. own[s].dir = clients[s].dir
  BY DEF OwnState
<1>3. CASE a.form = "path"
  BY <1>3 DEF Meant, ResolvedAt
<1>4. CASE a.form = "name"
  BY <1>2, <1>4 DEF Meant, ResolvedAt
<1>5. CASE a.form = "up"
  <2>1. CASE clients[s].dir = Root
    BY <1>2, <1>5, <2>1 DEF Meant, ResolvedAt
  <2>2. CASE clients[s].dir # Root
    BY <1>2, <1>5, <2>2 DEF Meant, ResolvedAt
  <2> QED
    BY <2>1, <2>2
<1> QED
  BY <1>1, <1>3, <1>4, <1>5

LEMMA ZeroedType == Zeroed \in Session /\ Fresh \in Session /\ Root \in Path
<1>1. Root \in Path
  BY PathAssumption
<1> QED
  BY <1>1 DEF Zeroed, Fresh, Session, BINARY, ASCII

(* Objects, and the ids found *)
LEMMA TreeType ==
  ASSUME TypeOK
  PROVE  /\ Nothing \in Object
         /\ \A p \in Path : tree[p] \in Object /\ tree[p].id \in 0..MaxObjects
<1>1. Nothing \in Object
  BY ObjectAssumption DEF Nothing, Object
<1>2. \A p \in Path : tree[p] \in Object
  BY DEF TypeOK
<1> QED
  BY <1>1, <1>2 DEF Object

(* rename() moves the object itself. *)
LEMMA RenamedAt ==
  ASSUME NEW old \in Path, NEW new \in Path, old # Root, new # Root
  PROVE  Renamed(old, new)[new] = tree[old]
<1>1. old \in Seq(Name) /\ new \in Seq(Name)
  BY PathAssumption
<1>2. Len(new) \in Nat
  BY <1>1
<1>3. IsPrefix(new, new)
  BY <1>2 DEF IsPrefix
<1>4. SubSeq(new, Len(new) + 1, Len(new)) = <<>>
  BY <1>1, <1>2
<1>5. old \o <<>> = old
  BY <1>1
<1> QED
  BY <1>3, <1>4, <1>5 DEF Renamed

LEMMA RenamedType ==
  ASSUME TypeOK, NEW old, NEW new
  PROVE  Renamed(old, new) \in [Path -> Object]
BY TreeType DEF Renamed

(* What is nowhere has no id, after a rename() too. *)
LEMMA RenamedNothing ==
  ASSUME NothingHasNoId, NEW old, NEW new, NEW p \in Path,
         Renamed(old, new)[p].kind = "none"
  PROVE  Renamed(old, new)[p].id = 0
BY DEF Renamed, NothingHasNoId, Nothing

LEMMA InitInv == Init => Inv
<1> SUFFICES ASSUME Init PROVE Inv
  OBVIOUS
<1>1. TypeOK
  <2>1. tree \in [Path -> Object]
    BY ObjectAssumption DEF Init, Object, Nothing
  <2>2. clients \in [Slot -> Session] /\ own \in [Slot -> Session]
    BY ZeroedType DEF Init
  <2> QED
    BY <2>1, <2>2, ObjectAssumption DEF Init, TypeOK
<1>2. NothingHasNoId
  BY DEF Init, NothingHasNoId, Nothing
<1> QED
  BY <1>1, <1>2 DEF Init, Inv, OwnState, FreeZeroed, FoundThere

-----------------------------------------------------------------------------
(* Sessions begin and end. *)
LEMMA AcceptInv ==
  ASSUME Inv, NEW s \in Slot, Accept(s)
  PROVE  Inv'
<1> USE DEF Inv
<1>1. clients' = [clients EXCEPT ![s].dir = Root] /\ own' = [own EXCEPT ![s] = Fresh]
  BY DEF Accept
<1>2. clients[s] = Zeroed /\ clients = own
  BY DEF Accept, FreeZeroed, OwnState
<1>3. clients \in [Slot -> Session]
  BY DEF TypeOK
<1>4. clients' = [clients EXCEPT ![s] = Fresh]
  BY <1>1, <1>2, <1>3 DEF Fresh
<1>5. TypeOK'
  BY <1>1, <1>2, <1>4, ZeroedType DEF Accept, TypeOK
<1>6. OwnState'
  BY <1>1, <1>2, <1>4 DEF OwnState
<1>7. FreeZeroed'
  BY <1>3, <1>4 DEF Accept, FreeZeroed
<1>8. FoundThere'
  <2>1. \A u \in Slot : clients'[u].rndir = clients[u].rndir
    BY <1>2, <1>3, <1>4 DEF Fresh, Zeroed
  <2> QED
    BY <2>1 DEF FoundThere, Accept
<1> QED
  BY <1>5, <1>6, <1>7, <1>8 DEF Accept, NothingHasNoId

LEMMA DisconnectInv ==
  ASSUME Inv, NEW s \in Slot, Disconnect(s)
  PROVE  Inv'
<1> USE DEF Inv
<1>1. /\ clients' = [clients EXCEPT ![s] = Zeroed]
      /\ own' = [own EXCEPT ![s] = Zeroed]
      /\ found' = [found EXCEPT ![s] = 0]
  BY DEF Disconnect, Cleared
<1>2. clients \in [Slot -> Session] /\ found \in [Slot -> 0..MaxObjects]
  BY DEF TypeOK
<1>3. TypeOK'
  BY <1>1, ZeroedType, ObjectAssumption DEF Disconnect, TypeOK
<1>4. OwnState'
  BY <1>1 DEF OwnState
<1>5. FreeZeroed'
  BY <1>1, <1>2 DEF Disconnect, FreeZeroed
<1>6. FoundThere'
  BY <1>1, <1>2 DEF Disconnect, FoundThere
<1> QED
  BY <1>3, <1>4, <1>5, <1>6 DEF Disconnect, NothingHasNoId

-----------------------------------------------------------------------------
(* A field of a live session changes, to the same value for the client, and *)
(* neither its RNFR path nor the tree.                                      *)
LEMMA SessionInv ==
  ASSUME Inv, NEW s \in live, NEW x \in Session,
         x.rndir = clients[s].rndir,
         clients' = [clients EXCEPT ![s] = x],
         own' = [own EXCEPT ![s] = x],
         UNCHANGED <<tree, objects, live, found>>
  PROVE  Inv'
<1> USE DEF Inv
<1>1. clients \in [Slot -> Session] /\ s \in Slot
  BY DEF TypeOK
<1>2. TypeOK'
  BY DEF TypeOK
<1>3. OwnState'
  BY DEF OwnState
<1>4. FreeZeroed'
  BY <1>1 DEF FreeZeroed
<1>5. FoundThere'
  BY <1>1 DEF FoundThere
<1> QED
  BY <1>2, <1>3, <1>4, <1>5 DEF NothingHasNoId

LEMMA CwdInv ==
  ASSUME Inv, NEW s \in Slot, NEW a \in Arg, Cwd(s, a)
  PROVE  Inv'
<1> DEFINE p == ResolvedAt(clients[s].dir, a)
           x == [clients[s] EXCEPT !.dir = p]
<1>1. Meant(s, a) = p
  BY MeantIsResolved DEF Inv
<1>2. s \in live /\ clients[s] \in Session /\ clients = own
  BY DEF Cwd, Serve, Inv, TypeOK, OwnState
<1>3. CASE ~ IsDir(p)
  <2>1. UNCHANGED vars
    BY <1>3 DEF Cwd, vars
  <2> QED
    BY <2>1 DEF Inv, TypeOK, OwnState, FreeZeroed, NothingHasNoId, FoundThere, vars
<1>4. CASE IsDir(p)
  <2>1. p \in Path
    BY <1>4 DEF Cwd, Serve, InBounds, IsDir
  <2>2. x \in Session /\ x.rndir = clients[s].rndir
    BY <1>2, <2>1 DEF Session
  <2>3. clients' = [clients EXCEPT ![s] = x] /\ own' = [own EXCEPT ![s] = x]
    BY <1>1, <1>2, <1>4 DEF Cwd
  <2> HIDE DEF x, p
  <2> QED
    BY <1>2, <2>2, <2>3, SessionInv DEF Cwd
<1> QED
  BY <1>3, <1>4

LEMMA TypeInv ==
  ASSUME Inv, NEW s \in Slot, NEW t \in {BINARY, ASCII}, Type(s, t)
  PROVE  Inv'
<1> DEFINE x == [clients[s] EXCEPT !.type = t]
<1>1. s \in live /\ clients[s] \in Session /\ clients = own
  BY DEF Type, Inv, TypeOK, OwnState
<1>2. x \in Session /\ x.rndir = clients[s].rndir
  BY <1>1 DEF Session
<1>3. clients' = [clients EXCEPT ![s] = x] /\ own' = [own EXCEPT ![s] = x]
  BY <1>1 DEF Type
<1> HIDE DEF x
<1> QED
  BY <1>1, <1>2, <1>3, SessionInv DEF Type

LEMMA PortInv ==
  ASSUME Inv, NEW s \in Slot, NEW arg \in PortArg, Port(s, arg)
  PROVE  Inv'
<1> DEFINE x == [clients[s] EXCEPT !.addr = <<arg[1], MeantPort(arg[2])>>]
<1>1. s \in live /\ clients[s] \in Session /\ clients = own
  BY DEF Port, Inv, TypeOK, OwnState
<1>2. DecodedHost(arg[1]) = arg[1] /\ DecodedPort(arg[2]) = MeantPort(arg[2])
  BY PortAssumption, StoredIsMeant
<1>3. x \in Session /\ x.rndir = clients[s].rndir
  BY <1>1 DEF Session, Address
<1>4. clients' = [clients EXCEPT ![s] = x] /\ own' = [own EXCEPT ![s] = x]
  BY <1>1, <1>2 DEF Port
<1> HIDE DEF x
<1> QED
  BY <1>1, <1>3, <1>4, SessionInv DEF Port

-----------------------------------------------------------------------------
(* Commands that act on the tree *)
LEMMA MakeInv ==
  ASSUME Inv, NEW s \in Slot, NEW a \in Arg, NEW kind \in {"dir", "file"}, Make(s, a, kind)
  PROVE  Inv'
<1> DEFINE p == ResolvedAt(clients[s].dir, a)
           o == [kind |-> kind, id |-> objects + 1]
<1> USE DEF Inv
<1>1. tree \in [Path -> Object] /\ objects \in 0..MaxObjects /\ objects < MaxObjects
  BY DEF Make, Create, TypeOK
<1>2. p \in Path /\ tree[p].kind = "none"
  BY DEF Make, Creatable, Exists, Serve, InBounds
<1>3. tree' = [tree EXCEPT ![p] = o] /\ objects' = objects + 1
  BY DEF Make, Create
<1>4. objects + 1 \in 0..MaxObjects
  BY <1>1, ObjectAssumption
<1>5. o \in Object /\ o.kind # "none"
  BY <1>4 DEF Object
<1>6. tree[p].id = 0
  BY <1>2 DEF NothingHasNoId
<1> HIDE DEF o, p
<1>7. TypeOK'
  BY <1>1, <1>3, <1>4, <1>5 DEF Make, TypeOK
<1>8. NothingHasNoId'
  BY <1>1, <1>3, <1>5 DEF NothingHasNoId
<1>9. FoundThere'
  BY <1>1, <1>3, <1>6 DEF Make, FoundThere
<1> QED
  BY <1>7, <1>8, <1>9 DEF Make, OwnState, FreeZeroed

(* What becomes of the RNFRs when names are removed or renamed. *)
LEMMA StillType ==
  ASSUME Inv, NEW u \in Slot PROVE StillThere(u) \in 0..MaxObjects
BY ObjectAssumption DEF Inv, TypeOK, StillThere

LEMMA StillFound ==
  ASSUME Inv, UNCHANGED clients, found' = [u \in Slot |-> StillThere(u)]
  PROVE  FoundThere'
<1> SUFFICES ASSUME NEW u \in Slot, found'[u] # 0
             PROVE  clients[u].rndir \in Path /\ tree'[clients[u].rndir].id = found'[u]
  BY DEF FoundThere
<1>1. found'[u] = found[u] /\ Places(tree', found[u]) = Places(tree, found[u])
  BY DEF StillThere
<1>2. clients[u].rndir \in Places(tree, found[u])
  BY <1>1 DEF Inv, FoundThere, Places
<1> QED
  BY <1>1, <1>2 DEF Places

LEMMA RmdInv ==
  ASSUME Inv, NEW s \in Slot, NEW a \in Arg, Rmd(s, a)
  PROVE  Inv'
<1> USE DEF Inv
<1>1. PICK p : tree' = [tree EXCEPT ![p] = Nothing]
  BY DEF Rmd
<1>2. tree \in [Path -> Object]
  BY DEF TypeOK
<1>3. tree' \in [Path -> Object]
  BY <1>1, <1>2, TreeType
<1>4. found' = [u \in Slot |-> StillThere(u)]
  BY DEF Rmd
<1>5. TypeOK'
  BY <1>3, <1>4, StillType DEF Rmd, TypeOK
<1>6. NothingHasNoId'
  BY <1>1, <1>2 DEF NothingHasNoId, Nothing
<1>7. FoundThere'
  BY <1>4, StillFound DEF Rmd
<1> QED
  BY <1>5, <1>6, <1>7 DEF Rmd, OwnState, FreeZeroed

LEMMA RnfrInv ==
  ASSUME Inv, NEW s \in Slot, NEW a \in Arg, Rnfr(s, a)
  PROVE  Inv'
<1> DEFINE p == ResolvedAt(clients[s].dir, a)
           x == [clients[s] EXCEPT !.rndir = p]
<1> USE DEF Inv
<1>1. Meant(s, a) = p
  BY MeantIsResolved
<1>2. s \in live /\ clients \in [Slot -> Session] /\ clients = own
  BY DEF Rnfr, Serve, TypeOK, OwnState
<1>3. found \in [Slot -> 0..MaxObjects]
  BY DEF TypeOK
<1>4. CASE ~ Exists(p)
  <2>1. UNCHANGED vars
    BY <1>4 DEF Rnfr, RnfrKeeps, vars
  <2> QED
    BY <2>1 DEF TypeOK, OwnState, FreeZeroed, NothingHasNoId, FoundThere, vars
<1>5. CASE Exists(p)
  <2>1. p \in Path
    BY <1>5 DEF Rnfr, Serve, InBounds, Exists
  <2>2. x \in Session /\ x.rndir = p
    BY <1>2, <2>1 DEF Session
  <2>3. clients' = [clients EXCEPT ![s] = x] /\ own' = [own EXCEPT ![s] = x]
    BY <1>1, <1>2, <1>5 DEF Rnfr, RnfrKeeps
  <2>4. found' = [found EXCEPT ![s] = tree[p].id] /\ tree[p].id \in 0..MaxObjects
    BY <1>1, <1>5, <2>1, TreeType DEF Rnfr
  <2> HIDE DEF p, x
  <2>5. TypeOK'
    BY <2>2, <2>3, <2>4 DEF Rnfr, TypeOK
  <2>6. OwnState'
    BY <1>2, <2>3 DEF OwnState
  <2>7. FreeZeroed'
    BY <1>2, <2>3 DEF Rnfr, FreeZeroed
  <2>8. FoundThere'
    BY <1>2, <1>3, <2>1, <2>2, <2>3, <2>4 DEF Rnfr, FoundThere
  <2> QED
    BY <2>5, <2>6, <2>7, <2>8 DEF Rnfr, NothingHasNoId
<1> QED
  BY <1>4, <1>5

LEMMA RntoInv ==
  ASSUME Inv, NEW s \in Slot, NEW a \in Arg, Rnto(s, a)
  PROVE  Inv'
<1> USE DEF Inv
<1>1. PICK old, new : tree' = Renamed(old, new)
  BY DEF Rnto
<1>2. found' = [u \in Slot |-> StillThere(u)]
  BY DEF Rnto
<1>3. TypeOK'
  BY <1>1, <1>2, RenamedType, StillType DEF Rnto, TypeOK
<1>4. NothingHasNoId'
  BY <1>1, RenamedNothing DEF NothingHasNoId
<1>5. FoundThere'
  BY <1>2, StillFound DEF Rnto
<1> QED
  BY <1>3, <1>4, <1>5 DEF Rnto, OwnState, FreeZeroed

LEMMA NextInv == Inv /\ [Next]_vars => Inv'
<1> SUFFICES ASSUME Inv, [Next]_vars PROVE Inv'
  OBVIOUS
<1>1. CASE UNCHANGED vars
  BY <1>1 DEF Inv, TypeOK, OwnState, FreeZeroed, NothingHasNoId, FoundThere, vars
<1>2. ASSUME NEW s \in Slot, Accept(s) \/ Disconnect(s) PROVE Inv'
  BY <1>2, AcceptInv, DisconnectInv
<1>3. ASSUME NEW s \in Slot, NEW a \in Arg, Cwd(s, a) \/ Rmd(s, a) \/ Rnfr(s, a) \/ Rnto(s, a)
      PROVE  Inv'
  BY <1>3, CwdInv, RmdInv, RnfrInv, RntoInv
<1>4. ASSUME NEW s \in Slot, NEW a \in Arg, NEW kind \in {"dir", "file"}, Make(s, a, kind)
      PROVE  Inv'
  BY <1>4, MakeInv
<1>5. ASSUME NEW s \in Slot, NEW t \in {BINARY, ASCII}, Type(s, t) PROVE Inv'
  BY <1>5, TypeInv
<1>6. ASSUME NEW s \in Slot, NEW arg \in PortArg, Port(s, arg) PROVE Inv'
  BY <1>6, PortInv
<1> QED
  BY <1>1, <1>2, <1>3, <1>4, <1>5, <1>6 DEF Next

THEOREM AlwaysInv == Spec => []Inv
<1>1. Init => Inv
  BY InitInv
<1>2. Inv /\ [Next]_vars => Inv'
  BY NextInv
<1> QED
  BY <1>1, <1>2, PTL DEF Spec

(* The session's fields and the tree keep their types.                      *)
THEOREM TypeCorrect == Spec => []TypeOK
<1>1. Inv => TypeOK
  BY DEF Inv
<1> QED
  BY <1>1, AlwaysInv, PTL

(* A session's directory, RNFR path, TYPE and data address are what its own *)
(* accepted commands made them: memset() at the end of a session clears all *)
(* that accept() does not set, and port() stores what the client meant.     *)
THEOREM StateStaysOwn == Spec => []OwnState
<1>1. Inv => OwnState
  BY DEF Inv
<1> QED
  BY <1>1, AlwaysInv, PTL

(* rnto() renames what is at the path of the session's last accepted RNFR,  *)
(* whatever all sessions did since; and that is the object RNFR found,      *)
(* unless somebody moved or removed this one: renames, removals and new     *)
(* names elsewhere do not matter.                                           *)
THEOREM RenameHitsFound == Spec => RenamesFound
<1>1. ASSUME Inv, NEW s \in Slot, NEW a \in Arg, Rnto(s, a)
      PROVE  /\ own[s].rndir # NoPath
             /\ tree'[Meant(s, a)] = tree[own[s].rndir]
             /\ found[s] # 0 => tree'[Meant(s, a)].id = found[s]
  <2> DEFINE old == clients[s].rndir
             new == ResolvedAt(clients[s].dir, a)
  <2>1. Meant(s, a) = new /\ own[s].rndir = old
    BY <1>1, MeantIsResolved DEF Inv, OwnState
  <2>2. found[s] # 0 => tree[old].id = found[s]
    BY <1>1 DEF Inv, FoundThere
  <2>3. new \in Path /\ new # Root /\ old \in Path /\ old # Root /\ old # NoPath
    BY <1>1 DEF Rnto, Serve, InBounds, Renamable, Exists, Inv, TypeOK, Session
  <2>4. tree' = Renamed(old, new)
    BY <1>1 DEF Rnto
  <2> HIDE DEF old, new
  <2>5. tree'[new] = tree[old]
    BY <2>3, <2>4, RenamedAt
  <2> QED
    BY <2>1, <2>2, <2>3, <2>5
<1>2. Inv => (\A s \in Slot, a \in Arg :
                Rnto(s, a) => /\ own[s].rndir # NoPath
                              /\ tree'[Meant(s, a)] = tree[own[s].rndir]
                              /\ found[s] # 0 => tree'[Meant(s, a)].id = found[s])
  BY <1>1
<1> QED
  BY <1>2, AlwaysInv, PTL DEF RenamesFound
=============================================================================
