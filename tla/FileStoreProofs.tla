-------------------------- MODULE FileStoreProofs --------------------------
(***************************************************************************)
(* Proofs about FileStore, for every number of files, threads, uploads and *)
(* chunks and every size of stdio's buffer: its type invariant and the     *)
(* safety properties FileStore.cfg checks, and that the files which the    *)
(* clients keep to one transfer at a time implement WholeFiles.            *)
(*                                                                         *)
(* The inductive invariant follows the bytes: what a FILE holds back       *)
(* continues, at its offset, what it has written (Buffered); a Kept file   *)
(* with an open upload is the part of it that has been written, and nobody *)
(* else uses it (Alone, Uploaded); a download of a Kept file has got the   *)
(* file up to its offset (Followed).                                       *)
(***************************************************************************)
EXTENDS FileStore, FiniteSetTheorems, TLAPS

-----------------------------------------------------------------------------
(* Sequences of chunks *)

LEMMA PieceFacts ==
  ASSUME NEW n \in Nat, NEW p \in Pieces(n)
  PROVE  /\ Len(p) \in 0..n
         /\ p \in [1..Len(p) -> Chunk]
         /\ p \in Seq(Chunk)
<1>1. PICK k \in 0..n : p \in [1..k -> Chunk]
  BY DEF Pieces
<1>2. p \in Seq(Chunk) /\ Len(p) = k
  BY <1>1
<1>3. QED
  BY <1>1, <1>2

LEMMA PieceMade ==
  ASSUME NEW n \in Nat, NEW k \in 0..n, NEW p \in [1..k -> Chunk]
  PROVE  p \in Pieces(n) /\ Len(p) = k
<1>1. p \in Pieces(n)
  BY DEF Pieces
<1>2. p \in Seq(Chunk) /\ Len(p) = k
  OBVIOUS
<1>3. QED
  BY <1>1, <1>2

LEMMA NoPiece ==
  ASSUME NEW n \in Nat
  PROVE  <<>> \in Pieces(n) /\ Len(<<>>) = 0
<1>1. <<>> \in [1..0 -> Chunk] /\ 0 \in 0..n
  OBVIOUS
<1>2. QED
  BY <1>1, PieceMade

LEMMA PieceLonger ==
  ASSUME NEW n \in Nat, NEW p \in Pieces(n), Len(p) < n, NEW c \in Chunk
  PROVE  /\ Append(p, c) \in Pieces(n)
         /\ Len(Append(p, c)) = Len(p) + 1
         /\ Append(p, c)[Len(p) + 1] = c
         /\ \A i \in 1..Len(p) : Append(p, c)[i] = p[i]
<1> DEFINE q == Append(p, c)
           k == Len(p) + 1
<1>1. p \in Seq(Chunk) /\ Len(p) \in 0..n
  BY PieceFacts
<1>2. /\ q \in Seq(Chunk) /\ Len(q) = k
      /\ q[k] = c
      /\ \A i \in 1..Len(p) : q[i] = p[i]
  BY <1>1
<1>3. k \in 0..n
  BY <1>1
<1> HIDE DEF q, k
<1>4. q \in [1..k -> Chunk]
  BY <1>2
<1>5. q \in Pieces(n)
  BY <1>3, <1>4, PieceMade
<1>6. QED
  BY <1>2, <1>5 DEF q, k

LEMMA OnePiece ==
  ASSUME NEW n \in Nat \ {0}, NEW c \in Chunk
  PROVE  <<c>> \in Pieces(n) /\ Len(<<c>>) = 1 /\ <<c>>[1] = c
<1>1. <<c>> \in [1..1 -> Chunk] /\ <<c>>[1] = c /\ 1 \in 0..n
  OBVIOUS
<1>2. QED
  BY <1>1, PieceMade

LEMMA UploadPiece ==
  ASSUME NEW u \in 1..MaxUploads, NEW n \in 0..MaxChunks
  PROVE  /\ Upload(u, n) \in Pieces(MaxChunks)
         /\ Len(Upload(u, n)) = n
         /\ \A i \in 1..n : Upload(u, n)[i] = <<u, i>> /\ <<u, i>> # Hole
<1>1. MaxChunks \in Nat /\ MaxUploads \in Nat
  BY StoreBounds
<1>2. \A i \in 1..n : <<u, i>> \in Chunk
  BY <1>1 DEF Chunk
<1>3. Upload(u, n) \in [1..n -> Chunk]
  BY <1>2 DEF Upload
<1>4. \A i \in 1..n : Upload(u, n)[i] = <<u, i>> /\ <<u, i>> # Hole
  BY <1>1 DEF Upload, Hole
<1>5. QED
  BY <1>1, <1>3, <1>4, PieceMade

LEMMA SamePieces ==
  ASSUME NEW n \in Nat, NEW p \in Pieces(n), NEW q \in Pieces(n),
         Len(p) = Len(q), \A i \in 1..Len(q) : p[i] = q[i]
  PROVE  p = q
<1>1. p \in [1..Len(q) -> Chunk] /\ q \in [1..Len(q) -> Chunk]
  BY PieceFacts
<1>2. QED
  BY <1>1

(* Where write() leaves a file that it began to write at off *)
LEMMA WrittenFacts ==
  ASSUME NEW old \in Pieces(MaxChunks), NEW off \in Nat,
         NEW m \in Nat, NEW data \in Pieces(m), off + Len(data) <= MaxChunks
  PROVE  /\ Written(old, off, data) \in Pieces(MaxChunks)
         /\ Len(Written(old, off, data)) >= Len(old)
         /\ \A i \in 1..Len(Written(old, off, data)) :
              \/ /\ i - off \in 1..Len(data)
                 /\ Written(old, off, data)[i] = data[i - off]
              \/ /\ i \in 1..Len(old)
                 /\ Written(old, off, data)[i] = old[i]
              \/ Written(old, off, data)[i] = Hole
<1> DEFINE new == Written(old, off, data)
           end == off + Len(data)
           k   == IF end > Len(old) THEN end ELSE Len(old)
<1>1. /\ MaxChunks \in Nat
      /\ Len(old) \in 0..MaxChunks /\ old \in [1..Len(old) -> Chunk]
      /\ Len(data) \in Nat /\ data \in [1..Len(data) -> Chunk]
  BY StoreBounds, PieceFacts
<1>2. CASE data = <<>>
  <2>1. new = old
    BY <1>2 DEF Written
  <2>2. QED
    BY <1>1, <2>1
<1>3. CASE data # <<>>
  <2>1. new = [i \in 1..k |-> IF i > off /\ i <= end THEN data[i - off]
                              ELSE IF i <= Len(old) THEN old[i] ELSE Hole]
    BY <1>3 DEF Written
  <2>2. k \in 0..MaxChunks /\ k >= Len(old)
    BY <1>1
  <2>3. \A i \in 1..k : new[i] = IF i > off /\ i <= end THEN data[i - off]
                                 ELSE IF i <= Len(old) THEN old[i] ELSE Hole
    BY <2>1
  <2>4. Hole \in Chunk
    BY DEF Chunk
  <2>5. ASSUME NEW i \in 1..k
        PROVE  /\ \/ i - off \in 1..Len(data) /\ new[i] = data[i - off]
                  \/ i \in 1..Len(old) /\ new[i] = old[i]
                  \/ new[i] = Hole
               /\ new[i] \in Chunk
    <3>1. CASE i > off /\ i <= end
      <4>1. i - off \in 1..Len(data) /\ new[i] = data[i - off]
        BY <1>1, <2>2, <2>3, <3>1
      <4>2. QED
        BY <1>1, <4>1
    <3>2. CASE ~ (i > off /\ i <= end) /\ i <= Len(old)
      <4>1. i \in 1..Len(old) /\ new[i] = old[i]
        BY <1>1, <2>2, <2>3, <3>2
      <4>2. QED
        BY <1>1, <4>1
    <3>3. CASE ~ (i > off /\ i <= end) /\ ~ (i <= Len(old))
      BY <2>3, <2>4, <3>3
    <3>4. QED
      BY <3>1, <3>2, <3>3
  <2>6. new \in [1..k -> Chunk]
    BY <2>1, <2>5
  <2> HIDE DEF new, k
  <2>7. new \in Pieces(MaxChunks) /\ Len(new) = k
    BY <1>1, <2>2, <2>6, PieceMade
  <2>8. QED
    BY <2>2, <2>5, <2>7 DEF new
<1>4. QED
  BY <1>2, <1>3

(* A part of an upload that is written where the upload stands continues it. *)
LEMMA WrittenUpload ==
  ASSUME NEW u \in 1..MaxUploads, NEW off \in 0..MaxChunks,
         NEW m \in Nat, NEW data \in Pieces(m), off + Len(data) <= MaxChunks,
         \A i \in 1..Len(data) : data[i] = <<u, off + i>>
  PROVE  Written(Upload(u, off), off, data) = Upload(u, off + Len(data))
<1> DEFINE old == Upload(u, off)
           new == Written(old, off, data)
           end == off + Len(data)
<1>1. /\ MaxChunks \in Nat
      /\ Len(data) \in Nat /\ data \in [1..Len(data) -> Chunk]
  BY StoreBounds, PieceFacts
<1>2. Len(old) = off /\ \A i \in 1..off : old[i] = <<u, i>>
  BY UploadPiece
<1>3. CASE data = <<>>
  <2>1. Len(data) = 0
    BY <1>3
  <2>2. new = old
    BY <1>3 DEF Written
  <2>3. QED
    BY <2>1, <2>2
<1>4. CASE data # <<>>
  <2>1. new = [i \in 1..(IF end > off THEN end ELSE off) |->
                 IF i > off /\ i <= end THEN data[i - off]
                 ELSE IF i <= off THEN old[i] ELSE Hole]
    BY <1>2, <1>4 DEF Written
  <2>2. (IF end > off THEN end ELSE off) = end
    BY <1>1
  <2>3. new = [i \in 1..end |-> IF i > off /\ i <= end THEN data[i - off]
                                ELSE IF i <= off THEN old[i] ELSE Hole]
    BY <2>1, <2>2
  <2>4. ASSUME NEW i \in 1..end
        PROVE  (IF i > off /\ i <= end THEN data[i - off]
                ELSE IF i <= off THEN old[i] ELSE Hole) = <<u, i>>
    <3>1. CASE i > off
      <4>1. i - off \in 1..Len(data) /\ off + (i - off) = i
        BY <1>1, <3>1
      <4>2. data[i - off] = <<u, off + (i - off)>>
        BY <4>1
      <4>3. QED
        BY <3>1, <4>1, <4>2
    <3>2. CASE ~ (i > off)
      BY <1>1, <1>2, <3>2
    <3>3. QED
      BY <3>1, <3>2
  <2>5. new = [i \in 1..end |-> <<u, i>>]
    BY <2>3, <2>4
  <2>6. QED
    BY <2>5 DEF Upload
<1>5. QED
  BY <1>3, <1>4

-----------------------------------------------------------------------------
(* The inductive invariant *)

InUse(x) == x.pc \notin {"idle", "dead"}

(* What a FILE holds back goes where its offset is; a receiver has written  *)
(* or holds back all it has read; a sender has sent what it has read.       *)
Buffered(x) ==
  /\ x.kind = "recv" =>
       /\ x.up \in 1..MaxUploads
       /\ x.off + Len(x.buf) = x.read /\ x.read <= x.total
       /\ x.pc \in {"report", "close"} => x.read = x.total
       /\ \A i \in 1..Len(x.buf) : x.buf[i] = <<x.up, x.off + i>>
  /\ x.kind = "send" => x.buf = <<>> /\ Len(x.sent) = x.off
  /\ x.pc \in {"idle", "open"} => x.kind = "send" /\ x.off = 0
  /\ InPlace(x.sent)

(* What a thread x that uses a Kept file says of its content *)
Uploaded(x, data) == x.kind = "recv" => data = Upload(x.up, x.off)
Followed(x, data) ==
  x.kind = "send" =>
    /\ x.off <= Len(data)
    /\ \A i \in 1..x.off : x.sent[i] = data[i]
    /\ x.pc # "open" => x.size = Len(data)
    /\ x.pc \in {"report", "close"} => x.off = Len(data)

AllBuffered == \A t \in Tid : Buffered(thread[t])

AllFollowed ==
  \A t \in Tid : LET x == thread[t]
                 IN InUse(x) /\ x.file \in Kept =>
                      Uploaded(x, content[x.file]) /\ Followed(x, content[x.file])

Alone ==
  \A t, u \in Tid :
    /\ InUse(thread[t]) /\ thread[t].kind = "recv"
    /\ InUse(thread[u]) /\ thread[u].file = thread[t].file
    /\ thread[t].file \in Kept
    => t = u

Solid(data) == \A i \in 1..Len(data) : data[i] # Hole

NoHoles == \A f \in Kept : Solid(content[f])

FewBroken == \A f \in Kept : IsFiniteSet(BrokeOff(f))

(* During LIST files only grow, and no size it has measured is above max. *)
Measured ==
  list.pc # "none" =>
    \A f \in File : /\ SizeOf(f) >= list.seen[f]
                    /\ ToInt(Bytes(list.seen[f])) <= list.max

StoreInv == /\ TypeOK
            /\ AllBuffered
            /\ \A f \in File : InPlace(content[f])
            /\ AllFollowed
            /\ Alone
            /\ NoHoles
            /\ FewBroken
            /\ Measured

LEMMA ChunkFacts ==
  /\ MaxChunks \in Nat /\ MaxUploads \in Nat /\ BufSize \in Nat \ {0}
  /\ Hole \in Chunk
  /\ \A u \in 1..MaxUploads, i \in 1..MaxChunks : <<u, i>> \in Chunk
BY StoreBounds DEF Chunk

LEMMA IdleFacts ==
  /\ NoFile \in File
  /\ Idle \in Thread
  /\ Buffered(Idle)
  /\ ~ InUse(Idle)
<1>1. NoFile \in File
  BY FileAssumption DEF NoFile
<1>2. <<>> \in Pieces(BufSize) /\ <<>> \in Pieces(MaxChunks) /\ Len(<<>>) = 0
  BY StoreBounds, NoPiece
<1>3. 0 \in 0..MaxChunks /\ 0 \in 0..MaxUploads
  BY StoreBounds
<1>4. Idle \in Thread
  BY <1>1, <1>2, <1>3 DEF Idle, Thread
<1>5. Buffered(Idle)
  BY <1>2 DEF Idle, Buffered, InPlace
<1>6. ~ InUse(Idle)
  BY DEF Idle, InUse
<1>7. QED
  BY <1>1, <1>4, <1>5, <1>6

LEMMA IdleFields ==
  /\ Idle.pc = "idle" /\ Idle.kind = "send" /\ Idle.off = 0 /\ Idle.read = 0
  /\ Idle.buf = <<>> /\ Idle.sent = <<>>
BY DEF Idle

LEMMA IntFacts ==
  ASSUME NEW n \in Nat
  PROVE  /\ Bytes(n) \in Nat
         /\ ToInt(Bytes(n)) \in Int
         /\ ToInt(Bytes(n)) <= IntRange \div 2
         /\ Bytes(n) < IntRange \div 2 => ToInt(Bytes(n)) = Bytes(n)
         /\ Bytes(0) = 0 /\ ToInt(Bytes(0)) <= 0
         /\ IntRange \div 2 \in Nat
<1>1. /\ ChunkBytes \in Nat /\ IntRange \in Nat \ {0}
      /\ IntRange \div 2 \in Nat /\ IntRange \div 2 <= IntRange
  BY StoreBounds
<1>2. Bytes(n) \in Nat /\ Bytes(0) = 0
  BY <1>1 DEF Bytes
<1>3. ASSUME NEW b \in Nat
      PROVE  /\ ToInt(b) \in Int /\ ToInt(b) <= IntRange \div 2
             /\ b < IntRange \div 2 => ToInt(b) = b
  <2>1. b % IntRange \in 0..(IntRange - 1)
    BY <1>1
  <2>2. b < IntRange => b % IntRange = b
    BY <1>1
  <2>3. QED
    BY <1>1, <2>1, <2>2 DEF ToInt
<1>4. 0 % IntRange = 0
  BY <1>1
<1>5. ToInt(0) <= 0
  BY <1>1, <1>4 DEF ToInt
<1>6. QED
  BY <1>1, <1>2, <1>3, <1>5

LEMMA StoreInit == Init => StoreInv
<1> SUFFICES ASSUME Init PROVE StoreInv
  OBVIOUS
<1>1. /\ MaxChunks \in Nat
      /\ <<>> \in Pieces(MaxChunks) /\ Len(<<>>) = 0
  BY StoreBounds, NoPiece
<1>2. /\ \A f \in File : content[f] = <<>>
      /\ \A t \in Tid : thread[t] = Idle
      /\ list.pc = "none"
      /\ Kept \subseteq File
  BY FileAssumption DEF Init, NotListing
<1>3. TypeOK
  <2>1. content \in [File -> Pieces(MaxChunks)]
    BY <1>1 DEF Init
  <2>2. thread \in [Tid -> Thread]
    BY IdleFacts DEF Init
  <2>3. list \in [pc : {"none", "measure", "print"}, todo : SUBSET File,
                  max : 0..(IntRange \div 2), seen : [File -> 0..MaxChunks]]
    <3>1. 0 \in 0..(IntRange \div 2) /\ 0 \in 0..MaxChunks
      BY <1>1, IntFacts
    <3>2. QED
      BY <3>1 DEF Init, NotListing
  <2>4. present \subseteq File /\ uploads \in 0..MaxUploads
    BY FileAssumption, StoreBounds DEF Init
  <2>5. QED
    BY <2>1, <2>2, <2>3, <2>4 DEF TypeOK
<1>4. AllBuffered /\ AllFollowed /\ Alone
  BY <1>2, IdleFacts DEF AllBuffered, AllFollowed, Alone
<1>5. (\A f \in File : InPlace(content[f])) /\ NoHoles
  BY <1>1, <1>2 DEF InPlace, NoHoles, Solid
<1>6. FewBroken
  <2>1. ASSUME NEW f \in Kept PROVE BrokeOff(f) = {}
    BY <1>2 DEF BrokeOff, Idle
  <2>2. QED
    BY <2>1, FS_EmptySet DEF FewBroken
<1>7. Measured
  BY <1>2 DEF Measured
<1>8. QED
  BY <1>3, <1>4, <1>5, <1>6, <1>7 DEF StoreInv

-----------------------------------------------------------------------------
(* Steps. Thread t becomes y and file f gets the content d. *)

Becomes(t, y) == thread' = [thread EXCEPT ![t] = y]
Gets(f, d) == content' = [content EXCEPT ![f] = d]

LEMMA Effect ==
  ASSUME TypeOK, NEW t \in Tid, NEW y \in Thread, Becomes(t, y),
         NEW f \in File, NEW d \in Pieces(MaxChunks), Gets(f, d)
  PROVE  /\ thread' \in [Tid -> Thread]
         /\ thread'[t] = y
         /\ \A u \in Tid \ {t} : thread'[u] = thread[u]
         /\ content' \in [File -> Pieces(MaxChunks)]
         /\ content'[f] = d
         /\ \A g \in File \ {f} : content'[g] = content[g]
BY DEF TypeOK, Becomes, Gets

LEMMA FewStay ==
  ASSUME FewBroken, NEW t \in Tid, \A u \in Tid \ {t} : thread'[u] = thread[u]
  PROVE  FewBroken'
<1> SUFFICES ASSUME NEW f \in Kept PROVE IsFiniteSet(BrokeOff(f)')
  BY DEF FewBroken
<1> DEFINE B == BrokeOff(f)
           C == BrokeOff(f)'
<1>1. IsFiniteSet(B)
  BY DEF FewBroken
<1>2. C \subseteq B \cup {t}
  BY DEF BrokeOff
<1> HIDE DEF B, C
<1>3. IsFiniteSet(B \cup {t})
  BY <1>1, FS_AddElement
<1>4. C \in SUBSET (B \cup {t})
  BY <1>2
<1>5. IsFiniteSet(C)
  BY <1>3, <1>4, FS_Subset
<1>6. QED
  BY <1>5 DEF C

(* What a step has to respect for the invariant to survive it: about the    *)
(* thread itself, the file's new content, and the others that use the file. *)
LEMMA Respectful ==
  ASSUME StoreInv,
         NEW t \in Tid, NEW y \in Thread, Becomes(t, y),
         NEW f \in File, NEW d \in Pieces(MaxChunks), Gets(f, d),
         Buffered(y), InPlace(d), f \in Kept => Solid(d),
         InUse(y) /\ y.file \in Kept =>
           /\ Uploaded(y, content'[y.file]) /\ Followed(y, content'[y.file])
           /\ \A u \in Tid \ {t} :
                InUse(thread[u]) /\ thread[u].file = y.file =>
                  y.kind = "send" /\ thread[u].kind = "send",
         \A u \in Tid \ {t} :
           InUse(thread[u]) /\ thread[u].file = f /\ f \in Kept => d = content[f],
         list.pc = "none" \/ Len(d) >= Len(content[f]),
         present' \subseteq File, uploads' \in 0..MaxUploads, UNCHANGED list
  PROVE  StoreInv'
<1>1. /\ thread' \in [Tid -> Thread]
      /\ thread'[t] = y
      /\ \A u \in Tid \ {t} : thread'[u] = thread[u]
      /\ content' \in [File -> Pieces(MaxChunks)]
      /\ content'[f] = d
      /\ \A g \in File \ {f} : content'[g] = content[g]
  BY Effect DEF StoreInv
<1>2. Kept \subseteq File
  BY FileAssumption
<1>3. TypeOK'
  BY <1>1 DEF StoreInv, TypeOK
<1>4. AllBuffered'
  BY <1>1 DEF StoreInv, AllBuffered
<1>5. \A g \in File : InPlace(content'[g])
  BY <1>1 DEF StoreInv
<1>6. AllFollowed'
  <2> SUFFICES ASSUME NEW u \in Tid, InUse(thread'[u]), thread'[u].file \in Kept
               PROVE  /\ Uploaded(thread'[u], content'[thread'[u].file])
                      /\ Followed(thread'[u], content'[thread'[u].file])
    BY DEF AllFollowed
  <2>1. CASE u = t
    BY <1>1, <2>1
  <2>2. CASE u # t
    <3>1. thread'[u] = thread[u]
      BY <1>1, <2>2
    <3>2. content'[thread[u].file] = content[thread[u].file]
      BY <1>1, <1>2, <2>2, <3>1
    <3>3. /\ Uploaded(thread[u], content[thread[u].file])
          /\ Followed(thread[u], content[thread[u].file])
      BY <3>1 DEF StoreInv, AllFollowed
    <3>4. QED
      BY <3>1, <3>2, <3>3
  <2>3. QED
    BY <2>1, <2>2
<1>7. Alone'
  <2> SUFFICES ASSUME NEW v \in Tid, NEW u \in Tid, v # u,
                      InUse(thread'[v]), thread'[v].kind = "recv",
                      InUse(thread'[u]), thread'[u].file = thread'[v].file,
                      thread'[v].file \in Kept
               PROVE  FALSE
    BY DEF Alone
  <2>1. CASE v = t
    BY <1>1, <2>1
  <2>2. CASE u = t
    BY <1>1, <2>2
  <2>3. CASE v # t /\ u # t
    BY <1>1, <2>3 DEF StoreInv, Alone
  <2>4. QED
    BY <2>1, <2>2, <2>3
<1>8. NoHoles'
  BY <1>1, <1>2 DEF StoreInv, NoHoles
<1>9. FewBroken'
  BY <1>1, FewStay DEF StoreInv
<1>10. Measured'
  <2> SUFFICES ASSUME list.pc # "none", NEW g \in File
               PROVE  /\ Len(content'[g]) >= list.seen[g]
                      /\ ToInt(Bytes(list.seen[g])) <= list.max
    BY DEF Measured, SizeOf
  <2>1. /\ Len(content[g]) >= list.seen[g]
        /\ ToInt(Bytes(list.seen[g])) <= list.max
    BY DEF StoreInv, Measured, SizeOf
  <2>2. Len(content'[g]) >= Len(content[g])
    <3>1. CASE g = f
      BY <1>1, <3>1
    <3>2. CASE g # f
      <4>1. content[g] \in Pieces(MaxChunks)
        BY DEF StoreInv, TypeOK
      <4>2. Len(content[g]) \in Nat
        BY <4>1, ChunkFacts, PieceFacts
      <4>3. QED
        BY <1>1, <3>2, <4>2
    <3>3. QED
      BY <3>1, <3>2
  <2>3. Len(content[g]) \in Nat /\ Len(content'[g]) \in Nat
    <3>1. content[g] \in Pieces(MaxChunks) /\ content'[g] \in Pieces(MaxChunks)
      BY <1>1 DEF StoreInv, TypeOK
    <3>2. QED
      BY <3>1, ChunkFacts, PieceFacts
  <2>4. list.seen[g] \in Nat
    BY ChunkFacts DEF StoreInv, TypeOK
  <2>5. QED
    BY <2>1, <2>2, <2>3, <2>4
<1>11. QED
  BY <1>3, <1>4, <1>5, <1>6, <1>7, <1>8, <1>9, <1>10 DEF StoreInv

(* A step that leaves every file alone *)
LEMMA Unwritten ==
  ASSUME StoreInv,
         NEW t \in Tid, NEW y \in Thread, Becomes(t, y), Buffered(y),
         InUse(y) /\ y.file \in Kept =>
           /\ Uploaded(y, content[y.file]) /\ Followed(y, content[y.file])
           /\ \A u \in Tid \ {t} :
                InUse(thread[u]) /\ thread[u].file = y.file =>
                  y.kind = "send" /\ thread[u].kind = "send",
         UNCHANGED <<content, present, uploads, list>>
  PROVE  StoreInv'
<1> DEFINE f == y.file
           d == content[y.file]
<1>1. f \in File /\ d \in Pieces(MaxChunks)
  BY DEF StoreInv, TypeOK, Thread
<1>2. Gets(f, d)
  BY DEF Gets, StoreInv, TypeOK
<1>3. /\ InPlace(d)
      /\ f \in Kept => Solid(d)
      /\ Len(d) \in Nat
      /\ present' \subseteq File /\ uploads' \in 0..MaxUploads
  BY <1>1, ChunkFacts, PieceFacts DEF StoreInv, NoHoles, TypeOK
<1>4. Len(d) >= Len(content[f])
  BY <1>3
<1> HIDE DEF f, d
<1>5. /\ content' = content
      /\ d = content[f] /\ f = y.file
  BY DEF d, f
<1>6. QED
  BY <1>1, <1>2, <1>3, <1>4, <1>5, Respectful

-----------------------------------------------------------------------------
(* Every action keeps the invariant. *)

LEMMA ThreadFacts ==
  ASSUME TypeOK, NEW t \in Tid
  PROVE  /\ thread[t] \in Thread
         /\ thread[t].file \in File
         /\ content[thread[t].file] \in Pieces(MaxChunks)
         /\ Len(content[thread[t].file]) \in 0..MaxChunks
         /\ thread[t].buf \in Pieces(BufSize) /\ Len(thread[t].buf) \in 0..BufSize
         /\ thread[t].sent \in Pieces(MaxChunks) /\ Len(thread[t].sent) \in 0..MaxChunks
<1>1. /\ thread[t] \in Thread
      /\ thread[t].file \in File
      /\ content[thread[t].file] \in Pieces(MaxChunks)
      /\ thread[t].buf \in Pieces(BufSize) /\ thread[t].sent \in Pieces(MaxChunks)
  BY DEF TypeOK, Thread
<1>2. QED
  BY <1>1, ChunkFacts, PieceFacts

(* Where nobody uses the file, nothing is asked of anybody. *)
LEMMA StorKeeps ==
  ASSUME StoreInv, NEW t \in Tid, NEW f \in File, NEW n \in 0..MaxChunks, Stor(t, f, n)
  PROVE  StoreInv'
<1> DEFINE y == [Idle EXCEPT !.pc = "loop", !.kind = "recv", !.file = f,
                             !.up = uploads + 1, !.total = n]
<1>1. /\ ~ MainBusy /\ uploads < MaxUploads
      /\ f \in Kept => ~ Uses(f, {"send", "recv"})
      /\ Gets(f, <<>>) /\ Becomes(t, y)
      /\ present' = present \cup {f} /\ uploads' = uploads + 1 /\ UNCHANGED list
  BY DEF Stor, Gets, Becomes
<1>2. <<>> \in Pieces(MaxChunks) /\ Len(<<>>) = 0
  BY ChunkFacts, NoPiece
<1>3. /\ uploads' \in 1..MaxUploads /\ present' \subseteq File
      /\ uploads + 1 \in 0..MaxUploads
  BY <1>1, ChunkFacts DEF StoreInv, TypeOK
<1>4. /\ y.pc = "loop" /\ y.kind = "recv" /\ y.file = f /\ y.off = 0
      /\ y.up = uploads' /\ y.total = n /\ y.read = 0 /\ y.buf = <<>> /\ y.sent = <<>>
  BY <1>1, IdleFields, IdleFacts DEF Thread
<1>5. y \in Thread
  BY <1>3, IdleFacts DEF Thread
<1> HIDE DEF y
<1>6. Buffered(y)
  BY <1>2, <1>3, <1>4, ChunkFacts DEF Buffered, InPlace
<1>7. InPlace(<<>>) /\ Solid(<<>>)
  BY <1>2 DEF InPlace, Solid
<1>8. Upload(y.up, y.off) = <<>>
  <2>1. Upload(y.up, 0) \in Pieces(MaxChunks) /\ Len(Upload(y.up, 0)) = 0
    BY <1>3, <1>4, ChunkFacts, UploadPiece
  <2>2. QED
    BY <2>1, <1>2, <1>4, ChunkFacts, SamePieces
<1>9. Uploaded(y, content'[y.file]) /\ Followed(y, content'[y.file])
  BY <1>1, <1>4, <1>8 DEF Uploaded, Followed, Gets, StoreInv, TypeOK
<1>10. ASSUME f \in Kept, NEW u \in Tid, InUse(thread[u]), thread[u].file = f
       PROVE  FALSE
  BY <1>1, <1>10 DEF Uses, InUse, StoreInv, TypeOK, Thread
<1>11. list.pc = "none"
  BY <1>1 DEF MainBusy
<1>12. uploads' \in 0..MaxUploads
  BY <1>3, ChunkFacts
<1>13. QED
  BY <1>1, <1>2, <1>3, <1>4, <1>5, <1>6, <1>7, <1>9, <1>10, <1>11, <1>12, Respectful

LEMMA RetrOpenKeeps ==
  ASSUME StoreInv, NEW t \in Tid, NEW f \in File, RetrOpen(t, f)
  PROVE  StoreInv'
<1> DEFINE y == [Idle EXCEPT !.pc = "open", !.file = f]
<1>1. /\ f \in Kept => ~ Uses(f, {"recv"})
      /\ Becomes(t, y)
      /\ UNCHANGED <<content, present, uploads, list>>
  BY DEF RetrOpen, Becomes
<1>2. /\ y.pc = "open" /\ y.kind = "send" /\ y.file = f /\ y.off = 0
      /\ y.buf = <<>> /\ y.sent = <<>>
  BY IdleFields, IdleFacts DEF Thread
<1>3. y \in Thread
  BY IdleFacts DEF Thread
<1> HIDE DEF y
<1>4. Len(<<>>) = 0 /\ Len(content[f]) \in Nat
  <2>1. content[f] \in Pieces(MaxChunks)
    BY DEF StoreInv, TypeOK
  <2>2. QED
    BY <2>1, ChunkFacts, PieceFacts
<1>5. Buffered(y)
  BY <1>2, <1>4 DEF Buffered, InPlace
<1>6. Uploaded(y, content[y.file]) /\ Followed(y, content[y.file])
  BY <1>2, <1>4 DEF Uploaded, Followed
<1>7. ASSUME f \in Kept, NEW u \in Tid, InUse(thread[u]), thread[u].file = f
      PROVE  thread[u].kind = "send"
  BY <1>1, <1>7 DEF Uses, InUse, StoreInv, TypeOK, Thread
<1>8. QED
  BY <1>1, <1>2, <1>3, <1>5, <1>6, <1>7, Unwritten

LEMMA RetrSizeKeeps ==
  ASSUME StoreInv, NEW t \in Tid, RetrSize(t)
  PROVE  StoreInv'
<1> DEFINE x == thread[t]
           y == [x EXCEPT !.pc = "loop", !.size = Len(content[x.file])]
<1>1. /\ x.pc = "open" /\ Becomes(t, y)
      /\ UNCHANGED <<content, present, uploads, list>>
  BY DEF RetrSize, SizeOf, Becomes, StoreInv, TypeOK
<1>2. x \in Thread /\ Len(content[x.file]) \in 0..MaxChunks
  BY ThreadFacts DEF StoreInv
<1>3. Buffered(x) /\ x.kind = "send" /\ x.off = 0
  BY <1>1 DEF StoreInv, AllBuffered, Buffered
<1>4. /\ y \in Thread
      /\ y.pc = "loop" /\ y.kind = "send" /\ y.file = x.file /\ y.off = 0
      /\ y.buf = x.buf /\ y.sent = x.sent /\ y.size = Len(content[x.file])
  BY <1>2, <1>3 DEF Thread
<1>5. \A u \in Tid \ {t} :
        InUse(x) /\ x.file \in Kept /\ InUse(thread[u]) /\ thread[u].file = x.file =>
          thread[u].kind = "send"
  BY DEF StoreInv, TypeOK, Thread, Alone
<1>6. InUse(x)
  BY <1>1 DEF InUse
<1> HIDE DEF x, y
<1>7. Buffered(y)
  BY <1>3, <1>4 DEF Buffered
<1>8. Uploaded(y, content[y.file]) /\ Followed(y, content[y.file])
  BY <1>2, <1>4 DEF Uploaded, Followed
<1>9. QED
  BY <1>1, <1>4, <1>5, <1>6, <1>7, <1>8, Unwritten

(* A thread's step that writes nothing and leaves its FILE where it was *)
LEMMA EndOfDataKeeps ==
  ASSUME StoreInv, NEW t \in Tid, EndOfData(t)
  PROVE  StoreInv'
<1> DEFINE x == thread[t]
           y == [x EXCEPT !.pc = "report"]
<1>1. /\ x.pc = "loop" /\ Becomes(t, y)
      /\ x.kind = "recv" => x.read = x.total
      /\ x.kind = "send" => x.off >= Len(content[x.file])
      /\ UNCHANGED <<content, present, uploads, list>>
  BY DEF EndOfData, SizeOf, Becomes, StoreInv, TypeOK
<1>2. x \in Thread /\ Len(content[x.file]) \in 0..MaxChunks
  BY ThreadFacts DEF StoreInv
<1>3. Buffered(x) /\ InUse(x)
  BY <1>1 DEF StoreInv, AllBuffered, InUse
<1>4. x.file \in Kept => Uploaded(x, content[x.file]) /\ Followed(x, content[x.file])
  BY <1>3 DEF StoreInv, AllFollowed
<1>5. \A u \in Tid \ {t} :
        x.file \in Kept /\ InUse(thread[u]) /\ thread[u].file = x.file =>
          x.kind = "send" /\ thread[u].kind = "send"
  BY <1>3 DEF StoreInv, TypeOK, Thread, Alone
<1>6. /\ y \in Thread
      /\ y.pc = "report" /\ y.kind = x.kind /\ y.file = x.file /\ y.off = x.off
      /\ y.buf = x.buf /\ y.sent = x.sent /\ y.size = x.size
      /\ y.up = x.up /\ y.total = x.total /\ y.read = x.read
  BY <1>2 DEF Thread
<1>7. x.off \in 0..MaxChunks
  BY <1>2 DEF Thread
<1> HIDE DEF x, y
<1>8. Buffered(y)
  BY <1>1, <1>3, <1>6 DEF Buffered
<1>9. y.file \in Kept => Uploaded(y, content[y.file]) /\ Followed(y, content[y.file])
  BY <1>1, <1>2, <1>4, <1>6, <1>7, ChunkFacts DEF Uploaded, Followed
<1>10. QED
  BY <1>1, <1>5, <1>6, <1>8, <1>9, Unwritten

LEMMA BreakKeeps ==
  ASSUME StoreInv, NEW t \in Tid, Break(t)
  PROVE  StoreInv'
<1> DEFINE x == thread[t]
           y == [x EXCEPT !.pc = "dead"]
<1>1. /\ x.pc = "loop" /\ Becomes(t, y)
      /\ UNCHANGED <<content, present, uploads, list>>
  BY DEF Break, Becomes, StoreInv, TypeOK
<1>2. x \in Thread
  BY ThreadFacts DEF StoreInv
<1>3. Buffered(x)
  BY DEF StoreInv, AllBuffered
<1>4. /\ y \in Thread
      /\ y.pc = "dead" /\ y.kind = x.kind /\ y.off = x.off
      /\ y.buf = x.buf /\ y.sent = x.sent
      /\ y.up = x.up /\ y.total = x.total /\ y.read = x.read
  BY <1>2 DEF Thread
<1> HIDE DEF x, y
<1>5. Buffered(y)
  BY <1>3, <1>4 DEF Buffered
<1>6. ~ InUse(y)
  BY <1>4 DEF InUse
<1>7. QED
  BY <1>1, <1>4, <1>5, <1>6, Unwritten

LEMMA ReportKeeps ==
  ASSUME StoreInv, NEW t \in Tid, Report(t)
  PROVE  StoreInv'
<1> DEFINE x == thread[t]
           y == [x EXCEPT !.pc = "close"]
<1>1. /\ x.pc = "report" /\ Becomes(t, y)
      /\ UNCHANGED <<content, present, uploads, list>>
  BY DEF Report, Becomes, StoreInv, TypeOK
<1>2. x \in Thread
  BY ThreadFacts DEF StoreInv
<1>3. Buffered(x) /\ InUse(x)
  BY <1>1 DEF StoreInv, AllBuffered, InUse
<1>4. x.file \in Kept => Uploaded(x, content[x.file]) /\ Followed(x, content[x.file])
  BY <1>3 DEF StoreInv, AllFollowed
<1>5. \A u \in Tid \ {t} :
        x.file \in Kept /\ InUse(thread[u]) /\ thread[u].file = x.file =>
          x.kind = "send" /\ thread[u].kind = "send"
  BY <1>3 DEF StoreInv, TypeOK, Thread, Alone
<1>6. /\ y \in Thread
      /\ y.pc = "close" /\ y.kind = x.kind /\ y.file = x.file /\ y.off = x.off
      /\ y.buf = x.buf /\ y.sent = x.sent /\ y.size = x.size
      /\ y.up = x.up /\ y.total = x.total /\ y.read = x.read
  BY <1>2 DEF Thread
<1> HIDE DEF x, y
<1>7. Buffered(y)
  BY <1>1, <1>3, <1>6 DEF Buffered
<1>8. y.file \in Kept => Uploaded(y, content[y.file]) /\ Followed(y, content[y.file])
  BY <1>1, <1>4, <1>6 DEF Uploaded, Followed
<1>9. QED
  BY <1>1, <1>5, <1>6, <1>7, <1>8, Unwritten

LEMMA SendKeeps ==
  ASSUME StoreInv, NEW t \in Tid, Send(t)
  PROVE  StoreInv'
<1> DEFINE x == thread[t]
           d == content[x.file]
           c == d[x.off + 1]
           y == [x EXCEPT !.sent = Append(x.sent, c), !.off = x.off + 1]
<1>1. /\ x.pc = "loop" /\ x.kind = "send" /\ x.off < Len(d) /\ Becomes(t, y)
      /\ UNCHANGED <<content, present, uploads, list>>
  BY DEF Send, SizeOf, Becomes, StoreInv, TypeOK
<1>2. /\ x \in Thread /\ d \in Pieces(MaxChunks)
      /\ x.sent \in Pieces(MaxChunks)
      /\ Len(d) \in 0..MaxChunks /\ x.off \in 0..MaxChunks /\ MaxChunks \in Nat
  BY ThreadFacts, ChunkFacts DEF StoreInv, Thread
<1>3. Buffered(x) /\ InUse(x)
  BY <1>1 DEF StoreInv, AllBuffered, InUse
<1>4. x.file \in Kept => Followed(x, d)
  BY <1>3 DEF StoreInv, AllFollowed
<1>5. \A u \in Tid \ {t} :
        x.file \in Kept /\ InUse(thread[u]) /\ thread[u].file = x.file =>
          thread[u].kind = "send"
  BY <1>3 DEF StoreInv, TypeOK, Thread, Alone
<1>6. /\ InPlace(d) /\ x.off + 1 \in 1..Len(d) /\ x.off + 1 \in 0..MaxChunks
  BY <1>1, <1>2 DEF StoreInv, Thread
<1>7. c \in Chunk /\ (c = Hole \/ c[2] = x.off + 1)
  <2>1. d \in [1..Len(d) -> Chunk]
    BY <1>2, PieceFacts
  <2>2. QED
    BY <1>6, <2>1 DEF InPlace
<1>8. /\ Len(x.sent) = x.off /\ InPlace(x.sent) /\ x.buf = <<>>
  BY <1>1, <1>3 DEF Buffered
<1> HIDE DEF c
<1> DEFINE s == Append(x.sent, c)
<1>9. /\ s \in Pieces(MaxChunks) /\ Len(s) = x.off + 1 /\ s[x.off + 1] = c
      /\ \A i \in 1..x.off : s[i] = x.sent[i]
  <2>1. Len(x.sent) < MaxChunks
    BY <1>1, <1>2, <1>8
  <2>2. QED
    BY <1>2, <1>7, <1>8, <2>1, PieceLonger
<1> HIDE DEF s
<1>10. /\ y = [x EXCEPT !.sent = s, !.off = x.off + 1]
  BY DEF s
<1>11. /\ y \in Thread
       /\ y.pc = "loop" /\ y.kind = "send" /\ y.file = x.file /\ y.off = x.off + 1
       /\ y.buf = <<>> /\ y.sent = s /\ y.size = x.size
  BY <1>1, <1>2, <1>6, <1>8, <1>9, <1>10 DEF Thread
<1> HIDE DEF y
<1>12. InPlace(s)
  <2> SUFFICES ASSUME NEW i \in 1..Len(s) PROVE s[i] = Hole \/ s[i][2] = i
    BY DEF InPlace
  <2>1. CASE i = x.off + 1
    BY <1>7, <1>9, <2>1
  <2>2. CASE i # x.off + 1
    <3>1. i \in 1..x.off
      BY <1>2, <1>9, <2>2
    <3>2. QED
      BY <1>8, <1>9, <3>1 DEF InPlace
  <2>3. QED
    BY <2>1, <2>2
<1>13. Buffered(y)
  BY <1>9, <1>11, <1>12 DEF Buffered
<1>14. c = d[x.off + 1]
  BY DEF c
<1> HIDE DEF d, x
<1>15. x.file \in Kept => Uploaded(y, d) /\ Followed(y, d)
  BY <1>1, <1>2, <1>4, <1>9, <1>11, <1>14 DEF Uploaded, Followed
<1>16. d = content[x.file] /\ x = thread[t]
  BY DEF d, x
<1>17. QED
  BY <1>1, <1>5, <1>11, <1>13, <1>15, <1>16, Unwritten

(* What a receiver that writes its buffer makes of the file *)
LEMMA FlushFacts ==
  ASSUME StoreInv, NEW t \in Tid, InUse(thread[t]), thread[t].kind = "recv",
         NEW x, x = thread[t], NEW old, old = content[x.file],
         NEW d, d = Written(old, x.off, x.buf)
  PROVE  /\ d \in Pieces(MaxChunks) /\ Len(d) >= Len(old) /\ InPlace(d)
         /\ x.file \in Kept => d = Upload(x.up, x.read) /\ Solid(d)
<1>1. /\ x \in Thread /\ old \in Pieces(MaxChunks) /\ x.buf \in Pieces(BufSize)
      /\ x.off \in 0..MaxChunks /\ x.read \in 0..MaxChunks /\ x.total \in 0..MaxChunks
      /\ MaxChunks \in Nat /\ BufSize \in Nat
      /\ Len(x.buf) \in Nat /\ x.off \in Nat
  BY ThreadFacts, ChunkFacts DEF StoreInv, Thread
<1>2. Buffered(x) /\ InPlace(old)
  BY <1>1 DEF StoreInv, AllBuffered, Thread
<1> DEFINE off == x.off
           buf == x.buf
           up  == x.up
<1>3. /\ off \in 0..MaxChunks /\ off \in Nat /\ buf \in Pieces(BufSize)
      /\ up \in 1..MaxUploads
      /\ off + Len(buf) = x.read
      /\ d = Written(old, off, buf)
  BY <1>1, <1>2 DEF Buffered
<1>4. \A i \in 1..Len(buf) : buf[i] = <<up, off + i>>
  BY <1>2 DEF Buffered
<1> HIDE DEF off, buf, up
<1>5. off + Len(buf) <= MaxChunks
  BY <1>1, <1>3
<1>6. /\ off \in Nat /\ BufSize \in Nat
      /\ old \in Pieces(MaxChunks) /\ buf \in Pieces(BufSize)
  BY <1>1, <1>3
<1> DEFINE new == Written(old, off, buf)
<1> HIDE DEF new
<1>7. /\ new \in Pieces(MaxChunks) /\ Len(new) >= Len(old)
      /\ \A i \in 1..Len(new) :
           \/ i - off \in 1..Len(buf) /\ new[i] = buf[i - off]
           \/ i \in 1..Len(old) /\ new[i] = old[i]
           \/ new[i] = Hole
  BY <1>5, <1>6, WrittenFacts, Zenon DEF new
<1>8. d = new
  BY <1>3 DEF new
<1>9. InPlace(d)
  <2> SUFFICES ASSUME NEW i \in 1..Len(d) PROVE d[i] = Hole \/ d[i][2] = i
    BY DEF InPlace
  <2>1. CASE i - off \in 1..Len(buf) /\ d[i] = buf[i - off]
    <3>1. d[i] = <<up, off + (i - off)>>
      BY <1>4, <2>1
    <3>2. off + (i - off) = i
      BY <1>3
    <3>3. QED
      BY <3>1, <3>2
  <2>2. CASE i \in 1..Len(old) /\ d[i] = old[i]
    BY <1>2, <2>2 DEF InPlace
  <2>3. QED
    BY <1>7, <1>8, <2>1, <2>2
<1>10. ASSUME x.file \in Kept PROVE d = Upload(x.up, x.read) /\ Solid(d)
  <2>1. old = Upload(up, off)
    BY <1>10 DEF StoreInv, AllFollowed, Uploaded, up, off
  <2>2. d = Upload(up, off + Len(buf))
    BY <1>1, <1>3, <1>4, <1>5, <2>1, WrittenUpload
  <2>3. d = Upload(up, x.read)
    BY <1>3, <2>2
  <2>4. /\ Len(d) = x.read
        /\ \A i \in 1..x.read : d[i] = <<up, i>> /\ <<up, i>> # Hole
    BY <1>1, <1>3, <2>3, UploadPiece
  <2>5. Solid(d)
    BY <2>4 DEF Solid
  <2>6. QED
    BY <2>3, <2>5 DEF up
<1>11. QED
  BY <1>7, <1>9, <1>10, <1>8

LEMMA ReceiveKeeps ==
  ASSUME StoreInv, NEW t \in Tid, Receive(t)
  PROVE  StoreInv'
<1> DEFINE x == thread[t]
           old == content[x.file]
           d == Written(old, x.off, x.buf)
           c == <<x.up, x.read + 1>>
<1>1. /\ x.pc = "loop" /\ x.kind = "recv" /\ x.read < x.total
      /\ UNCHANGED <<present, uploads, list>>
  BY DEF Receive
<1>2. /\ x \in Thread /\ x.file \in File
      /\ x.buf \in Pieces(BufSize) /\ Len(x.buf) \in 0..BufSize
      /\ x.off \in 0..MaxChunks /\ x.read \in 0..MaxChunks /\ x.total \in 0..MaxChunks
      /\ MaxChunks \in Nat /\ BufSize \in Nat \ {0}
  BY ThreadFacts, ChunkFacts DEF StoreInv, Thread
<1>3. Buffered(x) /\ InUse(x)
  BY <1>1 DEF StoreInv, AllBuffered, InUse
<1>4. /\ x.up \in 1..MaxUploads
      /\ x.off + Len(x.buf) = x.read
  BY <1>1, <1>3 DEF Buffered
<1> DEFINE l == Len(x.buf)
           o == x.off
           r == x.read
<1>5. o \in Nat /\ l \in Nat /\ r \in Nat /\ o + l = r
  BY <1>2, <1>4
<1> HIDE DEF l, o, r
<1>6. o + (l + 1) = r + 1
  BY <1>5
<1>7. x.off + (Len(x.buf) + 1) = x.read + 1
  BY <1>6 DEF o, l, r
<1>8. /\ \A i \in 1..Len(x.buf) : x.buf[i] = <<x.up, x.off + i>>
      /\ InPlace(x.sent)
  BY <1>1, <1>3 DEF Buffered
<1>9. \A u \in Tid \ {t} :
        x.file \in Kept /\ InUse(thread[u]) => thread[u].file # x.file
  BY <1>1, <1>3 DEF StoreInv, Alone
<1>10. c \in Chunk /\ x.read + 1 \in 0..MaxChunks /\ x.read + 1 <= x.total
  <2>1. x.read + 1 \in 1..MaxChunks /\ x.read + 1 <= x.total
    BY <1>1, <1>2
  <2>2. QED
    BY <1>2, <1>4, <2>1, ChunkFacts
<1>11. CASE Full(t)
  <2> DEFINE y == [x EXCEPT !.read = x.read + 1, !.buf = <<c>>,
                            !.off = x.off + Len(x.buf)]
  <2>1. Gets(x.file, d) /\ Becomes(t, y)
    BY <1>11 DEF Receive, Flush, Gets, Becomes, StoreInv, TypeOK
  <2>2. /\ <<c>> \in Pieces(BufSize) /\ Len(<<c>>) = 1 /\ <<c>>[1] = c
    BY <1>2, <1>10, OnePiece
  <2>3. x.off + Len(x.buf) \in 0..MaxChunks
    BY <1>2, <1>4
  <2> DEFINE b == <<c>>
             end == x.off + Len(x.buf)
  <2> HIDE DEF b, end
  <2>4. y = [x EXCEPT !.read = x.read + 1, !.buf = b, !.off = end]
    BY DEF b, end
  <2>5. /\ b \in Pieces(BufSize) /\ Len(b) = 1 /\ b[1] = <<x.up, x.read + 1>>
        /\ end \in 0..MaxChunks /\ end = x.read
    BY <1>4, <2>2, <2>3 DEF b, end
  <2> HIDE DEF y
  <2>6. /\ y \in Thread
        /\ y.pc = "loop" /\ y.kind = "recv" /\ y.file = x.file /\ y.off = x.read
        /\ y.buf = b /\ y.sent = x.sent /\ y.up = x.up
        /\ y.total = x.total /\ y.read = x.read + 1
    BY <1>1, <1>2, <1>10, <2>4, <2>5 DEF Thread
  <2>7. Buffered(y)
    <3>1. \A i \in 1..Len(b) : b[i] = <<y.up, y.off + i>>
      BY <2>5, <2>6
    <3>2. y.off + Len(b) = y.read /\ y.read <= y.total
      BY <1>2, <1>10, <2>5, <2>6
    <3>3. QED
      BY <1>4, <1>8, <2>6, <3>1, <3>2 DEF Buffered
  <2>8. /\ d \in Pieces(MaxChunks) /\ Len(d) >= Len(old) /\ InPlace(d)
        /\ x.file \in Kept => d = Upload(x.up, x.read) /\ Solid(d)
    BY <1>1, <1>3, FlushFacts
  <2> HIDE DEF d
  <2>9. content'[x.file] = d
    BY <1>2, <2>1 DEF Gets, StoreInv, TypeOK
  <2>10. y.file \in Kept =>
           Uploaded(y, content'[y.file]) /\ Followed(y, content'[y.file])
    BY <2>6, <2>8, <2>9 DEF Uploaded, Followed
  <2>11. /\ \A u \in Tid \ {t} :
              x.file \in Kept /\ InUse(thread[u]) => thread[u].file # x.file
         /\ present' \subseteq File /\ uploads' \in 0..MaxUploads /\ UNCHANGED list
    BY <1>1, <1>9 DEF StoreInv, TypeOK
  <2> DEFINE f == x.file
  <2>12. f = x.file /\ f \in File
    BY <1>2
  <2>13. Len(d) >= Len(content[f])
    BY <2>8
  <2> HIDE DEF x, f
  <2>14. QED
    BY <2>1, <2>6, <2>7, <2>8, <2>10, <2>11, <2>12, <2>13, Respectful
<1>12. CASE ~ Full(t)
  <2> DEFINE b == Append(x.buf, c)
             y == [x EXCEPT !.read = x.read + 1, !.buf = b]
  <2>1. Becomes(t, y) /\ UNCHANGED <<content, present, uploads, list>>
    BY <1>12 DEF Receive, Becomes, StoreInv, TypeOK
  <2>2. Len(x.buf) < BufSize
    BY <1>2, <1>12 DEF Full
  <2>3. /\ b \in Pieces(BufSize) /\ Len(b) = Len(x.buf) + 1
        /\ b[Len(x.buf) + 1] = c /\ \A i \in 1..Len(x.buf) : b[i] = x.buf[i]
    <3>1. x.buf \in Pieces(BufSize) /\ c \in Chunk /\ BufSize \in Nat
      BY <1>2, <1>10, StoreBounds DEF Thread
    <3> QED
      BY ONLY <3>1, <2>2, PieceLonger, Zenon
  <2> HIDE DEF b
  <2>4. /\ y \in Thread
        /\ y.pc = "loop" /\ y.kind = "recv" /\ y.file = x.file /\ y.off = x.off
        /\ y.buf = b /\ y.sent = x.sent /\ y.up = x.up
        /\ y.total = x.total /\ y.read = x.read + 1
    BY <1>1, <1>2, <1>10, <2>3 DEF Thread
  <2> HIDE DEF y
  <2>5. \A i \in 1..Len(b) : b[i] = <<x.up, x.off + i>>
    <3> SUFFICES ASSUME NEW i \in 1..Len(b) PROVE b[i] = <<x.up, x.off + i>>
      OBVIOUS
    <3>1. CASE i = Len(x.buf) + 1
      <4>1. x.off + i = x.read + 1
        BY <1>7, <3>1
      <4>2. QED
        BY <2>3, <3>1, <4>1
    <3>2. CASE i # Len(x.buf) + 1
      <4>1. i \in 1..Len(x.buf)
        BY <1>2, <2>3, <3>2
      <4>2. QED
        BY <1>8, <2>3, <4>1
    <3>3. QED
      BY <3>1, <3>2
  <2>6. y.off + Len(b) = x.read + 1
    BY <1>7, <2>3, <2>4
  <2>7. Buffered(y)
    BY <1>4, <1>10, <1>8, <2>4, <2>5, <2>6 DEF Buffered
  <2>8. x.file \in Kept => Uploaded(y, content[y.file]) /\ Followed(y, content[y.file])
    BY <1>1, <1>3, <2>4 DEF StoreInv, AllFollowed, Uploaded, Followed
  <2>9. QED
    BY <1>9, <2>1, <2>4, <2>7, <2>8, Unwritten
<1>13. QED
  BY <1>11, <1>12

LEMMA CloseKeeps ==
  ASSUME StoreInv, NEW t \in Tid, Close(t)
  PROVE  StoreInv'
<1> DEFINE x == thread[t]
           f == x.file
           old == content[x.file]
           d == Written(old, x.off, x.buf)
<1>1. /\ x.pc = "close" /\ Becomes(t, Idle) /\ Gets(f, d)
      /\ UNCHANGED <<present, uploads, list>>
  BY DEF Close, Flush, Becomes, Gets, StoreInv, TypeOK
<1>2. /\ x \in Thread /\ f \in File /\ old \in Pieces(MaxChunks)
      /\ Idle \in Thread /\ Buffered(Idle) /\ ~ InUse(Idle)
  BY ThreadFacts, IdleFacts DEF StoreInv
<1>3. Buffered(x) /\ InUse(x) /\ x.kind \in {"send", "recv"}
  BY <1>1, <1>2 DEF StoreInv, AllBuffered, InUse, Thread
<1>4. CASE x.kind = "send"
  <2>1. d = old
    BY <1>3, <1>4 DEF Buffered, Written
  <2>2. UNCHANGED <<content, present, uploads, list>>
    BY <1>1, <1>2, <2>1 DEF Gets, StoreInv, TypeOK
  <2>3. QED
    BY <1>1, <1>2, <2>2, Unwritten
<1>5. CASE x.kind = "recv"
  <2>1. /\ d \in Pieces(MaxChunks) /\ Len(d) >= Len(old) /\ InPlace(d)
        /\ x.file \in Kept => Solid(d)
    BY <1>3, <1>5, FlushFacts
  <2>2. \A u \in Tid \ {t} : f \in Kept /\ InUse(thread[u]) => thread[u].file # f
    BY <1>3, <1>5 DEF StoreInv, Alone
  <2>3. present' \subseteq File /\ uploads' \in 0..MaxUploads /\ UNCHANGED list
    BY <1>1 DEF StoreInv, TypeOK
  <2> HIDE DEF d
  <2>4. Len(d) >= Len(content[f])
    BY <2>1
  <2>5. f \in Kept => Solid(d)
    BY <2>1
  <2> HIDE DEF f
  <2>6. QED
    BY <1>1, <1>2, <2>1, <2>2, <2>3, <2>4, <2>5, Respectful
<1>6. QED
  BY <1>3, <1>4, <1>5

Listing == [pc   : {"none", "measure", "print"},
            todo : SUBSET File,
            max  : 0..(IntRange \div 2),
            seen : [File -> 0..MaxChunks]]

(* A step of list() changes nothing but its own variables. *)
LEMMA OnlyListing ==
  ASSUME StoreInv, UNCHANGED <<content, present, uploads, thread>>,
         list' \in Listing, Measured'
  PROVE  StoreInv'
<1>1. TypeOK'
  BY DEF StoreInv, TypeOK, Listing
<1>2. AllBuffered' /\ AllFollowed' /\ Alone' /\ NoHoles'
  BY DEF StoreInv, AllBuffered, AllFollowed, Alone, NoHoles
<1>3. \A f \in File : InPlace(content[f])'
  BY DEF StoreInv
<1>4. FewBroken'
  BY DEF StoreInv, FewBroken, BrokeOff
<1>5. QED
  BY <1>1, <1>2, <1>3, <1>4 DEF StoreInv

LEMMA SizeFacts ==
  ASSUME StoreInv, NEW f \in File
  PROVE  SizeOf(f) \in 0..MaxChunks /\ SizeOf(f) \in Nat
<1>1. content[f] \in Pieces(MaxChunks)
  BY DEF StoreInv, TypeOK
<1>2. QED
  BY <1>1, ChunkFacts, PieceFacts DEF SizeOf

LEMMA NotListingFacts ==
  /\ NotListing \in Listing
  /\ NotListing.pc = "none" /\ NotListing.max = 0
  /\ \A f \in File : NotListing.seen[f] = 0
<1>1. 0 \in 0..(IntRange \div 2) /\ 0 \in 0..MaxChunks
  BY IntFacts, ChunkFacts
<1>2. QED
  BY <1>1 DEF NotListing, Listing

LEMMA ListOpenKeeps == ASSUME StoreInv, ListOpen PROVE StoreInv'
<1>1. /\ list' = [NotListing EXCEPT !.pc = "measure", !.todo = present]
      /\ UNCHANGED <<content, present, uploads, thread>>
      /\ present \subseteq File
  BY DEF ListOpen, StoreInv, TypeOK
<1>2. list' \in Listing /\ list'.max = 0 /\ \A f \in File : list'.seen[f] = 0
  BY <1>1, NotListingFacts DEF Listing
<1>3. Measured'
  <2> SUFFICES ASSUME NEW f \in File
               PROVE  /\ SizeOf(f)' >= list'.seen[f]
                      /\ ToInt(Bytes(list'.seen[f])) <= list'.max
    BY DEF Measured
  <2>1. SizeOf(f)' = SizeOf(f)
    BY <1>1 DEF SizeOf
  <2>2. QED
    BY <1>2, <2>1, SizeFacts, IntFacts
<1>4. QED
  BY <1>1, <1>2, <1>3, OnlyListing

LEMMA ListMeasureKeeps ==
  ASSUME StoreInv, NEW f \in File, ListMeasure(f)
  PROVE  StoreInv'
<1>1. /\ list.pc = "measure"
      /\ list' = [list EXCEPT !.todo = @ \ {f}, !.max = LargerSize(f),
                              !.seen = [@ EXCEPT ![f] = SizeOf(f)]]
      /\ UNCHANGED <<content, present, uploads, thread>>
  BY DEF ListMeasure
<1>2. list \in Listing
  BY DEF StoreInv, TypeOK, Listing
<1> DEFINE n == ToInt(Bytes(SizeOf(f)))
<1>3. /\ n \in Int /\ n <= IntRange \div 2 /\ IntRange \div 2 \in Nat
      /\ list.max \in 0..(IntRange \div 2)
  BY <1>2, SizeFacts, IntFacts DEF Listing
<1>4. LargerSize(f) = IF n > list.max THEN n ELSE list.max
  BY DEF LargerSize
<1> HIDE DEF n
<1>5. /\ LargerSize(f) \in 0..(IntRange \div 2)
      /\ n <= LargerSize(f) /\ list.max <= LargerSize(f)
  BY <1>3, <1>4
<1>6. /\ list' \in Listing
      /\ list'.max = LargerSize(f)
      /\ list'.seen = [list.seen EXCEPT ![f] = SizeOf(f)]
  BY <1>1, <1>2, <1>5, SizeFacts DEF Listing
<1>7. Measured'
  <2> SUFFICES ASSUME NEW g \in File
               PROVE  /\ SizeOf(g)' >= list'.seen[g]
                      /\ ToInt(Bytes(list'.seen[g])) <= list'.max
    BY DEF Measured
  <2>1. SizeOf(g)' = SizeOf(g)
    BY <1>1 DEF SizeOf
  <2>2. CASE g = f
    <3>1. list'.seen[g] = SizeOf(f)
      BY <1>2, <1>6, <2>2 DEF Listing
    <3>2. ToInt(Bytes(list'.seen[g])) <= list'.max
      BY <1>5, <1>6, <3>1 DEF n
    <3>3. QED
      BY <2>1, <2>2, <3>1, <3>2, SizeFacts
  <2>3. CASE g # f
    <3>1. list'.seen[g] = list.seen[g] /\ list.seen[g] \in Nat
      BY <1>2, <1>6, <2>3, ChunkFacts DEF Listing
    <3>2. /\ SizeOf(g) >= list.seen[g]
          /\ ToInt(Bytes(list.seen[g])) <= list.max
      BY <1>1 DEF StoreInv, Measured
    <3>3. ToInt(Bytes(list.seen[g])) \in Int
      BY <3>1, IntFacts
    <3> DEFINE m == ToInt(Bytes(list.seen[g]))
    <3> HIDE DEF m
    <3>4. m <= list'.max
      BY <1>3, <1>5, <1>6, <3>2, <3>3 DEF m
    <3>5. QED
      BY <2>1, <3>1, <3>2, <3>4 DEF m
  <2>4. QED
    BY <2>2, <2>3
<1>8. QED
  BY <1>1, <1>6, <1>7, OnlyListing

LEMMA ListRestKeeps ==
  ASSUME StoreInv, ListReopen \/ (\E f \in File : ListPrint(f)) \/ ListDone
  PROVE  StoreInv'
<1>1. UNCHANGED <<content, present, uploads, thread>>
  BY DEF ListReopen, ListPrint, ListDone
<1>2. list \in Listing /\ present \subseteq File
  BY DEF StoreInv, TypeOK, Listing
<1>3. /\ list' \in Listing
      /\ \/ list'.pc = "none"
         \/ list.pc # "none" /\ list'.max = list.max /\ list'.seen = list.seen
  <2>1. CASE ListReopen
    BY <1>2, <2>1 DEF ListReopen, Listing
  <2>2. CASE \E f \in File : ListPrint(f)
    BY <1>2, <2>2 DEF ListPrint, Listing
  <2>3. CASE ListDone
    BY <2>3, NotListingFacts DEF ListDone
  <2>4. QED
    BY <2>1, <2>2, <2>3
<1>4. Measured'
  BY <1>1, <1>3 DEF StoreInv, Measured, SizeOf
<1>5. QED
  BY <1>1, <1>3, <1>4, OnlyListing

LEMMA StoreNext == StoreInv /\ [Next]_vars => StoreInv'
<1> SUFFICES ASSUME StoreInv, [Next]_vars PROVE StoreInv'
  OBVIOUS
<1>1. ASSUME NEW t \in Tid, NEW f \in File, NEW n \in 0..MaxChunks, Stor(t, f, n)
      PROVE  StoreInv'
  BY <1>1, StorKeeps
<1>2. ASSUME NEW t \in Tid, NEW f \in File, RetrOpen(t, f) PROVE StoreInv'
  BY <1>2, RetrOpenKeeps
<1>3. ASSUME NEW t \in Tid, RetrSize(t) PROVE StoreInv'
  BY <1>3, RetrSizeKeeps
<1>4. CASE ListOpen
  BY <1>4, ListOpenKeeps
<1>5. ASSUME NEW f \in File, ListMeasure(f) PROVE StoreInv'
  BY <1>5, ListMeasureKeeps
<1>6. CASE ListReopen \/ (\E f \in File : ListPrint(f)) \/ ListDone
  BY <1>6, ListRestKeeps
<1>7. ASSUME NEW t \in Tid, ThreadStep(t) PROVE StoreInv'
  BY <1>7, ReceiveKeeps, SendKeeps, EndOfDataKeeps, BreakKeeps, ReportKeeps, CloseKeeps
    DEF ThreadStep
<1>8. CASE UNCHANGED vars
  <2>1. list' \in Listing /\ Measured'
    BY <1>8 DEF vars, StoreInv, TypeOK, Listing, Measured, SizeOf
  <2>2. QED
    BY <1>8, <2>1, OnlyListing DEF vars
<1>9. QED
  BY <1>1, <1>2, <1>3, <1>4, <1>5, <1>6, <1>7, <1>8 DEF Next, MainStep

LEMMA StoreInvariant == Spec => []StoreInv
BY StoreInit, StoreNext, PTL DEF Spec

-----------------------------------------------------------------------------
(* What follows from the invariant *)

(* The contents, the threads and the listing keep their types: no offset    *)
(* passes MaxChunks, no buffer BufSize, and the largest size of LIST is one *)
(* an int can hold.                                                         *)
THEOREM StoreTyped == Spec => []TypeOK
<1>1. StoreInv => TypeOK
  BY DEF StoreInv
<1>2. QED
  BY <1>1, StoreInvariant, PTL

(* However uploads and downloads of one file overlap, no chunk moves.       *)
THEOREM ChunksStayInPlace == Spec => []NothingMoves
<1>1. StoreInv => NothingMoves
  BY DEF StoreInv, AllBuffered, Buffered, NothingMoves
<1>2. QED
  BY <1>1, StoreInvariant, PTL

(* A download of a file that nobody uploads meanwhile has as many bytes as  *)
(* retr has announced.                                                      *)
THEOREM AnnouncedIsSent == Spec => []SizeAnnounced
<1>1. ASSUME StoreInv PROVE SizeAnnounced
  <2> SUFFICES ASSUME NEW t \in Tid, NEW x, x = thread[t],
                      x.kind = "send", x.file \in Kept, x.pc \in {"report", "close"}
               PROVE  Len(x.sent) = x.size
    BY DEF SizeAnnounced
  <2>1. Buffered(x) /\ Followed(x, content[x.file])
    BY <1>1 DEF StoreInv, AllBuffered, AllFollowed, InUse
  <2>2. QED
    BY <2>1 DEF Buffered, Followed
<1>2. QED
  BY <1>1, StoreInvariant, PTL

(* More digits for the larger number *)
LEMMA DigitsGrow ==
  ASSUME NEW m \in Nat, NEW n \in Nat, m <= n
  PROVE  Digits(m) \in Nat /\ Digits(n) \in Nat /\ Digits(m) <= Digits(n)
<1> DEFINE A == {d \in 1..9 : m >= 10^d}
           B == {d \in 1..9 : n >= 10^d}
<1>1. A \subseteq B
  <2> SUFFICES ASSUME NEW d \in 1..9, m >= 10^d PROVE n >= 10^d
    OBVIOUS
  <2>1. 10^d \in Int
    OBVIOUS
  <2>2. QED
    BY <2>1
<1>2. IsFiniteSet(1..9)
  <2>1. 1 \in Int /\ 9 \in Int
    OBVIOUS
  <2>2. \A i, j \in Int : IsFiniteSet(i..j)
    BY FS_Interval
  <2>3. QED
    BY <2>1, <2>2, Zenon
<1>3. B \in SUBSET (1..9)
  BY Zenon
<1>4. B \in SUBSET (1..9) /\ A \in SUBSET B
  BY <1>1, <1>3
<1>5. Digits(m) = 1 + Cardinality(A) /\ Digits(n) = 1 + Cardinality(B)
  BY DEF Digits
<1> HIDE DEF A, B
<1>6. IsFiniteSet(B)
  BY <1>2, <1>4, FS_Subset
<1>7. IsFiniteSet(A) /\ Cardinality(A) <= Cardinality(B)
  BY <1>4, <1>6, FS_Subset
<1>8. Cardinality(A) \in Nat /\ Cardinality(B) \in Nat
  BY <1>6, <1>7, FS_CardinalityType
<1>9. QED
  BY <1>5, <1>7, <1>8

(* A size that has not grown since LIST measured it, and that an int can    *)
(* hold, fits the column as wide as the largest size.                       *)
THEOREM SizesFitTheirColumn == Spec => []ColumnFits
<1>1. ASSUME StoreInv PROVE ColumnFits
  <2> SUFFICES ASSUME NEW f \in File, list.pc = "print",
                      ~ (SizeOf(f) > list.seen[f]),
                      ~ (Bytes(SizeOf(f)) >= IntRange \div 2)
               PROVE  Column(f) >= 0
    BY DEF ColumnFits
  <2>1. /\ SizeOf(f) \in Nat /\ list.seen[f] \in Nat
        /\ list.max \in Nat
    BY <1>1, SizeFacts, ChunkFacts, IntFacts DEF StoreInv, TypeOK
  <2>2. /\ SizeOf(f) >= list.seen[f]
        /\ ToInt(Bytes(list.seen[f])) <= list.max
    BY <1>1 DEF StoreInv, Measured
  <2>3. SizeOf(f) = list.seen[f]
    BY <2>1, <2>2
  <2> DEFINE b == Bytes(SizeOf(f))
  <2>4. b \in Nat /\ IntRange \div 2 \in Nat /\ (b < IntRange \div 2 => ToInt(b) = b)
    BY <2>1, IntFacts
  <2>5. ToInt(b) = b
    BY <2>4
  <2>6. ToInt(b) <= list.max
    BY <2>2, <2>3
  <2> HIDE DEF b
  <2>7. b <= list.max
    BY <2>5, <2>6
  <2>8. Digits(b) \in Nat /\ Digits(list.max) \in Nat /\ Digits(b) <= Digits(list.max)
    BY <2>1, <2>4, <2>7, DigitsGrow
  <2>9. Column(f) = Digits(list.max) - Digits(b)
    BY DEF Column, b
  <2>10. QED
    BY <2>8, <2>9
<1>2. QED
  BY <1>1, StoreInvariant, PTL

-----------------------------------------------------------------------------
(* The Kept files implement WholeFiles. What a thread x contributes to what *)
(* a client sees of file f: *)

Has(x, f)  == InUse(x) /\ x.kind = "recv" /\ x.file = f
Left(x, f) == x.pc = "dead" /\ x.kind = "recv" /\ x.file = f
Got(x)     == x.pc \in {"report", "close"} /\ x.kind = "send" /\ x.file \in Kept

Others(t) == \A u \in Tid \ {t} : thread'[u] = thread[u]

LEMMA ReceivingAfter ==
  ASSUME NEW t \in Tid, NEW y, thread'[t] = y, Others(t), NEW f
  PROVE  /\ Receiving(f)' = IF Has(y, f) THEN Receiving(f) \cup {t} ELSE Receiving(f) \ {t}
         /\ BrokeOff(f)' = IF Left(y, f) THEN BrokeOff(f) \cup {t} ELSE BrokeOff(f) \ {t}
         /\ t \in Receiving(f) <=> Has(thread[t], f)
         /\ t \in BrokeOff(f) <=> Left(thread[t], f)
<1>1. \A u \in Tid : u \in Receiving(f)' <=> Has(thread'[u], f)
  BY DEF Receiving, Receives, Has, InUse
<1>2. \A u \in Tid : u \in Receiving(f) <=> Has(thread[u], f)
  BY DEF Receiving, Receives, Has, InUse
<1>3. Receiving(f) \subseteq Tid /\ Receiving(f)' \subseteq Tid
  BY DEF Receiving
<1>4. \A u \in Tid : u \in BrokeOff(f)' <=> Left(thread'[u], f)
  BY DEF BrokeOff, Left
<1>5. \A u \in Tid : u \in BrokeOff(f) <=> Left(thread[u], f)
  BY DEF BrokeOff, Left
<1>6. BrokeOff(f) \subseteq Tid /\ BrokeOff(f)' \subseteq Tid
  BY DEF BrokeOff
<1>7. \A u \in Tid \ {t} : Has(thread'[u], f) <=> Has(thread[u], f)
  BY DEF Others
<1>8. \A u \in Tid \ {t} : Left(thread'[u], f) <=> Left(thread[u], f)
  BY DEF Others
<1>9. Receiving(f)' = IF Has(y, f) THEN Receiving(f) \cup {t} ELSE Receiving(f) \ {t}
  BY <1>1, <1>2, <1>3, <1>7
<1>10. BrokeOff(f)' = IF Left(y, f) THEN BrokeOff(f) \cup {t} ELSE BrokeOff(f) \ {t}
  BY <1>4, <1>5, <1>6, <1>8
<1>11. QED
  BY <1>2, <1>5, <1>9, <1>10

(* A step that a client of file f does not see *)
LEMMA FileUnseen ==
  ASSUME NEW t \in Tid, NEW x, x = thread[t], NEW y, thread'[t] = y, Others(t),
         NEW f, Has(x, f) <=> Has(y, f), Left(x, f) <=> Left(y, f),
         Has(y, f) => x.up = y.up /\ x.total = y.total,
         Has(y, f) \/ content'[f] = content[f]
  PROVE  /\ StoredView(f)' = StoredView(f)
         /\ SendingView(f)' = SendingView(f)
         /\ BrokeOff(f)' = BrokeOff(f)
<1>1. /\ Receiving(f)' = IF Has(y, f) THEN Receiving(f) \cup {t} ELSE Receiving(f) \ {t}
      /\ BrokeOff(f)' = IF Left(y, f) THEN BrokeOff(f) \cup {t} ELSE BrokeOff(f) \ {t}
      /\ t \in Receiving(f) <=> Has(x, f)
      /\ t \in BrokeOff(f) <=> Left(x, f)
  BY ReceivingAfter
<1>2. Receiving(f)' = Receiving(f) /\ BrokeOff(f)' = BrokeOff(f)
  BY <1>1
<1>3. StoredView(f)' = StoredView(f)
  BY <1>1, <1>2 DEF StoredView
<1>4. \A u \in Receiving(f) :
        thread'[u].up = thread[u].up /\ thread'[u].total = thread[u].total
  BY <1>1 DEF Others, Receiving
<1>5. SendingView(f)' = SendingView(f)
  <2>1. CASE Receiving(f) = {}
    BY <1>2, <2>1 DEF SendingView
  <2>2. CASE Receiving(f) # {}
    <3> DEFINE u == CHOOSE u \in Receiving(f) : TRUE
    <3>1. u \in Receiving(f) /\ u' = u
      BY <1>2, <2>2
    <3>2. SendingView(f) = Upload(thread[u].up, thread[u].total)
      BY <2>2 DEF SendingView
    <3>3. SendingView(f)' = Upload(thread'[u].up, thread'[u].total)
      BY <1>2, <2>2, <3>1 DEF SendingView
    <3>4. QED
      BY <1>4, <3>1, <3>2, <3>3
  <2>3. QED
    BY <2>1, <2>2
<1>6. QED
  BY <1>2, <1>3, <1>5

LEMMA GetterUnseen ==
  ASSUME NEW t \in Tid, NEW x, x = thread[t], NEW y, thread'[t] = y, Others(t),
         NEW g \in Tid, g = t => (Got(x) <=> Got(y)) /\ (Got(y) => y.sent = x.sent)
  PROVE  FetchedView(g)' = FetchedView(g)
BY DEF FetchedView, Downloaded, Got, Others

WholeVars == <<StoredNow, SendingNow, FetchedNow, BrokenNow>>

LEMMA Unseen ==
  ASSUME NEW t \in Tid, NEW x, x = thread[t], NEW y, thread'[t] = y, Others(t),
         \A f \in Kept :
           /\ Has(x, f) <=> Has(y, f)
           /\ Left(x, f) <=> Left(y, f)
           /\ Has(y, f) => x.up = y.up /\ x.total = y.total
           /\ Has(y, f) \/ content'[f] = content[f],
         Got(x) <=> Got(y), Got(y) => y.sent = x.sent
  PROVE  UNCHANGED WholeVars
<1>1. ASSUME NEW f \in Kept
      PROVE  /\ StoredView(f)' = StoredView(f)
             /\ SendingView(f)' = SendingView(f)
             /\ BrokeOff(f)' = BrokeOff(f)
  BY <1>1, FileUnseen
<1>2. ASSUME NEW g \in Tid PROVE FetchedView(g)' = FetchedView(g)
  BY <1>2, GetterUnseen
<1>3. StoredNow' = StoredNow /\ SendingNow' = SendingNow
  BY <1>1 DEF StoredNow, SendingNow
<1>4. FetchedNow' = FetchedNow
  BY <1>2 DEF FetchedNow
<1>5. BrokenNow' = BrokenNow
  BY <1>1 DEF BrokenNow
<1>6. QED
  BY <1>3, <1>4, <1>5 DEF WholeVars

(* While a thread receives a Kept file, it is the only one. *)
LEMMA Solo ==
  ASSUME StoreInv, NEW t \in Tid, NEW x, x = thread[t], NEW f \in Kept, Has(x, f)
  PROVE  /\ Receiving(f) = {t}
         /\ StoredView(f) = <<Hole>>
         /\ SendingView(f) = Upload(x.up, x.total)
<1>1. Receiving(f) = {t}
  BY DEF StoreInv, Alone, Has, Receiving, Receives, InUse
<1>2. (CHOOSE u \in Receiving(f) : TRUE) = t
  BY <1>1
<1>3. StoredView(f) = <<Hole>>
  BY <1>1 DEF StoredView
<1>4. SendingView(f) = Upload(x.up, x.total)
  BY <1>1, <1>2 DEF SendingView
<1>5. QED
  BY <1>1, <1>3, <1>4

(* A file that nobody uploads is there to see. *)
LEMMA Seen ==
  ASSUME StoreInv, NEW f \in Kept, Receiving(f) = {}
  PROVE  StoredView(f) = content[f] /\ StoredView(f) # <<Hole>>
<1>1. StoredView(f) = content[f]
  BY DEF StoredView
<1>2. ASSUME content[f] = <<Hole>> PROVE FALSE
  <2>1. 1 \in 1..Len(<<Hole>>) /\ <<Hole>>[1] = Hole
    OBVIOUS
  <2>2. ~ Solid(<<Hole>>)
    BY <2>1 DEF Solid
  <2>3. QED
    BY <1>2, <2>2 DEF StoreInv, NoHoles
<1>3. QED
  BY <1>1, <1>2

(* The part of an upload that has been written is a beginning of it. *)
LEMMA Beginning ==
  ASSUME NEW u \in 1..MaxUploads, NEW n \in 0..MaxChunks, NEW k \in 0..n
  PROVE  /\ Upload(u, k) = Whole!Prefix(Upload(u, n), k)
         /\ k \in 0..Len(Upload(u, n))
<1>1. /\ MaxChunks \in Nat /\ n \in Nat /\ k \in Nat
      /\ Upload(u, n) \in Pieces(MaxChunks) /\ Len(Upload(u, n)) = n
      /\ \A i \in 1..n : Upload(u, n)[i] = <<u, i>>
  BY StoreBounds, UploadPiece
<1>2. Upload(u, n) \in Seq(Chunk)
  BY <1>1, PieceFacts
<1> DEFINE s == Upload(u, n)
<1> HIDE DEF s
<1>3. SubSeq(s, 1, k) = [i \in 1..k |-> s[i]]
  BY <1>1, <1>2 DEF s
<1>4. \A i \in 1..k : s[i] = <<u, i>>
  BY <1>1 DEF s
<1>5. SubSeq(s, 1, k) = Upload(u, k)
  BY <1>3, <1>4 DEF Upload
<1>6. QED
  BY <1>1, <1>5 DEF Whole!Prefix, s

(* Only file f, and no download, is seen to change. *)
LEMMA OneFileSeen ==
  ASSUME NEW t \in Tid, NEW x, x = thread[t], NEW y, thread'[t] = y, Others(t),
         NEW f \in Kept,
         \A g \in Kept \ {f} :
           /\ ~ Has(x, g) /\ ~ Has(y, g) /\ ~ Left(x, g) /\ ~ Left(y, g)
           /\ content'[g] = content[g],
         ~ Got(x), ~ Got(y)
  PROVE  /\ StoredNow' = [StoredNow EXCEPT ![f] = StoredView(f)']
         /\ SendingNow' = [SendingNow EXCEPT ![f] = SendingView(f)']
         /\ FetchedNow' = FetchedNow
         /\ BrokenNow' = [BrokenNow EXCEPT ![f] = Cardinality(BrokeOff(f))']
<1>1. ASSUME NEW g \in Kept, g # f
      PROVE  /\ StoredView(g)' = StoredView(g)
             /\ SendingView(g)' = SendingView(g)
             /\ BrokeOff(g)' = BrokeOff(g)
  <2>1. g \in Kept \ {f}
    BY <1>1
  <2>2. QED
    BY <2>1, FileUnseen
<1>2. ASSUME NEW g \in Tid PROVE FetchedView(g)' = FetchedView(g)
  BY <1>2, GetterUnseen
<1>3. FetchedNow' = FetchedNow
  BY <1>2 DEF FetchedNow
<1>4. StoredNow' = [StoredNow EXCEPT ![f] = StoredView(f)']
  BY <1>1 DEF StoredNow
<1>5. SendingNow' = [SendingNow EXCEPT ![f] = SendingView(f)']
  BY <1>1 DEF SendingNow
<1>6. BrokenNow' = [BrokenNow EXCEPT ![f] = Cardinality(BrokeOff(f))']
  BY <1>1 DEF BrokenNow
<1>7. QED
  BY <1>3, <1>4, <1>5, <1>6

-----------------------------------------------------------------------------
(* Every step is one of WholeFiles' or is not seen. *)

LEMMA StepFacts ==
  ASSUME StoreInv, NEW t \in Tid, NEW y, Becomes(t, y)
  PROVE  /\ thread'[t] = y
         /\ Others(t)
         /\ \A f \in Kept : f \in File
BY FileAssumption DEF StoreInv, TypeOK, Becomes, Others

(* An upload begins. *)
LEMMA StorSeen ==
  ASSUME StoreInv, NEW t \in Tid, NEW f \in File, NEW n \in 0..MaxChunks, Stor(t, f, n)
  PROVE  Whole!Next \/ UNCHANGED WholeVars
<1> DEFINE x == thread[t]
           y == [Idle EXCEPT !.pc = "loop", !.kind = "recv", !.file = f,
                             !.up = uploads + 1, !.total = n]
<1>1. /\ ~ MainBusy /\ x.pc = "idle" /\ uploads < MaxUploads
      /\ f \in Kept => ~ Uses(f, {"send", "recv"})
      /\ Gets(f, <<>>) /\ Becomes(t, y)
  BY DEF Stor, Gets, Becomes
<1>2. thread'[t] = y /\ Others(t) /\ \A g \in Kept : g \in File
  BY <1>1, StepFacts
<1>3. y.pc = "loop" /\ y.kind = "recv" /\ y.file = f /\ y.up = uploads + 1 /\ y.total = n
  BY IdleFields, IdleFacts DEF Thread
<1>4. uploads + 1 \in 1..MaxUploads
  BY <1>1, ChunkFacts DEF StoreInv, TypeOK
<1>5. \A g \in File \ {f} : content'[g] = content[g]
  BY <1>1 DEF Gets, StoreInv, TypeOK
<1> HIDE DEF y
<1>6. /\ \A g : ~ Has(x, g) /\ ~ Left(x, g) /\ ~ Left(y, g) /\ (Has(y, g) <=> g = f)
      /\ ~ Got(x) /\ ~ Got(y)
  BY <1>1, <1>3 DEF Has, Left, Got, InUse
<1> HIDE DEF x
<1>7. x = thread[t]
  BY DEF x
<1>8. CASE f \notin Kept
  BY <1>2, <1>5, <1>6, <1>7, <1>8, Unseen
<1>9. CASE f \in Kept
  <2>1. /\ StoredNow' = [StoredNow EXCEPT ![f] = StoredView(f)']
        /\ SendingNow' = [SendingNow EXCEPT ![f] = SendingView(f)']
        /\ FetchedNow' = FetchedNow
        /\ BrokenNow' = [BrokenNow EXCEPT ![f] = Cardinality(BrokeOff(f))']
    BY <1>2, <1>5, <1>6, <1>7, <1>9, OneFileSeen
  <2>2. Receiving(f) = {}
    BY <1>1, <1>9 DEF Uses, Receiving, Receives
  <2>3. /\ Receiving(f)' = {t}
        /\ BrokeOff(f)' = BrokeOff(f)
    BY <1>2, <1>6, <1>7, <2>2, ReceivingAfter
  <2>4. StoredNow[f] # <<Hole>>
    BY <1>9, <2>2, Seen DEF StoredNow
  <2>5. StoredView(f)' = <<Hole>>
    BY <2>3 DEF StoredView
  <2>6. SendingView(f)' = Upload(uploads + 1, n)
    <3>1. (CHOOSE u \in Receiving(f) : TRUE)' = t
      BY <2>3
    <3>2. SendingView(f)' = Upload(thread'[t].up, thread'[t].total)
      BY <2>3, <3>1 DEF SendingView
    <3>3. QED
      BY <1>2, <1>3, <3>2
  <2>7. UNCHANGED BrokenNow
    BY <2>1, <2>3, <1>9 DEF BrokenNow
  <2>8. Upload(uploads + 1, n) \in Uploads
    BY <1>4 DEF Uploads
  <2>9. /\ StoredNow' = [StoredNow EXCEPT ![f] = <<Hole>>]
        /\ \E data \in Uploads : SendingNow' = [SendingNow EXCEPT ![f] = data]
    BY <2>1, <2>5, <2>6, <2>8
  <2>10. Whole!BeginUpload(f)
    BY <2>1, <2>4, <2>7, <2>9 DEF Whole!BeginUpload
  <2>11. QED
    BY <1>9, <2>10 DEF Whole!Next
<1>10. QED
  BY <1>8, <1>9

(* The steps of threads that no client sees *)
LEMMA QuietStep ==
  ASSUME StoreInv, NEW t \in Tid, NEW x, x = thread[t], NEW y, Becomes(t, y),
         x.kind \in {"send", "recv"}, y.kind = x.kind, y.file = x.file,
         y.up = x.up, y.total = x.total, y.sent = x.sent \/ ~ Got(y),
         InUse(x), InUse(y), Got(x) <=> Got(y),
         \/ UNCHANGED content
         \/ x.kind = "recv" /\ \E d : Gets(x.file, d)
  PROVE  UNCHANGED WholeVars
<1>1. thread'[t] = y /\ Others(t) /\ \A g \in Kept : g \in File
  BY StepFacts
<1>2. \A g : /\ Has(x, g) <=> Has(y, g)
             /\ ~ Left(x, g) /\ ~ Left(y, g)
  BY DEF Has, Left, InUse
<1>3. \A g \in Kept : Has(y, g) \/ content'[g] = content[g]
  BY <1>1 DEF Gets, StoreInv, TypeOK, Has
<1>4. QED
  BY <1>1, <1>2, <1>3, Unseen

LEMMA RetrOpenSeen ==
  ASSUME StoreInv, NEW t \in Tid, NEW f \in File, RetrOpen(t, f)
  PROVE  UNCHANGED WholeVars
<1> DEFINE x == thread[t]
           y == [Idle EXCEPT !.pc = "open", !.file = f]
<1>1. x.pc = "idle" /\ Becomes(t, y) /\ UNCHANGED content
  BY DEF RetrOpen, Becomes
<1>2. thread'[t] = y /\ Others(t)
  BY <1>1, StepFacts
<1>3. y.pc = "open" /\ y.kind = "send"
  BY IdleFields, IdleFacts DEF Thread
<1> HIDE DEF y
<1>4. /\ \A g : ~ Has(x, g) /\ ~ Left(x, g) /\ ~ Left(y, g) /\ ~ Has(y, g)
      /\ ~ Got(x) /\ ~ Got(y)
  BY <1>1, <1>3 DEF Has, Left, Got, InUse
<1>5. x = thread[t]
  OBVIOUS
<1> HIDE DEF x
<1>6. QED
  BY <1>1, <1>2, <1>4, <1>5, Unseen

LEMMA RetrSizeSeen ==
  ASSUME StoreInv, NEW t \in Tid, RetrSize(t)
  PROVE  UNCHANGED WholeVars
<1> DEFINE x == thread[t]
           y == [x EXCEPT !.pc = "loop", !.size = SizeOf(x.file)]
<1>1. x.pc = "open" /\ Becomes(t, y) /\ UNCHANGED content
  BY DEF RetrSize, Becomes, StoreInv, TypeOK
<1>2. x \in Thread
  BY ThreadFacts DEF StoreInv
<1>3. /\ y.pc = "loop" /\ y.kind = x.kind /\ y.file = x.file /\ y.up = x.up
      /\ y.total = x.total /\ y.sent = x.sent /\ x.kind \in {"send", "recv"}
  BY <1>2 DEF Thread
<1> HIDE DEF y
<1>4. InUse(x) /\ InUse(y) /\ ~ Got(x) /\ ~ Got(y)
  BY <1>1, <1>3 DEF InUse, Got
<1>5. x = thread[t]
  OBVIOUS
<1> HIDE DEF x
<1>6. QED
  BY <1>1, <1>3, <1>4, <1>5, QuietStep

LEMMA ReceiveSeen ==
  ASSUME StoreInv, NEW t \in Tid, Receive(t)
  PROVE  UNCHANGED WholeVars
<1> DEFINE x == thread[t]
<1>1. x.pc = "loop" /\ x.kind = "recv" /\ x \in Thread
  BY ThreadFacts DEF Receive, StoreInv
<1>2. PICK b, o : Becomes(t, [x EXCEPT !.read = x.read + 1, !.buf = b, !.off = o])
  <2>1. CASE Full(t)
    <3>1. Becomes(t, [x EXCEPT !.read = x.read + 1, !.buf = << <<x.up, x.read + 1>> >>,
                               !.off = x.off + Len(x.buf)])
      BY <2>1 DEF Receive, Becomes, StoreInv, TypeOK
    <3>2. QED
      BY <3>1
  <2>2. CASE ~ Full(t)
    <3>1. Becomes(t, [x EXCEPT !.read = x.read + 1,
                               !.buf = Append(x.buf, <<x.up, x.read + 1>>),
                               !.off = x.off])
      BY <1>1, <2>2 DEF Receive, Becomes, StoreInv, TypeOK, Thread
    <3>2. QED
      BY <3>1
  <2>3. QED
    BY <2>1, <2>2
<1>3. UNCHANGED content \/ \E d : Gets(x.file, d)
  BY DEF Receive, Flush, Gets
<1> DEFINE y == [x EXCEPT !.read = x.read + 1, !.buf = b, !.off = o]
<1>4. /\ y.pc = "loop" /\ y.kind = x.kind /\ y.file = x.file /\ y.up = x.up
      /\ y.total = x.total /\ y.sent = x.sent
  BY <1>1 DEF Thread
<1>5. Becomes(t, y)
  BY <1>2
<1> HIDE DEF y
<1>6. InUse(x) /\ InUse(y) /\ ~ Got(x) /\ ~ Got(y)
  BY <1>1, <1>4 DEF InUse, Got
<1>7. x = thread[t]
  OBVIOUS
<1> HIDE DEF x
<1>8. QED
  BY <1>1, <1>3, <1>4, <1>5, <1>6, <1>7, QuietStep

LEMMA SendSeen ==
  ASSUME StoreInv, NEW t \in Tid, Send(t)
  PROVE  UNCHANGED WholeVars
<1> DEFINE x == thread[t]
           y == [x EXCEPT !.sent = Append(x.sent, content[x.file][x.off + 1]),
                          !.off = x.off + 1]
<1>1. x.pc = "loop" /\ Becomes(t, y) /\ UNCHANGED content
  BY DEF Send, Becomes, StoreInv, TypeOK
<1>2. x \in Thread
  BY ThreadFacts DEF StoreInv
<1>3. /\ y.pc = "loop" /\ y.kind = x.kind /\ y.file = x.file /\ y.up = x.up
      /\ y.total = x.total /\ x.kind \in {"send", "recv"}
  BY <1>1, <1>2 DEF Thread
<1> HIDE DEF y
<1>4. InUse(x) /\ InUse(y) /\ ~ Got(x) /\ ~ Got(y)
  BY <1>1, <1>3 DEF InUse, Got
<1>5. x = thread[t]
  OBVIOUS
<1> HIDE DEF x
<1>6. QED
  BY <1>1, <1>3, <1>4, <1>5, QuietStep

LEMMA ReportSeen ==
  ASSUME StoreInv, NEW t \in Tid, Report(t)
  PROVE  UNCHANGED WholeVars
<1> DEFINE x == thread[t]
           y == [x EXCEPT !.pc = "close"]
<1>1. x.pc = "report" /\ Becomes(t, y) /\ UNCHANGED content
  BY DEF Report, Becomes, StoreInv, TypeOK
<1>2. x \in Thread
  BY ThreadFacts DEF StoreInv
<1>3. /\ y.pc = "close" /\ y.kind = x.kind /\ y.file = x.file /\ y.up = x.up
      /\ y.total = x.total /\ y.sent = x.sent /\ x.kind \in {"send", "recv"}
  BY <1>2 DEF Thread
<1> HIDE DEF y
<1>4. InUse(x) /\ InUse(y) /\ (Got(x) <=> Got(y))
  BY <1>1, <1>3 DEF InUse, Got
<1>5. x = thread[t]
  OBVIOUS
<1> HIDE DEF x
<1>6. QED
  BY <1>1, <1>3, <1>4, <1>5, QuietStep

(* Only what Getter t has is seen to change. *)
LEMMA OneGetterSeen ==
  ASSUME NEW t \in Tid, NEW x, x = thread[t], NEW y, thread'[t] = y, Others(t),
         \A g \in Kept :
           /\ ~ Has(x, g) /\ ~ Has(y, g) /\ ~ Left(x, g) /\ ~ Left(y, g)
           /\ content'[g] = content[g]
  PROVE  /\ StoredNow' = StoredNow
         /\ SendingNow' = SendingNow
         /\ BrokenNow' = BrokenNow
         /\ FetchedNow' = [FetchedNow EXCEPT ![t] = FetchedView(t)']
<1>1. ASSUME NEW g \in Kept
      PROVE  /\ StoredView(g)' = StoredView(g)
             /\ SendingView(g)' = SendingView(g)
             /\ BrokeOff(g)' = BrokeOff(g)
  BY <1>1, FileUnseen
<1>2. ASSUME NEW g \in Tid, g # t PROVE FetchedView(g)' = FetchedView(g)
  BY <1>2, GetterUnseen
<1>3. FetchedNow' = [FetchedNow EXCEPT ![t] = FetchedView(t)']
  BY <1>2 DEF FetchedNow
<1>4. StoredNow' = StoredNow /\ SendingNow' = SendingNow
  BY <1>1 DEF StoredNow, SendingNow
<1>5. BrokenNow' = BrokenNow
  BY <1>1 DEF BrokenNow
<1>6. QED
  BY <1>3, <1>4, <1>5

(* A download ends with the whole file: EndDownload. *)
LEMMA EndOfDataSeen ==
  ASSUME StoreInv, NEW t \in Tid, EndOfData(t)
  PROVE  Whole!Next \/ UNCHANGED WholeVars
<1> DEFINE x == thread[t]
           f == x.file
           d == content[x.file]
           y == [x EXCEPT !.pc = "report"]
<1>1. /\ x.pc = "loop" /\ Becomes(t, y) /\ UNCHANGED content
      /\ x.kind = "send" => x.off >= Len(d)
  BY DEF EndOfData, SizeOf, Becomes, StoreInv, TypeOK
<1>2. /\ x \in Thread /\ d \in Pieces(MaxChunks) /\ x.sent \in Pieces(MaxChunks)
      /\ Len(d) \in Nat /\ x.off \in Nat
  BY ThreadFacts, ChunkFacts DEF StoreInv, Thread
<1>3. /\ y.pc = "report" /\ y.kind = x.kind /\ y.file = x.file /\ y.up = x.up
      /\ y.total = x.total /\ y.sent = x.sent /\ x.kind \in {"send", "recv"}
  BY <1>2 DEF Thread
<1> HIDE DEF y
<1>4. thread'[t] = y /\ Others(t)
  BY <1>1, StepFacts
<1>5. InUse(x) /\ InUse(y)
  BY <1>1, <1>3 DEF InUse
<1>6. CASE ~ (x.kind = "send" /\ f \in Kept)
  <2>1. ~ Got(x) /\ ~ Got(y)
    BY <1>3, <1>6 DEF Got
  <2>2. x = thread[t]
    OBVIOUS
  <2> HIDE DEF x
  <2>3. QED
    BY <1>1, <1>3, <1>5, <2>1, <2>2, QuietStep
<1>7. CASE x.kind = "send" /\ f \in Kept
  <2>1. Buffered(x) /\ Followed(x, d)
    BY <1>5, <1>7 DEF StoreInv, AllBuffered, AllFollowed
  <2>2. /\ x.off <= Len(d) /\ Len(x.sent) = x.off
        /\ \A i \in 1..x.off : x.sent[i] = d[i]
    BY <1>1, <1>7, <2>1 DEF Buffered, Followed
  <2>3. Len(x.sent) = Len(d)
    BY <1>1, <1>2, <1>7, <2>2
  <2>4. x.sent = d
    BY <1>2, <2>2, <2>3, ChunkFacts, SamePieces
  <2>5. Receiving(f) = {}
    BY <1>5, <1>7 DEF StoreInv, Alone, Receiving, Receives, InUse
  <2>6. StoredNow[f] = d /\ StoredNow[f] # <<Hole>>
    BY <1>7, <2>5, Seen DEF StoredNow
  <2>7. \A g \in Kept : /\ ~ Has(x, g) /\ ~ Has(y, g) /\ ~ Left(x, g) /\ ~ Left(y, g)
                        /\ content'[g] = content[g]
    BY <1>1, <1>3, <1>7 DEF Has, Left
  <2>8. FetchedView(t)' = x.sent
    BY <1>3, <1>4, <1>7 DEF FetchedView, Downloaded
  <2>9. x = thread[t]
    OBVIOUS
  <2> HIDE DEF x
  <2>10. /\ StoredNow' = StoredNow /\ SendingNow' = SendingNow /\ BrokenNow' = BrokenNow
         /\ FetchedNow' = [FetchedNow EXCEPT ![t] = FetchedView(t)']
    BY <1>4, <2>7, <2>9, OneGetterSeen
  <2>11. FetchedNow' = [FetchedNow EXCEPT ![t] = StoredNow[f]]
    BY <2>4, <2>6, <2>8, <2>10
  <2> HIDE DEF f
  <2>12. Whole!EndDownload(t, f)
    BY <2>6, <2>10, <2>11 DEF Whole!EndDownload
  <2>13. f \in Kept
    BY <1>7
  <2>14. QED
    BY <2>12, <2>13 DEF Whole!Next
<1>8. QED
  BY <1>6, <1>7

(* A broken upload leaves a beginning of itself: BreakUpload. *)
LEMMA BreakSeen ==
  ASSUME StoreInv, NEW t \in Tid, Break(t)
  PROVE  Whole!Next \/ UNCHANGED WholeVars
<1> DEFINE x == thread[t]
           y == [x EXCEPT !.pc = "dead"]
<1>1. PICK f : f = x.file
  OBVIOUS
<1>2. x.pc = "loop" /\ Becomes(t, y) /\ UNCHANGED content
  BY DEF Break, Becomes, StoreInv, TypeOK
<1>3. x \in Thread
  BY ThreadFacts DEF StoreInv
<1>4. y.pc = "dead" /\ y.kind = x.kind /\ y.file = x.file
  BY <1>3 DEF Thread
<1> HIDE DEF y
<1>5. thread'[t] = y /\ Others(t)
  BY <1>2, StepFacts
<1>6. ~ Got(x) /\ ~ Got(y) /\ InUse(x)
  BY <1>2, <1>4 DEF Got, InUse
<1>7. CASE ~ (x.kind = "recv" /\ f \in Kept)
  <2>1. \A g \in Kept : ~ Has(x, g) /\ ~ Has(y, g) /\ ~ Left(x, g) /\ ~ Left(y, g)
    BY <1>4, <1>7, <1>1 DEF Has, Left
  <2>2. x = thread[t]
    OBVIOUS
  <2> HIDE DEF x
  <2>3. QED
    BY <1>2, <1>5, <1>6, <2>1, <2>2, Unseen
<1>8. CASE x.kind = "recv" /\ f \in Kept
  <2>1. Has(x, f) /\ ~ Has(y, f) /\ ~ Left(x, f) /\ Left(y, f)
    BY <1>2, <1>4, <1>6, <1>8, <1>1 DEF Has, Left, InUse
  <2>2. \A g \in Kept \ {f} :
          /\ ~ Has(x, g) /\ ~ Has(y, g) /\ ~ Left(x, g) /\ ~ Left(y, g)
          /\ content'[g] = content[g]
    BY <1>2, <1>4, <1>1 DEF Has, Left
  <2>3. Buffered(x) /\ Uploaded(x, content[f])
    BY <1>6, <1>8, <1>1 DEF StoreInv, AllBuffered, AllFollowed
  <2>4. content[f] = Upload(x.up, x.off) /\ x.up \in 1..MaxUploads
    BY <1>8, <2>3 DEF Buffered, Uploaded
  <2>5. /\ x.off \in 0..x.total /\ x.total \in 0..MaxChunks
    <3>1. x.off + Len(x.buf) = x.read /\ x.read <= x.total
      BY <1>8, <2>3 DEF Buffered
    <3>2. /\ x.off \in Nat /\ Len(x.buf) \in Nat /\ x.read \in Nat
          /\ x.total \in 0..MaxChunks /\ x.total \in Nat
      BY <1>3, ThreadFacts, ChunkFacts DEF StoreInv, Thread
    <3> DEFINE o == x.off
               l == Len(x.buf)
               n == x.total
               r == x.read
    <3> HIDE DEF o, l, n, r
    <3>3. o + l = r /\ r <= n /\ o \in Nat /\ l \in Nat /\ r \in Nat /\ n \in Nat
      BY <3>1, <3>2 DEF o, l, n, r
    <3>4. o \in 0..n
      BY <3>3
    <3>5. QED
      BY <3>2, <3>4 DEF o, n
  <2>6. x = thread[t]
    OBVIOUS
  <2> HIDE DEF x
  <2>7. /\ Receiving(f) = {t}
        /\ StoredView(f) = <<Hole>>
        /\ SendingView(f) = Upload(x.up, x.total)
    BY <1>8, <2>1, <2>6, Solo
  <2>8. /\ StoredNow' = [StoredNow EXCEPT ![f] = StoredView(f)']
        /\ SendingNow' = [SendingNow EXCEPT ![f] = SendingView(f)']
        /\ FetchedNow' = FetchedNow
        /\ BrokenNow' = [BrokenNow EXCEPT ![f] = Cardinality(BrokeOff(f))']
    BY <1>5, <1>6, <1>8, <2>2, <2>6, OneFileSeen
  <2>9. /\ Receiving(f)' = {}
        /\ BrokeOff(f)' = BrokeOff(f) \cup {t}
        /\ t \notin BrokeOff(f)
    BY <1>5, <2>1, <2>6, <2>7, ReceivingAfter
  <2>10. StoredView(f)' = content[f] /\ SendingView(f)' = <<>>
    BY <1>2, <2>9 DEF StoredView, SendingView
  <2>11. Cardinality(BrokeOff(f))' = Cardinality(BrokeOff(f)) + 1
    <3>1. IsFiniteSet(BrokeOff(f))
      BY <1>8 DEF StoreInv, FewBroken
    <3> DEFINE B == BrokeOff(f)
               C == BrokeOff(f)'
    <3> HIDE DEF B, C
    <3>2. Cardinality(B \cup {t}) = Cardinality(B) + 1
      BY <2>9, <3>1, FS_AddElement DEF B
    <3>3. C = B \cup {t}
      BY <2>9 DEF B, C
    <3>4. QED
      BY <3>2, <3>3 DEF B, C
  <2>12. /\ StoredNow[f] = <<Hole>>
         /\ SendingNow[f] = Upload(x.up, x.total)
         /\ BrokenNow[f] = Cardinality(BrokeOff(f))
    BY <1>8, <2>7 DEF StoredNow, SendingNow, BrokenNow
  <2>13. /\ content[f] = Whole!Prefix(SendingNow[f], x.off)
         /\ x.off \in 0..Len(SendingNow[f])
    BY <2>4, <2>5, <2>6, <2>12, Beginning
  <2>14. \E n \in 0..Len(SendingNow[f]) :
           StoredNow' = [StoredNow EXCEPT ![f] = Whole!Prefix(SendingNow[f], n)]
    BY <2>8, <2>10, <2>13
  <2>15. BrokenNow' = [BrokenNow EXCEPT ![f] = BrokenNow[f] + 1]
    BY <2>8, <2>11, <2>12
  <2>16. SendingNow' = [SendingNow EXCEPT ![f] = <<>>]
    BY <2>8, <2>10
  <2>17. Whole!BreakUpload(f)
    BY <2>8, <2>12, <2>14, <2>15, <2>16 DEF Whole!BreakUpload
  <2>18. QED
    BY <1>8, <2>17 DEF Whole!Next
<1>9. QED
  BY <1>7, <1>8

(* A client forgets its download, or an upload ends with the whole file:    *)
(* Forget, EndUpload.                                                       *)
LEMMA CloseSeen ==
  ASSUME StoreInv, NEW t \in Tid, Close(t)
  PROVE  Whole!Next \/ UNCHANGED WholeVars
<1> DEFINE x == thread[t]
           d == Written(content[x.file], x.off, x.buf)
<1>1. PICK f : f = x.file
  OBVIOUS
<1>2. x.pc = "close" /\ Becomes(t, Idle) /\ Gets(f, d)
  BY <1>1 DEF Close, Flush, Becomes, Gets, StoreInv, TypeOK
<1>3. thread'[t] = Idle /\ Others(t) /\ x \in Thread /\ f \in File
  BY <1>1, <1>2, StepFacts, ThreadFacts DEF StoreInv
<1>4. /\ InUse(x) /\ ~ Got(Idle)
      /\ \A g : ~ Has(Idle, g) /\ ~ Left(Idle, g) /\ ~ Left(x, g)
  BY <1>2, IdleFields DEF InUse, Got, Has, Left
<1>5. /\ \A g \in Kept : g \in File
      /\ \A g \in File : g # f => content'[g] = content[g]
      /\ content'[f] = d
  BY <1>2, <1>3, FileAssumption DEF Gets, StoreInv, TypeOK
<1>6. x = thread[t]
  OBVIOUS
<1>7. CASE f \notin Kept
  <2>1. ~ Got(x) /\ \A g \in Kept : ~ Has(x, g) /\ content'[g] = content[g]
    BY <1>1, <1>5, <1>7 DEF Got, Has
  <2> HIDE DEF x, d
  <2>2. QED
    BY <1>3, <1>4, <1>6, <2>1, Unseen
<1>8. CASE f \in Kept /\ x.kind = "send"
  <2>1. x.buf = <<>>
    BY <1>8 DEF StoreInv, AllBuffered, Buffered
  <2>2. d = content[f]
    BY <1>1, <2>1 DEF Written
  <2>3. \A g \in Kept : ~ Has(x, g) /\ content'[g] = content[g]
    BY <1>5, <1>8, <2>2 DEF Has
  <2>4. FetchedView(t)' = Nothing
    BY <1>3, IdleFields DEF FetchedView, Downloaded
  <2> HIDE DEF x, d
  <2>5. /\ StoredNow' = StoredNow /\ SendingNow' = SendingNow /\ BrokenNow' = BrokenNow
        /\ FetchedNow' = [FetchedNow EXCEPT ![t] = FetchedView(t)']
    BY <1>3, <1>4, <1>6, <2>3, OneGetterSeen
  <2>6. Whole!Forget(t)
    BY <2>4, <2>5 DEF Whole!Forget
  <2>7. QED
    BY <2>6 DEF Whole!Next
<1>9. CASE f \in Kept /\ x.kind = "recv"
  <2>1. Has(x, f) /\ ~ Got(x) /\ \A g \in Kept \ {f} : ~ Has(x, g)
    BY <1>1, <1>4, <1>9 DEF Has, Got
  <2>2. d = Upload(x.up, x.read)
    BY <1>1, <1>4, <1>9, FlushFacts
  <2>3. x.read = x.total
    BY <1>2, <1>9 DEF StoreInv, AllBuffered, Buffered
  <2> HIDE DEF x, d
  <2>4. /\ Receiving(f) = {t}
        /\ StoredView(f) = <<Hole>>
        /\ SendingView(f) = Upload(x.up, x.total)
    BY <1>6, <1>9, <2>1, Solo
  <2>5. \A g \in Kept \ {f} : content'[g] = content[g]
    BY <1>5
  <2>6. /\ StoredNow' = [StoredNow EXCEPT ![f] = StoredView(f)']
        /\ SendingNow' = [SendingNow EXCEPT ![f] = SendingView(f)']
        /\ FetchedNow' = FetchedNow
        /\ BrokenNow' = [BrokenNow EXCEPT ![f] = Cardinality(BrokeOff(f))']
    BY <1>3, <1>4, <1>6, <1>9, <2>1, <2>5, OneFileSeen
  <2>7. /\ Receiving(f)' = {}
        /\ BrokeOff(f)' = BrokeOff(f)
    <3>1. /\ Receiving(f)' = Receiving(f) \ {t}
          /\ BrokeOff(f)' = BrokeOff(f) \ {t}
          /\ t \notin BrokeOff(f)
      BY <1>3, <1>4, <1>6, ReceivingAfter
    <3>2. QED
      BY <2>4, <3>1
  <2>8. StoredView(f)' = d /\ SendingView(f)' = <<>>
    BY <1>5, <2>7 DEF StoredView, SendingView
  <2>9. StoredNow[f] = <<Hole>> /\ SendingNow[f] = Upload(x.up, x.total)
    BY <1>9, <2>4 DEF StoredNow, SendingNow
  <2>10. UNCHANGED BrokenNow
    BY <2>6, <2>7, <1>9 DEF BrokenNow
  <2>11. StoredNow' = [StoredNow EXCEPT ![f] = SendingNow[f]]
    BY <2>2, <2>3, <2>6, <2>8, <2>9
  <2>12. SendingNow' = [SendingNow EXCEPT ![f] = <<>>]
    BY <2>6, <2>8
  <2>13. Whole!EndUpload(f)
    BY <2>6, <2>9, <2>10, <2>11, <2>12 DEF Whole!EndUpload
  <2>14. QED
    BY <1>9, <2>13 DEF Whole!Next
<1>10. QED
  BY <1>3, <1>7, <1>8, <1>9 DEF Thread

LEMMA MainUnseen ==
  ASSUME UNCHANGED <<content, thread>> PROVE UNCHANGED WholeVars
<1>1. ASSUME NEW f \in Kept
      PROVE  /\ StoredView(f)' = StoredView(f)
             /\ SendingView(f)' = SendingView(f)
             /\ BrokeOff(f)' = BrokeOff(f)
  BY DEF StoredView, SendingView, BrokeOff, Receiving, Receives
<1>2. ASSUME NEW t \in Tid PROVE FetchedView(t)' = FetchedView(t)
  BY DEF FetchedView, Downloaded
<1>3. StoredNow' = StoredNow /\ SendingNow' = SendingNow
  BY <1>1 DEF StoredNow, SendingNow
<1>4. FetchedNow' = FetchedNow
  BY <1>2 DEF FetchedNow
<1>5. BrokenNow' = BrokenNow
  BY <1>1 DEF BrokenNow
<1>6. QED
  BY <1>3, <1>4, <1>5 DEF WholeVars

LEMMA NextSeen ==
  ASSUME StoreInv, [Next]_vars
  PROVE  [Whole!Next]_WholeVars
<1>1. ASSUME NEW t \in Tid, NEW f \in File, NEW n \in 0..MaxChunks, Stor(t, f, n)
      PROVE  Whole!Next \/ UNCHANGED WholeVars
  BY <1>1, StorSeen
<1>2. ASSUME NEW t \in Tid, NEW f \in File, RetrOpen(t, f)
      PROVE  Whole!Next \/ UNCHANGED WholeVars
  BY <1>2, RetrOpenSeen
<1>3. ASSUME NEW t \in Tid, RetrSize(t)
      PROVE  Whole!Next \/ UNCHANGED WholeVars
  BY <1>3, RetrSizeSeen
<1>4. CASE \/ ListOpen \/ ListReopen \/ ListDone
           \/ \E f \in File : ListMeasure(f) \/ ListPrint(f)
           \/ UNCHANGED vars
  <2>1. UNCHANGED <<content, thread>>
    BY <1>4 DEF ListOpen, ListMeasure, ListReopen, ListPrint, ListDone, vars
  <2>2. QED
    BY <2>1, MainUnseen
<1>5. ASSUME NEW t \in Tid, ThreadStep(t)
      PROVE  Whole!Next \/ UNCHANGED WholeVars
  BY <1>5, ReceiveSeen, SendSeen, EndOfDataSeen, BreakSeen, ReportSeen, CloseSeen
    DEF ThreadStep
<1>6. QED
  BY <1>1, <1>2, <1>3, <1>4, <1>5 DEF Next, MainStep

LEMMA InitSeen == Init => Whole!Init
<1> SUFFICES ASSUME Init PROVE Whole!Init
  OBVIOUS
<1>1. /\ \A t \in Tid : thread[t].pc = "idle"
      /\ \A f \in Kept : content[f] = <<>>
  BY FileAssumption, IdleFields DEF Init
<1>2. ASSUME NEW f \in Kept PROVE Receiving(f) = {} /\ BrokeOff(f) = {}
  BY <1>1 DEF Receiving, Receives, BrokeOff
<1>3. ASSUME NEW f \in Kept
      PROVE  /\ StoredView(f) = <<>> /\ SendingView(f) = <<>>
             /\ Cardinality(BrokeOff(f)) = 0
  BY <1>1, <1>2, FS_EmptySet DEF StoredView, SendingView
<1>4. ASSUME NEW t \in Tid PROVE FetchedView(t) = Nothing
  BY <1>1 DEF FetchedView, Downloaded
<1>5. QED
  BY <1>3, <1>4 DEF Whole!Init, StoredNow, SendingNow, FetchedNow, BrokenNow

(* Clients that keep a file to one transfer at a time see WholeFiles: an    *)
(* upload replaces the file as a whole or, where its connection breaks,     *)
(* leaves a beginning of it, and a download brings the whole of what is     *)
(* there, although recv_file and send_file move it piece by piece.          *)
THEOREM KeptFilesWhole == Spec => FilesWhole
<1>1. Spec => []StoreInv
  BY StoreInvariant
<1>2. StoreInv /\ [Next]_vars => [Whole!Next]_WholeVars
  BY NextSeen
<1>3. Init => Whole!Init
  BY InitSeen
<1>4. QED
  BY <1>1, <1>2, <1>3, PTL DEF Spec, FilesWhole, Whole!Spec, WholeVars

=============================================================================
