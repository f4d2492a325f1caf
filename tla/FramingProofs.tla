--------------------------- MODULE FramingProofs ----------------------------
(***************************************************************************)
(* What reading commands into one shared buffer keeps, for any number of   *)
(* connections and a buffer of any size.                                   *)
(***************************************************************************)
EXTENDS Framing, FiniteSetTheorems, SequenceTheorems, TLAPS

Serving == serving # Waiting

(* The server reads from a session or from nobody; the loop on a zero byte  *)
(* has lost a byte only to a client that has left.                          *)
ServingRight ==
  /\ serving.who = Nobody => serving = Waiting
  /\ Serving /\ serving.len = 0 => conn[serving.who] = "closed"

(* While the process runs, a command of one byte finds a zero behind it.    *)
ZeroBehind == up /\ serving.len <= 1 => \E i \in Cell : i >= 1 /\ inBuf[i] = Zero

(* A Careful client's line: answered, on its way, or in the buffer.         *)
Line(w) == w \o <<CR, LF>>

LineState(s) ==
  \/ /\ queue[s] = <<>> /\ serving.who # s
     /\ sent[s] = heard[s]
  \/ \E w \in Word : /\ queue[s] = Line(w) /\ serving.who # s
                     /\ sent[s] = Append(heard[s], w)
  \/ \E w \in Word : /\ queue[s] = <<>> /\ serving = [who |-> s, len |-> Len(w) + 2]
                     /\ sent[s] = Append(heard[s], w)
                     /\ \A i \in 0..Len(w) + 1 : inBuf[i] = Line(w)[i + 1]

LinesKept == \A s \in Careful : conn[s] = "open" /\ LineState(s)

(* All that a Paired client has sent is read at once; one byte of it is     *)
(* left only when the last read() failed, and then a zero stands behind it. *)
Pair(s) ==
  /\ Len(queue[s]) # 1
  /\ Unanswered(s) <= BufSize
  /\ serving.who = s => serving.len >= 1
  /\ serving.who = s /\ serving.len = 1 => inBuf[1] = Zero /\ conn[s] = "closed"

PairsKept == \A s \in Paired : Pair(s)

(* What has been read for a command is from one session.                    *)
OneSender == Serving => \A i \in Cell : i < serving.len => sender[i] = serving.who

Base == TypeOK /\ ServingRight

BytesKept == Base /\ LinesKept /\ PairsKept /\ OneSender /\ OwnBytes

-----------------------------------------------------------------------------
LEMMA Sizes == BufSize \in Int /\ BufSize > 3 /\ 0 \in Cell /\ 1 \in Cell
BY FramingBounds DEF Cell

LEMMA SmallerFacts ==
  ASSUME NEW m \in Int, NEW n \in Int
  PROVE  /\ Smaller(m, n) \in {m, n}
         /\ Smaller(m, n) <= m /\ Smaller(m, n) <= n
BY DEF Smaller

LEMMA ServingFacts ==
  ASSUME Base
  PROVE  /\ serving.len \in Int /\ 0 <= serving.len /\ serving.len <= BufSize
         /\ Serving => serving.who \in Session
         /\ ~ Serving => serving.who = Nobody /\ serving.len = 0
<1>1. serving \in [who : Session \cup {Nobody}, len : 0..BufSize]
  BY DEF Base, TypeOK
<1>2. Serving => serving.who # Nobody
  BY DEF Base, ServingRight, Serving
<1> QED
  BY <1>1, <1>2, Sizes DEF Serving, Waiting

(* read() of n bytes to in_buf + at *)
LEMMA FillFacts ==
  ASSUME TypeOK, NEW s \in Session, NEW at \in Nat, NEW n \in Nat,
         at + n <= BufSize, n <= Len(queue[s]), Fill(s, at, n)
  PROVE  /\ inBuf' \in [Cell -> Byte]
         /\ sender' \in [Cell -> Session \cup {Nobody}]
         /\ queue' \in [Session -> Seq(Byte)]
         /\ serving' \in [who : Session \cup {Nobody}, len : 0..BufSize]
         /\ serving'.who = s /\ serving'.len = at + n
         /\ queue'[s] = SubSeq(queue[s], n + 1, Len(queue[s]))
         /\ Len(queue'[s]) = Len(queue[s]) - n
         /\ \A u \in Session : u # s => queue'[u] = queue[u]
<1>1. queue[s] \in Seq(Byte) /\ Len(queue[s]) \in Nat
  BY DEF TypeOK
<1>2. ASSUME NEW i \in Cell, i >= at, i < at + n PROVE queue[s][i - at + 1] \in Byte
  <2>1. i - at + 1 \in 1..Len(queue[s])
    BY <1>1, <1>2 DEF Cell
  <2> QED
    BY <1>1, <2>1
<1>3. inBuf' \in [Cell -> Byte]
  BY <1>2 DEF Fill, TypeOK
<1>4. sender' \in [Cell -> Session \cup {Nobody}]
  BY DEF Fill, TypeOK
<1> DEFINE rest == SubSeq(queue[s], n + 1, Len(queue[s]))
<1>5. rest \in Seq(Byte) /\ Len(rest) = Len(queue[s]) - n
  <2>1. n + 1 \in Nat \ {0} /\ n + 1 <= Len(queue[s]) + 1
    BY <1>1
  <2>2. \A k \in (n + 1)..Len(queue[s]) : queue[s][k] \in Byte
    BY <1>1
  <2>3. /\ rest \in Seq(Byte)
        /\ Len(rest) = IF n + 1 <= Len(queue[s]) THEN Len(queue[s]) - (n + 1) + 1 ELSE 0
    BY <1>1, <2>1, <2>2, SubSeqProperties
  <2> HIDE DEF rest
  <2> QED
    BY <1>1, <2>3
<1>6. queue' = [queue EXCEPT ![s] = rest]
  BY DEF Fill
<1>7. at + n \in 0..BufSize
  BY Sizes
<1> HIDE DEF rest
<1>8. queue' \in [Session -> Seq(Byte)] /\ queue'[s] = rest
      /\ \A u \in Session : u # s => queue'[u] = queue[u]
  BY <1>5, <1>6 DEF TypeOK
<1> QED
  BY <1>3, <1>4, <1>5, <1>7, <1>8 DEF Fill, rest

(* The first read() of a command *)
LEMMA ReadFacts ==
  ASSUME Base, NEW s \in Session, Read(s)
  PROVE  \E n \in Nat : /\ n = Smaller(Len(queue[s]), BufSize)
                        /\ n >= 1 /\ n <= BufSize /\ n <= Len(queue[s])
                        /\ Fill(s, 0, n)
<1>1. queue[s] \in Seq(Byte) /\ queue[s] # <<>>
  BY DEF Base, TypeOK, Read
<1>2. Len(queue[s]) \in Nat /\ Len(queue[s]) >= 1
  BY <1>1
<1> DEFINE n == Smaller(Len(queue[s]), BufSize)
<1>3. n \in Nat /\ n >= 1 /\ n <= BufSize /\ n <= Len(queue[s])
  BY <1>2, Sizes, SmallerFacts
<1>4. Fill(s, 0, n)
  BY DEF Read
<1> QED
  BY <1>3, <1>4

(* The following ones *)
LEMMA ReadMoreFacts ==
  ASSUME Base, ReadMore
  PROVE  /\ serving.who \in Session
         /\ \E n \in Nat :
              /\ n = Smaller(Len(queue[serving.who]), BufSize - serving.len)
              /\ n >= 1 /\ serving.len + n <= BufSize /\ n <= Len(queue[serving.who])
              /\ Fill(serving.who, serving.len, n)
<1> DEFINE s == serving.who
           room == BufSize - serving.len
           n == Smaller(Len(queue[s]), room)
<1>1. s \in Session /\ serving.len \in Int /\ 0 <= serving.len
  BY ServingFacts DEF ReadMore, EndsInZero, Serving
<1>2. queue[s] \in Seq(Byte) /\ queue[s] # <<>>
  BY <1>1 DEF Base, TypeOK, ReadMore
<1>3. Len(queue[s]) \in Nat /\ Len(queue[s]) >= 1
  BY <1>2
<1>4. room \in Int /\ room >= 1
  BY <1>1, Sizes DEF ReadMore
<1>5. n >= 1 /\ n \in Nat /\ n <= room /\ n <= Len(queue[s])
  BY <1>3, <1>4, SmallerFacts
<1>6. serving.len + n <= BufSize
  BY <1>1, <1>5, Sizes
<1>7. Fill(s, serving.len, n)
  BY DEF ReadMore
<1> QED
  BY <1>1, <1>5, <1>6, <1>7

(* A read() that fails takes one from the length, once. *)
LEMMA ReadMoreFailsFacts ==
  ASSUME Base, ReadMoreFails
  PROVE  /\ serving.who \in Session
         /\ serving.len >= 1
         /\ serving'.who = serving.who /\ serving'.len = serving.len - 1
         /\ serving' \in [who : Session \cup {Nobody}, len : 0..BufSize]
         /\ conn[serving.who] = "reset" /\ conn' = [conn EXCEPT ![serving.who] = "closed"]
<1>1. serving.who \in Session /\ serving.len \in Int /\ 0 <= serving.len /\ serving.len <= BufSize
  BY ServingFacts DEF ReadMoreFails, EndsInZero, Serving
<1>2. conn[serving.who] = "reset" /\ conn' = [conn EXCEPT ![serving.who] = "closed"]
  BY DEF ReadMoreFails
<1>3. serving.len # 0
  BY <1>2 DEF Base, ServingRight, Serving, ReadMoreFails, EndsInZero
<1>4. serving' = [serving EXCEPT !.len = @ - 1]
  BY DEF ReadMoreFails
<1>5. serving \in [who : Session \cup {Nobody}, len : 0..BufSize]
  BY DEF Base, TypeOK
<1>6. serving'.who = serving.who /\ serving'.len = serving.len - 1
  BY <1>4, <1>5
<1>7. serving.len - 1 \in 0..BufSize
  BY <1>1, <1>3, Sizes
<1>8. serving' \in [who : Session \cup {Nobody}, len : 0..BufSize]
  BY <1>4, <1>5, <1>7
<1> QED
  BY <1>1, <1>2, <1>3, <1>6, <1>8

(* The command is a sequence of bytes. *)
LEMMA CommandType ==
  ASSUME NEW buf \in [Cell -> Byte]
  PROVE  LET cells == StringCells(buf)
         IN  [i \in 1..Cardinality(cells) |-> buf[i - 1]] \in Seq(Byte)
<1> DEFINE cells == StringCells(buf)
           n == Cardinality(cells)
<1>1. IsFiniteSet(Cell) /\ Cardinality(Cell) = BufSize
  <2>1. IsFiniteSet(0..BufSize - 1)
        /\ Cardinality(0..BufSize - 1) = IF 0 > BufSize - 1 THEN 0 ELSE BufSize - 1 - 0 + 1
    BY Sizes, FS_Interval
  <2> QED
    BY <2>1, Sizes DEF Cell
<1>2. cells \subseteq Cell
  BY DEF StringCells
<1>3. n \in Nat /\ n <= BufSize
  BY <1>1, <1>2, FS_Subset, FS_CardinalityType
<1>4. \A i \in 1..n : i - 1 \in Cell
  BY <1>3, Sizes DEF Cell
<1> HIDE DEF n
<1>5. \A i \in 1..n : buf[i - 1] \in Byte
  BY <1>4
<1>6. [i \in 1..n |-> buf[i - 1]] \in Seq(Byte)
  BY <1>3, <1>5
<1> QED
  BY <1>6 DEF n

LEMMA WordType == Word \subseteq Seq(Letter)
<1> SUFFICES ASSUME NEW w \in Word PROVE w \in Seq(Letter)
  OBVIOUS
<1>1. PICK n \in 1..BufSize - 2 : w \in [1..n -> Letter]
  BY DEF Word
<1>2. n \in Nat
  BY Sizes
<1> QED
  BY <1>1, <1>2

LEMMA WordFacts ==
  ASSUME NEW w \in Word
  PROVE  /\ Len(w) \in Nat /\ Len(w) >= 1 /\ Len(w) <= BufSize - 2
         /\ \A k \in 1..Len(w) : w[k] \in Letter /\ Line(w)[k] = w[k]
         /\ w \in [1..Len(w) -> Letter]
         /\ Line(w) \in Seq(Byte) /\ Len(Line(w)) = Len(w) + 2
         /\ Line(w)[Len(w) + 1] = CR /\ Line(w)[Len(w) + 2] = LF
<1>1. PICK n \in 1..BufSize - 2 : w \in [1..n -> Letter]
  BY DEF Word
<1>2. n \in Nat /\ n >= 1 /\ n <= BufSize - 2
  BY Sizes
<1>3. w \in Seq(Letter) /\ Len(w) = n
  BY <1>1, <1>2
<1>4. w \in Seq(Byte) /\ <<CR, LF>> \in Seq(Byte)
  BY <1>3 DEF Byte
<1>5. /\ Line(w) \in Seq(Byte)
      /\ Len(Line(w)) = n + 2
      /\ \A k \in 1..n : Line(w)[k] = w[k]
      /\ Line(w)[n + 1] = CR /\ Line(w)[n + 2] = LF
  BY <1>2, <1>3, <1>4 DEF Line
<1> QED
  BY <1>1, <1>2, <1>3, <1>5

-----------------------------------------------------------------------------
LEMMA TerminatedType ==
  ASSUME TypeOK, NEW len \in Int
  PROVE  TerminatedAt(len) \in [Cell -> Byte]
BY DEF TerminatedAt, TypeOK, Byte

LEMMA NextBase == Base /\ [Next]_vars => Base'
<1> SUFFICES ASSUME Base, [Next]_vars PROVE Base'
  OBVIOUS
<1>0. TypeOK /\ ServingRight
  BY DEF Base
<1>1. CASE UNCHANGED vars
  BY <1>0, <1>1 DEF Base, TypeOK, ServingRight, Serving, Waiting, vars, clientVars
<1>2. ASSUME NEW s \in Session, NEW w \in Word, SendLine(s, w) PROVE Base'
  <2>1. queue' = [queue EXCEPT ![s] = Line(w)] /\ Line(w) \in Seq(Byte)
    BY <1>2, WordFacts DEF SendLine, Line
  <2>2. queue' \in [Session -> Seq(Byte)]
    BY <1>0, <2>1 DEF TypeOK
  <2>3. sent' \in [Session -> Seq(Word)]
    <3>1. sent \in [Session -> Seq(Word)]
      BY <1>0 DEF TypeOK
    <3>2. Append(sent[s], w) \in Seq(Word)
      BY <3>1
    <3>3. sent' = [sent EXCEPT ![s] = Append(sent[s], w)]
      BY <1>2 DEF SendLine
    <3> QED
      BY <3>1, <3>2, <3>3
  <2>4. TypeOK'
    BY <1>0, <1>2, <2>2, <2>3 DEF SendLine, TypeOK
  <2> QED
    BY <1>0, <1>2, <2>4 DEF SendLine, Base, ServingRight, Serving, Waiting
<1>3. ASSUME NEW s \in Session, NEW piece \in Pieces, Arrive(s, piece) PROVE Base'
  <2>1. piece \in Seq(Byte)
    <3>1. PICK n \in 1..3 : piece \in [1..n -> Loose]
      BY DEF Pieces
    <3>2. piece \in [1..n -> Byte] /\ n \in Nat
      BY <3>1, ByteAssumption
    <3> QED
      BY <3>2
  <2>2. queue' \in [Session -> Seq(Byte)]
    <3>1. queue[s] \o piece \in Seq(Byte)
      BY <1>0, <2>1 DEF TypeOK
    <3> QED
      BY <1>0, <1>3, <3>1 DEF Arrive, TypeOK
  <2>3. bytes' \in [Session -> 0..MaxBytes]
    <3>1. bytes[s] \in 0..MaxBytes /\ Len(piece) \in Nat
      BY <1>0, <2>1 DEF TypeOK
    <3>2. bytes[s] + Len(piece) \in 0..MaxBytes
      BY <1>3, <3>1, FramingBounds DEF Arrive
    <3> QED
      BY <1>0, <1>3, <3>2 DEF Arrive, TypeOK
  <2>4. TypeOK'
    BY <1>0, <1>3, <2>2, <2>3 DEF Arrive, TypeOK
  <2> QED
    BY <1>0, <1>3, <2>4 DEF Arrive, Base, ServingRight, Serving, Waiting
<1>4. ASSUME NEW s \in Session, Leave(s) PROVE Base'
  <2>1. conn' \in [Session -> {"open", "reset", "closed", "gone"}]
    BY <1>0, <1>4 DEF Leave, TypeOK
  <2>2. queue' \in [Session -> Seq(Byte)]
    <3>1. queue \in [Session -> Seq(Byte)] /\ <<>> \in Seq(Byte)
      BY <1>0 DEF TypeOK
    <3>2. queue' = queue \/ queue' = [queue EXCEPT ![s] = <<>>]
      BY <1>4 DEF Leave
    <3> QED
      BY ONLY <3>1, <3>2
  <2>3. TypeOK'
    BY <1>0, <1>4, <2>1, <2>2 DEF Leave, TypeOK
  <2>4. \A u \in Session : conn[u] = "closed" => conn'[u] = "closed"
    BY <1>0, <1>4 DEF Leave, TypeOK
  <2>5. ServingRight'
    BY <1>0, <1>4, <2>4, ServingFacts DEF Leave, ServingRight, Serving, Waiting
  <2> QED
    BY <2>3, <2>5 DEF Base
<1>5. ASSUME NEW s \in Session, Read(s) PROVE Base'
  <2>1. PICK n \in Nat : n >= 1 /\ n <= BufSize /\ n <= Len(queue[s]) /\ Fill(s, 0, n)
    BY <1>5, ReadFacts
  <2>2. /\ inBuf' \in [Cell -> Byte]
        /\ sender' \in [Cell -> Session \cup {Nobody}]
        /\ queue' \in [Session -> Seq(Byte)]
        /\ serving' \in [who : Session \cup {Nobody}, len : 0..BufSize]
        /\ serving'.who = s /\ serving'.len = n
    BY <1>0, <2>1, FillFacts
  <2>3. TypeOK'
    BY <1>0, <1>5, <2>2 DEF Read, TypeOK
  <2>4. ServingRight'
    BY <2>1, <2>2, ClientAssumption DEF ServingRight
  <2> QED
    BY <2>3, <2>4 DEF Base
<1>6. ASSUME NEW s \in Session, ReadEnd(s) PROVE Base'
  <2>1. TypeOK'
    BY <1>0, <1>6 DEF ReadEnd, TypeOK
  <2>2. ServingRight'
    BY <1>0, <1>6 DEF ReadEnd, ServingRight, Serving, Waiting
  <2> QED
    BY <2>1, <2>2 DEF Base
<1>7. CASE ReadMore
  <2> DEFINE s == serving.who
  <2>1. s \in Session /\ serving.len \in Nat
    BY <1>7, ReadMoreFacts, ServingFacts
  <2>2. PICK n \in Nat : /\ n >= 1 /\ serving.len + n <= BufSize /\ n <= Len(queue[s])
                         /\ Fill(s, serving.len, n)
    BY <1>7, ReadMoreFacts
  <2> HIDE DEF s
  <2>3. /\ inBuf' \in [Cell -> Byte]
        /\ sender' \in [Cell -> Session \cup {Nobody}]
        /\ queue' \in [Session -> Seq(Byte)]
        /\ serving' \in [who : Session \cup {Nobody}, len : 0..BufSize]
        /\ serving'.who = s /\ serving'.len = serving.len + n
    BY <1>0, <2>1, <2>2, FillFacts
  <2>4. TypeOK'
    BY <1>0, <1>7, <2>3 DEF ReadMore, TypeOK
  <2>5. ServingRight'
    BY <2>1, <2>2, <2>3, ClientAssumption DEF ServingRight
  <2> QED
    BY <2>4, <2>5 DEF Base
<1>8. CASE ReadMoreFails
  <2>1. /\ serving.who \in Session
        /\ serving'.who = serving.who
        /\ serving' \in [who : Session \cup {Nobody}, len : 0..BufSize]
        /\ conn' = [conn EXCEPT ![serving.who] = "closed"]
    BY <1>8, ReadMoreFailsFacts
  <2>2. conn' \in [Session -> {"open", "reset", "closed", "gone"}]
        /\ conn'[serving.who] = "closed"
    BY <1>0, <2>1 DEF TypeOK
  <2>3. TypeOK'
    BY <1>0, <1>8, <2>1, <2>2 DEF ReadMoreFails, TypeOK
  <2>4. ServingRight'
    BY <2>1, <2>2, ClientAssumption DEF ServingRight
  <2> QED
    BY <2>3, <2>4 DEF Base
<1>9. CASE Interpret
  <2>1. serving.who \in Session /\ serving.len \in Int
    BY <1>9, ServingFacts DEF Interpret, Complete, Serving
  <2> DEFINE buf == TerminatedAt(serving.len)
             cells == StringCells(buf)
             command == [i \in 1..Cardinality(cells) |-> buf[i - 1]]
  <2>2. buf \in [Cell -> Byte]
    BY <1>0, <2>1, TerminatedType
  <2>3. command \in Seq(Byte)
    BY <2>2, CommandType
  <2>4. \/ heard' = heard
        \/ heard' = [heard EXCEPT ![serving.who] = Append(heard[serving.who], command)]
    BY <1>9 DEF Interpret
  <2>5. inBuf' = buf /\ serving' = Waiting /\ up' \in BOOLEAN
    BY <1>9 DEF Interpret
  <2>6. foreign' \subseteq foreign \cup {serving.who}
    BY <1>9 DEF Interpret
  <2>7. UNCHANGED <<sender, queue, conn, sent, bytes>>
    BY <1>9 DEF Interpret, clientVars
  <2> HIDE DEF buf, cells, command
  <2>8. heard' \in [Session -> Seq(Seq(Byte))]
    <3>1. heard \in [Session -> Seq(Seq(Byte))]
      BY <1>0 DEF TypeOK
    <3>2. Append(heard[serving.who], command) \in Seq(Seq(Byte))
      BY <2>1, <2>3, <3>1
    <3> QED
      BY <2>4, <3>1, <3>2
  <2>9. Waiting \in [who : Session \cup {Nobody}, len : 0..BufSize]
    BY Sizes DEF Waiting
  <2>10. TypeOK'
    BY <1>0, <2>1, <2>2, <2>5, <2>6, <2>7, <2>8, <2>9 DEF TypeOK
  <2>11. ServingRight'
    BY <2>5 DEF ServingRight, Serving, Waiting
  <2> QED
    BY <2>10, <2>11 DEF Base
<1> QED
  BY <1>1, <1>2, <1>3, <1>4, <1>5, <1>6, <1>7, <1>8, <1>9 DEF Next, ServerStep, ClientStep

LEMMA InitBase == Init => Base
<1> SUFFICES ASSUME Init PROVE Base
  OBVIOUS
<1>1. TypeOK
  BY Sizes, FramingBounds DEF Init, TypeOK, Waiting, Byte
<1>2. ServingRight
  BY DEF Init, ServingRight, Serving
<1> QED
  BY <1>1, <1>2 DEF Base

(* Types are kept by every way a command is cut from the stream: the length *)
(* never leaves the buffer, although read() may be asked again and fail.    *)
THEOREM TypeCorrect == Spec => []TypeOK
<1>1. Base => TypeOK
  BY DEF Base
<1> QED
  BY <1>1, InitBase, NextBase, PTL DEF Spec

-----------------------------------------------------------------------------
(* The zero behind the command *)

(* What the steps of clients and the end of a connection leave alone *)
LEMMA ServerIdle ==
  ASSUME \/ UNCHANGED vars
         \/ \E s \in Session : ClientStep(s) \/ ReadEnd(s)
  PROVE  UNCHANGED <<inBuf, sender, serving, up, heard, foreign>>
BY DEF vars, clientVars, ClientStep, SendLine, Arrive, Leave, ReadEnd

(* The kinds of step, as the proofs below take them apart *)
LEMMA Steps ==
  ASSUME [Next]_vars
  PROVE  \/ UNCHANGED vars \/ \E s \in Session : ClientStep(s) \/ ReadEnd(s)
         \/ \E s \in Session : Read(s)
         \/ ReadMore \/ ReadMoreFails \/ Interpret
BY DEF Next, ServerStep

LEMMA FillCells ==
  ASSUME NEW s \in Session, NEW at \in Nat, NEW n \in Nat, Fill(s, at, n)
  PROVE  /\ \A i \in Cell : i >= at /\ i < at + n =>
                inBuf'[i] = queue[s][i - at + 1] /\ sender'[i] = s
         /\ \A i \in Cell : ~(i >= at /\ i < at + n) =>
                inBuf'[i] = inBuf[i] /\ sender'[i] = sender[i]
BY DEF Fill

LEMMA TerminatedCells ==
  ASSUME NEW len \in Int, len <= BufSize
  PROVE  /\ \A i \in Cell : i # len - 2 => TerminatedAt(len)[i] = inBuf[i]
         /\ len >= 2 => len - 2 \in Cell /\ TerminatedAt(len)[len - 2] = Zero
<1>1. len >= 2 => len - 2 \in Cell
  BY Sizes DEF Cell
<1> QED
  BY <1>1 DEF TerminatedAt

LEMMA NextZeroBehind == Base /\ ZeroBehind /\ [Next]_vars => ZeroBehind'
<1> SUFFICES ASSUME Base, ZeroBehind, [Next]_vars PROVE ZeroBehind'
  OBVIOUS
<1>1. serving.len \in Int /\ 0 <= serving.len /\ serving.len <= BufSize
  BY ServingFacts
<1>2. CASE UNCHANGED <<inBuf, sender, serving, up, heard, foreign>>
  BY <1>2 DEF ZeroBehind
<1>3. ASSUME NEW s \in Session, Read(s) PROVE ZeroBehind'
  <2>1. PICK n \in Nat : n >= 1 /\ n <= BufSize /\ n <= Len(queue[s]) /\ Fill(s, 0, n)
    BY <1>3, ReadFacts
  <2>2. serving'.len = n
    BY <2>1 DEF Fill
  <2>3. CASE n = 1
    <3>1. PICK i \in Cell : i >= 1 /\ inBuf[i] = Zero
      BY <1>3 DEF Read, Waiting, ZeroBehind
    <3>2. ~(i >= 0 /\ i < 0 + n)
      BY <2>3, <3>1 DEF Cell
    <3>3. inBuf'[i] = Zero
      BY <2>1, <3>1, <3>2 DEF Fill
    <3> QED
      BY <3>1, <3>3 DEF ZeroBehind
  <2> QED
    BY <2>1, <2>2, <2>3 DEF ZeroBehind
<1>4. CASE ReadMore
  <2>1. PICK n \in Nat : n >= 1 /\ Fill(serving.who, serving.len, n)
    BY <1>4, ReadMoreFacts
  <2>2. serving.who \in Session /\ serving.len \in Nat
    BY <1>1, <1>4, ReadMoreFacts
  <2>3. serving'.len = serving.len + n
    BY <2>1 DEF Fill
  <2>4. CASE serving.len = 0 /\ n = 1
    <3>1. PICK i \in Cell : i >= 1 /\ inBuf[i] = Zero
      BY <1>4, <2>4 DEF ReadMore, EndsInZero, ZeroBehind
    <3>2. ~(i >= serving.len /\ i < serving.len + n)
      BY <2>4, <3>1 DEF Cell
    <3>3. inBuf'[i] = Zero
      BY <2>1, <2>2, <3>1, <3>2, FillCells
    <3> QED
      BY <3>1, <3>3 DEF ZeroBehind
  <2>5. serving'.len <= 1 => serving.len = 0 /\ n = 1
    BY <2>1, <2>2, <2>3
  <2> QED
    BY <2>4, <2>5 DEF ZeroBehind
<1>5. CASE ReadMoreFails
  <2>1. serving'.len = serving.len - 1 /\ inBuf' = inBuf /\ up' = up /\ up
    BY <1>5, ReadMoreFailsFacts DEF ReadMoreFails, EndsInZero
  <2>2. CASE serving.len = 2
    BY <1>5, <2>1, <2>2, Sizes DEF ReadMoreFails, EndsInZero, ByteAt, ZeroBehind
  <2>3. CASE serving.len <= 1
    BY <2>1, <2>3 DEF ZeroBehind
  <2>4. serving'.len <= 1 => serving.len = 2 \/ serving.len <= 1
    BY <1>1, <2>1
  <2> QED
    BY <2>2, <2>3, <2>4 DEF ZeroBehind
<1>6. CASE Interpret
  <2>1. /\ inBuf' = TerminatedAt(serving.len)
        /\ up' = (StringCells(inBuf') # {})
        /\ up /\ serving'.len = 0
    BY <1>6 DEF Interpret, Complete, Waiting
  <2>2. CASE serving.len >= 3
    <3>1. serving.len - 2 \in Cell /\ inBuf'[serving.len - 2] = Zero /\ serving.len - 2 >= 1
      BY <1>1, <2>1, <2>2, TerminatedCells
    <3> QED
      BY <3>1 DEF ZeroBehind
  <2>3. CASE serving.len = 2
    <3>1. inBuf'[0] = Zero
      BY <1>1, <2>1, <2>3, TerminatedCells
    <3>2. \A i \in Cell : 0 \in 0..i
      BY DEF Cell
    <3>3. ~up'
      BY <2>1, <3>1, <3>2 DEF StringCells
    <3> QED
      BY <3>3 DEF ZeroBehind
  <2>4. CASE serving.len <= 1
    <3>1. PICK i \in Cell : i >= 1 /\ inBuf[i] = Zero
      BY <2>1, <2>4 DEF ZeroBehind
    <3>2. i # serving.len - 2
      BY <1>1, <2>4, <3>1 DEF Cell
    <3>3. inBuf'[i] = Zero
      BY <1>1, <2>1, <3>1, <3>2, TerminatedCells
    <3> QED
      BY <3>1, <3>3 DEF ZeroBehind
  <2> QED
    BY <1>1, <2>2, <2>3, <2>4
<1> QED
  BY <1>2, <1>3, <1>4, <1>5, <1>6, ServerIdle, Steps

(* strcpy() of the command stops inside the buffer, whatever was sent in    *)
(* whatever pieces: interpret() always finds a zero.                        *)
THEOREM ZeroIsInside == Spec => []ZeroInside
<1>1. Init => ZeroBehind
  BY Sizes DEF Init, ZeroBehind
<1>2. ASSUME Base, ZeroBehind PROVE ZeroInside
  <2> SUFFICES ASSUME Complete PROVE \E i \in Cell : TerminatedAt(serving.len)[i] = Zero
    BY DEF ZeroInside
  <2>1. serving.len \in Int /\ 0 <= serving.len /\ serving.len <= BufSize
    BY <1>2, ServingFacts
  <2>2. CASE serving.len >= 2
    BY <2>1, <2>2, TerminatedCells
  <2>3. CASE serving.len <= 1
    <3>1. PICK i \in Cell : i >= 1 /\ inBuf[i] = Zero
      BY <1>2, <2>3 DEF Complete, ZeroBehind
    <3>2. i # serving.len - 2
      BY <2>1, <2>3, <3>1 DEF Cell
    <3> QED
      BY <2>1, <3>1, <3>2, TerminatedCells
  <2> QED
    BY <2>1, <2>2, <2>3
<1> QED
  BY <1>1, <1>2, InitBase, NextBase, NextZeroBehind, PTL DEF Spec

-----------------------------------------------------------------------------
(* The lines of a Careful client *)

LEMMA LineKept ==
  ASSUME NEW s \in Session, LineState(s),
         queue'[s] = queue[s], sent'[s] = sent[s], heard'[s] = heard[s],
         \/ serving' = serving /\ inBuf' = inBuf
         \/ serving.who # s /\ serving'.who # s
  PROVE  LineState(s)'
<1>1. CASE queue[s] = <<>> /\ serving.who # s /\ sent[s] = heard[s]
  <2>1. serving'.who # s
    BY <1>1
  <2> QED
    BY <1>1, <2>1 DEF LineState
<1>2. ASSUME NEW w \in Word, queue[s] = Line(w), serving.who # s,
             sent[s] = Append(heard[s], w)
      PROVE  LineState(s)'
  <2>1. serving'.who # s
    BY <1>2
  <2> QED
    BY <1>2, <2>1 DEF LineState
<1>3. ASSUME NEW w \in Word, queue[s] = <<>>, serving = [who |-> s, len |-> Len(w) + 2],
             sent[s] = Append(heard[s], w),
             \A i \in 0..Len(w) + 1 : inBuf[i] = Line(w)[i + 1]
      PROVE  LineState(s)'
  <2>1. serving' = serving /\ inBuf' = inBuf
    BY <1>3
  <2> QED
    BY <1>3, <2>1 DEF LineState
<1> QED
  BY <1>1, <1>2, <1>3 DEF LineState

(* What interpret() takes from a buffer with a line in it is the line's word. *)
LEMMA WordHeard ==
  ASSUME TypeOK, NEW w \in Word, \A i \in 0..Len(w) + 1 : inBuf[i] = Line(w)[i + 1]
  PROVE  LET buf == TerminatedAt(Len(w) + 2)
             cells == StringCells(buf)
         IN  /\ cells = 0..Len(w) - 1
             /\ [i \in 1..Cardinality(cells) |-> buf[i - 1]] = w
<1> DEFINE n == Len(w)
           buf == TerminatedAt(n + 2)
           cells == StringCells(buf)
<1>1. n \in Nat /\ n >= 1 /\ n <= BufSize - 2
  BY WordFacts
<1>2. \A k \in 1..n : w[k] \in Letter /\ Line(w)[k] = w[k]
  BY WordFacts
<1>3. w \in [1..n -> Letter]
  BY WordFacts
<1> HIDE DEF n
<1>4. n \in Cell /\ buf[n] = Zero /\ \A i \in Cell : i # n => buf[i] = inBuf[i]
  <2>1. n + 2 \in Int /\ n + 2 <= BufSize /\ n + 2 >= 2 /\ (n + 2) - 2 = n
    BY <1>1, Sizes
  <2> QED
    BY <2>1, TerminatedCells
<1>5. \A i \in 0..n - 1 : i \in Cell /\ buf[i] = w[i + 1] /\ buf[i] # Zero
  <2> SUFFICES ASSUME NEW i \in 0..n - 1
               PROVE  i \in Cell /\ buf[i] = w[i + 1] /\ buf[i] # Zero
    OBVIOUS
  <2>1. i \in Cell /\ i # n /\ i \in 0..n + 1 /\ i + 1 \in 1..n
    BY <1>1, Sizes DEF Cell
  <2>2. inBuf[i] = Line(w)[i + 1]
    BY <2>1 DEF n
  <2>3. buf[i] = w[i + 1]
    BY <1>2, <1>4, <2>1, <2>2
  <2>4. w[i + 1] # Zero
    BY <1>2, <2>1, ByteAssumption
  <2> QED
    BY <2>1, <2>3, <2>4
<1>6. cells = 0..n - 1
  <2>1. ASSUME NEW i \in Cell, \A j \in 0..i : buf[j] # Zero PROVE i \in 0..n - 1
    <3>1. ~(n \in 0..i)
      BY <1>4, <2>1
    <3> QED
      BY <1>1, <3>1, Sizes DEF Cell
  <2>2. ASSUME NEW i \in 0..n - 1 PROVE \A j \in 0..i : buf[j] # Zero
    BY <1>1, <1>5
  <2> HIDE DEF buf
  <2> QED
    BY <1>5, <2>1, <2>2 DEF StringCells
<1>7. Cardinality(cells) = n
  <2>1. Cardinality(0..n - 1) = IF 0 > n - 1 THEN 0 ELSE n - 1 - 0 + 1
    BY <1>1, FS_Interval
  <2> QED
    BY <1>1, <1>6, <2>1
<1>8. \A i \in 1..n : buf[i - 1] = w[i]
  <2> SUFFICES ASSUME NEW i \in 1..n PROVE buf[i - 1] = w[i]
    OBVIOUS
  <2>1. i - 1 \in 0..n - 1 /\ (i - 1) + 1 = i
    BY <1>1
  <2> QED
    BY <1>5, <2>1
<1> HIDE DEF buf, cells
<1>9. [i \in 1..n |-> buf[i - 1]] = w
  BY <1>3, <1>8
<1> QED
  BY <1>6, <1>7, <1>9 DEF buf, cells, n

LEMMA NextLines == Base /\ LinesKept /\ [Next]_vars => LinesKept'
<1> SUFFICES ASSUME Base, LinesKept, [Next]_vars, NEW s \in Careful
             PROVE  conn'[s] = "open" /\ LineState(s)'
  BY DEF LinesKept
<1>0. /\ s \in Session /\ s # Nobody
      /\ conn[s] = "open" /\ LineState(s)
      /\ TypeOK
  BY ClientAssumption DEF LinesKept, Base
<1>1. CASE UNCHANGED vars
  BY <1>0, <1>1, LineKept DEF vars, clientVars
<1>2. ASSUME NEW u \in Session, NEW w \in Word, SendLine(u, w)
      PROVE  conn'[s] = "open" /\ LineState(s)'
  <2>1. conn'[s] = "open"
    BY <1>0, <1>2 DEF SendLine
  <2>2. /\ queue' = [queue EXCEPT ![u] = Line(w)]
        /\ sent' = [sent EXCEPT ![u] = Append(sent[u], w)]
        /\ heard' = heard /\ serving' = serving /\ inBuf' = inBuf
        /\ sent[u] = heard[u]
    BY <1>2 DEF SendLine, Line
  <2>3. CASE u # s
    <3>1. queue'[s] = queue[s] /\ sent'[s] = sent[s] /\ heard'[s] = heard[s]
      BY <1>0, <2>2, <2>3 DEF TypeOK
    <3> QED
      BY <1>0, <2>1, <2>2, <3>1, LineKept
  <2>4. CASE u = s
    <3>1. serving.who # s
      <4>1. heard[s] \in Seq(Seq(Byte))
        BY <1>0 DEF TypeOK
      <4>2. \A v \in Word : Append(heard[s], v) # heard[s]
        BY <4>1
      <4> QED
        BY <1>0, <2>2, <2>4, <4>2 DEF LineState
    <3>2. queue'[s] = Line(w) /\ sent'[s] = Append(heard'[s], w) /\ serving'.who # s
      BY <1>0, <2>2, <2>4, <3>1 DEF TypeOK
    <3>3. LineState(s)'
      BY <3>2 DEF LineState
    <3> QED
      BY <2>1, <3>3
  <2> QED
    BY <2>3, <2>4
<1>3. ASSUME NEW u \in Session,
             \/ \E piece \in Pieces : Arrive(u, piece)
             \/ Leave(u) \/ ReadEnd(u)
      PROVE  conn'[s] = "open" /\ LineState(s)'
  <2>1. u # s
    BY <1>0, <1>3 DEF Arrive, Leave, ReadEnd
  <2>2. /\ queue' = queue \/ \E q : queue' = [queue EXCEPT ![u] = q]
        /\ conn' = conn \/ \E c : conn' = [conn EXCEPT ![u] = c]
        /\ UNCHANGED <<inBuf, serving, heard, sent>>
    BY <1>3 DEF Arrive, Leave, ReadEnd
  <2>3. queue'[s] = queue[s] /\ conn'[s] = conn[s]
    BY <1>0, <2>1, <2>2 DEF TypeOK
  <2> QED
    BY <1>0, <2>2, <2>3, LineKept
<1>4. ASSUME NEW u \in Session, Read(u) PROVE conn'[s] = "open" /\ LineState(s)'
  <2>1. PICK n \in Nat : /\ n = Smaller(Len(queue[u]), BufSize)
                         /\ n >= 1 /\ n <= BufSize /\ n <= Len(queue[u])
                         /\ Fill(u, 0, n)
    BY <1>4, ReadFacts
  <2>2. conn' = conn /\ heard' = heard /\ sent' = sent /\ queue[u] # <<>>
        /\ serving = Waiting
    BY <1>4 DEF Read
  <2>a. n \in Nat /\ 0 \in Nat /\ 0 + n <= BufSize /\ n <= Len(queue[u]) /\ Fill(u, 0, n)
    BY <2>1
  <2>b. serving' = [who |-> u, len |-> 0 + n]
    BY <2>a DEF Fill
  <2>c. /\ Len(queue'[u]) = Len(queue[u]) - n /\ queue' \in [Session -> Seq(Byte)]
        /\ \A v \in Session : v # u => queue'[v] = queue[v]
    BY <1>0, <2>a, FillFacts
  <2>3. /\ serving' = [who |-> u, len |-> 0 + n]
        /\ Len(queue'[u]) = Len(queue[u]) - n /\ queue' \in [Session -> Seq(Byte)]
        /\ \A v \in Session : v # u => queue'[v] = queue[v]
    BY <2>b, <2>c
  <2>4. CASE u # s
    <3>1. serving.who # s /\ serving'.who # s /\ queue'[s] = queue[s]
      BY <1>0, <2>2, <2>3, <2>4 DEF Waiting
    <3>2. LineState(s)'
      BY <1>0, <2>2, <3>1, LineKept
    <3> QED
      BY <1>0, <2>2, <3>2
  <2>5. CASE u = s
    <3>1. PICK w \in Word : queue[s] = Line(w) /\ sent[s] = Append(heard[s], w)
      BY <1>0, <2>2, <2>5 DEF LineState, Waiting
    <3>2. Len(queue[s]) = Len(w) + 2 /\ Len(w) \in Nat /\ Len(w) + 2 <= BufSize
      BY <3>1, WordFacts, Sizes
    <3>3. n = Len(w) + 2
      BY <2>1, <2>5, <3>2, Sizes DEF Smaller
    <3>4. queue'[s] = <<>>
      <4>1. Len(queue'[s]) = 0 /\ queue'[s] \in Seq(Byte)
        BY <1>0, <2>3, <2>5, <3>2, <3>3
      <4> QED
        BY <4>1
    <3>5. serving' = [who |-> s, len |-> Len(w) + 2]
      BY <2>3, <2>5, <3>2, <3>3
    <3>6. ASSUME NEW i \in 0..Len(w) + 1 PROVE inBuf'[i] = Line(w)[i + 1]
      <4>1. i \in Cell /\ i >= 0 /\ i < 0 + n /\ i - 0 + 1 = i + 1
        BY <3>2, <3>3, Sizes DEF Cell
      <4>2. inBuf'[i] = queue[u][i - 0 + 1]
        BY <2>1, <4>1 DEF Fill
      <4> QED
        BY <2>5, <3>1, <4>1, <4>2
    <3>7. sent'[s] = Append(heard'[s], w)
      BY <2>2, <3>1
    <3>8. LineState(s)'
      BY <3>4, <3>5, <3>6, <3>7 DEF LineState
    <3> QED
      BY <1>0, <2>2, <3>8
  <2> QED
    BY <2>4, <2>5
<1>5. CASE ReadMore
  <2>1. serving.who # s
    <3> SUFFICES ASSUME serving.who = s PROVE FALSE
      OBVIOUS
    <3>1. queue[s] # <<>>
      BY <1>5 DEF ReadMore
    <3> QED
      BY <1>0, <3>1 DEF LineState
  <2>2. PICK n \in Nat : /\ serving.len + n <= BufSize /\ n <= Len(queue[serving.who])
                         /\ Fill(serving.who, serving.len, n)
    BY <1>5, ReadMoreFacts
  <2>3. serving.who \in Session /\ serving.len \in Nat
    BY <1>5, ReadMoreFacts, ServingFacts
  <2>4. serving'.who = serving.who /\ queue'[s] = queue[s]
    BY <1>0, <2>1, <2>2, <2>3, FillFacts
  <2>5. conn' = conn /\ heard' = heard /\ sent' = sent
    BY <1>5 DEF ReadMore
  <2>6. LineState(s)'
    BY <1>0, <2>1, <2>4, <2>5, LineKept
  <2> QED
    BY <1>0, <2>5, <2>6
<1>6. CASE ReadMoreFails
  <2>1. /\ serving.who \in Session
        /\ serving'.who = serving.who
        /\ conn[serving.who] = "reset" /\ conn' = [conn EXCEPT ![serving.who] = "closed"]
    BY <1>6, ReadMoreFailsFacts
  <2>2. serving.who # s
    BY <1>0, <2>1
  <2>3. conn'[s] = "open"
    BY <1>0, <2>1, <2>2 DEF TypeOK
  <2>4. queue' = queue /\ heard' = heard /\ sent' = sent
    BY <1>6 DEF ReadMoreFails
  <2>5. LineState(s)'
    BY <1>0, <2>1, <2>2, <2>4, LineKept
  <2> QED
    BY <2>3, <2>5
<1>7. CASE Interpret
  <2> DEFINE u == serving.who
             buf == TerminatedAt(serving.len)
             command == [i \in 1..Cardinality(StringCells(buf)) |-> buf[i - 1]]
  <2>1. /\ heard' = IF u \in Careful THEN [heard EXCEPT ![u] = Append(heard[u], command)]
                                     ELSE heard
        /\ serving' = Waiting
        /\ queue' = queue /\ conn' = conn /\ sent' = sent
    BY <1>7 DEF Interpret, clientVars
  <2>2. serving'.who # s
    BY <1>0, <2>1 DEF Waiting
  <2> HIDE DEF command, buf
  <2>3. CASE u # s
    <3>1. heard'[s] = heard[s]
      BY <1>0, <2>1, <2>3 DEF TypeOK
    <3>2. LineState(s)'
      BY <1>0, <2>1, <2>2, <2>3, <3>1, LineKept
    <3> QED
      BY <1>0, <2>1, <3>2
  <2>4. CASE u = s
    <3>1. PICK w \in Word : /\ queue[s] = <<>>
                            /\ serving = [who |-> s, len |-> Len(w) + 2]
                            /\ sent[s] = Append(heard[s], w)
                            /\ \A i \in 0..Len(w) + 1 : inBuf[i] = Line(w)[i + 1]
      BY <1>0, <2>4 DEF LineState
    <3>2. serving.len = Len(w) + 2
      BY <3>1
    <3>3. command = w
      BY <1>0, <3>1, <3>2, WordHeard DEF command, buf
    <3>4. heard'[s] = Append(heard[s], w)
      BY <1>0, <2>1, <2>4, <3>3 DEF TypeOK
    <3>5. LineState(s)'
      BY <2>1, <2>2, <3>1, <3>4 DEF LineState
    <3> QED
      BY <1>0, <2>1, <3>5
  <2> QED
    BY <2>3, <2>4
<1> QED
  BY <1>1, <1>2, <1>3, <1>4, <1>5, <1>6, <1>7, Steps DEF ClientStep

LEMMA InitLines == Init => LinesKept
<1> SUFFICES ASSUME Init, NEW s \in Careful PROVE conn[s] = "open" /\ LineState(s)
  BY DEF LinesKept
<1>1. s \in Session /\ s # Nobody
  BY ClientAssumption
<1> QED
  BY <1>1 DEF Init, LineState, Waiting

(* A client that sends a line at a time and waits for the answer is heard   *)
(* line by line, word for word, whatever the other clients do with the      *)
(* buffer they share.                                                       *)
THEOREM LinesAreHeard == Spec => []LinesHeard
<1>1. ASSUME Base, LinesKept PROVE LinesHeard
  <2> SUFFICES ASSUME NEW s \in Careful
               PROVE  /\ \A i \in 1..Len(heard[s]) : heard[s][i] = sent[s][i]
                      /\ up /\ queue[s] = <<>> /\ serving.who # s => heard[s] = sent[s]
    BY DEF LinesHeard
  <2>1. s \in Session /\ LineState(s)
    BY <1>1, ClientAssumption DEF LinesKept
  <2>2. heard[s] \in Seq(Seq(Byte))
    BY <1>1, <2>1 DEF Base, TypeOK
  <2>3. \A w : sent[s] = Append(heard[s], w) =>
              \A i \in 1..Len(heard[s]) : heard[s][i] = sent[s][i]
    BY <2>2
  <2>4. \A w \in Word : Line(w) # <<>>
    BY WordFacts
  <2>5. CASE serving.who # s /\ sent[s] = heard[s]
    BY <2>5
  <2>6. ASSUME NEW w \in Word, sent[s] = Append(heard[s], w),
               queue[s] = Line(w) \/ serving = [who |-> s, len |-> Len(w) + 2]
        PROVE  /\ \A i \in 1..Len(heard[s]) : heard[s][i] = sent[s][i]
               /\ up /\ queue[s] = <<>> /\ serving.who # s => heard[s] = sent[s]
    BY <2>3, <2>4, <2>6
  <2> QED
    BY <2>1, <2>5, <2>6 DEF LineState
<1> QED
  BY <1>1, InitBase, InitLines, NextBase, NextLines, PTL DEF Spec

-----------------------------------------------------------------------------
(* Whose bytes a command is made of. *)

LEMMA NextOneSender == Base /\ OneSender /\ [Next]_vars => OneSender'
<1> SUFFICES ASSUME Base, OneSender, [Next]_vars PROVE OneSender'
  OBVIOUS
<1>1. serving.len \in Int /\ 0 <= serving.len
  BY ServingFacts
<1>2. CASE UNCHANGED <<inBuf, sender, serving, up, heard, foreign>>
  BY <1>2 DEF OneSender, Serving, Waiting
<1>3. ASSUME NEW s \in Session, Read(s) PROVE OneSender'
  <2>1. PICK n \in Nat : Fill(s, 0, n)
    BY <1>3, ReadFacts
  <2>2. serving'.who = s /\ serving'.len = n
    BY <2>1 DEF Fill
  <2>3. ASSUME NEW i \in Cell, i < n PROVE sender'[i] = s
    <3>1. i >= 0 /\ i < 0 + n
      BY <2>3 DEF Cell
    <3> QED
      BY <2>1, <3>1 DEF Fill
  <2> QED
    BY <2>2, <2>3 DEF OneSender
<1>4. CASE ReadMore
  <2>1. PICK n \in Nat : Fill(serving.who, serving.len, n)
    BY <1>4, ReadMoreFacts
  <2>2. serving'.who = serving.who /\ serving'.len = serving.len + n
    BY <2>1 DEF Fill
  <2>3. ASSUME NEW i \in Cell, i < serving.len + n PROVE sender'[i] = serving.who
    <3>1. CASE i >= serving.len
      BY <2>1, <2>3, <3>1 DEF Fill
    <3>2. CASE ~(i >= serving.len)
      <4>1. i < serving.len
        BY <1>1, <3>2 DEF Cell
      <4>2. sender[i] = serving.who
        BY <1>4, <4>1 DEF OneSender, ReadMore, EndsInZero, Serving
      <4> QED
        BY <2>1, <3>2, <4>2 DEF Fill
    <3> QED
      BY <3>1, <3>2
  <2> QED
    BY <2>2, <2>3 DEF OneSender
<1>5. CASE ReadMoreFails
  <2>1. serving'.who = serving.who /\ serving'.len = serving.len - 1 /\ sender' = sender
    BY <1>5, ReadMoreFailsFacts DEF ReadMoreFails
  <2>2. \A i \in Cell : i < serving.len - 1 => i < serving.len
    BY <1>1 DEF Cell
  <2> QED
    BY <1>5, <2>1, <2>2 DEF OneSender, ReadMoreFails, EndsInZero, Serving
<1>6. CASE Interpret
  BY <1>6 DEF Interpret, OneSender, Serving, Waiting
<1> QED
  BY <1>2, <1>3, <1>4, <1>5, <1>6, ServerIdle, Steps

LEMMA PairWaits ==
  ASSUME NEW s \in Session, Base, Pair(s),
         queue'[s] = queue[s], serving'.who # s
  PROVE  Pair(s)'
<1>1. Len(queue[s]) \in Nat /\ serving.len \in Int /\ 0 <= serving.len
  BY ServingFacts DEF Base, TypeOK
<1>2. Unanswered(s)' = Len(queue[s])
  BY DEF Unanswered
<1>3. Len(queue[s]) <= Unanswered(s)
  BY <1>1 DEF Unanswered
<1>4. Unanswered(s)' <= BufSize
  <2>1. Unanswered(s) \in Int /\ Unanswered(s) <= BufSize
    BY <1>1 DEF Pair, Unanswered
  <2> QED
    BY <1>1, <1>2, <1>3, <2>1, Sizes
<1> QED
  BY <1>4 DEF Pair

LEMMA NextPair ==
  ASSUME Base, [Next]_vars, NEW s \in Paired, Pair(s)
  PROVE  Pair(s)'
<1>0. /\ s \in Session /\ s # Nobody /\ s \notin Careful
      /\ TypeOK
      /\ serving.len \in Int /\ 0 <= serving.len /\ serving.len <= BufSize
      /\ Len(queue[s]) \in Nat /\ queue[s] \in Seq(Byte)
  BY ClientAssumption, ServingFacts DEF Base, TypeOK
<1>1. CASE UNCHANGED vars
  BY <1>1 DEF Pair, Unanswered, vars, clientVars
<1>2. ASSUME NEW u \in Session, NEW w \in Word, SendLine(u, w) PROVE Pair(s)'
  <2>1. u # s /\ queue' = [queue EXCEPT ![u] = w \o <<CR, LF>>]
        /\ UNCHANGED <<inBuf, serving, conn>>
    BY <1>0, <1>2 DEF SendLine
  <2>2. queue'[s] = queue[s]
    BY <1>0, <2>1 DEF TypeOK
  <2> QED
    BY <2>1, <2>2 DEF Pair, Unanswered
<1>3. ASSUME NEW u \in Session, NEW piece \in Pieces, Arrive(u, piece) PROVE Pair(s)'
  <2>1. queue' = [queue EXCEPT ![u] = queue[u] \o piece]
        /\ UNCHANGED <<inBuf, serving, conn>>
    BY <1>3 DEF Arrive
  <2>2. CASE u # s
    <3>1. queue'[s] = queue[s]
      BY <1>0, <2>1, <2>2 DEF TypeOK
    <3> QED
      BY <2>1, <3>1 DEF Pair, Unanswered
  <2>3. CASE u = s
    <3>1. Len(piece) > 1 /\ Unanswered(s) + Len(piece) <= BufSize
      BY <1>3, <2>3 DEF Arrive
    <3>2. piece \in Seq(Byte)
      <4>1. PICK n \in 1..3 : piece \in [1..n -> Loose]
        BY DEF Pieces
      <4>2. piece \in [1..n -> Byte] /\ n \in Nat
        BY <4>1, ByteAssumption
      <4> QED
        BY <4>2
    <3>3. Len(queue'[s]) = Len(queue[s]) + Len(piece) /\ Len(piece) \in Nat
      <4>1. queue'[s] = queue[s] \o piece
        BY <1>0, <2>1, <2>3 DEF TypeOK
      <4> QED
        BY <1>0, <3>2, <4>1
    <3>4. Unanswered(s)' = Unanswered(s) + Len(piece)
      <4>1. CASE serving.who = s
        <5>1. Unanswered(s) = Len(queue[s]) + serving.len
              /\ Unanswered(s)' = Len(queue'[s]) + serving.len
          BY <2>1, <4>1 DEF Unanswered
        <5> QED
          BY <1>0, <3>3, <5>1
      <4>2. CASE serving.who # s
        <5>1. Unanswered(s) = Len(queue[s]) + 0
              /\ Unanswered(s)' = Len(queue'[s]) + 0
          BY <2>1, <4>2 DEF Unanswered
        <5> QED
          BY <1>0, <3>3, <5>1
      <4> QED
        BY <4>1, <4>2
    <3>5. Len(queue'[s]) # 1
      BY <1>0, <3>1, <3>3
    <3> QED
      BY <2>1, <3>1, <3>4, <3>5 DEF Pair
  <2> QED
    BY <2>2, <2>3
<1>4. ASSUME NEW u \in Session, Leave(u) PROVE Pair(s)'
  <2>1. UNCHANGED <<inBuf, serving>> /\ conn[u] = "open"
    BY <1>4 DEF Leave
  <2>2. CASE u # s
    <3>1. queue'[s] = queue[s] /\ conn'[s] = conn[s]
      BY <1>0, <1>4, <2>2 DEF Leave, TypeOK
    <3> QED
      BY <2>1, <3>1 DEF Pair, Unanswered
  <2>3. CASE u = s
    <3>1. ~(serving.who = s /\ serving.len = 1)
      BY <2>1, <2>3 DEF Pair
    <3>2. queue'[s] = queue[s] \/ queue'[s] = <<>>
      BY <1>0, <1>4, <2>3 DEF Leave, TypeOK
    <3>3. CASE queue'[s] = queue[s]
      BY <2>1, <3>1, <3>3 DEF Pair, Unanswered
    <3>4. CASE queue'[s] = <<>>
      <4>1. Len(queue'[s]) = 0
        BY <3>4
      <4>2. Unanswered(s)' <= BufSize
        <5>1. Unanswered(s)' = 0 + (IF serving.who = s THEN serving.len ELSE 0)
          BY <2>1, <4>1 DEF Unanswered
        <5> QED
          BY <1>0, <5>1, Sizes
      <4> QED
        BY <2>1, <3>1, <4>1, <4>2 DEF Pair
    <3> QED
      BY <3>2, <3>3, <3>4
  <2> QED
    BY <2>2, <2>3
<1>5. ASSUME NEW u \in Session, ReadEnd(u) PROVE Pair(s)'
  <2>1. queue' = queue /\ serving' = Waiting
    BY <1>5 DEF ReadEnd
  <2> QED
    BY <1>0, <2>1, PairWaits DEF Waiting
<1>6. ASSUME NEW u \in Session, Read(u) PROVE Pair(s)'
  <2>1. PICK n \in Nat : /\ n = Smaller(Len(queue[u]), BufSize)
                         /\ n >= 1 /\ n <= BufSize /\ n <= Len(queue[u])
                         /\ Fill(u, 0, n)
    BY <1>6, ReadFacts
  <2>2. n \in Nat /\ 0 \in Nat /\ 0 + n <= BufSize /\ n <= Len(queue[u]) /\ Fill(u, 0, n)
    BY <2>1
  <2>3. /\ serving'.who = u /\ serving'.len = 0 + n
        /\ Len(queue'[u]) = Len(queue[u]) - n
        /\ \A v \in Session : v # u => queue'[v] = queue[v]
    BY <1>0, <2>2, FillFacts
  <2>4. CASE u # s
    BY <1>0, <2>3, <2>4, PairWaits
  <2>5. CASE u = s
    <3>1. serving.who # s
      BY <1>0, <1>6 DEF Read, Waiting
    <3>2. Len(queue[s]) + 0 <= BufSize
      BY <3>1 DEF Pair, Unanswered
    <3>3. n = Len(queue[s])
      BY <1>0, <2>1, <2>5, <3>2, Sizes DEF Smaller
    <3>4. Len(queue[s]) # 1
      BY DEF Pair
    <3>5. n >= 2 /\ Len(queue'[s]) = 0 /\ serving'.len = n
      <4>1. Len(queue'[s]) = Len(queue[s]) - n
        BY <2>3, <2>5
      <4>a. n \in Nat /\ n # 1 /\ n >= 1
        BY <2>1, <3>3, <3>4
      <4>b. n - n = 0 /\ n >= 2 /\ 0 + n = n
        BY ONLY <4>a
      <4>2. Len(queue[s]) - n = 0 /\ n >= 2 /\ 0 + n = n
        BY ONLY <4>b, <3>3
      <4> QED
        BY <2>3, <4>1, <4>2
    <3>6. Unanswered(s)' = 0 + n
      BY <2>3, <2>5, <3>5 DEF Unanswered
    <3>7. Unanswered(s)' <= BufSize /\ serving'.len >= 1 /\ serving'.len # 1
      BY <2>1, <3>5, <3>6, Sizes
    <3> QED
      BY <3>5, <3>7 DEF Pair
  <2> QED
    BY <2>4, <2>5
<1>7. CASE ReadMore
  <2> DEFINE u == serving.who
  <2>1. PICK n \in Nat : /\ n = Smaller(Len(queue[u]), BufSize - serving.len)
                         /\ n >= 1 /\ serving.len + n <= BufSize /\ n <= Len(queue[u])
                         /\ Fill(u, serving.len, n)
    BY <1>7, ReadMoreFacts
  <2>2. u \in Session /\ serving.len \in Nat
    BY <1>0, <1>7, ReadMoreFacts
  <2> HIDE DEF u
  <2>3. /\ serving'.who = u /\ serving'.len = serving.len + n
        /\ Len(queue'[u]) = Len(queue[u]) - n
        /\ \A v \in Session : v # u => queue'[v] = queue[v]
    BY <1>0, <2>1, <2>2, FillFacts
  <2>4. CASE u # s
    BY <1>0, <2>3, <2>4, PairWaits
  <2>5. CASE u = s
    <3>1. Len(queue[s]) + serving.len <= BufSize
      BY <2>5 DEF Pair, Unanswered, u
    <3>2. Len(queue[s]) # 1 /\ serving.len >= 1
      BY <2>5 DEF Pair, u
    <3>3. n = Len(queue[s])
      BY <1>0, <2>1, <2>5, <3>1, Sizes DEF Smaller
    <3>4. n >= 2 /\ Len(queue'[s]) = 0 /\ serving'.len = serving.len + n
      <4>1. Len(queue'[s]) = Len(queue[s]) - n
        BY <2>3, <2>5
      <4>a. n \in Nat /\ n # 1 /\ n >= 1
        BY <2>1, <3>2, <3>3
      <4>b. n - n = 0 /\ n >= 2
        BY ONLY <4>a
      <4>2. Len(queue[s]) - n = 0 /\ n >= 2
        BY ONLY <4>b, <3>3
      <4> QED
        BY <2>3, <4>1, <4>2
    <3>5. Unanswered(s)' = 0 + (serving.len + n)
      BY <2>3, <2>5, <3>4 DEF Unanswered
    <3>6. Unanswered(s)' <= BufSize /\ serving'.len >= 1 /\ serving'.len # 1
      BY <2>1, <2>2, <3>4, <3>5, Sizes
    <3> QED
      BY <3>4, <3>6 DEF Pair
  <2> QED
    BY <2>4, <2>5
<1>8. CASE ReadMoreFails
  <2>1. /\ serving.len >= 1
        /\ serving'.who = serving.who /\ serving'.len = serving.len - 1
        /\ conn[serving.who] = "reset" /\ conn' = [conn EXCEPT ![serving.who] = "closed"]
    BY <1>8, ReadMoreFailsFacts
  <2>2. queue' = queue /\ inBuf' = inBuf
        /\ ByteAt(serving.len - 1) = Zero
    BY <1>8 DEF ReadMoreFails, EndsInZero
  <2>3. CASE serving.who # s
    BY <1>0, <2>1, <2>2, <2>3, PairWaits
  <2>4. CASE serving.who = s
    <3>1. serving.len # 1 /\ Len(queue[s]) # 1
      BY <2>1, <2>4 DEF Pair
    <3>2. serving'.len >= 1
      BY <1>0, <2>1, <3>1
    <3>3. conn'[s] = "closed"
      BY <1>0, <2>1, <2>4 DEF TypeOK
    <3>4. ASSUME serving'.len = 1 PROVE inBuf'[1] = Zero
      <4>1. serving.len - 1 = 1
        BY <2>1, <3>4
      <4>2. ByteAt(1) = Zero
        BY <2>2, <4>1
      <4> QED
        BY <2>2, <4>2, Sizes DEF ByteAt
    <3>5. Unanswered(s)' <= BufSize
      <4>1. Len(queue[s]) + serving.len <= BufSize
        BY <2>4 DEF Pair, Unanswered
      <4>2. Unanswered(s)' = Len(queue[s]) + (serving.len - 1)
        BY <2>1, <2>2, <2>4 DEF Unanswered
      <4> QED
        BY <1>0, <4>1, <4>2, Sizes
    <3> QED
      BY <2>2, <3>1, <3>2, <3>3, <3>4, <3>5 DEF Pair
  <2> QED
    BY <2>3, <2>4
<1>9. CASE Interpret
  <2>1. queue' = queue /\ serving' = Waiting
    BY <1>9 DEF Interpret, clientVars
  <2> QED
    BY <1>0, <2>1, PairWaits DEF Waiting
<1> QED
  BY <1>1, <1>2, <1>3, <1>4, <1>5, <1>6, <1>7, <1>8, <1>9, Steps DEF ClientStep

(* A command never goes past what was read for it, if that is two bytes or  *)
(* more, or one with a zero behind it.                                      *)
LEMMA CellsRead ==
  ASSUME NEW len \in Int, len <= BufSize,
         len >= 2 \/ (len = 1 /\ inBuf[1] = Zero)
  PROVE  \A i \in StringCells(TerminatedAt(len)) : i < len
<1> DEFINE buf == TerminatedAt(len)
<1>1. PICK z \in Cell : buf[z] = Zero /\ z <= len
  <2>1. CASE len >= 2
    BY <2>1, TerminatedCells
  <2>2. CASE len = 1 /\ inBuf[1] = Zero
    <3>1. buf[1] = inBuf[1]
      BY <2>2, Sizes, TerminatedCells
    <3> QED
      BY <2>2, <3>1, Sizes
  <2> QED
    BY <2>1, <2>2
<1> HIDE DEF buf
<1>2. ASSUME NEW i \in StringCells(buf) PROVE i < len
  <2>1. i \in Cell /\ ~(z \in 0..i)
    BY <1>1 DEF StringCells
  <2> QED
    BY <1>1, <2>1, Sizes DEF Cell
<1> QED
  BY <1>2 DEF buf

LEMMA NextOwn ==
  ASSUME Base, LinesKept, PairsKept, OneSender, OwnBytes, [Next]_vars
  PROVE  OwnBytes'
<1>1. CASE ~Interpret
  BY <1>1, Steps, ServerIdle DEF OwnBytes, Read, ReadMore, ReadMoreFails
<1>2. CASE Interpret
  <2> DEFINE s == serving.who
             cells == StringCells(TerminatedAt(serving.len))
  <2>1. s \in Session /\ serving.len \in Int /\ serving.len <= BufSize /\ Serving
    BY <1>2, ServingFacts DEF Interpret, Complete, Serving
  <2>2. foreign' = IF \A i \in cells : sender[i] = s THEN foreign ELSE foreign \cup {s}
    BY <1>2 DEF Interpret
  <2>3. CASE s \notin Careful \cup Paired
    BY <2>2, <2>3 DEF OwnBytes
  <2>4. CASE s \in Careful \cup Paired
    <3>1. serving.len >= 2 \/ (serving.len = 1 /\ inBuf[1] = Zero)
      <4>1. ASSUME s \in Careful PROVE serving.len >= 2
        <5>1. PICK w \in Word : serving = [who |-> s, len |-> Len(w) + 2]
          BY <4>1 DEF LinesKept, LineState
        <5>2. serving.len = Len(w) + 2 /\ Len(w) \in Nat
          BY <5>1, WordFacts
        <5> QED
          BY <5>2
      <4>2. ASSUME s \in Paired
            PROVE  serving.len >= 1 /\ (serving.len = 1 => inBuf[1] = Zero)
        BY <4>2 DEF PairsKept, Pair
      <4> QED
        BY <2>1, <2>4, <4>1, <4>2
    <3>2. \A i \in cells : i < serving.len
      BY <2>1, <3>1, CellsRead
    <3>3. \A i \in cells : i \in Cell
      BY DEF StringCells
    <3>4. \A i \in cells : sender[i] = s
      BY <2>1, <3>2, <3>3 DEF OneSender
    <3>5. foreign' = foreign
      BY <2>2, <3>4
    <3> QED
      BY <3>5 DEF OwnBytes
  <2> QED
    BY <2>3, <2>4
<1> QED
  BY <1>1, <1>2

(* No command of a client whose bytes arrive at least in pairs holds a byte *)
(* of another client, although the buffer keeps them all.                   *)
THEOREM BytesAreOwn == Spec => []OwnBytes
<1>1. Init => BytesKept
  <2> SUFFICES ASSUME Init PROVE BytesKept
    OBVIOUS
  <2>1. LinesKept
    BY InitLines
  <2>2. PairsKept
    <3> SUFFICES ASSUME NEW s \in Paired PROVE Pair(s)
      BY DEF PairsKept
    <3>1. s \in Session /\ s # Nobody
      BY ClientAssumption
    <3>2. queue[s] = <<>> /\ serving.who # s
      BY <3>1 DEF Init, Waiting
    <3>3. Len(queue[s]) = 0 /\ Unanswered(s) = Len(queue[s]) + 0
      BY <3>2 DEF Unanswered
    <3> QED
      BY <3>2, <3>3, Sizes DEF Pair
  <2>3. OneSender /\ OwnBytes
    BY DEF Init, OneSender, OwnBytes, Serving
  <2> QED
    BY <2>1, <2>2, <2>3, InitBase DEF BytesKept
<1>2. BytesKept /\ [Next]_vars => BytesKept'
  <2> SUFFICES ASSUME BytesKept, [Next]_vars PROVE BytesKept'
    OBVIOUS
  <2>1. PairsKept'
    BY NextPair DEF BytesKept, PairsKept
  <2> QED
    BY <2>1, NextBase, NextLines, NextOneSender, NextOwn DEF BytesKept
<1>3. BytesKept => OwnBytes
  BY DEF BytesKept
<1> QED
  BY <1>1, <1>2, <1>3, PTL DEF Spec

=============================================================================
