-------------------------- MODULE ConnectDirProofs --------------------------
(***************************************************************************)
(* connect_dir returns clean paths, the right ones, and its loop ends, for *)
(* all names and for a buffer of any size; and what that makes of the      *)
(* arguments of the commands.                                              *)
(***************************************************************************)
EXTENDS ConnectDir, SequenceTheorems, WellFoundedInduction, TLAPS

(* A part of a path *)
LEMMA PartFacts ==
  ASSUME NEW S, NEW s \in Seq(S), NEW i \in Nat \ {0}, NEW j \in 0..Len(s), i <= j + 1
  PROVE  /\ SubSeq(s, i, j) \in Seq(S)
         /\ Len(SubSeq(s, i, j)) = j + 1 - i
         /\ \A k \in 1..(j + 1 - i) : SubSeq(s, i, j)[k] = s[i + k - 1]
<1>1. Len(s) \in Nat /\ \A k \in 1..Len(s) : s[k] \in S
  OBVIOUS
<1>2. \A k \in i..j : s[k] \in S
  BY <1>1
<1>3. /\ SubSeq(s, i, j) \in Seq(S)
      /\ Len(SubSeq(s, i, j)) = IF i <= j THEN j - i + 1 ELSE 0
      /\ \A k \in 1..(j - i + 1) : SubSeq(s, i, j)[k] = s[i + k - 1]
  BY <1>1, <1>2, SubSeqProperties
<1> QED
  BY <1>1, <1>3

(* Two parts put together: what the first one was is still there, and what  *)
(* the second one was is behind it.                                         *)
LEMMA GlueFacts ==
  ASSUME NEW S, NEW a \in Seq(S), NEW b \in Seq(S)
  PROVE  /\ a \o b \in Seq(S)
         /\ Len(a \o b) = Len(a) + Len(b)
         /\ \A k \in 1..Len(a) : (a \o b)[k] = a[k]
<1>1. Len(a) \in Nat /\ Len(b) \in Nat
  OBVIOUS
<1> QED
  BY <1>1, ConcatProperties

LEMMA GlueBehind ==
  ASSUME NEW S, NEW a \in Seq(S), NEW b \in Seq(S)
  PROVE  \A k \in 1..Len(b) : (a \o b)[Len(a) + k] = b[k]
<1> SUFFICES ASSUME NEW k \in 1..Len(b) PROVE (a \o b)[Len(a) + k] = b[k]
  OBVIOUS
<1>1. Len(a) \in Nat /\ Len(b) \in Nat /\ k \in Nat
  OBVIOUS
<1>2. Len(a) + k \in 1..(Len(a) + Len(b)) /\ ~ (Len(a) + k <= Len(a))
  BY <1>1
<1>3. (a \o b)[Len(a) + k] = b[(Len(a) + k) - Len(a)]
  BY <1>2, ConcatProperties
<1> QED
  BY <1>1, <1>3

(* The memmove() of "//" and "/.": the path is one segment shorter, the     *)
(* same up to the pointer, and what was behind the segment is in its place. *)
LEMMA WithoutFacts ==
  ASSUME TypeOK, p <= Len(dest)
  PROVE  /\ Without(p, p) \in Seq(Seg)
         /\ Len(Without(p, p)) = Len(dest) - 1
         /\ \A k \in 1..(p - 1) : Without(p, p)[k] = dest[k]
         /\ \A k \in 1..(Len(dest) - p) : Without(p, p)[(p - 1) + k] = dest[p + k]
<1> DEFINE a == SubSeq(dest, 1, p - 1)
           b == SubSeq(dest, p + 1, Len(dest))
<1>1. Len(dest) \in Nat /\ p \in Nat /\ p >= 1 /\ dest \in Seq(Seg)
  BY DEF TypeOK
<1>2. a \in Seq(Seg) /\ Len(a) = p - 1 /\ \A k \in 1..(p - 1) : a[k] = dest[k]
  BY <1>1, PartFacts
<1>3. b \in Seq(Seg) /\ Len(b) = Len(dest) - p
      /\ \A k \in 1..(Len(dest) - p) : b[k] = dest[p + k]
  <2>1. /\ b \in Seq(Seg)
        /\ Len(b) = Len(dest) + 1 - (p + 1)
        /\ \A k \in 1..(Len(dest) + 1 - (p + 1)) : b[k] = dest[(p + 1) + k - 1]
    BY <1>1, PartFacts
  <2> QED
    BY <1>1, <2>1
<1>4. Without(p, p) = a \o b
  BY DEF Without
<1> HIDE DEF a, b
<1>5. /\ a \o b \in Seq(Seg)
      /\ Len(a \o b) = Len(a) + Len(b)
      /\ \A k \in 1..Len(a) : (a \o b)[k] = a[k]
  <2>1. a \in Seq(Seg) /\ b \in Seq(Seg)
    BY <1>2, <1>3, Zenon
  <2> QED
    BY ONLY <2>1, GlueFacts, Zenon
<1>6. \A k \in 1..Len(b) : (a \o b)[Len(a) + k] = b[k]
  <2>1. a \in Seq(Seg) /\ b \in Seq(Seg)
    BY <1>2, <1>3, Zenon
  <2> QED
    BY ONLY <2>1, GlueBehind, Zenon
<1>7. Len(Without(p, p)) = Len(dest) - 1
  <2>1. Len(Without(p, p)) = (p - 1) + (Len(dest) - p)
    BY <1>2, <1>3, <1>5, <1>4
  <2> QED
    BY <1>1, <2>1
<1>8. \A k \in 1..(p - 1) : Without(p, p)[k] = dest[k]
  BY <1>1, <1>2, <1>5, <1>4
<1>9. \A k \in 1..(Len(dest) - p) : Without(p, p)[(p - 1) + k] = dest[p + k]
  BY <1>1, <1>2, <1>3, <1>4, <1>6
<1> QED
  BY <1>5, <1>4, <1>7, <1>8, <1>9

(* The memmove() of "/..": also one segment shorter, and the same up to the *)
(* place the pointer goes back to, where an empty segment is.               *)
LEMMA UpFacts ==
  ASSUME TypeOK, p <= Len(dest), p > 1
  PROVE  /\ Up(p) \in Seq(Seg)
         /\ Len(Up(p)) = Len(dest) - 1
         /\ \A k \in 1..(p - 2) : Up(p)[k] = dest[k]
         /\ Up(p)[p - 1] = ""
         /\ \A k \in 1..(Len(dest) - p) : Up(p)[(p - 1) + k] = dest[p + k]
<1> DEFINE a == SubSeq(dest, 1, p - 2)
           b == SubSeq(dest, p + 1, Len(dest))
           gap == <<"">>
           c == a \o gap
<1>1. Len(dest) \in Nat /\ p \in Nat /\ dest \in Seq(Seg)
  BY DEF TypeOK
<1>2. a \in Seq(Seg) /\ Len(a) = p - 2 /\ \A k \in 1..(p - 2) : a[k] = dest[k]
  BY <1>1, PartFacts
<1>3. b \in Seq(Seg) /\ Len(b) = Len(dest) - p
      /\ \A k \in 1..(Len(dest) - p) : b[k] = dest[p + k]
  <2>1. /\ b \in Seq(Seg)
        /\ Len(b) = Len(dest) + 1 - (p + 1)
        /\ \A k \in 1..(Len(dest) + 1 - (p + 1)) : b[k] = dest[(p + 1) + k - 1]
    BY <1>1, PartFacts
  <2> QED
    BY <1>1, <2>1
<1>4. gap \in Seq(Seg) /\ Len(gap) = 1
  BY DEF Seg
<1>5. gap[1] = ""
  OBVIOUS
<1>6. Up(p) = c \o b
  BY DEF Up
<1> HIDE DEF a, b, gap
<1>7. /\ c \in Seq(Seg)
      /\ Len(c) = Len(a) + Len(gap)
      /\ \A k \in 1..Len(a) : c[k] = a[k]
  <2>1. a \in Seq(Seg) /\ gap \in Seq(Seg)
    BY <1>2, <1>4, Zenon
  <2> QED
    BY ONLY <2>1, GlueFacts, Zenon
<1>8. c[Len(a) + 1] = gap[1]
  <2>0. a \in Seq(Seg) /\ gap \in Seq(Seg)
    BY <1>2, <1>4, Zenon
  <2>1. \A k \in 1..Len(gap) : c[Len(a) + k] = gap[k]
    BY ONLY <2>0, GlueBehind, Zenon
  <2>2. 1 \in 1..Len(gap)
    BY <1>4
  <2> QED
    BY <2>1, <2>2
<1> HIDE DEF c
<1>9. /\ c \o b \in Seq(Seg)
      /\ Len(c \o b) = Len(c) + Len(b)
      /\ \A k \in 1..Len(c) : (c \o b)[k] = c[k]
  <2>1. c \in Seq(Seg) /\ b \in Seq(Seg)
    BY <1>3, <1>7, Zenon
  <2> QED
    BY ONLY <2>1, GlueFacts, Zenon
<1>10. \A k \in 1..Len(b) : (c \o b)[Len(c) + k] = b[k]
  <2>1. c \in Seq(Seg) /\ b \in Seq(Seg)
    BY <1>3, <1>7, Zenon
  <2> QED
    BY ONLY <2>1, GlueBehind, Zenon
<1>11. Len(c) = p - 1
  BY <1>1, <1>2, <1>4, <1>7
<1>12. Len(Up(p)) = Len(dest) - 1 /\ \A k \in 1..(p - 2) : Up(p)[k] = dest[k]
  <2>1. Len(Up(p)) = (p - 1) + (Len(dest) - p)
    BY <1>3, <1>6, <1>9, <1>11
  <2>2. ASSUME NEW k \in 1..(p - 2) PROVE Up(p)[k] = dest[k]
    <3>1. k \in 1..Len(a) /\ k \in 1..Len(c)
      BY <1>1, <1>2, <1>11
    <3> QED
      BY <1>2, <1>6, <1>7, <1>9, <3>1
  <2> QED
    BY <1>1, <2>1, <2>2
<1>13. Up(p)[p - 1] = ""
  <2>1. c[Len(a) + 1] = ""
    BY <1>8, <1>5
  <2>2. Len(a) + 1 = p - 1 /\ p - 1 \in 1..Len(c)
    BY <1>1, <1>2, <1>11
  <2> QED
    BY <1>6, <1>9, <2>1, <2>2
<1>14. \A k \in 1..(Len(dest) - p) : Up(p)[(p - 1) + k] = dest[p + k]
  BY <1>3, <1>6, <1>11, <1>10
<1> QED
  BY <1>6, <1>9, <1>12, <1>13, <1>14

-----------------------------------------------------------------------------
(* The joined path is a path. *)
LEMMA JoinType ==
  ASSUME TypeOK, NEW son \in Argument, NEW absolute \in BOOLEAN
  PROVE  Join(dir, son, absolute) \in Seq(Seg)
<1>1. son \in Seq(Seg)
  <2>1. PICK n \in 1..MaxArg : son \in [1..n -> Seg]
    BY DEF Argument
  <2> QED
    BY <2>1, SizeAssumption
<1>2. dir \o son \in Seq(Seg)
  BY <1>1, GlueFacts DEF TypeOK
<1> QED
  BY <1>1, <1>2 DEF Join

(* Every step of connect_dir and of its callers keeps the types. *)
LEMMA NextTypeOK == TypeOK /\ [Next]_vars => TypeOK'
<1> SUFFICES ASSUME TypeOK, [Next]_vars PROVE TypeOK'
  OBVIOUS
<1>1. ASSUME NEW son \in Argument, TooLong(son) PROVE TypeOK'
  BY <1>1 DEF TooLong, TypeOK
<1>2. ASSUME NEW son \in Argument, NEW absolute \in BOOLEAN, Call(son, absolute)
      PROVE  TypeOK'
  BY <1>2, JoinType DEF Call, TypeOK
<1>3. CASE Collapse
  BY <1>3, WithoutFacts DEF Collapse, InPath, TypeOK
<1>4. CASE DropDot
  BY <1>4, WithoutFacts DEF DropDot, InPath, TypeOK
<1>5. CASE Refuse
  BY <1>5 DEF Refuse, TypeOK
<1>6. CASE GoUp
  <2>1. p \in Nat \ {0} /\ p <= Len(dest) /\ p > 1
    BY <1>6 DEF GoUp, AtTop, InPath, TypeOK
  <2>2. Up(p) \in Seq(Seg)
    BY <2>1, UpFacts
  <2>3. dest' = Up(p) /\ p' = p - 1 /\ UNCHANGED <<dir, ret, joined>>
    BY <1>6 DEF GoUp
  <2>4. p' \in Nat \ {0}
    BY <2>1, <2>3
  <2> QED
    BY <2>2, <2>3, <2>4 DEF TypeOK
<1>7. CASE Advance
  <2>1. p \in Nat /\ p > 0
    BY DEF TypeOK
  <2>2. p' = p + 1
    BY <1>7 DEF Advance
  <2>3. p' \in Nat \ {0}
    BY ONLY <2>1, <2>2
  <2> QED
    BY <1>7, <2>3 DEF Advance, TypeOK
<1>8. CASE Finish
  BY <1>8 DEF Finish, TypeOK
<1>9. CASE Return
  BY <1>9 DEF Return, TypeOK
<1>10. CASE UNCHANGED vars
  BY <1>10 DEF vars, TypeOK
<1> QED
  BY <1>1, <1>2, <1>3, <1>4, <1>5, <1>6, <1>7, <1>8, <1>9, <1>10 DEF Next

(* The pointer never leaves the buffer on the left, and no memmove() makes *)
(* anything but a path.                                                     *)
THEOREM TypeCorrect == Spec => []TypeOK
<1>1. Init => TypeOK
  <2>1. <<"">> \in Seq(Seg) /\ <<>> \in Seq(Seg)
    BY DEF Seg
  <2>2. 1 \in Nat \ {0}
    OBVIOUS
  <2> QED
    BY ZenonT(30), <2>1, <2>2 DEF Init, TypeOK
<1> QED
  BY <1>1, NextTypeOK, PTL DEF Spec

-----------------------------------------------------------------------------
(* Between two calls the session's directory is clean; during one, what the *)
(* pointer has passed.                                                      *)
Inv == PassedClean /\ DirClean

(* Each iteration keeps what the pointer has passed clean. *)
LEMMA NextInv ==
  ASSUME TypeOK, TypeOK', Inv, [Next]_vars
  PROVE  Inv'
<1> USE DEF Inv
<1>1. Len(dest) \in Nat /\ p \in Nat \ {0}
  BY DEF TypeOK
<1>2. ASSUME UNCHANGED dir PROVE DirClean'
  BY <1>2 DEF DirClean
<1>3. ASSUME NEW son \in Argument, TooLong(son) PROVE Inv'
  BY <1>3 DEF TooLong, PassedClean, DirClean
<1>4. ASSUME NEW son \in Argument, NEW absolute \in BOOLEAN, Call(son, absolute)
      PROVE  Inv'
  <2>1. Len(dest') \in Nat /\ p' = 1 /\ ret' = "run"
    BY <1>4 DEF Call, TypeOK
  <2>2. p' <= Len(dest') + 1 /\ 1..(p' - 1) = {}
    BY <2>1
  <2>3. PassedClean'
    BY <2>1, <2>2 DEF PassedClean, Clean
  <2> QED
    BY <1>4, <1>2, <2>3 DEF Call
<1>5. ASSUME Collapse \/ DropDot PROVE Inv'
  <2>1. p <= Len(dest) /\ ret = "run" /\ dest' = Without(p, p) /\ UNCHANGED <<dir, p, ret>>
    BY <1>5 DEF Collapse, DropDot, InPath
  <2>2. Len(dest') = Len(dest) - 1 /\ \A k \in 1..(p - 1) : dest'[k] = dest[k]
    BY <2>1, WithoutFacts
  <2>3. p' <= Len(dest') + 1
    BY <1>1, <2>1, <2>2
  <2>4. Clean(dest, p - 1)
    BY <2>1 DEF PassedClean
  <2>5. Clean(dest', p - 1)
    <3>1. \A k \in 1..(p - 1) : dest[k] \notin {".", ".."} /\ dest[k] # ""
      <4> SUFFICES ASSUME NEW k \in 1..(p - 1)
                   PROVE  dest[k] \notin {".", ".."} /\ dest[k] # ""
        OBVIOUS
      <4>1. k # Len(dest)
        BY ONLY <1>1, <2>1
      <4> QED
        BY <2>4, <4>1 DEF Clean
    <3> QED
      BY <2>2, <3>1 DEF Clean
  <2>6. PassedClean'
    BY <2>1, <2>3, <2>5 DEF PassedClean
  <2> QED
    BY <1>2, <2>1, <2>6
<1>6. CASE Refuse
  BY <1>6, <1>2 DEF Refuse, PassedClean
<1>7. CASE GoUp
  <2>1. p <= Len(dest) /\ p > 1 /\ ret = "run" /\ dest' = Up(p) /\ p' = p - 1
    BY <1>7, <1>1 DEF GoUp, AtTop, InPath
  <2>2. Len(dest') = Len(dest) - 1 /\ \A k \in 1..(p - 2) : dest'[k] = dest[k]
    BY <2>1, UpFacts
  <2>3. p' <= Len(dest') + 1 /\ ret' = "run"
    BY <1>7, <1>1, <2>1, <2>2 DEF GoUp
  <2>4. Clean(dest, p - 1)
    BY <2>1 DEF PassedClean
  <2>5. Clean(dest', p' - 1)
    <3>1. \A k \in 1..(p' - 1) : dest[k] \notin {".", ".."} /\ dest[k] # ""
      <4> SUFFICES ASSUME NEW k \in 1..(p' - 1)
                   PROVE  dest[k] \notin {".", ".."} /\ dest[k] # ""
        OBVIOUS
      <4>1. k # Len(dest) /\ k \in 1..(p - 1)
        BY <1>1, <2>1
      <4> QED
        BY <2>4, <4>1 DEF Clean
    <3>2. p' - 1 = p - 2
      BY <1>1, <2>1
    <3> QED
      BY <2>2, <3>1, <3>2 DEF Clean
  <2>6. PassedClean'
    BY <2>3, <2>5 DEF PassedClean
  <2> QED
    BY <1>7, <1>2, <2>6 DEF GoUp
<1>8. CASE Advance
  <2>1. /\ ret = "run" /\ p <= Len(dest) /\ p' = p + 1 /\ UNCHANGED <<dest, ret>>
        /\ dest[p] \notin {".", ".."} /\ (dest[p] = "" => p = Len(dest))
    BY <1>8 DEF Advance, InPath, Here
  <2>2. Clean(dest, p - 1)
    BY <2>1 DEF PassedClean
  <2>3. Clean(dest, p)
    <3> SUFFICES ASSUME NEW k \in 1..p
                 PROVE  /\ dest[k] \notin {".", ".."}
                        /\ dest[k] = "" => k = Len(dest)
      BY DEF Clean
    <3>1. k \in 1..(p - 1) \/ k = p
      BY <1>1
    <3> QED
      BY <2>1, <2>2, <3>1 DEF Clean
  <2>4. p \in Nat /\ p' = p + 1 /\ p <= Len(dest) /\ Len(dest') = Len(dest)
    BY <1>1, <2>1
  <2>5. p' - 1 = p /\ p' <= Len(dest') + 1
    BY <1>1, <2>4
  <2>6. PassedClean'
    BY <2>1, <2>3, <2>5 DEF PassedClean
  <2> QED
    BY <1>8, <1>2, <2>6 DEF Advance
<1>9. CASE Finish
  <2>1. ret = "run" /\ p > Len(dest) /\ UNCHANGED <<dest, p>>
    BY <1>9 DEF Finish
  <2>2. p <= Len(dest) + 1 /\ Clean(dest, p - 1)
    BY <2>1 DEF PassedClean
  <2>3. p = Len(dest) + 1
    BY <1>1, <2>1, <2>2
  <2>4. PassedClean'
    BY <2>1, <2>2, <2>3 DEF PassedClean
  <2> QED
    BY <1>9, <1>2, <2>4 DEF Finish
<1>10. CASE Return
  <2>1. ret = "ok" => Clean(dest, Len(dest))
    BY <1>1 DEF PassedClean
  <2>2. DirClean'
    BY <1>10, <2>1 DEF Return, DirClean
  <2> QED
    BY <1>10, <2>2 DEF Return, PassedClean
<1>11. CASE UNCHANGED vars
  BY <1>11 DEF vars, PassedClean, DirClean
<1> QED
  BY <1>3, <1>4, <1>5, <1>6, <1>7, <1>8, <1>9, <1>10, <1>11 DEF Next

(* Both hold in every state of connect_dir. *)
LEMMA CleanInvariant == Spec => []Inv
<1>1. Init => Inv
  <2>1. Clean(<<"">>, Len(<<"">>))
    <3> DEFINE root == <<"">>
    <3>1. Len(root) = 1 /\ root[1] = ""
      OBVIOUS
    <3> HIDE DEF root
    <3>2. "" \notin {".", ".."} /\ 1..1 = {1}
      OBVIOUS
    <3>3. Clean(root, 1)
      BY <3>1, <3>2 DEF Clean
    <3> QED
      BY <3>1, <3>3 DEF root
  <2> QED
    BY <2>1 DEF Init, Inv, PassedClean, DirClean
<1>2. TypeOK /\ TypeOK' /\ Inv /\ [Next]_vars => Inv'
  BY NextInv
<1> QED
  BY <1>1, <1>2, TypeCorrect, PTL DEF Spec

(* What the pointer of connect_dir has passed is clean, although each        *)
(* memmove() changes the path under it and "/.." moves it back.             *)
THEOREM AlwaysPassedClean == Spec => []PassedClean
<1>1. Inv => PassedClean
  BY DEF Inv
<1> QED
  BY <1>1, CleanInvariant, PTL

(* A path that connect_dir accepted has no ".", no ".." and no empty        *)
(* segment but a last one, whatever the names and the size of the buffer.   *)
THEOREM AcceptedIsClean == Spec => []ResultClean
<1>1. TypeOK /\ Inv => ResultClean
  BY DEF TypeOK, Inv, PassedClean, ResultClean
<1> QED
  BY <1>1, CleanInvariant, TypeCorrect, PTL

(* So is a session's directory, after any sequence of commands. *)
THEOREM DirAlwaysClean == Spec => []DirClean
<1>1. Inv => DirClean
  BY DEF Inv
<1> QED
  BY <1>1, CleanInvariant, PTL

(* The loop of connect_dir ends: no path makes it go back for ever. *)
THEOREM LoopTerminates == Spec => LoopShrinks
<1> DEFINE Shrinks == ret = "run" /\ ret' = "run" => Remaining' < Remaining /\ Remaining' >= 0
<1>1. TypeOK /\ TypeOK' /\ Inv /\ Inv' /\ [Next]_vars => [Shrinks]_vars
  <2> SUFFICES ASSUME TypeOK, TypeOK', Inv, Inv', Next, ret = "run", ret' = "run"
               PROVE  Remaining' < Remaining /\ Remaining' >= 0
    BY DEF Inv
  <2>1. /\ Len(dest) \in Nat /\ p \in Nat \ {0}
        /\ Len(dest') \in Nat /\ p' \in Nat \ {0}
    BY DEF TypeOK
  <2>2. p' <= Len(dest') + 1
    BY DEF Inv, PassedClean
  <2>3. Remaining' >= 0
    BY <2>1, <2>2 DEF Remaining
  <2>4. CASE Collapse \/ DropDot
    <3>1. Len(dest') = Len(dest) - 1 /\ p' = p
      BY <2>4, WithoutFacts DEF Collapse, DropDot, InPath
    <3> QED
      BY <2>1, <2>3, <3>1 DEF Remaining
  <2>5. CASE GoUp
    <3>1. p <= Len(dest) /\ p > 1 /\ dest' = Up(p) /\ p' = p - 1
      BY <2>5, <2>1 DEF GoUp, AtTop, InPath
    <3>2. Len(dest') = Len(dest) - 1
      BY <3>1, UpFacts
    <3> QED
      BY <2>1, <2>3, <3>1, <3>2 DEF Remaining
  <2>6. CASE Advance
    <3>1. p' = p + 1 /\ dest' = dest
      BY <2>6 DEF Advance
    <3> QED
      BY <2>1, <2>3, <3>1 DEF Remaining
  <2> QED
    BY <2>4, <2>5, <2>6 DEF Next, TooLong, Call, Refuse, Finish, Return
<1> QED
  BY <1>1, CleanInvariant, TypeCorrect, PTL DEF Spec, LoopShrinks

-----------------------------------------------------------------------------
(* Induction over the naturals, from the least-element principle: a set is  *)
(* a parameter that the provers can instantiate, an operator is not.        *)
LEMMA Induction ==
  ASSUME NEW S, S \subseteq Nat, 0 \in S, \A n \in S : n + 1 \in S
  PROVE  S = Nat
<1> DEFINE R == OpToRel(<, Nat)
           T == Nat \ S
<1>1. \A y, x \in Nat : y < x => <<y, x>> \in R
  BY DEF OpToRel
<1>2. IsWellFoundedOn(R, Nat)
  BY NatLessThanWellFounded
<1>3. SUFFICES ASSUME T # {} PROVE FALSE
  OBVIOUS
<1>4. T \subseteq Nat
  OBVIOUS
<1> HIDE DEF T, R
<1>5. PICK x \in T : \A y \in T : ~ (<<y, x>> \in R)
  BY <1>2, <1>3, <1>4, WFMin
<1>6. x \in Nat /\ x # 0 /\ x \notin S
  BY DEF T
<1>7. x - 1 \in Nat /\ x - 1 < x
  BY <1>6
<1>8. x - 1 \in S
  BY <1>1, <1>5, <1>6, <1>7 DEF T
<1>9. (x - 1) + 1 \in S
  BY <1>8
<1> QED
  BY <1>6, <1>7, <1>9

-----------------------------------------------------------------------------
(* What a path means: Reading is the function its recursive definition asks *)
(* for.                                                                     *)
Reads(path, n, f) ==
  f = [k \in 0..n |-> IF k = 0 THEN Root ELSE Push(f[k - 1], path[k])]

LEMMA ReadsExists ==
  ASSUME NEW path, NEW n \in Nat
  PROVE  \E f : Reads(path, n, f)
<1> DEFINE S == {m \in Nat : \E f : Reads(path, m, f)}
<1>1. 0 \in S
  <2> DEFINE f == [k \in 0..0 |-> Root]
  <2>1. f = [k \in 0..0 |-> IF k = 0 THEN Root ELSE Push(f[k - 1], path[k])]
    OBVIOUS
  <2>2. Reads(path, 0, f)
    BY <2>1 DEF Reads
  <2> QED
    BY <2>2
<1>2. ASSUME NEW m \in S PROVE m + 1 \in S
  <2>1. PICK f : Reads(path, m, f)
    OBVIOUS
  <2> DEFINE g == [k \in 0..(m + 1) |-> IF k = m + 1 THEN Push(f[m], path[k]) ELSE f[k]]
  <2>2. g = [k \in 0..(m + 1) |-> IF k = 0 THEN Root ELSE Push(g[k - 1], path[k])]
    <3> SUFFICES ASSUME NEW k \in 0..(m + 1)
                 PROVE  g[k] = IF k = 0 THEN Root ELSE Push(g[k - 1], path[k])
      OBVIOUS
    <3>1. CASE k = m + 1
      <4>1. g[k] = Push(f[m], path[k]) /\ g[k - 1] = f[m] /\ k # 0
        BY <3>1
      <4> QED
        BY <4>1
    <3>2. CASE k # m + 1 /\ k # 0
      <4>1. k \in 0..m /\ g[k] = f[k] /\ k - 1 \in 0..(m + 1) /\ g[k - 1] = f[k - 1]
        BY <3>2
      <4>2. f[k] = Push(f[k - 1], path[k])
        BY <2>1, <3>2, <4>1 DEF Reads
      <4> QED
        BY <3>2, <4>1, <4>2
    <3>3. CASE k = 0
      <4>1. 0 \in 0..m /\ g[0] = f[0]
        BY <3>3
      <4>2. f[0] = Root
        BY <2>1, <4>1 DEF Reads
      <4> QED
        BY <3>3, <4>1, <4>2
    <3> QED
      BY <3>1, <3>2, <3>3
  <2>3. Reads(path, m + 1, g)
    BY <2>2 DEF Reads
  <2> QED
    BY <2>3
<1> HIDE DEF S
<1>3. S \subseteq Nat
  BY DEF S
<1>4. S = Nat
  BY <1>1, <1>2, <1>3, Induction
<1> QED
  BY <1>4 DEF S

LEMMA ReadingFacts ==
  ASSUME NEW path, Len(path) \in Nat
  PROVE  /\ Reading(path)[0] = Root
         /\ \A k \in 0..(Len(path) - 1) :
              Reading(path)[k + 1] = Push(Reading(path)[k], path[k + 1])
<1>1. Reads(path, Len(path), Reading(path))
  <2>1. \E f : Reads(path, Len(path), f)
    BY ReadsExists
  <2>2. Reading(path) = CHOOSE f : Reads(path, Len(path), f)
    BY DEF Reading, Reads
  <2> QED
    BY <2>1, <2>2
<1> DEFINE r == Reading(path)
<1> HIDE DEF r
<1>2. r = [k \in 0..Len(path) |-> IF k = 0 THEN Root ELSE Push(r[k - 1], path[k])]
  BY <1>1 DEF Reads, r
<1>3. r[0] = Root
  <2>1. 0 \in 0..Len(path)
    OBVIOUS
  <2> QED
    BY <1>2, <2>1
<1>4. ASSUME NEW k \in 0..(Len(path) - 1) PROVE r[k + 1] = Push(r[k], path[k + 1])
  <2>1. k + 1 \in 0..Len(path) /\ k + 1 # 0 /\ (k + 1) - 1 = k
    OBVIOUS
  <2>2. r[k + 1] = Push(r[(k + 1) - 1], path[k + 1])
    BY <1>2, <2>1
  <2> QED
    BY <2>1, <2>2
<1> QED
  BY <1>3, <1>4 DEF r

(* Nothing leads back from above the root. *)
LEMMA AboveStays ==
  ASSUME NEW path, Len(path) \in Nat, NEW q \in 0..Len(path), Reading(path)[q].above
  PROVE  Resolve(path).above
<1> DEFINE r == Reading(path)
           S == {n \in Nat : q + n <= Len(path) => r[q + n].above}
<1>1. 0 \in S
  OBVIOUS
<1>2. ASSUME NEW n \in S PROVE n + 1 \in S
  <2> SUFFICES ASSUME q + (n + 1) <= Len(path) PROVE r[q + (n + 1)].above
    OBVIOUS
  <2>1. q + n \in 0..(Len(path) - 1) /\ (q + n) + 1 = q + (n + 1) /\ r[q + n].above
    OBVIOUS
  <2>2. r[(q + n) + 1] = Push(r[q + n], path[(q + n) + 1])
    BY <2>1, ReadingFacts
  <2> QED
    BY <2>1, <2>2 DEF Push
<1>3. S \subseteq Nat
  OBVIOUS
<1> HIDE DEF S
<1>4. S = Nat
  BY <1>1, <1>2, <1>3, Induction
<1>5. Len(path) - q \in S /\ q + (Len(path) - q) = Len(path)
  BY <1>4
<1> QED
  BY <1>5 DEF S, Resolve

-----------------------------------------------------------------------------
(* The loop reads the joined path: when it has come past its first q        *)
(* segments, the first n of dest are the directory these lead to, and what  *)
(* dest has behind i is what is left of the joined path. The pointer is     *)
(* there (Level); or before the empty segment that "/.." left (Behind); or  *)
(* past an empty segment at the end (Ended).                                *)
Leads(q, n) == Reading(joined)[q] = [names |-> SubSeq(dest, 1, n), above |-> FALSE]

Left(i, q) ==
  /\ Len(dest) - i = Len(joined) - q
  /\ \A k \in 1..(Len(dest) - i) : dest[i + k] = joined[q + k]

Level(q)  == p <= Len(dest) + 1 /\ Leads(q, p - 1) /\ Left(p - 1, q)
Behind(q) == p <= Len(dest) /\ dest[p] = "" /\ Leads(q, p - 1) /\ Left(p, q)
Ended(q)  == /\ p > 1 /\ p = Len(dest) + 1 /\ dest[p - 1] = ""
             /\ q = Len(joined) /\ Leads(q, p - 2)

Followed(q) == Level(q) \/ Behind(q) \/ Ended(q)

MeaningKept ==
  /\ ret \in {"run", "ok"} => \E q \in 0..Len(joined) : Followed(q)
  /\ ret = "above" => Resolve(joined).above

(* The sizes *)
LEMMA Sizes ==
  ASSUME TypeOK
  PROVE  /\ Len(dest) \in Nat /\ Len(joined) \in Nat /\ p \in Nat \ {0}
         /\ dest \in Seq(Seg) /\ joined \in Seq(Seg)
         /\ \A i \in 1..Len(dest) : dest[i] \in Seg
BY DEF TypeOK

(* Two paths with the same beginning *)
LEMMA SameBeginning ==
  ASSUME NEW a \in Seq(Seg), NEW b \in Seq(Seg), NEW n \in Nat, n <= Len(a), n <= Len(b),
         \A k \in 1..n : a[k] = b[k]
  PROVE  SubSeq(a, 1, n) = SubSeq(b, 1, n)
<1>1. Len(a) \in Nat /\ Len(b) \in Nat
  OBVIOUS
<1> DEFINE c == SubSeq(a, 1, n)
           d == SubSeq(b, 1, n)
<1>2. c \in Seq(Seg) /\ Len(c) = n /\ \A k \in 1..n : c[k] = a[k]
  BY <1>1, PartFacts
<1>3. d \in Seq(Seg) /\ Len(d) = n /\ \A k \in 1..n : d[k] = b[k]
  BY <1>1, PartFacts
<1> HIDE DEF c, d
<1>4. c = d
  BY <1>2, <1>3, SeqEqual
<1> QED
  BY <1>4 DEF c, d

(* A path up to a segment and the segment *)
LEMMA OneMore ==
  ASSUME NEW a \in Seq(Seg), NEW n \in 1..Len(a)
  PROVE  /\ Append(SubSeq(a, 1, n - 1), a[n]) = SubSeq(a, 1, n)
         /\ Len(SubSeq(a, 1, n)) = n
         /\ SubSeq(SubSeq(a, 1, n), 1, n - 1) = SubSeq(a, 1, n - 1)
<1>1. Len(a) \in Nat /\ n \in Nat /\ a[n] \in Seg
  OBVIOUS
<1> DEFINE c == SubSeq(a, 1, n - 1)
           d == SubSeq(a, 1, n)
           e == SubSeq(d, 1, n - 1)
           f == Append(c, a[n])
<1>2. c \in Seq(Seg) /\ Len(c) = n - 1 /\ \A k \in 1..(n - 1) : c[k] = a[k]
  BY <1>1, PartFacts
<1>3. d \in Seq(Seg) /\ Len(d) = n /\ \A k \in 1..n : d[k] = a[k]
  BY <1>1, PartFacts
<1>4. e \in Seq(Seg) /\ Len(e) = n - 1 /\ \A k \in 1..(n - 1) : e[k] = d[k]
  <2> HIDE DEF d
  <2> QED
    BY <1>1, <1>3, PartFacts
<1>5. f \in Seq(Seg) /\ Len(f) = n /\ f[n] = a[n] /\ \A k \in 1..(n - 1) : f[k] = c[k]
  <2> HIDE DEF c
  <2>1. f \in Seq(Seg) /\ Len(f) = Len(c) + 1 /\ f[Len(c) + 1] = a[n]
        /\ \A k \in 1..Len(c) : f[k] = c[k]
    BY <1>1, <1>2
  <2> QED
    BY <1>1, <1>2, <2>1
<1> HIDE DEF c, d, e, f
<1>6. f = d
  <2>1. \A k \in 1..n : f[k] = d[k]
    BY <1>1, <1>2, <1>3, <1>5
  <2> QED
    BY <1>3, <1>5, <2>1, SeqEqual
<1>7. e = c
  <2>1. ASSUME NEW k \in 1..(n - 1) PROVE e[k] = c[k]
    <3>1. k \in 1..n
      BY <1>1
    <3> QED
      BY <1>2, <1>3, <1>4, <3>1
  <2> QED
    BY <1>2, <1>4, <2>1, SeqEqual
<1> QED
  BY <1>3, <1>6, <1>7 DEF c, d, e, f

LEMMA ReadOn ==
  ASSUME TypeOK, NEW q \in 0..Len(joined), q < Len(joined)
  PROVE  /\ q + 1 \in 0..Len(joined)
         /\ Reading(joined)[q + 1] = Push(Reading(joined)[q], joined[q + 1])
<1>1. Len(joined) \in Nat
  BY Sizes
<1>2. q \in 0..(Len(joined) - 1) /\ q + 1 \in 0..Len(joined)
  BY <1>1
<1> QED
  BY <1>1, <1>2, ReadingFacts

(* At the pointer is the next segment of the joined path. *)
LEMMA LevelNext ==
  ASSUME TypeOK, NEW q \in 0..Len(joined), Level(q), p <= Len(dest)
  PROVE  /\ q < Len(joined) /\ dest[p] = joined[q + 1]
         /\ Len(dest) - p = Len(joined) - (q + 1)
         /\ \A k \in 1..(Len(dest) - p) : dest[p + k] = joined[(q + 1) + k]
<1>1. Len(dest) \in Nat /\ Len(joined) \in Nat /\ p \in Nat \ {0}
  BY Sizes
<1>2. /\ Len(dest) - (p - 1) = Len(joined) - q
      /\ \A k \in 1..(Len(dest) - (p - 1)) : dest[(p - 1) + k] = joined[q + k]
  BY DEF Level, Left
<1>3. dest[p] = joined[q + 1]
  <2>1. 1 \in 1..(Len(dest) - (p - 1)) /\ (p - 1) + 1 = p
    BY <1>1
  <2>2. dest[(p - 1) + 1] = joined[q + 1]
    BY <1>2, <2>1
  <2> QED
    BY <2>1, <2>2
<1>4. ASSUME NEW k \in 1..(Len(dest) - p) PROVE dest[p + k] = joined[(q + 1) + k]
  <2>1. /\ k + 1 \in 1..(Len(dest) - (p - 1))
        /\ (p - 1) + (k + 1) = p + k
        /\ q + (k + 1) = (q + 1) + k
    BY <1>1
  <2>2. dest[(p - 1) + (k + 1)] = joined[q + (k + 1)]
    BY <1>2, <2>1
  <2> QED
    BY <2>1, <2>2
<1> QED
  BY <1>1, <1>2, <1>3, <1>4

(* "//" and "/." lead nowhere: the loop drops what reading ignores. *)
LEMMA DropFollowed ==
  ASSUME TypeOK, NEW q \in 0..Len(joined), Followed(q), Collapse \/ DropDot
  PROVE  \E u \in 0..Len(joined') : Followed(u)'
<1>1. Len(dest) \in Nat /\ Len(joined) \in Nat /\ p \in Nat \ {0} /\ dest \in Seq(Seg)
  BY Sizes
<1>2. p <= Len(dest) /\ dest' = Without(p, p) /\ p' = p /\ joined' = joined
  BY DEF Collapse, DropDot, InPath
<1>3. dest[p] \in {"", "."}
  BY DEF Collapse, DropDot, Here
<1>4. /\ dest' \in Seq(Seg) /\ Len(dest') = Len(dest) - 1
      /\ \A k \in 1..(p - 1) : dest'[k] = dest[k]
      /\ \A k \in 1..(Len(dest) - p) : dest'[(p - 1) + k] = dest[p + k]
  BY <1>2, WithoutFacts
<1>5. SubSeq(dest', 1, p - 1) = SubSeq(dest, 1, p - 1)
  BY <1>1, <1>4, <1>2, SameBeginning
<1>6. Len(dest') - (p - 1) = Len(dest) - p /\ p' <= Len(dest') + 1
  BY <1>1, <1>4, <1>2
<1>7. CASE Level(q)
  <2>1. /\ q < Len(joined) /\ dest[p] = joined[q + 1]
        /\ Len(dest) - p = Len(joined) - (q + 1)
        /\ \A k \in 1..(Len(dest) - p) : dest[p + k] = joined[(q + 1) + k]
    BY <1>7, <1>2, LevelNext
  <2>2. q + 1 \in 0..Len(joined) /\ Leads(q + 1, p - 1)
    <3>1. Reading(joined)[q] = [names |-> SubSeq(dest, 1, p - 1), above |-> FALSE]
      BY <1>7 DEF Level, Leads
    <3>2. q + 1 \in 0..Len(joined) /\ Reading(joined)[q + 1] = Reading(joined)[q]
      BY <1>3, <2>1, ReadOn DEF Push
    <3> QED
      BY <3>1, <3>2 DEF Leads
  <2>3. Leads(q + 1, p - 1)'
    BY <1>5, <1>2, <2>2 DEF Leads
  <2>4. Left(p - 1, q + 1)'
    BY <1>4, <1>6, <1>2, <2>1 DEF Left
  <2> QED
    BY <1>6, <1>2, <2>2, <2>3, <2>4 DEF Level, Followed
<1>8. CASE Behind(q)
  <2>1. Leads(q, p - 1)'
    BY <1>5, <1>8, <1>2 DEF Behind, Leads
  <2>2. Left(p - 1, q)'
    BY <1>4, <1>6, <1>8, <1>2 DEF Behind, Left
  <2> QED
    BY <1>6, <1>2, <2>1, <2>2 DEF Level, Followed
<1>9. ~ Ended(q)
  <2>1. Ended(q) => p = Len(dest) + 1
    BY DEF Ended
  <2> QED
    BY <1>1, <1>2, <2>1
<1> QED
  BY <1>7, <1>8, <1>9 DEF Followed

(* "/..": the name before it goes, as in reading, and the empty segment in  *)
(* its place is not one of the joined path.                                 *)
LEMMA UpFollowed ==
  ASSUME TypeOK, NEW q \in 0..Len(joined), Followed(q), GoUp
  PROVE  \E u \in 0..Len(joined') : Followed(u)'
<1>1. Len(dest) \in Nat /\ Len(joined) \in Nat /\ p \in Nat \ {0} /\ dest \in Seq(Seg)
  BY Sizes
<1>2. p <= Len(dest) /\ p > 1 /\ dest' = Up(p) /\ p' = p - 1 /\ joined' = joined
  BY <1>1 DEF GoUp, InPath, AtTop
<1>3. dest[p] = ".."
  BY DEF GoUp, Here
<1>4. /\ dest' \in Seq(Seg) /\ Len(dest') = Len(dest) - 1
      /\ \A k \in 1..(p - 2) : dest'[k] = dest[k]
      /\ \A k \in 1..(Len(dest) - p) : dest'[(p - 1) + k] = dest[p + k]
  BY <1>2, UpFacts
<1>5. dest'[p - 1] = ""
  BY <1>2, UpFacts
<1>6. Level(q)
  <2>1. Ended(q) => p = Len(dest) + 1
    BY DEF Ended
  <2>2. ~ Ended(q)
    BY <1>1, <1>2, <2>1
  <2>3. ~ Behind(q)
    BY <1>3 DEF Behind
  <2> QED
    BY <2>2, <2>3 DEF Followed
<1>7. /\ q < Len(joined) /\ dest[p] = joined[q + 1]
      /\ Len(dest) - p = Len(joined) - (q + 1)
      /\ \A k \in 1..(Len(dest) - p) : dest[p + k] = joined[(q + 1) + k]
  BY <1>6, <1>2, LevelNext
<1>8. q + 1 \in 0..Len(joined) /\ Leads(q + 1, p - 2)
  <2> DEFINE names == SubSeq(dest, 1, p - 1)
  <2>1. Reading(joined)[q] = [names |-> names, above |-> FALSE]
    BY <1>6 DEF Level, Leads
  <2>2. Len(names) = p - 1 /\ SubSeq(names, 1, (p - 1) - 1) = SubSeq(dest, 1, (p - 1) - 1)
    <3>1. p - 1 \in 1..Len(dest)
      BY <1>1, <1>2
    <3> QED
      BY <1>1, <3>1, OneMore
  <2>3. (p - 1) - 1 = p - 2 /\ p - 1 # 0
    BY <1>1, <1>2
  <2> HIDE DEF names
  <2>4. names # <<>>
    BY <2>2, <2>3
  <2>5. /\ q + 1 \in 0..Len(joined)
        /\ Reading(joined)[q + 1] = Push(Reading(joined)[q], "..")
    BY <1>7, <1>3, ReadOn
  <2>6. Push([names |-> names, above |-> FALSE], "..")
          = [names |-> SubSeq(names, 1, Len(names) - 1), above |-> FALSE]
    BY <2>4 DEF Push
  <2> QED
    BY <2>1, <2>2, <2>3, <2>5, <2>6 DEF Leads
<1>9. p' <= Len(dest') /\ p' - 1 = p - 2
  BY <1>1, <1>4, <1>2
<1>10. Leads(q + 1, p - 1)'
  <2>1. SubSeq(dest', 1, p - 2) = SubSeq(dest, 1, p - 2)
    <3>1. p - 2 \in Nat /\ p - 2 <= Len(dest) /\ p - 2 <= Len(dest')
      BY <1>1, <1>4, <1>2
    <3> QED
      BY <1>1, <1>4, <3>1, SameBeginning
  <2>2. SubSeq(dest', 1, p' - 1) = SubSeq(dest, 1, p - 2)
    BY <1>9, <2>1
  <2> QED
    BY <1>8, <1>2, <2>2 DEF Leads
<1>11. Left(p, q + 1)'
  <2>1. Len(dest') - (p - 1) = Len(dest) - p
    BY <1>1, <1>4
  <2> QED
    BY <1>4, <1>7, <1>2, <2>1 DEF Left
<1>12. dest'[p'] = ""
  BY <1>2, <1>5
<1>13. Behind(q + 1)'
  BY <1>10, <1>11, <1>9, <1>12 DEF Behind
<1> QED
  BY <1>8, <1>13, <1>2 DEF Followed

(* A name is put on the stack; an empty segment at the end is not. *)
LEMMA AdvanceFollowed ==
  ASSUME TypeOK, NEW q \in 0..Len(joined), Followed(q), Advance
  PROVE  \E u \in 0..Len(joined') : Followed(u)'
<1>1. Len(dest) \in Nat /\ Len(joined) \in Nat /\ p \in Nat \ {0} /\ dest \in Seq(Seg)
  BY Sizes
<1>2. p <= Len(dest) /\ dest' = dest /\ p' = p + 1 /\ joined' = joined
  BY DEF Advance, InPath
<1>3. dest[p] \notin {".", ".."} /\ (dest[p] = "" => p = Len(dest))
  BY DEF Advance, Here
<1>4. ~ Ended(q)
  <2>1. Ended(q) => p = Len(dest) + 1
    BY DEF Ended
  <2> QED
    BY <1>1, <1>2, <2>1
<1>5. p' - 1 = p /\ p' - 2 = p - 1 /\ p' > 1 /\ p' <= Len(dest') + 1
  BY <1>1, <1>2
<1>6. ASSUME Level(q)
      PROVE  /\ Left(p, q + 1) /\ q + 1 \in 0..Len(joined)
             /\ Reading(joined)[q + 1]
                  = Push([names |-> SubSeq(dest, 1, p - 1), above |-> FALSE], dest[p])
  <2>1. /\ q < Len(joined) /\ dest[p] = joined[q + 1]
        /\ Len(dest) - p = Len(joined) - (q + 1)
        /\ \A k \in 1..(Len(dest) - p) : dest[p + k] = joined[(q + 1) + k]
    BY <1>2, <1>6, LevelNext
  <2>2. Left(p, q + 1)
    BY <2>1 DEF Left
  <2>3. Reading(joined)[q] = [names |-> SubSeq(dest, 1, p - 1), above |-> FALSE]
    BY <1>6 DEF Level, Leads
  <2>4. q + 1 \in 0..Len(joined) /\ Reading(joined)[q + 1] = Push(Reading(joined)[q], joined[q + 1])
    BY <2>1, ReadOn
  <2> QED
    BY <2>1, <2>2, <2>3, <2>4
<1>7. CASE dest[p] # ""
  <2>1. Level(q)
    BY <1>4, <1>7 DEF Followed, Behind
  <2> DEFINE names == SubSeq(dest, 1, p - 1)
  <2>2. Append(names, dest[p]) = SubSeq(dest, 1, p)
    <3>1. p \in 1..Len(dest)
      BY <1>1, <1>2
    <3> QED
      BY <1>1, <3>1, OneMore
  <2> HIDE DEF names
  <2>3. Push([names |-> names, above |-> FALSE], dest[p])
          = [names |-> Append(names, dest[p]), above |-> FALSE]
    BY <1>3, <1>7 DEF Push
  <2>4. Leads(q + 1, p)
    BY <1>6, <2>1, <2>2, <2>3 DEF Leads, names
  <2>5. Leads(q + 1, p - 1)'
    BY <1>2, <1>5, <2>4 DEF Leads
  <2>6. Left(p - 1, q + 1)'
    BY <1>2, <1>5, <1>6, <2>1 DEF Left
  <2> QED
    BY <1>2, <1>5, <1>6, <2>1, <2>5, <2>6 DEF Level, Followed
<1>8. CASE dest[p] = ""
  <2>1. p = Len(dest)
    BY <1>3, <1>8
  <2>2. \E u \in 0..Len(joined) : u = Len(joined) /\ Leads(u, p - 1)
    <3>1. CASE Level(q)
      <4>1. q + 1 = Len(joined)
        BY <1>1, <1>6, <2>1, <3>1 DEF Left
      <4>2. Leads(q + 1, p - 1)
        BY <1>6, <1>8, <3>1 DEF Push, Leads
      <4> QED
        BY <1>6, <3>1, <4>1, <4>2
    <3>2. CASE Behind(q)
      <4>1. Left(p, q) /\ Leads(q, p - 1)
        BY <3>2 DEF Behind
      <4>2. q = Len(joined)
        BY <1>1, <2>1, <4>1 DEF Left
      <4> QED
        BY <4>1, <4>2
    <3> QED
      BY <1>4, <3>1, <3>2 DEF Followed
  <2>3. PICK u \in 0..Len(joined) : u = Len(joined) /\ Leads(u, p - 1)
    BY <2>2
  <2>4. Leads(u, p - 2)'
    BY <1>2, <1>5, <2>3 DEF Leads
  <2>5. p' = Len(dest') + 1 /\ u = Len(joined')
    BY <1>2, <2>1, <2>3
  <2>6. dest'[p' - 1] = ""
    BY <1>2, <1>5, <1>8
  <2>7. Ended(u)'
    BY <1>5, <2>4, <2>5, <2>6 DEF Ended
  <2> QED
    BY <1>2, <2>7 DEF Followed
<1> QED
  BY <1>7, <1>8

(* The loop refuses "/.." only where there is no name to take off. *)
LEMMA RefusedAbove ==
  ASSUME TypeOK, PassedClean, NEW q \in 0..Len(joined), Followed(q), Refuse
  PROVE  Resolve(joined).above
<1>1. Len(dest) \in Nat /\ Len(joined) \in Nat /\ p \in Nat \ {0} /\ dest \in Seq(Seg)
  BY Sizes
<1>2. p <= Len(dest) /\ ret = "run"
  BY DEF Refuse, InPath
<1>3. dest[p] = ".." /\ AtTop
  BY DEF Refuse, Here
<1>4. p = 1
  <2> SUFFICES ASSUME p > 1 PROVE FALSE
    BY <1>1
  <2>1. dest[p - 1] = ""
    BY <1>3 DEF AtTop
  <2>2. Clean(dest, p - 1)
    BY <1>2 DEF PassedClean
  <2>3. p - 1 \in 1..(p - 1) /\ p - 1 # Len(dest)
    BY <1>1, <1>2
  <2> QED
    BY <2>1, <2>2, <2>3 DEF Clean
<1>5. Level(q)
  <2>1. ~ Behind(q)
    BY <1>3 DEF Behind
  <2>2. Ended(q) => p > 1
    BY DEF Ended
  <2>3. ~ Ended(q)
    BY <1>4, <2>2
  <2> QED
    BY <2>1, <2>3 DEF Followed
<1>6. q < Len(joined) /\ dest[p] = joined[q + 1]
  BY <1>2, <1>5, LevelNext
<1>7. /\ q + 1 \in 0..Len(joined)
      /\ Reading(joined)[q + 1] = Push(Reading(joined)[q], joined[q + 1])
  BY <1>6, ReadOn
<1>8. Reading(joined)[q] = [names |-> <<>>, above |-> FALSE]
  <2>1. SubSeq(dest, 1, p - 1) = <<>>
    BY <1>1, <1>4
  <2> QED
    BY <1>5, <2>1 DEF Level, Leads
<1>9. Push([names |-> <<>>, above |-> FALSE], "..").above
  BY DEF Push
<1>10. Reading(joined)[q + 1].above
  BY <1>3, <1>6, <1>7, <1>8, <1>9
<1> QED
  BY <1>1, <1>7, <1>10, AboveStays

LEMMA CallFollowed ==
  ASSUME TypeOK, TypeOK', NEW son \in Argument, NEW absolute \in BOOLEAN, Call(son, absolute)
  PROVE  \E u \in 0..Len(joined') : Followed(u)'
<1>1. dest' \in Seq(Seg) /\ Len(dest') \in Nat
  BY DEF TypeOK
<1>2. joined' = dest' /\ p' = 1
  BY DEF Call
<1>3. Reading(joined')[0] = Root
  BY <1>1, <1>2, ReadingFacts
<1>4. SubSeq(dest', 1, p' - 1) = <<>>
  BY <1>1, <1>2
<1>5. Leads(0, p - 1)'
  BY <1>3, <1>4 DEF Leads, Root
<1>6. Left(p - 1, 0)'
  BY <1>1, <1>2 DEF Left
<1>7. p' <= Len(dest') + 1 /\ 0 \in 0..Len(joined')
  BY <1>1, <1>2
<1>8. Level(0)'
  BY <1>5, <1>6, <1>7 DEF Level
<1> QED
  BY <1>7, <1>8 DEF Followed

LEMMA NextMeaning ==
  ASSUME TypeOK, TypeOK', Inv, MeaningKept, [Next]_vars
  PROVE  MeaningKept'
<1>1. ASSUME NEW son \in Argument, TooLong(son) PROVE MeaningKept'
  BY <1>1 DEF TooLong, MeaningKept
<1>2. ASSUME NEW son \in Argument, NEW absolute \in BOOLEAN, Call(son, absolute)
      PROVE  MeaningKept'
  <2>1. ret' = "run"
    BY <1>2 DEF Call
  <2> QED
    BY <1>2, <2>1, CallFollowed DEF MeaningKept
<1>3. ASSUME Collapse \/ DropDot \/ GoUp \/ Advance PROVE MeaningKept'
  <2>1. ret = "run" /\ ret' = "run"
    BY <1>3 DEF Collapse, DropDot, GoUp, Advance, InPath
  <2>2. PICK q \in 0..Len(joined) : Followed(q)
    BY <2>1 DEF MeaningKept
  <2>3. \E u \in 0..Len(joined') : Followed(u)'
    BY <1>3, <2>2, DropFollowed, UpFollowed, AdvanceFollowed
  <2> QED
    BY <2>1, <2>3 DEF MeaningKept
<1>4. CASE Refuse
  <2>1. ret = "run" /\ ret' = "above" /\ joined' = joined
    BY <1>4 DEF Refuse, InPath
  <2>2. PICK q \in 0..Len(joined) : Followed(q)
    BY <2>1 DEF MeaningKept
  <2>3. Resolve(joined).above
    BY <1>4, <2>2, RefusedAbove DEF Inv
  <2> QED
    BY <2>1, <2>3 DEF MeaningKept
<1>5. CASE Finish
  <2>1. ret = "run" /\ ret' = "ok" /\ UNCHANGED <<dest, p, joined>>
    BY <1>5 DEF Finish
  <2>2. \A q : Followed(q)' = Followed(q)
    BY <2>1 DEF Followed, Level, Behind, Ended, Left, Leads
  <2> QED
    BY <2>1, <2>2 DEF MeaningKept
<1>6. CASE Return
  BY <1>6 DEF Return, MeaningKept
<1>7. CASE UNCHANGED vars
  <2>1. UNCHANGED <<ret, dest, p, joined>>
    BY <1>7 DEF vars
  <2>2. \A q : Followed(q)' = Followed(q)
    BY <2>1 DEF Followed, Level, Behind, Ended, Left, Leads
  <2> QED
    BY <2>1, <2>2 DEF MeaningKept
<1> QED
  BY <1>1, <1>2, <1>3, <1>4, <1>5, <1>6, <1>7 DEF Next

(* At the end of the loop everything has been read. *)
LEMMA ReadAll ==
  ASSUME TypeOK, PassedClean, MeaningKept
  PROVE  ResultRight
<1>1. Len(dest) \in Nat /\ Len(joined) \in Nat /\ p \in Nat \ {0} /\ dest \in Seq(Seg)
  BY Sizes
<1>2. ASSUME ret = "ok"
      PROVE  \E names : /\ Resolve(joined) = [names |-> names, above |-> FALSE]
                        /\ dest = names \/ dest = Append(names, "")
  <2>1. p = Len(dest) + 1
    BY <1>2 DEF PassedClean
  <2>2. PICK q \in 0..Len(joined) : Followed(q)
    BY <1>2 DEF MeaningKept
  <2>3. CASE Level(q)
    <3>1. q = Len(joined) /\ p - 1 = Len(dest)
      BY <1>1, <2>1, <2>3 DEF Level, Left
    <3>2. SubSeq(dest, 1, p - 1) = dest
      BY <1>1, <3>1
    <3> QED
      BY <2>3, <3>1, <3>2 DEF Level, Leads, Resolve
  <2>4. CASE Ended(q)
    <3>1. /\ q = Len(joined) /\ dest[p - 1] = ""
          /\ Reading(joined)[q] = [names |-> SubSeq(dest, 1, p - 2), above |-> FALSE]
      BY <2>4 DEF Ended, Leads
    <3>2. p > 1
      BY <2>4 DEF Ended
    <3>3. p - 1 \in 1..Len(dest) /\ p - 1 = Len(dest) /\ (p - 1) - 1 = p - 2
      BY <1>1, <2>1, <3>2
    <3>4. Append(SubSeq(dest, 1, (p - 1) - 1), dest[p - 1]) = SubSeq(dest, 1, p - 1)
      BY <1>1, <3>3, OneMore
    <3>5. SubSeq(dest, 1, p - 1) = dest
      BY <1>1, <3>3
    <3>6. dest = Append(SubSeq(dest, 1, p - 2), "")
      BY <3>1, <3>3, <3>4, <3>5
    <3> QED
      BY <3>1, <3>6 DEF Resolve
  <2>5. ~ Behind(q)
    <3>1. Behind(q) => p <= Len(dest)
      BY DEF Behind
    <3> QED
      BY <1>1, <2>1, <3>1
  <2> QED
    BY <2>2, <2>3, <2>4, <2>5 DEF Followed
<1>3. ret = "above" => Resolve(joined).above
  BY DEF MeaningKept
<1>4. ASSUME ret = "ok"
      PROVE  /\ ~ Resolve(joined).above
             /\ dest \in {Resolve(joined).names, Append(Resolve(joined).names, "")}
  <2>1. PICK names : /\ Resolve(joined) = [names |-> names, above |-> FALSE]
                     /\ dest = names \/ dest = Append(names, "")
    BY <1>2, <1>4
  <2>2. Resolve(joined) = [names |-> names, above |-> FALSE]
    BY <2>1
  <2>3. [names |-> names, above |-> FALSE].names = names
    OBVIOUS
  <2>4. ~ [names |-> names, above |-> FALSE].above
    OBVIOUS
  <2>5. Resolve(joined).names = names
    BY ONLY <2>2, <2>3, Zenon
  <2>6. ~ Resolve(joined).above
    BY ONLY <2>2, <2>4, Zenon
  <2>7. dest = names \/ dest = Append(names, "")
    BY <2>1
  <2>8. dest \in {Resolve(joined).names, Append(Resolve(joined).names, "")}
    BY ONLY <2>5, <2>7, Zenon
  <2> QED
    BY <2>6, <2>8
<1> QED
  BY <1>3, <1>4 DEF ResultRight

(* What connect_dir makes of a path in place, moving it under the pointer   *)
(* and the pointer back, is the path a reader would make of it; and a path  *)
(* is refused exactly when a reader would be above the root.                *)
THEOREM ResultAlwaysRight == Spec => []ResultRight
<1>1. Init => MeaningKept
  BY DEF Init, MeaningKept
<1>2. TypeOK /\ TypeOK' /\ Inv /\ MeaningKept /\ [Next]_vars => MeaningKept'
  BY NextMeaning
<1>3. TypeOK /\ Inv /\ MeaningKept => ResultRight
  BY ReadAll DEF Inv
<1> QED
  BY <1>1, <1>2, <1>3, CleanInvariant, TypeCorrect, PTL DEF Spec

-----------------------------------------------------------------------------
(* What a segment at the end adds to a path's meaning *)
LEMMA ReadOneMore ==
  ASSUME NEW a \in Seq(Seg), NEW x \in Seg
  PROVE  Resolve(a \o <<x>>) = Push(Resolve(a), x)
<1> DEFINE b == a \o <<x>>
           S == {n \in Nat : n <= Len(a) => Reading(b)[n] = Reading(a)[n]}
<1>1. /\ Len(a) \in Nat /\ b \in Seq(Seg) /\ Len(b) = Len(a) + 1
      /\ b[Len(a) + 1] = x /\ \A k \in 1..Len(a) : b[k] = a[k]
  OBVIOUS
<1> HIDE DEF b
<1>2. 0 \in S
  BY <1>1, ReadingFacts
<1>3. ASSUME NEW n \in S PROVE n + 1 \in S
  <2> SUFFICES ASSUME n + 1 <= Len(a) PROVE Reading(b)[n + 1] = Reading(a)[n + 1]
    OBVIOUS
  <2>1. n \in 0..(Len(a) - 1) /\ n \in 0..(Len(b) - 1) /\ n + 1 \in 1..Len(a)
    BY <1>1
  <2>2. Reading(b)[n] = Reading(a)[n]
    BY <1>1, <2>1
  <2>3. Reading(a)[n + 1] = Push(Reading(a)[n], a[n + 1])
    BY <1>1, <2>1, ReadingFacts
  <2>4. Reading(b)[n + 1] = Push(Reading(b)[n], b[n + 1])
    BY <1>1, <2>1, ReadingFacts
  <2>5. b[n + 1] = a[n + 1]
    BY <1>1, <2>1
  <2> QED
    BY <2>2, <2>3, <2>4, <2>5
<1>4. S \subseteq Nat
  OBVIOUS
<1> HIDE DEF S
<1>5. S = Nat
  BY <1>2, <1>3, <1>4, Induction
<1>6. Reading(b)[Len(a)] = Reading(a)[Len(a)]
  BY <1>1, <1>5 DEF S
<1>7. Len(a) \in 0..(Len(b) - 1)
  BY <1>1
<1>8. Reading(b)[Len(a) + 1] = Push(Reading(b)[Len(a)], b[Len(a) + 1])
  BY <1>1, <1>7, ReadingFacts
<1> QED
  BY <1>1, <1>6, <1>8 DEF Resolve, b

(* A name goes on the stack, and ".." takes one off. *)
LEMMA PushSlash ==
  ASSUME NEW names
  PROVE  Push([names |-> names, above |-> FALSE], "") = [names |-> names, above |-> FALSE]
BY DEF Push

LEMMA PushName ==
  ASSUME NEW names, NEW x, x \notin {"", ".", ".."}
  PROVE  Push([names |-> names, above |-> FALSE], x) = [names |-> Append(names, x), above |-> FALSE]
BY DEF Push

LEMMA PushUp ==
  ASSUME NEW names
  PROVE  /\ names = <<>> => Push([names |-> names, above |-> FALSE], "..").above
         /\ names # <<>> => Push([names |-> names, above |-> FALSE], "..")
                             = [names |-> SubSeq(names, 1, Len(names) - 1), above |-> FALSE]
BY DEF Push

(* The length of a path *)
LEMMA LengthType == ASSUME NEW a \in Seq(Seg) PROVE Len(a) \in Nat
OBVIOUS

LEMMA EmptyLength == ASSUME NEW a \in Seq(Seg), a # <<>> PROVE Len(a) > 0
OBVIOUS

(* The beginning of a path *)
LEMMA BeginFacts ==
  ASSUME NEW a \in Seq(Seg), NEW n \in 0..Len(a)
  PROVE  /\ SubSeq(a, 1, n) \in Seq(Seg)
         /\ Len(SubSeq(a, 1, n)) = n
         /\ \A k \in 1..n : SubSeq(a, 1, n)[k] = a[k]
<1>1. Len(a) \in Nat
  OBVIOUS
<1> QED
  BY <1>1, PartFacts

(* A path's directory: every segment of it is a name. *)
Named(names) == \A k \in 1..Len(names) : names[k] \notin {"", ".", ".."}

LEMMA DirectoryFacts ==
  ASSUME NEW path \in Seq(Seg), Clean(path, Len(path))
  PROVE  /\ Directory(path) \in Seq(Seg) /\ Named(Directory(path))
         /\ \/ Directory(path) = path
            \/ /\ Len(path) > 0 /\ path[Len(path)] = ""
               /\ Directory(path) = SubSeq(path, 1, Len(path) - 1)
               /\ Len(Directory(path)) = Len(path) - 1
<1>1. Len(path) \in Nat /\ (path # <<>> => Len(path) > 0)
  OBVIOUS
<1>2. CASE path # <<>> /\ path[Len(path)] = ""
  <2> DEFINE d == SubSeq(path, 1, Len(path) - 1)
  <2>1. d \in Seq(Seg) /\ Len(d) = Len(path) - 1 /\ \A k \in 1..(Len(path) - 1) : d[k] = path[k]
    <3>1. path # <<>>
      BY <1>2, Zenon
    <3>2. Len(path) - 1 \in 0..Len(path)
      BY ONLY <1>1, <3>1
    <3> QED
      BY <3>2, BeginFacts
  <2>2. Directory(path) = d
    BY <1>2 DEF Directory
  <2> HIDE DEF d
  <2>3. ASSUME NEW k \in 1..Len(d) PROVE d[k] \notin {"", ".", ".."}
    <3>1. k \in 1..Len(path) /\ k # Len(path) /\ d[k] = path[k]
      BY <1>1, <2>1
    <3> QED
      BY <3>1 DEF Clean
  <2> QED
    BY <1>1, <1>2, <2>1, <2>2, <2>3 DEF Named, d
<1>3. CASE ~ (path # <<>> /\ path[Len(path)] = "")
  <2>1. Directory(path) = path
    BY <1>3 DEF Directory
  <2>2. ASSUME NEW k \in 1..Len(path) PROVE path[k] \notin {"", ".", ".."}
    <3>1. path # <<>> => path[Len(path)] # ""
      BY <1>3
    <3>2. path # <<>>
      BY <1>1
    <3> QED
      BY <3>1, <3>2 DEF Clean
  <2> QED
    BY <2>1, <2>2 DEF Named
<1> QED
  BY <1>2, <1>3

(* Names lead to themselves. *)
LEMMA NamesLead ==
  ASSUME NEW path, Len(path) \in Nat, NEW names \in Seq(Seg), Named(names),
         Len(names) <= Len(path), \A k \in 1..Len(names) : path[k] = names[k]
  PROVE  Reading(path)[Len(names)] = [names |-> names, above |-> FALSE]
<1> DEFINE S == {n \in Nat : n <= Len(names) =>
                   Reading(path)[n] = [names |-> SubSeq(names, 1, n), above |-> FALSE]}
<1>1. Len(names) \in Nat
  OBVIOUS
<1>2. 0 \in S
  <2>1. SubSeq(names, 1, 0) = <<>>
    OBVIOUS
  <2>2. Reading(path)[0] = Root
    BY ReadingFacts
  <2> QED
    BY <2>1, <2>2 DEF Root
<1>3. ASSUME NEW n \in S PROVE n + 1 \in S
  <2> SUFFICES ASSUME n + 1 <= Len(names)
               PROVE  Reading(path)[n + 1] = [names |-> SubSeq(names, 1, n + 1), above |-> FALSE]
    OBVIOUS
  <2>1. n \in 0..(Len(path) - 1) /\ n + 1 \in 1..Len(names) /\ (n + 1) - 1 = n
    BY <1>1
  <2>2. Reading(path)[n] = [names |-> SubSeq(names, 1, n), above |-> FALSE]
    BY <1>1, <2>1
  <2>3. Reading(path)[n + 1] = Push(Reading(path)[n], names[n + 1])
    BY <2>1, ReadingFacts
  <2>4. names[n + 1] \notin {"", ".", ".."}
    BY <2>1 DEF Named
  <2>5. Append(SubSeq(names, 1, n), names[n + 1]) = SubSeq(names, 1, n + 1)
    BY <2>1, OneMore
  <2>6. Push([names |-> SubSeq(names, 1, n), above |-> FALSE], names[n + 1])
        = [names |-> Append(SubSeq(names, 1, n), names[n + 1]), above |-> FALSE]
    BY ONLY <2>4, PushName, Zenon
  <2> QED
    BY ONLY <2>2, <2>3, <2>5, <2>6, Zenon
<1>4. S \subseteq Nat
  OBVIOUS
<1> HIDE DEF S
<1>5. S = Nat
  BY <1>2, <1>3, <1>4, Induction
<1>6. Len(names) \in S
  BY <1>1, <1>5
<1>7. Reading(path)[Len(names)] = [names |-> SubSeq(names, 1, Len(names)), above |-> FALSE]
  BY <1>1, <1>6 DEF S
<1>8. SubSeq(names, 1, Len(names)) = names
  OBVIOUS
<1> QED
  BY <1>7, <1>8

(* A clean path leads to its directory. *)
LEMMA CleanLeads ==
  ASSUME NEW path \in Seq(Seg), Clean(path, Len(path))
  PROVE  Resolve(path) = [names |-> Directory(path), above |-> FALSE]
<1>1. PICK d : d = Directory(path)
  OBVIOUS
<1>2. d \in Seq(Seg) /\ Named(d)
  BY <1>1, DirectoryFacts, Zenon
<1>3. Len(path) \in Nat
  BY LengthType
<1>4. CASE d = path
  <2>1. Len(d) <= Len(path) /\ \A k \in 1..Len(d) : path[k] = d[k]
    BY ONLY <1>3, <1>4
  <2>2. Reading(path)[Len(d)] = [names |-> d, above |-> FALSE]
    BY ONLY <1>2, <1>3, <2>1, NamesLead
  <2> QED
    BY ONLY <1>1, <1>4, <2>2, Zenon DEF Resolve
<1>5. CASE d # path
  <2>1. /\ Len(path) > 0 /\ path[Len(path)] = ""
        /\ d = SubSeq(path, 1, Len(path) - 1) /\ Len(d) = Len(path) - 1
    BY <1>1, <1>5, DirectoryFacts, Zenon
  <2>2. Len(path) - 1 \in 0..Len(path)
    <3>1. Len(path) > 0
      BY <2>1, Zenon
    <3> QED
      BY ONLY <1>3, <3>1
  <2>3. \A k \in 1..Len(d) : path[k] = d[k]
    <3>1. \A k \in 1..(Len(path) - 1) : SubSeq(path, 1, Len(path) - 1)[k] = path[k]
      BY <2>2, BeginFacts
    <3>2. d = SubSeq(path, 1, Len(path) - 1) /\ Len(d) = Len(path) - 1
      BY <2>1, Zenon
    <3> QED
      BY ONLY <3>1, <3>2
  <2>4. Len(d) <= Len(path) /\ Len(d) \in 0..(Len(path) - 1) /\ Len(d) + 1 = Len(path)
    <3>1. Len(d) = Len(path) - 1 /\ Len(path) > 0
      BY <2>1, Zenon
    <3> QED
      BY ONLY <1>3, <3>1
  <2>5. Reading(path)[Len(d)] = [names |-> d, above |-> FALSE]
    BY ONLY <1>2, <1>3, <2>3, <2>4, NamesLead
  <2>6. Reading(path)[Len(d) + 1] = Push(Reading(path)[Len(d)], path[Len(d) + 1])
    BY ONLY <1>3, <2>4, ReadingFacts
  <2>7. path[Len(path)] = "" /\ Len(d) + 1 = Len(path)
    BY ONLY <2>1, <2>4, Zenon
  <2>8. Resolve(path) = Push([names |-> d, above |-> FALSE], "")
    BY ONLY <2>5, <2>6, <2>7, Zenon DEF Resolve
  <2> QED
    BY ONLY <1>1, <2>8, PushSlash, Zenon
<1> QED
  BY <1>4, <1>5

(* A result with or without a slash at its end is of the same directory. *)
LEMMA DirectoryOf ==
  ASSUME NEW names \in Seq(Seg), Named(names), NEW path, path = names \/ path = Append(names, "")
  PROVE  Directory(path) = names
<1>1. Len(names) \in Nat
  BY LengthType
<1>2. CASE path = names
  <2>1. names # <<>> => Len(names) \in 1..Len(names)
    <3>1. names # <<>> => Len(names) > 0
      BY EmptyLength, Zenon
    <3> QED
      BY ONLY <1>1, <3>1
  <2>2. names # <<>> => names[Len(names)] # ""
    BY ONLY Named(names), <2>1 DEF Named
  <2> QED
    BY ONLY <1>2, <2>2, Zenon DEF Directory
<1>3. CASE path = Append(names, "")
  <2>1. PICK x : x = ""
    OBVIOUS
  <2>2. x \in Seg
    BY <2>1 DEF Seg
  <2>3. path = Append(names, x)
    BY <1>3, <2>1
  <2>4. /\ Len(path) = Len(names) + 1 /\ path[Len(names) + 1] = x /\ path # <<>>
        /\ (Len(names) + 1) - 1 = Len(names)
        /\ SubSeq(path, 1, Len(names)) = names
    BY ONLY <1>1, <2>2, <2>3, names \in Seq(Seg)
  <2> QED
    BY ONLY <2>1, <2>4, Zenon DEF Directory
<1> QED
  BY <1>2, <1>3

(* What is left of a directory without its last name is one, and so is one  *)
(* with a name more.                                                        *)
LEMMA NamedOneMore ==
  ASSUME NEW names \in Seq(Seg), Named(names), NEW x \in Seg, x \notin {"", ".", ".."}
  PROVE  Append(names, x) \in Seq(Seg) /\ Named(Append(names, x))
<1>1. /\ Append(names, x) \in Seq(Seg) /\ Len(Append(names, x)) = Len(names) + 1
      /\ Append(names, x)[Len(names) + 1] = x
      /\ \A k \in 1..Len(names) : Append(names, x)[k] = names[k]
  BY ONLY names \in Seq(Seg), x \in Seg
<1>2. Len(names) \in Nat
  BY LengthType
<1>3. ASSUME NEW k \in 1..(Len(names) + 1) PROVE Append(names, x)[k] \notin {"", ".", ".."}
  <2>1. k \in 1..Len(names) \/ k = Len(names) + 1
    BY ONLY <1>2, k \in 1..(Len(names) + 1)
  <2> QED
    BY <1>1, <2>1, Zenon DEF Named
<1> QED
  BY <1>1, <1>3, Zenon DEF Named

LEMMA NamedOneLess ==
  ASSUME NEW names \in Seq(Seg), Named(names), names # <<>>
  PROVE  LET left == SubSeq(names, 1, Len(names) - 1) IN left \in Seq(Seg) /\ Named(left)
<1> DEFINE left == SubSeq(names, 1, Len(names) - 1)
<1>1. Len(names) \in Nat /\ Len(names) > 0
  BY LengthType, EmptyLength
<1>2. Len(names) - 1 \in 0..Len(names)
  BY ONLY <1>1
<1>3. left \in Seq(Seg) /\ Len(left) = Len(names) - 1
      /\ \A k \in 1..(Len(names) - 1) : left[k] = names[k]
  BY <1>2, BeginFacts
<1> HIDE DEF left
<1>4. ASSUME NEW k \in 1..Len(left) PROVE left[k] \notin {"", ".", ".."}
  <2>1. k \in 1..(Len(names) - 1) /\ k \in 1..Len(names)
    BY ONLY <1>1, <1>3, k \in 1..Len(left)
  <2>2. left[k] = names[k]
    BY <1>3, <2>1, Zenon
  <2> QED
    BY <2>1, <2>2, Zenon DEF Named
<1> QED
  BY <1>3, <1>4, Zenon DEF Named, left

LEMMA ArgumentRead ==
  ASSUME TypeOK, DirClean, ResultRight
  PROVE  ArgumentsResolved
<1>1. PICK here : here = Directory(dir)
  OBVIOUS
<1>2. dir \in Seq(Seg) /\ dest \in Seq(Seg) /\ joined \in Seq(Seg) /\ Clean(dir, Len(dir))
  BY DEF TypeOK, DirClean
<1>3. here \in Seq(Seg) /\ Named(here)
  BY <1>1, <1>2, DirectoryFacts, Zenon
<1>4. Resolve(dir) = [names |-> here, above |-> FALSE]
  BY <1>1, <1>2, CleanLeads, Zenon
<1>5. ASSUME NEW names \in Seq(Seg), Named(names),
             Resolve(joined) = [names |-> names, above |-> FALSE]
      PROVE  ret # "above" /\ (ret = "ok" => Directory(dest) = names)
  <2>1. [names |-> names, above |-> FALSE].names = names /\ ~ [names |-> names, above |-> FALSE].above
    OBVIOUS
  <2>2. Resolve(joined).names = names /\ ~ Resolve(joined).above
    BY ONLY <1>5, <2>1, Zenon
  <2>3. ret # "above"
    BY <2>2, Zenon DEF ResultRight
  <2>4. ret = "ok" => dest \in {names, Append(names, "")}
    BY <2>2, Zenon DEF ResultRight
  <2>5. ret = "ok" => dest = names \/ dest = Append(names, "")
    BY ONLY <2>4, Zenon
  <2> QED
    BY <2>3, <2>5, <1>5, DirectoryOf, Zenon
<1>6. ASSUME NEW n \in Name, joined = dir \o <<n>>
      PROVE  ret # "above" /\ (ret = "ok" => Directory(dest) = Append(here, n))
  <2>1. n \in Seg /\ n \notin {"", ".", ".."}
    BY NameAssumption DEF Seg
  <2>2. Resolve(joined) = Push(Resolve(dir), n)
    BY <1>2, <1>6, <2>1, ReadOneMore, Zenon
  <2>3. Resolve(joined) = [names |-> Append(here, n), above |-> FALSE]
    BY <1>4, <2>1, <2>2, PushName, Zenon
  <2>4. Append(here, n) \in Seq(Seg) /\ Named(Append(here, n))
    BY <1>3, <2>1, NamedOneMore, Zenon
  <2> QED
    BY <1>5, <2>3, <2>4, Zenon
<1>7. ASSUME joined = dir \o <<"..">>
      PROVE  /\ ret = "above" => here = <<>>
             /\ ret = "ok" => here # <<>> /\ Directory(dest) = SubSeq(here, 1, Len(here) - 1)
  <2>1. PICK x : x = ".."
    OBVIOUS
  <2>2. x \in Seg
    BY <2>1 DEF Seg
  <2>3. Resolve(joined) = Push([names |-> here, above |-> FALSE], "..")
    BY <1>2, <1>4, <1>7, <2>1, <2>2, ReadOneMore, Zenon
  <2>4. CASE here = <<>>
    <3>1. Resolve(joined).above
      BY <2>3, <2>4, PushUp, Zenon
    <3>2. ret # "ok"
      BY <3>1, Zenon DEF ResultRight
    <3> QED
      BY <2>4, <3>2, Zenon
  <2>5. CASE here # <<>>
    <3>1. Resolve(joined) = [names |-> SubSeq(here, 1, Len(here) - 1), above |-> FALSE]
      BY <2>3, <2>5, PushUp, Zenon
    <3>2. SubSeq(here, 1, Len(here) - 1) \in Seq(Seg) /\ Named(SubSeq(here, 1, Len(here) - 1))
      BY <1>3, <2>5, NamedOneLess, Zenon
    <3> QED
      BY <1>5, <2>5, <3>1, <3>2, Zenon
  <2> QED
    BY <2>4, <2>5
<1>8. ASSUME joined \in Seq(Name)
      PROVE  ret # "above" /\ (ret = "ok" => Directory(dest) = joined)
  <2>1. Len(joined) \in Nat /\ \A k \in 1..Len(joined) : joined[k] \in Name
    BY <1>8
  <2>2. Named(joined)
    BY <2>1, NameAssumption DEF Named
  <2>3. Clean(joined, Len(joined))
    BY <2>2 DEF Clean, Named
  <2>4. Resolve(joined) = [names |-> Directory(joined), above |-> FALSE]
    BY <1>2, <2>3, CleanLeads, Zenon
  <2>5. Directory(joined) = joined
    BY <1>2, <2>2, DirectoryOf, Zenon
  <2>6. Resolve(joined) = [names |-> joined, above |-> FALSE]
    BY ONLY <2>4, <2>5, Zenon
  <2> QED
    BY <1>2, <1>5, <2>2, <2>6, Zenon
<1> QED
  BY <1>1, <1>6, <1>7, <1>8, Zenon DEF ArgumentsResolved

(* What each command's argument names, from wherever the session's CWDs     *)
(* have led: what Namespace takes for granted of connect_dir, for names     *)
(* and paths of any number and length.                                      *)
THEOREM ArgumentsAlwaysResolved == Spec => []ArgumentsResolved
<1>1. TypeOK /\ Inv /\ ResultRight => ArgumentsResolved
  BY ArgumentRead DEF Inv
<1> QED
  BY <1>1, CleanInvariant, TypeCorrect, ResultAlwaysRight, PTL
=============================================================================
