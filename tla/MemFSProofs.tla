----------------------------- MODULE MemFSProofs -----------------------------
(***************************************************************************)
(* For any set of paths and any data: a read returns what was written      *)
(* (ReadsBack), and readdir lists the members of a directory               *)
(* (ListsMembers).                                                         *)
(***************************************************************************)
EXTENDS MemFS, WellFoundedInduction, SequenceTheorems, TLAPS

-----------------------------------------------------------------------------
(* Largest and smallest elements *)

Less == {p \in Nat \X Nat : p[1] < p[2]}

LEMMA LessWellFounded == IsWellFoundedOn(Less, Nat)
BY NatLessThanWellFounded DEF OpToRel, Less

LEMMA SmallestExists ==
  ASSUME NEW S, S \subseteq Nat, S # {}
  PROVE  \E x \in S : \A y \in S : x <= y
<1>1. PICK x \in S : \A y \in S : ~ (<<y, x>> \in Less)
  BY LessWellFounded, WFMin
<1>2. ASSUME NEW y \in S PROVE x <= y
  <2>1. x \in Nat /\ y \in Nat
    OBVIOUS
  <2>2. ~ (y < x)
    BY <1>1, <2>1 DEF Less
  <2> QED BY <2>1, <2>2
<1> QED BY <1>2

LEMMA LargestExists ==
  ASSUME NEW n \in Nat, NEW S, S \subseteq 0 .. n, S # {}
  PROVE  \E x \in S : \A y \in S : x >= y
<1> DEFINE U == {m \in Nat : \E y \in S : m = n - y}
<1>1. PICK y \in S : TRUE
  OBVIOUS
<1>2. n - y \in U
  BY <1>1
<1>3. PICK m \in U : \A k \in U : m <= k
  BY <1>2, SmallestExists
<1>4. PICK x \in S : m = n - x
  OBVIOUS
<1>5. ASSUME NEW z \in S PROVE x >= z
  <2>1. z \in 0 .. n /\ x \in 0 .. n
    OBVIOUS
  <2>2. n - z \in U
    BY <2>1
  <2>3. n - x <= n - z
    BY <2>2, <1>3, <1>4
  <2> QED BY <2>1, <2>3
<1> QED BY <1>5

LEMMA MaxIs == ASSUME NEW S, S \subseteq Int, NEW n \in S, \A y \in S : y <= n
               PROVE  Max(S) = n
<1>1. \A x \in S : (\A y \in S : x >= y) => x = n
  OBVIOUS
<1>2. \A y \in S : n >= y
  OBVIOUS
<1> QED BY <1>1, <1>2 DEF Max

LEMMA MinIs == ASSUME NEW S, S \subseteq Int, NEW n \in S, \A y \in S : n <= y
               PROVE  Min(S) = n
<1>1. \A x \in S : (\A y \in S : x =< y) => x = n
  OBVIOUS
<1> QED BY <1>1 DEF Min

-----------------------------------------------------------------------------
(* Reading and writing *)

Write == [data : Data, offset : Nat]

\* The byte at place i after the writes: each write that begins before i sets it
\* or cuts the file off before it.
ByteAt(writes, i) ==
  LET settling == {k \in DOMAIN writes : writes[k].offset < i} IN
  IF settling = {} THEN 0
  ELSE LET w == writes[Max(settling)]
       IN  IF i <= w.offset + Len(w.data) THEN w.data[i - w.offset] ELSE 0

\* Where the last write ended
EndOf(writes) == IF writes = <<>> THEN 0 ELSE Last(writes).offset + Len(Last(writes).data)

\* What a sequence of writes leaves at a place, when one more comes: it sets the
\* byte or cuts the file off before it, unless it begins behind it.
LEMMA ByteAtAppend ==
  ASSUME NEW writes \in Seq(Write), NEW w \in Write, NEW i \in Nat
  PROVE  ByteAt(Append(writes, w), i) =
           IF w.offset < i
             THEN IF i <= w.offset + Len(w.data) THEN w.data[i - w.offset] ELSE 0
             ELSE ByteAt(writes, i)
<1> DEFINE n == Len(writes) + 1
           more == Append(writes, w)
           before == {k \in DOMAIN writes : writes[k].offset < i}
           after == {k \in DOMAIN more : more[k].offset < i}
<1>1. /\ DOMAIN writes = 1 .. n - 1 /\ DOMAIN more = 1 .. n /\ n \in Nat
      /\ more[n] = w /\ \A k \in 1 .. n - 1 : more[k] = writes[k]
  OBVIOUS
<1>2. CASE w.offset < i
  <2>1. n \in after /\ after \subseteq 1 .. n
    BY <1>1, <1>2
  <2>2. after \subseteq Int /\ \A y \in after : y <= n
    BY <2>1, <1>1
  <2> HIDE DEF after, n
  <2>3. Max(after) = n
    BY <2>1, <2>2, MaxIs
  <2> USE DEF after, n
  <2> QED BY <2>1, <2>3, <1>1, <1>2 DEF ByteAt
<1>3. CASE ~ (w.offset < i)
  <2>1. after = before
    BY <1>1, <1>3
  <2>2. CASE before = {}
    BY <2>1, <2>2, <1>3 DEF ByteAt
  <2>3. CASE before # {}
    <3>1. before \subseteq 0 .. n - 1
      BY <1>1
    <3>2. n - 1 \in Nat /\ before \subseteq Int
      BY <3>1
    <3> HIDE DEF before, n
    <3>3. PICK x \in before : \A y \in before : x >= y
      BY <3>1, <3>2, <2>3, LargestExists
    <3>5. \A y \in before : y <= x
      BY <3>2, <3>3
    <3>6. Max(before) = x
      BY <3>2, <3>5, MaxIs
    <3> USE DEF before, n
    <3>4. more[x] = writes[x]
      BY <3>1, <1>1
    <3> QED BY <2>1, <2>3, <3>4, <3>6, <1>3 DEF ByteAt
  <2> QED BY <2>2, <2>3
<1> QED BY <1>2, <1>3

\* Behind the end there is nothing.
LEMMA NothingBehind ==
  ASSUME NEW writes \in Seq(Write), NEW i \in Nat, i > EndOf(writes)
  PROVE  ByteAt(writes, i) = 0
<1> DEFINE settling == {k \in DOMAIN writes : writes[k].offset < i}
           n == Len(writes)
<1>1. CASE writes = <<>>
  <2>1. settling = {}
    BY <1>1
  <2> QED BY <2>1 DEF ByteAt
<1>2. CASE writes # <<>>
  <2>1. n \in 1 .. n /\ DOMAIN writes = 1 .. n /\ writes[n] \in Write
    BY <1>2
  <2>2. Len(writes[n].data) \in Nat /\ writes[n].offset \in Nat
    BY <2>1, DataAssumption DEF Write
  <2>3. i > writes[n].offset + Len(writes[n].data)
    BY <1>2 DEF EndOf, Last
  <2>4. n \in settling
    BY <2>1, <2>2, <2>3
  <2>5. settling \subseteq Int /\ \A y \in settling : y <= n
    BY <2>1
  <2> HIDE DEF settling, n
  <2>6. Max(settling) = n
    BY <2>4, <2>5, MaxIs
  <2> USE DEF settling, n
  <2> QED BY <2>2, <2>3, <2>4, <2>6 DEF ByteAt
<1> QED BY <1>1, <1>2

\* The types, and the history that makes the contents
TypeOK == /\ directories \subseteq Path \cup {Root} /\ Root \in directories
          /\ DOMAIN files \subseteq Path /\ DOMAIN history = DOMAIN files
          /\ files = [p \in DOMAIN files |-> files[p]]
          /\ history = [p \in DOMAIN files |-> history[p]]
          /\ \A p \in DOMAIN files : history[p] \in Seq(Write)
Contents == \A p \in DOMAIN files :
  files[p] = [i \in 1 .. EndOf(history[p]) |-> ByteAt(history[p], i)]

\* The inductive invariant
Inv == TypeOK /\ Contents

LEMMA EndIsNat == ASSUME NEW writes \in Seq(Write) PROVE EndOf(writes) \in Nat
<1>1. CASE writes # <<>>
  <2>1. Last(writes) \in Write
    BY <1>1 DEF Last
  <2> QED BY <1>1, <2>1, DataAssumption DEF EndOf, Write
<1> QED BY <1>1 DEF EndOf

LEMMA InitInv == Init => Inv
BY DEF Init, Inv, TypeOK, Contents

LEMMA WriteInv ==
  ASSUME Inv, NEW p \in Path, NEW data \in Data, NEW offset \in 0 .. MaxSize,
         write(p, data, offset)
  PROVE  Inv'
<1> USE DEF Inv, TypeOK
<1> DEFINE w == [data |-> data, offset |-> offset]
           old == history[p]
           new == Append(old, w)
           n == offset + Len(data)
<1>0. /\ p \in DOMAIN files /\ UNCHANGED directories
      /\ files' = [files EXCEPT ![p] = Overlay(Resized(@, n), data, offset)]
      /\ history' = [history EXCEPT ![p] = new]
  BY DEF write
<1>1. w \in Write /\ offset \in Nat /\ Len(data) \in Nat /\ n \in Nat
  BY DataAssumption DEF Write
<1>2. old \in Seq(Write) /\ new \in Seq(Write)
  BY <1>0, <1>1
<1>3. TypeOK'
  BY <1>0, <1>2
<1>4. EndOf(new) = n
  <2>1. Len(new) = Len(old) + 1 /\ new[Len(old) + 1] = w /\ Len(old) \in Nat
    BY <1>1, <1>2, AppendProperties
  <2> HIDE DEF new, old, w
  <2>2. Last(new) = w /\ new # <<>>
    BY <1>2, <2>1 DEF Last
  <2> QED BY <2>2 DEF EndOf, w
<1>5. Overlay(Resized(files[p], n), data, offset) = [i \in 1 .. n |-> ByteAt(new, i)]
  <2>1. EndOf(old) \in Nat
    BY <1>2, EndIsNat
  <2>2. files[p] = [i \in 1 .. EndOf(old) |-> ByteAt(old, i)]
    BY <1>0 DEF Contents
  <2>3. Len(files[p]) = EndOf(old)
    BY <2>1, <2>2
  <2>4. Resized(files[p], n) = [i \in 1 .. n |-> ByteAt(old, i)]
    <3>1. ASSUME NEW i \in 1 .. n
          PROVE  ByteAt(old, i) = IF i <= EndOf(old) THEN files[p][i] ELSE 0
      BY <1>1, <1>2, <2>1, <2>2, NothingBehind
    <3> QED BY <2>3, <3>1 DEF Resized
  <2>5. ASSUME NEW i \in 1 .. n
        PROVE  ByteAt(new, i) = IF i > offset /\ i <= n THEN data[i - offset]
                                ELSE ByteAt(old, i)
    <3>1. ByteAt(new, i) = IF w.offset < i
             THEN IF i <= w.offset + Len(w.data) THEN w.data[i - w.offset] ELSE 0
             ELSE ByteAt(old, i)
      BY <1>1, <1>2, ByteAtAppend
    <3> QED BY <1>1, <3>1
  <2> HIDE DEF new
  <2> QED BY <2>4, <2>5 DEF Overlay
<1>6. Contents'
  BY <1>0, <1>4, <1>5 DEF Contents
<1> QED BY <1>3, <1>6

LEMMA NextInv == ASSUME Inv, [Next]_vars PROVE Inv'
<1>1. ASSUME NEW p \in Path, create(p) PROVE Inv'
  <2>1. /\ DOMAIN files' = DOMAIN files \cup {p} /\ DOMAIN history' = DOMAIN files'
        /\ files' = [q \in DOMAIN files \cup {p} |-> IF q = p THEN <<>> ELSE files[q]]
        /\ history' = [q \in DOMAIN files \cup {p} |-> IF q = p THEN <<>> ELSE history[q]]
        /\ UNCHANGED directories
    BY <1>1 DEF create, Inv, TypeOK, Entered
  <2>2. <<>> \in Seq(Write) /\ EndOf(<<>>) = 0
    BY DEF EndOf
  <2>3. TypeOK'
    BY <2>1, <2>2 DEF Inv, TypeOK
  <2>4. ASSUME NEW q \in DOMAIN files'
        PROVE  files'[q] = [i \in 1 .. EndOf(history'[q]) |-> ByteAt(history'[q], i)]
    <3>1. CASE q = p
      BY <2>1, <2>2, <3>1
    <3>2. CASE q # p
      BY <2>1, <3>2 DEF Inv, Contents
    <3> QED BY <3>1, <3>2
  <2> QED BY <2>3, <2>4 DEF Inv, Contents
<1>2. ASSUME NEW p \in Path, mkdir(p) PROVE Inv'
  BY <1>2 DEF mkdir, Inv, TypeOK, Contents
<1>3. CASE UNCHANGED vars
  BY <1>3 DEF vars, Inv, TypeOK, Contents
<1> QED BY <1>1, <1>2, <1>3, WriteInv DEF Next

\* The byte at a place is the one last written there, or zero because a later
\* write cut it off.
LEMMA ByteIsLast ==
  ASSUME NEW writes \in Seq(Write), NEW i \in Nat
  PROVE  \/ ByteAt(writes, i) = LastByte(writes, i)
         \/ ByteAt(writes, i) = 0 /\ CutSince(writes, i)
<1> DEFINE n == Len(writes)
           settling == {k \in DOMAIN writes : writes[k].offset < i}
           setting == Setting(writes, i)
<1>1. DOMAIN writes = 1 .. n /\ n \in Nat /\ settling \subseteq 0 .. n /\ settling \subseteq Int
  OBVIOUS
<1>2. setting \subseteq settling
  BY DEF Setting
<1>3. CASE settling = {}
  BY <1>2, <1>3 DEF ByteAt, LastByte
<1>4. CASE settling # {}
  <2>1. PICK m \in settling : \A y \in settling : m >= y
    <3> HIDE DEF settling, n
    <3> QED BY <1>1, <1>4, LargestExists
  <2>2. \A y \in settling : y <= m
    BY <1>1, <2>1
  <2>3. Max(settling) = m
    <3> HIDE DEF settling, n
    <3> QED BY <1>1, <2>2, MaxIs
  <2>4. /\ m \in DOMAIN writes /\ writes[m].offset < i /\ writes[m].offset \in Nat
        /\ Len(writes[m].data) \in Nat
    <3>1. m \in DOMAIN writes /\ writes[m].offset < i /\ writes[m] \in Write
      OBVIOUS
    <3> QED BY <3>1, DataAssumption DEF Write
  <2>5. CASE i <= EndAt(writes[m])
    <3>1. m \in setting
      BY <2>4, <2>5 DEF Setting
    <3>2. Max(setting) = m
      <4>1. setting \subseteq Int /\ \A y \in setting : y <= m
        BY <1>1, <1>2, <2>2
      <4> HIDE DEF setting
      <4> QED BY <3>1, <4>1, MaxIs
    <3>3. LastByte(writes, i) = writes[m].data[i - writes[m].offset]
      BY <3>1, <3>2 DEF LastByte
    <3> QED BY <1>4, <2>3, <2>5, <3>3 DEF ByteAt, EndAt
  <2>6. CASE ~ (i <= EndAt(writes[m]))
    <3>1. ByteAt(writes, i) = 0
      BY <1>4, <2>3, <2>6 DEF ByteAt, EndAt
    <3>2. m \notin setting
      BY <2>6 DEF Setting
    <3>3. ASSUME NEW s \in setting PROVE s < m
      BY <1>1, <1>2, <2>2, <3>2
    <3>4. EndAt(writes[m]) < i
      BY <2>4, <2>6 DEF EndAt
    <3> QED BY <2>4, <3>1, <3>3, <3>4 DEF CutSince
  <2> QED BY <2>5, <2>6
<1> QED BY <1>3, <1>4

\* memfs.cpp, read: the vector is what the writes made it, and of that a read
\* returns the part asked for, as far as it goes.
LEMMA ReadsFromContents == Inv => ReadsBack
<1> SUFFICES ASSUME Inv, NEW p \in DOMAIN files, NEW size \in 1 .. MaxSize,
                    NEW offset \in 0 .. MaxSize
             PROVE  /\ \A j \in 1 .. Len(read(p, size, offset)) :
                         \/ read(p, size, offset)[j] = LastByte(history[p], offset + j)
                         \/ /\ read(p, size, offset)[j] = 0
                            /\ CutSince(history[p], offset + j)
                    /\ history[p] # <<>> =>
                         Len(read(p, size, offset))
                           >= Min({size, EndAt(Last(history[p])) - offset})
                    /\ Len(read(p, size, offset)) > 0 =>
                         \E k \in DOMAIN history[p] :
                           offset + Len(read(p, size, offset)) <= EndAt(history[p][k])
  BY DEF ReadsBack
<1> DEFINE end == EndOf(history[p])
           last == IF offset + size <= end THEN offset + size ELSE end
           count == IF last - offset > 0 THEN last - offset ELSE 0
           bytes == read(p, size, offset)
<1>0. history[p] \in Seq(Write)
  BY DEF Inv, TypeOK
<1>1. end \in Nat /\ size \in Nat /\ offset \in Nat
  BY EndIsNat, DataAssumption DEF Inv, TypeOK
<1>2. files[p] = [i \in 1 .. end |-> ByteAt(history[p], i)]
  BY DEF Inv, Contents
<1> HIDE DEF end
<1>3. Len(files[p]) = end
  BY <1>1, <1>2
<1>4. Min({offset + size, end}) = last
  BY <1>1, MinIs
<1>5. Min({size, end - offset}) = last - offset
  BY <1>1, MinIs
<1>7. last \in Nat /\ last <= end /\ count \in Nat
  BY <1>1
<1>8. bytes = [j \in 1 .. count |-> ByteAt(history[p], offset + j)]
  <2>1. bytes = SubSeq(files[p], offset + 1, last)
    BY <1>3, <1>4 DEF read
  <2>2. SubSeq(files[p], offset + 1, last) =
          [j \in 1 .. last - (offset + 1) + 1 |-> files[p][(offset + 1) + j - 1]]
    <3> HIDE DEF last, count, bytes
    <3> QED BY <1>1, <1>7
  <2>3. 1 .. last - (offset + 1) + 1 = 1 .. count
    BY <1>1, <1>7
  <2>4. ASSUME NEW j \in 1 .. count
        PROVE  files[p][(offset + 1) + j - 1] = ByteAt(history[p], offset + j)
    <3>1. (offset + 1) + j - 1 = offset + j /\ offset + j \in 1 .. end
      BY <1>1, <1>7
    <3> HIDE DEF count
    <3> QED BY <1>2, <3>1
  <2> HIDE DEF count, last, bytes
  <2> QED BY <2>1, <2>2, <2>3, <2>4
<1>9. Len(bytes) = count
  <2> HIDE DEF count, bytes
  <2> QED BY <1>7, <1>8
<1>10. ASSUME NEW j \in 1 .. Len(bytes)
       PROVE  \/ bytes[j] = LastByte(history[p], offset + j)
              \/ bytes[j] = 0 /\ CutSince(history[p], offset + j)
  <2>1. j \in 1 .. count /\ offset + j \in Nat
    BY <1>1, <1>7, <1>9
  <2>2. bytes[j] = ByteAt(history[p], offset + j)
    <3> HIDE DEF count, bytes
    <3> QED BY <1>8, <2>1
  <2> QED BY <1>0, <2>1, <2>2, ByteIsLast
<1>11. ASSUME history[p] # <<>>
       PROVE  Len(bytes) >= Min({size, EndAt(Last(history[p])) - offset})
  <2>1. EndAt(Last(history[p])) = end
    BY <1>11 DEF end, EndOf, EndAt
  <2> QED BY <1>1, <1>5, <1>7, <1>9, <2>1
<1>12. ASSUME Len(bytes) > 0
       PROVE  \E k \in DOMAIN history[p] : offset + Len(bytes) <= EndAt(history[p][k])
  <2>1. offset + Len(bytes) <= end /\ end > 0
    BY <1>1, <1>7, <1>9, <1>12
  <2>2. history[p] # <<>>
    BY <2>1 DEF end, EndOf
  <2>3. Len(history[p]) \in DOMAIN history[p] /\ end = EndAt(history[p][Len(history[p])])
    BY <1>0, <2>2 DEF end, EndOf, EndAt, Last
  <2> QED BY <2>1, <2>3
<1> HIDE DEF bytes
<1> QED BY <1>10, <1>11, <1>12 DEF bytes

-----------------------------------------------------------------------------
(* Listing *)

\* A path of the file system, and its last slash
LEMMA PathFacts ==
  ASSUME NEW p \in Path
  PROVE  /\ p \in Seq(Char) /\ Len(p) \in Nat /\ Len(p) > 1 /\ p # Root
         /\ p[1] = Slash /\ p[Len(p)] # Slash
         /\ \A i \in 1 .. Len(p) - 1 : p[i] = Slash => p[i + 1] # Slash
         /\ LastSlash(p) \in 1 .. Len(p) - 1 /\ p[LastSlash(p)] = Slash
         /\ \A i \in 1 .. Len(p) : p[i] = Slash => i <= LastSlash(p)
         /\ LastSlash(p) # 2
<1> DEFINE S == {i \in DOMAIN p : p[i] = Slash}
<1>1. /\ p \in Seq(Char) /\ Len(p) \in Nat /\ Len(p) > 1 /\ DOMAIN p = 1 .. Len(p)
      /\ p[1] = Slash /\ p[Len(p)] # Slash
      /\ \A i \in 1 .. Len(p) - 1 : p[i] = Slash => p[i + 1] # Slash
  BY PathAssumption
<1>2. S \subseteq 0 .. Len(p) /\ S # {} /\ S \subseteq Int
  BY <1>1
<1>3. PICK x \in S : \A y \in S : x >= y
  <2> HIDE DEF S
  <2> QED BY <1>1, <1>2, LargestExists
<1>4. \A y \in S : y <= x
  BY <1>2, <1>3
<1>5. LastSlash(p) = x
  <2>1. Max(S) = x
    <3> HIDE DEF S
    <3> QED BY <1>2, <1>4, MaxIs
  <2> QED BY <2>1 DEF LastSlash
<1>6. x \in 1 .. Len(p) - 1 /\ p[x] = Slash /\ x # 2
  BY <1>1, <1>3
<1>7. p # Root
  BY <1>1 DEF Root
<1> QED BY <1>1, <1>4, <1>5, <1>6, <1>7

\* The prefix of length n of a path
LEMMA PrefixFacts ==
  ASSUME NEW p \in Seq(Char), NEW n \in 0 .. Len(p)
  PROVE  /\ SubSeq(p, 1, n) \in Seq(Char) /\ Len(SubSeq(p, 1, n)) = n
         /\ \A i \in 1 .. n : SubSeq(p, 1, n)[i] = p[i]
<1>1. Len(p) \in Nat /\ n \in Int /\ \A i \in 1 .. n : p[i] \in Char
  OBVIOUS
<1>2. /\ SubSeq(p, 1, n) \in Seq(Char)
      /\ Len(SubSeq(p, 1, n)) = IF 1 <= n THEN n - 1 + 1 ELSE 0
      /\ \A i \in 1 .. n - 1 + 1 : SubSeq(p, 1, n)[i] = p[1 + i - 1]
  BY <1>1, SubSeqProperties
<1> QED BY <1>1, <1>2

LEMMA IsPrefixMeans ==
  ASSUME NEW q \in Seq(Char), NEW p \in Seq(Char)
  PROVE  IsPrefix(q, p) <=> Len(q) <= Len(p) /\ \A i \in 1 .. Len(q) : q[i] = p[i]
<1>1. CASE Len(q) <= Len(p)
  <2>1. Len(q) \in 0 .. Len(p) /\ Len(q) \in 0 .. Len(q)
    BY <1>1
  <2>2. /\ SubSeq(p, 1, Len(q)) \in Seq(Char) /\ Len(SubSeq(p, 1, Len(q))) = Len(q)
        /\ \A i \in 1 .. Len(q) : SubSeq(p, 1, Len(q))[i] = p[i]
    BY <2>1, PrefixFacts
  <2>3. SubSeq(q, 1, Len(q)) = q
    BY SubSeqFull
  <2>4. SubSeq(p, 1, Len(q)) = q <=> \A i \in 1 .. Len(q) : q[i] = p[i]
    BY <2>2, SeqEqual
  <2> QED BY <1>1, <2>3, <2>4 DEF IsPrefix
<1> QED BY <1>1 DEF IsPrefix

\* The parent is the root or what comes before the last slash.
LEMMA ParentFacts ==
  ASSUME NEW p \in Path
  PROVE  /\ Parent(p) \in Seq(Char)
         /\ LastSlash(p) = 1 => Parent(p) = Root
         /\ LastSlash(p) # 1 => /\ Len(Parent(p)) = LastSlash(p) - 1
                                /\ Len(Parent(p)) > 1
                                /\ \A i \in 1 .. LastSlash(p) - 1 : Parent(p)[i] = p[i]
<1>1. p \in Seq(Char) /\ LastSlash(p) \in 1 .. Len(p) - 1 /\ LastSlash(p) # 2 /\ Len(p) \in Nat
  BY PathFacts
<1>2. CASE LastSlash(p) = 1
  BY <1>2, PathAssumption DEF Parent, Root
<1>3. CASE LastSlash(p) # 1
  <2>1. LastSlash(p) - 1 \in 0 .. Len(p) /\ LastSlash(p) - 1 > 1
    BY <1>1, <1>3
  <2> QED BY <1>1, <1>3, <2>1, PrefixFacts DEF Parent
<1> QED BY <1>2, <1>3

\* Below the root: no slash but the first
LEMMA RootMember ==
  ASSUME NEW p \in Path
  PROVE  /\ Member(<<>>, p) <=> Parent(p) = Root
         /\ Parent(p) = Root => LastSlash(p) = 1
<1>1. /\ p # Root /\ p \in Seq(Char) /\ Len(p) \in Nat /\ Len(p) > 1 /\ p[1] = Slash
      /\ LastSlash(p) \in 1 .. Len(p) - 1 /\ p[LastSlash(p)] = Slash
      /\ \A i \in 1 .. Len(p) : p[i] = Slash => i <= LastSlash(p)
  BY PathFacts
<1>2. IsPrefix(<<>>, p)
  <2>1. <<>> \in Seq(Char) /\ Len(<<>>) = 0
    OBVIOUS
  <2>2. Len(<<>>) <= Len(p) /\ \A i \in 1 .. Len(<<>>) : <<>>[i] = p[i]
    BY <1>1, <2>1
  <2> QED BY <1>1, <2>1, <2>2, IsPrefixMeans, Zenon
<1>3. Member(<<>>, p) <=> LastSlash(p) = 1
  BY <1>1, <1>2 DEF Member
<1>4. Len(Root) = 1
  BY DEF Root
<1>5. Parent(p) = Root <=> LastSlash(p) = 1
  BY <1>1, <1>4, ParentFacts
<1> QED BY <1>3, <1>5

\* Below another directory: what has it for a parent, or is its neighbour with a
\* longer name
LEMMA DirectoryMember ==
  ASSUME NEW d \in Path, NEW p \in Path
  PROVE  /\ Member(d, p) <=> \/ Parent(p) = d
                             \/ Parent(p) = Parent(d) /\ p # d /\ IsPrefix(d, p)
         /\ Parent(p) = d => LastSlash(p) = Len(d) + 1
<1> DEFINE l == LastSlash(p)
           m == LastSlash(d)
           n == Len(d)
           prefix == \A i \in 1 .. n : d[i] = p[i]
<1>1. /\ p # Root /\ p \in Seq(Char) /\ Len(p) \in Nat /\ Len(p) > 1 /\ p[1] = Slash
      /\ l \in 1 .. Len(p) - 1 /\ p[l] = Slash /\ l # 2
      /\ \A i \in 1 .. Len(p) : p[i] = Slash => i <= l
  BY PathFacts
<1>2. /\ d # Root /\ d \in Seq(Char) /\ n \in Nat /\ n > 1 /\ d[1] = Slash /\ d[n] # Slash
      /\ m \in 1 .. n - 1 /\ d[m] = Slash /\ m # 2
      /\ \A i \in 1 .. n : d[i] = Slash => i <= m
  BY PathFacts
<1>3. /\ Parent(p) \in Seq(Char)
      /\ l = 1 => Parent(p) = Root
      /\ l # 1 => /\ Len(Parent(p)) = l - 1 /\ Len(Parent(p)) > 1
                  /\ \A i \in 1 .. l - 1 : Parent(p)[i] = p[i]
  BY ParentFacts
<1>4. /\ Parent(d) \in Seq(Char)
      /\ m = 1 => Parent(d) = Root
      /\ m # 1 => /\ Len(Parent(d)) = m - 1 /\ Len(Parent(d)) > 1
                  /\ \A i \in 1 .. m - 1 : Parent(d)[i] = d[i]
  BY ParentFacts
<1>5. IsPrefix(d, p) <=> n <= Len(p) /\ prefix
  BY <1>1, <1>2, IsPrefixMeans
<1> HIDE DEF l, m, n
<1>6. Len(Root) = 1
  BY DEF Root
<1>7. Member(d, p) <=> n < Len(p) /\ prefix /\ l <= n + 1
  BY <1>1, <1>2, <1>5 DEF Member, n
<1>8. ASSUME Parent(p) = d PROVE l = n + 1 /\ Member(d, p)
  <2>1. l # 1
    BY <1>2, <1>3, <1>8
  <2> QED BY <2>1, <1>1, <1>2, <1>3, <1>7, <1>8 DEF n
<1>9. ASSUME Parent(p) = Parent(d), p # d, IsPrefix(d, p) PROVE Member(d, p)
  <2>1. n < Len(p)
    <3> SUFFICES ASSUME n = Len(p) PROVE FALSE
      BY <1>1, <1>2, <1>5, <1>9
    <3> QED BY <1>1, <1>2, <1>5, <1>9, SeqEqual DEF n
  <2>2. l <= n
    BY <1>1, <1>2, <1>3, <1>4, <1>6, <1>9
  <2> QED BY <2>1, <2>2, <1>1, <1>2, <1>5, <1>7, <1>9
<1>10. ASSUME Member(d, p), l = n + 1 PROVE Parent(p) = d
  <2>1. l # 1 /\ Len(Parent(p)) = n /\ \A i \in 1 .. n : Parent(p)[i] = d[i]
    BY <1>1, <1>2, <1>3, <1>7, <1>10
  <2> QED BY <2>1, <1>2, <1>3, SeqEqual DEF n
<1>11. ASSUME Member(d, p), l # n + 1 PROVE Parent(p) = Parent(d) /\ p # d /\ IsPrefix(d, p)
  <2>1. n < Len(p) /\ prefix /\ l <= n
    BY <1>1, <1>2, <1>7, <1>11
  <2>2. p[m] = Slash /\ d[l] = Slash
    BY <2>1, <1>1, <1>2
  <2>3. l = m
    BY <2>1, <2>2, <1>1, <1>2
  <2>4. Parent(p) = Parent(d)
    <3>1. CASE l = 1
      BY <2>3, <3>1, <1>3, <1>4
    <3>2. CASE l # 1
      <4>1. /\ Len(Parent(p)) = Len(Parent(d))
            /\ \A i \in 1 .. Len(Parent(p)) : Parent(p)[i] = Parent(d)[i]
        BY <2>1, <2>3, <3>2, <1>1, <1>2, <1>3, <1>4
      <4> QED BY <4>1, <1>3, <1>4, SeqEqual
    <3> QED BY <3>1, <3>2
  <2> QED BY <2>1, <2>4, <1>1, <1>2, <1>5 DEF n
<1>12. Member(d, p) <=> \/ Parent(p) = d
                        \/ Parent(p) = Parent(d) /\ p # d /\ IsPrefix(d, p)
  <2>1. Parent(p) = d => Member(d, p)
    BY <1>8
  <2>2. Parent(p) = Parent(d) /\ p # d /\ IsPrefix(d, p) => Member(d, p)
    BY <1>9
  <2>3. Member(d, p) => \/ Parent(p) = d
                        \/ Parent(p) = Parent(d) /\ p # d /\ IsPrefix(d, p)
    BY <1>10, <1>11
  <2> QED BY <2>1, <2>2, <2>3 DEF Member, IsPrefix
<1> QED BY <1>8, <1>12 DEF l, n

\* What readdir lists: the members, and parts of the longer names of neighbours.
LEMMA ListsTheMembers == Inv => ListsMembers
<1> SUFFICES ASSUME Inv, NEW d \in directories
             PROVE  readdir(d) =
                      {Name(p) : p \in {p \in All : Parent(p) = d}}
                        \cup {SubSeq(p, Len(d) + 2, Len(p)) :
                               p \in {p \in All : d # Root /\ Parent(p) = Parent(d)
                                                  /\ p # d /\ IsPrefix(d, p)}}
  <2> DEFINE members(d) == {p \in All : Parent(p) = d}
             longer(d) == {p \in All : /\ d # Root /\ Parent(p) = Parent(d)
                                       /\ p # d /\ IsPrefix(d, p)}
  <2>1. ASSUME NEW d \in directories,
               readdir(d) = {Name(p) : p \in members(d)}
                              \cup {SubSeq(p, Len(d) + 2, Len(p)) : p \in longer(d)}
        PROVE  /\ {Name(p) : p \in members(d)} \subseteq readdir(d)
               /\ longer(d) = {} => readdir(d) = {Name(p) : p \in members(d)}
    <3> HIDE DEF members, longer
    <3> QED BY <2>1
  <2> QED BY <2>1 DEF ListsMembers
<1>1. All \subseteq Path /\ d \in Path \cup {Root}
  BY DEF All, Inv, TypeOK
<1>2. \A p : p \in All <=> p \in directories \cup DOMAIN files /\ p # Root
  BY DEF All
<1>3. CASE d = Root
  <2>1. Last(d) = Slash /\ Len(Front(d)) = 0 /\ Front(d) = <<>>
    BY <1>3 DEF Root, Last, Front
  <2>2. \A p \in All : /\ Member(<<>>, p) <=> Parent(p) = Root
                       /\ Parent(p) = Root => LastSlash(p) = 1
    BY <1>1, RootMember
  <2>3. {e \in directories \cup DOMAIN files : Member(<<>>, e)} = {p \in All : Parent(p) = d}
    BY <1>2, <1>3, <2>2 DEF Member
  <2>4. readdir(d) = {SubSeq(e, 0 + 2, Len(e)) : e \in {p \in All : Parent(p) = d}}
    BY <2>1, <2>3 DEF readdir
  <2>5. \A p \in {p \in All : Parent(p) = d} : SubSeq(p, 0 + 2, Len(p)) = Name(p)
    BY <1>3, <2>2 DEF Name
  <2> QED BY <1>3, <2>4, <2>5
<1>4. CASE d # Root
  <2>1. d \in Path /\ Last(d) # Slash
    BY <1>1, <1>4, PathAssumption DEF Last
  <2>2. \A p \in All :
          /\ Member(d, p) <=> \/ Parent(p) = d
                              \/ Parent(p) = Parent(d) /\ p # d /\ IsPrefix(d, p)
          /\ Parent(p) = d => LastSlash(p) = Len(d) + 1
    BY <1>1, <2>1, DirectoryMember
  <2>3. {e \in directories \cup DOMAIN files : Member(d, e)}
          = {p \in All : Parent(p) = d}
              \cup {p \in All : d # Root /\ Parent(p) = Parent(d) /\ p # d /\ IsPrefix(d, p)}
    <3>1. \A e : Member(d, e) => e # Root
      BY DEF Member
    <3>2. \A e : e \in All <=> e \in directories \cup DOMAIN files /\ e # Root
      BY <1>2
    <3> QED BY <3>1, <3>2, <1>4, <2>2, Zenon
  <2>4. readdir(d) = {SubSeq(e, Len(d) + 2, Len(e)) :
                        e \in {e \in directories \cup DOMAIN files : Member(d, e)}}
    BY <2>1 DEF readdir
  <2>5. \A p \in {p \in All : Parent(p) = d} : SubSeq(p, Len(d) + 2, Len(p)) = Name(p)
    <3>1. Len(d) \in Nat
      BY <2>1, PathFacts
    <3>2. (Len(d) + 1) + 1 = Len(d) + 2
      BY <3>1
    <3> QED BY <2>2, <3>2 DEF Name
  <2> QED BY <2>3, <2>4, <2>5
<1> QED BY <1>3, <1>4

\* memfs.cpp: after any sequence of calls, a read returns what was last written at
\* the place asked for, or zero behind a later write that ended before it.
THEOREM ReadsReturnWrites == Spec => []ReadsBack
BY InitInv, NextInv, ReadsFromContents, PTL DEF Spec

\* memfs.cpp: whatever directories and files there are, readdir lists everything
\* in a directory, and nothing else unless a neighbour's name continues its own.
THEOREM ListingsAreExact == Spec => []ListsMembers
BY InitInv, NextInv, ListsTheMembers, PTL DEF Spec
=============================================================================
