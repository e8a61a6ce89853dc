------------------------ MODULE SlotAllocatorProofs ------------------------
(***************************************************************************)
(* Proofs about SlotAllocator, for one thread and every number of slots,   *)
(* sizes, allocations and arenas: the spans fill the arenas, allocations   *)
(* do not overlap, no header is read that is none, and a call takes at     *)
(* most one new arena, until a reallocation has left the cursor of an      *)
(* arena inside a span.  The cursors are part of the argument: it shows    *)
(* that nothing else makes a search begin inside a span.                   *)
(***************************************************************************)
EXTENDS SlotAllocator, WellFoundedInduction, SequenceTheorems, TLAPS

-----------------------------------------------------------------------------
(* The inductive invariant. *)

Word == [length : Int, used : BOOLEAN]
Arena == [cursor : Int, slot : [Slot -> Word]]
Allocation == [arena : Nat \ {0}, at : Slot, size : Nat]

Control == {"idle", "enter", "scan", "merge", "take", "expand"}
Call == [tag : Tag \cup {NoTag}, size : Nat, old : {<<>>} \cup Allocation]
Position == [arena : Nat, at : Nat]
IsOwned(ow) == DOMAIN ow \subseteq Tag /\ ow \in [DOMAIN ow -> Allocation]

\* The values of the variables but for adrift; a thread is never "wild".
TypeOK ==
  /\ arenas \in Seq(Arena) /\ IsOwned(owned)
  /\ pc \in [Thread -> Control] /\ call \in [Thread -> Call] /\ pos \in [Thread -> Position]
  /\ grown \in [Thread -> Nat] /\ calls \in Nat

\* Where the spans of an arena begin.
Starts(slot) == CHOOSE S \in SUBSET Slot : slot_allocator_check_integrity(slot, S)

\* The used spans of an arena are those of the allocations U, large enough each.
Kept(slot, U) ==
  /\ Starts(slot) \in SUBSET Slot /\ slot_allocator_check_integrity(slot, Starts(slot))
  /\ \A o \in U : /\ o.at \in Starts(slot) /\ slot[o.at].used
                  /\ RequiredSlots(o.size) <= slot[o.at].length
  /\ \A o, p \in U : o.at = p.at => o = p
  /\ \A i \in Starts(slot) : slot[i].used => \E o \in U : o.at = i

Here(B, a) == {o \in B : o.arena = a}

\* The arenas keep the allocations B.
Sound(as, B) == /\ \A o \in B : o \in Allocation /\ o.arena \in DOMAIN as
                /\ \A a \in DOMAIN as : Kept(as[a].slot, Here(B, a))

\* Held, of a single thread.
HeldOf(ow, old) == {ow[g] : g \in DOMAIN ow} \cup (IF old = <<>> THEN {} ELSE {old})

\* No allocation is held twice.
Once(ow, old) == /\ \A g, h \in DOMAIN ow : ow[g] = ow[h] => g = h
                 /\ \A g \in DOMAIN ow : ow[g] # old

\* A call (c, at control point p and span s) is at a span, and what it knows of it
\* is so.
Placed(as, ow, p, c, s) ==
  /\ p = "idle" => c.old = <<>>
  /\ p # "idle" => c.tag \in Tag \ DOMAIN ow
  /\ p = "enter" => s.arena \in 1 .. Len(as) + 1
  /\ p \in {"scan", "merge", "take"} =>
       s.arena \in DOMAIN as /\ s.at \in Starts(as[s.arena].slot) \cup {SlotCount}
  /\ p \in {"merge", "take"} => s.at # SlotCount /\ ~ as[s.arena].slot[s.at].used
  /\ p = "take" => RequiredSlots(c.size) <= as[s.arena].slot[s.at].length
  /\ p = "expand" => c.old # <<>> /\ c.old.arena = s.arena /\ c.old.at = s.at

Good(as, ow, p, c, s) ==
  Placed(as, ow, p, c, s) /\ Sound(as, HeldOf(ow, c.old)) /\ Once(ow, c.old)

Inv(t) == TypeOK /\ Good(arenas, owned, pc[t], call[t], pos[t])

\* The next search of arena x begins at a span or at the end.
OnSpan(x) == x.cursor \in Starts(x.slot) \cup {SlotCount}

\* So it is for every arena, but for the one whose span is being expanded: there
\* the cursor may be inside that span.  A search has not passed the cursor.
Cursors(t) ==
  /\ \A b \in DOMAIN arenas :
       \/ OnSpan(arenas[b])
       \/ pc[t] = "expand" /\ b = pos[t].arena /\ CursorInside(arenas[b], pos[t].at)
  /\ pc[t] \in {"scan", "merge", "take"} => arenas[pos[t].arena].cursor <= pos[t].at

\* A call that has got a new arena, and whose size an arena has room for, has
\* come to its only span, which is as large as the allocation or larger.
Grown(t) ==
  /\ pc[t] \in {"idle", "expand"} => grown[t] = 0
  /\ RequiredSlots(call[t].size) <= SlotCount =>
       /\ grown[t] <= 1
       /\ grown[t] # 0 => /\ pc[t] \in {"scan", "merge", "take"} /\ pos[t].at = 0
                          /\ pos[t].arena \in DOMAIN arenas
                          /\ arenas[pos[t].arena].slot[0] = Header(SlotCount, FALSE)

\* All this as long as no cursor has been left inside a span.
IInv(t) == /\ adrift \in BOOLEAN
           /\ ~adrift => Inv(t) /\ Cursors(t) /\ Grown(t)

-----------------------------------------------------------------------------
(* Spans. *)

IsSlots(slot) == slot \in [Slot -> Word]

LEMMA SlotFacts == SlotCount \in Nat \ {0} /\ 0 \in Slot /\ Slot \subseteq Nat
                   /\ \A i \in Slot : i < SlotCount
BY SlotAssumption DEF Slot

LEMMA RequiredFacts ==
  ASSUME NEW size \in Nat
  PROVE  RequiredSlots(size) \in Nat \ {0}
<1>1. SlotSize \in Nat \ {0} /\ HeaderSize + size \in Nat \ {0}
  BY SlotAssumption DEF SlotSize
<1>2. PICK d \in Nat \ {0}, n \in Nat \ {0} : d = SlotSize /\ n = HeaderSize + size
  BY <1>1
<1>3. n \div d \in Nat
  BY <1>2
<1>4. PICK q \in Nat : q = n \div d
  BY <1>3
<1>5. RequiredSlots(size) = IF q * d < n THEN q + 1 ELSE q
  BY <1>2, <1>4 DEF RequiredSlots
<1>6. q = 0 => q * d = 0
  BY <1>2
<1> QED
  BY <1>2, <1>4, <1>5, <1>6

Less == {ad \in Nat \X Nat : ad[1] < ad[2]}

LEMMA Least ==
  ASSUME NEW S \in SUBSET Nat, S # {}
  PROVE  \E i \in S : \A j \in S : i <= j
<1>1. IsWellFoundedOn(Less, Nat)
  BY NatLessThanWellFounded DEF OpToRel, Less
<1>2. PICK i \in S : \A j \in S : ~ (<<j, i>> \in Less)
  BY <1>1, WFMin
<1>3. ASSUME NEW j \in S PROVE i <= j
  <2>1. i \in Nat /\ j \in Nat /\ ~ (<<j, i>> \in Less)
    BY <1>2
  <2> QED
    BY <2>1 DEF Less
<1> QED
  BY <1>3

LEMMA Greatest ==
  ASSUME NEW S \in SUBSET Nat, NEW x \in Nat, \A i \in S : i < x, S # {}
  PROVE  \E i \in S : \A j \in S : j <= i
<1>1. PICK D : D = {k \in Nat : x - k \in S}
  OBVIOUS
<1>2. D \in SUBSET Nat /\ D # {}
  <2>1. PICK i \in S : i \in Nat /\ i < x
    OBVIOUS
  <2>2. x - i \in Nat /\ x - (x - i) = i
    BY <2>1
  <2> QED
    BY <1>1, <2>1, <2>2
<1>3. PICK k \in D : \A m \in D : k <= m
  BY <1>2, Least
<1>4. k \in Nat /\ x - k \in S
  BY <1>1, <1>3
<1>5. ASSUME NEW j \in S PROVE j <= x - k
  <2>1. j \in Nat /\ x - j \in Nat /\ x - (x - j) = j
    OBVIOUS
  <2>2. x - j \in D
    BY <1>1, <2>1
  <2> QED
    BY <1>3, <1>4, <2>1, <2>2
<1> QED
  BY <1>4, <1>5

\* S are the beginnings of the spans.
Tiles(slot, S) == S \in SUBSET Slot /\ slot_allocator_check_integrity(slot, S)

LEMMA TileFacts ==
  ASSUME NEW slot, IsSlots(slot), NEW S, Tiles(slot, S)
  PROVE  /\ S \subseteq Nat /\ 0 \in S
         /\ \A i \in S : /\ i \in Slot /\ i \in Nat /\ i < SlotCount
                         /\ slot[i].length \in Nat /\ slot[i].length > 0
                         /\ i + slot[i].length <= SlotCount
                         /\ i + slot[i].length < SlotCount => i + slot[i].length \in S
         /\ \A i, j \in S : i < j => i + slot[i].length <= j
<1>1. ASSUME NEW i \in S
      PROVE  /\ i \in Slot /\ i \in Nat /\ i < SlotCount
             /\ slot[i].length \in Nat /\ slot[i].length > 0
             /\ i + slot[i].length \in S \cup {SlotCount}
  <2>1. i \in Slot /\ i \in Nat /\ i < SlotCount
    BY SlotFacts DEF Tiles
  <2>2. slot[i].length \in Int /\ slot[i].length > 0 /\ i + slot[i].length \in S \cup {SlotCount}
    BY <2>1 DEF Tiles, slot_allocator_check_integrity, Word, IsSlots
  <2> QED
    BY <2>1, <2>2
<1>2. ASSUME NEW i \in S
      PROVE  /\ i + slot[i].length <= SlotCount
             /\ i + slot[i].length < SlotCount => i + slot[i].length \in S
  <2>1. i + slot[i].length \in S \cup {SlotCount}
    BY <1>1
  <2>2. CASE i + slot[i].length \in S
    BY <1>1, <2>2, SlotFacts
  <2>3. CASE i + slot[i].length = SlotCount
    BY <2>3, SlotFacts
  <2> QED
    BY <2>1, <2>2, <2>3
<1>3. ASSUME NEW i \in S, NEW j \in S, i < j PROVE i + slot[i].length <= j
  <2>1. j <= i \/ i + slot[i].length <= j
    BY DEF Tiles, slot_allocator_check_integrity
  <2> QED
    BY <1>1, <1>3, <2>1
<1>4. S \subseteq Nat /\ 0 \in S
  BY <1>1 DEF Tiles, slot_allocator_check_integrity
<1> QED
  BY <1>1, <1>2, <1>3, <1>4

LEMMA TilesWithin ==
  ASSUME NEW slot, IsSlots(slot), NEW S, NEW T, Tiles(slot, S), Tiles(slot, T)
  PROVE  S \subseteq T
<1> SUFFICES ASSUME ~ (S \subseteq T) PROVE FALSE
  OBVIOUS
<1>1. /\ S \subseteq Nat /\ 0 \in S /\ 0 \in T
  BY TileFacts
<1>2. S \ T \in SUBSET Nat /\ S \ T # {}
  BY <1>1
<1>3. PICK x \in S \ T : \A y \in S \ T : x <= y
  BY <1>2, Least
<1>4. x \in Nat /\ x # 0 /\ x < SlotCount /\ x \in S /\ x \notin T
  BY <1>1, <1>3, TileFacts
<1>5. PICK P : P = {p \in S : p < x}
  OBVIOUS
<1>6. P \in SUBSET Nat /\ P # {} /\ \A p \in P : p < x
  <2>1. 0 < x /\ 0 \in S
    BY <1>1, <1>4
  <2>2. 0 \in P
    BY <1>5, <2>1
  <2> QED
    BY <1>1, <1>5, <2>2
<1>7. PICK p \in P : \A q \in P : q <= p
  BY <1>4, <1>6, Greatest
<1>8. p \in S /\ p < x /\ p \in Nat
  BY <1>1, <1>5, <1>7
<1>9. p \in T
  BY <1>3, <1>4, <1>8
<1>10. PICK n \in Nat : n = slot[p].length /\ n > 0 /\ p + n <= x
  BY <1>4, <1>8, TileFacts
<1>11. p + n < SlotCount
  BY <1>4, <1>8, <1>10, SlotFacts
<1>12. p + n \in S /\ p + n \in T
  BY <1>8, <1>9, <1>10, <1>11, TileFacts
<1>13. p + n \notin P
  BY <1>7, <1>8, <1>10
<1> QED
  BY <1>4, <1>5, <1>8, <1>10, <1>12, <1>13

\* There is but one way to walk through an arena.
LEMMA StartsUnique ==
  ASSUME NEW slot, IsSlots(slot), NEW S, Tiles(slot, S)
  PROVE  Starts(slot) = S
<1>1. Tiles(slot, Starts(slot))
  <2>1. \E T \in SUBSET Slot : slot_allocator_check_integrity(slot, T)
    BY DEF Tiles
  <2> QED
    BY <2>1 DEF Starts, Tiles
<1>2. Starts(slot) \subseteq S /\ S \subseteq Starts(slot)
  BY <1>1, TilesWithin
<1> QED
  BY <1>2

LEMMA MakeTiles ==
  ASSUME NEW slot, NEW S, S \subseteq Slot, 0 \in S,
         \A i \in S : /\ slot[i].length > 0 /\ i + slot[i].length \in S \cup {SlotCount}
                      /\ \A j \in S : j <= i \/ i + slot[i].length <= j
  PROVE  Tiles(slot, S)
BY DEF Tiles, slot_allocator_check_integrity

\* Only the lengths of the spans count.
LEMMA SameTiles ==
  ASSUME NEW slot, NEW S, Tiles(slot, S), NEW rest, \A i \in S : rest[i].length = slot[i].length
  PROVE  Tiles(rest, S)
BY DEF Tiles, slot_allocator_check_integrity

LEMMA WordParts ==
  ASSUME NEW slot, IsSlots(slot), NEW i \in Slot
  PROVE  /\ slot[i].length \in Int /\ slot[i].used \in BOOLEAN
         /\ slot[i] = Header(slot[i].length, slot[i].used)
BY DEF IsSlots, Word, Header

\* One header is different.
Change(slot, i, x) == [slot EXCEPT ![i] = x]

LEMMA ChangeFacts ==
  ASSUME NEW slot, IsSlots(slot), NEW i \in Slot, NEW n \in Int, NEW u \in BOOLEAN,
         NEW rest, rest = Change(slot, i, Header(n, u))
  PROVE  /\ IsSlots(rest) /\ rest[i].length = n /\ rest[i].used = u
         /\ \A j \in Slot \ {i} : rest[j] = slot[j]
<1>1. PICK x : x = Header(n, u)
  OBVIOUS
<1>2. x \in Word /\ x.length = n /\ x.used = u
  BY <1>1 DEF Word, Header
<1>3. rest = [slot EXCEPT ![i] = x]
  BY <1>1 DEF Change
<1> QED
  BY <1>2, <1>3 DEF IsSlots

-----------------------------------------------------------------------------
(* What the operations do to the spans of one arena. *)

\* Merging a span with its successor.
Joined(slot, i, j, rest) ==
  /\ j = i + slot[i].length /\ j < SlotCount
  /\ rest = Change(slot, i, Header(slot[i].length + slot[j].length, slot[i].used))

LEMMA MergeTiles ==
  ASSUME NEW slot, IsSlots(slot), NEW S, Tiles(slot, S), NEW i \in S, NEW j, NEW rest,
         Joined(slot, i, j, rest)
  PROVE  /\ IsSlots(rest) /\ j \in S \ {i} /\ Tiles(rest, S \ {j})
         /\ (rest[i].used <=> slot[i].used) /\ slot[j].length > 0
         /\ rest[i].length \in Nat /\ slot[i].length \in Nat /\ slot[i].length < rest[i].length
         /\ \A k \in Slot \ {i} : rest[k] = slot[k]
<1>1. /\ S \subseteq Nat /\ S \subseteq Slot /\ 0 \in S
      /\ \A k \in S : /\ k \in Slot /\ k \in Nat /\ k < SlotCount
                      /\ slot[k].length \in Nat /\ slot[k].length > 0
                      /\ k + slot[k].length <= SlotCount
                      /\ k + slot[k].length < SlotCount => k + slot[k].length \in S
      /\ \A k, m \in S : k < m => k + slot[k].length <= m
  BY TileFacts DEF Tiles
<1>2. PICK n \in Nat : n = slot[i].length /\ n > 0
  BY <1>1
<1>3. j \in S /\ j # i /\ j = i + n /\ j # 0 /\ i \in Nat /\ j \in Nat
  BY <1>1, <1>2 DEF Joined
<1>4. PICK m \in Nat : m = slot[j].length /\ m > 0
  BY <1>1, <1>3
<1>5. slot[i].used \in BOOLEAN /\ i \in Slot
  BY <1>1, WordParts
<1>6. PICK u \in BOOLEAN : u = slot[i].used
  BY <1>5
<1>7. /\ IsSlots(rest) /\ rest[i].length = n + m /\ rest[i].used = u
      /\ \A k \in Slot \ {i} : rest[k] = slot[k]
  <2>1. rest = Change(slot, i, Header(n + m, u)) /\ n + m \in Int
    BY <1>2, <1>4, <1>6 DEF Joined
  <2> QED
    BY <1>5, <2>1, ChangeFacts
<1>8. ASSUME NEW k \in S \ {j}
      PROVE  /\ rest[k].length > 0 /\ k + rest[k].length \in (S \ {j}) \cup {SlotCount}
             /\ \A l \in S \ {j} : l <= k \/ k + rest[k].length <= l
  <2>1. CASE k = i
    <3>1. j + m \in S \cup {SlotCount} /\ j + m # j
      <4>1. j + m <= SlotCount /\ (j + m < SlotCount => j + m \in S) /\ SlotCount \in Nat
        BY <1>1, <1>3, <1>4, SlotFacts
      <4> QED
        BY <1>3, <1>4, <4>1
    <3>2. k + rest[k].length = j + m /\ rest[k].length > 0
      BY <1>2, <1>3, <1>4, <1>7, <2>1
    <3>3. ASSUME NEW l \in S \ {j}, ~ (l <= i) PROVE j + m <= l
      <4>1. l \in Nat /\ i < l /\ l # j
        BY <1>1, <1>3, <3>3
      <4>2. j <= l
        BY <1>1, <1>2, <1>3, <4>1
      <4>3. j < l
        BY <1>3, <4>1, <4>2
      <4> QED
        BY <1>1, <1>3, <1>4, <4>3
    <3> QED
      BY <2>1, <3>1, <3>2, <3>3
  <2>2. CASE k # i
    <3>1. rest[k] = slot[k] /\ k \in S
      BY <1>1, <1>7, <2>2
    <3>2. PICK q \in Nat : q = slot[k].length /\ q > 0
      BY <1>1, <3>1
    <3>3. k + q \in S \cup {SlotCount}
      <4>1. k + q <= SlotCount /\ (k + q < SlotCount => k + q \in S) /\ k \in Nat /\ SlotCount \in Nat
        BY <1>1, <3>1, <3>2, SlotFacts
      <4> QED
        BY <3>2, <4>1
    <3>4. k + q # j
      <4>1. CASE k < i
        <5>1. k + q <= i
          BY <1>1, <3>1, <3>2, <4>1
        <5> QED
          BY <1>1, <1>2, <1>3, <3>1, <3>2, <5>1
      <4>2. CASE i < k
        <5>1. j <= k
          BY <1>1, <1>2, <1>3, <3>1, <4>2
        <5> QED
          BY <1>1, <1>3, <3>1, <3>2, <5>1
      <4> QED
        BY <1>1, <1>3, <2>2, <3>1, <4>1, <4>2
    <3>5. ASSUME NEW l \in S PROVE l <= k \/ k + q <= l
      <4>1. k \in S /\ k \in Nat /\ l \in Nat /\ (k < l => k + slot[k].length <= l)
        BY <1>1, <3>1
      <4> QED
        BY <3>2, <4>1
    <3> QED
      BY <3>1, <3>2, <3>3, <3>4, <3>5
  <2> QED
    BY <2>1, <2>2
<1>9. Tiles(rest, S \ {j})
  <2>1. S \ {j} \subseteq Slot /\ 0 \in S \ {j}
    BY <1>1, <1>3
  <2> QED
    BY <1>8, <2>1, MakeTiles
<1>10. rest[i].length \in Nat /\ slot[i].length < rest[i].length /\ slot[j].length > 0
  BY <1>2, <1>4, <1>7
<1>11. j \in S \ {i} /\ (rest[i].used <=> slot[i].used)
  BY <1>3, <1>6, <1>7
<1> QED
  BY <1>2, <1>7, <1>9, <1>10, <1>11

\* Cutting a span.
Shorter(slot, S, i, n, rest) ==
  /\ n < slot[i].length /\ rest[i].length = n /\ rest[i + n].length = slot[i].length - n
  /\ \A k \in S \ {i} : rest[k].length = slot[k].length

LEMMA CutTiles ==
  ASSUME NEW slot, IsSlots(slot), NEW S, Tiles(slot, S), NEW i \in S, NEW n \in Nat \ {0},
         NEW rest, Shorter(slot, S, i, n, rest)
  PROVE  i + n \in Slot \ S /\ Tiles(rest, S \cup {i + n})
<1>1. /\ S \subseteq Nat /\ S \subseteq Slot /\ 0 \in S
      /\ \A k \in S : /\ k \in Slot /\ k \in Nat /\ k < SlotCount
                      /\ slot[k].length \in Nat /\ slot[k].length > 0
                      /\ k + slot[k].length <= SlotCount
                      /\ k + slot[k].length < SlotCount => k + slot[k].length \in S
      /\ \A k, m \in S : k < m => k + slot[k].length <= m
      /\ SlotCount \in Nat
  BY TileFacts, SlotFacts DEF Tiles
<1>2. PICK m \in Nat : m = slot[i].length /\ n < m
  BY <1>1 DEF Shorter
<1>3. PICK c : c = i + n
  OBVIOUS
<1>4. c \in Nat /\ i \in Nat /\ i < c /\ c < i + m /\ i + m <= SlotCount /\ c \in Slot
  BY <1>1, <1>2, <1>3, SlotAssumption DEF Slot
<1>5. c \notin S
  BY <1>1, <1>2, <1>4
<1>6. rest[i].length = n /\ rest[c].length = m - n
  BY <1>2, <1>3 DEF Shorter
<1>7. i + m \in S \cup {SlotCount}
  BY <1>1, <1>2, <1>4
<1>8. ASSUME NEW k \in S \cup {c}
      PROVE  /\ rest[k].length > 0 /\ k + rest[k].length \in S \cup {c} \cup {SlotCount}
             /\ \A l \in S \cup {c} : l <= k \/ k + rest[k].length <= l
  <2>1. CASE k = i
    <3>1. k + rest[k].length = c
      BY <1>3, <1>6, <2>1
    <3>2. ASSUME NEW l \in S \cup {c}, ~ (l <= i) PROVE c <= l
      <4>1. CASE l \in S
        <5>1. i + m <= l /\ l \in Nat
          BY <1>1, <1>2, <3>2, <4>1
        <5> QED
          BY <1>4, <5>1
      <4>2. CASE l = c
        BY <1>4, <4>2
      <4> QED
        BY <4>1, <4>2
    <3> QED
      BY <1>6, <2>1, <3>1, <3>2
  <2>2. CASE k = c
    <3>1. k + rest[k].length = i + m /\ rest[k].length > 0
      BY <1>2, <1>3, <1>4, <1>6, <2>2
    <3>2. ASSUME NEW l \in S \cup {c}, ~ (l <= c) PROVE i + m <= l
      <4>1. l \in S /\ l \in Nat /\ i < l
        BY <1>1, <1>4, <3>2
      <4> QED
        BY <1>1, <1>2, <4>1
    <3> QED
      BY <1>7, <2>2, <3>1, <3>2
  <2>3. CASE k \in S \ {i}
    <3>1. PICK q \in Nat : q = slot[k].length /\ q > 0 /\ q = rest[k].length
      BY <1>1, <2>3 DEF Shorter
    <3>2. k \in Nat /\ k + q \in S \cup {SlotCount}
      <4>1. k \in Nat /\ k + q <= SlotCount /\ (k + q < SlotCount => k + q \in S) /\ SlotCount \in Nat
        BY <1>1, <2>3, <3>1
      <4> QED
        BY <3>1, <4>1
    <3>3. ASSUME NEW l \in S PROVE l <= k \/ k + q <= l
      <4>1. l \in Nat /\ k \in Nat /\ (k < l => k + slot[k].length <= l)
        BY <1>1, <2>3
      <4> QED
        BY <3>1, <4>1
    <3>4. c <= k \/ k + q <= c
      <4>1. CASE k < i
        <5>1. k + q <= i
          BY <1>1, <2>3, <3>1, <4>1
        <5> QED
          BY <1>4, <3>1, <3>2, <5>1
      <4>2. CASE i < k
        <5>1. i + m <= k
          BY <1>1, <1>2, <2>3, <4>2
        <5> QED
          BY <1>4, <3>2, <5>1
      <4> QED
        BY <1>4, <2>3, <3>2, <4>1, <4>2
    <3> QED
      BY <3>1, <3>2, <3>3, <3>4
  <2> QED
    BY <2>1, <2>2, <2>3
<1>9. Tiles(rest, S \cup {c})
  <2>1. S \cup {c} \subseteq Slot /\ 0 \in S \cup {c}
    BY <1>1, <1>4
  <2> QED
    BY <1>8, <2>1, MakeTiles
<1> QED
  BY <1>3, <1>4, <1>5, <1>9

LEMMA KeptFacts ==
  ASSUME NEW slot, IsSlots(slot), NEW U \in SUBSET Allocation, Kept(slot, U)
  PROVE  /\ Tiles(slot, Starts(slot))
         /\ \A o \in U : /\ o.at \in Starts(slot) /\ o.at \in Slot /\ slot[o.at].used
                         /\ RequiredSlots(o.size) \in Nat /\ slot[o.at].length \in Nat
                         /\ RequiredSlots(o.size) <= slot[o.at].length
<1>1. Tiles(slot, Starts(slot))
  BY DEF Kept, Tiles
<1>2. ASSUME NEW o \in U
      PROVE  /\ o.at \in Starts(slot) /\ o.at \in Slot /\ slot[o.at].used
             /\ RequiredSlots(o.size) \in Nat /\ slot[o.at].length \in Nat
             /\ RequiredSlots(o.size) <= slot[o.at].length
  <2>1. o.at \in Starts(slot) /\ slot[o.at].used /\ RequiredSlots(o.size) <= slot[o.at].length
    BY DEF Kept
  <2>2. o.size \in Nat
    BY DEF Allocation
  <2>3. RequiredSlots(o.size) \in Nat
    BY <2>2, RequiredFacts
  <2> QED
    BY <1>1, <2>1, <2>3, TileFacts
<1> QED
  BY <1>1, <1>2

\* Kept, of spans that begin at S.
Keeps(slot, U, S) ==
  /\ \A o \in U : o.at \in S /\ slot[o.at].used /\ RequiredSlots(o.size) <= slot[o.at].length
  /\ \A o, p \in U : o.at = p.at => o = p
  /\ \A i \in S : slot[i].used => \E o \in U : o.at = i

LEMMA MakeKept ==
  ASSUME NEW slot, IsSlots(slot), NEW U, NEW S, Tiles(slot, S), Keeps(slot, U, S)
  PROVE  Kept(slot, U) /\ Starts(slot) = S
<1>1. Starts(slot) = S
  BY StartsUnique
<1> QED
  BY <1>1 DEF Kept, Keeps, Tiles

\* An iteration of a loop that merges.
LEMMA MergeKept ==
  ASSUME NEW slot, IsSlots(slot), NEW U \in SUBSET Allocation, Kept(slot, U),
         NEW i \in Starts(slot), Mergeable(slot, i), NEW rest, rest = Merged(slot, i)
  PROVE  /\ Successor(slot, i).length > 0 /\ IsSlots(rest) /\ Kept(rest, U)
         /\ i \in Starts(rest) /\ (rest[i].used <=> slot[i].used)
         /\ Starts(rest) = Starts(slot) \ {i + slot[i].length}
         /\ slot[i].length \in Nat /\ rest[i].length \in Nat /\ slot[i].length < rest[i].length
<1>1. PICK S : S = Starts(slot)
  OBVIOUS
<1>2. /\ Tiles(slot, S) /\ i \in S
      /\ \A o \in U : /\ o.at \in S /\ o.at \in Slot /\ slot[o.at].used
                      /\ RequiredSlots(o.size) \in Nat /\ slot[o.at].length \in Nat
                      /\ RequiredSlots(o.size) <= slot[o.at].length
  BY <1>1, KeptFacts
<1>3. PICK j : j = i + slot[i].length
  OBVIOUS
<1>4. j < SlotCount /\ ~ slot[j].used /\ Successor(slot, i) = slot[j]
  BY <1>3 DEF Mergeable, Successor
<1>5. i \in Slot /\ slot[i] = Header(slot[i].length, slot[i].used)
  BY <1>2, TileFacts, WordParts
<1>6. Joined(slot, i, j, rest)
  <2>1. PICK x : x = [slot[i] EXCEPT !.length = slot[i].length + slot[j].length]
    OBVIOUS
  <2>2. x = Header(slot[i].length + slot[j].length, slot[i].used)
    BY <1>5, <2>1 DEF Header
  <2>3. rest = [slot EXCEPT ![i] = x]
    BY <1>4, <2>1 DEF Merged
  <2> QED
    BY <1>3, <1>4, <2>2, <2>3 DEF Change, Joined
<1>7. /\ IsSlots(rest) /\ j \in S \ {i} /\ Tiles(rest, S \ {j})
      /\ (rest[i].used <=> slot[i].used) /\ slot[j].length > 0
      /\ rest[i].length \in Nat /\ slot[i].length \in Nat /\ slot[i].length < rest[i].length
      /\ \A k \in Slot \ {i} : rest[k] = slot[k]
  <2>1. IsSlots(rest) /\ j \in S \ {i} /\ Tiles(rest, S \ {j})
    BY <1>2, <1>6, MergeTiles
  <2>2. slot[j].length > 0
    BY <1>2, <1>6, MergeTiles
  <2>3. rest[i].used <=> slot[i].used
    BY <1>2, <1>6, MergeTiles
  <2>4. rest[i].length \in Nat /\ slot[i].length \in Nat /\ slot[i].length < rest[i].length
    BY <1>2, <1>6, MergeTiles
  <2>5. ASSUME NEW k \in Slot \ {i} PROVE rest[k] = slot[k]
    <3>1. \A m \in Slot \ {i} : rest[m] = slot[m]
      <4>1. PICK x : x = Header(slot[i].length + slot[j].length, slot[i].used)
        OBVIOUS
      <4>2. rest = [slot EXCEPT ![i] = x]
        BY <1>6, <4>1 DEF Joined, Change
      <4> QED
        BY <4>2 DEF IsSlots
    <3> QED
      BY <3>1
  <2> QED
    BY <2>1, <2>2, <2>3, <2>4, <2>5
<1>8. ASSUME NEW o \in U
      PROVE  o.at \in S \ {j} /\ rest[o.at].used /\ RequiredSlots(o.size) <= rest[o.at].length
  <2>1. o.at \in S \ {j}
    BY <1>2, <1>4
  <2>2. CASE o.at = i
    BY <1>2, <1>7, <2>1, <2>2
  <2>3. CASE o.at # i
    <3>1. rest[o.at] = slot[o.at]
      BY <1>2, <1>7, <2>3
    <3> QED
      BY <1>2, <2>1, <3>1
  <2> QED
    BY <2>2, <2>3
<1>9. ASSUME NEW k \in S \ {j}, rest[k].used PROVE \E o \in U : o.at = k
  <2>1. k \in S /\ k \in Slot
    BY <1>2 DEF Tiles
  <2>2. slot[k].used
    BY <1>7, <1>9, <2>1
  <2> QED
    BY <1>1, <2>1, <2>2 DEF Kept
<1>10. \A o, p \in U : o.at = p.at => o = p
  BY DEF Kept
<1>11. Kept(rest, U) /\ Starts(rest) = S \ {j}
  <2>1. PICK T : T = S \ {j}
    OBVIOUS
  <2>2. Keeps(rest, U, T) /\ Tiles(rest, T)
    BY <1>7, <1>8, <1>9, <1>10, <2>1 DEF Keeps
  <2>3. Kept(rest, U) /\ Starts(rest) = T
    BY <1>7, <2>2, MakeKept
  <2> QED
    BY <2>1, <2>3
<1> QED
  BY <1>1, <1>2, <1>3, <1>4, <1>7, <1>11

\* A span is given back.
Freed(slot, i) == [slot EXCEPT ![i].used = FALSE]

\* The span at i is unused now, and nothing else has changed.
OnlyUnused(slot, i, rest) ==
  /\ IsSlots(rest) /\ Starts(rest) = Starts(slot) /\ i \in Starts(slot) /\ i \in Slot
  /\ ~ rest[i].used /\ rest[i].length = slot[i].length
  /\ \A k \in Slot \ {i} : rest[k] = slot[k]

LEMMA FreeKept ==
  ASSUME NEW slot, IsSlots(slot), NEW U \in SUBSET Allocation, Kept(slot, U),
         NEW o \in U, NEW V, V = U \ {o}, NEW rest, rest = Freed(slot, o.at)
  PROVE  Kept(rest, V) /\ OnlyUnused(slot, o.at, rest)
<1>0. PICK i : i = o.at
  OBVIOUS
<1>1. PICK S : S = Starts(slot)
  OBVIOUS
<1>2. /\ Tiles(slot, S)
      /\ \A p \in U : /\ p.at \in S /\ p.at \in Slot /\ slot[p.at].used
                      /\ RequiredSlots(p.size) \in Nat /\ slot[p.at].length \in Nat
                      /\ RequiredSlots(p.size) <= slot[p.at].length
  BY <1>1, KeptFacts
<1>3. i \in Slot /\ i \in S
  BY <1>0, <1>2
<1>4. slot[i] = Header(slot[i].length, slot[i].used) /\ slot[i].length \in Int
  BY <1>3, WordParts
<1>5. rest = Change(slot, i, Header(slot[i].length, FALSE))
  <2>1. PICK x : x = [slot[i] EXCEPT !.used = FALSE]
    OBVIOUS
  <2>2. x = Header(slot[i].length, FALSE)
    BY <1>4, <2>1 DEF Header
  <2>3. rest = [slot EXCEPT ![i] = x]
    BY <1>0, <2>1 DEF Freed
  <2> QED
    BY <2>2, <2>3 DEF Change
<1>6. /\ IsSlots(rest) /\ rest[i].length = slot[i].length /\ ~ rest[i].used
      /\ \A j \in Slot \ {i} : rest[j] = slot[j]
  <2>1. PICK n \in Int : n = slot[i].length
    BY <1>4
  <2>2. PICK u \in BOOLEAN : ~ u /\ rest = Change(slot, i, Header(n, u))
    BY <1>5, <2>1
  <2>3. /\ IsSlots(rest) /\ rest[i].length = n /\ rest[i].used = u
        /\ \A j \in Slot \ {i} : rest[j] = slot[j]
    BY <1>3, <2>2, ChangeFacts
  <2> QED
    BY <2>1, <2>2, <2>3
<1>7. Tiles(rest, S)
  <2>1. \A j \in S : rest[j].length = slot[j].length
    BY <1>2, <1>6 DEF Tiles
  <2> QED
    BY <1>2, <2>1, SameTiles
<1>8. ASSUME NEW p \in U \ {o}
      PROVE  p.at \in S /\ rest[p.at].used /\ RequiredSlots(p.size) <= rest[p.at].length
  <2>1. p.at # i
    BY <1>0 DEF Kept
  <2> QED
    BY <1>2, <1>6, <2>1
<1>9. ASSUME NEW k \in S, rest[k].used PROVE \E p \in U \ {o} : p.at = k
  <2>1. k \in Slot /\ k # i
    BY <1>2, <1>6, <1>9 DEF Tiles
  <2>2. slot[k].used
    BY <1>6, <1>9, <2>1
  <2>3. PICK p \in U : p.at = k
    BY <1>1, <2>2 DEF Kept
  <2> QED
    BY <1>0, <2>1, <2>3
<1>10. \A p, q \in U \ {o} : p.at = q.at => p = q
  BY DEF Kept
<1>11. Kept(rest, V) /\ Starts(rest) = S
  <2>1. Keeps(rest, V, S)
    BY <1>8, <1>9, <1>10 DEF Keeps
  <2> QED
    BY <1>6, <1>7, <2>1, MakeKept
<1> QED
  BY <1>0, <1>1, <1>3, <1>6, <1>11 DEF OnlyUnused

\* The span at i, cut to r slots and used; S are the beginnings of the spans.
Cut(slot, S, i, r, rest) ==
  /\ IsSlots(rest) /\ rest[i].length = r /\ rest[i].used
  /\ r < slot[i].length => rest[i + r].length = slot[i].length - r /\ ~ rest[i + r].used
  /\ \A k \in S \ {i} : rest[k] = slot[k]

LEMMA ClientDataFacts == ClientData \in Word
BY DEF ClientData, Header, Word

\* Behind slot i the r slots of a span are lost, the others are not.
SameOutside(slot, i, r, rest) ==
  IsSlots(rest) /\ \A k \in Slot : k \in i + 1 .. i + r - 1 \/ rest[k] = slot[k]

LEMMA FilledFacts ==
  ASSUME NEW slot, IsSlots(slot), NEW i \in Slot, NEW size \in Nat,
         NEW rest, rest = Filled(slot, i, size), NEW r, r = RequiredSlots(size)
  PROVE  SameOutside(slot, i, r, rest)
<1>1. PICK d : d \in Word /\ d = ClientData
  BY ClientDataFacts
<1>2. r \in Nat
  BY RequiredFacts
<1>3. rest = [j \in Slot |-> IF i < j /\ j < i + r THEN d ELSE slot[j]]
  BY <1>1 DEF Filled
<1>4. IsSlots(rest)
  BY <1>1, <1>3 DEF IsSlots
<1>5. ASSUME NEW k \in Slot, k \notin i + 1 .. i + r - 1 PROVE rest[k] = slot[k]
  <2>1. ~ (i < k /\ k < i + r)
    BY <1>2, <1>5, SlotFacts
  <2> QED
    BY <1>3, <2>1
<1> QED
  BY <1>4, <1>5 DEF SameOutside

LEMMA SplitFacts ==
  ASSUME NEW slot, IsSlots(slot), NEW S, Tiles(slot, S), NEW i \in S, NEW size \in Nat,
         NEW r, r = RequiredSlots(size), r <= slot[i].length,
         NEW rest, rest = Filled(Split(slot, i, slot[i].length, r), i, size)
  PROVE  Cut(slot, S, i, r, rest)
<1>1. PICK n \in Nat : n = slot[i].length /\ r <= n
  BY TileFacts
<1>2. i \in Slot /\ i \in Nat /\ i + n <= SlotCount /\ r \in Nat \ {0} /\ SlotCount \in Nat
  BY <1>1, TileFacts, RequiredFacts, SlotFacts
<1>3. \A k \in S \ {i} : k \in Slot /\ k \in Nat /\ (k < i \/ i + n <= k)
  <2>1. ASSUME NEW k \in S \ {i} PROVE k \in Slot /\ k \in Nat /\ (k < i \/ i + n <= k)
    <3>1. k \in Slot /\ k \in Nat /\ (i < k => i + slot[i].length <= k)
      BY TileFacts
    <3> QED
      BY <1>1, <1>2, <3>1
  <2> QED
    BY <2>1
<1>4. PICK cut : cut = Split(slot, i, n, r)
  OBVIOUS
<1>5. rest = Filled(cut, i, size)
  BY <1>1, <1>4
<1>6. CASE r < n
  <2>1. PICK c : c = i + r
    OBVIOUS
  <2>2. c \in Slot /\ c # i /\ c \in Nat
    BY <1>1, <1>2, <1>6, <2>1, SlotAssumption DEF Slot
  <2>3. PICK x, y : x = Header(r, TRUE) /\ y = Header(n - r, FALSE)
    OBVIOUS
  <2>4. /\ x \in Word /\ y \in Word /\ x.length = r /\ x.used /\ y.length = n - r /\ ~ y.used
    BY <1>1, <1>2, <2>3 DEF Word, Header
  <2>5. cut = [slot EXCEPT ![i] = x, ![c] = y]
    BY <1>4, <1>6, <2>1, <2>3 DEF Split
  <2>6. /\ IsSlots(cut) /\ cut[i] = x /\ cut[c] = y
        /\ \A k \in Slot : k # i /\ k # c => cut[k] = slot[k]
    BY <1>2, <2>2, <2>4, <2>5 DEF IsSlots
  <2>7. IsSlots(rest) /\ rest[i] = x /\ rest[c] = y
    <3>1. SameOutside(cut, i, r, rest)
      BY <1>2, <1>5, <2>6, FilledFacts
    <3> QED
      BY <1>2, <2>1, <2>2, <2>6, <3>1 DEF SameOutside
  <2>8. ASSUME NEW k \in S \ {i} PROVE rest[k] = slot[k]
    <3>1. k \in Slot /\ k \in Nat /\ (k < i \/ i + n <= k)
      BY <1>3
    <3>2. k # c /\ k # i /\ (k <= i \/ i + r <= k)
      BY <1>2, <1>6, <2>1, <3>1
    <3>3. SameOutside(cut, i, r, rest)
      BY <1>2, <1>5, <2>6, FilledFacts
    <3>4. rest[k] = cut[k]
      BY <1>2, <3>1, <3>2, <3>3 DEF SameOutside
    <3> QED
      BY <2>6, <3>1, <3>2, <3>4
  <2> QED
    BY <1>1, <2>1, <2>4, <2>7, <2>8 DEF Cut
<1>7. CASE r = n
  <2>1. PICK x : x = Header(n, TRUE)
    OBVIOUS
  <2>2. x \in Word /\ x.length = r /\ x.used
    BY <1>1, <1>7, <2>1 DEF Word, Header
  <2>3. cut = [slot EXCEPT ![i] = x]
    BY <1>2, <1>4, <1>7, <2>1 DEF Split
  <2>4. /\ IsSlots(cut) /\ cut[i] = x
        /\ \A k \in Slot : k # i => cut[k] = slot[k]
    BY <1>2, <2>2, <2>3 DEF IsSlots
  <2>5. IsSlots(rest) /\ rest[i] = x
    <3>1. SameOutside(cut, i, r, rest)
      BY <1>2, <1>5, <2>4, FilledFacts
    <3> QED
      BY <1>2, <2>4, <3>1 DEF SameOutside
  <2>6. ASSUME NEW k \in S \ {i} PROVE rest[k] = slot[k]
    <3>1. k \in Slot /\ k \in Nat /\ k # i /\ (k <= i \/ i + r <= k)
      BY <1>2, <1>3, <1>7
    <3>2. SameOutside(cut, i, r, rest)
      BY <1>2, <1>5, <2>4, FilledFacts
    <3>3. rest[k] = cut[k]
      BY <1>2, <3>1, <3>2 DEF SameOutside
    <3> QED
      BY <2>4, <3>1, <3>3
  <2> QED
    BY <1>1, <1>7, <2>2, <2>5, <2>6 DEF Cut
<1> QED
  BY <1>1, <1>2, <1>6, <1>7

\* An unused span is taken.
LEMMA TakeKept ==
  ASSUME NEW slot, IsSlots(slot), NEW U \in SUBSET Allocation, Kept(slot, U),
         NEW o \in Allocation, NEW i \in Starts(slot), o.at = i, ~ slot[i].used,
         NEW r, r = RequiredSlots(o.size), r <= slot[i].length,
         NEW rest, Cut(slot, Starts(slot), i, r, rest)
  PROVE  /\ Kept(rest, U \cup {o}) /\ Starts(slot) \subseteq Starts(rest)
         /\ i + r \in Starts(rest) \cup {SlotCount}
<1>1. PICK S : S = Starts(slot)
  OBVIOUS
<1>2. /\ Tiles(slot, S) /\ i \in S
      /\ \A p \in U : /\ p.at \in S /\ slot[p.at].used
                      /\ RequiredSlots(p.size) <= slot[p.at].length
  BY <1>1, KeptFacts
<1>3. PICK V : V = U \cup {o}
  OBVIOUS
<1>4. PICK n \in Nat : n = slot[i].length /\ r <= n
  BY <1>2, TileFacts
<1>5. r \in Nat \ {0} /\ i \in Nat /\ i + n \in S \cup {SlotCount}
  <2>1. o.size \in Nat
    BY DEF Allocation
  <2> QED
    BY <1>2, <1>4, <2>1, RequiredFacts, TileFacts, SlotFacts
<1>6. /\ IsSlots(rest) /\ rest[i].length = r /\ rest[i].used
      /\ r < n => rest[i + r].length = n - r /\ ~ rest[i + r].used
      /\ \A k \in S \ {i} : rest[k] = slot[k]
  BY <1>1, <1>4 DEF Cut
<1>7. ASSUME NEW p \in U PROVE p.at \in S \ {i} /\ rest[p.at] = slot[p.at]
  BY <1>2, <1>6
<1>8. ASSUME NEW p \in V
      PROVE  p.at \in S /\ rest[p.at].used /\ RequiredSlots(p.size) <= rest[p.at].length
  <2>1. CASE p \in U
    BY <1>2, <1>7, <2>1
  <2>2. CASE p = o
    BY <1>2, <1>5, <1>6, <2>2
  <2> QED
    BY <1>3, <2>1, <2>2
<1>9. ASSUME NEW p \in V, NEW q \in V, p.at = q.at PROVE p = q
  <2>1. CASE p \in U /\ q \in U
    BY <1>9, <2>1 DEF Kept
  <2>2. CASE p = o \/ q = o
    BY <1>3, <1>7, <1>9, <2>2
  <2> QED
    BY <1>3, <2>1, <2>2
<1>10. ASSUME NEW k \in S, rest[k].used PROVE \E p \in V : p.at = k
  <2>1. CASE k = i
    BY <1>3, <2>1
  <2>2. CASE k # i
    <3>1. slot[k].used
      BY <1>6, <1>10, <2>2
    <3>2. PICK p \in U : p.at = k
      BY <1>1, <3>1 DEF Kept
    <3> QED
      BY <1>3, <3>2
  <2> QED
    BY <2>1, <2>2
<1>11. CASE r < n
  <2>1. PICK c : c = i + r
    OBVIOUS
  <2>2. Shorter(slot, S, i, r, rest)
    BY <1>4, <1>6, <1>11 DEF Shorter
  <2>4. c \in Slot \ S /\ Tiles(rest, S \cup {c})
    BY <1>2, <1>5, <2>1, <2>2, CutTiles
  <2>5. PICK T : T = S \cup {c}
    OBVIOUS
  <2>6. Keeps(rest, V, T) /\ Tiles(rest, T)
    <3>1. ~ rest[c].used
      BY <1>6, <1>11, <2>1
    <3> QED
      BY <1>8, <1>9, <1>10, <2>4, <2>5, <3>1 DEF Keeps
  <2>7. Kept(rest, V) /\ Starts(rest) = T
    BY <1>6, <2>6, MakeKept
  <2> QED
    BY <1>1, <1>3, <2>1, <2>5, <2>7
<1>12. CASE r = n
  <2>1. \A k \in S : rest[k].length = slot[k].length
    BY <1>4, <1>6, <1>12
  <2>2. Tiles(rest, S)
    BY <1>2, <2>1, SameTiles
  <2>3. Keeps(rest, V, S)
    BY <1>8, <1>9, <1>10 DEF Keeps
  <2>4. Kept(rest, V) /\ Starts(rest) = S
    BY <1>6, <2>2, <2>3, MakeKept
  <2> QED
    BY <1>1, <1>3, <1>5, <1>12, <2>4
<1> QED
  BY <1>4, <1>5, <1>11, <1>12

\* Behind a span that has been cut there is another one, or the end.
LEMMA CutEnd ==
  ASSUME NEW slot, IsSlots(slot), NEW S, S = Starts(slot), Tiles(slot, S), NEW i \in S,
         NEW r \in Nat \ {0}, r <= slot[i].length, NEW rest, Cut(slot, S, i, r, rest)
  PROVE  i + r \in Starts(rest) \cup {SlotCount}
<1>1. PICK n \in Nat : n = slot[i].length /\ r <= n
  BY TileFacts
<1>2. /\ IsSlots(rest) /\ rest[i].length = r
      /\ r < n => rest[i + r].length = n - r
      /\ \A k \in S \ {i} : rest[k] = slot[k]
  BY <1>1 DEF Cut
<1>3. CASE r < n
  <2>1. Shorter(slot, S, i, r, rest)
    BY <1>1, <1>2, <1>3 DEF Shorter
  <2>2. Tiles(rest, S \cup {i + r})
    BY <2>1, CutTiles
  <2>3. PICK T : T = S \cup {i + r}
    OBVIOUS
  <2>4. Starts(rest) = T
    BY <1>2, <2>2, <2>3, StartsUnique
  <2> QED
    BY <2>3, <2>4
<1>4. CASE r = n
  <2>1. \A k \in S : rest[k].length = slot[k].length
    BY <1>1, <1>2, <1>4
  <2>2. Tiles(rest, S)
    BY <2>1, SameTiles
  <2>3. Starts(rest) = S
    BY <1>2, <2>2, StartsUnique
  <2>4. i + n \in S \cup {SlotCount}
    BY <1>1 DEF Tiles, slot_allocator_check_integrity
  <2> QED
    BY <1>4, <2>3, <2>4
<1> QED
  BY <1>1, <1>3, <1>4

\* A new arena has one span, which is unused.
LEMMA FreshFacts ==
  /\ Fresh \in Arena /\ IsSlots(Fresh.slot) /\ Kept(Fresh.slot, {}) /\ Starts(Fresh.slot) = {0}
  /\ Fresh.slot[0] = Header(SlotCount, FALSE) /\ Fresh.cursor = 0
<1>1. PICK x, y : x = Header(SlotCount, FALSE) /\ y = Header(0, FALSE)
  OBVIOUS
<1>2. x \in Word /\ y \in Word /\ x.length = SlotCount /\ ~ x.used
  BY <1>1, SlotFacts DEF Word, Header
<1>3. PICK slot : slot = [i \in Slot |-> IF i = 0 THEN x ELSE y]
  OBVIOUS
<1>4. slot \in [Slot -> Word] /\ slot[0] = x
  BY <1>2, <1>3, SlotFacts
<1>5. Fresh = [cursor |-> 0, slot |-> slot]
  BY <1>1, <1>3 DEF Fresh
<1>6. Tiles(slot, {0})
  BY <1>2, <1>4, SlotFacts DEF Tiles, slot_allocator_check_integrity
<1>7. PICK U, S : U = {} /\ S = {0}
  OBVIOUS
<1>8. Keeps(slot, U, S) /\ Tiles(slot, S)
  BY <1>2, <1>4, <1>6, <1>7 DEF Keeps
<1>9. Kept(slot, U) /\ Starts(slot) = S
  BY <1>4, <1>8, MakeKept DEF IsSlots
<1>10. Fresh \in Arena /\ Fresh.slot = slot /\ Fresh.cursor = 0
  BY <1>4, <1>5 DEF Arena
<1> QED
  BY <1>1, <1>4, <1>7, <1>9, <1>10 DEF IsSlots

-----------------------------------------------------------------------------
(* What the operations do to the arenas. *)

\* Of the arenas only a has other slots, if at all.
OneChanged(as, a, slot, bs) ==
  /\ bs \in Seq(Arena) /\ Len(bs) = Len(as) /\ DOMAIN bs = DOMAIN as
  /\ bs[a].slot = slot /\ \A b \in DOMAIN as : b # a => bs[b] = as[b]

LEMMA ArenaFacts ==
  ASSUME NEW as \in Seq(Arena), NEW a \in DOMAIN as
  PROVE  /\ a \in Nat \ {0} /\ as[a] \in Arena /\ IsSlots(as[a].slot)
         /\ as[a].cursor \in Int /\ as[a] = [cursor |-> as[a].cursor, slot |-> as[a].slot]
<1>1. a \in 1 .. Len(as) /\ Len(as) \in Nat
  BY LenProperties
<1>2. as[a] \in Arena
  BY <1>1, ElementOfSeq
<1>3. a \in Nat \ {0}
  BY <1>1
<1>4. PICK x \in Arena : x = as[a]
  BY <1>2
<1>5. x.cursor \in Int /\ x.slot \in [Slot -> Word] /\ x = [cursor |-> x.cursor, slot |-> x.slot]
  BY DEF Arena
<1> QED
  BY <1>2, <1>3, <1>4, <1>5 DEF IsSlots

\* The arena a is replaced.
LEMMA Replaced ==
  ASSUME NEW as \in Seq(Arena), NEW a \in DOMAIN as, NEW x \in Arena, NEW bs,
         bs = [as EXCEPT ![a] = x]
  PROVE  OneChanged(as, a, x.slot, bs) /\ bs[a] = x
<1>1. a \in 1 .. Len(as) /\ DOMAIN as = 1 .. Len(as)
  BY LenProperties
<1>2. bs \in Seq(Arena) /\ Len(bs) = Len(as)
  BY <1>1, ExceptSeq
<1>3. DOMAIN bs = DOMAIN as /\ bs[a] = x /\ \A b \in DOMAIN as : b # a => bs[b] = as[b]
  OBVIOUS
<1> QED
  BY <1>2, <1>3 DEF OneChanged

LEMMA ArenaReplaced ==
  ASSUME NEW as \in Seq(Arena), NEW a \in DOMAIN as, NEW c \in Int, NEW slot, IsSlots(slot),
         NEW bs, bs = [as EXCEPT ![a] = [cursor |-> c, slot |-> slot]]
  PROVE  OneChanged(as, a, slot, bs) /\ bs[a].cursor = c
<1>1. PICK x : x = [cursor |-> c, slot |-> slot]
  OBVIOUS
<1>2. x \in Arena /\ x.slot = slot /\ x.cursor = c
  BY <1>1 DEF Arena, IsSlots
<1>3. bs = [as EXCEPT ![a] = x]
  BY <1>1
<1> QED
  BY <1>2, <1>3, Replaced

\* The arena a with other slots.
WithSlots(as, a, slot) == [as EXCEPT ![a].slot = slot]

LEMMA SlotsReplaced ==
  ASSUME NEW as \in Seq(Arena), NEW a \in DOMAIN as, NEW slot, IsSlots(slot),
         NEW bs, bs = WithSlots(as, a, slot)
  PROVE  OneChanged(as, a, slot, bs) /\ bs[a].cursor = as[a].cursor
<1>1. PICK c, s : c \in Int /\ c = as[a].cursor /\ as[a] = [cursor |-> c, slot |-> s]
  <2>1. as[a].cursor \in Int /\ as[a] = [cursor |-> as[a].cursor, slot |-> as[a].slot]
    BY ArenaFacts
  <2> QED
    BY <2>1
<1>2. PICK x : x = [[cursor |-> c, slot |-> s] EXCEPT !.slot = slot]
  OBVIOUS
<1>3. x = [cursor |-> c, slot |-> slot]
  BY <1>2
<1>4. x \in Arena /\ x.slot = slot /\ x.cursor = c
  BY <1>1, <1>3 DEF Arena, IsSlots
<1>5. bs = [as EXCEPT ![a] = x]
  BY <1>1, <1>2 DEF WithSlots
<1> QED
  BY <1>1, <1>4, <1>5, Replaced

\* The span at slot i of arena a is given back.
SpanFreed(as, a, i) == [as EXCEPT ![a].slot[i].used = FALSE]

LEMMA SpanFreedFacts ==
  ASSUME NEW as \in Seq(Arena), NEW a \in DOMAIN as, NEW i
  PROVE  SpanFreed(as, a, i) = WithSlots(as, a, Freed(as[a].slot, i))
BY DEF SpanFreed, WithSlots, Freed

\* The same, and a cursor behind it comes to it.
SpanFreedFirst(as, a, i) ==
  [as EXCEPT ![a].slot[i].used = FALSE, ![a].cursor = IF i < @ THEN i ELSE @]

LEMMA SpanFreedFirstFacts ==
  ASSUME NEW as \in Seq(Arena), NEW a \in DOMAIN as, NEW i \in Slot,
         NEW slot, slot = Freed(as[a].slot, i), IsSlots(slot),
         NEW bs, bs = SpanFreedFirst(as, a, i)
  PROVE  OneChanged(as, a, slot, bs) /\ bs[a].cursor \in {i, as[a].cursor}
<1>1. PICK c, s : /\ c \in Int /\ s = as[a].slot /\ as[a] = [cursor |-> c, slot |-> s]
                  /\ c = as[a].cursor
  <2>1. as[a].cursor \in Int /\ as[a] = [cursor |-> as[a].cursor, slot |-> as[a].slot]
    BY ArenaFacts
  <2> QED
    BY <2>1
<1>2. PICK d : d = IF i < c THEN i ELSE c
  OBVIOUS
<1>3. PICK x : x = [[cursor |-> c, slot |-> s]
                      EXCEPT !.slot[i].used = FALSE, !.cursor = IF i < @ THEN i ELSE @]
  OBVIOUS
<1>4. x = [cursor |-> d, slot |-> slot]
  BY <1>1, <1>2, <1>3 DEF Freed
<1>5. d \in Int
  BY <1>1, <1>2, SlotFacts
<1>6. x \in Arena /\ x.slot = slot /\ x.cursor = d
  BY <1>4, <1>5 DEF Arena, IsSlots
<1>7. bs = [as EXCEPT ![a] = x]
  BY <1>1, <1>3 DEF SpanFreedFirst
<1>8. OneChanged(as, a, x.slot, bs) /\ bs[a] = x
  BY <1>6, <1>7, Replaced
<1> QED
  BY <1>1, <1>2, <1>6, <1>8

\* An allocation comes to arena a or leaves it; the arenas keep what is left.
LEMMA SoundChange ==
  ASSUME NEW as \in Seq(Arena), NEW B, Sound(as, B), NEW a \in DOMAIN as,
         NEW slot, NEW bs, OneChanged(as, a, slot, bs),
         NEW C, \A o \in C : o \in B \/ (o \in Allocation /\ o.arena = a),
         \A o \in B : o \in C \/ o.arena = a,
         Kept(slot, Here(C, a))
  PROVE  Sound(bs, C)
<1>1. DOMAIN bs = DOMAIN as /\ bs[a].slot = slot /\ \A b \in DOMAIN as : b # a => bs[b] = as[b]
  BY DEF OneChanged
<1>2. ASSUME NEW o \in C PROVE o \in Allocation /\ o.arena \in DOMAIN bs
  BY <1>1 DEF Sound
<1>3. ASSUME NEW b \in DOMAIN bs PROVE Kept(bs[b].slot, Here(C, b))
  <2>1. CASE b = a
    BY <1>1, <2>1
  <2>2. CASE b # a
    <3>1. Here(C, b) = Here(B, b)
      BY <2>2 DEF Here
    <3>2. bs[b] = as[b] /\ b \in DOMAIN as
      BY <1>1, <2>2
    <3> QED
      BY <3>1, <3>2 DEF Sound
  <2> QED
    BY <2>1, <2>2
<1> QED
  BY <1>2, <1>3 DEF Sound

-----------------------------------------------------------------------------
(* What the operations do to the allocations. *)

LEMMA AllocationParts ==
  ASSUME NEW o \in Allocation
  PROVE  /\ o.arena \in Nat \ {0} /\ o.at \in Slot /\ o.size \in Nat /\ o # <<>>
         /\ o = [arena |-> o.arena, at |-> o.at, size |-> o.size]
BY DEF Allocation

LEMMA OwningFacts ==
  ASSUME IsOwned(owned), NEW tag \in Tag, tag \notin DOMAIN owned,
         NEW a, NEW i, NEW size, NEW o \in Allocation, o = [arena |-> a, at |-> i, size |-> size],
         NEW ow, ow = Owning(tag, a, i, size), NEW old, Once(owned, old),
         \A g \in DOMAIN owned : owned[g] # o
  PROVE  IsOwned(ow) /\ Once(ow, <<>>) /\ HeldOf(ow, <<>>) = HeldOf(owned, <<>>) \cup {o}
<1>1. ow = [g \in DOMAIN owned \cup {tag} |-> IF g = tag THEN o ELSE owned[g]]
  BY DEF Owning
<1>2. /\ DOMAIN ow = DOMAIN owned \cup {tag} /\ ow[tag] = o
      /\ \A g \in DOMAIN owned : ow[g] = owned[g]
  BY <1>1
<1>3. IsOwned(ow)
  BY <1>1, <1>2 DEF IsOwned
<1>4. Once(ow, <<>>)
  <2>1. ASSUME NEW g \in DOMAIN ow PROVE ow[g] # <<>>
    BY <1>3, <2>1, AllocationParts DEF IsOwned
  <2>2. ASSUME NEW g \in DOMAIN ow, NEW h \in DOMAIN ow, ow[g] = ow[h] PROVE g = h
    BY <1>2, <2>2 DEF Once
  <2> QED
    BY <2>1, <2>2 DEF Once
<1>5. HeldOf(ow, <<>>) = HeldOf(owned, <<>>) \cup {o}
  BY <1>2 DEF HeldOf
<1> QED
  BY <1>3, <1>4, <1>5

LEMMA NotOwningFacts ==
  ASSUME IsOwned(owned), NEW tag \in DOMAIN owned, NEW o, o = owned[tag],
         NEW ow, ow = NotOwning(tag), Once(owned, <<>>)
  PROVE  /\ IsOwned(ow) /\ o \in Allocation /\ tag \in Tag /\ tag \notin DOMAIN ow
         /\ Once(ow, <<>>) /\ Once(ow, o)
         /\ HeldOf(ow, <<>>) = HeldOf(owned, <<>>) \ {o} /\ HeldOf(ow, o) = HeldOf(owned, <<>>)
<1>1. ow = [g \in DOMAIN owned \ {tag} |-> owned[g]]
  BY DEF NotOwning
<1>2. DOMAIN ow = DOMAIN owned \ {tag} /\ \A g \in DOMAIN ow : ow[g] = owned[g]
  BY <1>1
<1>3. IsOwned(ow) /\ o \in Allocation /\ tag \in Tag /\ tag \notin DOMAIN ow
  BY <1>1, <1>2 DEF IsOwned
<1>4. Once(ow, <<>>) /\ Once(ow, o)
  BY <1>2 DEF Once
<1>5. \A g \in DOMAIN owned : owned[g] = o => g = tag
  BY DEF Once
<1>6. HeldOf(ow, <<>>) = HeldOf(owned, <<>>) \ {o}
  BY <1>2, <1>5 DEF HeldOf
<1>7. HeldOf(ow, o) = HeldOf(owned, <<>>)
  <2>1. o # <<>>
    BY <1>3, AllocationParts
  <2> QED
    BY <1>2, <1>5, <2>1 DEF HeldOf
<1> QED
  BY <1>3, <1>4, <1>6, <1>7

-----------------------------------------------------------------------------
(* What the operations do to arenas and allocations together. *)

LEMMA SoundFacts ==
  ASSUME NEW as \in Seq(Arena), NEW B, Sound(as, B), NEW a \in DOMAIN as, NEW slot, slot = as[a].slot
  PROVE  /\ IsSlots(slot) /\ Here(B, a) \in SUBSET Allocation /\ Kept(slot, Here(B, a))
         /\ Tiles(slot, Starts(slot))
<1>1. IsSlots(slot)
  BY ArenaFacts
<1>2. Here(B, a) \in SUBSET Allocation /\ Kept(slot, Here(B, a))
  BY DEF Sound, Here
<1> QED
  BY <1>1, <1>2 DEF Kept, Tiles

LEMMA SoundMerge ==
  ASSUME NEW as \in Seq(Arena), NEW B, Sound(as, B), NEW a \in DOMAIN as,
         NEW slot, slot = as[a].slot, NEW i \in Starts(slot), Mergeable(slot, i),
         NEW bs, bs = WithSlots(as, a, Merged(slot, i))
  PROVE  /\ Successor(slot, i).length > 0
         /\ bs \in Seq(Arena) /\ Sound(bs, B) /\ DOMAIN bs = DOMAIN as
         /\ i \in Starts(bs[a].slot) /\ (bs[a].slot[i].used <=> slot[i].used)
<1>1. PICK U : U = Here(B, a) /\ U \in SUBSET Allocation /\ Kept(slot, U) /\ IsSlots(slot)
  BY SoundFacts
<1>2. PICK rest : rest = Merged(slot, i)
  OBVIOUS
<1>3. /\ Successor(slot, i).length > 0 /\ IsSlots(rest) /\ Kept(rest, U)
      /\ i \in Starts(rest) /\ (rest[i].used <=> slot[i].used)
  <2>1. Successor(slot, i).length > 0 /\ IsSlots(rest) /\ Kept(rest, U) /\ i \in Starts(rest)
    BY <1>1, <1>2, MergeKept
  <2>2. rest[i].used <=> slot[i].used
    BY <1>1, <1>2, MergeKept
  <2> QED
    BY <2>1, <2>2
<1>4. OneChanged(as, a, rest, bs)
  BY <1>2, <1>3, SlotsReplaced
<1>5. Sound(bs, B)
  <2>1. PICK C : C = B
    OBVIOUS
  <2>2. /\ \A p \in C : p \in B \/ (p \in Allocation /\ p.arena = a)
        /\ \A p \in B : p \in C \/ p.arena = a
        /\ Kept(rest, Here(C, a))
    BY <1>1, <1>3, <2>1
  <2>3. Sound(bs, C)
    BY <1>4, <2>2, SoundChange
  <2> QED
    BY <2>1, <2>3
<1> QED
  BY <1>3, <1>4, <1>5 DEF OneChanged

\* The span at i has swallowed the one behind it.
Swallowed(as, a, i, bs) ==
  LET slot == as[a].slot
      n == slot[i].length
      m == bs[a].slot[i].length
  IN /\ Starts(bs[a].slot) = Starts(slot) \ {i + n} /\ n \in Nat /\ m \in Nat /\ n < m
     /\ bs[a].cursor = as[a].cursor
     /\ DOMAIN bs = DOMAIN as /\ \A b \in DOMAIN as : b # a => bs[b] = as[b]

LEMMA MergeSwallows ==
  ASSUME NEW as \in Seq(Arena), NEW B, Sound(as, B), NEW a \in DOMAIN as,
         NEW slot, slot = as[a].slot, NEW i \in Starts(slot), Mergeable(slot, i),
         NEW bs, bs = WithSlots(as, a, Merged(slot, i))
  PROVE  Swallowed(as, a, i, bs)
<1>1. PICK U : U = Here(B, a) /\ U \in SUBSET Allocation /\ Kept(slot, U) /\ IsSlots(slot)
  BY SoundFacts
<1>2. PICK rest : rest = Merged(slot, i)
  OBVIOUS
<1>3. /\ IsSlots(rest) /\ Starts(rest) = Starts(slot) \ {i + slot[i].length}
      /\ slot[i].length \in Nat /\ rest[i].length \in Nat /\ slot[i].length < rest[i].length
  BY <1>1, <1>2, MergeKept
<1>4. OneChanged(as, a, rest, bs) /\ bs[a].cursor = as[a].cursor
  BY <1>2, <1>3, SlotsReplaced
<1> QED
  BY <1>3, <1>4 DEF OneChanged, Swallowed

\* o is a new allocation, cut from an unused span.
LEMMA SoundTake ==
  ASSUME NEW as \in Seq(Arena), NEW B, Sound(as, B), NEW a \in DOMAIN as,
         NEW slot, slot = as[a].slot, NEW i \in Starts(slot), ~ slot[i].used,
         NEW o \in Allocation, o.arena = a, o.at = i, NEW r, r = RequiredSlots(o.size),
         r <= slot[i].length, NEW rest, Cut(slot, Starts(slot), i, r, rest),
         NEW bs, OneChanged(as, a, rest, bs)
  PROVE  Sound(bs, B \cup {o}) /\ o \notin B
<1>1. PICK U : U = Here(B, a) /\ U \in SUBSET Allocation /\ Kept(slot, U) /\ IsSlots(slot)
  BY SoundFacts
<1>2. Kept(rest, U \cup {o})
  BY <1>1, TakeKept
<1>3. o \notin B
  <2>1. o \notin U
    BY <1>1 DEF Kept
  <2> QED
    BY <1>1, <2>1 DEF Here
<1>4. PICK C : C = B \cup {o}
  OBVIOUS
<1>5. Here(C, a) = U \cup {o}
  BY <1>1, <1>4 DEF Here
<1>6. /\ \A p \in C : p \in B \/ (p \in Allocation /\ p.arena = a)
      /\ \A p \in B : p \in C \/ p.arena = a
      /\ Kept(rest, Here(C, a))
  BY <1>2, <1>4, <1>5
<1>7. Sound(bs, C)
  BY <1>6, SoundChange
<1> QED
  BY <1>3, <1>4, <1>7

\* With the slots of arena a replaced by these, the arenas keep C.
Keeping(as, a, slot, C) == \A bs : OneChanged(as, a, slot, bs) => Sound(bs, C)

\* The span of allocation o is given back.
LEMMA SoundFree ==
  ASSUME NEW as \in Seq(Arena), NEW B, Sound(as, B), NEW o \in B,
         NEW slot, slot = as[o.arena].slot, NEW rest, rest = Freed(slot, o.at), NEW C, C = B \ {o}
  PROVE  /\ o.arena \in DOMAIN as /\ OnlyUnused(slot, o.at, rest)
         /\ Keeping(as, o.arena, rest, C)
<1>1. PICK a \in DOMAIN as : a = o.arena /\ o \in Allocation
  BY DEF Sound
<1>2. PICK U : U = Here(B, a) /\ U \in SUBSET Allocation /\ Kept(slot, U) /\ IsSlots(slot)
  BY <1>1, SoundFacts
<1>3. PICK V : V = U \ {o}
  OBVIOUS
<1>4. o \in U
  BY <1>1, <1>2 DEF Here
<1>5. Kept(rest, V) /\ OnlyUnused(slot, o.at, rest)
  BY <1>2, <1>3, <1>4, FreeKept
<1>6. ASSUME NEW bs, OneChanged(as, a, rest, bs) PROVE Sound(bs, C)
  <2>1. Here(C, a) = V
    BY <1>2, <1>3 DEF Here
  <2>2. /\ \A p \in C : p \in B \/ (p \in Allocation /\ p.arena = a)
        /\ \A p \in B : p \in C \/ p.arena = a
        /\ Kept(rest, Here(C, a))
    BY <1>1, <1>5, <2>1
  <2> QED
    BY <1>6, <2>2, SoundChange
<1> QED
  BY <1>1, <1>5, <1>6 DEF Keeping

\* An arena is added to the chain.
Longer(as, x, bs) ==
  /\ bs \in Seq(Arena) /\ Len(bs) = Len(as) + 1 /\ bs[Len(as) + 1] = x
  /\ \A b \in 1 .. Len(as) : bs[b] = as[b]

LEMMA ArenaAdded ==
  ASSUME NEW as \in Seq(Arena), NEW x \in Arena
  PROVE  Longer(as, x, Append(as, x))
<1>1. Append(as, x) \in Seq(Arena)
  BY AppendProperties
<1>2. Len(Append(as, x)) = Len(as) + 1
  BY AppendProperties
<1>3. Append(as, x)[Len(as) + 1] = x
  BY AppendProperties
<1>4. ASSUME NEW b \in 1 .. Len(as) PROVE Append(as, x)[b] = as[b]
  BY AppendProperties
<1> QED
  BY <1>1, <1>2, <1>3, <1>4 DEF Longer

\* The kernel has granted a new arena.
LEMMA SoundAppend ==
  ASSUME NEW as \in Seq(Arena), NEW B, Sound(as, B), NEW bs, bs = Append(as, Fresh)
  PROVE  /\ bs \in Seq(Arena) /\ Len(bs) = Len(as) + 1 /\ Sound(bs, B)
         /\ Len(as) + 1 \in DOMAIN bs /\ bs[Len(as) + 1] = Fresh
<1>1. /\ bs \in Seq(Arena) /\ Len(bs) = Len(as) + 1 /\ bs[Len(as) + 1] = Fresh
      /\ \A b \in 1 .. Len(as) : bs[b] = as[b]
  <2>1. Longer(as, Fresh, Append(as, Fresh))
    BY FreshFacts, ArenaAdded
  <2> QED
    BY <2>1 DEF Longer
<1>2. DOMAIN as = 1 .. Len(as) /\ DOMAIN bs = 1 .. Len(bs) /\ Len(as) \in Nat
  BY <1>1, LenProperties
<1>3. PICK n \in Nat : n = Len(as) + 1 /\ n \notin DOMAIN as /\ DOMAIN bs = DOMAIN as \cup {n}
  <2>1. PICK l \in Nat : l = Len(as)
    BY <1>2
  <2>2. DOMAIN as = 1 .. l /\ DOMAIN bs = 1 .. l + 1
    BY <1>1, <1>2, <2>1
  <2>3. l + 1 \in Nat /\ l + 1 \notin DOMAIN as /\ DOMAIN bs = DOMAIN as \cup {l + 1}
    BY <2>2
  <2> QED
    BY <2>1, <2>3
<1>4. Here(B, n) = {}
  BY <1>3 DEF Here, Sound
<1>5. ASSUME NEW b \in DOMAIN bs PROVE Kept(bs[b].slot, Here(B, b))
  <2>1. CASE b = n
    BY <1>1, <1>3, <1>4, <2>1, FreshFacts
  <2>2. CASE b \in DOMAIN as
    BY <1>1, <1>2, <2>2 DEF Sound
  <2> QED
    BY <1>3, <2>1, <2>2
<1>6. Sound(bs, B)
  BY <1>3, <1>5 DEF Sound
<1> QED
  BY <1>1, <1>3, <1>6

\* The allocation old gets another size where it is, and is o then.
Resized(as, old, o, rest, bs) ==
  LET slot == as[old.arena].slot
      r == RequiredSlots(o.size)
  IN /\ o.arena = old.arena /\ o.at = old.at /\ r <= slot[old.at].length
     /\ Cut(slot, Starts(slot), old.at, r, rest) /\ OneChanged(as, old.arena, rest, bs)

LEMMA SoundResize ==
  ASSUME NEW as \in Seq(Arena), NEW B, Sound(as, B), NEW old \in B, NEW o \in Allocation,
         NEW rest, NEW bs, Resized(as, old, o, rest, bs), NEW C, C = B \ {old}
  PROVE  Sound(bs, C \cup {o}) /\ o \notin C
<1>1. PICK a, i, slot, r : /\ a = old.arena /\ i = old.at /\ slot = as[a].slot
                           /\ r = RequiredSlots(o.size)
  OBVIOUS
<1>2. /\ o.arena = a /\ o.at = i /\ r <= slot[i].length
      /\ Cut(slot, Starts(slot), i, r, rest) /\ OneChanged(as, a, rest, bs)
  BY <1>1 DEF Resized
<1>3. PICK free : free = Freed(slot, i)
  OBVIOUS
<1>4. a \in DOMAIN as /\ OnlyUnused(slot, i, free) /\ Keeping(as, a, free, C)
  <2>1. slot = as[old.arena].slot /\ free = Freed(slot, old.at)
    BY <1>1, <1>3
  <2>2. /\ old.arena \in DOMAIN as /\ OnlyUnused(slot, old.at, free)
        /\ Keeping(as, old.arena, free, C)
    BY <2>1, SoundFree
  <2> QED
    BY <1>1, <2>2
<1>5. PICK ms : ms = WithSlots(as, a, free)
  OBVIOUS
<1>6. /\ IsSlots(free) /\ Starts(free) = Starts(slot) /\ i \in Starts(free) /\ i \in Slot
      /\ ~ free[i].used /\ free[i].length = slot[i].length
      /\ \A k \in Slot \ {i} : free[k] = slot[k]
  BY <1>4 DEF OnlyUnused
<1>7. OneChanged(as, a, free, ms)
  BY <1>4, <1>5, <1>6, SlotsReplaced
<1>8. Sound(ms, C) /\ ms \in Seq(Arena) /\ a \in DOMAIN ms /\ ms[a].slot = free
  BY <1>4, <1>7 DEF OneChanged, Keeping
<1>9. Cut(free, Starts(free), i, r, rest)
  <2>1. Starts(free) \subseteq Slot
    BY <1>8, SoundFacts DEF Tiles
  <2> QED
    BY <1>2, <1>6, <2>1 DEF Cut
<1>10. OneChanged(ms, a, rest, bs)
  BY <1>2, <1>7 DEF OneChanged
<1>11. r <= free[i].length
  BY <1>2, <1>6
<1>12. i \in Starts(free) /\ ~ free[i].used /\ o.arena = a /\ o.at = i /\ r = RequiredSlots(o.size)
  BY <1>1, <1>2, <1>6
<1> QED
  BY <1>8, <1>9, <1>10, <1>11, <1>12, SoundTake

-----------------------------------------------------------------------------
(* The steps of a thread. *)

LEMMA GotoFacts ==
  ASSUME TypeOK, NEW t \in Thread, NEW p \in Control, Goto(t, p)
  PROVE  pc' \in [Thread -> Control] /\ pc'[t] = p
BY DEF TypeOK, Goto

LEMMA MoveFacts ==
  ASSUME TypeOK, NEW t \in Thread, NEW a \in Nat, NEW i \in Nat, MoveTo(t, a, i)
  PROVE  /\ pos' \in [Thread -> Position] /\ pos'[t] \in Position
         /\ pos'[t].arena = a /\ pos'[t].at = i
<1>1. PICK x : x = [arena |-> a, at |-> i]
  OBVIOUS
<1>2. x \in Position /\ x.arena = a /\ x.at = i
  BY <1>1 DEF Position
<1>3. pos' = [pos EXCEPT ![t] = x]
  BY <1>1 DEF MoveTo
<1>4. pos' \in [Thread -> Position] /\ pos'[t] = x
  BY <1>2, <1>3 DEF TypeOK
<1> QED
  BY <1>2, <1>4

LEMMA IdleFacts == /\ Idle \in Call /\ Idle.old = <<>> /\ Idle.tag = NoTag /\ Idle.size = 0
                   /\ Nowhere \in Position
BY DEF Idle, Call, Nowhere, Position

LEMMA DoneFacts ==
  ASSUME TypeOK, NEW t \in Thread, Done(t)
  PROVE  /\ pc' \in [Thread -> Control] /\ pc'[t] = "idle"
         /\ call' \in [Thread -> Call] /\ call'[t] = Idle
         /\ pos' \in [Thread -> Position] /\ grown' \in [Thread -> Nat] /\ grown'[t] = 0
<1>1. pc' \in [Thread -> Control] /\ pc'[t] = "idle"
  BY GotoFacts DEF Done, Control
<1>2. call' \in [Thread -> Call] /\ call'[t] = Idle
  BY IdleFacts DEF Done, TypeOK
<1>3. pos' \in [Thread -> Position]
  BY IdleFacts DEF Done, TypeOK
<1>4. grown' \in [Thread -> Nat] /\ grown'[t] = 0
  BY DEF Done, TypeOK
<1> QED
  BY <1>1, <1>2, <1>3, <1>4

\* What a step finds.
LEMMA InvParts ==
  ASSUME NEW t \in Thread, Inv(t)
  PROVE  /\ arenas \in Seq(Arena) /\ IsOwned(owned) /\ pc[t] \in Control
         /\ call[t] \in Call /\ call[t].size \in Nat
         /\ call[t].old = <<>> \/ call[t].old \in Allocation
         /\ pos[t] \in Position /\ pos[t].arena \in Nat /\ pos[t].at \in Nat
         /\ Placed(arenas, owned, pc[t], call[t], pos[t])
         /\ Sound(arenas, HeldOf(owned, call[t].old)) /\ Once(owned, call[t].old)
         /\ Len(arenas) \in Nat /\ DOMAIN arenas = 1 .. Len(arenas)
<1>1. call[t] \in Call /\ pos[t] \in Position
  BY DEF Inv, TypeOK
<1>2. call[t].size \in Nat /\ (call[t].old = <<>> \/ call[t].old \in Allocation)
  BY <1>1 DEF Call
<1>3. pos[t].arena \in Nat /\ pos[t].at \in Nat
  BY <1>1 DEF Position
<1>4. arenas \in Seq(Arena) /\ IsOwned(owned) /\ pc[t] \in Control
  BY DEF Inv, TypeOK
<1>5. Len(arenas) \in Nat /\ DOMAIN arenas = 1 .. Len(arenas)
  BY <1>4, LenProperties
<1>6. /\ Placed(arenas, owned, pc[t], call[t], pos[t])
      /\ Sound(arenas, HeldOf(owned, call[t].old)) /\ Once(owned, call[t].old)
  BY DEF Inv, Good
<1> QED
  BY <1>1, <1>2, <1>3, <1>4, <1>5, <1>6

LEMMA MakeInv ==
  ASSUME NEW t, TypeOK', Placed(arenas', owned', pc'[t], call'[t], pos'[t]),
         Sound(arenas', HeldOf(owned', call'[t].old)), Once(owned', call'[t].old)
  PROVE  Inv(t)'
BY DEF Inv, Good

LEMMA MakeType ==
  ASSUME arenas' \in Seq(Arena), IsOwned(owned'),
         pc' \in [Thread -> Control], call' \in [Thread -> Call], pos' \in [Thread -> Position],
         grown' \in [Thread -> Nat], calls' \in Nat
  PROVE  TypeOK'
BY DEF TypeOK

\* What every step does to the flag.
LEMMA StillBoolean ==
  ASSUME adrift \in BOOLEAN, Next \/ UNCHANGED vars
  PROVE  adrift' \in BOOLEAN /\ (adrift => adrift')
<1>1. \/ adrift' = adrift
      \/ \E t \in Thread : adrift' = (adrift \/ CursorInside(arenas[pos[t].arena], pos[t].at))
  BY DEF Next, Step, Malloc, Realloc, Free, Enter, Scan, Merge, ScanEnd, Take, Expand, Finished, vars
<1> QED
  BY <1>1

LEMMA MallocStep ==
  ASSUME NEW t \in Thread, Inv(t), NEW tag \in Tag, NEW size \in MallocSize, Malloc(t, tag, size)
  PROVE  Inv(t)'
<1>1. pc[t] = "idle" /\ ~ InUse(tag) /\ calls' = calls + 1 /\ UNCHANGED <<arenas, owned, grown>>
  BY DEF Malloc
<1>2. PICK c : c = [tag |-> tag, size |-> size, old |-> <<>>]
  OBVIOUS
<1>3. size \in Nat
  BY SizeAssumption
<1>4. c \in Call /\ c.tag = tag /\ c.size = size /\ c.old = <<>>
  BY <1>2, <1>3 DEF Call
<1>5. call' \in [Thread -> Call] /\ call'[t] = c
  <2>1. call' = [call EXCEPT ![t] = c]
    BY <1>2 DEF Malloc
  <2> QED
    BY <1>4, <2>1 DEF Inv, TypeOK
<1>6. pc' \in [Thread -> Control] /\ pc'[t] = "enter"
  BY GotoFacts DEF Malloc, Inv, Control
<1>7. pos' \in [Thread -> Position] /\ pos'[t].arena = 1
  BY MoveFacts DEF Malloc, Inv
<1>8. TypeOK'
  <2>1. /\ arenas' \in Seq(Arena) /\ IsOwned(owned') /\ grown' \in [Thread -> Nat] /\ calls' \in Nat
    BY <1>1 DEF Inv, TypeOK
  <2> QED
    BY <1>5, <1>6, <1>7, <2>1, MakeType
<1>9. call[t].old = <<>>
  BY <1>1, InvParts DEF Placed
<1>10. tag \in Tag \ DOMAIN owned
  BY <1>1 DEF InUse
<1>11. 1 \in 1 .. Len(arenas) + 1
  BY InvParts
<1>12. Placed(arenas', owned', pc'[t], call'[t], pos'[t])
  BY <1>1, <1>4, <1>5, <1>6, <1>7, <1>10, <1>11 DEF Placed
<1>13. Sound(arenas', HeldOf(owned', call'[t].old)) /\ Once(owned', call'[t].old)
  BY <1>1, <1>4, <1>5, <1>9, InvParts
<1> QED
  BY <1>8, <1>12, <1>13, MakeInv

LEMMA ReallocStep ==
  ASSUME NEW t \in Thread, Inv(t), NEW tag \in Tag, NEW size \in ReallocSize, Realloc(t, tag, size)
  PROVE  Inv(t)'
<1>1. /\ pc[t] = "idle" /\ tag \in DOMAIN owned /\ calls' = calls + 1 /\ UNCHANGED <<arenas, grown>>
      /\ owned' = NotOwning(tag)
  BY DEF Realloc
<1>2. call[t].old = <<>>
  BY <1>1, InvParts DEF Placed
<1>3. PICK o, ow : o = owned[tag] /\ ow = NotOwning(tag)
  OBVIOUS
<1>4. IsOwned(owned) /\ Once(owned, <<>>) /\ Sound(arenas, HeldOf(owned, <<>>))
  BY <1>2, InvParts
<1>5. IsOwned(ow) /\ o \in Allocation /\ tag \notin DOMAIN ow /\ Once(ow, o)
  BY <1>1, <1>3, <1>4, NotOwningFacts
<1>6. HeldOf(ow, o) = HeldOf(owned, <<>>)
  BY <1>1, <1>3, <1>4, NotOwningFacts
<1>7. PICK c : c = [tag |-> tag, size |-> size, old |-> o]
  OBVIOUS
<1>8. size \in Nat
  BY SizeAssumption
<1>9. c \in Call /\ c.tag = tag /\ c.size = size /\ c.old = o /\ o # <<>>
  BY <1>5, <1>7, <1>8, AllocationParts DEF Call
<1>10. call' \in [Thread -> Call] /\ call'[t] = c
  <2>1. call' = [call EXCEPT ![t] = c]
    BY <1>3, <1>7 DEF Realloc
  <2> QED
    BY <1>9, <2>1 DEF Inv, TypeOK
<1>11. pc' \in [Thread -> Control] /\ pc'[t] = "expand"
  BY GotoFacts DEF Realloc, Inv, Control
<1>12. pos' \in [Thread -> Position] /\ pos'[t].arena = o.arena /\ pos'[t].at = o.at
  <2>1. o.arena \in Nat /\ o.at \in Nat
    BY <1>5, AllocationParts, SlotFacts
  <2>2. MoveTo(t, o.arena, o.at)
    BY <1>3 DEF Realloc
  <2> QED
    BY <2>1, <2>2, MoveFacts DEF Inv
<1>13. TypeOK'
  <2>1. /\ arenas' \in Seq(Arena) /\ IsOwned(owned') /\ grown' \in [Thread -> Nat] /\ calls' \in Nat
    BY <1>1, <1>3, <1>5 DEF Inv, TypeOK
  <2> QED
    BY <1>10, <1>11, <1>12, <2>1, MakeType
<1>14. Placed(arenas', owned', pc'[t], call'[t], pos'[t])
  BY <1>1, <1>3, <1>5, <1>9, <1>10, <1>11, <1>12 DEF Placed
<1>15. Sound(arenas', HeldOf(owned', call'[t].old)) /\ Once(owned', call'[t].old)
  BY <1>1, <1>3, <1>4, <1>5, <1>6, <1>9, <1>10
<1> QED
  BY <1>13, <1>14, <1>15, MakeInv

LEMMA FreeStep ==
  ASSUME NEW t \in Thread, Inv(t), NEW tag \in Tag, Free(t, tag)
  PROVE  Inv(t)'
<1>1. /\ pc[t] = "idle" /\ tag \in DOMAIN owned /\ calls' = calls + 1
      /\ UNCHANGED <<pc, call, pos, grown>> /\ owned' = NotOwning(tag)
  BY DEF Free
<1>2. call[t].old = <<>>
  BY <1>1, InvParts DEF Placed
<1>3. PICK o, ow : o = owned[tag] /\ ow = NotOwning(tag)
  OBVIOUS
<1>4. /\ IsOwned(owned) /\ Once(owned, <<>>) /\ Sound(arenas, HeldOf(owned, <<>>))
      /\ arenas \in Seq(Arena)
  BY <1>2, InvParts
<1>5. IsOwned(ow) /\ Once(ow, <<>>)
  BY <1>1, <1>3, <1>4, NotOwningFacts
<1>6. HeldOf(ow, <<>>) = HeldOf(owned, <<>>) \ {o}
  BY <1>1, <1>3, <1>4, NotOwningFacts
<1>7. PICK B, C : B = HeldOf(owned, <<>>) /\ C = B \ {o}
  OBVIOUS
<1>8. o \in B
  BY <1>1, <1>3, <1>7 DEF HeldOf
<1>9. PICK slot, rest : slot = arenas[o.arena].slot /\ rest = Freed(slot, o.at)
  OBVIOUS
<1>10. o.arena \in DOMAIN arenas /\ OnlyUnused(slot, o.at, rest) /\ Keeping(arenas, o.arena, rest, C)
  BY <1>4, <1>7, <1>8, <1>9, SoundFree
<1>11. OneChanged(arenas, o.arena, rest, arenas')
  <2>1. PICK a, i : a = o.arena /\ i = o.at
    OBVIOUS
  <2>2. arenas' = SpanFreedFirst(arenas, a, i)
    BY <1>3, <2>1 DEF Free, SpanFreedFirst
  <2>3. IsSlots(rest) /\ i \in Slot /\ a \in DOMAIN arenas /\ rest = Freed(arenas[a].slot, i)
    BY <1>9, <1>10, <2>1 DEF OnlyUnused
  <2>4. OneChanged(arenas, a, rest, arenas')
    BY <1>4, <2>2, <2>3, SpanFreedFirstFacts
  <2> QED
    BY <2>1, <2>4
<1>12. Sound(arenas', C)
  BY <1>10, <1>11 DEF Keeping
<1>13. TypeOK'
  <2>1. arenas' \in Seq(Arena)
    BY <1>11 DEF OneChanged
  <2>2. /\ IsOwned(owned') /\ grown' \in [Thread -> Nat] /\ calls' \in Nat
        /\ pc' \in [Thread -> Control] /\ call' \in [Thread -> Call] /\ pos' \in [Thread -> Position]
    BY <1>1, <1>3, <1>5 DEF Inv, TypeOK
  <2> QED
    BY <2>1, <2>2, MakeType
<1>14. Placed(arenas', owned', pc'[t], call'[t], pos'[t])
  BY <1>1, <1>2 DEF Placed
<1>15. Sound(arenas', HeldOf(owned', call'[t].old)) /\ Once(owned', call'[t].old)
  BY <1>1, <1>2, <1>3, <1>5, <1>6, <1>7, <1>12
<1> QED
  BY <1>13, <1>14, <1>15, MakeInv

\* A step that ends the call.
LEMMA Return ==
  ASSUME NEW t \in Thread, Inv(t), Done(t), UNCHANGED calls, arenas' \in Seq(Arena),
         IsOwned(owned'), Sound(arenas', HeldOf(owned', <<>>)), Once(owned', <<>>)
  PROVE  Inv(t)'
<1>1. /\ pc' \in [Thread -> Control] /\ pc'[t] = "idle"
      /\ call' \in [Thread -> Call] /\ call'[t] = Idle
      /\ pos' \in [Thread -> Position] /\ grown' \in [Thread -> Nat]
  BY DoneFacts DEF Inv
<1>2. TypeOK'
  <2>1. calls' \in Nat
    BY DEF Inv, TypeOK
  <2> QED
    BY <1>1, <2>1, MakeType
<1>3. call'[t].old = <<>>
  BY <1>1, IdleFacts
<1>4. Placed(arenas', owned', pc'[t], call'[t], pos'[t])
  BY <1>1, <1>3 DEF Placed
<1> QED
  BY <1>2, <1>3, <1>4, MakeInv

\* A step in the middle of a call.
LEMMA GoOn ==
  ASSUME NEW t \in Thread, Inv(t), UNCHANGED <<owned, call, calls>>, arenas' \in Seq(Arena),
         grown' \in [Thread -> Nat], pc' \in [Thread -> Control], pos' \in [Thread -> Position],
         Sound(arenas', HeldOf(owned, call[t].old)),
         Placed(arenas', owned, pc'[t], call[t], pos'[t])
  PROVE  Inv(t)'
<1>1. TypeOK'
  <2>1. calls' \in Nat /\ IsOwned(owned') /\ call' \in [Thread -> Call]
    BY DEF Inv, TypeOK
  <2> QED
    BY <2>1, MakeType
<1>2. Once(owned', call'[t].old)
  BY InvParts
<1> QED
  BY <1>1, <1>2, MakeInv

LEMMA EnterStep ==
  ASSUME NEW t \in Thread, Inv(t), Cursors(t), Enter(t)
  PROVE  Inv(t)'
<1>1. PICK a : a = pos[t].arena
  OBVIOUS
<1>2. /\ a \in 1 .. Len(arenas) + 1 /\ Len(arenas) \in Nat /\ DOMAIN arenas = 1 .. Len(arenas)
      /\ arenas \in Seq(Arena) /\ pc[t] = "enter" /\ call[t].tag \in Tag \ DOMAIN owned
      /\ Sound(arenas, HeldOf(owned, call[t].old)) /\ Once(owned, call[t].old) /\ IsOwned(owned)
      /\ (call[t].old = <<>> \/ call[t].old \in Allocation) /\ a \in Nat
  BY <1>1, InvParts DEF Placed, Enter
<1>3. UNCHANGED calls /\ grown \in [Thread -> Nat] /\ TypeOK
  BY DEF Enter, Inv, TypeOK
<1>4. CASE /\ a <= Len(arenas) /\ Goto(t, "scan") /\ MoveTo(t, a, arenas[a].cursor)
           /\ UNCHANGED <<arenas, owned, call, grown>>
  <2>1. a \in DOMAIN arenas
    BY <1>2, <1>4
  <2>2. PICK slot, k : slot = arenas[a].slot /\ k = arenas[a].cursor
    OBVIOUS
  <2>3. k \in Starts(slot) \cup {SlotCount}
    BY <1>2, <2>1, <2>2 DEF Cursors, OnSpan
  <2>4. Tiles(slot, Starts(slot))
    BY <1>2, <2>1, <2>2, SoundFacts
  <2>5. k \in Nat
    BY <2>3, <2>4, SlotFacts DEF Tiles
  <2>6. pos' \in [Thread -> Position] /\ pos'[t].arena = a /\ pos'[t].at = k
    BY <1>2, <1>3, <1>4, <2>2, <2>5, MoveFacts
  <2>7. pc' \in [Thread -> Control] /\ pc'[t] = "scan"
    BY <1>3, <1>4, GotoFacts DEF Control
  <2>8. Placed(arenas', owned, pc'[t], call[t], pos'[t])
    BY <1>2, <1>4, <2>1, <2>2, <2>3, <2>6, <2>7 DEF Placed
  <2> QED
    BY <1>2, <1>3, <1>4, <2>6, <2>7, <2>8, GoOn
<1>5. CASE /\ a > Len(arenas) /\ arenas' = Append(arenas, Fresh) /\ Goto(t, "scan") /\ MoveTo(t, a, 0)
           /\ grown' = [grown EXCEPT ![t] = @ + 1] /\ UNCHANGED <<owned, call>>
  <2>1. a = Len(arenas) + 1
    BY <1>2, <1>5
  <2>2. /\ arenas' \in Seq(Arena) /\ Sound(arenas', HeldOf(owned, call[t].old))
        /\ a \in DOMAIN arenas' /\ arenas'[a] = Fresh
    <3>1. PICK B : B = HeldOf(owned, call[t].old)
      OBVIOUS
    <3>2. /\ arenas' \in Seq(Arena) /\ Sound(arenas', B)
          /\ Len(arenas) + 1 \in DOMAIN arenas' /\ arenas'[Len(arenas) + 1] = Fresh
      BY <1>2, <1>5, <3>1, SoundAppend
    <3> QED
      BY <2>1, <3>1, <3>2
  <2>3. pos' \in [Thread -> Position] /\ pos'[t].arena = a /\ pos'[t].at = 0
    BY <1>2, <1>3, <1>5, MoveFacts
  <2>4. pc' \in [Thread -> Control] /\ pc'[t] = "scan"
    BY <1>3, <1>5, GotoFacts DEF Control
  <2>5. Placed(arenas', owned, pc'[t], call[t], pos'[t])
    BY <1>2, <2>2, <2>3, <2>4, FreshFacts DEF Placed
  <2>6. grown' \in [Thread -> Nat]
    BY <1>3, <1>5
  <2> QED
    BY <1>3, <1>5, <2>2, <2>3, <2>4, <2>5, <2>6, GoOn
<1>6. CASE /\ owned' = IF call[t].old = <<>> THEN owned
                       ELSE Owning(call[t].tag, call[t].old.arena, call[t].old.at, call[t].old.size)
           /\ Done(t) /\ UNCHANGED arenas
  <2>1. CASE call[t].old = <<>>
    BY <1>2, <1>3, <1>6, <2>1, Return
  <2>2. CASE call[t].old # <<>>
    <3>1. PICK o, tag : o = call[t].old /\ tag = call[t].tag
      OBVIOUS
    <3>2. /\ o \in Allocation /\ o = [arena |-> o.arena, at |-> o.at, size |-> o.size]
          /\ tag \in Tag /\ tag \notin DOMAIN owned
      BY <1>2, <2>2, <3>1, AllocationParts
    <3>3. PICK a0, i0, s0 : a0 = o.arena /\ i0 = o.at /\ s0 = o.size
      OBVIOUS
    <3>4. owned' = Owning(tag, a0, i0, s0) /\ o = [arena |-> a0, at |-> i0, size |-> s0]
      BY <1>6, <2>2, <3>1, <3>2, <3>3
    <3>5. (\A g \in DOMAIN owned : owned[g] # o) /\ Once(owned, o)
      BY <1>2, <3>1 DEF Once
    <3>6. /\ IsOwned(owned') /\ Once(owned', <<>>)
          /\ HeldOf(owned', <<>>) = HeldOf(owned, <<>>) \cup {o}
      BY <1>2, <3>2, <3>4, <3>5, OwningFacts
    <3>7. HeldOf(owned, <<>>) \cup {o} = HeldOf(owned, call[t].old)
      BY <2>2, <3>1 DEF HeldOf
    <3> QED
      BY <1>2, <1>3, <1>6, <3>6, <3>7, Return
  <2> QED
    BY <2>1, <2>2
<1> QED
  BY <1>1, <1>4, <1>5, <1>6 DEF Enter

LEMMA ScanStep ==
  ASSUME NEW t \in Thread, Inv(t), Scan(t)
  PROVE  Inv(t)'
<1>1. PICK a, i, slot : a = pos[t].arena /\ i = pos[t].at /\ slot = arenas[a].slot
  OBVIOUS
<1>2. /\ arenas \in Seq(Arena) /\ pc[t] = "scan" /\ call[t].tag \in Tag \ DOMAIN owned
      /\ Sound(arenas, HeldOf(owned, call[t].old)) /\ a \in Nat /\ i \in Nat /\ i < SlotCount
      /\ a \in DOMAIN arenas /\ i \in Starts(slot) \cup {SlotCount}
  BY <1>1, InvParts DEF Placed, Scan
<1>3. /\ UNCHANGED <<arenas, owned, call, grown, calls>> /\ grown \in [Thread -> Nat] /\ TypeOK
      /\ pc \in [Thread -> Control] /\ pos \in [Thread -> Position]
  BY DEF Scan, Inv, TypeOK
<1>4. i \in Starts(slot)
  BY <1>2, SlotFacts
<1>5. Tiles(slot, Starts(slot)) /\ IsSlots(slot)
  BY <1>1, <1>2, SoundFacts
<1>6. PICK n \in Nat : /\ n = slot[i].length /\ n > 0 /\ i + n <= SlotCount
                       /\ i + n < SlotCount => i + n \in Starts(slot)
  BY <1>4, <1>5, TileFacts
<1>7. CASE slot[i].length > 0 /\ slot[i].used /\ MoveTo(t, a, i + slot[i].length) /\ UNCHANGED pc
  <2>1. i + n \in Nat /\ i + n \in Starts(slot) \cup {SlotCount}
    <3>1. i + n \in Nat /\ (i + n < SlotCount \/ i + n = SlotCount)
      <4>1. i \in Nat /\ SlotCount \in Nat
        BY <1>2, SlotFacts
      <4> QED
        BY <1>6, <4>1
    <3> QED
      BY <1>6, <3>1
  <2>2. pos' \in [Thread -> Position] /\ pos'[t].arena = a /\ pos'[t].at = i + n
    BY <1>2, <1>3, <1>6, <1>7, <2>1, MoveFacts
  <2>3. Placed(arenas', owned, pc'[t], call[t], pos'[t])
    BY <1>1, <1>2, <1>3, <1>7, <2>1, <2>2 DEF Placed
  <2> QED
    BY <1>2, <1>3, <1>7, <2>2, <2>3, GoOn
<1>8. CASE slot[i].length > 0 /\ ~ slot[i].used /\ Goto(t, "merge") /\ UNCHANGED pos
  <2>1. pc' \in [Thread -> Control] /\ pc'[t] = "merge"
    BY <1>3, <1>8, GotoFacts DEF Control
  <2>2. i # SlotCount
    BY <1>2, SlotFacts
  <2>3. Placed(arenas', owned, pc'[t], call[t], pos'[t])
    BY <1>1, <1>2, <1>3, <1>8, <2>1, <2>2 DEF Placed
  <2> QED
    BY <1>2, <1>3, <1>8, <2>1, <2>3, GoOn
<1> QED
  BY <1>1, <1>6, <1>7, <1>8 DEF Scan

LEMMA ScanEndStep ==
  ASSUME NEW t \in Thread, Inv(t), ScanEnd(t)
  PROVE  Inv(t)'
<1>1. /\ arenas \in Seq(Arena) /\ pc[t] = "scan" /\ call[t].tag \in Tag \ DOMAIN owned
      /\ Sound(arenas, HeldOf(owned, call[t].old)) /\ pos[t].arena \in DOMAIN arenas
      /\ Len(arenas) \in Nat /\ DOMAIN arenas = 1 .. Len(arenas)
  BY InvParts DEF Placed, ScanEnd
<1>2. UNCHANGED <<arenas, owned, call, grown, calls>> /\ grown \in [Thread -> Nat] /\ TypeOK
  BY DEF ScanEnd, Inv, TypeOK
<1>3. pc' \in [Thread -> Control] /\ pc'[t] = "enter"
  BY <1>2, GotoFacts DEF Control, ScanEnd
<1>4. PICK b \in Nat : b = pos[t].arena + 1 /\ b \in 1 .. Len(arenas) + 1
  BY <1>1
<1>5. pos' \in [Thread -> Position] /\ pos'[t].arena = b
  BY <1>2, <1>4, MoveFacts DEF ScanEnd
<1>6. Placed(arenas', owned, pc'[t], call[t], pos'[t])
  BY <1>1, <1>2, <1>3, <1>4, <1>5 DEF Placed
<1> QED
  BY <1>1, <1>2, <1>3, <1>5, <1>6, GoOn

LEMMA MergeStep ==
  ASSUME NEW t \in Thread, Inv(t), Merge(t)
  PROVE  Inv(t)'
<1>1. PICK a, i, slot : a = pos[t].arena /\ i = pos[t].at /\ slot = arenas[a].slot
  OBVIOUS
<1>2. /\ arenas \in Seq(Arena) /\ pc[t] = "merge" /\ call[t].tag \in Tag \ DOMAIN owned
      /\ Sound(arenas, HeldOf(owned, call[t].old)) /\ a \in Nat /\ i \in Nat
      /\ a \in DOMAIN arenas /\ i \in Starts(slot) \cup {SlotCount}
      /\ i # SlotCount /\ ~ slot[i].used
  BY <1>1, InvParts DEF Placed, Merge
<1>3. /\ UNCHANGED <<owned, call, grown, calls>> /\ grown \in [Thread -> Nat] /\ TypeOK
      /\ pc \in [Thread -> Control] /\ pos \in [Thread -> Position]
  BY DEF Merge, Inv, TypeOK
<1>4. i \in Starts(slot)
  BY <1>2
<1>5. Tiles(slot, Starts(slot)) /\ IsSlots(slot)
  BY <1>1, <1>2, SoundFacts
<1>6. PICK B : B = HeldOf(owned, call[t].old)
  OBVIOUS
<1>7. ASSUME Mergeable(slot, i), NEW bs, bs = WithSlots(arenas, a, Merged(slot, i))
      PROVE  /\ Successor(slot, i).length > 0
             /\ bs \in Seq(Arena) /\ Sound(bs, B) /\ DOMAIN bs = DOMAIN arenas
             /\ i \in Starts(bs[a].slot) /\ (bs[a].slot[i].used <=> slot[i].used)
  <2>1. Sound(arenas, B)
    BY <1>2, <1>6
  <2>2. /\ Successor(slot, i).length > 0
        /\ bs \in Seq(Arena) /\ Sound(bs, B) /\ DOMAIN bs = DOMAIN arenas /\ i \in Starts(bs[a].slot)
    BY <1>1, <1>2, <1>4, <1>7, <2>1, SoundMerge
  <2>3. bs[a].slot[i].used <=> slot[i].used
    BY <1>1, <1>2, <1>4, <1>7, <2>1, SoundMerge
  <2> QED
    BY <2>2, <2>3
<1>8. ASSUME Mergeable(slot, i), Successor(slot, i).length <= 0 PROVE FALSE
  <2>1. PICK bs : bs = WithSlots(arenas, a, Merged(slot, i))
    OBVIOUS
  <2>2. Successor(slot, i).length > 0
    BY <1>7, <1>8, <2>1
  <2>3. Successor(slot, i).length \in Nat
    <3>1. PICK j : j = i + slot[i].length /\ j < SlotCount /\ Successor(slot, i) = slot[j]
      BY <1>8 DEF Mergeable, Successor
    <3>2. j \in Starts(slot)
      BY <1>4, <1>5, <3>1, TileFacts
    <3> QED
      BY <1>5, <3>1, <3>2, TileFacts
  <2> QED
    BY <1>8, <2>2, <2>3
<1>9. CASE /\ Mergeable(slot, i) /\ arenas' = [arenas EXCEPT ![a].slot = Merged(slot, i)]
           /\ UNCHANGED <<pc, pos>>
  <2>1. PICK bs : bs = arenas'
    OBVIOUS
  <2>2. bs = WithSlots(arenas, a, Merged(slot, i))
    BY <1>9, <2>1 DEF WithSlots
  <2>3. /\ bs \in Seq(Arena) /\ Sound(bs, B) /\ DOMAIN bs = DOMAIN arenas
        /\ i \in Starts(bs[a].slot) /\ ~ bs[a].slot[i].used
    BY <1>2, <1>7, <1>9, <2>2
  <2>4. Placed(bs, owned, pc'[t], call[t], pos'[t])
    BY <1>1, <1>2, <1>9, <2>3 DEF Placed
  <2> QED
    BY <1>3, <1>6, <1>9, <2>1, <2>3, <2>4, GoOn
<1>10. CASE Goto(t, "scan") /\ MoveTo(t, a, i + slot[i].length) /\ UNCHANGED arenas
  <2>1. PICK n \in Nat : /\ n = slot[i].length /\ n > 0 /\ i + n <= SlotCount
                         /\ i + n < SlotCount => i + n \in Starts(slot)
    BY <1>4, <1>5, TileFacts
  <2>2. i + n \in Nat /\ i + n \in Starts(slot) \cup {SlotCount}
    <3>1. i + n \in Nat /\ (i + n < SlotCount \/ i + n = SlotCount)
      <4>1. i \in Nat /\ SlotCount \in Nat
        BY <1>2, SlotFacts
      <4> QED
        BY <2>1, <4>1
    <3> QED
      BY <2>1, <3>1
  <2>3. pos' \in [Thread -> Position] /\ pos'[t].arena = a /\ pos'[t].at = i + n
    BY <1>2, <1>3, <1>10, <2>1, <2>2, MoveFacts
  <2>4. pc' \in [Thread -> Control] /\ pc'[t] = "scan"
    BY <1>3, <1>10, GotoFacts DEF Control
  <2>5. Placed(arenas', owned, pc'[t], call[t], pos'[t])
    BY <1>1, <1>2, <1>3, <1>10, <2>2, <2>3, <2>4 DEF Placed
  <2> QED
    BY <1>2, <1>3, <1>10, <2>3, <2>4, <2>5, GoOn
<1>11. CASE slot[i].length >= RequiredSlots(call[t].size) /\ Goto(t, "take") /\ UNCHANGED <<arenas, pos>>
  <2>1. pc' \in [Thread -> Control] /\ pc'[t] = "take"
    BY <1>3, <1>11, GotoFacts DEF Control
  <2>2. RequiredSlots(call[t].size) <= slot[i].length
    <3>1. slot[i].length \in Nat /\ RequiredSlots(call[t].size) \in Nat
      BY <1>4, <1>5, TileFacts, InvParts, RequiredFacts
    <3> QED
      BY <1>11, <3>1
  <2>3. Placed(arenas', owned, pc'[t], call[t], pos'[t])
    BY <1>1, <1>2, <1>3, <1>11, <2>1, <2>2 DEF Placed
  <2> QED
    BY <1>2, <1>3, <1>11, <2>1, <2>3, GoOn
<1> QED
  BY <1>1, <1>8, <1>9, <1>10, <1>11 DEF Merge

LEMMA TakeStep ==
  ASSUME NEW t \in Thread, Inv(t), Take(t)
  PROVE  Inv(t)'
<1>1. PICK a, i, slot, c : /\ a = pos[t].arena /\ i = pos[t].at /\ slot = arenas[a].slot
                           /\ c = call[t]
  OBVIOUS
<1>2. /\ arenas \in Seq(Arena) /\ IsOwned(owned) /\ c.tag \in Tag /\ c.tag \notin DOMAIN owned
      /\ Sound(arenas, HeldOf(owned, c.old)) /\ Once(owned, c.old) /\ a \in Nat /\ i \in Nat
      /\ a \in DOMAIN arenas /\ i \in Starts(slot) \cup {SlotCount} /\ c.size \in Nat
      /\ i # SlotCount /\ ~ slot[i].used /\ RequiredSlots(c.size) <= slot[i].length
      /\ (c.old = <<>> \/ c.old \in Allocation)
  BY <1>1, InvParts DEF Placed, Take
<1>3. i \in Starts(slot) /\ Done(t) /\ UNCHANGED calls
  BY <1>2 DEF Take
<1>4. Tiles(slot, Starts(slot)) /\ IsSlots(slot) /\ i \in Slot
  BY <1>1, <1>2, <1>3, SoundFacts DEF Tiles
<1>5. PICK size, r, tag, old : size = c.size /\ r = RequiredSlots(size) /\ tag = c.tag /\ old = c.old
  OBVIOUS
<1>6. PICK rest : rest = Filled(Split(slot, i, slot[i].length, r), i, size)
  OBVIOUS
<1>7. Cut(slot, Starts(slot), i, r, rest) /\ r \in Nat /\ r <= slot[i].length
  BY <1>2, <1>3, <1>4, <1>5, <1>6, SplitFacts, RequiredFacts
<1>8. PICK as1 : as1 = [arenas EXCEPT ![a] = [cursor |-> i + r, slot |-> rest]]
  OBVIOUS
<1>9. OneChanged(arenas, a, rest, as1) /\ as1 \in Seq(Arena)
  <2>1. IsSlots(rest) /\ i + r \in Int
    BY <1>2, <1>7 DEF Cut
  <2>2. OneChanged(arenas, a, rest, as1)
    BY <1>2, <1>8, <2>1, ArenaReplaced
  <2> QED
    BY <2>2 DEF OneChanged
<1>10. PICK o : o = [arena |-> a, at |-> i, size |-> size]
  OBVIOUS
<1>11. o \in Allocation /\ o.arena = a /\ o.at = i /\ o.size = size
  <2>1. a \in Nat \ {0}
    BY <1>2, ArenaFacts
  <2> QED
    BY <1>2, <1>4, <1>5, <1>10, <2>1 DEF Allocation
<1>12. PICK B : B = HeldOf(owned, old) /\ Sound(arenas, B)
  BY <1>2, <1>5
<1>13. Sound(as1, B \cup {o}) /\ o \notin B
  <2>1. r = RequiredSlots(o.size)
    BY <1>5, <1>11
  <2> QED
    BY <1>1, <1>2, <1>3, <1>7, <1>9, <1>11, <1>12, <2>1, SoundTake
<1>14. IsOwned(owned') /\ Once(owned', <<>>) /\ HeldOf(owned', <<>>) = HeldOf(owned, <<>>) \cup {o}
  <2>1. owned' = Owning(tag, a, i, size)
    BY <1>1, <1>5 DEF Take
  <2>2. \A g \in DOMAIN owned : owned[g] # o
    BY <1>12, <1>13 DEF HeldOf
  <2>3. tag \in Tag /\ tag \notin DOMAIN owned /\ Once(owned, old)
    BY <1>2, <1>5
  <2> QED
    BY <1>2, <1>10, <1>11, <2>1, <2>2, <2>3, OwningFacts
<1>15. arenas' = IF old = <<>> THEN as1 ELSE [as1 EXCEPT ![old.arena].slot[old.at].used = FALSE]
  BY <1>1, <1>5, <1>6, <1>8 DEF Take
<1>16. CASE old = <<>>
  <2>1. HeldOf(owned', <<>>) = B \cup {o}
    BY <1>12, <1>14, <1>16
  <2> QED
    BY <1>3, <1>9, <1>13, <1>14, <1>15, <1>16, <2>1, Return
<1>17. CASE old # <<>>
  <2>1. old \in Allocation /\ old \in B
    BY <1>2, <1>5, <1>12, <1>17 DEF HeldOf
  <2>2. PICK D, C : D = B \cup {o} /\ C = D \ {old}
    OBVIOUS
  <2>3. old \in D
    BY <2>1, <2>2
  <2>4. PICK slot1, rest1 : slot1 = as1[old.arena].slot /\ rest1 = Freed(slot1, old.at)
    OBVIOUS
  <2>5. old.arena \in DOMAIN as1 /\ OnlyUnused(slot1, old.at, rest1) /\ Keeping(as1, old.arena, rest1, C)
    BY <1>9, <1>13, <2>2, <2>3, <2>4, SoundFree
  <2>6. OneChanged(as1, old.arena, rest1, arenas')
    <3>1. PICK b, k : b = old.arena /\ k = old.at
      OBVIOUS
    <3>2. arenas' = SpanFreed(as1, b, k) /\ b \in DOMAIN as1 /\ rest1 = Freed(as1[b].slot, k)
      BY <1>15, <1>17, <2>4, <2>5, <3>1 DEF SpanFreed
    <3>3. arenas' = WithSlots(as1, b, rest1)
      BY <1>9, <3>2, SpanFreedFacts
    <3>4. IsSlots(rest1)
      BY <2>5 DEF OnlyUnused
    <3>5. OneChanged(as1, b, rest1, arenas')
      BY <1>9, <3>2, <3>3, <3>4, SlotsReplaced
    <3> QED
      BY <3>1, <3>5
  <2>7. Sound(arenas', C) /\ arenas' \in Seq(Arena)
    BY <2>5, <2>6 DEF Keeping, OneChanged
  <2>8. HeldOf(owned', <<>>) = C
    <3>1. \A g \in DOMAIN owned : owned[g] # old
      BY <1>2, <1>5 DEF Once
    <3>2. o # old
      BY <1>13, <2>1
    <3>3. B = HeldOf(owned, <<>>) \cup {old} /\ old \notin HeldOf(owned, <<>>)
      BY <1>12, <1>17, <3>1 DEF HeldOf
    <3> QED
      BY <1>14, <2>2, <3>2, <3>3
  <2> QED
    BY <1>3, <1>14, <2>7, <2>8, Return
<1> QED
  BY <1>16, <1>17

LEMMA ExpandStep ==
  ASSUME NEW t \in Thread, Inv(t), Expand(t)
  PROVE  Inv(t)'
<1>1. PICK a, i, slot, c : /\ a = pos[t].arena /\ i = pos[t].at /\ slot = arenas[a].slot
                           /\ c = call[t]
  OBVIOUS
<1>2. PICK size, r, tag, old : size = c.size /\ r = RequiredSlots(size) /\ tag = c.tag /\ old = c.old
  OBVIOUS
<1>3. /\ arenas \in Seq(Arena) /\ IsOwned(owned) /\ tag \in Tag /\ tag \notin DOMAIN owned
      /\ Sound(arenas, HeldOf(owned, old)) /\ Once(owned, old) /\ size \in Nat
      /\ old \in Allocation /\ old # <<>> /\ old.arena = a /\ old.at = i /\ pc[t] = "expand"
      /\ Len(arenas) \in Nat
  BY <1>1, <1>2, InvParts DEF Placed, Expand
<1>4. /\ UNCHANGED calls /\ grown \in [Thread -> Nat] /\ TypeOK
      /\ pc \in [Thread -> Control] /\ pos \in [Thread -> Position]
  BY DEF Expand, Inv, TypeOK
<1>5. PICK B : B = HeldOf(owned, old) /\ Sound(arenas, B) /\ old \in B
  BY <1>3 DEF HeldOf
<1>6. /\ a \in DOMAIN arenas /\ a \in Nat \ {0} /\ i \in Slot /\ i \in Starts(slot)
      /\ Tiles(slot, Starts(slot)) /\ IsSlots(slot)
  <2>1. a \in DOMAIN arenas
    BY <1>3, <1>5 DEF Sound
  <2>2. /\ IsSlots(slot) /\ Kept(slot, Here(B, a)) /\ Tiles(slot, Starts(slot))
    BY <1>1, <1>3, <1>5, <2>1, SoundFacts
  <2>3. i \in Starts(slot)
    BY <1>3, <1>5, <2>2 DEF Kept, Here
  <2> QED
    BY <1>3, <2>1, <2>2, <2>3, AllocationParts
<1>7. ASSUME Mergeable(slot, i), Successor(slot, i).length <= 0 PROVE FALSE
  <2>1. PICK j : j = i + slot[i].length /\ j < SlotCount /\ Successor(slot, i) = slot[j]
    BY <1>7 DEF Mergeable, Successor
  <2>2. j \in Starts(slot)
    BY <1>6, <2>1, TileFacts
  <2>3. slot[j].length \in Nat /\ slot[j].length > 0
    BY <1>6, <2>2, TileFacts
  <2> QED
    BY <1>7, <2>1, <2>3
<1>8. CASE /\ Mergeable(slot, i) /\ arenas' = [arenas EXCEPT ![a].slot = Merged(slot, i)]
           /\ UNCHANGED <<owned, pc, call, pos, grown>>
  <2>1. PICK bs : bs = arenas'
    OBVIOUS
  <2>2. bs = WithSlots(arenas, a, Merged(slot, i))
    BY <1>8, <2>1 DEF WithSlots
  <2>3. bs \in Seq(Arena) /\ Sound(bs, B) /\ DOMAIN bs = DOMAIN arenas
    <3>1. Mergeable(slot, i) /\ slot = arenas[a].slot
      BY <1>1, <1>8
    <3>2. arenas \in Seq(Arena) /\ Sound(arenas, B) /\ a \in DOMAIN arenas /\ i \in Starts(slot)
      BY <1>3, <1>5, <1>6
    <3> QED
      BY <2>2, <3>1, <3>2, SoundMerge
  <2>4. Placed(bs, owned, pc'[t], call[t], pos'[t])
    BY <1>1, <1>2, <1>3, <1>8 DEF Placed
  <2> QED
    BY <1>1, <1>2, <1>4, <1>5, <1>8, <2>1, <2>3, <2>4, GoOn
<1>9. CASE /\ slot[i].length >= r
           /\ arenas' = [arenas EXCEPT ![a] =
                           [cursor |-> i + r,
                            slot |-> Filled(Split(slot, i, slot[i].length, r), i, size)]]
           /\ owned' = Owning(tag, a, i, size) /\ Done(t)
  <2>1. PICK rest : rest = Filled(Split(slot, i, slot[i].length, r), i, size)
    OBVIOUS
  <2>2. r \in Nat /\ r <= slot[i].length
    <3>1. r \in Nat /\ slot[i].length \in Nat
      BY <1>2, <1>3, <1>6, TileFacts, RequiredFacts
    <3> QED
      BY <1>9, <3>1
  <2>3. Cut(slot, Starts(slot), i, r, rest)
    BY <1>2, <1>3, <1>6, <2>1, <2>2, SplitFacts
  <2>4. PICK bs : bs = arenas'
    OBVIOUS
  <2>5. bs = [arenas EXCEPT ![a] = [cursor |-> i + r, slot |-> rest]]
    BY <1>9, <2>1, <2>4
  <2>6. OneChanged(arenas, a, rest, bs)
    <3>1. IsSlots(rest) /\ i + r \in Int
      BY <1>6, <2>2, <2>3, SlotFacts DEF Cut
    <3> QED
      BY <1>3, <1>6, <2>5, <3>1, ArenaReplaced
  <2>7. PICK o : o = [arena |-> a, at |-> i, size |-> size]
    OBVIOUS
  <2>8. o \in Allocation /\ o.arena = a /\ o.at = i /\ o.size = size
    BY <1>3, <1>6, <2>7 DEF Allocation
  <2>9. PICK C : C = B \ {old}
    OBVIOUS
  <2>10. Sound(bs, C \cup {o}) /\ o \notin C
    <3>1. r = RequiredSlots(o.size)
      BY <1>2, <2>8
    <3>2. Resized(arenas, old, o, rest, bs)
      BY <1>1, <1>3, <2>2, <2>3, <2>6, <2>8, <3>1 DEF Resized
    <3>3. old \in B /\ Sound(arenas, B) /\ arenas \in Seq(Arena) /\ o \in Allocation
      BY <1>3, <1>5, <2>8
    <3> QED
      BY <2>9, <3>2, <3>3, SoundResize
  <2>11. C = HeldOf(owned, <<>>)
    <3>1. \A g \in DOMAIN owned : owned[g] # old
      BY <1>3 DEF Once
    <3> QED
      BY <1>3, <1>5, <2>9, <3>1 DEF HeldOf
  <2>12. \A g \in DOMAIN owned : owned[g] # o
    BY <2>10, <2>11 DEF HeldOf
  <2>13. IsOwned(owned') /\ Once(owned', <<>>) /\ HeldOf(owned', <<>>) = HeldOf(owned, <<>>) \cup {o}
    BY <1>3, <1>9, <2>7, <2>8, <2>12, OwningFacts
  <2>14. Sound(arenas', HeldOf(owned', <<>>)) /\ arenas' \in Seq(Arena)
    BY <2>4, <2>6, <2>10, <2>11, <2>13 DEF OneChanged
  <2> QED
    BY <1>4, <1>9, <2>13, <2>14, Return
<1>10. CASE Goto(t, "enter") /\ MoveTo(t, 1, 0) /\ UNCHANGED <<arenas, owned, call, grown>>
  <2>1. pc' \in [Thread -> Control] /\ pc'[t] = "enter"
    BY <1>4, <1>10, GotoFacts DEF Control
  <2>2. pos' \in [Thread -> Position] /\ pos'[t].arena = 1
    BY <1>4, <1>10, MoveFacts
  <2>3. 1 \in 1 .. Len(arenas) + 1
    BY <1>3
  <2>4. Placed(arenas', owned, pc'[t], call[t], pos'[t])
    BY <1>1, <1>2, <1>3, <1>10, <2>1, <2>2, <2>3 DEF Placed
  <2> QED
    BY <1>1, <1>2, <1>3, <1>4, <1>10, <2>1, <2>2, <2>4, GoOn
<1>11. slot[i].length \in Nat /\ slot[i].length > 0
  BY <1>6, TileFacts
<1>12. /\ r = RequiredSlots(call[t].size) /\ tag = call[t].tag /\ size = call[t].size
       /\ a = pos[t].arena /\ i = pos[t].at /\ slot = arenas[a].slot
  BY <1>1, <1>2
<1>13. \/ /\ Mergeable(slot, i) /\ Successor(slot, i).length <= 0
       \/ /\ Mergeable(slot, i) /\ arenas' = [arenas EXCEPT ![a].slot = Merged(slot, i)]
          /\ UNCHANGED <<owned, pc, call, pos, grown>>
       \/ /\ slot[i].length >= r
          /\ arenas' = [arenas EXCEPT ![a] =
                          [cursor |-> i + r,
                           slot |-> Filled(Split(slot, i, slot[i].length, r), i, size)]]
          /\ owned' = Owning(tag, a, i, size) /\ Done(t)
       \/ Goto(t, "enter") /\ MoveTo(t, 1, 0) /\ UNCHANGED <<arenas, owned, call, grown>>
  <2>1. DEFINE aa == pos[t].arena
               ii == pos[t].at
               ss == arenas[aa].slot
               rr == RequiredSlots(call[t].size)
  <2>2. \/ ss[ii].length <= 0
        \/ Mergeable(ss, ii) /\ Successor(ss, ii).length <= 0
        \/ /\ Mergeable(ss, ii) /\ arenas' = [arenas EXCEPT ![aa].slot = Merged(ss, ii)]
           /\ UNCHANGED <<owned, pc, call, pos, grown>>
        \/ /\ ss[ii].length >= rr
           /\ arenas' = [arenas EXCEPT ![aa] =
                           [cursor |-> ii + rr,
                            slot |-> Filled(Split(ss, ii, ss[ii].length, rr), ii, call[t].size)]]
           /\ owned' = Owning(call[t].tag, aa, ii, call[t].size) /\ Done(t)
        \/ Goto(t, "enter") /\ MoveTo(t, 1, 0) /\ UNCHANGED <<arenas, owned, call, grown>>
    BY ZenonT(60) DEF Expand
  <2>3. ~(slot[i].length <= 0)
    BY <1>11
  <2>4. aa = a /\ ii = i /\ ss = slot /\ rr = r /\ call[t].tag = tag /\ call[t].size = size
    BY <1>12
  <2> HIDE DEF aa, ii, ss, rr
  <2> QED
    BY <2>2, <2>3, <2>4, ZenonT(60)
<1> QED
  BY <1>7, <1>8, <1>9, <1>10, <1>13

LEMMA StutterStep ==
  ASSUME NEW t, Inv(t), UNCHANGED vars
  PROVE  Inv(t)'
BY DEF vars, Inv, Good, TypeOK

LEMMA NextStep ==
  ASSUME NEW t, Thread = {t}, Inv(t), Cursors(t), Next
  PROVE  Inv(t)'
<1>1. t \in Thread
  OBVIOUS
<1>2. ASSUME NEW tag \in Tag, NEW size \in MallocSize, Malloc(t, tag, size) PROVE Inv(t)'
  BY <1>1, <1>2, MallocStep
<1>3. ASSUME NEW tag \in Tag, NEW size \in ReallocSize, Realloc(t, tag, size) PROVE Inv(t)'
  BY <1>1, <1>3, ReallocStep
<1>4. ASSUME NEW tag \in Tag, Free(t, tag) PROVE Inv(t)'
  BY <1>1, <1>4, FreeStep
<1>5. CASE Enter(t)
  BY <1>1, <1>5, EnterStep
<1>6. CASE Scan(t)
  BY <1>1, <1>6, ScanStep
<1>7. CASE Merge(t)
  BY <1>1, <1>7, MergeStep
<1>8. CASE ScanEnd(t)
  BY <1>1, <1>8, ScanEndStep
<1>9. CASE Take(t)
  BY <1>1, <1>9, TakeStep
<1>10. CASE Expand(t)
  BY <1>1, <1>10, ExpandStep
<1>11. CASE Finished
  BY <1>11, StutterStep DEF Finished
<1> QED
  BY <1>2, <1>3, <1>4, <1>5, <1>6, <1>7, <1>8, <1>9, <1>10, <1>11 DEF Next, Step

LEMMA InitInv ==
  ASSUME NEW t, Thread = {t}, Init
  PROVE  Inv(t)
<1>1. /\ arenas = <<>> /\ owned = <<>> /\ pc[t] = "idle" /\ call[t] = Idle
      /\ pos[t] = Nowhere /\ grown[t] = 0 /\ calls = 0
  BY DEF Init
<1>2. TypeOK
  <2>1. arenas \in Seq(Arena) /\ calls \in Nat
    BY <1>1, EmptySeq
  <2>2. IsOwned(owned)
    BY <1>1 DEF IsOwned
  <2>3. pc \in [Thread -> Control] /\ grown \in [Thread -> Nat]
    BY DEF Init, Control
  <2>4. call \in [Thread -> Call] /\ pos \in [Thread -> Position]
    BY IdleFacts DEF Init
  <2> QED
    BY <2>1, <2>2, <2>3, <2>4 DEF TypeOK
<1>3. Placed(arenas, owned, pc[t], call[t], pos[t])
  BY <1>1, IdleFacts DEF Placed
<1>4. DOMAIN owned = {} /\ DOMAIN arenas = {}
  BY <1>1
<1>5. HeldOf(owned, call[t].old) = {} /\ Once(owned, call[t].old)
  BY <1>1, <1>4, IdleFacts DEF HeldOf, Once
<1>6. Sound(arenas, HeldOf(owned, call[t].old))
  BY <1>4, <1>5 DEF Sound
<1> QED
  BY <1>2, <1>3, <1>5, <1>6 DEF Inv, Good

-----------------------------------------------------------------------------
(* What follows from the invariant. *)

LEMMA HeldFacts ==
  ASSUME NEW t, Thread = {t}
  PROVE  Held = HeldOf(owned, call[t].old)
BY DEF Held, HeldOf

LEMMA Disjoint ==
  ASSUME NEW as \in Seq(Arena), NEW B, Sound(as, B), NEW o \in B, NEW p \in B, o # p
  PROVE  Slots(o) \cap Slots(p) = {}
<1>1. PICK m, n : m = RequiredSlots(o.size) /\ n = RequiredSlots(p.size)
  OBVIOUS
<1>2. o \in Allocation /\ p \in Allocation /\ o.arena \in DOMAIN as
  BY DEF Sound
<1>3. o.at \in Nat /\ p.at \in Nat /\ m \in Nat /\ n \in Nat
  BY <1>1, <1>2, AllocationParts, SlotFacts, RequiredFacts
<1>4. CASE o.arena # p.arena
  BY <1>4 DEF Slots
<1>5. CASE o.arena = p.arena
  <2>1. PICK a, slot, U : a = o.arena /\ slot = as[a].slot /\ U = Here(B, a)
    OBVIOUS
  <2>2. /\ IsSlots(slot) /\ U \in SUBSET Allocation /\ Kept(slot, U) /\ Tiles(slot, Starts(slot))
    BY <1>2, <2>1, SoundFacts
  <2>3. o \in U /\ p \in U
    BY <1>5, <2>1 DEF Here
  <2>4. PICK i, j, x, y : i = o.at /\ j = p.at /\ x = slot[i].length /\ y = slot[j].length
    OBVIOUS
  <2>5. i \in Starts(slot) /\ j \in Starts(slot) /\ m <= x /\ n <= y /\ i # j /\ x \in Nat /\ y \in Nat
    <3>1. i # j
      BY <2>2, <2>3, <2>4 DEF Kept
    <3> QED
      BY <1>1, <2>2, <2>3, <2>4, <3>1, KeptFacts
  <2>6. (i < j => i + x <= j) /\ (j < i => j + y <= i)
    BY <2>2, <2>4, <2>5, TileFacts
  <2>7. i .. i + m - 1 \cap j .. j + n - 1 = {}
    <3>1. i \in Nat /\ j \in Nat
      BY <1>3, <2>4
    <3> QED
      BY <1>3, <2>5, <2>6, <3>1
  <2>8. Slots(o) = {<<a, k>> : k \in i .. i + m - 1} /\ Slots(p) = {<<a, k>> : k \in j .. j + n - 1}
    BY <1>1, <1>5, <2>1, <2>4 DEF Slots
  <2> QED
    BY <2>7, <2>8
<1> QED
  BY <1>4, <1>5

LEMMA Inside ==
  ASSUME NEW as \in Seq(Arena), NEW B, Sound(as, B), NEW o \in B, NEW s \in Slots(o)
  PROVE  s[2] \in Slot
<1>1. PICK a, slot, U : a = o.arena /\ slot = as[a].slot /\ U = Here(B, a)
  OBVIOUS
<1>2. a \in DOMAIN as /\ o \in U
  BY <1>1 DEF Sound, Here
<1>3. /\ IsSlots(slot) /\ U \in SUBSET Allocation /\ Kept(slot, U) /\ Tiles(slot, Starts(slot))
  BY <1>1, <1>2, SoundFacts
<1>4. PICK i, m, x : i = o.at /\ m = RequiredSlots(o.size) /\ x = slot[i].length
  OBVIOUS
<1>5. i \in Starts(slot) /\ m \in Nat /\ x \in Nat /\ m <= x
  BY <1>2, <1>3, <1>4, KeptFacts
<1>6. i \in Nat /\ i + x <= SlotCount
  BY <1>3, <1>4, <1>5, TileFacts
<1>7. PICK k \in i .. i + m - 1 : s = <<o.arena, k>>
  BY <1>4 DEF Slots
<1>8. k \in 0 .. SlotCount - 1
  BY <1>5, <1>6, SlotFacts
<1> QED
  BY <1>7, <1>8 DEF Slot

LEMMA InvNoOverlap ==
  ASSUME NEW t, Thread = {t}, Inv(t)
  PROVE  NoOverlap
<1>1. PICK B : B = Held /\ B = HeldOf(owned, call[t].old)
  BY HeldFacts
<1>2. arenas \in Seq(Arena) /\ Sound(arenas, B) /\ Once(owned, call[t].old)
  BY <1>1, InvParts
<1>3. ASSUME NEW g \in DOMAIN owned, NEW h \in DOMAIN owned, g # h
      PROVE  Slots(owned[g]) \cap Slots(owned[h]) = {}
  <2>1. PICK o, p : o = owned[g] /\ p = owned[h]
    OBVIOUS
  <2>2. o \in B /\ p \in B /\ o # p
    BY <1>1, <1>2, <1>3, <2>1 DEF HeldOf, Once
  <2>3. Slots(o) \cap Slots(p) = {}
    BY <1>2, <2>2, Disjoint
  <2> QED
    BY <2>1, <2>3
<1>4. ASSUME NEW o \in Held, NEW p \in Held, o # p PROVE Slots(o) \cap Slots(p) = {}
  BY <1>1, <1>2, <1>4, Disjoint
<1>5. ASSUME NEW o \in Held, NEW s \in Slots(o) PROVE s[2] \in Slot
  BY <1>1, <1>2, Inside
<1> QED
  BY <1>3, <1>4, <1>5 DEF NoOverlap

LEMMA InvSpansTile ==
  ASSUME NEW t, Thread = {t}, Inv(t), Cursors(t)
  PROVE  SpansTile
<1> SUFFICES ASSUME pc[t] = "idle" PROVE SpansTile
  BY DEF SpansTile
<1>1. PICK B : B = Held /\ B = HeldOf(owned, call[t].old)
  BY HeldFacts
<1>2. arenas \in Seq(Arena) /\ Sound(arenas, B)
  BY <1>1, InvParts
<1>3. ASSUME NEW a \in DOMAIN arenas, NEW slot, slot = arenas[a].slot, NEW U, U = Here(B, a)
      PROVE  /\ Starts(slot) \in SUBSET Slot /\ slot_allocator_check_integrity(slot, Starts(slot))
             /\ {i \in Starts(slot) : slot[i].used} = {o.at : o \in U}
             /\ \A o \in U : slot[o.at].length >= RequiredSlots(o.size)
  <2>1. IsSlots(slot) /\ U \in SUBSET Allocation /\ Kept(slot, U)
    BY <1>2, <1>3, SoundFacts
  <2>2. \A o \in U : slot[o.at].length >= RequiredSlots(o.size)
    BY <2>1, KeptFacts
  <2>3. {i \in Starts(slot) : slot[i].used} = {o.at : o \in U}
    BY <2>1 DEF Kept
  <2> QED
    BY <2>1, <2>2, <2>3 DEF Kept
<1>4. ASSUME NEW a \in DOMAIN arenas
      PROVE  \E S \in SUBSET Slot :
               /\ slot_allocator_check_integrity(arenas[a].slot, S)
               /\ arenas[a].cursor \in S \cup {SlotCount}
               /\ {i \in S : arenas[a].slot[i].used} = {o.at : o \in {p \in Held : p.arena = a}}
               /\ \A o \in {p \in Held : p.arena = a} :
                    arenas[a].slot[o.at].length >= RequiredSlots(o.size)
  <2>1. PICK slot, U : slot = arenas[a].slot /\ U = Here(B, a)
    OBVIOUS
  <2>2. U = {p \in Held : p.arena = a}
    BY <1>1, <2>1 DEF Here
  <2>3. PICK S : S = Starts(slot)
    OBVIOUS
  <2>4. /\ S \in SUBSET Slot /\ slot_allocator_check_integrity(slot, S)
        /\ {i \in S : slot[i].used} = {o.at : o \in U}
        /\ \A o \in U : slot[o.at].length >= RequiredSlots(o.size)
    BY <1>3, <2>1, <2>3
  <2>5. arenas[a].cursor \in S \cup {SlotCount}
    BY <2>1, <2>3 DEF Cursors, OnSpan
  <2> QED
    BY <2>1, <2>2, <2>4, <2>5
<1> QED
  BY <1>4 DEF SpansTile

-----------------------------------------------------------------------------
(* The cursors. *)

LEMMA MakeCursors ==
  ASSUME NEW t, \A b \in DOMAIN arenas' : OnSpan(arenas'[b]),
         pc'[t] \in {"scan", "merge", "take"} => arenas'[pos'[t].arena].cursor <= pos'[t].at
  PROVE  Cursors(t)'
BY DEF Cursors, OnSpan

\* What a step finds, unless it expands a span.
LEMMA AllOnSpan ==
  ASSUME NEW t, Cursors(t), pc[t] # "expand"
  PROVE  \A b \in DOMAIN arenas : OnSpan(arenas[b])
BY DEF Cursors

\* The cursor of the arena that changes is on a span.
LEMMA OneOnSpan ==
  ASSUME NEW as, NEW a, NEW slot, NEW bs, OneChanged(as, a, slot, bs),
         \A b \in DOMAIN as : b # a => OnSpan(as[b]), bs[a].cursor \in Starts(slot) \cup {SlotCount}
  PROVE  \A b \in DOMAIN bs : OnSpan(bs[b])
BY DEF OneChanged, OnSpan

LEMMA CursorsBegin ==
  ASSUME NEW t \in Thread, Inv(t), Cursors(t), NEW tag \in Tag,
         \/ \E size \in MallocSize : Malloc(t, tag, size)
         \/ \E size \in ReallocSize : Realloc(t, tag, size)
  PROVE  Cursors(t)'
<1>1. pc[t] = "idle" /\ UNCHANGED arenas /\ (Goto(t, "enter") \/ Goto(t, "expand")) /\ TypeOK
  BY DEF Malloc, Realloc, Inv
<1>2. pc'[t] \in {"enter", "expand"}
  BY <1>1, GotoFacts DEF Control
<1>3. \A b \in DOMAIN arenas' : OnSpan(arenas'[b])
  BY <1>1, AllOnSpan
<1> QED
  BY <1>2, <1>3, MakeCursors

LEMMA CursorsFree ==
  ASSUME NEW t \in Thread, Inv(t), Cursors(t), NEW tag \in Tag, Free(t, tag)
  PROVE  Cursors(t)'
<1>1. pc[t] = "idle" /\ tag \in DOMAIN owned /\ UNCHANGED pc
  BY DEF Free
<1>2. PICK B : B = HeldOf(owned, call[t].old) /\ Sound(arenas, B) /\ arenas \in Seq(Arena)
  BY InvParts
<1>3. PICK o \in B : o = owned[tag]
  BY <1>1, <1>2 DEF HeldOf
<1>4. PICK slot, rest, C : slot = arenas[o.arena].slot /\ rest = Freed(slot, o.at) /\ C = B \ {o}
  OBVIOUS
<1>5. o.arena \in DOMAIN arenas /\ OnlyUnused(slot, o.at, rest)
  BY <1>2, <1>4, SoundFree
<1>6. PICK a, i : a = o.arena /\ i = o.at
  OBVIOUS
<1>7. /\ IsSlots(rest) /\ i \in Slot /\ a \in DOMAIN arenas /\ rest = Freed(arenas[a].slot, i)
      /\ Starts(rest) = Starts(slot) /\ i \in Starts(slot)
  BY <1>4, <1>5, <1>6 DEF OnlyUnused
<1>8. arenas' = SpanFreedFirst(arenas, a, i)
  BY <1>3, <1>6 DEF Free, SpanFreedFirst
<1>9. OneChanged(arenas, a, rest, arenas') /\ arenas'[a].cursor \in {i, arenas[a].cursor}
  BY <1>2, <1>7, <1>8, SpanFreedFirstFacts
<1>10. \A b \in DOMAIN arenas : OnSpan(arenas[b])
  BY <1>1, AllOnSpan
<1>11. arenas'[a].cursor \in Starts(rest) \cup {SlotCount}
  BY <1>4, <1>6, <1>7, <1>9, <1>10 DEF OnSpan
<1>12. \A b \in DOMAIN arenas' : OnSpan(arenas'[b])
  BY <1>9, <1>10, <1>11, OneOnSpan
<1> QED
  BY <1>1, <1>12, MakeCursors

LEMMA CursorsEnter ==
  ASSUME NEW t \in Thread, Inv(t), Cursors(t), Enter(t)
  PROVE  Cursors(t)'
<1>1. PICK a : a = pos[t].arena
  OBVIOUS
<1>2. /\ a \in 1 .. Len(arenas) + 1 /\ Len(arenas) \in Nat /\ DOMAIN arenas = 1 .. Len(arenas)
      /\ arenas \in Seq(Arena) /\ pc[t] = "enter" /\ a \in Nat /\ TypeOK
  BY <1>1, InvParts DEF Placed, Enter, Inv
<1>3. \A b \in DOMAIN arenas : OnSpan(arenas[b])
  BY <1>2, AllOnSpan
<1>4. CASE /\ a <= Len(arenas) /\ Goto(t, "scan") /\ MoveTo(t, a, arenas[a].cursor)
           /\ UNCHANGED <<arenas, owned, call, grown>>
  <2>1. PICK k : k = arenas[a].cursor /\ a \in DOMAIN arenas /\ k \in Int
    BY <1>2, <1>4, ArenaFacts
  <2>2. pos'[t] = [arena |-> a, at |-> k]
    BY <1>2, <1>4, <2>1 DEF MoveTo, TypeOK
  <2>3. arenas'[pos'[t].arena].cursor <= pos'[t].at
    BY <1>4, <2>1, <2>2
  <2> QED
    BY <1>3, <1>4, <2>3, MakeCursors
<1>5. CASE /\ a > Len(arenas) /\ arenas' = Append(arenas, Fresh) /\ Goto(t, "scan") /\ MoveTo(t, a, 0)
  <2>1. Longer(arenas, Fresh, arenas') /\ a = Len(arenas) + 1
    BY <1>2, <1>5, FreshFacts, ArenaAdded
  <2>2. DOMAIN arenas' = 1 .. Len(arenas) + 1 /\ arenas'[a] = Fresh
    BY <2>1, LenProperties DEF Longer
  <2>3. ASSUME NEW b \in DOMAIN arenas' PROVE OnSpan(arenas'[b])
    <3>1. CASE b = a
      BY <2>2, <3>1, FreshFacts DEF OnSpan
    <3>2. CASE b # a
      <4>1. b \in 1 .. Len(arenas)
        BY <1>2, <2>1, <2>2, <2>3, <3>2
      <4> QED
        BY <1>2, <1>3, <2>1, <4>1 DEF Longer
    <3> QED
      BY <3>1, <3>2
  <2>4. pos'[t].arena = a /\ pos'[t].at = 0
    BY <1>2, <1>5, MoveFacts
  <2>5. arenas'[pos'[t].arena].cursor <= pos'[t].at
    BY <2>2, <2>4, FreshFacts
  <2> QED
    BY <2>3, <2>5, MakeCursors
<1>6. CASE Done(t) /\ UNCHANGED arenas
  <2>1. pc'[t] = "idle"
    BY <1>2, <1>6, DoneFacts
  <2> QED
    BY <1>3, <1>6, <2>1, MakeCursors
<1> QED
  BY <1>1, <1>4, <1>5, <1>6 DEF Enter

\* A search goes on behind the span at i.
LEMMA CursorsPassed ==
  ASSUME NEW t \in Thread, TypeOK, UNCHANGED arenas, \A b \in DOMAIN arenas : OnSpan(arenas[b]),
         NEW a \in Nat, NEW i \in Nat, NEW n \in Nat, MoveTo(t, a, i + n), arenas[a].cursor \in Int,
         arenas[a].cursor <= i
  PROVE  Cursors(t)'
<1>1. pos'[t].arena = a /\ pos'[t].at = i + n
  BY MoveFacts
<1>2. arenas'[pos'[t].arena].cursor <= pos'[t].at
  BY <1>1
<1> QED
  BY <1>2, MakeCursors

LEMMA CursorsSearch ==
  ASSUME NEW t \in Thread, Inv(t), Cursors(t), Scan(t) \/ ScanEnd(t) \/ Merge(t)
  PROVE  Cursors(t)'
<1>1. PICK a, i, slot : a = pos[t].arena /\ i = pos[t].at /\ slot = arenas[a].slot
  OBVIOUS
<1>2. /\ arenas \in Seq(Arena) /\ pc[t] \in {"scan", "merge"} /\ a \in Nat /\ i \in Nat
      /\ a \in DOMAIN arenas /\ i \in Starts(slot) \cup {SlotCount} /\ TypeOK
  BY <1>1, InvParts DEF Placed, Scan, ScanEnd, Merge, Inv
<1>3. \A b \in DOMAIN arenas : OnSpan(arenas[b])
  BY <1>2, AllOnSpan
<1>4. arenas[a].cursor \in Int /\ arenas[a].cursor <= i
  BY <1>1, <1>2, ArenaFacts DEF Cursors
<1>5. PICK B : B = HeldOf(owned, call[t].old) /\ Sound(arenas, B)
  BY InvParts
<1>6. Tiles(slot, Starts(slot)) /\ IsSlots(slot)
  BY <1>1, <1>2, <1>5, SoundFacts
<1>7. CASE UNCHANGED <<arenas, pos>>
  BY <1>1, <1>3, <1>4, <1>7, MakeCursors
<1>8. CASE ScanEnd(t)
  <2>1. pc'[t] = "enter" /\ UNCHANGED arenas
    BY <1>2, <1>8, GotoFacts DEF ScanEnd, Control
  <2> QED
    BY <1>3, <2>1, MakeCursors
<1>9. CASE i \in Starts(slot) /\ UNCHANGED arenas /\ MoveTo(t, a, i + slot[i].length)
  <2>1. PICK n \in Nat : n = slot[i].length
    BY <1>6, <1>9, TileFacts
  <2> QED
    BY <1>2, <1>3, <1>4, <1>9, <2>1, CursorsPassed
<1>10. CASE /\ i \in Starts(slot) /\ Mergeable(slot, i) /\ UNCHANGED pos
            /\ arenas' = [arenas EXCEPT ![a].slot = Merged(slot, i)]
  <2>1. Swallowed(arenas, a, i, arenas')
    <3>1. PICK bs : bs = WithSlots(arenas, a, Merged(slot, i)) /\ bs = arenas'
      BY <1>10 DEF WithSlots
    <3>2. Swallowed(arenas, a, i, bs)
      BY <1>1, <1>2, <1>5, <1>10, <3>1, MergeSwallows
    <3> QED
      BY <3>1, <3>2
  <2>2. PICK n \in Nat : n = slot[i].length /\ n > 0
    BY <1>6, <1>10, TileFacts
  <2>3. /\ Starts(arenas'[a].slot) = Starts(slot) \ {i + n} /\ arenas'[a].cursor = arenas[a].cursor
        /\ DOMAIN arenas' = DOMAIN arenas /\ \A b \in DOMAIN arenas : b # a => arenas'[b] = arenas[b]
    BY <1>1, <2>1, <2>2 DEF Swallowed
  <2>4. arenas[a].cursor \in Starts(slot) \cup {SlotCount} /\ arenas[a].cursor # i + n
    <3>1. arenas[a].cursor # i + n
      BY <1>2, <1>4, <2>2
    <3> QED
      BY <1>1, <1>2, <1>3, <3>1 DEF OnSpan
  <2>5. \A b \in DOMAIN arenas' : OnSpan(arenas'[b])
    BY <1>3, <2>3, <2>4 DEF OnSpan
  <2>6. arenas'[pos'[t].arena].cursor <= pos'[t].at
    BY <1>1, <1>4, <1>10, <2>3
  <2> QED
    BY <2>5, <2>6, MakeCursors
<1>11. CASE Scan(t)
  <2>1. i < SlotCount /\ UNCHANGED arenas /\ (UNCHANGED pos \/ MoveTo(t, a, i + slot[i].length))
    BY <1>1, <1>11 DEF Scan
  <2>2. i \in Starts(slot)
    BY <1>2, <2>1, SlotFacts
  <2> QED
    BY <1>7, <1>9, <2>1, <2>2
<1>12. CASE Merge(t)
  <2>1. i \in Starts(slot)
    BY <1>1, <1>2, <1>12, InvParts DEF Merge, Placed
  <2>2. \/ UNCHANGED <<arenas, pos>>
        \/ /\ Mergeable(slot, i) /\ UNCHANGED pos
           /\ arenas' = [arenas EXCEPT ![a].slot = Merged(slot, i)]
        \/ UNCHANGED arenas /\ MoveTo(t, a, i + slot[i].length)
    BY <1>1, <1>12 DEF Merge
  <2> QED
    BY <1>7, <1>9, <1>10, <2>1, <2>2
<1> QED
  BY <1>8, <1>11, <1>12

LEMMA CursorsTake ==
  ASSUME NEW t \in Thread, Inv(t), Cursors(t), Take(t)
  PROVE  Cursors(t)'
<1>1. PICK a, i, slot, size, r, old :
        /\ a = pos[t].arena /\ i = pos[t].at /\ slot = arenas[a].slot
        /\ size = call[t].size /\ r = RequiredSlots(size) /\ old = call[t].old
  OBVIOUS
<1>2. PICK B : B = HeldOf(owned, old) /\ Sound(arenas, B)
  BY <1>1, InvParts
<1>3. /\ arenas \in Seq(Arena) /\ pc[t] = "take" /\ TypeOK /\ a \in DOMAIN arenas
      /\ i \in Starts(slot) /\ size \in Nat /\ i \in Nat /\ r <= slot[i].length /\ ~ slot[i].used
      /\ (old = <<>> \/ old \in Allocation)
  BY <1>1, InvParts DEF Placed, Take, Inv
<1>4. Tiles(slot, Starts(slot)) /\ IsSlots(slot) /\ r \in Nat \ {0} /\ i \in Slot
  BY <1>1, <1>2, <1>3, SoundFacts, RequiredFacts DEF Tiles
<1>5. PICK rest : rest = Filled(Split(slot, i, slot[i].length, r), i, size)
  OBVIOUS
<1>6. Cut(slot, Starts(slot), i, r, rest) /\ IsSlots(rest)
  <2>1. Cut(slot, Starts(slot), i, r, rest)
    BY <1>1, <1>3, <1>4, <1>5, SplitFacts
  <2> QED
    BY <2>1 DEF Cut
<1>7. i + r \in Starts(rest) \cup {SlotCount}
  BY <1>3, <1>4, <1>6, CutEnd
<1>8. PICK as1 : as1 = [arenas EXCEPT ![a] = [cursor |-> i + r, slot |-> rest]]
  OBVIOUS
<1>9. OneChanged(arenas, a, rest, as1) /\ as1[a].cursor = i + r
  <2>1. i + r \in Int
    BY <1>3, <1>4
  <2> QED
    BY <1>3, <1>6, <1>8, <2>1, ArenaReplaced
<1>10. \A b \in DOMAIN arenas : OnSpan(arenas[b])
  BY <1>3, AllOnSpan
<1>11. \A b \in DOMAIN as1 : OnSpan(as1[b])
  BY <1>7, <1>9, <1>10, OneOnSpan
<1>12. arenas' = IF old = <<>> THEN as1 ELSE [as1 EXCEPT ![old.arena].slot[old.at].used = FALSE]
  BY <1>1, <1>5, <1>8 DEF Take
<1>13. pc'[t] = "idle"
  BY <1>3, DoneFacts DEF Take
<1>14. CASE old = <<>>
  BY <1>11, <1>12, <1>13, <1>14, MakeCursors
<1>15. CASE old # <<>>
  <2>1. PICK o : o = [arena |-> a, at |-> i, size |-> size]
    OBVIOUS
  <2>2. o \in Allocation /\ o.arena = a /\ o.at = i /\ o.size = size
    BY <1>3, <1>4, <2>1, ArenaFacts DEF Allocation
  <2>3. PICK D, C : D = B \cup {o} /\ C = D \ {old}
    OBVIOUS
  <2>4. Sound(as1, D) /\ old \in D /\ as1 \in Seq(Arena)
    <3>1. r = RequiredSlots(o.size)
      BY <1>1, <2>2
    <3>2. Sound(as1, B \cup {o})
      BY <1>1, <1>2, <1>3, <1>6, <1>9, <2>2, <3>1, SoundTake
    <3>3. old \in D
      BY <1>2, <1>15, <2>3 DEF HeldOf
    <3> QED
      BY <1>9, <2>3, <3>2, <3>3 DEF OneChanged
  <2>5. PICK slot1, rest1 : slot1 = as1[old.arena].slot /\ rest1 = Freed(slot1, old.at)
    OBVIOUS
  <2>6. old.arena \in DOMAIN as1 /\ OnlyUnused(slot1, old.at, rest1)
    BY <2>3, <2>4, <2>5, SoundFree
  <2>7. PICK b, k : b = old.arena /\ k = old.at
    OBVIOUS
  <2>8. /\ IsSlots(rest1) /\ Starts(rest1) = Starts(slot1) /\ b \in DOMAIN as1
        /\ rest1 = Freed(as1[b].slot, k) /\ slot1 = as1[b].slot
    BY <2>5, <2>6, <2>7 DEF OnlyUnused
  <2>9. arenas' = WithSlots(as1, b, rest1)
    <3>1. arenas' = SpanFreed(as1, b, k)
      BY <1>12, <1>15, <2>7 DEF SpanFreed
    <3> QED
      BY <2>4, <2>8, <3>1, SpanFreedFacts
  <2>10. OneChanged(as1, b, rest1, arenas') /\ arenas'[b].cursor = as1[b].cursor
    BY <2>4, <2>8, <2>9, SlotsReplaced
  <2>11. arenas'[b].cursor \in Starts(rest1) \cup {SlotCount}
    BY <1>11, <2>8, <2>10 DEF OnSpan
  <2>12. \A d \in DOMAIN arenas' : OnSpan(arenas'[d])
    BY <1>11, <2>10, <2>11, OneOnSpan
  <2> QED
    BY <1>13, <2>12, MakeCursors
<1> QED
  BY <1>14, <1>15

LEMMA CursorsExpand ==
  ASSUME NEW t \in Thread, Inv(t), Cursors(t), Expand(t), ~ adrift'
  PROVE  Cursors(t)'
<1>1. PICK a, i, slot, size, r, old :
        /\ a = pos[t].arena /\ i = pos[t].at /\ slot = arenas[a].slot
        /\ size = call[t].size /\ r = RequiredSlots(size) /\ old = call[t].old
  OBVIOUS
<1>2. PICK B : B = HeldOf(owned, old) /\ Sound(arenas, B)
  BY <1>1, InvParts
<1>3. /\ arenas \in Seq(Arena) /\ pc[t] = "expand" /\ TypeOK /\ size \in Nat
      /\ old \in Allocation /\ old # <<>> /\ old.arena = a /\ old.at = i
  BY <1>1, InvParts DEF Placed, Expand, Inv
<1>4. /\ a \in DOMAIN arenas /\ i \in Starts(slot) /\ i \in Nat
      /\ Tiles(slot, Starts(slot)) /\ IsSlots(slot) /\ arenas[a].cursor \in Int
  <2>1. old \in B
    BY <1>2, <1>3 DEF HeldOf
  <2>2. a \in DOMAIN arenas
    BY <1>2, <1>3, <2>1 DEF Sound
  <2>3. IsSlots(slot) /\ Kept(slot, Here(B, a)) /\ Tiles(slot, Starts(slot))
    BY <1>1, <1>2, <1>3, <2>2, SoundFacts
  <2>4. i \in Starts(slot)
    BY <1>3, <2>1, <2>3 DEF Kept, Here
  <2> QED
    BY <1>3, <2>2, <2>3, <2>4, SlotFacts, ArenaFacts DEF Tiles
<1>5. PICK n \in Nat : n = slot[i].length /\ n > 0
  BY <1>4, TileFacts
<1>6. /\ \A b \in DOMAIN arenas : b # a => OnSpan(arenas[b])
      /\ OnSpan(arenas[a]) \/ CursorInside(arenas[a], i)
  BY <1>1, <1>4 DEF Cursors
<1>7. CASE Goto(t, "wild") /\ UNCHANGED arenas
  <2>1. FALSE
    <3>1. pc'[t] = "wild"
      BY <1>3, <1>7 DEF Goto, TypeOK
    <3>2. Inv(t)'
      BY ExpandStep
    <3> QED
      BY <3>1, <3>2 DEF Inv, TypeOK, Control
  <2> QED
    BY <2>1
<1>8. CASE /\ Mergeable(slot, i) /\ arenas' = [arenas EXCEPT ![a].slot = Merged(slot, i)]
           /\ UNCHANGED <<pc, pos>>
  <2>1. Swallowed(arenas, a, i, arenas')
    <3>1. PICK bs : bs = WithSlots(arenas, a, Merged(slot, i)) /\ bs = arenas'
      BY <1>8 DEF WithSlots
    <3>2. Swallowed(arenas, a, i, bs)
      BY <1>1, <1>2, <1>3, <1>4, <1>8, <3>1, MergeSwallows
    <3> QED
      BY <3>1, <3>2
  <2>2. PICK m \in Nat : m = arenas'[a].slot[i].length /\ n < m
    BY <1>1, <1>5, <2>1 DEF Swallowed
  <2>3. /\ Starts(arenas'[a].slot) = Starts(slot) \ {i + n} /\ arenas'[a].cursor = arenas[a].cursor
        /\ DOMAIN arenas' = DOMAIN arenas /\ \A b \in DOMAIN arenas : b # a => arenas'[b] = arenas[b]
    BY <1>1, <1>5, <2>1 DEF Swallowed
  <2>4. OnSpan(arenas'[a]) \/ CursorInside(arenas'[a], i)
    <3>1. PICK k \in Int : k = arenas[a].cursor
      BY <1>4
    <3>2. CASE k = i + n \/ (i < k /\ k < i + n)
      <4>1. i < k /\ k < i + m
        BY <1>4, <1>5, <2>2, <3>2
      <4> QED
        BY <2>2, <2>3, <3>1, <4>1 DEF CursorInside
    <3>3. CASE k # i + n /\ k \in Starts(slot) \cup {SlotCount}
      BY <2>3, <3>1, <3>3 DEF OnSpan
    <3> QED
      BY <1>1, <1>5, <1>6, <3>1, <3>2, <3>3 DEF OnSpan, CursorInside
  <2>5. \A b \in DOMAIN arenas' : b # a => OnSpan(arenas'[b])
    BY <1>6, <2>3
  <2>6. pc'[t] = "expand" /\ pos'[t].arena = a /\ pos'[t].at = i
    BY <1>1, <1>3, <1>8
  <2> QED
    BY <2>4, <2>5, <2>6 DEF Cursors
<1>9. CASE /\ slot[i].length >= r /\ Done(t)
           /\ arenas' = [arenas EXCEPT ![a] =
                           [cursor |-> i + r,
                            slot |-> Filled(Split(slot, i, slot[i].length, r), i, size)]]
  <2>1. PICK rest : rest = Filled(Split(slot, i, slot[i].length, r), i, size)
    OBVIOUS
  <2>2. r \in Nat \ {0} /\ r <= slot[i].length
    <3>1. r \in Nat \ {0}
      BY <1>1, <1>3, RequiredFacts
    <3> QED
      BY <1>5, <1>9, <3>1
  <2>3. Cut(slot, Starts(slot), i, r, rest) /\ IsSlots(rest)
    <3>1. Cut(slot, Starts(slot), i, r, rest)
      BY <1>1, <1>3, <1>4, <2>1, <2>2, SplitFacts
    <3> QED
      BY <3>1 DEF Cut
  <2>4. i + r \in Starts(rest) \cup {SlotCount}
    BY <1>4, <2>2, <2>3, CutEnd
  <2>5. OneChanged(arenas, a, rest, arenas') /\ arenas'[a].cursor = i + r
    <3>1. i + r \in Int /\ arenas' = [arenas EXCEPT ![a] = [cursor |-> i + r, slot |-> rest]]
      BY <1>4, <1>9, <2>1, <2>2
    <3> QED
      BY <1>3, <1>4, <2>3, <3>1, ArenaReplaced
  <2>6. \A b \in DOMAIN arenas' : OnSpan(arenas'[b])
    BY <1>6, <2>4, <2>5, OneOnSpan
  <2>7. pc'[t] = "idle"
    BY <1>3, <1>9, DoneFacts
  <2> QED
    BY <2>6, <2>7, MakeCursors
<1>10. CASE /\ Goto(t, "enter") /\ UNCHANGED arenas
            /\ adrift' = (adrift \/ CursorInside(arenas[a], i))
  <2>1. pc'[t] = "enter"
    BY <1>3, <1>10, GotoFacts DEF Control
  <2>2. \A b \in DOMAIN arenas' : OnSpan(arenas'[b])
    BY <1>6, <1>10
  <2> QED
    BY <2>1, <2>2, MakeCursors
<1> QED
  BY <1>1, <1>7, <1>8, <1>9, <1>10 DEF Expand

LEMMA NextCursors ==
  ASSUME NEW t, Thread = {t}, Inv(t), Cursors(t), Next, ~ adrift'
  PROVE  Cursors(t)'
<1>1. t \in Thread
  OBVIOUS
<1>2. ASSUME NEW tag \in Tag,
             \/ \E size \in MallocSize : Malloc(t, tag, size)
             \/ \E size \in ReallocSize : Realloc(t, tag, size)
      PROVE  Cursors(t)'
  BY <1>1, <1>2, CursorsBegin
<1>3. ASSUME NEW tag \in Tag, Free(t, tag) PROVE Cursors(t)'
  BY <1>1, <1>3, CursorsFree
<1>4. CASE Enter(t)
  BY <1>1, <1>4, CursorsEnter
<1>5. CASE Scan(t) \/ ScanEnd(t) \/ Merge(t)
  BY <1>1, <1>5, CursorsSearch
<1>6. CASE Take(t)
  BY <1>1, <1>6, CursorsTake
<1>7. CASE Expand(t)
  BY <1>1, <1>7, CursorsExpand
<1>8. CASE Finished
  BY <1>8 DEF Finished, vars, Cursors
<1> QED
  BY <1>2, <1>3, <1>4, <1>5, <1>6, <1>7, <1>8 DEF Next, Step

-----------------------------------------------------------------------------
(* A call takes one new arena at most. *)

\* An arena has room for what the call of t asks for.
Fits(t) == RequiredSlots(call[t].size) <= SlotCount

\* What a step finds of Grown.
LEMMA NothingGrown ==
  ASSUME NEW t \in Thread, Grown(t), pc[t] \in {"idle", "enter", "expand"}, pc[t] = "enter" => Fits(t)
  PROVE  grown[t] = 0
BY DEF Grown, Fits

LEMMA MakeUngrown ==
  ASSUME NEW t, grown'[t] = 0
  PROVE  Grown(t)'
BY DEF Grown

\* A call that is too large for an arena, in the middle of its search.
LEMMA MakeTooLarge ==
  ASSUME NEW t, ~ Fits(t), UNCHANGED call, pc'[t] \notin {"idle", "expand"}
  PROVE  Grown(t)'
BY DEF Grown, Fits

\* The search has come to the only span of a new arena.
LEMMA OnlySpan ==
  ASSUME NEW t \in Thread, Inv(t), Grown(t), Fits(t), grown[t] # 0
  PROVE  /\ pc[t] \in {"scan", "merge", "take"} /\ pos[t].at = 0
         /\ ~ Mergeable(arenas[pos[t].arena].slot, 0)
         /\ arenas[pos[t].arena].slot[0].length = SlotCount
         /\ ~ arenas[pos[t].arena].slot[0].used
<1>1. PICK slot : slot = arenas[pos[t].arena].slot
  OBVIOUS
<1>2. pc[t] \in {"scan", "merge", "take"} /\ pos[t].at = 0 /\ slot[0] = Header(SlotCount, FALSE)
  BY <1>1 DEF Grown, Fits
<1>3. slot[0].length = SlotCount /\ ~ slot[0].used
  BY <1>2 DEF Header
<1>4. ~ Mergeable(slot, 0)
  BY <1>3, SlotFacts DEF Mergeable
<1> QED
  BY <1>1, <1>2, <1>3, <1>4

\* A step that ends the call.
LEMMA UngrownDone ==
  ASSUME NEW t \in Thread, Inv(t), Done(t)
  PROVE  Grown(t)'
<1>1. grown'[t] = 0
  BY DoneFacts DEF Inv
<1> QED
  BY <1>1, MakeUngrown

LEMMA GrownBegin ==
  ASSUME NEW t \in Thread, Grown(t), NEW tag \in Tag,
         \/ \E size \in MallocSize : Malloc(t, tag, size)
         \/ \E size \in ReallocSize : Realloc(t, tag, size)
         \/ Free(t, tag)
  PROVE  Grown(t)'
<1>1. pc[t] = "idle" /\ UNCHANGED grown
  BY DEF Malloc, Realloc, Free
<1>2. grown'[t] = 0
  BY <1>1, NothingGrown
<1> QED
  BY <1>2, MakeUngrown

LEMMA GrownEnter ==
  ASSUME NEW t \in Thread, Inv(t), Grown(t), Enter(t)
  PROVE  Grown(t)'
<1>1. PICK a : a = pos[t].arena
  OBVIOUS
<1>2. pc[t] = "enter"
  BY DEF Enter
<1>3. /\ a \in 1 .. Len(arenas) + 1 /\ Len(arenas) \in Nat /\ a \in Nat /\ arenas \in Seq(Arena)
      /\ Sound(arenas, HeldOf(owned, call[t].old)) /\ TypeOK /\ grown \in [Thread -> Nat]
  BY <1>1, <1>2, InvParts DEF Placed, Inv, TypeOK
<1>4. CASE Done(t)
  BY <1>4, UngrownDone
<1>5. CASE ~ Fits(t) /\ Goto(t, "scan") /\ UNCHANGED call
  <2>1. pc'[t] = "scan"
    BY <1>3, <1>5, GotoFacts DEF Control
  <2> QED
    BY <1>5, <2>1, MakeTooLarge
<1>6. CASE Fits(t) /\ UNCHANGED <<call, grown>>
  <2>1. grown'[t] = 0
    BY <1>2, <1>6, NothingGrown
  <2> QED
    BY <2>1, MakeUngrown
<1>7. CASE /\ a > Len(arenas) /\ arenas' = Append(arenas, Fresh) /\ Goto(t, "scan") /\ MoveTo(t, a, 0)
           /\ grown' = [grown EXCEPT ![t] = @ + 1] /\ Fits(t)
  <2>1. a = Len(arenas) + 1
    BY <1>3, <1>7
  <2>2. a \in DOMAIN arenas' /\ arenas'[a] = Fresh
    <3>1. Len(arenas) + 1 \in DOMAIN arenas' /\ arenas'[Len(arenas) + 1] = Fresh
      BY <1>3, <1>7, SoundAppend
    <3> QED
      BY <2>1, <3>1
  <2>3. pos'[t].arena = a /\ pos'[t].at = 0
    BY <1>3, <1>7, MoveFacts
  <2>4. pc'[t] = "scan"
    BY <1>3, <1>7, GotoFacts DEF Control
  <2>5. grown'[t] = 1
    BY <1>2, <1>3, <1>7, NothingGrown
  <2>6. arenas'[pos'[t].arena].slot[0] = Header(SlotCount, FALSE)
    BY <2>2, <2>3, FreshFacts
  <2>7. grown'[t] <= 1 /\ pc'[t] \in {"scan", "merge", "take"} /\ pos'[t].arena \in DOMAIN arenas'
    BY <2>2, <2>3, <2>4, <2>5
  <2> QED
    BY <2>3, <2>4, <2>6, <2>7 DEF Grown
<1> QED
  BY <1>1, <1>4, <1>5, <1>6, <1>7 DEF Enter

LEMMA GrownSearch ==
  ASSUME NEW t \in Thread, Inv(t), Grown(t), Scan(t) \/ Merge(t) \/ ScanEnd(t)
  PROVE  Grown(t)'
<1>1. /\ UNCHANGED <<owned, call, grown, calls>> /\ pc[t] \in {"scan", "merge"} /\ TypeOK
      /\ pc' = pc \/ \E p \in {"wild", "merge", "scan", "take", "enter"} : Goto(t, p)
  BY DEF Scan, Merge, ScanEnd, Inv
<1>2. CASE ~ Fits(t)
  <2>1. pc'[t] \in {"wild", "merge", "scan", "take", "enter"}
    BY <1>1 DEF Goto, TypeOK
  <2> QED
    BY <1>1, <1>2, <2>1, MakeTooLarge
<1>3. CASE grown[t] = 0
  BY <1>1, <1>3, MakeUngrown
<1>4. CASE Fits(t) /\ grown[t] # 0
  <2>1. PICK slot : slot = arenas[pos[t].arena].slot
    OBVIOUS
  <2>2. /\ pos[t].at = 0 /\ ~ Mergeable(slot, 0) /\ slot[0].length = SlotCount /\ ~ slot[0].used
    BY <1>4, <2>1, OnlySpan
  <2>3. RequiredSlots(call[t].size) \in Nat
    BY InvParts, RequiredFacts
  <2>4. UNCHANGED <<arenas, pos>> /\ (Goto(t, "merge") \/ Goto(t, "take"))
    <3>1. CASE Scan(t)
      BY <2>1, <2>2, <3>1, SlotFacts DEF Scan
    <3>2. CASE Merge(t)
      <4>1. ~ (slot[0].length < RequiredSlots(call[t].size))
        BY <1>4, <2>2, <2>3, SlotFacts DEF Fits
      <4> QED
        BY <2>1, <2>2, <3>2, <4>1 DEF Merge
    <3>3. CASE ScanEnd(t)
      BY <2>2, <3>3, SlotFacts DEF ScanEnd
    <3> QED
      BY <3>1, <3>2, <3>3
  <2>5. pc'[t] \in {"merge", "take"}
    BY <1>1, <2>4, GotoFacts DEF Control
  <2> QED
    BY <1>1, <1>4, <2>4, <2>5 DEF Grown, Fits
<1> QED
  BY <1>2, <1>3, <1>4

LEMMA GrownExpand ==
  ASSUME NEW t \in Thread, Inv(t), Grown(t), Expand(t)
  PROVE  Grown(t)'
<1>1. pc[t] = "expand"
  BY DEF Expand
<1>2. grown[t] = 0
  BY <1>1, NothingGrown
<1>3. UNCHANGED <<call, grown>> \/ Done(t)
  BY DEF Expand
<1>4. CASE UNCHANGED <<call, grown>>
  BY <1>2, <1>4, MakeUngrown
<1>5. CASE Done(t)
  BY <1>5, UngrownDone
<1> QED
  BY <1>3, <1>4, <1>5

LEMMA NextGrown ==
  ASSUME NEW t, Thread = {t}, Inv(t), Grown(t), Next
  PROVE  Grown(t)'
<1>1. t \in Thread
  OBVIOUS
<1>2. ASSUME NEW tag \in Tag,
             \/ \E size \in MallocSize : Malloc(t, tag, size)
             \/ \E size \in ReallocSize : Realloc(t, tag, size)
             \/ Free(t, tag)
      PROVE  Grown(t)'
  BY <1>1, <1>2, GrownBegin
<1>3. CASE Enter(t)
  BY <1>1, <1>3, GrownEnter
<1>4. CASE Scan(t) \/ Merge(t) \/ ScanEnd(t)
  BY <1>1, <1>4, GrownSearch
<1>5. CASE Take(t)
  BY <1>1, <1>5, UngrownDone DEF Take
<1>6. CASE Expand(t)
  BY <1>1, <1>6, GrownExpand
<1>7. CASE Finished
  BY <1>7 DEF Finished, vars, Grown
<1> QED
  BY <1>2, <1>3, <1>4, <1>5, <1>6, <1>7 DEF Next, Step

-----------------------------------------------------------------------------
(* The theorems. *)

\* For one thread the invariant holds.
LEMMA Invariant ==
  ASSUME NEW t, Thread = {t}
  PROVE  Spec => []IInv(t)
<1>1. Init => IInv(t)
  <2>1. Init => Inv(t)
    BY InitInv
  <2>2. ASSUME Init PROVE Cursors(t) /\ Grown(t) /\ adrift \in BOOLEAN
    <3>1. arenas = <<>> /\ pc[t] = "idle" /\ grown[t] = 0 /\ adrift \in BOOLEAN
      BY <2>2 DEF Init
    <3>2. DOMAIN arenas = {}
      BY <3>1
    <3>3. Cursors(t)
      BY <3>1, <3>2 DEF Cursors
    <3>4. Grown(t)
      BY <3>1 DEF Grown
    <3> QED
      BY <3>1, <3>3, <3>4
  <2> QED
    BY <2>1, <2>2 DEF IInv
<1>2. IInv(t) /\ [Next]_vars => IInv(t)'
  <2> SUFFICES ASSUME IInv(t), [Next]_vars PROVE IInv(t)'
    OBVIOUS
  <2>1. adrift' \in BOOLEAN /\ (adrift => adrift')
    BY StillBoolean DEF IInv
  <2>2. ASSUME ~ adrift' PROVE Inv(t)' /\ Cursors(t)' /\ Grown(t)'
    <3>1. Inv(t) /\ Cursors(t) /\ Grown(t)
      BY <2>1, <2>2 DEF IInv
    <3>2. CASE Next
      BY <2>2, <3>1, <3>2, NextStep, NextCursors, NextGrown
    <3>3. CASE UNCHANGED vars
      <4>1. Inv(t)'
        BY <3>1, <3>3, StutterStep
      <4>2. Cursors(t)' /\ Grown(t)'
        BY <3>1, <3>3 DEF vars, Cursors, Grown
      <4> QED
        BY <4>1, <4>2
    <3> QED
      BY <3>2, <3>3
  <2> QED
    BY <2>1, <2>2 DEF IInv
<1> QED
  BY <1>1, <1>2, PTL DEF Spec

\* The variables keep their types, and a thread reads as a header nothing that is
\* none (slot_allocator.c:87-95), until a reallocation has left a cursor inside a
\* span (slot_allocator.c:205).
THEOREM SlotTypeCorrect ==
  ASSUME NEW t, Thread = {t}
  PROVE  Spec => [](~adrift => TypeOK)
<1>1. Spec => []IInv(t)
  BY Invariant
<1>2. IInv(t) => (~adrift => TypeOK)
  BY DEF IInv, Inv
<1> QED
  BY <1>1, <1>2, PTL

\* For one thread, whatever the number of slots and the sizes: no two allocations
\* share a slot and none is larger than its arena, until a reallocation has left
\* a cursor inside a span.
THEOREM SlotNoOverlap ==
  ASSUME NEW t, Thread = {t}
  PROVE  Spec => []NoOverlap
<1>1. Spec => []IInv(t)
  BY Invariant
<1>2. IInv(t) => NoOverlap
  <2>1. Inv(t) => NoOverlap
    BY InvNoOverlap
  <2>2. adrift => NoOverlap
    BY DEF NoOverlap
  <2> QED
    BY <2>1, <2>2 DEF IInv
<1> QED
  BY <1>1, <1>2, PTL

\* Likewise slot_allocator_check_integrity succeeds between any two calls, the
\* used spans are those of the allocations, and the next search begins at a span:
\* a reallocation that looks elsewhere is the only step that can leave a cursor
\* inside one.
THEOREM SlotSpansTile ==
  ASSUME NEW t, Thread = {t}
  PROVE  Spec => []SpansTile
<1>1. Spec => []IInv(t)
  BY Invariant
<1>2. IInv(t) => SpansTile
  <2>1. Inv(t) /\ Cursors(t) => SpansTile
    BY InvSpansTile
  <2>2. adrift => SpansTile
    BY DEF SpansTile
  <2> QED
    BY <2>1, <2>2 DEF IInv
<1> QED
  BY <1>1, <1>2, PTL

\* A call whose size an arena has room for creates one arena at most
\* (slot_allocator.c:122), whatever the sizes of the other calls.
THEOREM SlotOneArenaPerCall ==
  ASSUME NEW t, Thread = {t}
  PROVE  Spec => [](~adrift => OneArenaPerCall)
<1>1. Spec => []IInv(t)
  BY Invariant
<1>2. IInv(t) => (~adrift => OneArenaPerCall)
  BY DEF IInv, Grown, OneArenaPerCall
<1> QED
  BY <1>1, <1>2, PTL
=============================================================================
