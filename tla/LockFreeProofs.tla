--------------------------- MODULE LockFreeProofs ---------------------------
(***************************************************************************)
(* Proofs about LockFreeHashMap, for every number of threads, keys,        *)
(* buckets and nodes.  The first part: type correctness, which says among  *)
(* other things that search never follows NULL, and that the reference of  *)
(* a marked node is frozen.  The second: the lists of lockfreehashmap.cpp  *)
(* stay sorted and lose no node, no removed node is left behind when all   *)
(* calls have returned, and the map is linearizable.                       *)
(***************************************************************************)
EXTENDS LockFreeHashMap, FiniteSetTheorems, WellFoundedInduction, TLAPS

Heads == {HeadOf(b) : b \in Bucket}

\* t has allocated a node and may still link it.
Pending(t) == op[t] = "insert" /\ pc[t] \notin {"idle", "ret"}

-----------------------------------------------------------------------------
(* The inductive invariant: there is a set K of nodes that threads may know. *)
(* References lead from K into K, a node on its way into the list is not in *)
(* K and so nobody can mark it, and heads are reached from nowhere.         *)

Closed(K) == /\ Heads \subseteq K
             /\ \A a \in K : next[a].ptr \in K \ Heads
             /\ \A h \in Heads : ~next[h].mark

Unused(K) == \A a \in Heap : a >= brk => a \notin K /\ ~next[a].mark

PendingApart(K) ==
  /\ \A t \in Thread : Pending(t) => /\ ins[t] \in Heap
                                     /\ ins[t] < brk
                                     /\ ins[t] \notin K
                                     /\ ~next[ins[t]].mark
  /\ \A t, u \in Thread : Pending(t) /\ Pending(u) /\ ins[t] = ins[u] => t = u
  /\ \A t \in Thread : pc[t] = "insert_cas" => op[t] = "insert" /\ next[ins[t]].ptr = right[t]

Found == {"recheck", "found", "insert_cas", "remove_load", "mark_cas", "unlink_cas"}

LocalsKnown(K) == \A t \in Thread :
  /\ pc[t] = "load" => node[t] \in K \ Heads /\ left[t] \in K /\ leftNext[t] \in K
  /\ pc[t] = "unlink" => leftNext[t] \in K
  /\ pc[t] \in Found \cup {"unlink"} => left[t] \in K /\ right[t] \in K \ Heads
  /\ pc[t] \in {"mark_cas", "unlink_cas"} => rightNext[t] \in K \ Heads

Published(K) == Closed(K) /\ Unused(K) /\ PendingApart(K) /\ LocalsKnown(K)

Inv == TypeOK /\ \E K \in SUBSET Addr : Published(K)

-----------------------------------------------------------------------------
(* Constants *)

LEMMA Addresses == /\ Heads \subseteq Addr \ Heap /\ Heap \subseteq Addr /\ Null \notin Addr
                   /\ \A b \in Bucket : HeadOf(b) \in Heads
<1>1. \A b \in Bucket : HeadOf(b) \in 0 .. HeapStart - 1
  BY BucketAssumption DEF Bucket, HeadOf, HeapStart
<1>2. HeapStart \in Nat /\ HeapEnd \in Nat /\ HeapStart <= HeapEnd
  BY BucketAssumption, NodesAssumption DEF HeapStart, HeapEnd
<1>3. 0 .. HeapStart - 1 \subseteq Addr \ Heap
  BY <1>2 DEF Addr, Heap
<1> QED BY <1>1, <1>2, <1>3 DEF Heads, Heap, Addr, Null

LEMMA IndexInBucket == \A k \in Int : getIndex(k) \in Bucket
BY BucketAssumption, WordAssumption DEF getIndex, Bucket

LEMMA AnyKeyInKey == AnyKey \in Key
BY KeyAssumption DEF AnyKey

\* Every call works on a list of the map.
LEMMA HeadType == ASSUME TypeOK, NEW t \in Thread PROVE head(t) \in Heads
BY IndexInBucket, KeyAssumption, Addresses DEF head, TypeOK

-----------------------------------------------------------------------------
LEMMA InitInv == Init => Inv
<1> SUFFICES ASSUME Init PROVE Inv OBVIOUS
<1> DEFINE K == Addr \ Heap
<1>1. HeapStart \in Nat /\ HeapEnd \in Nat /\ HeapStart <= HeapEnd
  BY BucketAssumption, NodesAssumption DEF HeapStart, HeapEnd
<1>2. K = 0 .. 2 * NBuckets - 1
  BY <1>1, BucketAssumption DEF Addr, Heap, HeapStart
<1>3. \A a \in Heads : a % 2 = 0 /\ a \in K
  BY <1>2, BucketAssumption DEF Heads, HeadOf, Bucket
<1>4. \A a \in K : next[a].ptr \in K \ Heads /\ ~next[a].mark
  <2> SUFFICES ASSUME NEW a \in K PROVE next[a].ptr \in K \ Heads /\ ~next[a].mark OBVIOUS
  <2>1. CASE a % 2 = 0
    <3>1. a + 1 \in K /\ (a + 1) % 2 # 0
      BY <2>1, <1>2, BucketAssumption
    <3>2. next[a] = [ptr |-> a + 1, mark |-> FALSE]
      BY <2>1 DEF Init, Unmarked
    <3> QED BY <3>1, <3>2, <1>3
  <2>2. CASE a % 2 # 0
    <3>1. next[a] = [ptr |-> a, mark |-> FALSE]
      BY <2>2 DEF Init, Unmarked
    <3> QED BY <2>2, <3>1, <1>3
  <2> QED BY <2>1, <2>2
<1>5. \A a \in Heap : next[a] = [ptr |-> Null, mark |-> FALSE]
  BY Addresses DEF Init, Unmarked
<1>6. next \in [Addr -> Ref]
  <2>1. DOMAIN next = Addr /\ next = [a \in Addr |-> next[a]]
    BY DEF Init
  <2>2. \A a \in Addr : next[a] \in Ref
    <3> SUFFICES ASSUME NEW a \in Addr PROVE next[a] \in Ref OBVIOUS
    <3>1. CASE a \in Heap
      <4>1. next[a] = [ptr |-> Null, mark |-> FALSE] BY <3>1, <1>5
      <4> QED BY <4>1 DEF Ref
    <3>2. CASE a \notin Heap
      <4>1. next[a] = [ptr |-> IF a % 2 = 0 THEN a + 1 ELSE a, mark |-> FALSE]
        BY <3>2 DEF Init, Unmarked
      <4>2. next[a].ptr \in Addr BY <3>2, <1>4
      <4> QED BY <4>1, <4>2 DEF Ref
    <3> QED BY <3>1, <3>2
  <2> QED BY <2>1, <2>2
<1>7. TypeOK
  BY <1>1, <1>6, AnyKeyInKey DEF Init, TypeOK, PC
<1>8. Published(K)
  <2>1. Closed(K) BY <1>3, <1>4 DEF Closed
  <2>2. Unused(K) BY <1>5 DEF Unused
  <2>3. PendingApart(K) /\ LocalsKnown(K)
    BY DEF Init, PendingApart, Pending, LocalsKnown, Found
  <2> QED BY <2>1, <2>2, <2>3 DEF Published
<1> QED BY <1>7, <1>8 DEF Inv

-----------------------------------------------------------------------------
(* What the helpers assign *)

LEMMA LocalsSet ==
  ASSUME TypeOK, NEW t \in Thread, NEW n \in Addr \cup {Null}, NEW l \in Addr \cup {Null},
         NEW ln \in Addr \cup {Null}, NEW r \in Addr \cup {Null}, NEW rn \in Addr \cup {Null},
         SetLocals(t, n, l, ln, r, rn)
  PROVE  /\ node' \in [Thread -> Addr \cup {Null}] /\ left' \in [Thread -> Addr \cup {Null}]
         /\ leftNext' \in [Thread -> Addr \cup {Null}] /\ right' \in [Thread -> Addr \cup {Null}]
         /\ rightNext' \in [Thread -> Addr \cup {Null}]
         /\ \A u \in Thread : u # t => /\ node'[u] = node[u] /\ left'[u] = left[u]
                                       /\ leftNext'[u] = leftNext[u] /\ right'[u] = right[u]
                                       /\ rightNext'[u] = rightNext[u]
         /\ node'[t] = n /\ left'[t] = l /\ leftNext'[t] = ln /\ right'[t] = r /\ rightNext'[t] = rn
BY DEF SetLocals, TypeOK

LEMMA WentTo ==
  ASSUME TypeOK, NEW t \in Thread, NEW to \in PC, Goto(t, to)
  PROVE  pc' \in [Thread -> PC] /\ pc'[t] = to /\ \A u \in Thread : u # t => pc'[u] = pc[u]
BY DEF Goto, TypeOK

\* What the walk of search leads to: t is at a known node x behind left, or it
\* has settled left and right.
Visit(t, K) ==
  \E l \in K, ln \in K, x \in K \ Heads :
    \/ Goto(t, "load") /\ SetLocals(t, x, l, ln, Null, Null)
    \/ \E to \in {"unlink", "recheck", "found"} : Goto(t, to) /\ SetLocals(t, Null, l, ln, x, Null)

LEMMA CheckAdjacentVisits ==
  ASSUME NEW K, NEW t \in Thread, NEW l \in K, NEW ln \in K, NEW x \in K \ Heads,
         CheckAdjacent(t, l, ln, x)
  PROVE  Visit(t, K)
<1>1. \E to \in {"unlink", "recheck", "found"} : Goto(t, to)
  BY DEF CheckAdjacent
<1> QED BY <1>1 DEF CheckAdjacent, Visit

LEMMA WalkVisits ==
  ASSUME NEW K, NEW t \in Thread, NEW n \in K, NEW r, r.ptr \in K \ Heads,
         r.mark => left[t] \in K /\ leftNext[t] \in K, Walk(t, n, r)
  PROVE  Visit(t, K)
<1> DEFINE l == IF is_marked_reference(r) THEN left[t] ELSE n
           ln == IF is_marked_reference(r) THEN leftNext[t] ELSE r.ptr
<1>1. l \in K /\ ln \in K
  BY DEF is_marked_reference
<1>2. CASE r.ptr = tail(t)
  BY <1>1, <1>2, CheckAdjacentVisits DEF Walk
<1>3. CASE r.ptr # tail(t)
  <2>1. Goto(t, "load") /\ SetLocals(t, r.ptr, l, ln, Null, Null)
    BY <1>3 DEF Walk
  <2> QED BY <1>1, <2>1 DEF Visit
<1> QED BY <1>2, <1>3

\* search never follows NULL: it is always at a known node.
LEMMA SearchVisits ==
  ASSUME TypeOK, NEW K \in SUBSET Addr, Published(K), NEW t \in Thread,
         SearchHead(t) \/ SearchLoad(t)
  PROVE  Visit(t, K)
<1>1. CASE SearchHead(t)
  <2>1. head(t) \in Heads /\ head(t) \in K
    BY HeadType DEF Published, Closed
  <2>2. next[head(t)].ptr \in K \ Heads /\ ~next[head(t)].mark
    BY <2>1 DEF Published, Closed
  <2> QED BY <1>1, <2>1, <2>2, WalkVisits DEF SearchHead
<1>2. CASE SearchLoad(t)
  <2>1. node[t] \in K \ Heads /\ left[t] \in K /\ leftNext[t] \in K
    BY <1>2 DEF SearchLoad, Published, LocalsKnown
  <2>2. next[node[t]].ptr \in K \ Heads
    BY <2>1 DEF Published, Closed
  <2>3. Walk(t, node[t], next[node[t]]) \/ CheckAdjacent(t, left[t], leftNext[t], node[t])
    BY <1>2 DEF SearchLoad
  <2> QED BY <2>1, <2>2, <2>3, WalkVisits, CheckAdjacentVisits
<1> QED BY <1>1, <1>2

-----------------------------------------------------------------------------
(* Type correctness *)

LEMMA VisitType ==
  ASSUME TypeOK, NEW K \in SUBSET Addr, NEW t \in Thread, Visit(t, K),
         UNCHANGED <<heap, op, arg, ins, res, seen>>
  PROVE  TypeOK'
<1>1. PICK l \in K, ln \in K, x \in K \ Heads :
        \/ Goto(t, "load") /\ SetLocals(t, x, l, ln, Null, Null)
        \/ \E to \in {"unlink", "recheck", "found"} : Goto(t, to) /\ SetLocals(t, Null, l, ln, x, Null)
  BY DEF Visit
<1>2. pc' \in [Thread -> PC]
  BY <1>1, WentTo DEF PC
<1>3. /\ node' \in [Thread -> Addr \cup {Null}] /\ left' \in [Thread -> Addr \cup {Null}]
      /\ leftNext' \in [Thread -> Addr \cup {Null}] /\ right' \in [Thread -> Addr \cup {Null}]
      /\ rightNext' \in [Thread -> Addr \cup {Null}]
  BY <1>1, LocalsSet
<1> QED BY <1>2, <1>3 DEF TypeOK, heap

\* Whatever else a call does to its own variables.
LEMMA CallType ==
  ASSUME TypeOK, NEW t \in Thread, NEW to \in PC, Goto(t, to),
         UNCHANGED locals \/ SetLocals(t, Null, Null, Null, Null, Null),
         res' = res \/ \E r \in {"none", "yes", "no"} : res' = [res EXCEPT ![t] = r],
         op' = op \/ \E o \in {"none", "insert", "remove", "find"} : op' = [op EXCEPT ![t] = o],
         arg' = arg \/ \E k \in Key : arg' = [arg EXCEPT ![t] = k],
         ins' = ins \/ \E a \in Heap \cup {Null} : ins' = [ins EXCEPT ![t] = a],
         key' \in [Addr -> Int], next' \in [Addr -> Ref], brk' \in HeapStart .. HeapEnd,
         linked' \subseteq Heap, seen' \in [Thread -> SUBSET BOOLEAN]
  PROVE  TypeOK'
<1>1. pc' \in [Thread -> PC] BY WentTo
<1>2. /\ node' \in [Thread -> Addr \cup {Null}] /\ left' \in [Thread -> Addr \cup {Null}]
      /\ leftNext' \in [Thread -> Addr \cup {Null}] /\ right' \in [Thread -> Addr \cup {Null}]
      /\ rightNext' \in [Thread -> Addr \cup {Null}]
  <2>1. CASE UNCHANGED locals BY <2>1 DEF locals, TypeOK
  <2>2. CASE SetLocals(t, Null, Null, Null, Null, Null) BY <2>2, LocalsSet
  <2> QED BY <2>1, <2>2
<1>3. res' \in [Thread -> {"none", "yes", "no"}] BY DEF TypeOK
<1>4. op' \in [Thread -> {"none", "insert", "remove", "find"}] BY DEF TypeOK
<1>5. arg' \in [Thread -> Key] BY DEF TypeOK
<1>6. ins' \in [Thread -> Heap \cup {Null}] BY DEF TypeOK
<1> QED BY <1>1, <1>2, <1>3, <1>4, <1>5, <1>6 DEF TypeOK

LEMMA InvokeType ==
  ASSUME TypeOK, NEW t \in Thread, NEW k \in Key,
         insert_item(t, k) \/ remove_item(t, k) \/ lookup_item(t, k)
  PROVE  TypeOK'
<1>1. PICK o \in {"insert", "remove", "find"} : Invoke(t, o, k)
  BY DEF insert_item, remove_item, lookup_item
<1>2. /\ Goto(t, "search") /\ SetLocals(t, Null, Null, Null, Null, Null)
      /\ op' = [op EXCEPT ![t] = o] /\ arg' = [arg EXCEPT ![t] = k] /\ UNCHANGED <<res, next, linked>>
  BY <1>1 DEF Invoke, Restart
<1>3. seen' \in [Thread -> SUBSET BOOLEAN]
  <2>1. {z \in BOOLEAN : z = (k \in Contents)} \in SUBSET BOOLEAN OBVIOUS
  <2> QED BY <1>1, <2>1 DEF Invoke, TypeOK
<1>4. HeapStart \in Nat /\ HeapEnd \in Nat
  BY BucketAssumption, NodesAssumption DEF HeapStart, HeapEnd
<1>5. /\ key' \in [Addr -> Int] /\ brk' \in HeapStart .. HeapEnd
      /\ ins' = ins \/ \E a \in Heap \cup {Null} : ins' = [ins EXCEPT ![t] = a]
  <2>1. CASE insert_item(t, k)
    <3>1. brk < HeapEnd /\ brk' = brk + 1 /\ key' = [key EXCEPT ![brk] = k]
          /\ ins' = [ins EXCEPT ![t] = brk]
      BY <2>1 DEF insert_item
    <3>2. brk \in Heap BY <3>1, <1>4 DEF Heap, TypeOK
    <3>3. brk + 1 \in HeapStart .. HeapEnd BY <3>1, <1>4 DEF TypeOK
    <3>4. k \in Int BY KeyAssumption
    <3>5. key' \in [Addr -> Int] BY <3>1, <3>4 DEF TypeOK
    <3> QED BY <3>1, <3>2, <3>3, <3>5
  <2>2. CASE remove_item(t, k) \/ lookup_item(t, k)
    BY <2>2 DEF remove_item, lookup_item, TypeOK
  <2> QED BY <2>1, <2>2
<1> QED BY <1>2, <1>3, <1>5, CallType DEF PC, TypeOK

\* References that compare-and-swap and store may write.
LEMMA StoreType ==
  ASSUME TypeOK, NEW a \in Addr, NEW c \in Addr \cup {Null},
         Store(a, Unmarked(c)) \/ Store(a, get_marked_reference(Unmarked(c)))
  PROVE  /\ next' \in [Addr -> Ref]
         /\ next'[a].ptr = c
         /\ Store(a, Unmarked(c)) => ~next'[a].mark
         /\ \A d \in Addr : d # a => next'[d] = next[d]
<1> DEFINE r == Unmarked(c)
           m == get_marked_reference(Unmarked(c))
<1>1. r \in Ref /\ r.ptr = c
  BY DEF Unmarked, Ref
<1>2. m.ptr = r.ptr
  BY <1>1 DEF get_marked_reference, Ref
<1>3. m \in Ref
  BY <1>1 DEF get_marked_reference, Ref
<1>4. ~r.mark
  BY DEF Unmarked
<1>5. CASE Store(a, r)
  <2> HIDE DEF r
  <2> QED BY <1>1, <1>4, <1>5 DEF Store, TypeOK
<1>6. CASE Store(a, m) /\ ~Store(a, r)
  <2> HIDE DEF m
  <2> QED BY <1>1, <1>2, <1>3, <1>6 DEF Store, TypeOK
<1> QED BY <1>5, <1>6

LEMMA WitnessType ==
  ASSUME TypeOK, NEW k, NEW b \in BOOLEAN, Witness(k, b) PROVE seen' \in [Thread -> SUBSET BOOLEAN]
BY DEF Witness, TypeOK

LEMMA StepType ==
  ASSUME TypeOK, NEW K \in SUBSET Addr, Published(K), NEW t \in Thread, Step(t)
  PROVE  TypeOK'
<1>1. CASE SearchHead(t) \/ SearchLoad(t)
  <2>1. Visit(t, K) BY <1>1, SearchVisits
  <2>2. UNCHANGED <<heap, op, arg, ins, res, seen>> BY <1>1 DEF SearchHead, SearchLoad
  <2> QED BY <2>1, <2>2, VisitType
<1>2. CASE SearchUnlink(t)
  <2>1. left[t] \in Addr /\ right[t] \in Addr
    BY <1>2 DEF SearchUnlink, Published, LocalsKnown
  <2>2. \/ Store(left[t], Unmarked(right[t])) /\ linked' \subseteq linked
           /\ (\E to \in PC : Goto(t, to)) /\ UNCHANGED locals
        \/ Restart(t) /\ UNCHANGED <<next, linked>>
    BY <1>2 DEF SearchUnlink, PC
  <2>3. next' \in [Addr -> Ref] /\ linked' \subseteq Heap
    BY <2>1, <2>2, StoreType DEF TypeOK
  <2>4. PICK to \in PC : Goto(t, to) /\ (UNCHANGED locals \/ SetLocals(t, Null, Null, Null, Null, Null))
    BY <2>2 DEF Restart, PC
  <2>5. UNCHANGED <<key, brk, op, arg, ins, res, seen>> BY <1>2 DEF SearchUnlink
  <2> QED BY <2>3, <2>4, <2>5, CallType DEF TypeOK
<1>3. CASE SearchRecheck(t) \/ FindResult(t) \/ RemoveTest(t)
  <2>1. PICK to \in PC : Goto(t, to) /\ (UNCHANGED locals \/ SetLocals(t, Null, Null, Null, Null, Null))
    BY <1>3 DEF SearchRecheck, FindResult, RemoveTest, Restart, Finish, PC
  <2>2. res' = res \/ \E r \in {"none", "yes", "no"} : res' = [res EXCEPT ![t] = r]
    BY <1>3 DEF SearchRecheck, FindResult, RemoveTest, Finish
  <2>3. UNCHANGED <<key, next, brk, linked, op, arg, ins, seen>>
    BY <1>3 DEF SearchRecheck, FindResult, RemoveTest, heap
  <2> QED BY <2>1, <2>2, <2>3, CallType DEF TypeOK
<1>4. CASE InsertTest(t)
  <2>1. ins[t] \in Addr /\ right[t] \in Addr
    BY <1>4, Addresses DEF InsertTest, Published, PendingApart, Pending, LocalsKnown, Found
  <2>2. PICK to \in PC : Goto(t, to) /\ (UNCHANGED locals \/ SetLocals(t, Null, Null, Null, Null, Null))
    BY <1>4 DEF InsertTest, Finish, PC
  <2>3. res' = res \/ \E r \in {"none", "yes", "no"} : res' = [res EXCEPT ![t] = r]
    BY <1>4 DEF InsertTest, Finish
  <2>4. next' \in [Addr -> Ref]
    BY <1>4, <2>1, StoreType DEF InsertTest, TypeOK
  <2>5. UNCHANGED <<key, brk, linked, op, arg, ins, seen>> BY <1>4 DEF InsertTest
  <2> QED BY <2>2, <2>3, <2>4, <2>5, CallType DEF TypeOK
<1>5. CASE InsertCas(t)
  <2>1. left[t] \in Addr /\ ins[t] \in Heap /\ ins[t] \in Addr
    BY <1>5, Addresses DEF InsertCas, Published, PendingApart, Pending, LocalsKnown, Found
  <2>2. PICK to \in PC : Goto(t, to) /\ SetLocals(t, Null, Null, Null, Null, Null)
    BY <1>5 DEF InsertCas, Finish, Restart, PC
  <2>3. res' = res \/ \E r \in {"none", "yes", "no"} : res' = [res EXCEPT ![t] = r]
    BY <1>5 DEF InsertCas, Finish
  <2>4. next' \in [Addr -> Ref]
    BY <1>5, <2>1, StoreType DEF InsertCas, TypeOK
  <2>5. linked' \subseteq Heap
    BY <1>5, <2>1 DEF InsertCas, TypeOK
  <2>6. seen' \in [Thread -> SUBSET BOOLEAN]
    BY <1>5, WitnessType DEF InsertCas, TypeOK
  <2>7. UNCHANGED <<key, brk, op, arg, ins>> BY <1>5 DEF InsertCas
  <2> QED BY <2>2, <2>3, <2>4, <2>5, <2>6, <2>7, CallType DEF TypeOK
<1>6. CASE RemoveLoad(t)
  <2>1. right[t] \in K /\ left[t] \in Addr /\ right[t] \in Addr
    BY <1>6 DEF RemoveLoad, Published, LocalsKnown, Found
  <2>2. next[right[t]].ptr \in Addr
    BY <2>1 DEF Published, Closed
  <2>3. UNCHANGED <<key, next, brk, linked, op, arg, ins, res, seen>>
    BY <1>6 DEF RemoveLoad, heap
  <2>4. CASE Restart(t)
    BY <2>3, <2>4, CallType DEF Restart, TypeOK, PC
  <2>5. CASE /\ Goto(t, "mark_cas")
             /\ SetLocals(t, Null, left[t], Null, right[t], next[right[t]].ptr)
    <3>1. pc' \in [Thread -> PC] BY <2>5, WentTo DEF PC
    <3>2. /\ node' \in [Thread -> Addr \cup {Null}] /\ left' \in [Thread -> Addr \cup {Null}]
          /\ leftNext' \in [Thread -> Addr \cup {Null}] /\ right' \in [Thread -> Addr \cup {Null}]
          /\ rightNext' \in [Thread -> Addr \cup {Null}]
      BY <2>1, <2>2, <2>5, LocalsSet
    <3> QED BY <2>3, <3>1, <3>2 DEF TypeOK
  <2> QED BY <1>6, <2>4, <2>5 DEF RemoveLoad
<1>7. CASE MarkCas(t)
  <2>1. right[t] \in Addr /\ rightNext[t] \in Addr
    BY <1>7 DEF MarkCas, Published, LocalsKnown, Found
  <2>2. PICK to \in PC : Goto(t, to) /\ (UNCHANGED locals \/ SetLocals(t, Null, Null, Null, Null, Null))
    BY <1>7 DEF MarkCas, Restart, PC
  <2>3. res' = res \/ \E r \in {"none", "yes", "no"} : res' = [res EXCEPT ![t] = r]
    BY <1>7 DEF MarkCas
  <2>4. next' \in [Addr -> Ref]
    BY <1>7, <2>1, StoreType DEF MarkCas, TypeOK
  <2>5. seen' \in [Thread -> SUBSET BOOLEAN]
    BY <1>7, WitnessType DEF MarkCas, TypeOK
  <2>6. UNCHANGED <<key, brk, linked, op, arg, ins>> BY <1>7 DEF MarkCas
  <2> QED BY <2>2, <2>3, <2>4, <2>5, <2>6, CallType DEF TypeOK
<1>8. CASE UnlinkCas(t)
  <2>1. left[t] \in Addr /\ rightNext[t] \in Addr
    BY <1>8 DEF UnlinkCas, Published, LocalsKnown, Found
  <2>2. PICK to \in PC : Goto(t, to) /\ SetLocals(t, Null, Null, Null, Null, Null)
    BY <1>8 DEF UnlinkCas, Restart, Finish, PC
  <2>3. res' = res \/ \E r \in {"none", "yes", "no"} : res' = [res EXCEPT ![t] = r]
    BY <1>8 DEF UnlinkCas, Finish
  <2>4. next' \in [Addr -> Ref] /\ linked' \subseteq Heap
    BY <1>8, <2>1, StoreType DEF UnlinkCas, TypeOK
  <2>5. UNCHANGED <<key, brk, op, arg, ins, seen>> BY <1>8 DEF UnlinkCas
  <2> QED BY <2>2, <2>3, <2>4, <2>5, CallType DEF TypeOK
<1>9. CASE Return(t)
  <2>1. seen' \in [Thread -> SUBSET BOOLEAN]
    BY <1>9 DEF Return, TypeOK
  <2>2. UNCHANGED <<key, next, brk, linked>> /\ UNCHANGED locals
    BY <1>9 DEF Return, heap
  <2> QED BY <1>9, <2>1, <2>2, CallType, AnyKeyInKey DEF Return, TypeOK, PC
<1> QED BY <1>1, <1>2, <1>3, <1>4, <1>5, <1>6, <1>7, <1>8, <1>9 DEF Step

-----------------------------------------------------------------------------
(* What threads know stays known *)

\* A step of t that writes known references to known nodes only, and leads t to
\* where its locals are known.
LEMMA KnownStep ==
  ASSUME TypeOK, NEW K \in SUBSET Addr, Published(K), NEW t \in Thread,
         brk' = brk,
         \A a \in Addr : \/ next'[a] = next[a]
                         \/ a \in K /\ next'[a].ptr \in K \ Heads /\ (a \in Heads => ~next'[a].mark),
         \A u \in Thread : u # t => /\ pc'[u] = pc[u] /\ op'[u] = op[u] /\ ins'[u] = ins[u]
                                    /\ node'[u] = node[u] /\ left'[u] = left[u]
                                    /\ leftNext'[u] = leftNext[u] /\ right'[u] = right[u]
                                    /\ rightNext'[u] = rightNext[u],
         Pending(t)' => Pending(t) /\ ins'[t] = ins[t],
         pc'[t] # "insert_cas",
         pc'[t] = "load" => node'[t] \in K \ Heads /\ left'[t] \in K /\ leftNext'[t] \in K,
         pc'[t] = "unlink" => leftNext'[t] \in K,
         pc'[t] \in Found \cup {"unlink"} => left'[t] \in K /\ right'[t] \in K \ Heads,
         pc'[t] \in {"mark_cas", "unlink_cas"} => rightNext'[t] \in K \ Heads
  PROVE  Published(K)'
<1> USE DEF Published
<1>1. Closed(K)'
  BY Addresses DEF Closed
<1>2. Unused(K)'
  BY Addresses DEF Unused
<1>3. \A u \in Thread : Pending(u)' => Pending(u) /\ ins'[u] = ins[u]
  BY DEF Pending
<1>4. \A u \in Thread : Pending(u) => ins[u] \in Heap /\ ins[u] < brk /\ ins[u] \notin K /\ ~next[ins[u]].mark
                                      /\ next'[ins[u]] = next[ins[u]]
  BY Addresses DEF PendingApart
<1>5. \A u \in Thread : pc'[u] = "insert_cas" => /\ op'[u] = "insert" /\ Pending(u)
                                                 /\ next'[ins'[u]].ptr = right'[u]
  BY <1>4 DEF PendingApart, Pending
<1>6. PendingApart(K)'
  <2>1. \A u, v \in Thread : Pending(u)' /\ Pending(v)' /\ ins'[u] = ins'[v] => u = v
    BY <1>3 DEF PendingApart
  <2> QED BY <1>3, <1>4, <1>5, <2>1 DEF PendingApart
<1>7. LocalsKnown(K)'
  BY DEF LocalsKnown
<1> QED BY <1>1, <1>2, <1>6, <1>7

\* A call that forgets its locals: it searches again or is about to return.
LEMMA ForgetStep ==
  ASSUME TypeOK, NEW K \in SUBSET Addr, Published(K), NEW t \in Thread,
         \A a \in Addr : \/ next'[a] = next[a]
                         \/ a \in K /\ next'[a].ptr \in K \ Heads /\ (a \in Heads => ~next'[a].mark),
         UNCHANGED <<brk, op, ins>>, pc[t] # "idle" /\ pc[t] # "ret",
         NEW to \in {"search", "ret"}, Goto(t, to), SetLocals(t, Null, Null, Null, Null, Null)
  PROVE  Published(K)'
<1>1. pc'[t] = to /\ \A u \in Thread : u # t => pc'[u] = pc[u]
  BY WentTo DEF PC
<1>2. \A u \in Thread : u # t => /\ node'[u] = node[u] /\ left'[u] = left[u]
                                 /\ leftNext'[u] = leftNext[u] /\ right'[u] = right[u]
                                 /\ rightNext'[u] = rightNext[u]
  BY LocalsSet
<1>3. Pending(t)' => Pending(t) /\ ins'[t] = ins[t]
  BY DEF Pending
<1>4. pc'[t] \notin Found \cup {"unlink", "load"}
  BY <1>1 DEF Found
<1> QED BY <1>1, <1>2, <1>3, <1>4, KnownStep DEF Found

\* A call that goes on with the locals it has.
LEMMA KeepStep ==
  ASSUME TypeOK, NEW K \in SUBSET Addr, Published(K), NEW t \in Thread,
         \A a \in Addr : \/ next'[a] = next[a]
                         \/ a \in K /\ next'[a].ptr \in K \ Heads /\ (a \in Heads => ~next'[a].mark),
         UNCHANGED <<brk, op, ins, locals>>,
         \/ pc[t] \in Found \cup {"unlink"} /\ \E to \in {"recheck", "found", "remove_load"} : Goto(t, to)
         \/ pc[t] = "mark_cas" /\ Goto(t, "unlink_cas")
  PROVE  Published(K)'
<1>1. PICK to \in {"recheck", "found", "remove_load", "unlink_cas"} : Goto(t, to)
  OBVIOUS
<1>2. pc'[t] = to /\ \A u \in Thread : u # t => pc'[u] = pc[u]
  BY <1>1, WentTo DEF PC
<1>3. Pending(t)' => Pending(t) /\ ins'[t] = ins[t]
  BY DEF Pending, Found
<1>4. left'[t] \in K /\ right'[t] \in K \ Heads
  BY DEF Published, LocalsKnown, Found, locals
<1>5. pc'[t] = "unlink_cas" => rightNext'[t] \in K \ Heads
  <2>1. pc'[t] = "unlink_cas" => pc[t] = "mark_cas"
    BY DEF Goto, TypeOK
  <2> QED BY <2>1 DEF Published, LocalsKnown, locals
<1>6. \A u \in Thread : /\ node'[u] = node[u] /\ left'[u] = left[u]
                        /\ leftNext'[u] = leftNext[u] /\ right'[u] = right[u]
                        /\ rightNext'[u] = rightNext[u]
  BY DEF locals
<1> QED BY <1>2, <1>3, <1>4, <1>5, <1>6, KnownStep

LEMMA SearchPublished ==
  ASSUME TypeOK, NEW K \in SUBSET Addr, Published(K), NEW t \in Thread,
         SearchHead(t) \/ SearchLoad(t)
  PROVE  Published(K)'
<1>1. PICK l \in K, ln \in K, x \in K \ Heads :
        \/ Goto(t, "load") /\ SetLocals(t, x, l, ln, Null, Null)
        \/ \E to \in {"unlink", "recheck", "found"} : Goto(t, to) /\ SetLocals(t, Null, l, ln, x, Null)
  BY SearchVisits DEF Visit
<1>2. UNCHANGED <<next, brk, op, ins>> /\ pc[t] \in {"search", "load"}
  BY DEF SearchHead, SearchLoad, heap
<1>3. Pending(t)' => Pending(t) /\ ins'[t] = ins[t]
  BY <1>2 DEF Pending
<1>4. CASE Goto(t, "load") /\ SetLocals(t, x, l, ln, Null, Null)
  <2>1. pc'[t] = "load" /\ \A u \in Thread : u # t => pc'[u] = pc[u]
    BY <1>4, WentTo DEF PC
  <2>2. /\ node'[t] = x /\ left'[t] = l /\ leftNext'[t] = ln
        /\ \A u \in Thread : u # t => /\ node'[u] = node[u] /\ left'[u] = left[u]
                                      /\ leftNext'[u] = leftNext[u] /\ right'[u] = right[u]
                                      /\ rightNext'[u] = rightNext[u]
    BY <1>4 DEF SetLocals, TypeOK
  <2> QED BY <1>2, <1>3, <2>1, <2>2, KnownStep DEF Found
<1>5. ASSUME NEW to \in {"unlink", "recheck", "found"}, Goto(t, to), SetLocals(t, Null, l, ln, x, Null)
      PROVE  Published(K)'
  <2>1. pc'[t] = to /\ \A u \in Thread : u # t => pc'[u] = pc[u]
    BY <1>5, WentTo DEF PC
  <2>2. /\ left'[t] = l /\ leftNext'[t] = ln /\ right'[t] = x
        /\ \A u \in Thread : u # t => /\ node'[u] = node[u] /\ left'[u] = left[u]
                                      /\ leftNext'[u] = leftNext[u] /\ right'[u] = right[u]
                                      /\ rightNext'[u] = rightNext[u]
    BY <1>5 DEF SetLocals, TypeOK
  <2> QED BY <1>2, <1>3, <2>1, <2>2, KnownStep DEF Found
<1> QED BY <1>1, <1>4, <1>5

LEMMA InvokePublished ==
  ASSUME TypeOK, NEW K \in SUBSET Addr, Published(K), NEW t \in Thread, NEW k \in Key,
         insert_item(t, k) \/ remove_item(t, k) \/ lookup_item(t, k)
  PROVE  Published(K)'
<1>1. PICK o \in {"insert", "remove", "find"} : Invoke(t, o, k)
  BY DEF insert_item, remove_item, lookup_item
<1>2. /\ pc[t] = "idle" /\ Goto(t, "search") /\ SetLocals(t, Null, Null, Null, Null, Null)
      /\ op' = [op EXCEPT ![t] = o] /\ next' = next
  BY <1>1 DEF Invoke, Restart
<1>3. pc'[t] = "search" /\ \A u \in Thread : u # t => pc'[u] = pc[u] /\ op'[u] = op[u]
  BY <1>2, WentTo DEF PC, TypeOK
<1>4. \A u \in Thread : u # t => /\ node'[u] = node[u] /\ left'[u] = left[u]
                                 /\ leftNext'[u] = leftNext[u] /\ right'[u] = right[u]
                                 /\ rightNext'[u] = rightNext[u]
  BY <1>2, LocalsSet
<1>5. CASE insert_item(t, k)
  <2>1. brk < HeapEnd /\ brk' = brk + 1 /\ ins' = [ins EXCEPT ![t] = brk]
    BY <1>5 DEF insert_item
  <2>2. HeapStart \in Nat /\ HeapEnd \in Nat
    BY BucketAssumption, NodesAssumption DEF HeapStart, HeapEnd
  <2>3. brk \in Heap /\ brk \in Int BY <2>1, <2>2 DEF Heap, TypeOK
  <2>4. ins'[t] = brk /\ \A u \in Thread : u # t => ins'[u] = ins[u]
    BY <2>1, <2>3 DEF TypeOK
  <2>5. brk \notin K /\ ~next[brk].mark
    BY <2>3 DEF Published, Unused
  <2>6. Closed(K)' BY <1>2 DEF Published, Closed
  <2>7. Unused(K)'
    <3>1. \A a \in Heap : a >= brk + 1 => a >= brk BY <2>3 DEF Heap
    <3> QED BY <1>2, <2>1, <3>1 DEF Published, Unused
  <2>8. \A u \in Thread : u # t /\ Pending(u)' =>
          Pending(u) /\ ins[u] \in Heap /\ ins[u] < brk /\ ins[u] < brk + 1 /\ ins[u] # brk
    <3>1. \A u \in Thread : u # t /\ Pending(u)' => Pending(u) /\ ins[u] \in Heap /\ ins[u] < brk
      BY <1>3 DEF Pending, Published, PendingApart
    <3>2. \A a \in Heap : a < brk => a < brk + 1 /\ a # brk BY <2>3 DEF Heap
    <3> QED BY <3>1, <3>2
  <2>9. PendingApart(K)'
    <3>1. \A u \in Thread : Pending(u)' => /\ ins'[u] \in Heap /\ ins'[u] < brk'
                                           /\ ins'[u] \notin K /\ ~next'[ins'[u]].mark
      <4>1. brk < brk + 1 BY <2>3
      <4> QED BY <4>1, <1>2, <2>1, <2>3, <2>4, <2>5, <2>8 DEF Published, PendingApart
    <3>2. \A u, v \in Thread : Pending(u)' /\ Pending(v)' /\ ins'[u] = ins'[v] => u = v
      BY <2>4, <2>8 DEF Published, PendingApart
    <3>3. \A u \in Thread : pc'[u] = "insert_cas" => op'[u] = "insert" /\ next'[ins'[u]].ptr = right'[u]
      BY <1>2, <1>3, <1>4, <2>4 DEF Published, PendingApart
    <3> QED BY <3>1, <3>2, <3>3 DEF PendingApart
  <2>10. LocalsKnown(K)'
    BY <1>3, <1>4 DEF Published, LocalsKnown, Found
  <2> QED BY <2>6, <2>7, <2>9, <2>10 DEF Published
<1>6. CASE remove_item(t, k) \/ lookup_item(t, k)
  <2>1. brk' = brk /\ ins' = ins BY <1>6 DEF remove_item, lookup_item
  <2>2. PICK o2 \in {"remove", "find"} : Invoke(t, o2, k)
    BY <1>6 DEF remove_item, lookup_item
  <2>3. op'[t] # "insert" BY <2>2 DEF Invoke, TypeOK
  <2> QED BY <1>2, <1>3, <1>4, <2>1, <2>3, KnownStep DEF Pending, Found
<1> QED BY <1>5, <1>6

\* Storing a known node behind a known one.
LEMMA KnownStore ==
  ASSUME TypeOK, NEW K \in SUBSET Addr, NEW a \in K, NEW c \in K \ Heads,
         \/ Store(a, Unmarked(c))
         \/ a \notin Heads /\ Store(a, get_marked_reference(Unmarked(c)))
  PROVE  \A d \in Addr : \/ next'[d] = next[d]
                         \/ d \in K /\ next'[d].ptr \in K \ Heads /\ (d \in Heads => ~next'[d].mark)
BY StoreType

\* insertion->next is set; the node is still unknown.
LEMMA InsertTestPublished ==
  ASSUME TypeOK, NEW K \in SUBSET Addr, Published(K), NEW t \in Thread, InsertTest(t)
  PROVE  Published(K)'
<1>1. pc[t] = "found" /\ op[t] = "insert" /\ UNCHANGED <<brk, op, ins>>
  BY DEF InsertTest
<1>2. CASE FoundKey(t)
  <2>1. Goto(t, "ret") /\ SetLocals(t, Null, Null, Null, Null, Null) /\ next' = next
    BY <1>2 DEF InsertTest, Finish
  <2> QED BY <1>1, <2>1, ForgetStep
<1>3. CASE ~FoundKey(t)
  <2>1. Store(ins[t], Unmarked(right[t])) /\ Goto(t, "insert_cas") /\ UNCHANGED locals
    BY <1>3 DEF InsertTest
  <2>2. ins[t] \in Heap /\ ins[t] \in Addr /\ ins[t] \notin K /\ right[t] \in K \ Heads /\ left[t] \in K
    BY <1>1, Addresses DEF Published, PendingApart, Pending, LocalsKnown, Found
  <2>3. /\ next'[ins[t]].ptr = right[t] /\ ~next'[ins[t]].mark
        /\ \A d \in Addr : d # ins[t] => next'[d] = next[d]
    BY <2>1, <2>2, StoreType
  <2>4. pc'[t] = "insert_cas" /\ \A u \in Thread : u # t => pc'[u] = pc[u]
    BY <2>1, WentTo DEF PC
  <2>5. \A u \in Thread : Pending(u)' <=> Pending(u)
    BY <1>1, <2>4 DEF Pending
  <2>6. Closed(K)'
    BY <2>2, <2>3 DEF Published, Closed
  <2>7. Unused(K)'
    BY <1>1, <2>3, Addresses DEF Published, Unused
  <2>8. PendingApart(K)'
    <3>1. \A u \in Thread : Pending(u) => /\ ins[u] \in Heap /\ ins[u] < brk /\ ins[u] \notin K
                                          /\ ~next'[ins[u]].mark
      BY <2>3, Addresses DEF Published, PendingApart
    <3>2. \A u \in Thread : pc'[u] = "insert_cas" => op[u] = "insert" /\ next'[ins[u]].ptr = right[u]
      <4> SUFFICES ASSUME NEW u \in Thread, pc'[u] = "insert_cas", u # t
                   PROVE  op[u] = "insert" /\ next'[ins[u]].ptr = right[u]
        BY <1>1, <2>3
      <4>1. Pending(u) /\ Pending(t) /\ op[u] = "insert" /\ next[ins[u]].ptr = right[u]
        BY <1>1, <2>4 DEF Published, PendingApart, Pending
      <4>2. ins[u] # ins[t] /\ ins[u] \in Addr
        BY <4>1, Addresses DEF Published, PendingApart
      <4> QED BY <4>1, <4>2, <2>3
    <3> QED BY <1>1, <2>1, <2>5, <3>1, <3>2 DEF Published, PendingApart, locals
  <2>9. LocalsKnown(K)'
    BY <2>1, <2>2, <2>4 DEF Published, LocalsKnown, Found, locals
  <2> QED BY <2>6, <2>7, <2>8, <2>9 DEF Published
<1> QED BY <1>2, <1>3

\* The node becomes known: K grows by it.
LEMMA InsertCasPublished ==
  ASSUME TypeOK, NEW K \in SUBSET Addr, Published(K), NEW t \in Thread, InsertCas(t)
  PROVE  \E L \in SUBSET Addr : Published(L)'
<1>0. PICK n \in Heap \cup {Null} : n = ins[t]
  BY DEF TypeOK
<1>1. pc[t] = "insert_cas" /\ UNCHANGED <<brk, op, ins>>
  BY DEF InsertCas
<1>2. CASE ~CasSucceeds(left[t], Unmarked(right[t]))
  <2>1. Goto(t, "search") /\ SetLocals(t, Null, Null, Null, Null, Null) /\ next' = next
    BY <1>2 DEF InsertCas, Restart
  <2>2. Published(K)' BY <1>1, <2>1, ForgetStep
  <2> QED BY <2>2
<1>3. CASE CasSucceeds(left[t], Unmarked(right[t]))
  <2> DEFINE L == K \cup {n}
  <2>1. /\ Store(left[t], Unmarked(n)) /\ Goto(t, "ret")
        /\ SetLocals(t, Null, Null, Null, Null, Null)
    BY <1>0, <1>3 DEF InsertCas, Finish
  <2>2. Pending(t) /\ op[t] = "insert" /\ next[n].ptr = right[t] /\ right[t] \in K \ Heads /\ left[t] \in K
    BY <1>0, <1>1 DEF Published, PendingApart, Pending, LocalsKnown, Found
  <2>3. n \in Heap /\ n \in Addr /\ n < brk /\ n \notin K /\ ~next[n].mark /\ n \notin Heads
    BY <1>0, <2>2, Addresses DEF Published, PendingApart
  <2>4. /\ next'[left[t]].ptr = n /\ ~next'[left[t]].mark
        /\ \A d \in Addr : d # left[t] => next'[d] = next[d]
    BY <2>1, <2>2, <2>3, StoreType
  <2>5. pc'[t] = "ret" /\ \A u \in Thread : u # t => pc'[u] = pc[u]
    BY <2>1, WentTo DEF PC
  <2>6. \A u \in Thread : u # t => /\ node'[u] = node[u] /\ left'[u] = left[u]
                                   /\ leftNext'[u] = leftNext[u] /\ right'[u] = right[u]
                                   /\ rightNext'[u] = rightNext[u]
    BY <2>1, LocalsSet
  <2>7. \A u \in Thread : Pending(u)' <=> Pending(u) /\ u # t
    BY <1>1, <2>5 DEF Pending
  <2>8. Closed(L)'
    BY <2>2, <2>3, <2>4, Addresses DEF Published, Closed
  <2>9. Unused(L)'
    <3>1. \A a \in Heap : a >= brk => a # n
      <4>1. brk \in Int /\ Heap \subseteq Int
        BY BucketAssumption, NodesAssumption DEF TypeOK, HeapStart, HeapEnd, Heap
      <4> QED BY <4>1, <2>3
    <3>2. \A a \in Heap : a >= brk => a \notin K /\ a # left[t] /\ ~next[a].mark /\ a \in Addr
      BY <2>2, Addresses DEF Published, Unused
    <3> QED BY <1>1, <2>4, <3>1, <3>2 DEF Unused
  <2>10. \A u \in Thread : Pending(u) /\ u # t =>
           /\ ins[u] \in Heap /\ ins[u] < brk /\ ins[u] \notin L /\ ~next'[ins[u]].mark
           /\ next'[ins[u]] = next[ins[u]]
    BY <1>0, <2>2, <2>4, Addresses DEF Published, PendingApart
  <2>11. PendingApart(L)'
    <3>1. \A u \in Thread : pc'[u] = "insert_cas" => /\ Pending(u) /\ u # t /\ op[u] = "insert"
                                                     /\ next'[ins[u]].ptr = right'[u]
      BY <2>5, <2>6, <2>10 DEF Published, PendingApart, Pending
    <3>2. \A u, v \in Thread : Pending(u)' /\ Pending(v)' /\ ins[u] = ins[v] => u = v
      BY <2>7 DEF Published, PendingApart
    <3> QED BY <1>1, <2>7, <2>10, <3>1, <3>2 DEF PendingApart
  <2>12. LocalsKnown(L)'
    <3>1. \A u \in Thread : u # t =>
            /\ pc[u] = "load" => node[u] \in K \ Heads /\ left[u] \in K /\ leftNext[u] \in K
            /\ pc[u] = "unlink" => leftNext[u] \in K
            /\ pc[u] \in Found \cup {"unlink"} => left[u] \in K /\ right[u] \in K \ Heads
            /\ pc[u] \in {"mark_cas", "unlink_cas"} => rightNext[u] \in K \ Heads
      BY DEF Published, LocalsKnown
    <3> QED BY <2>5, <2>6, <3>1 DEF LocalsKnown, Found
  <2>13. Published(L)' BY <2>8, <2>9, <2>11, <2>12 DEF Published
  <2>14. L \in SUBSET Addr BY <2>3
  <2> QED BY <2>13, <2>14
<1> QED BY <1>2, <1>3

LEMMA StepPublished ==
  ASSUME TypeOK, NEW K \in SUBSET Addr, Published(K), NEW t \in Thread, Step(t), ~InsertCas(t)
  PROVE  Published(K)'
<1>1. CASE SearchHead(t) \/ SearchLoad(t) BY <1>1, SearchPublished
<1>2. CASE InsertTest(t) BY <1>2, InsertTestPublished
<1>3. CASE SearchUnlink(t)
  <2>1. pc[t] = "unlink" /\ UNCHANGED <<brk, op, ins>> BY <1>3 DEF SearchUnlink
  <2>2. left[t] \in K /\ right[t] \in K \ Heads BY <2>1 DEF Published, LocalsKnown
  <2>3. CASE CasSucceeds(left[t], Unmarked(leftNext[t]))
    <3>1. /\ Store(left[t], Unmarked(right[t])) /\ UNCHANGED locals
          /\ \E to \in {"recheck", "found", "remove_load"} : Goto(t, to)
      BY <1>3, <2>3 DEF SearchUnlink
    <3>2. \A d \in Addr : \/ next'[d] = next[d]
                          \/ d \in K /\ next'[d].ptr \in K \ Heads /\ (d \in Heads => ~next'[d].mark)
      BY <2>2, <3>1, KnownStore
    <3> QED BY <2>1, <3>1, <3>2, KeepStep DEF Found
  <2>4. CASE ~CasSucceeds(left[t], Unmarked(leftNext[t]))
    BY <1>3, <2>1, <2>4, ForgetStep DEF SearchUnlink, Restart
  <2> QED BY <2>3, <2>4
<1>4. CASE SearchRecheck(t)
  <2>1. pc[t] = "recheck" /\ UNCHANGED <<next, brk, op, ins>> BY <1>4 DEF SearchRecheck, heap
  <2>2. \/ Goto(t, "search") /\ SetLocals(t, Null, Null, Null, Null, Null)
        \/ Goto(t, "found") /\ UNCHANGED locals
    BY <1>4 DEF SearchRecheck, Restart
  <2> QED BY <2>1, <2>2, ForgetStep, KeepStep DEF Found
<1>5. CASE FindResult(t) \/ RemoveTest(t)
  <2>1. pc[t] = "found" /\ UNCHANGED <<next, brk, op, ins>> BY <1>5 DEF FindResult, RemoveTest, heap
  <2>2. \/ Goto(t, "ret") /\ SetLocals(t, Null, Null, Null, Null, Null)
        \/ Goto(t, "remove_load") /\ UNCHANGED locals
    BY <1>5 DEF FindResult, RemoveTest, Finish
  <2> QED BY <2>1, <2>2, ForgetStep, KeepStep DEF Found
<1>6. CASE RemoveLoad(t)
  <2>1. pc[t] = "remove_load" /\ UNCHANGED <<next, brk, op, ins>> BY <1>6 DEF RemoveLoad, heap
  <2>2. CASE Restart(t) BY <2>1, <2>2, ForgetStep DEF Restart
  <2>3. CASE /\ Goto(t, "mark_cas")
             /\ SetLocals(t, Null, left[t], Null, right[t], next[right[t]].ptr)
    <3>1. left[t] \in K /\ right[t] \in K \ Heads BY <2>1 DEF Published, LocalsKnown, Found
    <3>2. next[right[t]].ptr \in K \ Heads BY <3>1 DEF Published, Closed
    <3>3. pc'[t] = "mark_cas" /\ \A u \in Thread : u # t => pc'[u] = pc[u]
      BY <2>3, WentTo DEF PC
    <3>4. /\ left'[t] = left[t] /\ right'[t] = right[t] /\ rightNext'[t] = next[right[t]].ptr
          /\ \A u \in Thread : u # t => /\ node'[u] = node[u] /\ left'[u] = left[u]
                                        /\ leftNext'[u] = leftNext[u] /\ right'[u] = right[u]
                                        /\ rightNext'[u] = rightNext[u]
      BY <2>3 DEF SetLocals, TypeOK
    <3>5. Pending(t)' => Pending(t) /\ ins'[t] = ins[t] BY <2>1 DEF Pending
    <3> QED BY <2>1, <3>1, <3>2, <3>3, <3>4, <3>5, KnownStep
  <2> QED BY <1>6, <2>2, <2>3 DEF RemoveLoad
<1>7. CASE MarkCas(t)
  <2>1. pc[t] = "mark_cas" /\ UNCHANGED <<brk, op, ins>> BY <1>7 DEF MarkCas
  <2>2. right[t] \in K \ Heads /\ rightNext[t] \in K \ Heads BY <2>1 DEF Published, LocalsKnown, Found
  <2>3. CASE CasSucceeds(right[t], Unmarked(rightNext[t]))
    <3>1. /\ Store(right[t], get_marked_reference(Unmarked(rightNext[t]))) /\ UNCHANGED locals
          /\ Goto(t, "unlink_cas")
      BY <1>7, <2>3 DEF MarkCas
    <3>2. \A d \in Addr : \/ next'[d] = next[d]
                          \/ d \in K /\ next'[d].ptr \in K \ Heads /\ (d \in Heads => ~next'[d].mark)
      BY <2>2, <3>1, KnownStore
    <3> QED BY <2>1, <3>1, <3>2, KeepStep
  <2>4. CASE ~CasSucceeds(right[t], Unmarked(rightNext[t]))
    BY <1>7, <2>1, <2>4, ForgetStep DEF MarkCas, Restart
  <2> QED BY <2>3, <2>4
<1>8. CASE UnlinkCas(t)
  <2>1. pc[t] = "unlink_cas" /\ UNCHANGED <<brk, op, ins>> BY <1>8 DEF UnlinkCas
  <2>2. left[t] \in K /\ rightNext[t] \in K \ Heads BY <2>1 DEF Published, LocalsKnown, Found
  <2>3. CASE CasSucceeds(left[t], Unmarked(right[t]))
    <3>1. /\ Store(left[t], Unmarked(rightNext[t])) /\ Goto(t, "ret")
          /\ SetLocals(t, Null, Null, Null, Null, Null)
      BY <1>8, <2>3 DEF UnlinkCas, Finish
    <3>2. \A d \in Addr : \/ next'[d] = next[d]
                          \/ d \in K /\ next'[d].ptr \in K \ Heads /\ (d \in Heads => ~next'[d].mark)
      BY <2>2, <3>1, KnownStore
    <3> QED BY <2>1, <3>1, <3>2, ForgetStep
  <2>4. CASE ~CasSucceeds(left[t], Unmarked(right[t]))
    BY <1>8, <2>1, <2>4, ForgetStep DEF UnlinkCas, Restart
  <2> QED BY <2>3, <2>4
<1>9. CASE Return(t)
  <2>1. /\ pc' = [pc EXCEPT ![t] = "idle"] /\ op' = [op EXCEPT ![t] = "none"]
        /\ ins' = [ins EXCEPT ![t] = Null] /\ UNCHANGED <<next, brk, locals>>
    BY <1>9 DEF Return, Goto, heap
  <2>2. pc'[t] = "idle" /\ \A u \in Thread : u # t => pc'[u] = pc[u] /\ op'[u] = op[u] /\ ins'[u] = ins[u]
    BY <2>1 DEF TypeOK
  <2> QED BY <2>1, <2>2, KnownStep DEF Pending, Found, locals
<1> QED BY <1>1, <1>2, <1>3, <1>4, <1>5, <1>6, <1>7, <1>8, <1>9 DEF Step

-----------------------------------------------------------------------------
(* The theorems *)

LEMMA NextInv == Inv /\ [Next]_vars => Inv'
<1> SUFFICES ASSUME Inv, [Next]_vars PROVE Inv' OBVIOUS
<1> PICK K \in SUBSET Addr : TypeOK /\ Published(K) BY DEF Inv
<1>1. ASSUME NEW t \in Thread, NEW k \in Key, insert_item(t, k) \/ remove_item(t, k) \/ lookup_item(t, k)
      PROVE  Inv'
  BY <1>1, InvokeType, InvokePublished DEF Inv
<1>2. ASSUME NEW t \in Thread, Step(t) PROVE Inv'
  <2>1. TypeOK' BY <1>2, StepType
  <2>2. CASE InsertCas(t) BY <2>1, <2>2, InsertCasPublished DEF Inv
  <2>3. CASE ~InsertCas(t) BY <1>2, <2>1, <2>3, StepPublished DEF Inv
  <2> QED BY <2>2, <2>3
<1>3. CASE Printing \/ UNCHANGED vars
  <2>1. UNCHANGED <<key, next, brk, linked, pc, op, arg, ins, node, left, leftNext, right, rightNext, res, seen>>
    BY <1>3 DEF Printing, print_hashmap, PrintBucket, PrintTest, PrintAdvance, PrintReturn,
       PrintUnchanged, heap, locals, vars
  <2>2. TypeOK' BY <2>1 DEF TypeOK
  <2>3. Published(K)'
    BY <2>1 DEF Published, Closed, Unused, PendingApart, Pending, LocalsKnown
  <2> QED BY <2>2, <2>3 DEF Inv
<1> QED BY <1>1, <1>2, <1>3 DEF Next

\* Calls of lockfreehashmap.cpp keep every variable in its type, for any number of
\* threads; search in particular never loads through NULL.
THEOREM TypeCorrect == Spec => []TypeOK
<1>1. Inv => TypeOK BY DEF Inv
<1> QED BY <1>1, InitInv, NextInv, PTL DEF Spec

LEMMA NextFrozen ==
  ASSUME Inv, [Next]_vars PROVE \A a \in Addr : next[a].mark => next'[a] = next[a]
<1> SUFFICES ASSUME NEW a \in Addr, next[a].mark PROVE next'[a] = next[a]
  OBVIOUS
<1> PICK K \in SUBSET Addr : TypeOK /\ Published(K) BY DEF Inv
<1>1. \A b, c \in Addr \cup {Null} : CasSucceeds(b, Unmarked(c)) => b # a
  BY DEF CasSucceeds, Unmarked
<1>2. \A b, r : b # a /\ Store(b, r) => next'[a] = next[a]
  BY DEF Store, TypeOK
<1>3. ASSUME NEW t \in Thread, Step(t) PROVE next'[a] = next[a]
  <2>1. CASE InsertTest(t)
    <3>1. ins[t] # a
      BY <2>1 DEF InsertTest, Published, PendingApart, Pending
    <3> QED BY <2>1, <3>1, <1>2 DEF InsertTest
  <2>2. CASE SearchUnlink(t) \/ InsertCas(t) \/ UnlinkCas(t)
    <3>1. \/ next' = next
          \/ \E c \in Addr \cup {Null} : CasSucceeds(left[t], Unmarked(c))
                                        /\ \E r : Store(left[t], r)
      BY <2>2 DEF SearchUnlink, InsertCas, UnlinkCas, TypeOK
    <3>2. left[t] \in Addr \cup {Null} BY DEF TypeOK
    <3> QED BY <3>1, <3>2, <1>1, <1>2
  <2>3. CASE MarkCas(t)
    <3>1. next' = next \/ (CasSucceeds(right[t], Unmarked(rightNext[t])) /\ \E r : Store(right[t], r))
      BY <2>3 DEF MarkCas
    <3>2. right[t] \in Addr \cup {Null} /\ rightNext[t] \in Addr \cup {Null} BY DEF TypeOK
    <3> QED BY <3>1, <3>2, <1>1, <1>2
  <2>4. CASE ~InsertTest(t) /\ ~SearchUnlink(t) /\ ~InsertCas(t) /\ ~MarkCas(t) /\ ~UnlinkCas(t)
    BY <1>3, <2>4 DEF Step, SearchHead, SearchLoad, SearchRecheck, FindResult, RemoveTest,
       RemoveLoad, Return, heap
  <2> QED BY <2>1, <2>2, <2>3, <2>4
<1>4. ASSUME NEW t \in Thread, NEW k \in Key, insert_item(t, k) \/ remove_item(t, k) \/ lookup_item(t, k)
      PROVE  next' = next
  BY <1>4 DEF insert_item, remove_item, lookup_item, Invoke
<1>5. CASE Printing \/ UNCHANGED vars
  BY <1>5 DEF Printing, print_hashmap, PrintBucket, PrintTest, PrintAdvance, PrintReturn,
     PrintUnchanged, heap, vars
<1> QED BY <1>3, <1>4, <1>5 DEF Next

\* The next reference of a marked node of lockfreehashmap.cpp never changes again,
\* for any number of threads: compare-and-swap refuses a marked reference, and
\* the one plain store is to a node that nobody else can have marked.
THEOREM MarkedFrozenHolds == Spec => MarkedFrozen
<1>1. Inv /\ [Next]_vars => [\A a \in Addr : next[a].mark => next'[a] = next[a]]_vars
  BY NextFrozen
<1> QED BY <1>1, InitInv, NextInv, PTL DEF Spec, MarkedFrozen

-----------------------------------------------------------------------------
Tails == {TailOf(b) : b \in Bucket}

-----------------------------------------------------------------------------
(* Nodes, buckets and their order *)

\* The nodes that are or have been in a list: only marked nodes leave one.
Known == (Addr \ Heap) \cup linked \cup {a \in Heap : next[a].mark}

\* a is a node, or a sentinel, of bucket b.
In(a, b) == IF a \in Heap THEN getIndex(key[a]) = b ELSE a \in {HeadOf(b), TailOf(b)}

\* a comes before c: heads before all others, tails behind all others.
Lt(a, c) == \/ a \in Heads /\ c \notin Heads
            \/ a \notin Tails /\ c \in Tails
            \/ a \in Heap /\ c \in Heap /\ key[a] < key[c]

\* a comes before the place of key k; a is at that place or behind it.
Below(a, k) == a \in Heads \/ (a \in Heap /\ key[a] < k)
AtLeast(a, k) == a \in Tails \/ (a \in Heap /\ k <= key[a])

\* The nodes in the list of bucket b
Nodes(b) == {n \in linked : getIndex(key[n]) = b}

-----------------------------------------------------------------------------
(* The lists *)

Allocated == (\A a \in Known \cap Heap : a < brk) /\ \A a \in Addr \ Heap : ~next[a].mark

\* References lead on in the same bucket, those of removed nodes as well.
Ordered == \A b \in Bucket, a \in Known : In(a, b) /\ a # TailOf(b) =>
  LET m == next[a].ptr IN m \in Known /\ In(m, b) /\ Lt(a, m)

\* References of nodes in the list skip no node in the list.
Adjacent == \A b \in Bucket : \A n \in {HeadOf(b)} \cup Nodes(b) :
  LET m == next[n].ptr IN
  /\ m \in Nodes(b) \cup {TailOf(b)}
  /\ \A x \in Nodes(b) : ~ (Lt(n, x) /\ Lt(x, m))

Ends == \A a \in Tails : next[a].ptr = a

Distinct == \A x, y \in linked : key[x] = key[y] => x = y

Lists == Allocated /\ Ordered /\ Adjacent /\ Distinct

\* A node that is not inserted yet is known to its thread alone.
Private ==
  /\ \A t \in Thread : Pending(t) => /\ ins[t] \in Heap /\ ins[t] < brk /\ ins[t] \notin Known
                                     /\ key[ins[t]] = arg[t]
  /\ \A t, u \in Thread : Pending(t) /\ Pending(u) /\ ins[t] = ins[u] => t = u

-----------------------------------------------------------------------------
(* What a call knows of the list it works on *)

Has(t) == arg[t] \in Contents
Bkt(t) == getIndex(arg[t])

\* Marked nodes lead from leftNext to a.
Chain(t, a) == \A S \in SUBSET Addr :
  leftNext[t] \in S /\ (\A c \in S : next[c].mark => next[c].ptr \in S) => a \in S

Mine(t, a) == a \in Known /\ In(a, Bkt(t))

Loading(t) ==
  /\ Mine(t, left[t]) /\ Mine(t, leftNext[t]) /\ Mine(t, node[t])
  /\ Below(left[t], arg[t]) /\ node[t] \in Heap
  /\ Chain(t, node[t])
  /\ leftNext[t] = node[t] \/ Lt(leftNext[t], node[t])
  /\ leftNext[t] = node[t] /\ arg[t] < key[node[t]] => FALSE \in seen[t]

\* left and right enclose the place of the key.
Enclosed(t) ==
  /\ Mine(t, left[t]) /\ Mine(t, right[t])
  /\ Below(left[t], arg[t]) /\ AtLeast(right[t], arg[t])
  /\ FoundKey(t) => TRUE \in seen[t]

LocalOK(t) ==
  /\ pc[t] = "load" => Loading(t)
  /\ pc[t] \in Found \cup {"unlink"} => Enclosed(t)
  /\ pc[t] = "unlink" => Mine(t, leftNext[t]) /\ Chain(t, right[t])
  /\ pc[t] \in {"recheck", "found"} /\ ~FoundKey(t) => FALSE \in seen[t]
  /\ pc[t] = "insert_cas" => op[t] = "insert" /\ ~FoundKey(t) /\ next[ins[t]] = Unmarked(right[t])
  /\ pc[t] \in {"remove_load", "mark_cas", "unlink_cas"} => op[t] = "remove" /\ FoundKey(t)
  /\ pc[t] = "unlink_cas" => next[right[t]] = get_marked_reference(Unmarked(rightNext[t]))

\* The answer of a call is settled when it returns, or when remove has marked a node.
Phase(t) ==
  /\ op[t] = "none" <=> pc[t] = "idle"
  /\ pc[t] = "ret" => res[t] # "none"
  /\ pc[t] = "unlink_cas" => res[t] = "yes"
  /\ pc[t] \in {"idle", "remove_load", "mark_cas"} => res[t] = "none"
  /\ pc[t] # "ret" /\ res[t] # "none" => op[t] = "remove" /\ res[t] = "yes"

\* seen is up to date.
Witnessed(t) == op[t] # "none" => Has(t) \in seen[t]

\* t is going to take the marked node n out of the list.
Duty(t, n) ==
  /\ op[t] = "remove" /\ res[t] = "yes" /\ arg[t] = key[n]
  /\ \/ pc[t] = "search"
     \/ pc[t] = "load" /\ (leftNext[t] = node[t] => n = node[t] \/ Lt(node[t], n))
     \/ pc[t] = "unlink" /\ right[t] # n
     \/ pc[t] = "unlink_cas" /\ right[t] = n
Cleaned == \A n \in linked : next[n].mark => \E t \in Thread : Duty(t, n)

-----------------------------------------------------------------------------
(* The order of the nodes of a bucket *)

LEMMA Places ==
  /\ Heads \subseteq Addr \ Heap /\ Tails \subseteq Addr \ Heap /\ Heads \cap Tails = {}
  /\ Addr \ Heap \subseteq Heads \cup Tails /\ Heap \subseteq Addr
  /\ \A b \in Bucket : HeadOf(b) \in Heads /\ TailOf(b) \in Tails
  /\ \A b, c \in Bucket : (HeadOf(b) = HeadOf(c) => b = c) /\ (TailOf(b) = TailOf(c) => b = c)
<1>1. HeapStart = 2 * NBuckets /\ HeapStart \in Nat /\ HeapEnd \in Nat /\ HeapStart <= HeapEnd
  BY BucketAssumption, NodesAssumption DEF HeapStart, HeapEnd
<1>2. Addr \ Heap = 0 .. 2 * NBuckets - 1 /\ Heap \subseteq Addr
  BY <1>1 DEF Addr, Heap
<1>3. \A b \in Bucket : HeadOf(b) \in 0 .. 2 * NBuckets - 1 /\ TailOf(b) \in 0 .. 2 * NBuckets - 1
  BY BucketAssumption DEF Bucket, HeadOf, TailOf
<1>4. \A b, c \in Bucket : HeadOf(b) # TailOf(c)
  BY BucketAssumption DEF Bucket, HeadOf, TailOf
<1>5. \A b, c \in Bucket : (HeadOf(b) = HeadOf(c) => b = c) /\ (TailOf(b) = TailOf(c) => b = c)
  BY BucketAssumption DEF Bucket, HeadOf, TailOf
<1>6. ASSUME NEW a \in 0 .. 2 * NBuckets - 1 PROVE a \in Heads \cup Tails
  <2>1. PICK b \in Bucket : a = 2 * b \/ a = 2 * b + 1
    <3>1. a \div 2 \in Bucket /\ (a = 2 * (a \div 2) \/ a = 2 * (a \div 2) + 1)
      BY BucketAssumption DEF Bucket
    <3> QED BY <3>1
  <2> QED BY <2>1 DEF Heads, Tails, HeadOf, TailOf
<1> QED BY <1>2, <1>3, <1>4, <1>5, <1>6 DEF Heads, Tails

LEMMA Order ==
  ASSUME TypeOK
  PROVE  /\ \A a, c, e \in Addr : Lt(a, c) /\ Lt(c, e) => Lt(a, e)
         /\ \A a \in Addr : ~ Lt(a, a)
         /\ \A a, c \in Addr, k \in Int : Below(a, k) /\ AtLeast(c, k) => Lt(a, c)
<1> USE DEF TypeOK
<1>1. ASSUME NEW a \in Addr, NEW c \in Addr, NEW e \in Addr, Lt(a, c), Lt(c, e) PROVE Lt(a, e)
  <2>1. a \in Heap /\ c \in Heap /\ e \in Heap => key[a] \in Int /\ key[c] \in Int /\ key[e] \in Int
    BY Places
  <2> QED BY <1>1, <2>1, Places DEF Lt
<1>2. ASSUME NEW a \in Addr PROVE ~ Lt(a, a)
  <2>1. a \in Heap => key[a] \in Int
    BY Places
  <2> QED BY <2>1, Places DEF Lt
<1>3. ASSUME NEW a \in Addr, NEW c \in Addr, NEW k \in Int, Below(a, k), AtLeast(c, k) PROVE Lt(a, c)
  <2>1. a \in Heap /\ c \in Heap => key[a] \in Int /\ key[c] \in Int
    BY Places
  <2> QED BY <1>3, <2>1, Places DEF Lt, Below, AtLeast
<1> QED BY <1>1, <1>2, <1>3

\* Two nodes of a bucket are in this or that order, or have the same key.
LEMMA Total ==
  ASSUME TypeOK, NEW b \in Bucket, NEW a \in Addr, NEW c \in Addr, In(a, b), In(c, b)
  PROVE  \/ a = c \/ Lt(a, c) \/ Lt(c, a)
         \/ a \in Heap /\ c \in Heap /\ key[a] = key[c]
<1>1. a \in Heap /\ c \in Heap => key[a] \in Int /\ key[c] \in Int
  BY Places DEF TypeOK
<1> QED BY <1>1, Places DEF In, Lt

LEMMA KnownType == ASSUME TypeOK PROVE Known \subseteq Addr /\ linked \subseteq Known /\ linked \subseteq Heap
BY Places DEF TypeOK, Known

\* The nodes in the list of a bucket, and its sentinels, belong to it.
LEMMA Members ==
  ASSUME TypeOK, NEW b \in Bucket
  PROVE  /\ Nodes(b) \subseteq linked /\ Nodes(b) \subseteq Heap
         /\ \A a \in Nodes(b) \cup {HeadOf(b), TailOf(b)} : In(a, b) /\ a \in Known /\ a \in Addr
         /\ \A a \in Known : In(a, b) /\ ~ next[a].mark => a \in Nodes(b) \cup {HeadOf(b), TailOf(b)}
         /\ \A a \in Nodes(b) : Lt(HeadOf(b), a) /\ Lt(a, TailOf(b))
BY Places DEF TypeOK, Nodes, In, Known, Lt

-----------------------------------------------------------------------------
(* Steps that leave the lists alone *)

\* Nothing happens to the keys and references of known nodes.
LEMMA QuietLists ==
  ASSUME TypeOK, TypeOK', Lists, linked' = linked, brk <= brk',
         \A a \in Known : next'[a] = next[a],
         \A a \in Heap \ Known : ~ next'[a].mark,
         \A a \in Heap : a < brk => key'[a] = key[a]
  PROVE  Lists' /\ Known' = Known
<1> USE DEF Lists
<1>1. Known' = Known
  <2>1. \A a \in Heap : next'[a].mark <=> next[a].mark
    BY DEF Known
  <2> QED BY <2>1 DEF Known
<1>2. \A a \in Known : a \in Heap => key'[a] = key[a]
  BY DEF Allocated
<1>3. \A a \in Known, b \in Bucket : In(a, b)' <=> In(a, b)
  BY <1>2 DEF In
<1>4. \A a, c \in Known : Lt(a, c)' <=> Lt(a, c)
  BY <1>2 DEF Lt
<1>5. \A b \in Bucket : Nodes(b)' = Nodes(b)
  BY <1>2, KnownType DEF Nodes
<1>6. Allocated'
  <2>1. \A a \in Known \cap Heap : a < brk /\ a \in Int
    BY NodesAssumption, BucketAssumption DEF Allocated, Heap, HeapStart, HeapEnd
  <2>2. brk \in Int /\ brk' \in Int
    BY BucketAssumption, NodesAssumption DEF TypeOK, HeapStart, HeapEnd
  <2>3. \A a \in Known \cap Heap : a < brk'
    BY <2>1, <2>2
  <2>4. \A a \in Addr \ Heap : ~next'[a].mark
    BY DEF Known, Allocated
  <2> QED BY <1>1, <2>3, <2>4 DEF Allocated
<1>7. Ordered'
  BY <1>1, <1>3, <1>4 DEF Ordered
<1>8. Adjacent'
  <2> SUFFICES ASSUME NEW b \in Bucket, NEW n \in {HeadOf(b)} \cup Nodes(b)
               PROVE  /\ next'[n].ptr \in Nodes(b) \cup {TailOf(b)}
                      /\ \A x \in Nodes(b) : ~ (Lt(n, x)' /\ Lt(x, next[n].ptr)')
    BY <1>5 DEF Adjacent
  <2>1. n \in Known /\ next'[n] = next[n]
    BY Members
  <2>2. next[n].ptr \in Nodes(b) \cup {TailOf(b)} /\ \A x \in Nodes(b) : ~ (Lt(n, x) /\ Lt(x, next[n].ptr))
    BY DEF Adjacent
  <2>3. next[n].ptr \in Known /\ \A x \in Nodes(b) : x \in Known
    BY <2>2, Members
  <2>4. \A x \in Nodes(b) : (Lt(n, x)' <=> Lt(n, x)) /\ (Lt(x, next[n].ptr)' <=> Lt(x, next[n].ptr))
    <3> SUFFICES ASSUME NEW m \in Known, m = next'[n].ptr, NEW x \in Nodes(b)
                 PROVE  (Lt(n, x)' <=> Lt(n, x)) /\ (Lt(x, m)' <=> Lt(x, m))
      BY <2>1, <2>3
    <3> QED BY <1>4, <2>1, <2>3
  <2> QED BY <2>1, <2>2, <2>4
<1>9. Distinct'
  BY <1>2, KnownType DEF Distinct
<1> QED BY <1>1, <1>6, <1>7, <1>8, <1>9

-----------------------------------------------------------------------------
(* Insertion, removal and the unlinking of removed nodes *)

\* The keys stay, and with them the order.
LEMMA SameOrder ==
  ASSUME key' = key
  PROVE  /\ \A a, b : In(a, b)' <=> In(a, b)
         /\ \A a, c : Lt(a, c)' <=> Lt(a, c)
BY DEF In, Lt

\* What lies between l and r leaves the list of bucket b; it is all marked.
LEMMA UnlinkLists ==
  ASSUME TypeOK, TypeOK', Lists, UNCHANGED <<key, brk>>,
         NEW b \in Bucket, NEW l \in {HeadOf(b)} \cup Nodes(b), NEW r \in Nodes(b) \cup {TailOf(b)},
         Lt(l, r), ~ next[l].mark,
         \A x \in Nodes(b) : Lt(l, x) /\ Lt(x, r) => next[x].mark,
         next' = [next EXCEPT ![l] = Unmarked(r)],
         linked' = linked \ {x \in Nodes(b) : Lt(l, x) /\ Lt(x, r)}
  PROVE  Lists' /\ Known' = Known
<1> USE DEF Lists
<1> DEFINE Gone == {x \in Nodes(b) : Lt(l, x) /\ Lt(x, r)}
<1>1. /\ l \in Addr /\ l \in Known /\ In(l, b) /\ l # TailOf(b)
      /\ r \in Known /\ r \in Addr /\ In(r, b) /\ r # HeadOf(b)
  BY Members, Places
<1>2. /\ next'[l] = Unmarked(r) /\ next'[l].ptr = r /\ ~ next'[l].mark
      /\ \A a \in Addr : a # l => next'[a] = next[a]
  BY <1>1 DEF TypeOK, Unmarked
<1>3. Known' = Known
  <2>1. \A a \in Addr : next'[a].mark <=> next[a].mark
    BY <1>2
  <2>2. \A a \in Gone : a \in Heap /\ next[a].mark
    BY Members
  <2> QED BY <2>1, <2>2, Places DEF Known
<1>4. Allocated'
  BY <1>2, <1>3, Places DEF Allocated
<1>5. Ordered'
  <2> SUFFICES ASSUME NEW c \in Bucket, NEW a \in Known, In(a, c), a # TailOf(c)
               PROVE  next'[a].ptr \in Known /\ In(next'[a].ptr, c) /\ Lt(a, next'[a].ptr)
    BY <1>3, SameOrder DEF Ordered
  <2>1. CASE a = l
    <3>1. c = b
      BY <1>1, <2>1, Members, Places DEF In
    <3> QED BY <1>1, <1>2, <2>1, <3>1
  <2>2. CASE a # l
    BY <1>2, <2>2, KnownType DEF Ordered
  <2> QED BY <2>1, <2>2
<1>6. /\ \A c \in Bucket : c # b => Nodes(c)' = Nodes(c)
      /\ Nodes(b)' = Nodes(b) \ Gone
  BY DEF Nodes
<1>7. Adjacent'
  <2> SUFFICES ASSUME NEW c \in Bucket, NEW n \in {HeadOf(c)} \cup Nodes(c)'
               PROVE  /\ next'[n].ptr \in Nodes(c)' \cup {TailOf(c)}
                      /\ \A x \in Nodes(c)' : ~ (Lt(n, x) /\ Lt(x, next'[n].ptr))
    BY SameOrder DEF Adjacent
  <2>1. n \in {HeadOf(c)} \cup Nodes(c) /\ n \in Addr /\ n \in Known /\ In(n, c)
    BY <1>6, Members
  <2>2. CASE n = l
    <3>1. c = b
      BY <1>1, <2>1, <2>2, Members, Places DEF In
    <3>2. r \notin Gone
      BY <1>1, Order
    <3> QED BY <1>2, <1>6, <2>2, <3>1, <3>2
  <2>3. CASE n # l
    <3>1. next'[n] = next[n]
      BY <1>2, <2>1, <2>3
    <3>2. PICK m : m = next[n].ptr
      OBVIOUS
    <3>3. m \in Nodes(c) \cup {TailOf(c)} /\ \A x \in Nodes(c) : ~ (Lt(n, x) /\ Lt(x, m))
      BY <2>1, <3>2 DEF Adjacent
    <3>4. CASE c # b
      BY <1>6, <3>1, <3>2, <3>3, <3>4
    <3>5. CASE c = b /\ m \in Gone
      <4>1. m \in Addr /\ Lt(l, m) /\ Lt(m, r) /\ Lt(n, m)
        <5>1. n # TailOf(b)
          BY <2>1, <3>5, Members, Places
        <5> QED BY <2>1, <3>2, <3>5, <5>1, Members DEF Ordered
      <4>2. ~ Lt(n, l)
        <5>1. CASE l = HeadOf(b)
          BY <2>1, <3>5, <5>1, Places, Members DEF Lt
        <5>2. CASE l \in Nodes(b)
          BY <3>3, <3>5, <4>1, <5>2
        <5> QED BY <5>1, <5>2
      <4>3. Lt(l, n)
        <5>1. \/ n = l \/ Lt(n, l) \/ Lt(l, n)
              \/ n \in Heap /\ l \in Heap /\ key[n] = key[l]
          BY <1>1, <2>1, <3>5, Total
        <5>2. ~ (n \in Heap /\ l \in Heap /\ key[n] = key[l])
          BY <1>1, <2>1, <2>3, <3>5, Places, Members DEF Distinct
        <5> QED BY <2>3, <4>2, <5>1, <5>2
      <4>4. Lt(n, r)
        BY <1>1, <2>1, <4>1, Order
      <4>5. n \in Nodes(b)
        BY <1>1, <2>1, <3>5, <4>3, Places, Members DEF Lt
      <4> QED BY <1>6, <3>5, <4>3, <4>4, <4>5, <2>1, Places, Members
    <3>6. CASE c = b /\ m \notin Gone
      BY <1>6, <3>1, <3>2, <3>3, <3>6
    <3> QED BY <3>4, <3>5, <3>6
  <2> QED BY <2>2, <2>3
<1>8. Distinct'
  BY DEF Distinct
<1> QED BY <1>3, <1>4, <1>5, <1>7, <1>8

\* A node n is inserted between two neighbours.
LEMMA InsertLists ==
  ASSUME TypeOK, TypeOK', Lists, UNCHANGED <<key, brk>>,
         NEW b \in Bucket, NEW l \in {HeadOf(b)} \cup Nodes(b), NEW r \in Addr, next[l] = Unmarked(r),
         NEW n \in Heap \ Known, n < brk, getIndex(key[n]) = b, Lt(l, n), Lt(n, r), next[n] = Unmarked(r),
         next' = [next EXCEPT ![l] = Unmarked(n)],
         linked' = linked \cup {n}
  PROVE  /\ Lists' /\ Known' = Known \cup {n}
         /\ \A x \in linked : key[x] # key[n]
<1> USE DEF Lists
<1>1. /\ l \in Addr /\ l \in Known /\ In(l, b) /\ l # TailOf(b) /\ l # n
      /\ n \in Addr /\ In(n, b) /\ n # TailOf(b) /\ n # HeadOf(b)
  BY Members, Places DEF In
<1>2. /\ next[l].ptr = r /\ ~ next[l].mark /\ next[n].ptr = r /\ ~ next[n].mark
      /\ next'[l].ptr = n /\ ~ next'[l].mark
      /\ \A a \in Addr : a # l => next'[a] = next[a]
  BY <1>1 DEF TypeOK, Unmarked
<1>3. /\ r \in Nodes(b) \cup {TailOf(b)} /\ r \in Known /\ In(r, b)
      /\ \A x \in Nodes(b) : ~ (Lt(l, x) /\ Lt(x, r))
  BY <1>2, Members DEF Adjacent
<1>4. Known' = Known \cup {n}
  <2>1. \A a \in Addr : next'[a].mark <=> next[a].mark
    BY <1>2
  <2> QED BY <2>1, Places DEF Known
<1>5. Allocated'
  BY <1>1, <1>2, <1>4, Places DEF Allocated
<1>6. Ordered'
  <2> SUFFICES ASSUME NEW c \in Bucket, NEW a \in Known \cup {n}, In(a, c), a # TailOf(c)
               PROVE  next'[a].ptr \in Known \cup {n} /\ In(next'[a].ptr, c) /\ Lt(a, next'[a].ptr)
    BY <1>4, SameOrder DEF Ordered
  <2>1. CASE a = l
    <3>1. c = b
      BY <1>1, <2>1, Members, Places DEF In
    <3> QED BY <1>1, <1>2, <2>1, <3>1
  <2>2. CASE a = n
    <3>1. c = b
      BY <1>1, <2>2 DEF In
    <3> QED BY <1>1, <1>2, <1>3, <2>2, <3>1
  <2>3. CASE a # l /\ a # n
    BY <1>2, <2>3, KnownType DEF Ordered
  <2> QED BY <2>1, <2>2, <2>3
<1>7. /\ \A c \in Bucket : c # b => Nodes(c)' = Nodes(c)
      /\ Nodes(b)' = Nodes(b) \cup {n}
  BY DEF Nodes
<1>8. ASSUME NEW x \in linked, key[x] = key[n] PROVE FALSE
  <2>1. x \in Nodes(b) /\ x \in Heap /\ x \in Addr
    BY <1>8, KnownType, Places DEF Nodes
  <2>2. Lt(l, x) /\ Lt(x, r)
    BY <1>1, <1>3, <1>8, <2>1, Places DEF Lt
  <2> QED BY <1>3, <2>1, <2>2
<1>9. Adjacent'
  <2> SUFFICES ASSUME NEW c \in Bucket, NEW a \in {HeadOf(c)} \cup Nodes(c)'
               PROVE  /\ next'[a].ptr \in Nodes(c)' \cup {TailOf(c)}
                      /\ \A x \in Nodes(c)' : ~ (Lt(a, x) /\ Lt(x, next'[a].ptr))
    BY SameOrder DEF Adjacent
  <2>1. CASE a = l
    <3>1. c = b
      <4>1. a \in Nodes(c) \cup {HeadOf(c)}
        BY <1>1, <1>7, <2>1
      <4> QED BY <1>1, <2>1, <4>1, Members, Places DEF In
    <3>2. ASSUME NEW x \in Nodes(b) \cup {n}, Lt(l, x), Lt(x, n) PROVE FALSE
      <4>1. x \in Addr /\ Lt(x, r)
        BY <1>1, <3>2, Members, Order
      <4>2. x # n
        BY <1>1, <3>2, Order
      <4> QED BY <1>3, <3>2, <4>1, <4>2
    <3> QED BY <1>2, <1>7, <2>1, <3>1, <3>2
  <2>2. CASE a = n
    <3>1. c = b
      BY <1>1, <1>7, <2>2, Places, KnownType DEF Nodes
    <3>2. ASSUME NEW x \in Nodes(b) \cup {n}, Lt(n, x), Lt(x, r) PROVE FALSE
      <4>1. x \in Addr /\ Lt(l, x)
        BY <1>1, <3>2, Members, Order
      <4>2. x # n
        BY <1>1, <3>2, Order
      <4> QED BY <1>3, <3>2, <4>1, <4>2
    <3> QED BY <1>1, <1>2, <1>3, <1>7, <2>2, <3>1, <3>2
  <2>3. CASE a # l /\ a # n
    <3>1. a \in {HeadOf(c)} \cup Nodes(c) /\ a \in Addr /\ In(a, c) /\ a \in Known
      BY <1>7, <2>3, Members
    <3>2. next'[a] = next[a]
      BY <1>2, <2>3, <3>1
    <3>3. PICK m : m = next[a].ptr
      OBVIOUS
    <3>4. m \in Nodes(c) \cup {TailOf(c)} /\ \A x \in Nodes(c) : ~ (Lt(a, x) /\ Lt(x, m))
      BY <3>1, <3>3 DEF Adjacent
    <3>5. CASE c # b
      BY <1>7, <3>2, <3>3, <3>4, <3>5
    <3>6. CASE c = b
      <4> SUFFICES ASSUME Lt(a, n), Lt(n, m) PROVE FALSE
        BY <1>7, <3>2, <3>3, <3>4, <3>6
      <4>1. m \in Addr
        BY <3>4, Members
      <4>2. ~ Lt(l, a)
        <5>1. Lt(l, a) => Lt(a, r)
          BY <1>1, <3>1, Order
        <5>2. Lt(l, a) => a \in Nodes(b)
          BY <1>1, <3>1, <3>6, Places DEF Lt
        <5> QED BY <1>3, <5>1, <5>2
      <4>3. Lt(a, l)
        <5>1. \/ a = l \/ Lt(a, l) \/ Lt(l, a)
              \/ a \in Heap /\ l \in Heap /\ key[a] = key[l]
          BY <1>1, <3>1, <3>6, Total
        <5>2. ~ (a \in Heap /\ l \in Heap /\ key[a] = key[l])
          BY <1>1, <2>3, <3>1, <3>6, Places, Members DEF Distinct
        <5> QED BY <2>3, <4>2, <5>1, <5>2
      <4>4. Lt(l, m) /\ l \in Nodes(b)
        BY <1>1, <3>1, <4>1, <4>3, Order, Places DEF Lt
      <4> QED BY <3>4, <3>6, <4>3, <4>4
    <3> QED BY <3>5, <3>6
  <2> QED BY <2>1, <2>2, <2>3
<1>10. Distinct'
  BY <1>8 DEF Distinct
<1> QED BY <1>4, <1>5, <1>6, <1>8, <1>9, <1>10

\* A node is removed logically: it is marked and stays where it is.
LEMMA MarkLists ==
  ASSUME TypeOK, TypeOK', Lists, UNCHANGED <<key, brk, linked>>, NEW n \in linked,
         next' = [next EXCEPT ![n] = get_marked_reference(next[n])]
  PROVE  Lists' /\ Known' = Known
<1> USE DEF Lists
<1>1. n \in Heap /\ n \in Addr /\ n \in Known
  BY KnownType, Places
<1>2. /\ next'[n].ptr = next[n].ptr /\ next'[n].mark
      /\ \A a \in Addr : a # n => next'[a] = next[a]
  BY <1>1 DEF TypeOK, get_marked_reference, Ref
<1>3. \A a \in Addr : next'[a].ptr = next[a].ptr
  BY <1>2
<1>4. Known' = Known
  BY <1>1, <1>2, Places DEF Known
<1>5. Allocated'
  BY <1>1, <1>2, <1>4 DEF Allocated
<1>6. Ordered'
  BY <1>3, <1>4, SameOrder, KnownType DEF Ordered
<1>7. \A b \in Bucket : Nodes(b)' = Nodes(b)
  BY DEF Nodes
<1>8. Adjacent'
  <2> SUFFICES ASSUME NEW b \in Bucket, NEW a \in {HeadOf(b)} \cup Nodes(b)
               PROVE  /\ next'[a].ptr \in Nodes(b) \cup {TailOf(b)}
                      /\ \A x \in Nodes(b) : ~ (Lt(a, x) /\ Lt(x, next'[a].ptr))
    BY <1>7, SameOrder DEF Adjacent
  <2>1. a \in Addr
    BY Members
  <2> QED BY <1>3, <2>1 DEF Adjacent
<1>9. Distinct'
  BY DEF Distinct
<1> QED BY <1>4, <1>5, <1>6, <1>8, <1>9

\* When marked nodes lead from the successor of l to r, then r is in the list and
\* whatever lies between l and r is marked.
LEMMA ChainLeads ==
  ASSUME TypeOK, Lists, NEW t \in Thread, NEW b \in Bucket, NEW l \in {HeadOf(b)} \cup Nodes(b),
         leftNext[t] = next[l].ptr, NEW r, Chain(t, r)
  PROVE  /\ r \in Nodes(b) \cup {TailOf(b)}
         /\ \A x \in Nodes(b) : Lt(l, x) /\ Lt(x, r) => next[x].mark
<1> USE DEF Lists
<1> DEFINE S == {a \in Nodes(b) \cup {TailOf(b)} : \A x \in Nodes(b) : Lt(l, x) /\ Lt(x, a) => next[x].mark}
<1>1. S \in SUBSET Addr
  BY Members
<1>2. leftNext[t] \in S
  BY DEF Adjacent
<1>3. ASSUME NEW c \in S, next[c].mark PROVE next[c].ptr \in S
  <2>1. c \in Nodes(b) /\ c \in Addr /\ In(c, b)
    BY <1>3, Members, Places DEF Allocated
  <2>2. PICK m : m = next[c].ptr
    OBVIOUS
  <2>3. m \in Nodes(b) \cup {TailOf(b)} /\ \A x \in Nodes(b) : ~ (Lt(c, x) /\ Lt(x, m))
    BY <2>1, <2>2 DEF Adjacent
  <2>4. ASSUME NEW x \in Nodes(b), Lt(l, x), Lt(x, m) PROVE next[x].mark
    <3>1. x \in Addr /\ In(x, b) /\ x \in linked /\ c \in linked
      BY <2>1, Members
    <3>2. x = c \/ Lt(x, c) \/ Lt(c, x) \/ key[x] = key[c]
      BY <2>1, <3>1, Total
    <3>3. x = c \/ Lt(x, c)
      BY <2>3, <2>4, <3>1, <3>2 DEF Distinct
    <3> QED BY <1>3, <2>4, <3>3
  <2> QED BY <2>2, <2>3, <2>4
<1>4. r \in S
  <2> HIDE DEF S
  <2> QED BY <1>1, <1>2, <1>3 DEF Chain
<1> QED BY <1>4

-----------------------------------------------------------------------------
(* What a call knows stays true while others work *)

\* Known nodes stay known and keep their keys, marked ones their references too.
Grown == /\ Known \subseteq Known'
         /\ \A a \in Addr : next[a].mark => next'[a] = next[a]
         /\ \A a \in Heap : a < brk => key'[a] = key[a]

LEMMA GrownOrder ==
  ASSUME TypeOK, Lists, Grown
  PROVE  /\ \A a \in Known, b \in Bucket : In(a, b)' <=> In(a, b)
         /\ \A a, c \in Known : Lt(a, c)' <=> Lt(a, c)
         /\ \A a \in Known, k \in Int : (Below(a, k)' <=> Below(a, k)) /\ (AtLeast(a, k)' <=> AtLeast(a, k))
         /\ \A a \in Known : a \in Heap => key'[a] = key[a]
<1>1. \A a \in Known : a \in Heap => key'[a] = key[a]
  BY DEF Lists, Allocated, Grown
<1> QED BY <1>1 DEF In, Lt, Below, AtLeast

LEMMA BktType == ASSUME TypeOK, NEW t \in Thread PROVE Bkt(t) \in Bucket /\ arg[t] \in Int
BY IndexInBucket, KeyAssumption DEF TypeOK, Bkt

LEMMA ChainKept ==
  ASSUME Grown, NEW t \in Thread, leftNext'[t] = leftNext[t], NEW a, Chain(t, a)
  PROVE  \A S \in SUBSET Addr :
           leftNext'[t] \in S /\ (\A c \in S : next'[c].mark => next'[c].ptr \in S) => a \in S
<1> SUFFICES ASSUME NEW S \in SUBSET Addr, leftNext'[t] \in S,
                    \A c \in S : next'[c].mark => next'[c].ptr \in S
             PROVE  a \in S
  OBVIOUS
<1>1. \A c \in S : next[c].mark => next[c].ptr \in S
  BY DEF Grown
<1> QED BY <1>1 DEF Chain

LEMMA EnclosedKept ==
  ASSUME TypeOK, Lists, Grown, NEW t \in Thread, arg'[t] = arg[t], left'[t] = left[t], right'[t] = right[t],
         seen[t] \subseteq seen'[t], Enclosed(t)
  PROVE  Enclosed(t)' /\ (FoundKey(t)' <=> FoundKey(t))
<1>1. Bkt(t)' = Bkt(t) /\ tail(t)' = tail(t) /\ Bkt(t) \in Bucket /\ arg[t] \in Int /\ tail(t) = TailOf(Bkt(t))
  BY BktType DEF Bkt, tail
<1>2. Mine(t, left[t]) /\ Mine(t, right[t])
  BY DEF Enclosed
<1>3. Mine(t, left[t])' /\ Mine(t, right[t])'
  BY <1>1, <1>2, GrownOrder DEF Mine, Grown
<1>4. Below(left[t], arg[t])' /\ AtLeast(right[t], arg[t])'
  BY <1>1, <1>2, GrownOrder DEF Mine, Enclosed
<1>5. right[t] \in Heap \/ right[t] = tail(t)
  BY <1>1, <1>2, Places DEF Enclosed, AtLeast, Mine, In
<1>6. FoundKey(t)' <=> FoundKey(t)
  BY <1>1, <1>2, <1>5, GrownOrder DEF FoundKey, Mine
<1> QED BY <1>3, <1>4, <1>6 DEF Enclosed

LEMMA LoadingKept ==
  ASSUME TypeOK, Lists, Grown, NEW t \in Thread, arg'[t] = arg[t], left'[t] = left[t], node'[t] = node[t],
         leftNext'[t] = leftNext[t], seen[t] \subseteq seen'[t], Loading(t)
  PROVE  Loading(t)'
<1>1. Bkt(t)' = Bkt(t) /\ Bkt(t) \in Bucket /\ arg[t] \in Int
  BY BktType DEF Bkt
<1>2. Mine(t, left[t]) /\ Mine(t, node[t]) /\ Mine(t, leftNext[t]) /\ node[t] \in Heap
  BY DEF Loading
<1>3. Mine(t, left[t])' /\ Mine(t, node[t])' /\ Mine(t, leftNext[t])'
  BY <1>1, <1>2, GrownOrder DEF Mine, Grown
<1>4. Below(left[t], arg[t])' /\ (leftNext[t] = node[t] \/ Lt(leftNext[t], node[t]))'
  BY <1>1, <1>2, GrownOrder DEF Mine, Loading
<1>5. Chain(t, node[t])'
  BY ChainKept DEF Loading, Chain
<1>6. key'[node[t]] = key[node[t]]
  BY <1>2, GrownOrder DEF Mine
<1> QED BY <1>2, <1>3, <1>4, <1>5, <1>6 DEF Loading

\* The call of u is where it was.
Kept(u) == /\ pc'[u] = pc[u] /\ op'[u] = op[u] /\ arg'[u] = arg[u] /\ ins'[u] = ins[u] /\ res'[u] = res[u]
           /\ node'[u] = node[u] /\ left'[u] = left[u] /\ leftNext'[u] = leftNext[u]
           /\ right'[u] = right[u] /\ rightNext'[u] = rightNext[u] /\ seen[u] \subseteq seen'[u]

LEMMA LocalKept ==
  ASSUME TypeOK, Lists, Grown, NEW u \in Thread, Kept(u), LocalOK(u),
         pc[u] = "insert_cas" => next'[ins[u]] = next[ins[u]]
  PROVE  LocalOK(u)'
<1>1. /\ pc'[u] = pc[u] /\ op'[u] = op[u] /\ arg'[u] = arg[u] /\ ins'[u] = ins[u]
      /\ node'[u] = node[u] /\ left'[u] = left[u] /\ leftNext'[u] = leftNext[u]
      /\ right'[u] = right[u] /\ rightNext'[u] = rightNext[u] /\ seen[u] \subseteq seen'[u]
  BY DEF Kept
<1>2. CASE pc[u] \notin Found \cup {"load", "unlink"}
  BY <1>1, <1>2 DEF LocalOK, Found
<1>3. CASE pc[u] = "load"
  <2>1. Loading(u)'
    BY <1>1, <1>3, LoadingKept DEF LocalOK
  <2> QED BY <1>1, <1>3, <2>1 DEF LocalOK, Found
<1>4. CASE pc[u] \in Found \cup {"unlink"}
  <2>1. Enclosed(u) /\ Enclosed(u)' /\ (FoundKey(u)' <=> FoundKey(u))
    BY <1>1, <1>4, EnclosedKept DEF LocalOK
  <2>2. ASSUME pc[u] = "unlink" PROVE Mine(u, leftNext[u])' /\ Chain(u, right[u])'
    <3>1. Chain(u, right[u]) /\ Mine(u, leftNext[u])
      BY <2>2 DEF LocalOK
    <3>2. Chain(u, right[u])'
      BY <1>1, <3>1, ChainKept DEF Chain
    <3>3. Bkt(u)' = Bkt(u) /\ Bkt(u) \in Bucket
      BY <1>1, BktType DEF Bkt
    <3>4. Mine(u, leftNext[u])'
      BY <1>1, <3>1, <3>3, GrownOrder DEF Mine, Grown
    <3> QED BY <3>2, <3>4
  <2>3. ASSUME pc[u] = "unlink_cas" PROVE next'[right[u]] = next[right[u]]
    <3>1. right[u] \in Addr /\ next[right[u]].mark
      BY <2>1, <2>3, KnownType DEF LocalOK, Enclosed, Mine, get_marked_reference, Unmarked
    <3> QED BY <3>1 DEF Grown
  <2>4. /\ pc'[u] # "load"
        /\ pc'[u] \in {"recheck", "found"} /\ ~FoundKey(u)' => FALSE \in seen'[u]
        /\ pc'[u] \in {"remove_load", "mark_cas", "unlink_cas"} => op'[u] = "remove" /\ FoundKey(u)'
    BY <1>1, <1>4, <2>1 DEF LocalOK, Found
  <2>5. pc'[u] = "insert_cas" => op'[u] = "insert" /\ ~FoundKey(u)' /\ next'[ins'[u]] = Unmarked(right'[u])
    BY <1>1, <2>1 DEF LocalOK
  <2>6. pc'[u] = "unlink_cas" => next'[right'[u]] = get_marked_reference(Unmarked(rightNext'[u]))
    BY <1>1, <2>3 DEF LocalOK
  <2> QED BY <1>1, <2>1, <2>2, <2>4, <2>5, <2>6 DEF LocalOK
<1> QED BY <1>2, <1>3, <1>4

-----------------------------------------------------------------------------
(* search *)

\* An unmarked node with the key shows that the key is in the map ...
LEMMA There ==
  ASSUME TypeOK, NEW t \in Thread, Has(t) \in seen[t], NEW n \in Known \cap Heap, ~ next[n].mark, key[n] = arg[t]
  PROVE  TRUE \in seen[t]
<1>1. n \in linked
  BY DEF Known
<1>2. Has(t) = TRUE
  BY <1>1 DEF Has, Contents
<1> QED BY <1>2

\* ... and nothing but marked nodes where it would be shows that it is not.
LEMMA NotThere ==
  ASSUME TypeOK, Lists, NEW t \in Thread, Has(t) \in seen[t],
         NEW l \in Known, Below(l, arg[t]), NEW r, r = TailOf(Bkt(t)) \/ (r \in Heap /\ arg[t] < key[r]),
         \A x \in Nodes(Bkt(t)) : Lt(l, x) /\ Lt(x, r) => next[x].mark
  PROVE  FALSE \in seen[t]
<1>1. ~ Has(t)
  <2> SUFFICES ASSUME NEW x \in linked, ~ next[x].mark, key[x] = arg[t] PROVE FALSE
    BY DEF Has, Contents
  <2>1. x \in Nodes(Bkt(t)) /\ x \in Heap /\ x \in Addr /\ l \in Addr /\ arg[t] \in Int /\ Bkt(t) \in Bucket
    BY KnownType, Places, BktType DEF Nodes, Bkt
  <2>2. AtLeast(x, arg[t])
    BY <2>1 DEF AtLeast
  <2>3. Lt(l, x)
    BY <2>1, <2>2, Order
  <2>4. Lt(x, r)
    BY <2>1, Places DEF Lt
  <2> QED BY <2>1, <2>3, <2>4
<1>2. Has(t) = FALSE
  BY <1>1
<1> QED BY <1>2

\* The walk goes on from node n, whose reference r is not marked.
LEMMA WalkUnmarked ==
  ASSUME TypeOK, Lists, NEW t \in Thread, Has(t) \in seen[t],
         NEW n, Mine(t, n), Below(n, arg[t]), ~ next[n].mark, Walk(t, n, next[n]),
         UNCHANGED <<key, next, brk, linked, op, arg, seen>>
  PROVE  /\ LocalOK(t)'
         /\ pc'[t] \in {"load", "found"}
         /\ pc'[t] = "load" => /\ leftNext'[t] = node'[t] /\ node'[t] \in Nodes(Bkt(t))
                               /\ \A x \in Nodes(Bkt(t)) : Lt(n, x) => ~ Lt(x, node'[t])
         /\ pc'[t] = "found" => Nodes(Bkt(t)) \cap {x \in Addr : Lt(n, x)} = {}
<1> DEFINE b == Bkt(t)
           m == next[n].ptr
<1>1. b \in Bucket /\ arg[t] \in Int /\ tail(t) = TailOf(b) /\ Bkt(t)' = Bkt(t) /\ tail(t)' = tail(t)
  BY BktType DEF tail, Bkt
<1>2. n \in Addr /\ n \in {HeadOf(b)} \cup Nodes(b) /\ n # TailOf(b)
  BY <1>1, Members, KnownType, Places DEF Mine, Below
<1>3. /\ m \in Nodes(b) \cup {TailOf(b)} /\ m \in Known /\ In(m, b) /\ m \in Addr /\ Lt(n, m)
      /\ \A x \in Nodes(b) : ~ (Lt(n, x) /\ Lt(x, m))
  BY <1>1, <1>2, Members DEF Lists, Adjacent, Ordered, Mine
<1>4. Grown
  BY DEF Grown, Known
<1>5. m = TailOf(b) \/ (m \in Heap /\ arg[t] < key[m]) => FALSE \in seen[t]
  BY <1>1, <1>2, <1>3, NotThere DEF Mine
<1>6. CASE m # tail(t)
  <2>1. /\ pc' = [pc EXCEPT ![t] = "load"] /\ node'[t] = m /\ left'[t] = n /\ leftNext'[t] = m
    BY <1>6 DEF Walk, Goto, SetLocals, is_marked_reference, TypeOK
  <2>2. pc'[t] = "load" /\ m \in Heap
    BY <1>1, <1>3, <1>6, <2>1, Members DEF TypeOK
  <2>3. /\ Mine(t, left[t])' /\ Mine(t, leftNext[t])' /\ Mine(t, node[t])' /\ Below(left[t], arg[t])'
    BY <1>1, <1>3, <1>4, <2>1, GrownOrder DEF Mine, Grown, Below
  <2>4. Chain(t, node[t])'
    BY <2>1 DEF Chain
  <2>5. Loading(t)'
    BY <1>5, <2>1, <2>2, <2>3, <2>4 DEF Loading
  <2>6. LocalOK(t)'
    BY <2>2, <2>5 DEF LocalOK, Found
  <2> QED BY <1>1, <1>3, <1>6, <2>1, <2>2, <2>6
<1>7. CASE m = tail(t)
  <2>1. /\ pc' = [pc EXCEPT ![t] = "found"] /\ left'[t] = n /\ right'[t] = m
    BY <1>7 DEF Walk, CheckAdjacent, Goto, SetLocals, is_marked_reference, TypeOK
  <2>2. pc'[t] = "found" /\ ~FoundKey(t)' /\ FALSE \in seen'[t]
    BY <1>1, <1>5, <1>7, <2>1 DEF TypeOK, FoundKey
  <2>3. /\ Mine(t, left[t])' /\ Mine(t, right[t])' /\ Below(left[t], arg[t])' /\ AtLeast(right[t], arg[t])'
    BY <1>1, <1>3, <1>4, <1>7, <2>1, GrownOrder, Places DEF Mine, Grown, Below, AtLeast
  <2>4. LocalOK(t)'
    BY <2>2, <2>3 DEF LocalOK, Enclosed, Found
  <2>5. \A x \in Nodes(b) : Lt(x, m)
    BY <1>1, <1>7, Members
  <2> QED BY <1>3, <2>2, <2>4, <2>5
<1> QED BY <1>6, <1>7

\* The walk goes on from a marked node.
LEMMA WalkMarked ==
  ASSUME TypeOK, Lists, NEW t \in Thread, Loading(t), next[node[t]].mark, Walk(t, node[t], next[node[t]]),
         UNCHANGED <<key, next, brk, linked, op, arg, seen>>
  PROVE  /\ LocalOK(t)'
         /\ pc'[t] \in {"load", "unlink"}
         /\ pc'[t] = "load" => leftNext'[t] # node'[t]
         /\ pc'[t] = "unlink" => right'[t] = tail(t)
<1> DEFINE b == Bkt(t)
           m == next[node[t]].ptr
<1>1. b \in Bucket /\ arg[t] \in Int /\ tail(t) = TailOf(b) /\ Bkt(t)' = Bkt(t) /\ tail(t)' = tail(t)
  BY BktType DEF tail, Bkt
<1>2. /\ m \in Known /\ In(m, b) /\ m \in Addr /\ Lt(node[t], m) /\ node[t] \in Addr
      /\ leftNext[t] \in Addr /\ left[t] \in Addr
  BY <1>1, KnownType, Places DEF Lists, Ordered, Loading, Mine
<1>3. Lt(leftNext[t], m) /\ leftNext[t] # m
  BY <1>2, Order DEF Loading
<1>4. Grown
  BY DEF Grown, Known
<1>5. ASSUME NEW S \in SUBSET Addr, leftNext[t] \in S, \A c \in S : next[c].mark => next[c].ptr \in S
      PROVE  m \in S
  BY <1>5 DEF Loading, Chain
<1>6. Mine(t, left[t]) /\ Mine(t, leftNext[t]) /\ Below(left[t], arg[t])
  BY DEF Loading
<1>7. CASE m # tail(t)
  <2>1. /\ pc' = [pc EXCEPT ![t] = "load"] /\ node'[t] = m /\ left'[t] = left[t] /\ leftNext'[t] = leftNext[t]
    BY <1>7 DEF Walk, Goto, SetLocals, is_marked_reference, TypeOK
  <2>2. pc'[t] = "load" /\ m \in Heap
    BY <1>1, <1>2, <1>7, <2>1, Places DEF TypeOK, Lt, In
  <2>3. /\ Mine(t, left[t])' /\ Mine(t, leftNext[t])' /\ Mine(t, node[t])' /\ Below(left[t], arg[t])'
    BY <1>1, <1>2, <1>4, <1>6, <2>1, GrownOrder DEF Mine, Grown, Below
  <2>4. Chain(t, node[t])'
    BY <1>5, <2>1 DEF Chain
  <2>5. Lt(leftNext[t], node[t])'
    BY <1>2, <1>3, <1>4, <1>6, <2>1, GrownOrder DEF Mine
  <2>6. Loading(t)'
    BY <1>3, <2>1, <2>2, <2>3, <2>4, <2>5 DEF Loading
  <2>7. LocalOK(t)'
    BY <2>2, <2>6 DEF LocalOK, Found
  <2> QED BY <1>3, <2>1, <2>2, <2>7
<1>8. CASE m = tail(t)
  <2>1. /\ pc' = [pc EXCEPT ![t] = "unlink"] /\ left'[t] = left[t] /\ right'[t] = m /\ leftNext'[t] = leftNext[t]
    BY <1>3, <1>8 DEF Walk, CheckAdjacent, Goto, SetLocals, is_marked_reference, TypeOK
  <2>2. pc'[t] = "unlink" /\ ~FoundKey(t)'
    BY <1>1, <1>8, <2>1 DEF TypeOK, FoundKey
  <2>3. /\ Mine(t, left[t])' /\ Mine(t, leftNext[t])' /\ Mine(t, right[t])' /\ Below(left[t], arg[t])'
        /\ AtLeast(right[t], arg[t])'
    BY <1>1, <1>2, <1>4, <1>6, <1>8, <2>1, GrownOrder, Places DEF Mine, Grown, Below, AtLeast
  <2>4. Chain(t, right[t])'
    BY <1>5, <2>1 DEF Chain
  <2>5. LocalOK(t)'
    BY <2>2, <2>3, <2>4 DEF LocalOK, Enclosed, Found
  <2> QED BY <1>8, <2>1, <2>2, <2>5
<1> QED BY <1>7, <1>8

\* The walk has come to an unmarked node that is not before the key.
LEMMA WalkEnds ==
  ASSUME TypeOK, Lists, NEW t \in Thread, Has(t) \in seen[t], Loading(t), ~ next[node[t]].mark,
         ~ (key[node[t]] < arg[t]), CheckAdjacent(t, left[t], leftNext[t], node[t]),
         UNCHANGED <<key, next, brk, linked, op, arg, seen>>
  PROVE  /\ LocalOK(t)' /\ right'[t] = node[t]
         /\ \/ pc'[t] = "unlink"
            \/ pc'[t] = "recheck" /\ leftNext[t] = node[t]
<1>1. /\ Bkt(t) \in Bucket /\ arg[t] \in Int /\ tail(t) = TailOf(Bkt(t))
      /\ Bkt(t)' = Bkt(t) /\ tail(t)' = tail(t)
  BY BktType DEF tail, Bkt
<1>2. /\ Mine(t, left[t]) /\ Mine(t, leftNext[t]) /\ Mine(t, node[t]) /\ Below(left[t], arg[t])
      /\ node[t] \in Heap /\ node[t] # tail(t) /\ key[node[t]] \in Int
  BY <1>1, Places DEF Loading, TypeOK
<1>3. Grown
  BY DEF Grown, Known
<1>4. /\ left'[t] = left[t] /\ leftNext'[t] = leftNext[t] /\ right'[t] = node[t]
      /\ \/ pc'[t] = "unlink"
         \/ pc'[t] = "recheck" /\ leftNext[t] = node[t]
  BY <1>2 DEF CheckAdjacent, Goto, SetLocals, TypeOK
<1>5. /\ Mine(t, left[t])' /\ Mine(t, leftNext[t])' /\ Mine(t, right[t])' /\ Below(left[t], arg[t])'
      /\ AtLeast(right[t], arg[t])'
  BY <1>1, <1>2, <1>3, <1>4, GrownOrder DEF Mine, Grown, Below, AtLeast
<1>6. FoundKey(t)' => TRUE \in seen'[t]
  BY <1>2, <1>4, There DEF FoundKey, Mine
<1>7. Chain(t, right[t])'
  BY <1>4 DEF Loading, Chain
<1>8. leftNext[t] = node[t] /\ ~FoundKey(t)' => FALSE \in seen'[t]
  <2>1. ~FoundKey(t)' => key[node[t]] # arg[t]
    BY <1>1, <1>2, <1>4 DEF FoundKey
  <2>2. key[node[t]] # arg[t] => arg[t] < key[node[t]]
    BY <1>1, <1>2
  <2> QED BY <2>1, <2>2 DEF Loading
<1> QED BY <1>4, <1>5, <1>6, <1>7, <1>8 DEF LocalOK, Enclosed, Found

-----------------------------------------------------------------------------
(* The steps and what they do to the lists *)

LEMMA SameContents ==
  ASSUME TypeOK, key' = key,
         {n \in linked' : ~next'[n].mark} = {n \in linked : ~next[n].mark}
  PROVE  Contents' = Contents
BY DEF Contents

\* The node an unlinking step takes for left is in the list.
LEMMA LeftListed ==
  ASSUME TypeOK, Lists, NEW t \in Thread, Enclosed(t), NEW c \in Addr \cup {Null}, CasSucceeds(left[t], Unmarked(c))
  PROVE  /\ left[t] \in {HeadOf(Bkt(t))} \cup Nodes(Bkt(t)) /\ left[t] \in Addr
         /\ ~ next[left[t]].mark /\ next[left[t]].ptr = c
         /\ right[t] \in Addr /\ In(right[t], Bkt(t)) /\ Lt(left[t], right[t])
<1>1. ~ next[left[t]].mark /\ next[left[t]].ptr = c
  BY DEF CasSucceeds, Unmarked
<1>2. left[t] \in Known /\ In(left[t], Bkt(t)) /\ Bkt(t) \in Bucket /\ arg[t] \in Int
  BY BktType DEF Enclosed, Mine
<1>3. left[t] \in {HeadOf(Bkt(t))} \cup Nodes(Bkt(t))
  BY <1>1, <1>2, Members, Places DEF Enclosed, Below
<1>4. left[t] \in Addr /\ right[t] \in Addr /\ In(right[t], Bkt(t))
  BY <1>2, KnownType DEF Enclosed, Mine
<1>5. Lt(left[t], right[t])
  BY <1>2, <1>4, Order DEF Enclosed
<1> QED BY <1>1, <1>3, <1>4, <1>5

\* search unlinks what lies between left and right; nothing of it was in the map.
LEMMA SearchUnlinkLists ==
  ASSUME TypeOK, TypeOK', Lists, NEW t \in Thread, LocalOK(t), SearchUnlink(t),
         CasSucceeds(left[t], Unmarked(leftNext[t]))
  PROVE  /\ Lists' /\ Known' = Known /\ Contents' = Contents
         /\ linked' = {x \in linked : ~ (x \in Nodes(Bkt(t)) /\ Lt(left[t], x) /\ Lt(x, right[t]))}
         /\ right[t] \in Nodes(Bkt(t)) \cup {TailOf(Bkt(t))}
         /\ \A x \in Nodes(Bkt(t)) : Lt(left[t], x) /\ Lt(x, right[t]) => next[x].mark
         /\ \A a \in Addr : a # left[t] => next'[a] = next[a]
<1> DEFINE b == Bkt(t)
           l == left[t]
           r == right[t]
<1>1. /\ pc[t] = "unlink" /\ next' = [next EXCEPT ![l] = Unmarked(r)]
      /\ linked' = linked \ Between(b, l, r) /\ UNCHANGED <<key, brk>>
  BY DEF SearchUnlink, Store, Bkt
<1>2. Enclosed(t) /\ Chain(t, r) /\ b \in Bucket /\ leftNext[t] \in Addr \cup {Null}
  BY <1>1, BktType DEF LocalOK, TypeOK
<1>3. /\ l \in {HeadOf(b)} \cup Nodes(b) /\ l \in Addr /\ ~ next[l].mark /\ next[l].ptr = leftNext[t]
      /\ Lt(l, r)
  BY <1>2, LeftListed
<1>4. r \in Nodes(b) \cup {TailOf(b)} /\ \A x \in Nodes(b) : Lt(l, x) /\ Lt(x, r) => next[x].mark
  BY <1>2, <1>3, ChainLeads
<1>5. Between(b, l, r) = {x \in Nodes(b) : Lt(l, x) /\ Lt(x, r)}
  <2>1. ASSUME NEW x \in Nodes(b)
        PROVE  /\ (l = HeadOf(b) \/ key[l] < key[x]) <=> Lt(l, x)
               /\ (r = TailOf(b) \/ key[x] < key[r]) <=> Lt(x, r)
    BY <1>2, <1>3, <1>4, Members, Places DEF Lt
  <2> QED BY <2>1 DEF Between, Nodes
<1>6. linked' = linked \ {x \in Nodes(b) : Lt(l, x) /\ Lt(x, r)}
  BY <1>1, <1>5
<1>7. Lists' /\ Known' = Known
  BY <1>1, <1>2, <1>3, <1>4, <1>6, UnlinkLists
<1>8. /\ ~ next'[l].mark /\ \A a \in Addr : a # l => next'[a] = next[a]
  BY <1>1, <1>3 DEF TypeOK, Unmarked
<1>9. Contents' = Contents
  <2>1. \A n \in linked : ~next'[n].mark <=> ~next[n].mark
    BY <1>3, <1>8, KnownType, Places
  <2>2. \A n \in linked : ~next[n].mark => n \in linked'
    BY <1>4, <1>6
  <2>3. {n \in linked' : ~next'[n].mark} = {n \in linked : ~next[n].mark}
    BY <1>6, <2>1, <2>2
  <2> QED BY <1>1, <2>3, SameContents
<1> QED BY <1>4, <1>6, <1>7, <1>8, <1>9

LEMMA UnlinkCasLists ==
  ASSUME TypeOK, TypeOK', Lists, NEW t \in Thread, LocalOK(t), UnlinkCas(t),
         CasSucceeds(left[t], Unmarked(right[t]))
  PROVE  /\ Lists' /\ Known' = Known /\ Contents' = Contents /\ linked' = linked \ {right[t]}
         /\ \A a \in Addr : a # left[t] => next'[a] = next[a]
<1> DEFINE b == Bkt(t)
           l == left[t]
           r == right[t]
           m == rightNext[t]
<1>1. /\ pc[t] = "unlink_cas" /\ next' = [next EXCEPT ![l] = Unmarked(m)]
      /\ linked' = linked \ {r} /\ UNCHANGED <<key, brk>>
  BY DEF UnlinkCas, Store
<1>2. Enclosed(t) /\ FoundKey(t) /\ b \in Bucket /\ r \in Addr \cup {Null} /\ next[r].ptr = m /\ next[r].mark
  BY <1>1, BktType DEF LocalOK, TypeOK, Found, get_marked_reference, Unmarked
<1>3. /\ l \in {HeadOf(b)} \cup Nodes(b) /\ l \in Addr /\ ~ next[l].mark /\ next[l].ptr = r
      /\ Lt(l, r) /\ r \in Addr /\ In(r, b)
  BY <1>2, LeftListed
<1>4. r \in Nodes(b) /\ \A x \in Nodes(b) : ~ (Lt(l, x) /\ Lt(x, r))
  BY <1>2, <1>3 DEF Lists, Adjacent, FoundKey, tail, Bkt
<1>5. m \in Nodes(b) \cup {TailOf(b)} /\ Lt(r, m) /\ \A x \in Nodes(b) : ~ (Lt(r, x) /\ Lt(x, m))
  <2>1. r \in Known /\ r # TailOf(b)
    BY <1>2, <1>4, Members, Places
  <2> QED BY <1>2, <1>3, <1>4, <2>1 DEF Lists, Adjacent, Ordered
<1>6. {x \in Nodes(b) : Lt(l, x) /\ Lt(x, m)} = {r}
  <2>1. ASSUME NEW x \in Nodes(b), Lt(l, x), Lt(x, m) PROVE x = r
    <3>1. x \in Addr /\ In(x, b) /\ x \in linked /\ r \in linked
      BY <1>2, <1>4, Members
    <3>2. x = r \/ Lt(x, r) \/ Lt(r, x) \/ key[x] = key[r]
      BY <1>2, <1>3, <3>1, Total
    <3> QED BY <1>4, <1>5, <2>1, <3>1, <3>2 DEF Lists, Distinct
  <2> QED BY <1>3, <1>4, <1>5, <2>1
<1>7. Lt(l, m) /\ m \in Addr
  BY <1>2, <1>3, <1>5, Members, Order
<1>8. Lists' /\ Known' = Known
  <2>1. linked' = linked \ {x \in Nodes(b) : Lt(l, x) /\ Lt(x, m)}
    BY <1>1, <1>6
  <2>2. \A x \in Nodes(b) : Lt(l, x) /\ Lt(x, m) => next[x].mark
    BY <1>2, <1>6
  <2> QED BY <1>1, <1>2, <1>3, <1>5, <1>7, <2>1, <2>2, UnlinkLists
<1>9. /\ ~ next'[l].mark /\ \A a \in Addr : a # l => next'[a] = next[a]
  BY <1>1, <1>3 DEF TypeOK, Unmarked
<1>10. Contents' = Contents
  <2>1. \A n \in linked : ~next'[n].mark <=> ~next[n].mark
    BY <1>3, <1>9, KnownType, Places
  <2>2. {n \in linked' : ~next'[n].mark} = {n \in linked : ~next[n].mark}
    BY <1>1, <1>2, <2>1
  <2> QED BY <1>1, <2>2, SameContents
<1> QED BY <1>1, <1>8, <1>9, <1>10

\* remove takes the key out of the map when it marks the node.
LEMMA MarkCasLists ==
  ASSUME TypeOK, TypeOK', Lists, NEW t \in Thread, LocalOK(t), MarkCas(t),
         CasSucceeds(right[t], Unmarked(rightNext[t]))
  PROVE  /\ Lists' /\ Known' = Known /\ linked' = linked /\ key' = key
         /\ arg[t] \in Contents /\ Contents' = Contents \ {arg[t]}
         /\ right[t] \in linked /\ key[right[t]] = arg[t] /\ ~ next[right[t]].mark
         /\ next'[right[t]] = get_marked_reference(Unmarked(rightNext[t]))
         /\ \A a \in Addr : a # right[t] => next'[a] = next[a]
<1> DEFINE b == Bkt(t)
           r == right[t]
<1>1. /\ pc[t] = "mark_cas" /\ next' = [next EXCEPT ![r] = get_marked_reference(Unmarked(rightNext[t]))]
      /\ UNCHANGED <<key, brk, linked>> /\ next[r] = Unmarked(rightNext[t])
  BY DEF MarkCas, Store, CasSucceeds
<1>2. Enclosed(t) /\ FoundKey(t) /\ b \in Bucket
  BY <1>1, BktType DEF LocalOK, Found
<1>3. r \in Known /\ In(r, b) /\ r # TailOf(b) /\ key[r] = arg[t] /\ ~ next[r].mark
  BY <1>1, <1>2 DEF Enclosed, Mine, FoundKey, tail, Bkt, Unmarked
<1>4. r \in linked /\ r \in Addr
  BY <1>2, <1>3, Members, Places, KnownType DEF Enclosed, AtLeast
<1>5. Lists' /\ Known' = Known
  BY <1>1, <1>4, MarkLists
<1>6. /\ next'[r] = get_marked_reference(Unmarked(rightNext[t])) /\ next'[r].mark
      /\ \A a \in Addr : a # r => next'[a] = next[a]
  BY <1>1, <1>4 DEF TypeOK, get_marked_reference, Unmarked
<1>7. arg[t] \in Contents
  BY <1>3, <1>4 DEF Contents
<1>8. Contents' = Contents \ {arg[t]}
  <2>1. \A n \in linked : ~next'[n].mark <=> ~next[n].mark /\ n # r
    BY <1>3, <1>6, KnownType, Places
  <2>2. \A n \in linked : n # r => key[n] # arg[t]
    BY <1>3, <1>4 DEF Lists, Distinct
  <2>3. \A k : k \in Contents' <=> \E n \in linked : ~next[n].mark /\ n # r /\ key[n] = k
    BY <1>1, <2>1 DEF Contents
  <2>4. \A k : k \in Contents <=> \E n \in linked : ~next[n].mark /\ key[n] = k
    BY DEF Contents
  <2>5. \A k : k \in Contents' <=> k \in Contents /\ k # arg[t]
    BY <1>3, <2>2, <2>3, <2>4
  <2> QED BY <2>5
<1> QED BY <1>1, <1>3, <1>4, <1>5, <1>6, <1>7, <1>8

\* insert puts the key into the map when left takes up its node.
LEMMA InsertCasLists ==
  ASSUME TypeOK, TypeOK', Lists, Private, NEW t \in Thread, LocalOK(t), InsertCas(t),
         CasSucceeds(left[t], Unmarked(right[t]))
  PROVE  /\ Lists' /\ Known' = Known \cup {ins[t]} /\ linked' = linked \cup {ins[t]} /\ key' = key
         /\ arg[t] \notin Contents /\ Contents' = Contents \cup {arg[t]}
         /\ ins[t] \in Heap /\ ins[t] \notin Known /\ ~ next'[ins[t]].mark /\ Pending(t)
         /\ \A a \in Addr : a # left[t] => next'[a] = next[a]
<1> DEFINE b == Bkt(t)
           l == left[t]
           r == right[t]
<1>0. PICK n : n = ins[t]
  OBVIOUS
<1>1. /\ pc[t] = "insert_cas" /\ next' = [next EXCEPT ![l] = Unmarked(n)]
      /\ linked' = linked \cup {n} /\ UNCHANGED <<key, brk>> /\ next[l] = Unmarked(r)
  BY <1>0 DEF InsertCas, Store, CasSucceeds
<1>2. /\ Enclosed(t) /\ ~FoundKey(t) /\ op[t] = "insert" /\ next[n] = Unmarked(r)
      /\ b \in Bucket /\ arg[t] \in Int /\ r \in Addr \cup {Null}
  BY <1>0, <1>1, BktType DEF LocalOK, TypeOK, Found
<1>3. /\ l \in {HeadOf(b)} \cup Nodes(b) /\ l \in Addr /\ ~ next[l].mark /\ next[l].ptr = r
      /\ Lt(l, r) /\ r \in Addr /\ In(r, b)
  BY <1>2, LeftListed
<1>4. Pending(t) /\ n \in Heap /\ n < brk /\ n \notin Known /\ key[n] = arg[t] /\ n \in Addr /\ getIndex(key[n]) = b
  BY <1>0, <1>1, <1>2, Places DEF Private, Pending, Bkt
<1>5. Lt(l, n)
  <2>1. AtLeast(n, arg[t])
    BY <1>2, <1>4 DEF AtLeast
  <2> QED BY <1>2, <1>3, <1>4, <2>1, Order DEF Enclosed
<1>6. Lt(n, r)
  <2>1. r = TailOf(b) \/ (r \in Heap /\ key[r] # arg[t] /\ arg[t] <= key[r] /\ key[r] \in Int)
    BY <1>2, <1>3, Places DEF Enclosed, AtLeast, FoundKey, tail, Bkt, In, TypeOK
  <2>2. r \in Heap => arg[t] < key[r]
    BY <1>2, <2>1, Places
  <2> QED BY <1>2, <1>4, <2>1, <2>2, Places DEF Lt
<1>7. Lists' /\ Known' = Known \cup {n} /\ \A x \in linked : key[x] # arg[t]
  <2> HIDE DEF b, l, r
  <2>1. /\ b \in Bucket /\ l \in {HeadOf(b)} \cup Nodes(b) /\ r \in Addr /\ next[l] = Unmarked(r)
        /\ n \in Heap \ Known /\ n < brk /\ getIndex(key[n]) = b /\ Lt(l, n) /\ Lt(n, r)
        /\ next[n] = Unmarked(r) /\ next' = [next EXCEPT ![l] = Unmarked(n)] /\ linked' = linked \cup {n}
        /\ UNCHANGED <<key, brk>>
    BY <1>1, <1>2, <1>3, <1>4, <1>5, <1>6
  <2>2. Lists' /\ Known' = Known \cup {n} /\ \A x \in linked : key[x] # key[n]
    BY <2>1, InsertLists
  <2> QED BY <1>4, <2>2
<1>8. /\ ~ next'[l].mark /\ \A a \in Addr : a # l => next'[a] = next[a]
  BY <1>1, <1>3 DEF TypeOK, Unmarked
<1>9. ~ next'[n].mark
  BY <1>2, <1>4, <1>8 DEF Unmarked
<1>10. arg[t] \notin Contents
  BY <1>7 DEF Contents
<1>11. Contents' = Contents \cup {arg[t]}
  <2>1. \A x \in linked : ~next'[x].mark <=> ~next[x].mark
    BY <1>3, <1>8, KnownType, Places
  <2>2. \A k : k \in Contents' <=> \E x \in linked \cup {n} : ~next'[x].mark /\ key[x] = k
    BY <1>1 DEF Contents
  <2>3. \A k : k \in Contents <=> \E x \in linked : ~next[x].mark /\ key[x] = k
    BY DEF Contents
  <2>4. \A k : k \in Contents' <=> k \in Contents \/ k = arg[t]
    BY <1>4, <1>9, <2>1, <2>2, <2>3
  <2> QED BY <2>4
<1> QED BY <1>0, <1>1, <1>4, <1>7, <1>8, <1>9, <1>10, <1>11

\* The plain store of insert is to a node nobody knows.
LEMMA InsertTestLists ==
  ASSUME TypeOK, TypeOK', Lists, Private, NEW t \in Thread, InsertTest(t), ~FoundKey(t)
  PROVE  /\ Lists' /\ Known' = Known /\ Contents' = Contents
         /\ next'[ins[t]] = Unmarked(right[t]) /\ ins[t] \in Heap
         /\ \A a \in Addr : a # ins[t] => next'[a] = next[a]
<1>1. /\ pc[t] = "found" /\ op[t] = "insert" /\ next' = [next EXCEPT ![ins[t]] = Unmarked(right[t])]
      /\ UNCHANGED <<key, brk, linked>>
  BY DEF InsertTest, Store
<1>2. ins[t] \in Heap /\ ins[t] \notin Known /\ ins[t] \in Addr
  BY <1>1, Places DEF Private, Pending
<1>3. /\ next'[ins[t]] = Unmarked(right[t]) /\ ~ next'[ins[t]].mark
      /\ \A a \in Addr : a # ins[t] => next'[a] = next[a]
  BY <1>1, <1>2 DEF TypeOK, Unmarked
<1>4. \A a \in Known : next'[a] = next[a]
  BY <1>2, <1>3, KnownType
<1>5. \A a \in Heap \ Known : ~ next'[a].mark
  BY <1>3, Places DEF Known
<1>6. brk <= brk'
  BY <1>1, BucketAssumption, NodesAssumption DEF TypeOK, HeapStart, HeapEnd
<1>7. Lists' /\ Known' = Known
  BY <1>1, <1>4, <1>5, <1>6, QuietLists
<1>8. Contents' = Contents
  BY <1>1, <1>4, KnownType, SameContents
<1> QED BY <1>2, <1>3, <1>7, <1>8

\* insert allocates a node.
LEMMA AllocateLists ==
  ASSUME TypeOK, TypeOK', Lists, Private, NEW t \in Thread, NEW k \in Key, insert_item(t, k)
  PROVE  /\ Lists' /\ Known' = Known /\ Contents' = Contents /\ next' = next
         /\ brk \in Heap /\ brk \notin Known /\ brk < brk' /\ key'[brk] = k
         /\ \A a \in Heap : a < brk => key'[a] = key[a]
<1>1. brk < HeapEnd /\ brk' = brk + 1 /\ key' = [key EXCEPT ![brk] = k] /\ UNCHANGED <<next, linked>>
  BY DEF insert_item, Invoke
<1>2. brk \in Heap /\ brk \in Int /\ HeapEnd \in Int /\ brk \in Addr
  BY <1>1, BucketAssumption, NodesAssumption, Places DEF TypeOK, Heap, HeapStart, HeapEnd
<1>3. brk <= brk' /\ brk < brk' /\ ~ (brk < brk)
  BY <1>1, <1>2
<1>4. \A a \in Heap : a < brk => key'[a] = key[a]
  BY <1>1, <1>2, <1>3, Places DEF TypeOK
<1>5. brk \notin Known
  BY <1>2, <1>3 DEF Lists, Allocated
<1>6. \A a \in Heap \ Known : ~ next'[a].mark
  BY <1>1 DEF Known
<1>7. Lists' /\ Known' = Known
  BY <1>1, <1>3, <1>4, <1>6, QuietLists
<1>8. \A a \in linked : key'[a] = key[a]
  BY <1>4, KnownType DEF Lists, Allocated
<1>9. Contents' = Contents
  BY <1>1, <1>8 DEF Contents
<1> QED BY <1>1, <1>2, <1>3, <1>4, <1>5, <1>7, <1>9 DEF TypeOK

\* Steps that only read the lists
Calm == UNCHANGED <<key, next, brk, linked>>

LEMMA CalmLists == ASSUME TypeOK, TypeOK', Lists, Calm PROVE Lists' /\ Known' = Known /\ Contents' = Contents
<1>1. \A a \in Heap \ Known : ~ next'[a].mark
  BY DEF Known, Calm
<1>2. brk <= brk'
  BY BucketAssumption, NodesAssumption DEF Calm, TypeOK, HeapStart, HeapEnd
<1>3. Lists' /\ Known' = Known
  BY <1>1, <1>2, QuietLists DEF Calm
<1> QED BY <1>3 DEF Calm, Contents

LEMMA Outcomes ==
  ASSUME NEW t \in Thread, Step(t)
  PROVE  \/ Calm
         \/ SearchUnlink(t) /\ CasSucceeds(left[t], Unmarked(leftNext[t]))
         \/ UnlinkCas(t) /\ CasSucceeds(left[t], Unmarked(right[t]))
         \/ MarkCas(t) /\ CasSucceeds(right[t], Unmarked(rightNext[t]))
         \/ InsertCas(t) /\ CasSucceeds(left[t], Unmarked(right[t]))
         \/ InsertTest(t) /\ ~FoundKey(t)
BY DEF Step, SearchHead, SearchLoad, SearchUnlink, SearchRecheck, FindResult, InsertTest, InsertCas,
   RemoveTest, RemoveLoad, MarkCas, UnlinkCas, Return, heap, Calm

\* A step of t leaves the other calls where they are.
LEMMA OthersKept ==
  ASSUME TypeOK, NEW t \in Thread,
         Step(t) \/ \E k \in Key : insert_item(t, k) \/ remove_item(t, k) \/ lookup_item(t, k),
         NEW u \in Thread, u # t
  PROVE  Kept(u)
<1>1. /\ \/ pc' = pc \/ \E to : Goto(t, to)
      /\ \/ UNCHANGED locals \/ \E n, l, ln, r, rn : SetLocals(t, n, l, ln, r, rn)
      /\ \/ op' = op \/ \E o : op' = [op EXCEPT ![t] = o]
      /\ \/ arg' = arg \/ \E k : arg' = [arg EXCEPT ![t] = k]
      /\ \/ ins' = ins \/ \E n : ins' = [ins EXCEPT ![t] = n]
      /\ \/ res' = res \/ \E r : res' = [res EXCEPT ![t] = r]
      /\ \/ seen' = seen \/ (\E z : seen' = [seen EXCEPT ![t] = z])
         \/ \E k, z : Witness(k, z)
  <2>1. CASE \E k \in Key : insert_item(t, k) \/ remove_item(t, k) \/ lookup_item(t, k)
    BY <2>1 DEF insert_item, remove_item, lookup_item, Invoke, Restart
  <2>2. CASE SearchHead(t) \/ SearchLoad(t)
    BY <2>2 DEF SearchHead, SearchLoad, Walk, CheckAdjacent
  <2>3. CASE SearchUnlink(t) \/ SearchRecheck(t)
    BY <2>3 DEF SearchUnlink, SearchRecheck, Restart
  <2>4. CASE FindResult(t) \/ InsertTest(t) \/ RemoveTest(t)
    BY <2>4 DEF FindResult, InsertTest, RemoveTest, Finish
  <2>5. CASE InsertCas(t) \/ RemoveLoad(t) \/ MarkCas(t) \/ UnlinkCas(t)
    BY <2>5 DEF InsertCas, RemoveLoad, MarkCas, UnlinkCas, Finish, Restart
  <2>6. CASE Return(t)
    BY <2>6 DEF Return
  <2> QED BY <2>1, <2>2, <2>3, <2>4, <2>5, <2>6 DEF Step
<1>2. pc'[u] = pc[u] /\ op'[u] = op[u] /\ arg'[u] = arg[u] /\ ins'[u] = ins[u] /\ res'[u] = res[u]
  BY <1>1 DEF Goto, TypeOK
<1>3. /\ node'[u] = node[u] /\ left'[u] = left[u] /\ leftNext'[u] = leftNext[u]
      /\ right'[u] = right[u] /\ rightNext'[u] = rightNext[u]
  BY <1>1 DEF SetLocals, locals, TypeOK
<1>4. seen[u] \subseteq seen'[u]
  BY <1>1 DEF Witness, TypeOK
<1> QED BY <1>2, <1>3, <1>4 DEF Kept

\* What a step of t leaves to the other calls
LEMMA StepShared ==
  ASSUME Inv, Inv', [Next]_vars, Lists, Private, NEW t \in Thread, LocalOK(t), Step(t)
  PROVE  /\ Lists' /\ Grown
         /\ \A u \in Thread : u # t /\ Pending(u) => next'[ins[u]] = next[ins[u]] /\ ins[u] \notin Known'
         /\ Pending(t)' => Pending(t) /\ ins'[t] = ins[t] /\ arg'[t] = arg[t] /\ ins[t] \notin Known'
         /\ brk' = brk /\ key' = key
<1> USE DEF Inv
<1>1. \A a \in Addr : next[a].mark => next'[a] = next[a]
  BY NextFrozen
<1>2. UNCHANGED <<key, brk>>
  BY DEF Step, SearchHead, SearchLoad, SearchUnlink, SearchRecheck, FindResult, InsertTest, InsertCas,
     RemoveTest, RemoveLoad, MarkCas, UnlinkCas, Return, heap
<1>3. Pending(t)' => Pending(t) /\ ins'[t] = ins[t] /\ arg'[t] = arg[t]
  <2>1. CASE Return(t)
    BY <2>1 DEF Return, Goto, Pending, TypeOK
  <2>2. CASE ~ Return(t)
    <3>1. UNCHANGED <<op, arg, ins>> /\ pc[t] \notin {"idle", "ret"}
      BY <2>2 DEF Step, SearchHead, SearchLoad, SearchUnlink, SearchRecheck, FindResult, InsertTest, InsertCas,
         RemoveTest, RemoveLoad, MarkCas, UnlinkCas
    <3> QED BY <3>1 DEF Pending
  <2> QED BY <2>1, <2>2
<1>4. \A u \in Thread : Pending(u) => ins[u] \in Addr /\ ins[u] \notin Known
  BY Places DEF Private
<1>5. CASE Lists' /\ Known' = Known /\ \A u \in Thread : u # t /\ Pending(u) => next'[ins[u]] = next[ins[u]]
  BY <1>1, <1>2, <1>3, <1>4, <1>5 DEF Grown
<1>6. CASE Calm
  BY <1>5, <1>6, CalmLists DEF Calm
<1>7. CASE \/ SearchUnlink(t) /\ CasSucceeds(left[t], Unmarked(leftNext[t]))
           \/ UnlinkCas(t) /\ CasSucceeds(left[t], Unmarked(right[t]))
  <2>1. Lists' /\ Known' = Known /\ \A a \in Addr : a # left[t] => next'[a] = next[a]
    BY <1>7, SearchUnlinkLists, UnlinkCasLists
  <2>2. left[t] \in Known
    BY <1>7 DEF SearchUnlink, UnlinkCas, LocalOK, Found, Enclosed, Mine
  <2> QED BY <1>4, <1>5, <2>1, <2>2
<1>8. CASE MarkCas(t) /\ CasSucceeds(right[t], Unmarked(rightNext[t]))
  <2>1. /\ Lists' /\ Known' = Known /\ right[t] \in linked
        /\ \A a \in Addr : a # right[t] => next'[a] = next[a]
    BY <1>8, MarkCasLists
  <2> QED BY <1>4, <1>5, <2>1, KnownType
<1>9. CASE InsertTest(t) /\ ~FoundKey(t)
  <2>1. Lists' /\ Known' = Known /\ \A a \in Addr : a # ins[t] => next'[a] = next[a]
    BY <1>9, InsertTestLists
  <2>2. Pending(t)
    BY <1>9 DEF InsertTest, Pending
  <2>3. \A u \in Thread : u # t /\ Pending(u) => ins[u] # ins[t]
    BY <2>2 DEF Private
  <2> QED BY <1>4, <1>5, <2>1, <2>3
<1>10. CASE InsertCas(t) /\ CasSucceeds(left[t], Unmarked(right[t]))
  <2>1. /\ Lists' /\ Known' = Known \cup {ins[t]} /\ Pending(t)
        /\ \A a \in Addr : a # left[t] => next'[a] = next[a]
    BY <1>10, InsertCasLists
  <2>2. left[t] \in Known /\ pc'[t] = "ret"
    BY <1>10 DEF InsertCas, Finish, Goto, LocalOK, Found, Enclosed, Mine, TypeOK
  <2>3. \A u \in Thread : u # t /\ Pending(u) => ins[u] # ins[t]
    BY <2>1 DEF Private
  <2> QED BY <1>1, <1>2, <1>3, <1>4, <2>1, <2>2, <2>3 DEF Grown, Pending
<1> QED BY <1>6, <1>7, <1>8, <1>9, <1>10, Outcomes

-----------------------------------------------------------------------------
(* What the call of t knows after its own step *)

LEMMA LeavesList ==
  ASSUME NEW t \in Thread, pc'[t] \in {"idle", "search", "ret"} PROVE LocalOK(t)'
BY DEF LocalOK, Found

LEMMA SearchLocal ==
  ASSUME Inv, Lists, NEW t \in Thread, LocalOK(t), Phase(t), Witnessed(t), SearchHead(t) \/ SearchLoad(t)
  PROVE  LocalOK(t)'
<1> USE DEF Inv
<1>1. UNCHANGED <<key, next, brk, linked, op, arg, seen>> /\ Has(t) \in seen[t]
  BY DEF SearchHead, SearchLoad, heap, Phase, Witnessed
<1>2. CASE SearchHead(t)
  <2>1. Bkt(t) \in Bucket /\ head(t) = HeadOf(Bkt(t)) /\ Walk(t, head(t), next[head(t)])
    BY <1>2, BktType DEF SearchHead, head, Bkt
  <2>2. Mine(t, head(t)) /\ Below(head(t), arg[t]) /\ ~ next[head(t)].mark
    BY <2>1, Members, Places DEF Mine, Below, Lists, Allocated
  <2> QED BY <1>1, <2>1, <2>2, WalkUnmarked
<1>3. CASE SearchLoad(t)
  <2>1. Loading(t) /\ Mine(t, node[t]) /\ node[t] \in Heap
    BY <1>3 DEF SearchLoad, LocalOK, Loading
  <2>2. CASE next[node[t]].mark
    BY <1>1, <1>3, <2>1, <2>2, WalkMarked DEF SearchLoad, is_marked_reference
  <2>3. CASE ~ next[node[t]].mark /\ key[node[t]] < arg[t]
    <3>1. Below(node[t], arg[t]) /\ Walk(t, node[t], next[node[t]])
      BY <1>3, <2>1, <2>3 DEF Below, SearchLoad
    <3> QED BY <1>1, <2>1, <2>3, <3>1, WalkUnmarked
  <2>4. CASE ~ next[node[t]].mark /\ ~ (key[node[t]] < arg[t])
    BY <1>1, <1>3, <2>1, <2>4, WalkEnds DEF SearchLoad, is_marked_reference
  <2> QED BY <2>2, <2>3, <2>4
<1> QED BY <1>2, <1>3

LEMMA UnlinkLocal ==
  ASSUME Inv, Inv', Lists, Grown, NEW t \in Thread, LocalOK(t), Phase(t), Witnessed(t), SearchUnlink(t)
  PROVE  LocalOK(t)'
<1> USE DEF Inv
<1>1. CASE ~ CasSucceeds(left[t], Unmarked(leftNext[t]))
  BY <1>1, LeavesList DEF SearchUnlink, Restart, Goto, TypeOK
<1>2. CASE CasSucceeds(left[t], Unmarked(leftNext[t]))
  <2>1. /\ pc[t] = "unlink" /\ UNCHANGED <<node, left, leftNext, right, rightNext, op, arg, seen>>
        /\ pc'[t] \in {"recheck", "found"}
    BY <1>2 DEF SearchUnlink, Goto, locals, TypeOK
  <2>2. Enclosed(t) /\ Has(t) \in seen[t]
    BY <2>1 DEF LocalOK, Phase, Witnessed
  <2>3. Enclosed(t)' /\ (FoundKey(t)' <=> FoundKey(t))
    BY <2>1, <2>2, EnclosedKept
  <2>4. ASSUME ~ FoundKey(t) PROVE FALSE \in seen[t]
    <3>1. Bkt(t) \in Bucket /\ arg[t] \in Int /\ tail(t) = TailOf(Bkt(t))
      BY BktType DEF tail, Bkt
    <3>2. /\ right[t] \in Nodes(Bkt(t)) \cup {TailOf(Bkt(t))}
          /\ \A x \in Nodes(Bkt(t)) : Lt(left[t], x) /\ Lt(x, right[t]) => next[x].mark
      BY <1>2, SearchUnlinkLists
    <3>3. left[t] \in Known /\ Below(left[t], arg[t]) /\ AtLeast(right[t], arg[t])
      BY <2>2 DEF Enclosed, Mine
    <3>4. right[t] # TailOf(Bkt(t)) => right[t] \in Heap /\ arg[t] <= key[right[t]] /\ key[right[t]] # arg[t]
                                       /\ key[right[t]] \in Int
      BY <2>4, <3>1, <3>2, <3>3, Members, Places DEF FoundKey, AtLeast, TypeOK
    <3>5. right[t] # TailOf(Bkt(t)) => right[t] \in Heap /\ arg[t] < key[right[t]]
      BY <3>1, <3>4
    <3> QED BY <2>2, <3>2, <3>3, <3>5, NotThere
  <2> QED BY <2>1, <2>3, <2>4 DEF LocalOK, Found
<1> QED BY <1>1, <1>2

LEMMA ResultLocal ==
  ASSUME Inv, Inv', Lists, Private, Grown, NEW t \in Thread, LocalOK(t),
         SearchRecheck(t) \/ FindResult(t) \/ InsertTest(t) \/ InsertCas(t)
         \/ RemoveTest(t) \/ RemoveLoad(t) \/ MarkCas(t) \/ UnlinkCas(t) \/ Return(t)
  PROVE  LocalOK(t)'
<1> USE DEF Inv
<1>1. CASE pc'[t] \in {"idle", "search", "ret"}
  BY <1>1, LeavesList
<1>2. CASE pc'[t] \notin {"idle", "search", "ret"}
  <2>1. \/ SearchRecheck(t) /\ pc'[t] = "found" /\ UNCHANGED <<left, right>>
        \/ InsertTest(t) /\ ~FoundKey(t) /\ pc'[t] = "insert_cas" /\ UNCHANGED <<left, right>>
        \/ RemoveTest(t) /\ FoundKey(t) /\ pc'[t] = "remove_load" /\ UNCHANGED <<left, right>>
        \/ RemoveLoad(t) /\ pc'[t] = "mark_cas" /\ left'[t] = left[t] /\ right'[t] = right[t]
        \/ /\ MarkCas(t) /\ CasSucceeds(right[t], Unmarked(rightNext[t]))
           /\ pc'[t] = "unlink_cas" /\ UNCHANGED <<left, right, rightNext>>
    <3> USE DEF TypeOK, Goto
    <3>1. CASE SearchRecheck(t)
      BY <1>2, <3>1 DEF SearchRecheck, Restart, locals
    <3>2. CASE InsertTest(t)
      BY <1>2, <3>2 DEF InsertTest, Finish, locals
    <3>3. CASE RemoveTest(t)
      BY <1>2, <3>3 DEF RemoveTest, Finish, locals
    <3>4. CASE RemoveLoad(t)
      BY <1>2, <3>4 DEF RemoveLoad, Restart, SetLocals
    <3>5. CASE MarkCas(t)
      BY <1>2, <3>5 DEF MarkCas, Restart, locals
    <3>6. CASE FindResult(t) \/ InsertCas(t) \/ UnlinkCas(t) \/ Return(t)
      BY <1>2, <3>6 DEF FindResult, InsertCas, UnlinkCas, Return, Restart, Finish
    <3> QED BY <3>1, <3>2, <3>3, <3>4, <3>5, <3>6
  <2>2. arg'[t] = arg[t] /\ op'[t] = op[t] /\ left'[t] = left[t] /\ right'[t] = right[t]
    BY <2>1 DEF SearchRecheck, InsertTest, RemoveTest, RemoveLoad, MarkCas
  <2>3. seen[t] \subseteq seen'[t]
    <3>1. CASE MarkCas(t)
      <4>1. seen' = seen \/ Witness(arg[t], FALSE)
        BY <3>1 DEF MarkCas
      <4> QED BY <4>1 DEF Witness, TypeOK
    <3>2. CASE ~ MarkCas(t)
      BY <2>1, <3>2 DEF SearchRecheck, InsertTest, RemoveTest, RemoveLoad
    <3> QED BY <3>1, <3>2
  <2>4. Enclosed(t)
    BY <2>1 DEF SearchRecheck, InsertTest, RemoveTest, RemoveLoad, MarkCas, LocalOK, Found
  <2>5. Enclosed(t)' /\ (FoundKey(t)' <=> FoundKey(t))
    BY <2>2, <2>3, <2>4, EnclosedKept
  <2>6. CASE SearchRecheck(t) /\ pc'[t] = "found"
    BY <2>3, <2>5, <2>6 DEF SearchRecheck, LocalOK, Found
  <2>7. CASE InsertTest(t) /\ ~FoundKey(t) /\ pc'[t] = "insert_cas"
    <3>1. next'[ins[t]] = Unmarked(right[t]) /\ ins' = ins /\ op[t] = "insert"
      BY <2>7, InsertTestLists DEF InsertTest
    <3> QED BY <2>2, <2>5, <2>7, <3>1 DEF LocalOK, Found
  <2>8. CASE RemoveTest(t) /\ FoundKey(t) /\ pc'[t] = "remove_load"
    BY <2>2, <2>5, <2>8 DEF RemoveTest, LocalOK, Found
  <2>9. CASE RemoveLoad(t) /\ pc'[t] = "mark_cas"
    BY <2>2, <2>5, <2>9 DEF RemoveLoad, LocalOK, Found
  <2>10. CASE /\ MarkCas(t) /\ CasSucceeds(right[t], Unmarked(rightNext[t]))
              /\ pc'[t] = "unlink_cas" /\ UNCHANGED <<left, right, rightNext>>
    <3>1. next'[right[t]] = get_marked_reference(Unmarked(rightNext[t]))
      BY <2>10, MarkCasLists
    <3>2. op[t] = "remove" /\ FoundKey(t)
      BY <2>10 DEF MarkCas, LocalOK
    <3> QED BY <2>2, <2>5, <2>10, <3>1, <3>2 DEF LocalOK, Found
  <2> QED BY <2>1, <2>6, <2>7, <2>8, <2>9, <2>10
<1> QED BY <1>1, <1>2

-----------------------------------------------------------------------------
(* Steps of a call *)

\* A call: what it knows, how far it has come, what it has seen.
Call(t) == LocalOK(t) /\ Phase(t) /\ Witnessed(t)

LEMMA StepLocal ==
  ASSUME Inv, Inv', [Next]_vars, Lists, Private, \A u \in Thread : Call(u), NEW t \in Thread, Step(t)
  PROVE  /\ Lists' /\ Private'
         /\ \A u \in Thread : LocalOK(u)'
<1>1. LocalOK(t) /\ Phase(t) /\ Witnessed(t)
  BY DEF Call
<1>2. /\ Lists' /\ Grown
      /\ \A u \in Thread : u # t /\ Pending(u) => next'[ins[u]] = next[ins[u]] /\ ins[u] \notin Known'
      /\ Pending(t)' => Pending(t) /\ ins'[t] = ins[t] /\ arg'[t] = arg[t] /\ ins[t] \notin Known'
      /\ brk' = brk /\ key' = key
  BY <1>1, StepShared
<1>3. LocalOK(t)'
  <2>1. CASE SearchHead(t) \/ SearchLoad(t)
    BY <1>1, <2>1, SearchLocal
  <2>2. CASE SearchUnlink(t)
    BY <1>1, <1>2, <2>2, UnlinkLocal
  <2>3. CASE SearchRecheck(t) \/ FindResult(t) \/ InsertTest(t) \/ InsertCas(t)
             \/ RemoveTest(t) \/ RemoveLoad(t) \/ MarkCas(t) \/ UnlinkCas(t) \/ Return(t)
    BY <1>1, <1>2, <2>3, ResultLocal
  <2> QED BY <2>1, <2>2, <2>3 DEF Step
<1>4. \A u \in Thread : u # t => Kept(u)
  BY OthersKept DEF Inv
<1>5. ASSUME NEW u \in Thread, u # t PROVE LocalOK(u)'
  <2>1. Kept(u) /\ LocalOK(u)
    BY <1>4, <1>5 DEF Call
  <2>2. pc[u] = "insert_cas" => Pending(u)
    BY <2>1 DEF LocalOK, Pending
  <2> QED BY <1>2, <1>5, <2>1, <2>2, LocalKept DEF Inv
<1>6. \A u \in Thread : Pending(u)' => /\ Pending(u) /\ ins'[u] = ins[u] /\ arg'[u] = arg[u]
                                       /\ ins[u] \notin Known'
  BY <1>2, <1>4 DEF Kept, Pending
<1>7. Private'
  BY <1>2, <1>6 DEF Private
<1> QED BY <1>2, <1>3, <1>5, <1>7

LEMMA StepPhase ==
  ASSUME TypeOK, NEW t \in Thread, LocalOK(t), Phase(t), Step(t)
  PROVE  Phase(t)'
<1> USE DEF Phase, Goto, TypeOK
<1>1. CASE SearchHead(t)
  BY <1>1 DEF SearchHead, Walk, CheckAdjacent
<1>2. CASE SearchLoad(t)
  BY <1>2 DEF SearchLoad, Walk, CheckAdjacent
<1>3. CASE SearchUnlink(t) \/ SearchRecheck(t)
  BY <1>3 DEF SearchUnlink, SearchRecheck, Restart
<1>4. CASE FindResult(t) \/ InsertTest(t)
  BY <1>4 DEF FindResult, InsertTest, Finish
<1>5. CASE InsertCas(t) \/ RemoveLoad(t)
  <2>1. CASE InsertCas(t)
    BY <2>1 DEF InsertCas, Finish, Restart, LocalOK
  <2>2. CASE RemoveLoad(t)
    BY <2>2 DEF RemoveLoad, Restart, LocalOK
  <2> QED BY <1>5, <2>1, <2>2
<1>6. CASE RemoveTest(t)
  BY <1>6 DEF RemoveTest, Finish
<1>7. CASE MarkCas(t)
  BY <1>7 DEF MarkCas, Restart, LocalOK
<1>8. CASE UnlinkCas(t)
  BY <1>8 DEF UnlinkCas, Finish, Restart, LocalOK
<1>9. CASE Return(t)
  BY <1>9 DEF Return
<1> QED BY <1>1, <1>2, <1>3, <1>4, <1>5, <1>6, <1>7, <1>8, <1>9 DEF Step

\* What a step of t means for the map and its calls.
Effects(t) ==
  \/ /\ Contents' = Contents /\ UNCHANGED <<op, arg, seen>>
     /\ \/ res' = res
        \/ /\ pc[t] = "found" /\ res[t] = "none"
           /\ \/ op[t] = "find" /\ FoundKey(t) /\ res' = [res EXCEPT ![t] = "yes"]
              \/ op[t] = "find" /\ ~FoundKey(t) /\ res' = [res EXCEPT ![t] = "no"]
              \/ op[t] = "insert" /\ FoundKey(t) /\ res' = [res EXCEPT ![t] = "no"]
              \/ op[t] = "remove" /\ ~FoundKey(t) /\ res' = [res EXCEPT ![t] = "no"]
  \/ /\ pc[t] = "insert_cas" /\ arg[t] \notin Contents /\ Contents' = Contents \cup {arg[t]}
     /\ res' = [res EXCEPT ![t] = "yes"] /\ Witness(arg[t], TRUE) /\ UNCHANGED <<op, arg>>
  \/ /\ pc[t] = "mark_cas" /\ arg[t] \in Contents /\ Contents' = Contents \ {arg[t]}
     /\ res' = [res EXCEPT ![t] = "yes"] /\ Witness(arg[t], FALSE) /\ UNCHANGED <<op, arg>>
  \/ Return(t) /\ Contents' = Contents

LEMMA StepEffects ==
  ASSUME TypeOK, TypeOK', Lists, Private, NEW t \in Thread, LocalOK(t), Phase(t), Step(t)
  PROVE  Effects(t)
<1>1. CASE MarkCas(t) /\ CasSucceeds(right[t], Unmarked(rightNext[t]))
  <2>1. arg[t] \in Contents /\ Contents' = Contents \ {arg[t]}
    BY <1>1, MarkCasLists
  <2> QED BY <1>1, <2>1 DEF Effects, MarkCas
<1>2. CASE InsertCas(t) /\ CasSucceeds(left[t], Unmarked(right[t]))
  <2>1. arg[t] \notin Contents /\ Contents' = Contents \cup {arg[t]}
    BY <1>2, InsertCasLists
  <2> QED BY <1>2, <2>1 DEF Effects, InsertCas, Finish
<1>3. CASE /\ ~ (MarkCas(t) /\ CasSucceeds(right[t], Unmarked(rightNext[t])))
           /\ ~ (InsertCas(t) /\ CasSucceeds(left[t], Unmarked(right[t])))
  <2>1. Contents' = Contents
    BY <1>3, Outcomes, CalmLists, SearchUnlinkLists, UnlinkCasLists, InsertTestLists
  <2>2. CASE SearchHead(t) \/ SearchLoad(t) \/ SearchUnlink(t) \/ SearchRecheck(t) \/ RemoveLoad(t)
    BY <2>1, <2>2 DEF Effects, SearchHead, SearchLoad, SearchUnlink, SearchRecheck, RemoveLoad
  <2>3. CASE MarkCas(t) \/ InsertCas(t)
    BY <1>3, <2>1, <2>3 DEF Effects, MarkCas, InsertCas
  <2>4. CASE UnlinkCas(t)
    <3>1. res[t] = "yes" /\ UNCHANGED <<op, arg, seen>>
      BY <2>4 DEF UnlinkCas, Phase
    <3>2. res' = res
      BY <2>4, <3>1 DEF UnlinkCas, Finish, TypeOK
    <3> QED BY <2>1, <3>1, <3>2 DEF Effects
  <2>5. CASE FindResult(t)
    <3>1. /\ pc[t] = "found" /\ op[t] = "find" /\ res[t] = "none" /\ UNCHANGED <<op, arg, seen>>
          /\ res' = [res EXCEPT ![t] = IF FoundKey(t) THEN "yes" ELSE "no"]
      BY <2>5 DEF FindResult, Finish, Phase, TypeOK
    <3> QED BY <2>1, <3>1 DEF Effects
  <2>6. CASE InsertTest(t)
    <3>1. pc[t] = "found" /\ op[t] = "insert" /\ res[t] = "none" /\ UNCHANGED <<op, arg, seen>>
      BY <2>6 DEF InsertTest, Phase, TypeOK
    <3>2. CASE FoundKey(t)
      <4>1. res' = [res EXCEPT ![t] = "no"]
        BY <2>6, <3>2 DEF InsertTest, Finish
      <4> QED BY <2>1, <3>1, <3>2, <4>1 DEF Effects
    <3>3. CASE ~ FoundKey(t)
      BY <2>1, <2>6, <3>1, <3>3 DEF Effects, InsertTest
    <3> QED BY <3>2, <3>3
  <2>7. CASE RemoveTest(t)
    <3>1. pc[t] = "found" /\ op[t] = "remove" /\ UNCHANGED <<op, arg, seen>> /\ res[t] \in {"none", "yes"}
      BY <2>7 DEF RemoveTest, Phase, TypeOK
    <3>2. CASE res[t] = "yes"
      <4>1. res' = res
        BY <2>7, <3>2 DEF RemoveTest, Finish, TypeOK
      <4> QED BY <2>1, <3>1, <4>1 DEF Effects
    <3>3. CASE res[t] = "none" /\ FoundKey(t)
      BY <2>1, <2>7, <3>1, <3>3 DEF Effects, RemoveTest
    <3>4. CASE res[t] = "none" /\ ~ FoundKey(t)
      <4>1. res' = [res EXCEPT ![t] = "no"]
        BY <2>7, <3>4 DEF RemoveTest, Finish
      <4> QED BY <2>1, <3>1, <3>4, <4>1 DEF Effects
    <3> QED BY <3>1, <3>2, <3>3, <3>4
  <2>8. CASE Return(t)
    BY <2>1, <2>8 DEF Effects
  <2> QED BY <2>2, <2>3, <2>4, <2>5, <2>6, <2>7, <2>8 DEF Step
<1> QED BY <1>1, <1>2, <1>3

LEMMA StepWitnessed ==
  ASSUME TypeOK, NEW t \in Thread, Effects(t), NEW u \in Thread, Witnessed(u)
  PROVE  Witnessed(u)'
<1>1. CASE Contents' = Contents /\ UNCHANGED <<op, arg, seen>>
  BY <1>1 DEF Witnessed, Has
<1>2. CASE Return(t) /\ Contents' = Contents
  <2>1. CASE u = t
    BY <1>2, <2>1 DEF Return, Witnessed, TypeOK
  <2>2. CASE u # t
    BY <1>2, <2>2 DEF Return, Witnessed, Has, TypeOK
  <2> QED BY <2>1, <2>2
<1>3. ASSUME NEW z \in BOOLEAN, Witness(arg[t], z), UNCHANGED <<op, arg>>,
             z <=> arg[t] \in Contents', \A k : k # arg[t] => (k \in Contents' <=> k \in Contents)
      PROVE  Witnessed(u)'
  <2> SUFFICES ASSUME op[u] # "none" PROVE (arg[u] \in Contents') \in seen'[u]
    BY <1>3 DEF Witnessed, Has
  <2>1. (arg[u] \in Contents) \in seen[u]
    BY DEF Witnessed, Has
  <2>2. CASE arg[u] = arg[t]
    <3>1. seen'[u] = seen[u] \cup {z} /\ (arg[u] \in Contents') = z
      BY <1>3, <2>2 DEF Witness
    <3> QED BY <3>1
  <2>3. CASE arg[u] # arg[t]
    <3>1. seen'[u] = seen[u] /\ (arg[u] \in Contents') = (arg[u] \in Contents)
      BY <1>3, <2>3 DEF Witness
    <3> QED BY <2>1, <3>1
  <2> QED BY <2>2, <2>3
<1>4. CASE Contents' = Contents \cup {arg[t]} /\ Witness(arg[t], TRUE) /\ UNCHANGED <<op, arg>>
  BY <1>3, <1>4
<1>5. CASE Contents' = Contents \ {arg[t]} /\ Witness(arg[t], FALSE) /\ UNCHANGED <<op, arg>>
  BY <1>3, <1>5
<1> QED BY <1>1, <1>2, <1>4, <1>5 DEF Effects

-----------------------------------------------------------------------------
(* Calls that begin *)

LEMMA InvokeCalls ==
  ASSUME Inv, Inv', Lists, Private, \A u \in Thread : Call(u), NEW t \in Thread, NEW k \in Key,
         insert_item(t, k) \/ remove_item(t, k) \/ lookup_item(t, k)
  PROVE  /\ Lists' /\ Private' /\ Contents' = Contents /\ Grown /\ linked' = linked /\ next' = next
         /\ \A u \in Thread : Call(u)'
<1> USE DEF Inv
<1>1. PICK o : o \in {"insert", "remove", "find"} /\ Invoke(t, o, k) /\ (o # "insert" => UNCHANGED <<key, brk, ins>>)
                 /\ (o = "insert" => insert_item(t, k))
  BY DEF insert_item, remove_item, lookup_item
<1>2. /\ pc[t] = "idle" /\ op'[t] = o /\ arg'[t] = k /\ pc'[t] = "search"
      /\ seen'[t] = {z \in BOOLEAN : z = (k \in Contents)} /\ UNCHANGED <<res, next, linked>>
  BY <1>1 DEF Invoke, Restart, Goto, TypeOK
<1>3. \A u \in Thread : u # t => Kept(u)
  BY OthersKept
<1>4. /\ Lists' /\ Known' = Known /\ Contents' = Contents
      /\ \A a \in Heap : a < brk => key'[a] = key[a]
  BY <1>1, <1>2, AllocateLists, CalmLists DEF Calm
<1>5. Grown
  BY <1>2, <1>4 DEF Grown
<1>6. Private'
  <2>1. CASE o = "insert"
    <3>1. /\ brk \in Heap /\ brk \notin Known /\ brk < brk' /\ key'[brk] = k /\ ins'[t] = brk
          /\ brk \in Int /\ brk' \in Int
      BY <1>1, <2>1, AllocateLists, BucketAssumption, NodesAssumption
         DEF insert_item, TypeOK, HeapStart, HeapEnd
    <3>2. \A u \in Thread : u # t /\ Pending(u)' => /\ Pending(u) /\ ins'[u] = ins[u] /\ arg'[u] = arg[u]
                                                    /\ ins[u] \in Heap /\ ins[u] < brk
      BY <1>3 DEF Kept, Pending, Private
    <3>3. \A a \in Heap : a < brk => a < brk' /\ a # brk
      BY <3>1 DEF Heap
    <3>4. ASSUME NEW u \in Thread, Pending(u)'
          PROVE  ins'[u] \in Heap /\ ins'[u] < brk' /\ ins'[u] \notin Known' /\ key'[ins'[u]] = arg'[u]
      <4>1. CASE u = t
        BY <1>2, <1>4, <3>1, <4>1
      <4>2. CASE u # t
        BY <1>4, <3>2, <3>3, <3>4, <4>2 DEF Private
      <4> QED BY <4>1, <4>2
    <3>5. ASSUME NEW u \in Thread, NEW v \in Thread, Pending(u)', Pending(v)', ins'[u] = ins'[v] PROVE u = v
      BY <3>1, <3>2, <3>3, <3>5 DEF Private
    <3> QED BY <3>4, <3>5 DEF Private
  <2>2. CASE o # "insert"
    <3>1. ~ Pending(t)' /\ UNCHANGED <<key, brk, ins>>
      BY <1>1, <1>2, <2>2 DEF Pending
    <3>2. \A u \in Thread : Pending(u)' => Pending(u) /\ ins'[u] = ins[u] /\ arg'[u] = arg[u]
      BY <1>3, <3>1 DEF Kept, Pending
    <3> QED BY <1>4, <3>1, <3>2 DEF Private
  <2> QED BY <2>1, <2>2
<1>7. Call(t)'
  <2>1. LocalOK(t)'
    BY <1>2, LeavesList
  <2>2. Phase(t)'
    BY <1>1, <1>2 DEF Phase, Call
  <2>3. Witnessed(t)'
    <3>1. seen'[t] = {z \in BOOLEAN : z = (k \in Contents')}
      BY <1>2, <1>4
    <3>2. (k \in Contents') \in seen'[t]
      BY <3>1
    <3> QED BY <1>2, <3>2 DEF Witnessed, Has
  <2> QED BY <2>1, <2>2, <2>3 DEF Call
<1>8. ASSUME NEW u \in Thread, u # t PROVE Call(u)'
  <2>1. Kept(u) /\ Call(u)
    BY <1>3, <1>8
  <2>2. LocalOK(u)'
    BY <1>2, <1>5, <2>1, LocalKept DEF Call
  <2>3. Phase(u)'
    BY <2>1 DEF Phase, Call, Kept
  <2>4. Witnessed(u)'
    BY <1>4, <2>1 DEF Witnessed, Has, Call, Kept
  <2> QED BY <2>2, <2>3, <2>4 DEF Call
<1> QED BY <1>2, <1>4, <1>5, <1>6, <1>7, <1>8

-----------------------------------------------------------------------------
(* Marked nodes are taken out *)

LEMMA DutyKept ==
  ASSUME TypeOK, Lists, Grown, NEW u \in Thread, Kept(u), LocalOK(u), NEW n \in linked, Duty(u, n)
  PROVE  Duty(u, n)'
<1>1. n \in Known /\ n \in Heap /\ key'[n] = key[n]
  BY KnownType, GrownOrder
<1>2. pc[u] = "load" => node[u] \in Known
  BY DEF LocalOK, Loading, Mine
<1>3. pc[u] = "load" => (Lt(node[u], n)' <=> Lt(node[u], n))
  <2> SUFFICES ASSUME pc[u] = "load", NEW m \in Known, m = node[u] PROVE Lt(m, n)' <=> Lt(m, n)
    BY <1>2 DEF Kept, Lt
  <2> QED BY <1>1, GrownOrder
<1> QED BY <1>1, <1>3 DEF Duty, Kept

\* A call that has a node to take out does not lose sight of it.
LEMMA DutyStep ==
  ASSUME Inv, Inv', [Next]_vars, Lists, Private, NEW t \in Thread, Call(t), Step(t),
         NEW n \in linked, n \in linked', next[n].mark, Duty(t, n)
  PROVE  Duty(t, n)'
<1> USE DEF Inv
<1>1. op[t] = "remove" /\ res[t] = "yes" /\ arg[t] = key[n] /\ pc[t] \in {"search", "load", "unlink", "unlink_cas"}
  BY DEF Duty
<1>2. LocalOK(t) /\ Phase(t) /\ Witnessed(t) /\ Has(t) \in seen[t]
  BY <1>1 DEF Call, Witnessed
<1>3. /\ n \in Heap /\ n \in Addr /\ n \in Known /\ n \in Nodes(Bkt(t)) /\ Bkt(t) \in Bucket
      /\ In(n, Bkt(t)) /\ arg[t] \in Int /\ AtLeast(n, arg[t])
  BY <1>1, KnownType, Places, BktType DEF Nodes, Bkt, In, AtLeast
<1>4. ASSUME SearchHead(t) \/ SearchLoad(t), NEW c, Mine(t, c), Below(c, arg[t]), ~ next[c].mark, Walk(t, c, next[c])
      PROVE  Duty(t, n)'
  <2>1. UNCHANGED <<key, next, brk, linked, op, arg, seen, res>>
    BY <1>4 DEF SearchHead, SearchLoad, heap
  <2>2. /\ pc'[t] \in {"load", "found"}
        /\ pc'[t] = "load" => /\ leftNext'[t] = node'[t] /\ node'[t] \in Nodes(Bkt(t))
                              /\ \A x \in Nodes(Bkt(t)) : Lt(c, x) => ~ Lt(x, node'[t])
        /\ pc'[t] = "found" => Nodes(Bkt(t)) \cap {x \in Addr : Lt(c, x)} = {}
    BY <1>2, <1>4, <2>1, WalkUnmarked
  <2>3. Lt(c, n)
    BY <1>3, <1>4, KnownType, Order DEF Mine
  <2>4. pc'[t] = "load" /\ node'[t] \in Nodes(Bkt(t)) /\ ~ Lt(n, node'[t])
    BY <1>3, <2>2, <2>3
  <2>5. PICK m : m = node'[t]
    OBVIOUS
  <2>6. m = n \/ Lt(m, n)
    <3>1. m \in Addr /\ In(m, Bkt(t)) /\ m \in linked
      BY <1>3, <2>4, <2>5, Members
    <3>2. m = n \/ Lt(m, n) \/ Lt(n, m) \/ key[m] = key[n]
      BY <1>3, <3>1, Total
    <3> QED BY <2>4, <2>5, <3>1, <3>2 DEF Lists, Distinct
  <2>7. n = node'[t] \/ Lt(node[t], n)'
    BY <2>1, <2>5, <2>6 DEF Lt
  <2> QED BY <1>1, <2>1, <2>4, <2>7 DEF Duty
<1>5. CASE SearchHead(t)
  <2>1. head(t) = HeadOf(Bkt(t)) /\ Walk(t, head(t), next[head(t)])
    BY <1>5 DEF SearchHead, head, Bkt
  <2>2. Mine(t, head(t)) /\ Below(head(t), arg[t]) /\ ~ next[head(t)].mark
    BY <1>3, <2>1, Members, Places DEF Mine, Below, Lists, Allocated
  <2> QED BY <1>4, <1>5, <2>1, <2>2
<1>6. CASE SearchLoad(t)
  <2>1. UNCHANGED <<key, next, brk, linked, op, arg, seen, res>>
    BY <1>6 DEF SearchLoad, heap
  <2>2. Loading(t) /\ Mine(t, node[t]) /\ node[t] \in Heap /\ pc[t] = "load" /\ key[node[t]] \in Int
    BY <1>2, <1>6, Places DEF SearchLoad, LocalOK, Loading, TypeOK
  <2>3. CASE next[node[t]].mark
    <3>1. Walk(t, node[t], next[node[t]])
      BY <1>6, <2>3 DEF SearchLoad, is_marked_reference
    <3>2. /\ pc'[t] \in {"load", "unlink"}
          /\ pc'[t] = "load" => leftNext'[t] # node'[t]
          /\ pc'[t] = "unlink" => right'[t] = tail(t)
      BY <2>1, <2>2, <2>3, <3>1, WalkMarked
    <3>3. tail(t) # n
      BY <1>3, Places DEF tail, Bkt
    <3> QED BY <1>1, <2>1, <3>2, <3>3 DEF Duty
  <2>4. CASE ~ next[node[t]].mark /\ key[node[t]] < arg[t]
    BY <1>4, <1>6, <2>2, <2>4 DEF SearchLoad, Below
  <2>5. CASE ~ next[node[t]].mark /\ ~ (key[node[t]] < arg[t])
    <3>1. CheckAdjacent(t, left[t], leftNext[t], node[t])
      BY <1>6, <2>5 DEF SearchLoad, is_marked_reference
    <3>2. right'[t] = node[t] /\ (pc'[t] = "unlink" \/ leftNext[t] = node[t])
      BY <1>2, <2>1, <2>2, <2>5, <3>1, WalkEnds
    <3>3. n # node[t]
      BY <2>5
    <3>4. ~ Lt(node[t], n)
      BY <1>1, <1>3, <2>2, <2>5, Places DEF Lt
    <3>5. pc'[t] = "unlink"
      BY <2>2, <3>2, <3>3, <3>4 DEF Duty
    <3> QED BY <1>1, <2>1, <3>2, <3>3, <3>5 DEF Duty
  <2> QED BY <2>3, <2>4, <2>5
<1>7. CASE SearchUnlink(t)
  <2>1. UNCHANGED <<key, op, arg, res>>
    BY <1>7 DEF SearchUnlink
  <2>2. CASE ~ CasSucceeds(left[t], Unmarked(leftNext[t]))
    <3>1. pc'[t] = "search"
      BY <1>7, <2>2 DEF SearchUnlink, Restart, Goto, TypeOK
    <3> QED BY <1>1, <2>1, <3>1 DEF Duty
  <2>3. CASE CasSucceeds(left[t], Unmarked(leftNext[t]))
    <3>1. /\ right[t] \in Nodes(Bkt(t)) \cup {TailOf(Bkt(t))}
          /\ linked' = {x \in linked : ~ (x \in Nodes(Bkt(t)) /\ Lt(left[t], x) /\ Lt(x, right[t]))}
      BY <1>2, <1>7, <2>3, SearchUnlinkLists
    <3>2. Enclosed(t) /\ right[t] # n
      BY <1>2, <1>7 DEF SearchUnlink, LocalOK, Duty
    <3>3. Lt(left[t], n)
      BY <1>3, <3>2, KnownType, Order DEF Enclosed, Mine
    <3>4. Lt(n, right[t])
      <4>1. right[t] \in linked => right[t] \in Heap /\ key[right[t]] # key[n] /\ key[right[t]] \in Int
        BY <3>2, KnownType, Places DEF Lists, Distinct, TypeOK
      <4>2. right[t] \in linked => arg[t] <= key[right[t]]
        BY <3>2, <4>1, Places DEF Enclosed, AtLeast
      <4>3. right[t] \in linked => key[n] < key[right[t]]
        BY <1>1, <1>3, <4>1, <4>2
      <4> QED BY <1>3, <3>1, <4>1, <4>3, Members, Places DEF Lt
    <3> QED BY <1>3, <3>1, <3>3, <3>4
  <2> QED BY <2>2, <2>3
<1>8. CASE UnlinkCas(t)
  <2>1. UNCHANGED <<key, op, arg>> /\ right[t] = n
    BY <1>8 DEF UnlinkCas, Duty
  <2>2. ~ CasSucceeds(left[t], Unmarked(right[t]))
    BY <1>2, <1>8, <2>1, UnlinkCasLists
  <2>3. pc'[t] = "search" /\ res' = res
    BY <1>8, <2>2 DEF UnlinkCas, Restart, Goto, TypeOK
  <2> QED BY <1>1, <2>1, <2>3 DEF Duty
<1>9. SearchHead(t) \/ SearchLoad(t) \/ SearchUnlink(t) \/ UnlinkCas(t)
  BY <1>1 DEF Step, SearchRecheck, FindResult, InsertTest, InsertCas, RemoveTest, RemoveLoad, MarkCas, Return
<1> QED BY <1>5, <1>6, <1>7, <1>8, <1>9

LEMMA StepCleaned ==
  ASSUME Inv, Inv', [Next]_vars, Lists, Private, \A u \in Thread : Call(u), Cleaned, NEW t \in Thread, Step(t)
  PROVE  Cleaned'
<1> USE DEF Inv
<1> SUFFICES ASSUME NEW n \in linked', next'[n].mark PROVE \E u \in Thread : Duty(u, n)'
  BY DEF Cleaned
<1>1. LocalOK(t) /\ Phase(t) /\ Grown
  BY StepShared DEF Call
<1>2. CASE MarkCas(t) /\ CasSucceeds(right[t], Unmarked(rightNext[t])) /\ n = right[t]
  <2>1. key' = key /\ key[right[t]] = arg[t] /\ op[t] = "remove"
    BY <1>1, <1>2, MarkCasLists DEF LocalOK, MarkCas
  <2>2. pc'[t] = "unlink_cas" /\ right'[t] = n /\ res'[t] = "yes" /\ UNCHANGED <<op, arg>>
    BY <1>2 DEF MarkCas, Goto, locals, TypeOK
  <2> QED BY <1>2, <2>1, <2>2 DEF Duty
<1>3. CASE n \in linked /\ next[n].mark
  <2>1. PICK u \in Thread : Duty(u, n)
    BY <1>3 DEF Cleaned
  <2>2. CASE u = t
    BY <1>3, <2>1, <2>2, DutyStep
  <2>3. CASE u # t
    <3>1. Kept(u) /\ LocalOK(u)
      BY <2>3, OthersKept DEF Call
    <3> QED BY <1>1, <1>3, <2>1, <3>1, DutyKept
  <2> QED BY <2>2, <2>3
<1>4. \/ n \in linked /\ next[n].mark
      \/ MarkCas(t) /\ CasSucceeds(right[t], Unmarked(rightNext[t])) /\ n = right[t]
  <2>1. n \in Addr
    BY Places DEF TypeOK
  <2>2. CASE Calm
    BY <2>2 DEF Calm
  <2>3. CASE SearchUnlink(t) /\ CasSucceeds(left[t], Unmarked(leftNext[t]))
    <3>1. n \in linked /\ \A a \in Addr : a # left[t] => next'[a] = next[a]
      BY <1>1, <2>3, SearchUnlinkLists
    <3>2. ~ next'[left[t]].mark \/ left[t] \notin Addr
      BY <2>3 DEF SearchUnlink, Store, Unmarked, TypeOK
    <3> QED BY <2>1, <3>1, <3>2
  <2>4. CASE UnlinkCas(t) /\ CasSucceeds(left[t], Unmarked(right[t]))
    <3>1. n \in linked /\ \A a \in Addr : a # left[t] => next'[a] = next[a]
      BY <1>1, <2>4, UnlinkCasLists
    <3>2. ~ next'[left[t]].mark \/ left[t] \notin Addr
      BY <2>4 DEF UnlinkCas, Store, Unmarked, TypeOK
    <3> QED BY <2>1, <3>1, <3>2
  <2>5. CASE MarkCas(t) /\ CasSucceeds(right[t], Unmarked(rightNext[t]))
    <3>1. n \in linked /\ \A a \in Addr : a # right[t] => next'[a] = next[a]
      BY <1>1, <2>5, MarkCasLists
    <3> QED BY <2>1, <2>5, <3>1
  <2>6. CASE InsertCas(t) /\ CasSucceeds(left[t], Unmarked(right[t]))
    <3>1. /\ n \in linked \cup {ins[t]} /\ ~ next'[ins[t]].mark
          /\ \A a \in Addr : a # left[t] => next'[a] = next[a]
      BY <1>1, <2>6, InsertCasLists
    <3>2. ~ next'[left[t]].mark \/ left[t] \notin Addr
      BY <2>6 DEF InsertCas, Store, Unmarked, TypeOK
    <3> QED BY <2>1, <3>1, <3>2
  <2>7. CASE InsertTest(t) /\ ~FoundKey(t)
    <3>1. linked' = linked
      BY <2>7 DEF InsertTest
    <3>2. next'[ins[t]] = Unmarked(right[t]) /\ \A a \in Addr : a # ins[t] => next'[a] = next[a]
      BY <2>7, InsertTestLists
    <3> QED BY <2>1, <3>1, <3>2 DEF Unmarked
  <2> QED BY <2>2, <2>3, <2>4, <2>5, <2>6, <2>7, Outcomes
<1> QED BY <1>2, <1>3, <1>4

-----------------------------------------------------------------------------
(* The inductive invariant *)

ListInv == Inv /\ Lists /\ Ends /\ Private /\ (\A t \in Thread : Call(t)) /\ Cleaned

LEMMA InitListInv == Init => ListInv
<1> SUFFICES ASSUME Init PROVE ListInv
  OBVIOUS
<1>1. Inv /\ TypeOK
  BY InitInv DEF Inv
<1>2. \A a \in Addr : ~ next[a].mark
  BY DEF Init, Unmarked
<1>3. Known = Addr \ Heap /\ linked = {}
  BY <1>2, Places DEF Known, Init
<1>4. \A b \in Bucket : next[HeadOf(b)].ptr = TailOf(b)
  <2> SUFFICES ASSUME NEW b \in Bucket PROVE next[HeadOf(b)].ptr = TailOf(b)
    OBVIOUS
  <2>1. HeadOf(b) \in Addr /\ HeadOf(b) \notin Heap
    BY Places
  <2>2. HeadOf(b) % 2 = 0 /\ HeadOf(b) + 1 = TailOf(b)
    BY BucketAssumption DEF Bucket, HeadOf, TailOf
  <2> QED BY <2>1, <2>2 DEF Init, Unmarked
<1>5. Lists
  <2>1. Allocated
    BY <1>2, <1>3 DEF Allocated
  <2>2. Ordered
    BY <1>3, <1>4, Places DEF Ordered, In, Lt
  <2>3. Adjacent /\ Distinct
    BY <1>3, <1>4 DEF Adjacent, Distinct, Nodes
  <2> QED BY <2>1, <2>2, <2>3 DEF Lists
<1>6. Private
  BY DEF Init, Private, Pending
<1>7. \A t \in Thread : Call(t)
  BY DEF Init, Call, LocalOK, Phase, Witnessed, Found
<1>8. Cleaned
  BY <1>3 DEF Cleaned
<1>9. Ends
  <2> SUFFICES ASSUME NEW b \in Bucket PROVE next[TailOf(b)].ptr = TailOf(b)
    BY DEF Ends, Tails
  <2>1. TailOf(b) \in Addr /\ TailOf(b) \notin Heap
    BY Places
  <2>2. TailOf(b) % 2 # 0
    BY BucketAssumption DEF Bucket, TailOf
  <2> QED BY <2>1, <2>2 DEF Init, Unmarked
<1> QED BY <1>1, <1>5, <1>6, <1>7, <1>8, <1>9 DEF ListInv

\* No call writes to the tail of a list.
LEMMA StepEnds ==
  ASSUME TypeOK, TypeOK', Lists, Private, NEW t \in Thread, LocalOK(t), Step(t) PROVE Ends => Ends'
<1> SUFFICES ASSUME NEW a \in Tails PROVE next'[a] = next[a]
  BY DEF Ends
<1>1. a \in Addr /\ a \notin Heap /\ a \notin Heads
  BY Places
<1>2. pc[t] \in Found \cup {"unlink"} => left[t] # a
  BY <1>1 DEF LocalOK, Enclosed, Below
<1>3. CASE SearchUnlink(t) /\ CasSucceeds(left[t], Unmarked(leftNext[t]))
  BY <1>1, <1>2, <1>3, SearchUnlinkLists DEF SearchUnlink
<1>4. CASE UnlinkCas(t) /\ CasSucceeds(left[t], Unmarked(right[t]))
  BY <1>1, <1>2, <1>4, UnlinkCasLists DEF UnlinkCas, Found
<1>5. CASE InsertCas(t) /\ CasSucceeds(left[t], Unmarked(right[t]))
  BY <1>1, <1>2, <1>5, InsertCasLists DEF InsertCas, Found
<1>6. CASE MarkCas(t) /\ CasSucceeds(right[t], Unmarked(rightNext[t]))
  <2>1. right[t] \in linked /\ \A c \in Addr : c # right[t] => next'[c] = next[c]
    BY <1>6, MarkCasLists
  <2> QED BY <1>1, <2>1, KnownType
<1>7. CASE InsertTest(t) /\ ~FoundKey(t)
  BY <1>1, <1>7, InsertTestLists
<1>8. CASE Calm
  BY <1>8 DEF Calm
<1> QED BY <1>3, <1>4, <1>5, <1>6, <1>7, <1>8, Outcomes

LEMMA NextListInv == ListInv /\ [Next]_vars => ListInv'
<1> SUFFICES ASSUME ListInv, [Next]_vars PROVE ListInv'
  OBVIOUS
<1>1. Inv /\ Lists /\ Ends /\ Private /\ (\A t \in Thread : Call(t)) /\ Cleaned /\ Inv'
  BY NextInv DEF ListInv
<1>2. ASSUME NEW t \in Thread, NEW k \in Key, insert_item(t, k) \/ remove_item(t, k) \/ lookup_item(t, k)
      PROVE  ListInv'
  <2>1. Lists' /\ Private' /\ Grown /\ linked' = linked /\ next' = next /\ \A u \in Thread : Call(u)'
    BY <1>1, <1>2, InvokeCalls
  <2>2. Cleaned'
    <3> SUFFICES ASSUME NEW n \in linked, next[n].mark PROVE \E u \in Thread : Duty(u, n)'
      BY <2>1 DEF Cleaned
    <3>1. PICK u \in Thread : Duty(u, n)
      BY <1>1 DEF Cleaned
    <3>2. u # t
      BY <1>1, <1>2, <3>1 DEF insert_item, remove_item, lookup_item, Invoke, Duty
    <3>3. Kept(u) /\ LocalOK(u)
      BY <1>1, <1>2, <3>2, OthersKept DEF Inv, Call
    <3> QED BY <1>1, <2>1, <3>1, <3>3, DutyKept DEF Inv
  <2> QED BY <1>1, <2>1, <2>2 DEF ListInv, Ends
<1>3. ASSUME NEW t \in Thread, Step(t) PROVE ListInv'
  <2>1. Lists' /\ Private' /\ \A u \in Thread : LocalOK(u)'
    BY <1>1, <1>3, StepLocal
  <2>2. Effects(t) /\ Phase(t)'
    BY <1>1, <1>3, StepEffects, StepPhase DEF Inv, Call
  <2>3. \A u \in Thread : Witnessed(u)'
    BY <1>1, <2>2, StepWitnessed DEF Inv, Call
  <2>4. ASSUME NEW u \in Thread, u # t PROVE Phase(u)'
    <3>1. Kept(u)
      BY <1>1, <1>3, <2>4, OthersKept DEF Inv
    <3> QED BY <1>1, <3>1 DEF Kept, Phase, Call
  <2>5. \A u \in Thread : Call(u)'
    BY <2>1, <2>2, <2>3, <2>4 DEF Call
  <2>6. Cleaned'
    BY <1>1, <1>3, StepCleaned
  <2>7. Ends'
    BY <1>1, <1>3, StepEnds DEF Inv, Call
  <2> QED BY <1>1, <2>1, <2>5, <2>6, <2>7 DEF ListInv
<1>4. CASE Printing \/ UNCHANGED vars
  <2>1. UNCHANGED <<key, next, brk, linked, pc, op, arg, ins, node, left, leftNext, right, rightNext, res, seen>>
    BY <1>4 DEF Printing, print_hashmap, PrintBucket, PrintTest, PrintAdvance, PrintReturn,
       PrintUnchanged, heap, locals, vars
  <2>2. Lists' /\ Known' = Known /\ Contents' = Contents /\ Grown
    BY <1>1, <2>1, CalmLists DEF Calm, Inv, Grown
  <2>3. \A u \in Thread : Kept(u)
    BY <2>1 DEF Kept
  <2>4. Private'
    BY <1>1, <2>1, <2>2 DEF Private, Pending
  <2>5. ASSUME NEW u \in Thread PROVE Call(u)'
    <3>1. LocalOK(u)'
      BY <1>1, <2>1, <2>2, <2>3, LocalKept DEF Inv, Call
    <3>2. Phase(u)' /\ Witnessed(u)'
      BY <1>1, <2>1, <2>2 DEF Call, Phase, Witnessed, Has
    <3> QED BY <3>1, <3>2 DEF Call
  <2>6. Cleaned'
    <3> SUFFICES ASSUME NEW n \in linked, next[n].mark PROVE \E u \in Thread : Duty(u, n)'
      BY <2>1 DEF Cleaned
    <3>1. PICK u \in Thread : Duty(u, n)
      BY <1>1 DEF Cleaned
    <3> QED BY <1>1, <2>2, <2>3, <3>1, DutyKept DEF Inv, Call
  <2> QED BY <1>1, <2>1, <2>2, <2>4, <2>5, <2>6 DEF ListInv, Ends
<1> QED BY <1>2, <1>3, <1>4 DEF Next

LEMMA AlwaysListInv == Spec => []ListInv
BY InitListInv, NextListInv, PTL DEF Spec

-----------------------------------------------------------------------------
(* What follows for the lists *)

\* The lists of lockfreehashmap.cpp are strictly sorted by key at every instant,
\* for any number of threads, keys and buckets.
THEOREM AlwaysSorted == Spec => []Sorted
<1>1. ListInv => Sorted
  <2> SUFFICES ASSUME ListInv, NEW n \in linked
               PROVE  LET m == next[n].ptr IN
                      \/ m = TailOf(getIndex(key[n]))
                      \/ m \in linked /\ getIndex(key[m]) = getIndex(key[n]) /\ key[n] < key[m]
    BY DEF Sorted
  <2>1. PICK b \in Bucket : b = getIndex(key[n])
    BY KnownType, Places, IndexInBucket DEF ListInv, Inv, TypeOK
  <2>2. TypeOK /\ Lists /\ n \in Nodes(b) /\ n \in Known /\ In(n, b) /\ n # TailOf(b) /\ n \in Heap
    BY <2>1, KnownType, Places DEF ListInv, Inv, Nodes, In
  <2>3. PICK m : m = next[n].ptr
    OBVIOUS
  <2>4. m \in Nodes(b) \cup {TailOf(b)} /\ Lt(n, m)
    BY <2>2, <2>3 DEF Lists, Adjacent, Ordered
  <2>5. m \in Nodes(b) => m \in linked /\ getIndex(key[m]) = b /\ key[n] < key[m]
    BY <2>2, <2>4, Members, Places DEF Nodes, Lt
  <2> QED BY <2>1, <2>3, <2>4, <2>5
<1> QED BY <1>1, AlwaysListInv, PTL

\* When all calls have returned, no removed node of lockfreehashmap.cpp is left
\* in a list, for any number of threads: every marked node that is still linked
\* is the business of a remove_item that has not returned.
THEOREM AlwaysClean == Spec => []QuiescentClean
<1>1. ListInv => QuiescentClean
  BY DEF ListInv, QuiescentClean, Cleaned, Duty
<1> QED BY <1>1, AlwaysListInv, PTL

-----------------------------------------------------------------------------
(* A walk over the references *)

Limit == MaxNodes + 1
Succ(a) == IF a = Null THEN Null ELSE next[a].ptr

\* f lists the first m nodes behind the head of bucket b.
Walked(f, b, m) == /\ f \in [0 .. m -> Addr \cup {Null}] /\ f[0] = HeadOf(b)
                   /\ \A i \in 1 .. m : f[i] = Succ(f[i - 1])

Less == {p \in Nat \X Nat : p[1] < p[2]}

LEMMA SmallestExists ==
  ASSUME NEW S \in SUBSET Nat, S # {} PROVE \E n \in S : \A m \in S : n <= m
<1>1. IsWellFoundedOn(Less, Nat)
  BY NatLessThanWellFounded DEF OpToRel, Less
<1>2. PICK n \in S : \A m \in S : ~ (<<m, n>> \in Less)
  BY <1>1, WFMin
<1>3. \A m \in S : ~ (m < n)
  BY <1>2 DEF Less
<1> QED BY <1>3

LEMMA WalkExists ==
  ASSUME TypeOK, NEW b \in Bucket, NEW m \in Nat PROVE \E f : Walked(f, b, m)
<1> DEFINE Bad == {i \in Nat : ~ \E f : Walked(f, b, i)}
<1> SUFFICES ASSUME Bad # {} PROVE FALSE
  OBVIOUS
<1>1. PICK n \in Bad : \A i \in Bad : n <= i
  BY SmallestExists
<1>2. HeadOf(b) \in Addr /\ \A a \in Addr \cup {Null} : Succ(a) \in Addr \cup {Null}
  BY Places DEF TypeOK, Succ, Ref
<1>3. n # 0
  <2>1. Walked([i \in 0 .. 0 |-> HeadOf(b)], b, 0)
    BY <1>2 DEF Walked
  <2> QED BY <2>1
<1>4. n - 1 \in Nat /\ n - 1 \notin Bad
  BY <1>1, <1>3
<1>5. PICK f : Walked(f, b, n - 1)
  BY <1>4
<1> DEFINE g == [i \in 0 .. n |-> IF i = n THEN Succ(f[n - 1]) ELSE f[i]]
<1>6. Walked(g, b, n)
  <2>1. f \in [0 .. n - 1 -> Addr \cup {Null}] /\ f[0] = HeadOf(b) /\ \A i \in 1 .. n - 1 : f[i] = Succ(f[i - 1])
    BY <1>5 DEF Walked
  <2>2. f[n - 1] \in Addr \cup {Null} /\ Succ(f[n - 1]) \in Addr \cup {Null}
    BY <1>2, <1>4, <2>1
  <2>3. g \in [0 .. n -> Addr \cup {Null}] /\ g[0] = HeadOf(b)
    BY <1>3, <1>4, <2>1, <2>2
  <2>4. \A i \in 1 .. n : g[i] = Succ(g[i - 1])
    BY <1>3, <1>4, <2>1
  <2> HIDE DEF g
  <2> QED BY <2>3, <2>4 DEF Walked
<1> QED BY <1>1, <1>6

\* Reachable collects what such a walk meets.
LEMMA ReachableWalk ==
  ASSUME TypeOK, NEW b \in Bucket
  PROVE  \E f : Walked(f, b, Limit) /\ Reachable(b) = {f[i] : i \in 1 .. Limit} \ {TailOf(b)}
<1> DEFINE Rec(g) == [i \in 0 .. MaxNodes + 1 |->
                        IF i = 0 THEN HeadOf(b) ELSE IF g[i - 1] = Null THEN Null ELSE next[g[i - 1]].ptr]
<1>1. PICK f : Walked(f, b, Limit)
  BY WalkExists, NodesAssumption DEF Limit
<1>2. f = Rec(f)
  BY <1>1, NodesAssumption DEF Walked, Limit, Succ
<1>3. PICK w : w = Rec(w) /\ Reachable(b) = {w[i] : i \in 1 .. Limit} \ {TailOf(b)}
  BY <1>2 DEF Reachable, Limit
<1>4. Walked(w, b, Limit)
  <2>1. Limit \in Nat /\ HeadOf(b) \in Addr /\ \A a \in Addr \cup {Null} : Succ(a) \in Addr \cup {Null}
    BY Places, NodesAssumption DEF TypeOK, Succ, Ref, Limit
  <2>2. w[0] = HeadOf(b) /\ \A i \in 1 .. Limit : w[i] = Succ(w[i - 1])
    BY <1>3, <2>1 DEF Limit, Succ
  <2> DEFINE Bad == {i \in Nat : i <= Limit /\ w[i] \notin Addr \cup {Null}}
  <2>3. Bad = {}
    <3> SUFFICES ASSUME Bad # {} PROVE FALSE
      OBVIOUS
    <3>1. PICK n \in Bad : \A i \in Bad : n <= i
      BY SmallestExists
    <3>2. n # 0 /\ n \in 1 .. Limit
      BY <2>1, <2>2
    <3>3. n - 1 \in Nat /\ n - 1 <= Limit /\ n - 1 \notin Bad
      BY <2>1, <3>1, <3>2
    <3> QED BY <2>1, <2>2, <3>2, <3>3
  <2>4. \A i \in 0 .. Limit : w[i] \in Addr \cup {Null}
    BY <2>1, <2>3
  <2>5. w = [i \in 0 .. Limit |-> w[i]]
    BY <1>3 DEF Limit
  <2> QED BY <2>2, <2>4, <2>5 DEF Walked
<1> QED BY <1>3, <1>4

LEMMA WalkInside ==
  ASSUME TypeOK, Lists, Ends, NEW b \in Bucket, NEW f, Walked(f, b, Limit)
  PROVE  \A i \in 0 .. Limit : f[i] \in Nodes(b) \cup {TailOf(b)} \cup (IF i = 0 THEN {HeadOf(b)} ELSE {})
<1> DEFINE Good(i) == f[i] \in Nodes(b) \cup {TailOf(b)} \cup (IF i = 0 THEN {HeadOf(b)} ELSE {})
           Bad == {i \in Nat : i <= Limit /\ ~ Good(i)}
<1>1. Limit \in Nat /\ f[0] = HeadOf(b) /\ \A i \in 1 .. Limit : f[i] = Succ(f[i - 1])
  BY NodesAssumption DEF Walked, Limit
<1>2. Bad = {}
  <2> SUFFICES ASSUME Bad # {} PROVE FALSE
    OBVIOUS
  <2>1. PICK n \in Bad : \A i \in Bad : n <= i
    BY SmallestExists
  <2>2. n # 0 /\ n \in 1 .. Limit
    BY <1>1
  <2>3. n - 1 \in Nat /\ n - 1 <= Limit /\ n - 1 \notin Bad
    BY <1>1, <2>1, <2>2
  <2>4. PICK a : a = f[n - 1]
    OBVIOUS
  <2>5. a \in Nodes(b) \cup {TailOf(b)} \cup {HeadOf(b)} /\ f[n] = Succ(a)
    BY <1>1, <2>2, <2>3, <2>4
  <2>6. a # Null /\ f[n] = next[a].ptr
    BY <2>5, Members, Addresses DEF Succ
  <2>7. next[a].ptr \in Nodes(b) \cup {TailOf(b)}
    BY <2>5, Places DEF Lists, Adjacent, Ends
  <2> QED BY <2>6, <2>7
<1> QED BY <1>1, <1>2

\* A walk as long as there are nodes misses none: it would have to meet more
\* nodes than there are.
LEMMA WalkMeets ==
  ASSUME TypeOK, Lists, Ends, NEW b \in Bucket, NEW f, Walked(f, b, Limit), NEW n \in Nodes(b)
  PROVE  \E i \in 1 .. Limit : f[i] = n
<1> SUFFICES ASSUME \A i \in 1 .. Limit : f[i] # n PROVE FALSE
  OBVIOUS
<1>1. Limit \in Nat /\ f[0] = HeadOf(b) /\ \A i \in 1 .. Limit : f[i] = Succ(f[i - 1])
  BY NodesAssumption DEF Walked, Limit
<1>2. \A i \in 0 .. Limit : f[i] \in Nodes(b) \cup {TailOf(b)} \cup (IF i = 0 THEN {HeadOf(b)} ELSE {})
  BY WalkInside
<1>3. \A i \in 0 .. Limit : f[i] \in Addr /\ In(f[i], b) /\ f[i] \in Known
  BY <1>2, Members
<1>4. \A i \in 0 .. Limit : Lt(f[i], n)
  <2> DEFINE Bad == {i \in Nat : i <= Limit /\ ~ Lt(f[i], n)}
  <2>1. Bad = {}
    <3> SUFFICES ASSUME Bad # {} PROVE FALSE
      OBVIOUS
    <3>1. PICK m \in Bad : \A i \in Bad : m <= i
      BY SmallestExists
    <3>2. m # 0 /\ m \in 1 .. Limit
      BY <1>1, Members
    <3>3. m - 1 \in Nat /\ m - 1 <= Limit /\ m - 1 \notin Bad
      BY <1>1, <3>1, <3>2
    <3>4. PICK a, c : a = f[m - 1] /\ c = f[m]
      OBVIOUS
    <3>5. /\ Lt(a, n) /\ a \in Nodes(b) \cup {TailOf(b), HeadOf(b)}
          /\ c \in Nodes(b) \cup {TailOf(b)} /\ c # n /\ c = Succ(a) /\ ~ Lt(c, n)
      BY <1>1, <1>2, <3>2, <3>3, <3>4
    <3>6. a # TailOf(b) /\ a # Null
      BY <3>5, Places, Members, Addresses DEF Lt
    <3>7. ~ Lt(n, c)
      BY <3>5, <3>6 DEF Lists, Adjacent, Succ
    <3>8. c \in Nodes(b)
      BY <3>5, <3>7, Members
    <3>9. c \in Addr /\ n \in Addr /\ In(c, b) /\ In(n, b) /\ c \in linked /\ n \in linked
      BY <3>8, Members
    <3>10. c = n \/ Lt(c, n) \/ Lt(n, c) \/ key[c] = key[n]
      BY <3>9, Total
    <3> QED BY <3>5, <3>7, <3>9, <3>10 DEF Lists, Distinct
  <2> QED BY <1>1, <2>1
<1>5. \A i \in 0 .. Limit : f[i] # TailOf(b)
  BY <1>4, Places, Members DEF Lt
<1>6. \A i \in 1 .. Limit : f[i] \in Heap /\ Lt(f[i - 1], f[i])
  <2> SUFFICES ASSUME NEW i \in 1 .. Limit PROVE f[i] \in Heap /\ Lt(f[i - 1], f[i])
    OBVIOUS
  <2>1. i \in 0 .. Limit /\ i - 1 \in 0 .. Limit /\ i # 0
    BY <1>1
  <2>2. f[i] \in Heap
    BY <1>2, <1>5, <2>1, Members
  <2>3. PICK a : a = f[i - 1]
    OBVIOUS
  <2>4. a \in Known /\ In(a, b) /\ a # TailOf(b) /\ a \in Addr
    BY <1>3, <1>5, <2>1, <2>3
  <2>5. f[i] = next[a].ptr
    BY <1>1, <2>3, <2>4, Addresses DEF Succ
  <2> QED BY <2>2, <2>3, <2>4, <2>5 DEF Lists, Ordered
<1>7. ASSUME NEW i \in 1 .. Limit, NEW j \in 1 .. Limit, i < j PROVE Lt(f[i], f[j])
  <2> DEFINE Bad == {k \in Nat : i < k /\ k <= Limit /\ ~ Lt(f[i], f[k])}
  <2>1. Bad = {}
    <3> SUFFICES ASSUME Bad # {} PROVE FALSE
      OBVIOUS
    <3>1. PICK m \in Bad : \A k \in Bad : m <= k
      BY SmallestExists
    <3>2. m \in 1 .. Limit /\ m - 1 \in 1 .. Limit /\ m - 1 \notin Bad /\ ~ Lt(f[i], f[m])
      BY <1>1, <3>1
    <3>3. i = m - 1 \/ Lt(f[i], f[m - 1])
      BY <1>1, <3>1, <3>2
    <3>4. Lt(f[m - 1], f[m]) /\ f[i] \in Addr /\ f[m] \in Addr /\ f[m - 1] \in Addr
      BY <1>1, <1>3, <1>6, <3>2
    <3> QED BY <3>2, <3>3, <3>4, Order
  <2> QED BY <1>1, <1>7, <2>1
<1> DEFINE g == [i \in 1 .. Limit |-> f[i]]
<1>8. g \in [1 .. Limit -> Heap]
  BY <1>6
<1>9. IsFiniteSet(1 .. Limit) /\ IsFiniteSet(Heap) /\ Cardinality(Heap) < Cardinality(1 .. Limit)
  <2>1. HeapStart \in Int /\ HeapEnd - 1 \in Int /\ HeapEnd = HeapStart + MaxNodes
    BY BucketAssumption, NodesAssumption DEF HeapStart, HeapEnd
  <2>2. IsFiniteSet(Heap) /\ Cardinality(Heap) = MaxNodes
    BY <2>1, NodesAssumption, FS_Interval DEF Heap
  <2>3. IsFiniteSet(1 .. Limit) /\ Cardinality(1 .. Limit) = MaxNodes + 1
    BY NodesAssumption, FS_Interval DEF Limit
  <2> QED BY <2>2, <2>3, NodesAssumption
<1>10. PICK i, j \in 1 .. Limit : i # j /\ f[i] = f[j]
  <2>1. \E x, y \in 1 .. Limit : x # y /\ g[x] = g[y]
    <3> HIDE DEF g
    <3> QED BY <1>8, <1>9, FS_PigeonHole
  <2> QED BY <2>1
<1>11. Lt(f[i], f[j]) \/ Lt(f[j], f[i])
  BY <1>1, <1>7, <1>10
<1> QED BY <1>1, <1>3, <1>10, <1>11, Order

LEMMA ReachableNodes == ASSUME ListInv, NEW b \in Bucket PROVE Reachable(b) = Nodes(b)
<1>1. TypeOK /\ Lists /\ Ends
  BY DEF ListInv, Inv
<1>2. PICK f : Walked(f, b, Limit) /\ Reachable(b) = {f[i] : i \in 1 .. Limit} \ {TailOf(b)}
  BY <1>1, ReachableWalk
<1>3. \A i \in 1 .. Limit : f[i] \in Nodes(b) \cup {TailOf(b)}
  <2>1. \A i \in 1 .. Limit : i \in 0 .. Limit /\ i # 0
    BY NodesAssumption DEF Limit
  <2> QED BY <1>1, <1>2, <2>1, WalkInside
<1>4. \A n \in Nodes(b) : n # TailOf(b) /\ \E i \in 1 .. Limit : f[i] = n
  BY <1>1, <1>2, WalkMeets, Members, Places
<1> QED BY <1>2, <1>3, <1>4

\* The nodes a walk over the references of a bucket of lockfreehashmap.cpp meets
\* are those that were inserted and not unlinked, for any number of threads: no
\* node is lost, none comes back, none is unlinked before it is marked.
THEOREM AlwaysReachable == Spec => []LinkedIsReachable
<1>1. ListInv => LinkedIsReachable
  BY ReachableNodes DEF LinkedIsReachable, Nodes
<1> QED BY <1>1, AlwaysListInv, PTL

-----------------------------------------------------------------------------
(* The map is linearizable *)

\* contents and call of the abstract set.
Shown == {key[n] : n \in {m \in UNION {Reachable(b) : b \in Bucket} : ~next[m].mark}}
Calls == [t \in Thread |-> IF op[t] = "none" THEN <<>> ELSE <<op[t], arg[t]>>]

LEMMA ShownContents == ListInv => Shown = Contents
<1> SUFFICES ASSUME ListInv PROVE Shown = Contents
  OBVIOUS
<1>1. \A n \in linked : getIndex(key[n]) \in Bucket
  BY KnownType, Places, IndexInBucket DEF ListInv, Inv, TypeOK
<1>2. UNION {Reachable(b) : b \in Bucket} = linked
  BY <1>1, ReachableNodes DEF Nodes
<1> QED BY <1>2 DEF Shown, Contents

LEMMA CallsOf ==
  ASSUME NEW t \in Thread
  PROVE  /\ Calls[t] = <<>> <=> op[t] = "none"
         /\ op[t] # "none" => Calls[t] = <<op[t], arg[t]>> /\ Calls[t][1] = op[t] /\ Calls[t][2] = arg[t]
BY DEF Calls

LEMMA SilentStep ==
  ASSUME Shown' = Shown, UNCHANGED <<op, arg, res, seen>> PROVE UNCHANGED Abstract!cvars
<1>1. Calls' = Calls
  BY DEF Calls
<1> QED BY <1>1 DEF Abstract!cvars, Shown, Calls

LEMMA InvokeAbstract ==
  ASSUME ListInv, Shown = Contents, Shown' = Shown, NEW t \in Thread, NEW k \in Key,
         insert_item(t, k) \/ remove_item(t, k) \/ lookup_item(t, k)
  PROVE  Abstract!Next
<1>1. PICK o \in {"insert", "remove", "find"} : Invoke(t, o, k)
  BY DEF insert_item, remove_item, lookup_item
<1>2. /\ op[t] = "none" /\ op' = [op EXCEPT ![t] = o] /\ arg' = [arg EXCEPT ![t] = k] /\ res' = res
      /\ seen' = [seen EXCEPT ![t] = {z \in BOOLEAN : z = (k \in Shown)}]
  BY <1>1 DEF Invoke, ListInv, Call, Phase
<1>3. Calls[t] = <<>> /\ Calls' = [Calls EXCEPT ![t] = <<o, k>>]
  BY <1>2 DEF Calls, ListInv, Inv, TypeOK
<1>4. Abstract!Invoke(t, o, k)
  BY <1>2, <1>3 DEF Abstract!Invoke, Abstract!NoCall, Shown, Calls
<1> QED BY <1>4 DEF Abstract!Next

LEMMA WitnessAbstract ==
  ASSUME NEW k, NEW z, Witness(k, z) PROVE Abstract!Witness(k, z)
<1>1. \A u \in Thread : (Calls[u] # <<>> /\ Calls[u][2] = k) <=> (op[u] # "none" /\ arg[u] = k)
  BY CallsOf
<1>2. seen' = [u \in Thread |-> IF Calls[u] # <<>> /\ Calls[u][2] = k THEN seen[u] \cup {z} ELSE seen[u]]
  BY <1>1 DEF Witness
<1> QED BY <1>2 DEF Abstract!Witness, Abstract!NoCall, Calls

LEMMA EffectAbstract ==
  ASSUME ListInv, Shown = Contents, Shown' = Contents', NEW t \in Thread,
         UNCHANGED <<op, arg>>, res' = [res EXCEPT ![t] = "yes"],
         \/ /\ pc[t] = "insert_cas" /\ arg[t] \notin Contents /\ Contents' = Contents \cup {arg[t]}
            /\ Witness(arg[t], TRUE)
         \/ /\ pc[t] = "mark_cas" /\ arg[t] \in Contents /\ Contents' = Contents \ {arg[t]}
            /\ Witness(arg[t], FALSE)
  PROVE  Abstract!Next
<1>1. res[t] = "none"
  BY DEF ListInv, Call, Phase, LocalOK
<1> PICK k \in Key : k = arg[t]
  BY DEF ListInv, Inv, TypeOK
<1>2. Calls' = Calls
  BY DEF Calls
<1>3. Abstract!Settle(t, "yes")
  BY <1>1 DEF Abstract!Settle
<1>4. CASE pc[t] = "insert_cas"
  <2>1. Calls[t] = <<"insert", k>>
    BY <1>4, CallsOf DEF ListInv, Call, LocalOK
  <2>2. Abstract!Witness(k, TRUE)
    BY <1>4, WitnessAbstract
  <2>3. Shown' = Shown \cup {k} /\ k \notin Shown
    BY <1>4
  <2>4. Abstract!Effect(t, k)
    BY <1>2, <1>3, <2>1, <2>2, <2>3 DEF Abstract!Effect, Shown, Calls
  <2> QED BY <2>4 DEF Abstract!Next
<1>5. CASE pc[t] = "mark_cas"
  <2>1. Calls[t] = <<"remove", k>>
    BY <1>5, CallsOf DEF ListInv, Call, LocalOK
  <2>2. Abstract!Witness(k, FALSE)
    BY <1>5, WitnessAbstract
  <2>3. Shown' = Shown \ {k} /\ k \in Shown
    BY <1>5
  <2>4. Abstract!Effect(t, k)
    BY <1>2, <1>3, <2>1, <2>2, <2>3 DEF Abstract!Effect, Shown, Calls
  <2> QED BY <2>4 DEF Abstract!Next
<1> QED BY <1>4, <1>5

LEMMA ReportAbstract ==
  ASSUME ListInv, Shown' = Shown, NEW t \in Thread, UNCHANGED <<op, arg, seen>>, pc[t] = "found", res[t] = "none",
         \/ op[t] = "find" /\ FoundKey(t) /\ res' = [res EXCEPT ![t] = "yes"]
         \/ op[t] = "find" /\ ~FoundKey(t) /\ res' = [res EXCEPT ![t] = "no"]
         \/ op[t] = "insert" /\ FoundKey(t) /\ res' = [res EXCEPT ![t] = "no"]
         \/ op[t] = "remove" /\ ~FoundKey(t) /\ res' = [res EXCEPT ![t] = "no"]
  PROVE  Abstract!Next
<1>1. Calls' = Calls /\ Calls[t] # <<>> /\ Calls[t][1] = op[t]
  BY CallsOf DEF Calls
<1>2. (FoundKey(t) => TRUE \in seen[t]) /\ (~FoundKey(t) => FALSE \in seen[t])
  BY DEF ListInv, Call, LocalOK, Found, Enclosed
<1>3. \A a : res' = [res EXCEPT ![t] = a] => Abstract!Settle(t, a)
  BY DEF Abstract!Settle
<1>4. Abstract!Report(t)
  BY <1>1, <1>2, <1>3 DEF Abstract!Report, Abstract!NoCall, Shown, Calls
<1> QED BY <1>4 DEF Abstract!Next

LEMMA ReturnAbstract ==
  ASSUME ListInv, Shown' = Shown, NEW t \in Thread, Return(t) PROVE Abstract!Next
<1>1. res[t] # "none" /\ op' = [op EXCEPT ![t] = "none"] /\ arg' = [arg EXCEPT ![t] = AnyKey]
      /\ res' = [res EXCEPT ![t] = "none"] /\ seen' = [seen EXCEPT ![t] = {}]
  BY DEF Return, ListInv, Call, Phase
<1>2. Calls' = [Calls EXCEPT ![t] = <<>>]
  BY <1>1 DEF Calls, ListInv, Inv, TypeOK
<1>3. Abstract!Return(t)
  BY <1>1, <1>2 DEF Abstract!Return, Abstract!NoCall, Shown, Calls
<1> QED BY <1>3 DEF Abstract!Next

\* insert_item, remove_item and lookup_item of lockfreehashmap.cpp are linearizable,
\* for any number of threads, keys and buckets: an insertion takes effect at its
\* compare-and-swap, a removal when it marks its node, and every other answer is
\* one that the map would have given at some instant of the call.
THEOREM ImplementsSet == Spec => Linearizable
<1>1. Init => Abstract!Init
  <2> SUFFICES ASSUME Init PROVE Abstract!Init
    OBVIOUS
  <2>1. Shown = {}
    <3>1. ListInv /\ Contents = {}
      BY InitListInv DEF Init, Contents
    <3> QED BY <3>1, ShownContents
  <2>2. Calls = [t \in Thread |-> <<>>]
    BY DEF Init, Calls
  <2> QED BY <2>1, <2>2 DEF Init, Abstract!Init, Abstract!NoCall, Shown, Calls
<1>2. (ListInv => Shown = Contents)'
  BY ShownContents, PTL
<1>3. ListInv /\ ListInv' /\ [Next]_vars => [Abstract!Next]_Abstract!cvars
  <2> SUFFICES ASSUME ListInv, ListInv', [Next]_vars PROVE Abstract!Next \/ UNCHANGED Abstract!cvars
    OBVIOUS
  <2>1. Shown = Contents /\ Shown' = Contents'
    BY <1>2, ShownContents
  <2>2. ASSUME NEW t \in Thread, NEW k \in Key, insert_item(t, k) \/ remove_item(t, k) \/ lookup_item(t, k)
        PROVE  Abstract!Next
    <3>1. Contents' = Contents
      BY <2>2, InvokeCalls DEF ListInv
    <3> QED BY <2>1, <2>2, <3>1, InvokeAbstract
  <2>3. ASSUME NEW t \in Thread, Step(t) PROVE Abstract!Next \/ UNCHANGED Abstract!cvars
    <3>1. Effects(t)
      BY <2>3, StepEffects DEF ListInv, Inv, Call
    <3> QED BY <2>1, <3>1, SilentStep, EffectAbstract, ReportAbstract, ReturnAbstract DEF Effects
  <2>4. CASE Printing \/ UNCHANGED vars
    <3>1. UNCHANGED <<key, next, linked, op, arg, res, seen>>
      BY <2>4 DEF Printing, print_hashmap, PrintBucket, PrintTest, PrintAdvance, PrintReturn,
         PrintUnchanged, heap, vars
    <3>2. Contents' = Contents
      BY <3>1 DEF Contents
    <3> QED BY <2>1, <3>1, <3>2, SilentStep
  <2> QED BY <2>2, <2>3, <2>4 DEF Next
<1> QED BY <1>1, <1>3, AlwaysListInv, PTL DEF Spec, Linearizable, Abstract!Spec

-----------------------------------------------------------------------------
(* print_hashmap while nobody else runs *)

Alone == printer.pc # "idle" => \A t \in Thread : pc[t] = "idle"

\* Where the printer stands, and the nodes of bucket b up to a and of the buckets before b
Here == IF printer.pc = "bucket" THEN HeadOf(printer.bucket)
        ELSE IF printer.pc = "done" THEN TailOf(printer.bucket) ELSE printer.node
UpTo(b, a) == {n \in linked : \/ getIndex(key[n]) < b
                              \/ getIndex(key[n]) = b /\ (n = a \/ Lt(n, a))}

\* The keys of the nodes in N, in the order of print_hashmap
Ascending(k, l) == getIndex(k) < getIndex(l) \/ (getIndex(k) = getIndex(l) /\ k < l)
Prints(N) == /\ {out[i] : i \in DOMAIN out} = {key[n] : n \in N}
             /\ \A i, j \in DOMAIN out : i < j => Ascending(out[i], out[j])

PrinterOK ==
  /\ printer \in [pc : {"idle", "bucket", "test", "advance", "done"}, bucket : Bucket, node : Addr \cup {Null}]
  /\ out \in Seq(Int)
  /\ printer.pc = "idle" => out = <<>>
  /\ printer.pc \in {"test", "advance"} => printer.node \in Nodes(printer.bucket)
  /\ printer.pc = "done" => printer.bucket + 1 = NBuckets
  /\ printer.pc # "idle" => Prints(UpTo(printer.bucket, Here))

PrintInv == ~PrintWhileBusy => Alone /\ PrinterOK

\* Behind the nodes up to a comes the one that a refers to.
LEMMA NextUpTo ==
  ASSUME TypeOK, Lists, NEW b \in Bucket, NEW a \in {HeadOf(b)} \cup Nodes(b), NEW m, m = next[a].ptr
  PROVE  /\ m = TailOf(b) => UpTo(b, m) = UpTo(b, a)
         /\ m # TailOf(b) => /\ m \in Nodes(b) /\ UpTo(b, m) = UpTo(b, a) \cup {m}
                             /\ \A x \in UpTo(b, a) : Ascending(key[x], key[m])
<1>1. /\ m \in Nodes(b) \cup {TailOf(b)} /\ Lt(a, m) /\ m \in Addr /\ a \in Addr /\ In(a, b)
      /\ \A x \in Nodes(b) : ~ (Lt(a, x) /\ Lt(x, m))
  BY Members, Places DEF Lists, Adjacent, Ordered
<1>2. \A x \in Nodes(b) : x \in Addr /\ In(x, b) /\ x \in Heap /\ x \in linked
  BY Members
<1>3. \A x \in Nodes(b) : (x = a \/ Lt(x, a)) <=> Lt(x, m)
  <2> SUFFICES ASSUME NEW x \in Nodes(b) PROVE (x = a \/ Lt(x, a)) <=> Lt(x, m)
    OBVIOUS
  <2>1. x = a \/ Lt(x, a) => Lt(x, m)
    BY <1>1, <1>2, Order
  <2>2. x = a \/ Lt(x, a) \/ Lt(a, x)
    <3>1. x = a \/ Lt(x, a) \/ Lt(a, x) \/ (a \in Heap /\ key[a] = key[x])
      BY <1>1, <1>2, Total
    <3>2. a \in Heap => a \in linked
      BY <1>2, Places
    <3> QED BY <1>2, <3>1, <3>2 DEF Lists, Distinct
  <2> QED BY <1>1, <2>1, <2>2
<1>4. UpTo(b, a) = {n \in linked : getIndex(key[n]) < b \/ (getIndex(key[n]) = b /\ Lt(n, m))}
  BY <1>3 DEF UpTo, Nodes
<1>5. CASE m = TailOf(b)
  <2>1. m \notin linked
    BY <1>5, Places, KnownType
  <2> QED BY <1>4, <1>5, <2>1 DEF UpTo
<1>6. CASE m # TailOf(b)
  <2>1. m \in Nodes(b) /\ m \in linked /\ getIndex(key[m]) = b /\ m \in Heap
    BY <1>1, <1>6, Members DEF Nodes
  <2>2. UpTo(b, m) = UpTo(b, a) \cup {m}
    BY <1>4, <2>1 DEF UpTo
  <2>3. \A x \in UpTo(b, a) : Ascending(key[x], key[m])
    <3>1. \A x \in linked : Lt(x, m) => key[x] < key[m]
      BY <2>1, Places, KnownType DEF Lt
    <3> QED BY <1>4, <2>1, <3>1 DEF Ascending
  <2> QED BY <1>6, <2>1, <2>2, <2>3
<1> QED BY <1>5, <1>6

LEMMA PrintsAppend ==
  ASSUME out \in Seq(Int), NEW N, NEW x, Prints(N), key[x] \in Int, out' = Append(out, key[x]), key' = key,
         \A n \in N : Ascending(key[n], key[x])
  PROVE  Prints(N \cup {x})'
<1>1. /\ DOMAIN out = 1 .. Len(out) /\ DOMAIN out' = 1 .. Len(out) + 1 /\ Len(out) \in Nat
      /\ out'[Len(out) + 1] = key[x] /\ \A i \in 1 .. Len(out) : out'[i] = out[i]
  OBVIOUS
<1>2. {out'[i] : i \in DOMAIN out'} = {out[i] : i \in DOMAIN out} \cup {key[x]}
  <2>1. \A i : i \in DOMAIN out' <=> i \in DOMAIN out \/ i = Len(out) + 1
    BY <1>1
  <2> QED BY <1>1, <2>1
<1>3. {key'[n] : n \in N \cup {x}} = {key[n] : n \in N} \cup {key[x]}
  OBVIOUS
<1>4. ASSUME NEW i \in DOMAIN out', NEW j \in DOMAIN out', i < j PROVE Ascending(out'[i], out'[j])
  <2>1. i \in DOMAIN out
    BY <1>1, <1>4
  <2>2. CASE j \in DOMAIN out
    BY <1>1, <1>4, <2>1, <2>2 DEF Prints
  <2>3. CASE j \notin DOMAIN out
    <3>1. out'[j] = key[x] /\ out'[i] = out[i]
      BY <1>1, <2>1, <2>3
    <3>2. PICK n \in N : out[i] = key[n]
      BY <2>1 DEF Prints
    <3> QED BY <3>1, <3>2
  <2> QED BY <2>2, <2>3
<1> QED BY <1>2, <1>3, <1>4 DEF Prints

LEMMA PrintAtInv ==
  ASSUME TypeOK, Lists, PrinterOK, UNCHANGED <<key, linked>>,
         NEW b \in Bucket, b = printer.bucket, NEW a \in {HeadOf(b)} \cup Nodes(b), a = Here,
         printer.pc # "idle", ~ next[a].mark, PrintAt(b, next[a])
  PROVE  PrinterOK'
<1>0. PICK m : m = next[a].ptr
  OBVIOUS
<1>1. next[a] = Unmarked(m) /\ m \in Nodes(b) \cup {TailOf(b)} /\ m \in Addr /\ a \in Addr
  <2>1. a \in Addr
    BY Members
  <2>2. next[a] = [ptr |-> m, mark |-> FALSE]
    BY <1>0, <2>1 DEF TypeOK, Ref
  <2> QED BY <1>0, <2>1, <2>2, Members DEF Lists, Adjacent, Unmarked
<1>2. \A c, d : UpTo(c, d)' = UpTo(c, d)
  BY DEF UpTo, Lt
<1>3. \A c : Nodes(c)' = Nodes(c)
  BY DEF Nodes
<1>4. Prints(UpTo(b, a)) /\ out \in Seq(Int)
  BY DEF PrinterOK
<1>5. CASE m = TailOf(b)
  <2>1. UpTo(b, m) = UpTo(b, a) /\ out' = out
    <3>1. /\ m = TailOf(b) => UpTo(b, m) = UpTo(b, a)
          /\ m # TailOf(b) => /\ m \in Nodes(b) /\ UpTo(b, m) = UpTo(b, a) \cup {m}
                              /\ \A x \in UpTo(b, a) : Ascending(key[x], key[m])
      BY <1>0, NextUpTo
    <3>2. out' = out
      BY <1>1, <1>5 DEF PrintAt
    <3> QED BY <1>5, <3>1, <3>2
  <2>2. \A N : Prints(N)' <=> Prints(N)
    BY <2>1 DEF Prints
  <2>3. CASE b + 1 < NBuckets
    <3>1. printer' = [pc |-> "bucket", bucket |-> b + 1, node |-> Null] /\ b + 1 \in Bucket
      BY <1>1, <1>5, <2>3, BucketAssumption DEF PrintAt, Bucket
    <3>2. UpTo(b + 1, HeadOf(b + 1)) = UpTo(b, m)
      <4>1. \A n \in linked : n \in Heap /\ n \in Addr /\ getIndex(key[n]) \in Bucket
        BY KnownType, Places, IndexInBucket DEF TypeOK
      <4>2. \A n \in linked : n # HeadOf(b + 1) /\ ~ Lt(n, HeadOf(b + 1)) /\ Lt(n, m)
        BY <1>5, <3>1, <4>1, Places DEF Lt
      <4>3. \A n \in linked : getIndex(key[n]) < b + 1 <=> getIndex(key[n]) < b \/ getIndex(key[n]) = b
        BY <4>1, BucketAssumption DEF Bucket
      <4> QED BY <4>2, <4>3 DEF UpTo
    <3>3. printer'.bucket = b + 1 /\ printer'.pc = "bucket" /\ Here' = HeadOf(b + 1)
      BY <3>1 DEF Here
    <3>4. Prints(UpTo(printer.bucket, Here))'
      BY <1>2, <1>4, <2>1, <2>2, <3>2, <3>3
    <3> QED BY <1>4, <2>1, <3>1, <3>3, <3>4 DEF PrinterOK
  <2>4. CASE ~ (b + 1 < NBuckets)
    <3>1. printer' = [pc |-> "done", bucket |-> b, node |-> Null] /\ b + 1 = NBuckets
      BY <1>1, <1>5, <2>4, BucketAssumption DEF PrintAt, Bucket
    <3>2. printer'.bucket = b /\ printer'.pc = "done" /\ Here' = m
      BY <1>5, <3>1 DEF Here
    <3>3. Prints(UpTo(printer.bucket, Here))'
      BY <1>2, <1>4, <2>1, <2>2, <3>2
    <3> QED BY <1>4, <2>1, <3>1, <3>2, <3>3 DEF PrinterOK
  <2> QED BY <2>3, <2>4
<1>6. CASE m # TailOf(b)
  <2>1. m \in Nodes(b) /\ UpTo(b, m) = UpTo(b, a) \cup {m} /\ \A x \in UpTo(b, a) : Ascending(key[x], key[m])
    BY <1>0, <1>6, NextUpTo
  <2>2. printer' = [pc |-> "test", bucket |-> b, node |-> m] /\ out' = Append(out, key[m])
    BY <1>1, <1>6 DEF PrintAt, is_marked_reference, Unmarked
  <2>3. key[m] \in Int
    BY <1>1 DEF TypeOK
  <2>4. Prints(UpTo(b, a) \cup {m})'
    <3>1. PICK N : N = UpTo(b, a)
      OBVIOUS
    <3>2. Prints(N \cup {m})'
      BY <1>4, <2>1, <2>2, <2>3, <3>1, PrintsAppend
    <3> QED BY <1>2, <3>1, <3>2
  <2>5. printer'.bucket = b /\ printer'.pc = "test" /\ printer'.node = m /\ Here' = m
    BY <2>2 DEF Here
  <2>6. Prints(UpTo(printer.bucket, Here))'
    BY <1>2, <2>1, <2>4, <2>5
  <2>7. out' \in Seq(Int)
    BY <1>4, <2>2, <2>3
  <2> QED BY <1>1, <1>3, <2>1, <2>2, <2>5, <2>6, <2>7 DEF PrinterOK
<1> QED BY <1>5, <1>6

LEMMA NextPrintInv == ListInv /\ PrintInv /\ [Next]_vars => PrintInv'
<1> SUFFICES ASSUME ListInv, [Next]_vars, ~PrintWhileBusy, Alone, PrinterOK PROVE Alone' /\ PrinterOK'
  BY DEF PrintInv
<1>1. CASE printer.pc = "idle" /\ UNCHANGED <<printer, out>>
  BY <1>1 DEF Alone, PrinterOK
<1>2. ASSUME NEW t \in Thread, NEW k \in Key, insert_item(t, k) \/ remove_item(t, k) \/ lookup_item(t, k)
      PROVE  Alone' /\ PrinterOK'
  BY <1>1, <1>2 DEF insert_item, remove_item, lookup_item, Invoke, print
<1>3. ASSUME NEW t \in Thread, Step(t) PROVE Alone' /\ PrinterOK'
  <2>1. UNCHANGED <<printer, out>> /\ pc[t] # "idle"
    BY <1>3 DEF Step, SearchHead, SearchLoad, SearchUnlink, SearchRecheck, FindResult, InsertTest, InsertCas,
       RemoveTest, RemoveLoad, MarkCas, UnlinkCas, Return, print
  <2> QED BY <1>1, <2>1 DEF Alone
<1>4. CASE UNCHANGED vars
  <2>1. UNCHANGED <<printer, out, pc, key, linked>>
    BY <1>4 DEF vars
  <2>2. Here' = Here /\ UpTo(printer.bucket, Here)' = UpTo(printer.bucket, Here)
    BY <2>1 DEF Here, UpTo, Lt
  <2>3. Prints(UpTo(printer.bucket, Here))' <=> Prints(UpTo(printer.bucket, Here))
    BY <2>1, <2>2 DEF Prints
  <2>4. Nodes(printer.bucket)' = Nodes(printer.bucket)
    BY <2>1 DEF Nodes
  <2> QED BY <2>1, <2>3, <2>4 DEF Alone, PrinterOK
<1>5. CASE Printing
  <2>1. UNCHANGED <<key, next, linked, pc>>
    BY <1>5 DEF Printing, print_hashmap, PrintBucket, PrintTest, PrintAdvance, PrintReturn, PrintUnchanged, heap
  <2>2. Alone'
    BY <1>5, <2>1 DEF Alone, Printing, print_hashmap, PrintBucket, PrintTest, PrintAdvance, PrintReturn
  <2>3. \A n \in linked : printer.pc # "idle" => ~ next[n].mark
    BY DEF Alone, ListInv, Cleaned, Duty
  <2>4. \A b \in Bucket : ~ next[HeadOf(b)].mark
    BY Places DEF ListInv, Lists, Allocated
  <2>5. PICK b \in Bucket : b = printer.bucket
    BY DEF PrinterOK
  <2>6. Nodes(b) \subseteq linked /\ TypeOK /\ Lists
    BY Members DEF ListInv, Inv
  <2>7. CASE print_hashmap
    <3>1. printer' = [pc |-> "bucket", bucket |-> 0, node |-> Null] /\ out' = <<>>
      BY <2>7 DEF print_hashmap, PrinterOK
    <3>2. Here' = HeadOf(0) /\ 0 \in Bucket
      BY <3>1, BucketAssumption DEF Here, Bucket
    <3>3. UpTo(0, HeadOf(0))' = {}
      <4>1. \A n \in linked : n \in Heap /\ n \in Addr /\ getIndex(key[n]) \in Bucket
        BY <2>6, KnownType, Places, IndexInBucket DEF TypeOK
      <4>2. \A n \in linked : n # HeadOf(0) /\ ~ Lt(n, HeadOf(0)) /\ ~ (getIndex(key[n]) < 0)
        BY <3>2, <4>1, Places, BucketAssumption DEF Lt, Bucket
      <4> QED BY <2>1, <4>2 DEF UpTo, Lt
    <3>4. Prints(UpTo(printer.bucket, Here))'
      BY <3>1, <3>2, <3>3 DEF Prints
    <3> QED BY <2>2, <3>1, <3>2, <3>4 DEF PrinterOK
  <2>8. CASE PrintBucket
    <3>1. printer.pc = "bucket" /\ PrintAt(b, next[HeadOf(b)]) /\ Here = HeadOf(b)
      BY <2>5, <2>8 DEF PrintBucket, Here
    <3> QED BY <2>1, <2>2, <2>4, <2>5, <2>6, <3>1, PrintAtInv
  <2>9. CASE PrintTest
    <3>1. printer.pc = "test" /\ printer.node \in Nodes(b) /\ ~ next[printer.node].mark
      BY <2>3, <2>5, <2>6, <2>9 DEF PrintTest, PrinterOK
    <3>2. printer' = [printer EXCEPT !.pc = "advance"] /\ out' = out
      BY <2>9, <3>1 DEF PrintTest, is_marked_reference
    <3>3. printer'.pc = "advance" /\ printer'.bucket = b /\ printer'.node = printer.node /\ Here' = Here
      BY <2>5, <3>1, <3>2 DEF PrinterOK, Here
    <3>4. \A N : Prints(N)' <=> Prints(N)
      BY <2>1, <3>2 DEF Prints
    <3>5. UpTo(printer.bucket, Here)' = UpTo(b, Here)
      BY <2>1, <3>3 DEF UpTo, Lt
    <3>6. Prints(UpTo(printer.bucket, Here))'
      <4>1. Prints(UpTo(b, Here))
        BY <2>5, <3>1 DEF PrinterOK
      <4>2. PICK N : N = UpTo(b, Here)
        OBVIOUS
      <4>3. Prints(N)'
        BY <3>4, <4>1, <4>2
      <4> QED BY <3>5, <4>2, <4>3 DEF Prints
    <3>7. Nodes(b)' = Nodes(b)
      BY <2>1 DEF Nodes
    <3>8. printer' \in [pc : {"idle", "bucket", "test", "advance", "done"}, bucket : Bucket, node : Addr \cup {Null}]
      BY <3>2 DEF PrinterOK
    <3> QED BY <2>2, <3>1, <3>2, <3>3, <3>6, <3>7, <3>8 DEF PrinterOK
  <2>10. CASE PrintAdvance
    <3>1. printer.pc = "advance" /\ PrintAt(b, next[printer.node]) /\ Here = printer.node /\ printer.node \in Nodes(b)
      BY <2>5, <2>10 DEF PrintAdvance, Here, PrinterOK
    <3> QED BY <2>1, <2>2, <2>3, <2>5, <2>6, <3>1, PrintAtInv
  <2>11. CASE PrintReturn
    <3>1. printer' = [pc |-> "idle", bucket |-> 0, node |-> Null] /\ out' = <<>> /\ 0 \in Bucket
      BY <2>11, BucketAssumption DEF PrintReturn, Bucket
    <3> QED BY <2>2, <3>1 DEF PrinterOK
  <2> QED BY <1>5, <2>7, <2>8, <2>9, <2>10, <2>11 DEF Printing
<1> QED BY <1>2, <1>3, <1>4, <1>5 DEF Next

\* print_hashmap of lockfreehashmap.cpp, called while no other call is in progress,
\* prints every key of the map once and in order, for any number of keys and buckets.
THEOREM PrintsContents == Spec => []PrintShowsContents
<1>1. Init => PrintInv
  <2>1. Init => printer = [pc |-> "idle", bucket |-> 0, node |-> Null] /\ out = <<>> /\ 0 \in Bucket
    BY BucketAssumption DEF Init, Bucket
  <2> QED BY <2>1 DEF PrintInv, Alone, PrinterOK
<1>2. ListInv /\ PrintInv => PrintShowsContents
  <2> SUFFICES ASSUME ListInv, Alone, PrinterOK, printer.pc = "done"
               PROVE  /\ {out[i] : i \in DOMAIN out} = Contents
                      /\ \A i, j \in DOMAIN out :
                           i < j => \/ getIndex(out[i]) < getIndex(out[j])
                                    \/ getIndex(out[i]) = getIndex(out[j]) /\ out[i] < out[j]
    BY DEF PrintShowsContents, PrintInv
  <2>1. PICK b \in Bucket : b = printer.bucket /\ b + 1 = NBuckets /\ Here = TailOf(b) /\ Prints(UpTo(b, TailOf(b)))
    BY DEF PrinterOK, Here
  <2>2. UpTo(b, TailOf(b)) = linked
    <3>1. \A n \in linked : n \in Heap /\ getIndex(key[n]) \in Bucket
      BY KnownType, Places, IndexInBucket DEF ListInv, Inv, TypeOK
    <3>2. \A n \in linked : Lt(n, TailOf(b)) /\ (getIndex(key[n]) < b \/ getIndex(key[n]) = b)
      BY <2>1, <3>1, Places, BucketAssumption DEF Lt, Bucket
    <3> QED BY <3>2 DEF UpTo
  <2>3. \A n \in linked : ~ next[n].mark
    BY DEF Alone, ListInv, Cleaned, Duty
  <2>4. Contents = {key[n] : n \in linked}
    BY <2>3 DEF Contents
  <2> QED BY <2>1, <2>2, <2>4 DEF Prints, Ascending
<1> QED BY <1>1, <1>2, NextPrintInv, AlwaysListInv, PTL DEF Spec
=============================================================================
