------------------------- MODULE LockHashMapProofs --------------------------
(***************************************************************************)
(* Proofs about the lock-based part of task4-concurrency: LockHashMap, for *)
(* every number of threads, buckets, values and nodes, and at the end      *)
(* SpinLock for every set of threads.  The first part of the map: the      *)
(* calls are type correct and no thread ever stands on, or steps to, a     *)
(* deleted node.  The second: the map of hashmap.cpp is an atomic bag of   *)
(* values, print_hashmap prints a bucket as it is, and free_hashmap gives  *)
(* everything back; all three rest on the fact that every node is in a     *)
(* list that begins at its sentinel.                                       *)
(***************************************************************************)
EXTENDS LockHashMap, SpinLock, WellFoundedInduction, FiniteSetTheorems, TLAPS

\* No list runs in a circle: nodes can be numbered so that the numbers fall
\* along every list.  (insert_item adds in front, remove_item shortens.)
Falling(r) == \A a \in live : next[a] # Null => r[next[a]] < r[a]
Acyclic == \E r \in [Addr -> Nat] : Falling(r)

Inv == TypeOK /\ NoDangling /\ ListInv /\ Acyclic

-----------------------------------------------------------------------------
(* Constants *)

\* Sentinels, nodes and Null are different addresses.
LEMMA Addresses == /\ Bucket \subseteq Addr /\ Heap \subseteq Addr /\ Bucket \cap Heap = {}
                   /\ Null \notin Addr
                   /\ \A b \in Bucket : Sentinel(b) = b
BY BucketAssumption, NodesAssumption DEF Bucket, Heap, Addr, Null, Sentinel

\* getIndex yields a bucket for every value, negative ones included.
LEMMA IndexInBucket == \A k \in Int : getIndex(k) \in Bucket
BY BucketAssumption, WordAssumption DEF getIndex, Bucket

LEMMA AnyKeyInKey == AnyKey \in Key
BY KeyAssumption DEF AnyKey

\* The mutex a call takes is one of the map's, and a node has a home there.
LEMMA IndexType == ASSUME TypeOK, NEW t \in Thread PROVE Index(t) \in Bucket
BY IndexInBucket, KeyAssumption DEF TypeOK, Index

LEMMA HomeType == ASSUME TypeOK, NEW a \in Addr PROVE Home(a) \in Bucket
BY IndexInBucket DEF TypeOK, Home

-----------------------------------------------------------------------------
LEMMA InitInv == Init => Inv
<1> SUFFICES ASSUME Init PROVE Inv OBVIOUS
<1>1. TypeOK
  BY Addresses, AnyKeyInKey, BucketAssumption DEF Init, TypeOK, PC, Bucket
<1>2. NoDangling
  BY DEF Init, NoDangling, Addr
<1>3. ListInv
  BY Addresses DEF Init, ListInv, Guarded, InList, PendingApart, Pending, Separate, Listed,
     FreeAlone, Freeing, Addr
<1>4. Acyclic
  <2> DEFINE r == [a \in Addr |-> 0]
  <2>1. r \in [Addr -> Nat] OBVIOUS
  <2>2. Falling(r) BY DEF Init, Falling, Addr
  <2> QED BY <2>1, <2>2 DEF Acyclic
<1> QED BY <1>1, <1>2, <1>3, <1>4 DEF Inv

-----------------------------------------------------------------------------
(* Type correctness *)

LEMMA NextType == ASSUME Inv, [Next]_vars PROVE TypeOK'
<1> USE DEF Inv
<1>1. ASSUME NEW t \in Thread, NEW o \in {"insert", "remove", "lookup", "print"}, NEW k \in Key,
             Invoke(t, o, k)
      PROVE TypeOK'
  BY <1>1 DEF Invoke, Goto, TypeOK, PC, list
<1>2. ASSUME NEW t \in Thread, Lock(t) PROVE TypeOK'
  <2>1. Index(t) \in Bucket BY IndexType
  <2>2. /\ Sentinel(Index(t)) \in Addr
        /\ next[Sentinel(Index(t))] \in Addr \cup {Null}
    BY <2>1, Addresses DEF TypeOK
  <2>3. owner' \in [Bucket -> Thread \cup {NoThread}]
    BY <1>2, <2>1 DEF Lock, TypeOK
  <2>4. pc' \in [Thread -> PC] /\ node' \in [Thread -> Addr \cup {Null}]
    BY <1>2, <2>2 DEF Lock, Goto, At, TypeOK, PC
  <2> QED
    BY <1>2, <2>3, <2>4 DEF Lock, TypeOK, list
<1>3. ASSUME NEW t \in Thread, Return(t) PROVE TypeOK'
  <2>1. 0 \in Bucket BY BucketAssumption DEF Bucket
  <2>2. Index(t) \in Bucket BY IndexType
  <2>3. owner' \in [Bucket -> Thread \cup {NoThread}]
    BY <1>3, <2>2 DEF Return, TypeOK
  <2>4. /\ pc' \in [Thread -> PC] /\ node' \in [Thread -> Addr \cup {Null}]
        /\ op' \in [Thread -> {"none", "insert", "remove", "lookup", "print"}]
        /\ arg' \in [Thread -> Key] /\ bucket' \in [Thread -> Bucket]
        /\ res' \in [Thread -> {"none", "yes", "no"}]
    BY <1>3, <2>1, AnyKeyInKey DEF Return, Goto, At, Settle, TypeOK, PC
  <2>5. out' \in [Thread -> Seq(Int)]
    BY <1>3 DEF Return, TypeOK
  <2> QED
    BY <1>3, <2>3, <2>4, <2>5 DEF Return, TypeOK, list
<1>4. ASSUME NEW t \in Thread, InsertNew(t) PROVE TypeOK'
  <2>1. Index(t) \in Bucket /\ Sentinel(Index(t)) \in Addr BY IndexType, Addresses
  <2>2. arg[t] \in Int BY KeyAssumption DEF TypeOK
  <2>3. PICK a \in Heap \ live : /\ live' = live \cup {a}
                                 /\ value' = [value EXCEPT ![a] = arg[t]]
                                 /\ next' = [next EXCEPT ![a] = next[Sentinel(Index(t))]]
                                 /\ node' = [node EXCEPT ![t] = a]
    BY <1>4 DEF InsertNew, At
  <2>4. /\ live' \subseteq Addr /\ value' \in [Addr -> Int]
        /\ next' \in [Addr -> Heap \cup {Null}] /\ node' \in [Thread -> Addr \cup {Null}]
    BY <2>1, <2>2, <2>3, Addresses DEF TypeOK
  <2>5. pc' \in [Thread -> PC]
    BY <1>4 DEF InsertNew, Goto, TypeOK, PC
  <2> QED
    BY <1>4, <2>4, <2>5 DEF InsertNew, TypeOK
<1>5. ASSUME NEW t \in Thread, InsertLink(t) PROVE TypeOK'
  BY <1>5, IndexType, Addresses DEF InsertLink, Goto, Settle, TypeOK, PC, ListInv, PendingApart, Pending
<1>6. ASSUME NEW t \in Thread, RemoveStep(t) PROVE TypeOK'
  <2>1. node[t] \in Addr
    BY <1>6 DEF RemoveStep, RemoveOutcome, ListInv, Guarded, TypeOK
  <2>2. next[node[t]] \in Heap \cup {Null} /\ Heap \subseteq Addr
    BY <2>1, Addresses DEF TypeOK
  <2>3. next[node[t]] # Null => next[next[node[t]]] \in Heap \cup {Null}
    BY <2>2 DEF TypeOK
  <2>4. next' \in [Addr -> Heap \cup {Null}] /\ live' \subseteq Addr
    BY <1>6, <2>1, <2>3 DEF RemoveStep, RemoveOutcome, Bypass, TypeOK
  <2>5. /\ pc' \in [Thread -> PC] /\ node' \in [Thread -> Addr \cup {Null}]
        /\ res' \in [Thread -> {"none", "yes", "no"}]
    BY <1>6, <2>2 DEF RemoveStep, RemoveOutcome, Goto, At, Settle, TypeOK, PC
  <2> QED
    BY <1>6, <2>4, <2>5 DEF RemoveStep, RemoveOutcome, TypeOK
<1>7. ASSUME NEW t \in Thread, LookupStep(t) PROVE TypeOK'
  BY <1>7, Addresses DEF LookupStep, Goto, At, Settle, TypeOK, PC, list
<1>8. ASSUME NEW t \in Thread, PrintStep(t) PROVE TypeOK'
  <2>1. node[t] \in Addr /\ next[node[t]] \in Addr \cup {Null} /\ value[node[t]] \in Int
    BY <1>8, Addresses DEF PrintStep, TypeOK
  <2>2. out' \in [Thread -> Seq(Int)]
    BY <1>8, <2>1 DEF PrintStep, TypeOK
  <2>3. node' \in [Thread -> Addr \cup {Null}]
    BY <1>8, <2>1 DEF PrintStep, At, TypeOK
  <2> QED
    BY <1>8, <2>2, <2>3 DEF PrintStep, TypeOK, list
<1>9. ASSUME NEW t \in Thread, PrintBucketEnd(t) PROVE TypeOK'
  <2>1. bucket[t] + 1 < NBuckets => bucket[t] + 1 \in Bucket
    BY BucketAssumption DEF TypeOK, Bucket
  <2>2. owner' \in [Bucket -> Thread \cup {NoThread}] /\ bucket' \in [Thread -> Bucket]
    BY <1>9, <2>1 DEF PrintBucketEnd, TypeOK
  <2>3. pc' \in [Thread -> PC]
    BY <1>9 DEF PrintBucketEnd, Goto, TypeOK, PC
  <2>4. out' \in [Thread -> Seq(Int)]
    <3>1. out' = out \/ out' = [out EXCEPT ![t] = <<>>]
      BY <1>9 DEF PrintBucketEnd
    <3>2. <<>> \in Seq(Int) OBVIOUS
    <3> QED BY <3>1, <3>2 DEF TypeOK
  <2> QED
    BY <1>9, <2>2, <2>3, <2>4 DEF PrintBucketEnd, TypeOK, list
<1>10. ASSUME NEW t \in Thread, free_hashmap(t) PROVE TypeOK'
  BY <1>10 DEF free_hashmap, Goto, TypeOK, PC, list
<1>11. ASSUME NEW t \in Thread, FreeLock(t) PROVE TypeOK'
  BY <1>11, Addresses DEF FreeLock, Goto, At, TypeOK, PC, list
<1>12. ASSUME NEW t \in Thread, FreeNode(t) PROVE TypeOK'
  <2>1. next[node[t]] \in Addr \cup {Null}
    BY <1>12, Addresses DEF FreeNode, TypeOK
  <2> QED
    BY <1>12, <2>1 DEF FreeNode, At, TypeOK
<1>13. ASSUME NEW t \in Thread, FreeBucketEnd(t) PROVE TypeOK'
  <2>1. bucket[t] + 1 < NBuckets => bucket[t] + 1 \in Bucket
    BY BucketAssumption DEF TypeOK, Bucket
  <2>2. owner' \in [Bucket -> Thread \cup {NoThread}] /\ bucket' \in [Thread -> Bucket]
    BY <1>13, <2>1 DEF FreeBucketEnd, TypeOK
  <2>3. pc' \in [Thread -> PC]
    BY <1>13 DEF FreeBucketEnd, Goto, TypeOK, PC
  <2> QED
    BY <1>13, <2>2, <2>3 DEF FreeBucketEnd, TypeOK, list
<1>14. CASE UNCHANGED vars
  BY <1>14 DEF vars, TypeOK
<1> QED
  BY <1>1, <1>2, <1>3, <1>4, <1>5, <1>6, <1>7, <1>8, <1>9, <1>10, <1>11, <1>12, <1>13, <1>14, AnyKeyInKey
  DEF Next, Step, Gone, insert_item, remove_item, lookup_item, print_hashmap

-----------------------------------------------------------------------------
(* Steps that leave the lists alone *)

\* Separate and Acyclic speak of the lists and of the insertions between
\* allocating and linking only.
LEMMA ListsAlone ==
  ASSUME Inv, UNCHANGED <<live, value, next>>,
         \A t \in Thread : Pending(t)' <=> Pending(t),
         \A t \in Thread : Pending(t) => node'[t] = node[t]
  PROVE  Separate' /\ Acyclic'
<1>1. Separate'
  BY DEF Inv, ListInv, Separate, Listed, Home
<1>2. Acyclic'
  BY DEF Inv, Acyclic, Falling
<1> QED BY <1>1, <1>2

\* A thread that stands on no node, or on the node behind it, in its own bucket.
LEMMA InvokeInv ==
  ASSUME Inv, TypeOK', NEW t \in Thread, NEW o \in {"insert", "remove", "lookup", "print"},
         NEW k \in Key, Invoke(t, o, k)
  PROVE  Inv'
<1> USE DEF Inv, ListInv
<1>1. /\ map = "allocated" /\ pc[t] = "idle" /\ pc' = [pc EXCEPT ![t] = "lock"]
      /\ op' = [op EXCEPT ![t] = o] /\ arg' = [arg EXCEPT ![t] = k]
      /\ UNCHANGED <<map, owner, live, value, next, node, bucket>>
  BY DEF Invoke, Goto, list
<1>2. \A u \in Thread : u # t => pc'[u] = pc[u] /\ Index(u)' = Index(u) /\ op'[u] = op[u]
  BY <1>1 DEF TypeOK, Index
<1>3. \A u \in Thread : Pending(u)' <=> Pending(u)
  BY <1>1 DEF TypeOK, Pending
<1>4. Separate' /\ Acyclic'
  BY <1>1, <1>3, ListsAlone
<1>5. NoDangling'
  BY <1>1 DEF NoDangling
<1>6. Guarded'
  BY <1>1, <1>2 DEF Guarded, InList, TypeOK, Home
<1>7. PendingApart'
  BY <1>1, <1>2, <1>3 DEF PendingApart, Pending, TypeOK
<1>8. FreeAlone'
  BY <1>1 DEF FreeAlone, Freeing, TypeOK
<1> QED BY <1>4, <1>5, <1>6, <1>7, <1>8

LEMMA LockStepInv == ASSUME Inv, TypeOK', NEW t \in Thread, Lock(t) PROVE Inv'
<1> USE DEF Inv, ListInv
<1>1. Index(t) \in Bucket BY IndexType
<1>2. /\ pc[t] = "lock" /\ owner[Index(t)] = NoThread
      /\ owner' = [owner EXCEPT ![Index(t)] = t]
      /\ UNCHANGED <<map, live, value, next, op, arg, bucket>>
  BY DEF Lock, list
<1>3. \/ op[t] = "insert" /\ pc' = [pc EXCEPT ![t] = "new"] /\ node' = node
      \/ /\ op[t] # "insert" /\ pc' = [pc EXCEPT ![t] = "walk"]
         /\ \/ op[t] = "remove" /\ node' = [node EXCEPT ![t] = Sentinel(Index(t))]
            \/ op[t] # "remove" /\ node' = [node EXCEPT ![t] = next[Sentinel(Index(t))]]
  BY DEF Lock, Goto, At
<1>4. \A u \in Thread : Index(u)' = Index(u)
  BY <1>2 DEF Index
<1>5. \A u \in Thread : u # t => pc'[u] = pc[u] /\ node'[u] = node[u]
  BY <1>3 DEF TypeOK
<1>6. \A u \in Thread : Pending(u)' <=> Pending(u)
  BY <1>2, <1>3, <1>5 DEF Pending, TypeOK
<1>7. Separate' /\ Acyclic'
  BY <1>2, <1>5, <1>6, ListsAlone DEF Pending
<1>8. map = "allocated"
  BY <1>2 DEF FreeAlone, TypeOK, Freeing
<1>9. Sentinel(Index(t)) \in live /\ Sentinel(Index(t)) = Index(t)
  BY <1>1, <1>8, Addresses DEF FreeAlone
<1>10. /\ next[Sentinel(Index(t))] \in live \cup {Null}
       /\ next[Sentinel(Index(t))] # Null => Home(next[Sentinel(Index(t))]) = Index(t)
       /\ Home(Sentinel(Index(t))) = Index(t)
  BY <1>1, <1>9 DEF NoDangling, Separate, Home
<1>11. node[t] = Null BY <1>2 DEF Guarded, InList
<1>12. NoDangling'
  BY <1>2, <1>3, <1>5, <1>9, <1>10 DEF NoDangling, TypeOK
<1>13. Guarded'
  <2> SUFFICES ASSUME NEW u \in Thread
               PROVE  /\ InList(u)' => owner'[Index(u)] = u
                      /\ ~InList(u)' /\ pc'[u] # "free" => node'[u] = Null
                      /\ InList(u)' /\ node'[u] # Null => Home(node[u])' = Index(u)
                      /\ pc'[u] \in {"new", "link"} => op[u] = "insert"
                      /\ pc'[u] = "walk" /\ op[u] = "remove" => node'[u] # Null
    BY <1>2, <1>4 DEF Guarded
  <2>1. CASE u = t
    BY <2>1, <1>1, <1>2, <1>3, <1>9, <1>10, <1>11, Addresses DEF InList, TypeOK, Home
  <2>2. CASE u # t
    <3>1. InList(u) => Index(u) # Index(t)
      BY <1>2, ThreadAssumption DEF Guarded
    <3>2. InList(u)' <=> InList(u) BY <2>2, <1>5 DEF InList
    <3>3. InList(u) => owner'[Index(u)] = owner[Index(u)]
      BY <3>1, <1>1, <1>2, IndexType DEF TypeOK
    <3> QED BY <2>2, <1>2, <1>5, <3>2, <3>3 DEF Guarded, Home
  <2> QED BY <2>1, <2>2
<1>14. PendingApart'
  BY <1>2, <1>4, <1>5, <1>6, <1>3 DEF PendingApart, Pending, TypeOK
<1>15. FreeAlone'
  BY <1>2, <1>3, <1>5, <1>8 DEF FreeAlone, Freeing, TypeOK
<1> QED BY <1>7, <1>12, <1>13, <1>14, <1>15

\* Two threads inside lists are inside different buckets.
LEMMA Apart == ASSUME Inv, NEW t \in Thread, NEW u \in Thread, t # u, InList(t), InList(u)
               PROVE  Index(t) # Index(u)
BY DEF Inv, ListInv, Guarded

\* A thread that walks a list without changing it: lookup_item, print_hashmap
\* and, until it finds the value, remove_item.
LEMMA WalkInv ==
  ASSUME Inv, TypeOK', NEW t \in Thread, pc[t] = "walk",
         UNCHANGED <<map, owner, live, value, next, op, arg, bucket>>,
         pc' = pc \/ pc' = [pc EXCEPT ![t] = "ret"],
         node' = node \/ (node[t] # Null /\ node' = [node EXCEPT ![t] = next[node[t]]]),
         pc' = pc /\ op[t] = "remove" => node'[t] # Null
  PROVE  Inv'
<1> USE DEF Inv, ListInv
<1>1. \A u \in Thread : Index(u)' = Index(u)
  BY DEF Index
<1>2. \A u \in Thread : u # t => pc'[u] = pc[u] /\ node'[u] = node[u]
  BY DEF TypeOK
<1>3. \A u \in Thread : (Pending(u)' <=> Pending(u)) /\ (InList(u)' <=> InList(u))
  BY <1>2 DEF Pending, InList, TypeOK
<1>4. Separate' /\ Acyclic'
  BY <1>2, <1>3, ListsAlone DEF Pending
<1>5. /\ node'[t] \in live \cup {Null}
      /\ node'[t] # Null => Home(node'[t]) = Index(t)
  BY DEF NoDangling, Separate, Guarded, InList, TypeOK
<1>6. NoDangling'
  BY <1>2, <1>5 DEF NoDangling
<1>7. Guarded'
  BY <1>1, <1>2, <1>3, <1>5 DEF Guarded, Home, InList, TypeOK
<1>8. PendingApart'
  BY <1>1, <1>2, <1>3 DEF PendingApart, Pending
<1>9. FreeAlone'
  BY <1>2 DEF FreeAlone, Freeing, TypeOK
<1> QED BY <1>4, <1>6, <1>7, <1>8, <1>9

\* A thread that gives its mutex back and forgets its node.
LEMMA ReleaseInv ==
  ASSUME Inv, TypeOK', NEW t \in Thread, pc[t] \in {"walk", "ret"},
         UNCHANGED <<map, live, value, next>>,
         owner' = [owner EXCEPT ![Index(t)] = NoThread],
         pc' = [pc EXCEPT ![t] = "idle"] \/ pc' = [pc EXCEPT ![t] = "lock"],
         node' = [node EXCEPT ![t] = Null],
         \A u \in Thread : u # t => /\ op'[u] = op[u] /\ arg'[u] = arg[u]
                                    /\ bucket'[u] = bucket[u]
  PROVE  Inv'
<1> USE DEF Inv, ListInv
<1>1. \A u \in Thread : u # t => /\ pc'[u] = pc[u] /\ node'[u] = node[u]
                                 /\ Index(u)' = Index(u)
  BY DEF TypeOK, Index
<1>2. pc'[t] \in {"idle", "lock"} /\ node'[t] = Null
  BY DEF TypeOK
<1>3. \A u \in Thread : Pending(u)' <=> Pending(u)
  BY <1>1, <1>2 DEF Pending
<1>4. Separate' /\ Acyclic'
  BY <1>1, <1>3, ListsAlone DEF Pending
<1>5. NoDangling'
  BY <1>1, <1>2 DEF NoDangling
<1>6. Guarded'
  <2>1. \A u \in Thread : u # t => (InList(u)' <=> InList(u))
    BY <1>1 DEF InList
  <2>2. ~InList(t)' BY <1>2 DEF InList
  <2>3. \A u \in Thread : u # t /\ InList(u) => owner'[Index(u)] = owner[Index(u)]
    BY Apart, IndexType DEF TypeOK, InList
  <2> QED BY <1>1, <1>2, <2>1, <2>2, <2>3 DEF Guarded, Home
<1>7. PendingApart'
  BY <1>1, <1>3 DEF PendingApart, Pending
<1>8. map = "allocated"
  BY DEF FreeAlone, Freeing, TypeOK
<1>9. FreeAlone'
  BY <1>1, <1>2, <1>8 DEF FreeAlone, Freeing
<1> QED BY <1>4, <1>5, <1>6, <1>7, <1>9

LEMMA QuietInv ==
  ASSUME Inv, TypeOK', NEW t \in Thread,
         Return(t) \/ LookupStep(t) \/ PrintStep(t) \/ PrintBucketEnd(t)
  PROVE  Inv'
<1>1. CASE Return(t)
  BY <1>1, ReleaseInv DEF Return, Goto, At, list, Inv, TypeOK
<1>2. CASE LookupStep(t)
  <2>1. /\ pc[t] = "walk" /\ op[t] # "remove"
        /\ UNCHANGED <<map, owner, live, value, next, op, arg, bucket>>
    BY <1>2 DEF LookupStep, list
  <2>2. pc' = pc \/ pc' = [pc EXCEPT ![t] = "ret"]
    BY <1>2 DEF LookupStep, Goto
  <2>3. node' = node \/ (node[t] # Null /\ node' = [node EXCEPT ![t] = next[node[t]]])
    BY <1>2 DEF LookupStep, At
  <2> QED BY <2>1, <2>2, <2>3, WalkInv
<1>3. CASE PrintStep(t)
  BY <1>3, WalkInv DEF PrintStep, At, list
<1>4. CASE PrintBucketEnd(t)
  <2>1. Index(t) = bucket[t] /\ node = [node EXCEPT ![t] = Null]
    BY <1>4 DEF PrintBucketEnd, Index, Inv, TypeOK
  <2>2. CASE bucket[t] + 1 < NBuckets
    <3>1. /\ pc[t] = "walk" /\ UNCHANGED <<map, live, value, next, op, arg, node>>
          /\ owner' = [owner EXCEPT ![Index(t)] = NoThread]
          /\ pc' = [pc EXCEPT ![t] = "lock"]
          /\ bucket' = [bucket EXCEPT ![t] = bucket[t] + 1]
      BY <1>4, <2>1, <2>2 DEF PrintBucketEnd, Goto, list
    <3>2. node' = [node EXCEPT ![t] = Null]
      BY <2>1, <3>1
    <3>3. \A u \in Thread : u # t => bucket'[u] = bucket[u]
      BY <3>1 DEF Inv, TypeOK
    <3> QED BY <3>1, <3>2, <3>3, ReleaseInv
  <2>3. CASE ~(bucket[t] + 1 < NBuckets)
    <3>1. /\ pc[t] = "walk" /\ op[t] # "remove" /\ pc' = [pc EXCEPT ![t] = "ret"]
          /\ UNCHANGED <<map, owner, live, value, next, op, arg, bucket, node>>
      BY <1>4, <2>3 DEF PrintBucketEnd, Goto, list
    <3> QED BY <3>1, WalkInv
  <2> QED BY <2>2, <2>3
<1> QED BY <1>1, <1>2, <1>3, <1>4

-----------------------------------------------------------------------------
(* Steps that change the lists *)

\* A node is allocated: nobody knows its address.
LEMMA InsertNewInv == ASSUME Inv, TypeOK', NEW t \in Thread, InsertNew(t) PROVE Inv'
<1> USE DEF Inv, ListInv
<1> DEFINE s == Sentinel(Index(t))
<1>1. PICK a \in Heap \ live : /\ live' = live \cup {a}
                               /\ value' = [value EXCEPT ![a] = arg[t]]
                               /\ next' = [next EXCEPT ![a] = next[s]]
                               /\ node' = [node EXCEPT ![t] = a]
  BY DEF InsertNew, At
<1>2. /\ pc[t] = "new" /\ pc' = [pc EXCEPT ![t] = "link"]
      /\ UNCHANGED <<map, owner, op, arg, bucket>>
  BY DEF InsertNew, Goto
<1>3. map = "allocated"
  BY <1>2 DEF FreeAlone, Freeing, TypeOK
<1>4. /\ Index(t) \in Bucket /\ s = Index(t) /\ s \in live /\ s # a
      /\ a \in Addr /\ a \notin Bucket /\ a # Null
  BY <1>3, IndexType, Addresses DEF FreeAlone
<1>5. \A u \in Thread : Index(u)' = Index(u)
  BY <1>2 DEF Index
<1>6. \A u \in Thread : u # t => pc'[u] = pc[u] /\ node'[u] = node[u]
  BY <1>1, <1>2 DEF TypeOK
<1>7. pc'[t] = "link" /\ node'[t] = a
  BY <1>1, <1>2 DEF TypeOK
<1>8. \A c \in Addr : c # a => next'[c] = next[c] /\ value'[c] = value[c] /\ Home(c)' = Home(c)
  BY <1>1 DEF TypeOK, Home
<1>9. next'[a] = next[s] /\ Home(a)' = Index(t)
  BY <1>1, <1>2, <1>4 DEF TypeOK, Home, Index, Guarded
<1>10. \A c \in live : c \in Addr /\ c # a /\ next[c] # a
  BY <1>1, <1>4 DEF TypeOK, NoDangling
<1>11. NoDangling'
  BY <1>1, <1>4, <1>6, <1>7, <1>8, <1>9, <1>10 DEF NoDangling
<1>12. Guarded'
  <2>1. \A u \in Thread : u # t /\ node[u] # Null => Home(node[u])' = Home(node[u])
    BY <1>6, <1>8, <1>10 DEF NoDangling
  <2> QED BY <1>2, <1>4, <1>5, <1>6, <1>7, <1>9, <2>1 DEF Guarded, InList
<1>13. PendingApart'
  <2> SUFFICES ASSUME NEW u \in Thread, Pending(u)'
               PROVE  /\ node'[u] \in Heap
                      /\ next'[node'[u]] = next'[Sentinel(Index(u))]
                      /\ \A c \in live' : next'[c] # node'[u]
    BY <1>5 DEF PendingApart
  <2>1. CASE u = t
    BY <2>1, <1>1, <1>4, <1>7, <1>8, <1>9, <1>10
  <2>2. CASE u # t
    <3>1. Pending(u) /\ node'[u] = node[u] BY <2>2, <1>6 DEF Pending
    <3>2. /\ node[u] \in Heap /\ next[node[u]] = next[Sentinel(Index(u))]
          /\ \A c \in live : next[c] # node[u]
      BY <3>1 DEF PendingApart
    <3>3. node[u] \in Addr /\ node[u] # a /\ Sentinel(Index(u)) \in Addr /\ Sentinel(Index(u)) # a
      BY <3>2, <1>4, <1>10, IndexType, Addresses DEF NoDangling
    <3> QED BY <3>1, <3>2, <3>3, <1>1, <1>4, <1>8, <1>9, <1>10
  <2> QED BY <2>1, <2>2
<1>14. Separate'
  <2>1. \A c \in Addr : Listed(c)' => c # a /\ Listed(c)
    BY <1>1, <1>2, <1>6, <1>7 DEF Listed, Pending
  <2>2. \A c \in live' : next'[c] # Null => Home(next[c])' = Home(c)'
    BY <1>1, <1>4, <1>8, <1>9, <1>10 DEF Separate, NoDangling, Home
  <2> QED BY <2>1, <2>2, <1>8 DEF Separate
<1>15. Acyclic'
  <2>1. PICK r \in [Addr -> Nat] : Falling(r) BY DEF Acyclic
  <2> DEFINE q == [r EXCEPT ![a] = r[s]]
  <2>2. q \in [Addr -> Nat] BY <1>4, Addresses
  <2>3. ASSUME NEW c \in live', next'[c] # Null PROVE q[next'[c]] < q[c]
    BY <2>1, <2>3, <1>1, <1>4, <1>8, <1>9, <1>10, Addresses DEF Falling, TypeOK
  <2> QED BY <2>2, <2>3 DEF Acyclic, Falling
<1>16. FreeAlone'
  BY <1>1, <1>2, <1>3, <1>6, <1>7 DEF FreeAlone, Freeing
<1> QED BY <1>11, <1>12, <1>13, <1>14, <1>15, <1>16

\* The new node is put behind the sentinel.
LEMMA InsertLinkInv == ASSUME Inv, TypeOK', NEW t \in Thread, InsertLink(t) PROVE Inv'
<1> USE DEF Inv, ListInv
<1> DEFINE s == Sentinel(Index(t))
           n == node[t]
<1>1. /\ pc[t] = "link" /\ pc' = [pc EXCEPT ![t] = "ret"]
      /\ next' = [next EXCEPT ![s] = n]
      /\ UNCHANGED <<map, owner, live, value, op, arg, node, bucket>>
  BY DEF InsertLink, Goto
<1>2. map = "allocated"
  BY <1>1 DEF FreeAlone, Freeing, TypeOK
<1>3. /\ Index(t) \in Bucket /\ s = Index(t) /\ s \in live /\ s \in Addr /\ s \notin Heap
  BY <1>2, IndexType, Addresses DEF FreeAlone
<1>4. /\ n \in Heap /\ n \in live /\ n \in Addr /\ n # s /\ n # Null
      /\ next[n] = next[s] /\ \A a \in live : next[a] # n
  BY <1>1, <1>3, Addresses DEF PendingApart, Pending, NoDangling
<1>5. Home(n) = Index(t) /\ Home(s) = Index(t)
  BY <1>1, <1>3, <1>4 DEF Guarded, InList, Home
<1>6. \A u \in Thread : Index(u)' = Index(u)
  BY <1>1 DEF Index
<1>7. pc'[t] = "ret" /\ \A u \in Thread : u # t => pc'[u] = pc[u]
  BY <1>1 DEF TypeOK
<1>8. next'[s] = n /\ \A a \in Addr : a # s => next'[a] = next[a]
  BY <1>1, <1>3 DEF TypeOK
<1>9. \A a \in Addr : Home(a)' = Home(a)
  BY <1>1 DEF Home
<1>10. \A u \in Thread : Pending(u)' <=> Pending(u) /\ u # t
  BY <1>7 DEF Pending
<1>11. \A u \in Thread : Pending(u) /\ u # t =>
         /\ node[u] \in live /\ node[u] \in Addr /\ Sentinel(Index(u)) \in Addr /\ Sentinel(Index(u)) # s
         /\ node[u] # n /\ node[u] # s
  <2> SUFFICES ASSUME NEW u \in Thread, Pending(u), u # t
               PROVE  /\ node[u] \in live /\ node[u] \in Addr /\ Sentinel(Index(u)) \in Addr
                      /\ Sentinel(Index(u)) # s /\ node[u] # n /\ node[u] # s
    OBVIOUS
  <2>1. Index(u) # Index(t) /\ InList(u)
    BY <1>1, Apart DEF InList, Pending
  <2>2. node[u] \in Heap /\ node[u] # Null /\ node[u] \in live
    BY Addresses DEF PendingApart, NoDangling
  <2>3. Home(node[u]) = Index(u)
    BY <2>1, <2>2 DEF Guarded
  <2> QED BY <2>1, <2>2, <2>3, <1>3, <1>5, IndexType, Addresses
<1>12. NoDangling'
  BY <1>1, <1>3, <1>4, <1>8 DEF NoDangling, TypeOK
<1>13. Guarded'
  BY <1>1, <1>4, <1>6, <1>7, <1>9 DEF Guarded, InList, Home
<1>14. PendingApart'
  <2> SUFFICES ASSUME NEW u \in Thread, Pending(u), u # t
               PROVE  /\ node[u] \in Heap
                      /\ next'[node[u]] = next'[Sentinel(Index(u))]
                      /\ \A a \in live : next'[a] # node[u]
    BY <1>1, <1>6, <1>10 DEF PendingApart
  <2>1. /\ node[u] \in Heap /\ next[node[u]] = next[Sentinel(Index(u))]
        /\ \A a \in live : next[a] # node[u]
    BY DEF PendingApart
  <2> QED BY <2>1, <1>8, <1>11 DEF TypeOK
<1>15. Separate'
  <2>1. \A a \in live : next'[a] # Null => Home(next'[a]) = Home(a)
    BY <1>3, <1>4, <1>5, <1>8 DEF Separate, TypeOK
  <2>2. \A a \in Addr : Listed(a)' <=> Listed(a) \/ a = n
    BY <1>1, <1>4, <1>10, <1>11 DEF Listed, Pending
  <2>3. Listed(s)
    BY <1>3, <1>4, <1>11 DEF Listed
  <2>4. ASSUME NEW a \in Addr, NEW c \in Addr, Listed(a)', Listed(c)',
               next'[a] = next'[c], next'[a] # Null
        PROVE  a = c
    <3>1. a \in live /\ c \in live BY <1>1, <2>4 DEF Listed
    <3>2. CASE a = s
      BY <3>1, <3>2, <2>4, <1>4, <1>8
    <3>3. CASE c = s
      BY <3>1, <3>3, <2>4, <1>4, <1>8
    <3>4. CASE a # s /\ c # s
      BY <3>4, <2>2, <2>3, <2>4, <1>3, <1>4, <1>8 DEF Separate
    <3> QED BY <3>2, <3>3, <3>4
  <2> QED BY <2>1, <2>4, <1>1, <1>9 DEF Separate, Home
<1>16. Acyclic'
  <2>1. PICK r \in [Addr -> Nat] : Falling(r) BY DEF Acyclic
  <2> DEFINE q == [r EXCEPT ![s] = r[n] + 1]
  <2>2. q \in [Addr -> Nat]
    <3>1. r[n] \in Nat BY <1>4
    <3>2. r[n] + 1 \in Nat BY <3>1
    <3> QED BY <3>2
  <2>3. ASSUME NEW a \in live, next'[a] # Null PROVE q[next'[a]] < q[a]
    <3>1. a \in Addr /\ next'[a] \in Addr /\ next'[a] # s
      BY <2>3, <1>3, <1>4, <1>8, Addresses DEF TypeOK
    <3> QED BY <2>1, <2>3, <3>1, <1>3, <1>4, <1>8 DEF Falling
  <2> QED BY <2>2, <2>3, <1>1 DEF Acyclic, Falling
<1>17. FreeAlone'
  BY <1>1, <1>2, <1>7 DEF FreeAlone, Freeing
<1> QED BY <1>12, <1>13, <1>14, <1>15, <1>16, <1>17

\* remove_item moves on, gives up, or bypasses and deletes the node n behind its
\* node p.  Only p leads to n, and the other threads are in other buckets.
LEMMA RemoveStepInv == ASSUME Inv, TypeOK', NEW t \in Thread, RemoveStep(t) PROVE Inv'
<1> USE DEF Inv, ListInv
<1> DEFINE p == node[t]
           n == next[p]
           m == next[n]
<1>1. /\ pc[t] = "walk" /\ op[t] = "remove"
      /\ UNCHANGED <<map, owner, value, op, arg, bucket>>
  BY DEF RemoveStep, RemoveOutcome
<1>2. /\ p \in live /\ p \in Addr /\ Home(p) = Index(t)
  BY <1>1 DEF Guarded, InList, NoDangling, TypeOK
<1>3. CASE n = Null
  <2>1. pc' = [pc EXCEPT ![t] = "ret"] /\ UNCHANGED <<live, next, node>>
    BY <1>3 DEF RemoveStep, RemoveOutcome, Goto
  <2>2. pc' # pc
    BY <2>1, <1>1 DEF TypeOK
  <2> QED BY <1>1, <2>1, <2>2, WalkInv
<1>4. CASE n # Null /\ value[n] # arg[t]
  <2>1. node' = [node EXCEPT ![t] = n] /\ UNCHANGED <<live, next, pc>>
    BY <1>4 DEF RemoveStep, RemoveOutcome, At
  <2>2. node'[t] # Null /\ p # Null
    BY <2>1, <1>2, <1>4, Addresses DEF TypeOK
  <2> QED BY <1>1, <2>1, <2>2, WalkInv
<1>5. CASE n # Null /\ value[n] = arg[t]
  <2>1. /\ next' = [next EXCEPT ![p] = m] /\ live' = live \ {n} /\ node' = node
        /\ pc' = [pc EXCEPT ![t] = "ret"]
    BY <1>5 DEF RemoveStep, RemoveOutcome, Goto, Bypass
  <2>2. map = "allocated"
    BY <1>1 DEF FreeAlone, Freeing, TypeOK
  <2>3. n \in live /\ n \in Heap /\ n \in Addr /\ Home(n) = Index(t)
    BY <1>2, <1>5, Addresses DEF NoDangling, Separate, TypeOK
  <2>4. m \in live \cup {Null} /\ (m # Null => Home(m) = Index(t))
    BY <2>3 DEF NoDangling, Separate
  <2>5. PICK r \in [Addr -> Nat] : Falling(r) BY DEF Acyclic
  <2>6. r[n] < r[p] /\ (m # Null => r[m] < r[n] /\ r[m] < r[p])
    <3>1. r[n] < r[p] BY <2>5, <1>2, <1>5 DEF Falling
    <3>2. m # Null => r[m] < r[n] BY <2>5, <2>3 DEF Falling
    <3>3. m # Null => m \in Addr BY <2>4 DEF TypeOK
    <3>4. r[n] \in Nat /\ r[p] \in Nat /\ (m # Null => r[m] \in Nat)
      BY <3>3, <1>2, <2>3
    <3> QED BY <3>1, <3>2, <3>4
  <2>7. p # n /\ m # n
    <3>1. r[n] \in Nat /\ r[p] \in Nat BY <1>2, <2>3
    <3> QED BY <2>6, <3>1, <1>5
  <2>8. \A u \in Thread : u # t /\ node[u] # Null => InList(u) /\ Index(u) # Index(t) /\ Home(node[u]) = Index(u)
    BY <1>1, <2>2, Apart DEF Guarded, FreeAlone, Freeing, InList
  <2>9. \A u \in Thread : Pending(u) => u # t /\ node[u] # Null
    BY <1>1, Addresses DEF Pending, PendingApart
  <2>10. \A a \in live : Home(a) = Index(t) => Listed(a)
    BY <2>8, <2>9 DEF Listed
  <2>11. \A a \in live : a # p => next[a] # n
    BY <2>10, <2>3, <1>2, <1>5 DEF Separate, TypeOK
  <2>12. next'[p] = m /\ \A a \in Addr : a # p => next'[a] = next[a]
    BY <2>1, <1>2 DEF TypeOK
  <2>13. pc'[t] = "ret" /\ \A u \in Thread : u # t => pc'[u] = pc[u]
    BY <2>1 DEF TypeOK
  <2>14. \A u \in Thread : (Pending(u)' <=> Pending(u)) /\ (InList(u)' <=> InList(u)) /\ Index(u)' = Index(u)
    BY <1>1, <2>13 DEF Pending, InList, Index
  <2>15. NoDangling'
    <3>1. \A u \in Thread : node'[u] \in live' \cup {Null}
      BY <2>1, <2>3, <2>7, <2>8, <1>2 DEF NoDangling
    <3>2. \A a \in live' : next'[a] \in live' \cup {Null}
      BY <2>1, <2>4, <2>7, <2>11, <2>12 DEF NoDangling, TypeOK
    <3> QED BY <3>1, <3>2 DEF NoDangling
  <2>16. Guarded'
    BY <1>1, <2>1, <2>13, <2>14 DEF Guarded, Home, InList
  <2>17. PendingApart'
    <3> SUFFICES ASSUME NEW u \in Thread, Pending(u)
                 PROVE  /\ node[u] \in Heap
                        /\ next'[node[u]] = next'[Sentinel(Index(u))]
                        /\ \A a \in live' : next'[a] # node[u]
      BY <2>1, <2>14 DEF PendingApart
    <3>1. /\ node[u] \in Heap /\ next[node[u]] = next[Sentinel(Index(u))]
          /\ \A a \in live : next[a] # node[u]
      BY DEF PendingApart
    <3>2. Index(u) # Index(t) /\ Home(node[u]) = Index(u) /\ node[u] # Null
      BY <2>8, <2>9
    <3>3. Index(u) \in Bucket /\ Sentinel(Index(u)) = Index(u) /\ Sentinel(Index(u)) \in Addr
      BY IndexType, Addresses
    <3>4. Sentinel(Index(u)) # p /\ node[u] # p /\ m # node[u] /\ node[u] \in Addr
      BY <3>1, <3>2, <3>3, <1>2, <2>4, Addresses DEF Home
    <3> QED BY <3>1, <3>3, <3>4, <2>1, <2>12 DEF TypeOK
  <2>18. Separate'
    <3>1. \A a \in live' : next'[a] # Null => Home(next'[a]) = Home(a)
      BY <2>1, <2>4, <2>12, <1>2 DEF Separate, TypeOK
    <3>2. \A a \in Addr : Listed(a)' => Listed(a) /\ a # n
      BY <2>1, <2>14 DEF Listed
    <3>3. Listed(n) /\ Listed(p)
      BY <2>10, <2>3, <1>2
    <3>4. ASSUME NEW a \in Addr, NEW c \in Addr, Listed(a)', Listed(c)',
                 next'[a] = next'[c], next'[a] # Null
          PROVE  a = c
      BY <3>2, <3>3, <3>4, <2>3, <2>12 DEF Separate
    <3> QED BY <3>1, <3>4, <1>1 DEF Separate, Home
  <2>19. Acyclic'
    <3>1. Falling(r)'
      BY <2>1, <2>5, <2>6, <2>12 DEF Falling, TypeOK
    <3> QED BY <3>1 DEF Acyclic
  <2>20. FreeAlone'
    BY <1>1, <2>1, <2>2, <2>3, <2>13, Addresses DEF FreeAlone, Freeing
  <2> QED BY <2>15, <2>16, <2>17, <2>18, <2>19, <2>20
<1> QED BY <1>3, <1>4, <1>5

-----------------------------------------------------------------------------
(* free_hashmap *)

LEMMA FreeHashmapInv == ASSUME Inv, TypeOK', NEW t \in Thread, free_hashmap(t) PROVE Inv'
<1> USE DEF Inv, ListInv
<1>1. /\ map = "allocated" /\ map' = "freed" /\ \A u \in Thread : pc[u] = "idle"
      /\ pc' = [pc EXCEPT ![t] = "free_lock"]
      /\ UNCHANGED <<owner, live, value, next, op, arg, node, bucket>>
  BY DEF free_hashmap, Goto, list
<1>2. pc'[t] = "free_lock" /\ \A u \in Thread : u # t => pc'[u] = "idle"
  BY <1>1 DEF TypeOK
<1>3. \A u \in Thread : ~Pending(u) /\ ~Pending(u)' /\ ~InList(u)' /\ node'[u] = Null
  BY <1>1, <1>2 DEF Pending, InList, Guarded
<1>4. Separate' /\ Acyclic'
  BY <1>1, <1>3, ListsAlone
<1>5. NoDangling'
  BY <1>1 DEF NoDangling
<1>6. Guarded' /\ PendingApart'
  BY <1>2, <1>3 DEF Guarded, PendingApart, InList
<1>7. FreeAlone'
  BY <1>1, <1>2, Addresses DEF FreeAlone, Freeing
<1> QED BY <1>4, <1>5, <1>6, <1>7

\* While free_hashmap runs, every other thread is idle and stands on no node.
LEMMA FreeingAlone ==
  ASSUME Inv, NEW t \in Thread, Freeing(t)
  PROVE  /\ map = "freed"
         /\ \A u \in Thread : ~InList(u) /\ ~Pending(u)
         /\ \A u \in Thread : u # t => pc[u] = "idle" /\ node[u] = Null
         /\ \A a \in live : Listed(a)
<1> USE DEF Inv, ListInv
<1>1. map = "freed" BY DEF FreeAlone, TypeOK
<1>2. \A u \in Thread : u # t => pc[u] = "idle" BY <1>1 DEF FreeAlone
<1>3. \A u \in Thread : ~InList(u) /\ ~Pending(u)
  BY <1>2 DEF InList, Pending, Freeing
<1>4. \A u \in Thread : u # t => node[u] = Null
  BY <1>2, <1>3 DEF Guarded
<1> QED BY <1>1, <1>2, <1>3, <1>4 DEF Listed

LEMMA FreeLockInv == ASSUME Inv, TypeOK', NEW t \in Thread, FreeLock(t) PROVE Inv'
<1> USE DEF Inv, ListInv
<1> DEFINE s == Sentinel(bucket[t])
<1>1. /\ pc[t] = "free_lock" /\ pc' = [pc EXCEPT ![t] = "free"] /\ node' = [node EXCEPT ![t] = s]
      /\ UNCHANGED <<map, live, value, next, op, arg, bucket>>
  BY DEF FreeLock, Goto, At, list
<1>2. Freeing(t) BY <1>1 DEF Freeing
<1>3. pc'[t] = "free" /\ node'[t] = s
  BY <1>1 DEF TypeOK
<1>4. \A u \in Thread : u # t => pc'[u] = "idle" /\ node'[u] = Null
  BY <1>1, <1>2, FreeingAlone DEF TypeOK
<1>5. \A u \in Thread : ~Pending(u) /\ ~Pending(u)' /\ ~InList(u)'
  BY <1>2, <1>3, <1>4, FreeingAlone DEF Pending, InList
<1>6. bucket[t] \in Bucket /\ s = bucket[t] /\ s \in live
  BY <1>1, Addresses DEF FreeAlone, TypeOK, Bucket
<1>7. \A a \in live : next[a] # s
  BY <1>6, Addresses DEF TypeOK
<1>8. Separate' /\ Acyclic'
  BY <1>1, <1>5, ListsAlone
<1>9. NoDangling'
  BY <1>1, <1>3, <1>4, <1>6 DEF NoDangling
<1>10. Guarded' /\ PendingApart'
  BY <1>3, <1>4, <1>5 DEF Guarded, PendingApart, InList
<1>11. FreeAlone'
  <2>1. map' = "freed" BY <1>1, <1>2, FreeingAlone
  <2>2. \A b \in Bucket : bucket[t] < b => Sentinel(b) \in live
    BY <1>1, <1>6 DEF FreeAlone, Bucket
  <2> QED BY <1>1, <1>3, <1>4, <1>6, <1>7, <2>1, <2>2 DEF FreeAlone, Freeing
<1> QED BY <1>8, <1>9, <1>10, <1>11

\* The node d is deleted: nothing that is left leads to it or to the node behind it.
LEMMA FreeNodeInv == ASSUME Inv, TypeOK', NEW t \in Thread, FreeNode(t) PROVE Inv'
<1> USE DEF Inv, ListInv
<1> DEFINE d == node[t]
<1>1. /\ pc[t] = "free" /\ d # Null /\ live' = live \ {d} /\ node' = [node EXCEPT ![t] = next[d]]
      /\ UNCHANGED <<map, owner, value, next, pc, op, arg, bucket>>
  BY DEF FreeNode, At
<1>2. Freeing(t) BY <1>1 DEF Freeing
<1>3. d \in live /\ d \in Addr /\ next[d] \in Heap \cup {Null}
  BY <1>1 DEF NoDangling, TypeOK
<1>4. /\ d \in Heap \cup {Sentinel(bucket[t])} /\ \A a \in live : next[a] # d
  BY <1>1 DEF FreeAlone
<1>5. node'[t] = next[d] /\ \A u \in Thread : u # t => pc'[u] = "idle" /\ node'[u] = Null
  BY <1>1, <1>2, FreeingAlone DEF TypeOK
<1>6. \A u \in Thread : ~Pending(u)' /\ ~InList(u)'
  BY <1>1, <1>2, FreeingAlone DEF Pending, InList
<1>7. NoDangling'
  BY <1>1, <1>3, <1>4, <1>5 DEF NoDangling
<1>8. Guarded' /\ PendingApart'
  BY <1>1, <1>5, <1>6 DEF Guarded, PendingApart, InList
<1>9. Separate'
  BY <1>1, <1>2, FreeingAlone DEF Separate, Listed, Home
<1>10. Acyclic'
  BY <1>1 DEF Acyclic, Falling
<1>11. FreeAlone'
  <2>1. map' = "freed" BY <1>1, <1>2, FreeingAlone
  <2>2. next[d] # Null => \A a \in live' : next[a] # next[d]
    BY <1>1, <1>2, <1>3, FreeingAlone DEF Separate, TypeOK
  <2>3. \A b \in Bucket : bucket[t] < b => Sentinel(b) \in live'
    <3> SUFFICES ASSUME NEW b \in Bucket, bucket[t] < b PROVE Sentinel(b) \in live /\ Sentinel(b) # d
      BY <1>1
    <3>1. bucket[t] \in Bucket /\ Sentinel(bucket[t]) # Sentinel(b)
      BY Addresses DEF TypeOK, Bucket
    <3> QED BY <3>1, <1>1, <1>4, Addresses DEF FreeAlone
  <2> QED BY <1>1, <1>3, <1>5, <2>1, <2>2, <2>3 DEF FreeAlone, Freeing
<1> QED BY <1>7, <1>8, <1>9, <1>10, <1>11

LEMMA FreeBucketEndInv == ASSUME Inv, TypeOK', NEW t \in Thread, FreeBucketEnd(t) PROVE Inv'
<1> USE DEF Inv, ListInv
<1>1. /\ pc[t] = "free" /\ node[t] = Null
      /\ UNCHANGED <<map, live, value, next, op, arg, node>>
  BY DEF FreeBucketEnd, list
<1>2. \/ pc' = [pc EXCEPT ![t] = "free_lock"] /\ bucket' = [bucket EXCEPT ![t] = bucket[t] + 1]
      \/ pc' = [pc EXCEPT ![t] = "freed"]
  BY DEF FreeBucketEnd, Goto
<1>3. Freeing(t) BY <1>1 DEF Freeing
<1>4. \/ pc'[t] = "free_lock" /\ bucket'[t] = bucket[t] + 1
      \/ pc'[t] = "freed"
  BY <1>2 DEF TypeOK
<1>5. \A u \in Thread : u # t => pc'[u] = "idle"
  BY <1>2, <1>3, FreeingAlone DEF TypeOK
<1>6. \A u \in Thread : node'[u] = Null /\ ~Pending(u) /\ ~Pending(u)' /\ ~InList(u)'
  BY <1>1, <1>3, <1>4, <1>5, FreeingAlone DEF Pending, InList
<1>7. Separate' /\ Acyclic'
  BY <1>1, <1>6, ListsAlone
<1>8. NoDangling'
  BY <1>1 DEF NoDangling
<1>9. Guarded' /\ PendingApart'
  BY <1>4, <1>5, <1>6 DEF Guarded, PendingApart, InList
<1>10. FreeAlone'
  <2>1. map' = "freed" BY <1>1, <1>3, FreeingAlone
  <2>2. \A b \in Bucket : bucket[t] + 1 <= b => Sentinel(b) \in live
    <3>1. \A b \in Bucket : bucket[t] + 1 <= b => bucket[t] < b
      BY BucketAssumption DEF TypeOK, Bucket
    <3> QED BY <3>1, <1>1 DEF FreeAlone
  <2> QED BY <1>1, <1>4, <1>5, <2>1, <2>2 DEF FreeAlone, Freeing
<1> QED BY <1>7, <1>8, <1>9, <1>10

-----------------------------------------------------------------------------
(* The invariant *)

LEMMA NextInv == Inv /\ [Next]_vars => Inv'
<1> SUFFICES ASSUME Inv, [Next]_vars PROVE Inv' OBVIOUS
<1>1. TypeOK' BY NextType
<1>2. ASSUME NEW t \in Thread, NEW k \in Key, insert_item(t, k) \/ remove_item(t, k) \/ lookup_item(t, k)
      PROVE  Inv'
  BY <1>1, <1>2, InvokeInv DEF insert_item, remove_item, lookup_item
<1>3. ASSUME NEW t \in Thread, print_hashmap(t) PROVE Inv'
  BY <1>1, <1>3, InvokeInv, AnyKeyInKey DEF print_hashmap
<1>4. ASSUME NEW t \in Thread, Lock(t) \/ Step(t) PROVE Inv'
  BY <1>1, <1>4, LockStepInv, QuietInv, InsertNewInv, InsertLinkInv, RemoveStepInv, FreeNodeInv,
     FreeBucketEndInv DEF Step
<1>5. ASSUME NEW t \in Thread, free_hashmap(t) \/ FreeLock(t) PROVE Inv'
  BY <1>1, <1>5, FreeHashmapInv, FreeLockInv
<1>6. CASE UNCHANGED vars
  BY <1>6, <1>1 DEF vars, Inv, NoDangling, ListInv, Acyclic, Falling, Guarded, InList, Index,
     PendingApart, Pending, Separate, Listed, Home, FreeAlone, Freeing
<1> QED
  BY <1>2, <1>3, <1>4, <1>5, <1>6 DEF Next, Gone

\* Calls of hashmap.cpp keep every variable in its type.
THEOREM TypeCorrect == Spec => []TypeOK
<1>1. Inv => TypeOK BY DEF Inv
<1> QED BY <1>1, InitInv, NextInv, PTL DEF Spec

\* However many threads call the map of hashmap.cpp, and whatever they call up to
\* and including free_hashmap: no thread stands on a deleted node, and no node
\* leads to one.
THEOREM NoDanglingHolds == Spec => []NoDangling
<1>1. Inv => NoDangling BY DEF Inv
<1> QED BY <1>1, InitInv, NextInv, PTL DEF Spec

\* The mutexes of hashmap.cpp suffice: whoever is on a node holds the mutex of its
\* bucket, lists stay in their bucket and never merge, and free_hashmap runs alone.
THEOREM ListInvHolds == Spec => []ListInv
<1>1. Inv => ListInv BY DEF Inv
<1> QED BY <1>1, InitInv, NextInv, PTL DEF Spec

-----------------------------------------------------------------------------
\* Whatever is in a list has something that leads to it, but for the node that
\* free_hashmap has come to.
Linked == \A a \in Heap : Listed(a) =>
  \/ \E c \in live : Listed(c) /\ next[c] = a
  \/ \E t \in Thread : pc[t] = "free" /\ node[t] = a

\* Nothing is left of the buckets free_hashmap is done with.
Emptied == \A t \in Thread :
  /\ pc[t] \in {"free_lock", "free"} => \A a \in live : bucket[t] <= Home(a)
  /\ pc[t] = "free" /\ node[t] \notin Bucket => Sentinel(bucket[t]) \notin live
  /\ pc[t] = "freed" => live = {}

\* Operation, answer and output of a call go with the place it has come to.
Phase(t) ==
  /\ op[t] # "none" <=> pc[t] \in {"lock", "new", "link", "walk", "ret"}
  /\ res[t] # "none" <=> pc[t] = "ret" /\ op[t] # "print"
  /\ op[t] # "print" /\ ~Freeing(t) => bucket[t] = 0
  /\ op[t] # "print" \/ pc[t] = "lock" => out[t] = <<>>
  /\ pc[t] = "walk" => op[t] # "insert"
Phases == \A t \in Thread : Phase(t)

-----------------------------------------------------------------------------
(* The last of finitely many nodes *)

Less == {p \in Nat \X Nat : p[1] < p[2]}

LEMMA SmallestExists ==
  ASSUME NEW S, S \subseteq Nat, S # {}
  PROVE  \E x \in S : \A y \in S : x <= y
<1>1. IsWellFoundedOn(Less, Nat)
  BY NatLessThanWellFounded DEF OpToRel, Less
<1>2. PICK x \in S : \A y \in S : ~ (<<y, x>> \in Less)
  BY <1>1, WFMin
<1>3. ASSUME NEW y \in S PROVE x <= y
  <2>1. x \in Nat /\ y \in Nat
    OBVIOUS
  <2>2. ~ (y < x)
    BY <1>2, <2>1 DEF Less
  <2> QED BY <2>1, <2>2
<1> QED BY <1>3

\* There are finitely many addresses, so numbers for them have an upper bound.
LEMMA NumbersBounded ==
  ASSUME NEW r \in [Addr -> Nat]
  PROVE  \E m \in Nat : \A a \in Addr : r[a] <= m
<1>1. PICK top \in Nat : Addr = 0 .. top
  <2>1. NBuckets + MaxNodes - 1 \in Nat /\ Addr = 0 .. NBuckets + MaxNodes - 1
    BY BucketAssumption, NodesAssumption DEF Addr, Bucket, Heap
  <2> QED BY <2>1
<1> DEFINE Bounds(n, m) == \A a \in 0 .. n : r[a] <= m
           Bounded(n) == \E m \in Nat : Bounds(n, m)
           U == {n \in 0 .. top : ~ Bounded(n)}
<1>2. \A a \in 0 .. top : r[a] \in Nat
  BY <1>1
<1>3. U = {}
  <2> SUFFICES ASSUME U # {} PROVE FALSE
    OBVIOUS
  <2>1. U \subseteq Nat
    OBVIOUS
  <2>2. PICK n \in U : \A k \in U : n <= k
    <3> HIDE DEF U
    <3> QED BY <2>1, SmallestExists
  <2>3. n \in 0 .. top /\ n \in Nat /\ ~ Bounded(n)
    OBVIOUS
  <2>4. CASE n = 0
    <3>1. Bounds(0, r[0]) /\ r[0] \in Nat
      BY <1>2, <2>3, <2>4
    <3> QED BY <2>3, <2>4, <3>1
  <2>5. CASE n > 0
    <3>1. Bounded(n - 1)
      <4>1. n - 1 \in 0 .. top /\ ~ (n <= n - 1)
        BY <2>3, <2>5
      <4> HIDE DEF Bounded
      <4> QED BY <2>2, <4>1
    <3>2. PICK m \in Nat : Bounds(n - 1, m)
      BY <3>1
    <3>3. PICK k \in Nat : r[n] <= k /\ m <= k
      <4>1. r[n] \in Nat
        BY <1>2, <2>3
      <4>2. r[n] <= m \/ m <= r[n]
        BY <4>1
      <4> QED BY <4>1, <4>2
    <3>4. \A a \in 0 .. n : r[a] <= k
      <4> SUFFICES ASSUME NEW a \in 0 .. n PROVE r[a] <= k
        OBVIOUS
      <4>1. CASE a = n
        BY <3>3, <4>1
      <4>2. CASE a # n
        <5>1. a \in 0 .. n - 1 /\ a \in 0 .. top
          BY <2>3, <4>2
        <5>2. r[a] <= m /\ r[a] \in Nat
          BY <1>2, <3>2, <5>1
        <5> QED BY <3>3, <5>2
      <4> QED BY <4>1, <4>2
    <3> QED BY <2>3, <3>4
  <2> QED BY <2>3, <2>4, <2>5
<1>4. Bounded(top)
  <2>1. top \in 0 .. top
    OBVIOUS
  <2> HIDE DEF Bounded
  <2> QED BY <1>3, <2>1
<1> QED BY <1>1, <1>4

LEMMA HighestExists ==
  ASSUME NEW r \in [Addr -> Nat], NEW T \in SUBSET Addr, T # {}
  PROVE  \E a \in T : \A c \in T : r[c] <= r[a]
<1>1. PICK m \in Nat : \A a \in Addr : r[a] <= m
  BY NumbersBounded
<1> DEFINE S == {m - r[a] : a \in T}
<1>2. S \subseteq Nat /\ S # {}
  BY <1>1
<1>3. PICK x \in S : \A y \in S : x <= y
  <2> HIDE DEF S
  <2> QED BY <1>2, SmallestExists
<1>4. PICK a \in T : x = m - r[a]
  OBVIOUS
<1>5. ASSUME NEW c \in T PROVE r[c] <= r[a]
  <2>1. m - r[c] \in S /\ r[c] \in Nat /\ r[a] \in Nat
    BY <1>4
  <2>2. m - r[a] <= m - r[c]
    BY <1>3, <1>4, <2>1
  <2> QED BY <2>1, <2>2
<1> QED BY <1>5

\* So a set of nodes in which each has a live one before it is empty.
LEMMA NoEndlessList ==
  ASSUME Inv, NEW T \in SUBSET live, \A a \in T : \E c \in T : next[c] = a
  PROVE  T = {}
<1> SUFFICES ASSUME T # {} PROVE FALSE
  OBVIOUS
<1>1. PICK r \in [Addr -> Nat] : Falling(r)
  BY DEF Inv, Acyclic
<1>2. T \in SUBSET Addr
  BY DEF Inv, TypeOK
<1>3. PICK a \in T : \A c \in T : r[c] <= r[a]
  BY <1>2, HighestExists
<1>4. PICK c \in T : next[c] = a
  OBVIOUS
<1>5. r[a] < r[c] /\ r[a] \in Nat /\ r[c] \in Nat /\ r[c] <= r[a]
  BY <1>1, <1>2, <1>3, <1>4, Addresses DEF Falling
<1> QED BY <1>5

-----------------------------------------------------------------------------
(* Phases *)

LEMMA InitPhases == Init => Phases
BY DEF Init, Phases, Phase, Freeing

LEMMA NextPhases == ASSUME Inv, Phases, [Next]_vars PROVE Phases'
<1> SUFFICES ASSUME NEW u \in Thread PROVE Phase(u)'
  BY DEF Phases
<1> USE DEF Inv, TypeOK, Phase, Freeing
<1>1. Phase(u)
  BY DEF Phases
<1>2. ASSUME NEW t \in Thread, NEW o \in {"insert", "remove", "lookup", "print"}, NEW k \in Key,
             Invoke(t, o, k)
      PROVE  Phase(u)'
  BY <1>1, <1>2 DEF Invoke, Goto, list
<1>3. ASSUME NEW t \in Thread, Lock(t) PROVE Phase(u)'
  <2>1. /\ pc[t] = "lock" /\ UNCHANGED <<op, bucket, res, out>>
        /\ \/ op[t] = "insert" /\ pc' = [pc EXCEPT ![t] = "new"]
           \/ op[t] # "insert" /\ pc' = [pc EXCEPT ![t] = "walk"]
    BY <1>3 DEF Lock, Goto
  <2> QED BY <1>1, <2>1
<1>4. ASSUME NEW t \in Thread, Return(t) PROVE Phase(u)'
  BY <1>1, <1>4 DEF Return, Goto, Settle
<1>5. ASSUME NEW t \in Thread, InsertNew(t) \/ InsertLink(t) PROVE Phase(u)'
  BY <1>1, <1>5 DEF InsertNew, InsertLink, Goto, Settle, ListInv, Guarded
<1>6. ASSUME NEW t \in Thread, RemoveStep(t) \/ LookupStep(t) PROVE Phase(u)'
  <2>1. /\ pc[t] = "walk" /\ op[t] \in {"remove", "lookup"} /\ UNCHANGED <<op, bucket, out>>
        /\ \/ UNCHANGED <<pc, res>>
           \/ pc' = [pc EXCEPT ![t] = "ret"] /\ res' = [res EXCEPT ![t] = "no"]
           \/ pc' = [pc EXCEPT ![t] = "ret"] /\ res' = [res EXCEPT ![t] = "yes"]
    BY <1>6 DEF RemoveStep, RemoveOutcome, LookupStep, Goto, Settle
  <2> QED BY <1>1, <2>1
<1>7. ASSUME NEW t \in Thread, PrintStep(t) PROVE Phase(u)'
  BY <1>1, <1>7 DEF PrintStep
<1>8. ASSUME NEW t \in Thread, PrintBucketEnd(t) PROVE Phase(u)'
  BY <1>1, <1>8 DEF PrintBucketEnd, Goto
<1>9. ASSUME NEW t \in Thread, free_hashmap(t) \/ FreeLock(t) \/ FreeNode(t) \/ FreeBucketEnd(t)
      PROVE  Phase(u)'
  BY <1>1, <1>9 DEF free_hashmap, FreeLock, FreeNode, FreeBucketEnd, Goto
<1>10. CASE UNCHANGED vars
  BY <1>1, <1>10 DEF vars
<1> QED
  BY <1>2, <1>3, <1>4, <1>5, <1>6, <1>7, <1>8, <1>9, <1>10, AnyKeyInKey
  DEF Next, Step, Gone, insert_item, remove_item, lookup_item, print_hashmap

-----------------------------------------------------------------------------
(* The lists from their sentinels on *)

LEMMA InitLinked == Init => Linked /\ Emptied
BY Addresses DEF Init, Linked, Emptied, Listed, Addr

\* Steps that leave the lists and the insertions in progress alone
Unlisted == /\ UNCHANGED <<live, value, next>>
            /\ \A t \in Thread : Pending(t)' <=> Pending(t)
            /\ \A t \in Thread : Pending(t) => node'[t] = node[t]

LEMMA SameLists ==
  ASSUME Inv, Unlisted
  PROVE  \A a : (Listed(a)' <=> Listed(a)) /\ Home(a)' = Home(a)
BY DEF Unlisted, Listed, Home

LEMMA QuietLinked ==
  ASSUME Inv, Linked, Unlisted, \A t \in Thread : pc[t] = "free" => pc'[t] = "free" /\ node'[t] = node[t]
  PROVE  Linked'
<1>1. \A a : Listed(a)' <=> Listed(a)
  BY SameLists
<1> QED BY <1>1 DEF Linked, Unlisted

\* The other steps of calls
LEMMA InsertNewLinked ==
  ASSUME Inv, Linked, NEW t \in Thread, InsertNew(t)
  PROVE  Linked' /\ \A a \in Heap : Listed(a)' <=> Listed(a)
<1> USE DEF Inv, TypeOK
<1>1. PICK b \in Heap \ live : /\ live' = live \cup {b}
                               /\ value' = [value EXCEPT ![b] = arg[t]]
                               /\ next' = [next EXCEPT ![b] = next[Sentinel(Index(t))]]
                               /\ node' = [node EXCEPT ![t] = b]
  BY DEF InsertNew, At
<1>2. pc[t] = "new" /\ pc' = [pc EXCEPT ![t] = "link"]
  BY DEF InsertNew, Goto
<1>3. \A a \in live : next'[a] = next[a]
  BY <1>1
<1>4. \A u \in Thread : u # t => pc'[u] = pc[u] /\ node'[u] = node[u]
  BY <1>1, <1>2
<1>5. pc'[t] = "link" /\ node'[t] = b
  BY <1>1, <1>2
<1>6. \A a : Listed(a)' <=> Listed(a)
  BY <1>1, <1>2, <1>4, <1>5 DEF Listed, Pending
<1>7. Linked'
  <2> SUFFICES ASSUME NEW a \in Heap, Listed(a) PROVE \E c \in live' : Listed(c)' /\ next'[c] = a
    BY <1>6 DEF Linked
  <2>1. \A u \in Thread : pc[u] # "free"
    BY <1>2 DEF ListInv, FreeAlone, Freeing
  <2>2. PICK c \in live : Listed(c) /\ next[c] = a
    BY <2>1 DEF Linked
  <2> QED BY <1>1, <1>3, <1>6, <2>2
<1> QED BY <1>6, <1>7

LEMMA InsertLinkLinked ==
  ASSUME Inv, Linked, NEW t \in Thread, InsertLink(t)
  PROVE  /\ Linked'
         /\ node[t] \in Heap /\ ~ Listed(node[t]) /\ Home(node[t]) = Index(t)
         /\ \A a \in Addr : Listed(a)' <=> Listed(a) \/ a = node[t]
<1> USE DEF Inv, TypeOK, ListInv
<1> DEFINE s == Sentinel(Index(t))
           n == node[t]
<1>1. /\ pc[t] = "link" /\ pc' = [pc EXCEPT ![t] = "ret"] /\ next' = [next EXCEPT ![s] = n]
      /\ UNCHANGED <<live, value, node>>
  BY DEF InsertLink, Goto
<1>2. map = "allocated" /\ Pending(t) /\ InList(t)
  BY <1>1 DEF FreeAlone, Freeing, Pending, InList
<1>3. /\ Index(t) \in Bucket /\ s = Index(t) /\ s \in live /\ s \in Addr /\ s \notin Heap
  BY <1>2, IndexType, Addresses DEF FreeAlone
<1>4. n \in Heap /\ n \in live /\ n \in Addr /\ n # Null /\ next[n] = next[s]
  BY <1>2, Addresses DEF PendingApart, NoDangling
<1>5. Home(n) = Index(t) /\ ~ Listed(n)
  BY <1>2, <1>4 DEF Guarded, Listed
<1>6. \A u \in Thread : Pending(u)' <=> Pending(u) /\ u # t
  BY <1>1 DEF Pending
<1>7. ASSUME NEW u \in Thread, Pending(u), u # t PROVE node[u] # n /\ node[u] \in Heap
  <2>1. Index(u) # Index(t) /\ InList(u)
    BY <1>2, <1>7, Apart DEF InList, Pending
  <2>2. node[u] \in Heap /\ node[u] # Null
    BY <1>7, Addresses DEF PendingApart
  <2> QED BY <1>5, <2>1, <2>2 DEF Guarded
<1>8. \A a \in Addr : Listed(a)' <=> Listed(a) \/ a = n
  BY <1>1, <1>4, <1>6, <1>7 DEF Listed, Pending
<1>9. Listed(s)
  BY <1>3, <1>4, <1>7 DEF Listed
<1>10. next'[s] = n /\ \A a \in Addr : a # s => next'[a] = next[a]
  BY <1>1, <1>3
<1>11. Linked'
  <2> SUFFICES ASSUME NEW a \in Heap, Listed(a)' PROVE \E c \in live' : Listed(c)' /\ next'[c] = a
    BY DEF Linked
  <2>1. CASE a = n
    BY <1>1, <1>3, <1>8, <1>9, <1>10, <2>1
  <2>2. CASE a # n
    <3>1. Listed(a)
      BY <1>8, <2>2, Addresses
    <3>2. PICK c \in live : Listed(c) /\ next[c] = a
      BY <1>2, <3>1 DEF Linked, FreeAlone, Freeing
    <3>3. CASE c = s
      BY <1>1, <1>3, <1>4, <1>8, <1>10, <3>2, <3>3
    <3>4. CASE c # s
      BY <1>1, <1>8, <1>10, <3>2, <3>4
    <3> QED BY <3>3, <3>4
  <2> QED BY <2>1, <2>2
<1> QED BY <1>4, <1>5, <1>8, <1>11

\* remove_item takes the node it deletes out of the list, and no other.
LEMMA RemoveLinked ==
  ASSUME Inv, Linked, NEW t \in Thread, RemoveStep(t), live' # live
  PROVE  LET n == next[node[t]] IN
         /\ Linked'
         /\ n \in Heap /\ Listed(n) /\ value[n] = arg[t] /\ Home(n) = Index(t) /\ node[t] # n
         /\ pc' = [pc EXCEPT ![t] = "ret"] /\ res' = [res EXCEPT ![t] = "yes"]
         /\ live' = live \ {n} /\ next' = [next EXCEPT ![node[t]] = next[n]]
         /\ Home(node[t]) = Index(t) /\ node[t] \in live
         /\ \A a \in Addr : Listed(a)' <=> Listed(a) /\ a # n
<1> USE DEF Inv, TypeOK, ListInv
<1> DEFINE p == node[t]
           n == next[p]
           m == next[n]
<1>1. /\ n # Null /\ value[n] = arg[t] /\ next' = [next EXCEPT ![p] = m] /\ live' = live \ {n}
      /\ node' = node /\ pc' = [pc EXCEPT ![t] = "ret"] /\ res' = [res EXCEPT ![t] = "yes"]
      /\ pc[t] = "walk" /\ op[t] = "remove"
  BY DEF RemoveStep, RemoveOutcome, Goto, Bypass, Settle
<1>2. map = "allocated" /\ InList(t)
  BY <1>1 DEF FreeAlone, Freeing, InList
<1>3. p \in live /\ p \in Addr /\ p # Null /\ Home(p) = Index(t)
  BY <1>1, <1>2 DEF Guarded, NoDangling
<1>4. n \in live /\ n \in Heap /\ n \in Addr /\ Home(n) = Index(t)
  BY <1>1, <1>3, Addresses DEF NoDangling, Separate
<1>5. \A a \in live : Home(a) = Index(t) => Listed(a)
  <2> SUFFICES ASSUME NEW a \in live, NEW u \in Thread, Pending(u), node[u] = a PROVE Home(a) # Index(t)
    BY DEF Listed
  <2>1. u # t /\ InList(u) /\ node[u] # Null
    BY <1>1, Addresses DEF Pending, InList, PendingApart
  <2> QED BY <1>2, <2>1, Apart DEF Guarded
<1>6. Listed(n) /\ Listed(p)
  BY <1>3, <1>4, <1>5
<1>7. p # n /\ m # n
  <2>1. PICK r \in [Addr -> Nat] : Falling(r)
    BY DEF Acyclic
  <2>2. r[n] < r[p] /\ r[n] \in Nat /\ r[p] \in Nat
    BY <1>1, <1>3, <1>4, <2>1 DEF Falling
  <2>3. m # Null => r[m] < r[n]
    BY <1>4, <2>1 DEF Falling
  <2> QED BY <1>1, <2>2, <2>3
<1>8. \A u \in Thread : Pending(u)' <=> Pending(u)
  BY <1>1 DEF Pending
<1>9. \A a \in Addr : Listed(a)' <=> Listed(a) /\ a # n
  BY <1>1, <1>8 DEF Listed
<1>10. next'[p] = m /\ \A a \in Addr : a # p => next'[a] = next[a]
  BY <1>1, <1>3
<1>11. Linked'
  <2> SUFFICES ASSUME NEW a \in Heap, Listed(a)' PROVE \E c \in live' : Listed(c)' /\ next'[c] = a
    BY DEF Linked
  <2>1. Listed(a) /\ a # n /\ a # Null
    BY <1>9, Addresses
  <2>2. PICK c \in live : Listed(c) /\ next[c] = a
    BY <1>2, <2>1 DEF Linked, FreeAlone, Freeing
  <2>3. CASE c = n
    BY <1>1, <1>3, <1>6, <1>7, <1>9, <1>10, <2>2, <2>3
  <2>4. CASE c # n
    BY <1>1, <1>9, <1>10, <2>1, <2>2, <2>4
  <2> QED BY <2>3, <2>4
<1> QED BY <1>1, <1>3, <1>4, <1>6, <1>7, <1>9, <1>11

\* free_hashmap
LEMMA FreeLinked ==
  ASSUME Inv, Linked, NEW t \in Thread, free_hashmap(t) \/ FreeLock(t) \/ FreeNode(t) \/ FreeBucketEnd(t)
  PROVE  Linked'
<1> USE DEF Inv, TypeOK, ListInv
<1>1. \A u \in Thread : ~ Pending(u) /\ ~ Pending(u)' /\ (u # t => pc[u] # "free")
  <2>1. CASE free_hashmap(t)
    BY <2>1 DEF free_hashmap, Goto, Pending
  <2>2. CASE ~ free_hashmap(t)
    <3>1. Freeing(t)
      BY <2>2 DEF FreeLock, FreeNode, FreeBucketEnd, Freeing
    <3> QED BY <2>2, <3>1, FreeingAlone DEF FreeLock, FreeNode, FreeBucketEnd, Goto, Pending
  <2> QED BY <2>1, <2>2
<1>2. CASE free_hashmap(t) \/ FreeLock(t)
  <2>1. Unlisted
    BY <1>1, <1>2 DEF Unlisted, free_hashmap, FreeLock, list
  <2>2. pc[t] # "free"
    BY <1>2 DEF free_hashmap, FreeLock
  <2> QED BY <1>1, <2>1, <2>2, QuietLinked
<1>3. CASE FreeBucketEnd(t)
  <2>1. Unlisted
    BY <1>1, <1>3 DEF Unlisted, FreeBucketEnd, list
  <2>2. \A u \in Thread : pc[u] = "free" => node[u] = Null
    BY <1>1, <1>3 DEF FreeBucketEnd
  <2>3. \A a : Listed(a)' <=> Listed(a)
    BY <2>1, SameLists
  <2> SUFFICES ASSUME NEW a \in Heap, Listed(a) PROVE \E c \in live' : Listed(c)' /\ next'[c] = a
    BY <2>3 DEF Linked
  <2>4. a # Null
    BY Addresses
  <2>5. \A u \in Thread : ~ (pc[u] = "free" /\ node[u] = a)
    BY <2>2, <2>4
  <2>6. PICK c \in live : Listed(c) /\ next[c] = a
    BY <2>5 DEF Linked
  <2> QED BY <2>1, <2>3, <2>6 DEF Unlisted
<1>4. CASE FreeNode(t)
  <2> DEFINE d == node[t]
  <2>1. /\ pc[t] = "free" /\ pc' = pc /\ d # Null /\ live' = live \ {d} /\ next' = next
        /\ node'[t] = next[d] /\ d \in live
    BY <1>4 DEF FreeNode, At, NoDangling
  <2>2. \A a : Listed(a)' <=> Listed(a) /\ a # d
    BY <1>1, <2>1 DEF Listed
  <2> SUFFICES ASSUME NEW a \in Heap, Listed(a), a # d
               PROVE  (\E c \in live' : Listed(c)' /\ next[c] = a) \/ node'[t] = a
    BY <2>1, <2>2 DEF Linked
  <2>3. PICK c \in live : Listed(c) /\ next[c] = a
    BY <1>1 DEF Linked
  <2> QED BY <2>1, <2>2, <2>3
<1> QED BY <1>2, <1>3, <1>4

\* The steps of calls that leave the lists alone
QuietStep(t) ==
  \/ \E o \in {"insert", "remove", "lookup", "print"}, k \in Key : Invoke(t, o, k)
  \/ Lock(t) \/ Return(t) \/ LookupStep(t) \/ PrintStep(t) \/ PrintBucketEnd(t)
  \/ RemoveStep(t) /\ live' = live

LEMMA QuietUnlisted ==
  ASSUME Inv, NEW t \in Thread, QuietStep(t)
  PROVE  /\ Unlisted /\ map' = map
         /\ pc[t] \in {"idle", "lock", "walk", "ret"}
         /\ \A u \in Thread : u # t => /\ pc'[u] = pc[u] /\ op'[u] = op[u] /\ arg'[u] = arg[u]
                                       /\ node'[u] = node[u] /\ bucket'[u] = bucket[u] /\ out'[u] = out[u]
<1> USE DEF Inv, TypeOK
<1>1. /\ pc[t] \in {"idle", "lock", "walk", "ret"} /\ pc'[t] # "link" /\ UNCHANGED <<map, live, value>>
      /\ \A u \in Thread : u # t => pc'[u] = pc[u] /\ node'[u] = node[u]
  BY DEF QuietStep, Invoke, Lock, Return, LookupStep, PrintStep, PrintBucketEnd, RemoveStep,
         RemoveOutcome, Goto, At, list
<1>2. \A u \in Thread : u # t => /\ op'[u] = op[u] /\ arg'[u] = arg[u] /\ bucket'[u] = bucket[u]
                                 /\ out'[u] = out[u]
  BY DEF QuietStep, Invoke, Lock, Return, LookupStep, PrintStep, PrintBucketEnd, RemoveStep,
         RemoveOutcome
<1>3. next' = next
  <2>1. CASE RemoveStep(t) /\ live' = live
    <3>1. node[t] \in live /\ next[node[t]] \in live \cup {Null}
      BY <2>1 DEF RemoveStep, RemoveOutcome, ListInv, Guarded, NoDangling
    <3> QED BY <2>1, <3>1 DEF RemoveStep, RemoveOutcome
  <2> QED BY <2>1 DEF QuietStep, Invoke, Lock, Return, LookupStep, PrintStep, PrintBucketEnd, list
<1> QED BY <1>1, <1>2, <1>3 DEF Unlisted, Pending

LEMMA Steps ==
  ASSUME [Next]_vars
  PROVE  \/ \E t \in Thread : \/ QuietStep(t) \/ InsertNew(t) \/ InsertLink(t)
                              \/ RemoveStep(t) /\ live' # live
                              \/ free_hashmap(t) \/ FreeLock(t) \/ FreeNode(t) \/ FreeBucketEnd(t)
         \/ UNCHANGED vars
BY AnyKeyInKey DEF Next, Step, Gone, insert_item, remove_item, lookup_item, print_hashmap, QuietStep

LEMMA NextLinked == ASSUME Inv, Linked, [Next]_vars PROVE Linked'
<1>1. ASSUME NEW t \in Thread, QuietStep(t) PROVE Linked'
  <2>1. \A u \in Thread : pc[u] = "free" => pc'[u] = "free" /\ node'[u] = node[u]
    BY <1>1, QuietUnlisted
  <2> QED BY <1>1, <2>1, QuietUnlisted, QuietLinked
<1>2. CASE UNCHANGED vars
  BY <1>2, QuietLinked DEF vars, Unlisted, Pending
<1> QED BY <1>1, <1>2, Steps, InsertNewLinked, InsertLinkLinked, RemoveLinked, FreeLinked

\* A bucket whose sentinel is gone is empty once free_hashmap has come to its end.
LEMMA NextEmptied == ASSUME Inv, Inv', Linked, Phases, Emptied, [Next]_vars PROVE Emptied'
<1> USE DEF Inv, TypeOK, ListInv
<1>1. CASE map' = "allocated"
  BY <1>1 DEF Emptied, FreeAlone, Freeing
<1>2. ASSUME NEW t \in Thread, free_hashmap(t) PROVE Emptied'
  <2>1. bucket[t] = 0 /\ live' = live /\ value' = value /\ bucket' = bucket
    BY <1>2 DEF free_hashmap, Phases, Phase, Freeing, list
  <2>2. pc'[t] = "free_lock" /\ \A u \in Thread : u # t => pc'[u] = "idle"
    BY <1>2 DEF free_hashmap, Goto
  <2>3. \A a \in live : Home(a)' = Home(a) /\ 0 <= Home(a)
    BY <2>1, HomeType DEF Home, Bucket
  <2> QED BY <2>1, <2>2, <2>3 DEF Emptied
<1>3. ASSUME NEW t \in Thread, FreeLock(t) PROVE Emptied'
  <2>1. /\ pc[t] = "free_lock" /\ pc'[t] = "free" /\ node'[t] = Sentinel(bucket[t])
        /\ UNCHANGED <<live, value, bucket>>
    BY <1>3 DEF FreeLock, Goto, At, list
  <2>2. \A u \in Thread : u # t => pc'[u] = "idle"
    BY <1>3, <2>1, FreeingAlone DEF FreeLock, Goto, Freeing
  <2>3. \A a \in live : Home(a)' = Home(a) /\ bucket[t] <= Home(a)
    BY <2>1 DEF Home, Emptied
  <2>4. Sentinel(bucket[t]) \in Bucket
    BY Addresses
  <2> QED BY <2>1, <2>2, <2>3, <2>4 DEF Emptied
<1>4. ASSUME NEW t \in Thread, FreeNode(t) PROVE Emptied'
  <2>1. /\ pc[t] = "free" /\ pc' = pc /\ node[t] # Null /\ live' = live \ {node[t]}
        /\ node[t] \in live /\ UNCHANGED <<value, bucket>>
    BY <1>4 DEF FreeNode, NoDangling
  <2>2. \A u \in Thread : u # t => pc'[u] = "idle"
    BY <2>1, FreeingAlone DEF Freeing
  <2>3. \A a \in live : Home(a)' = Home(a) /\ bucket[t] <= Home(a)
    BY <2>1 DEF Home, Emptied
  <2>4. Sentinel(bucket[t]) \notin live'
    <3>1. node[t] \in Bucket => node[t] = Sentinel(bucket[t])
      BY <2>1, Addresses DEF FreeAlone
    <3> QED BY <2>1, <3>1 DEF Emptied
  <2> QED BY <2>1, <2>2, <2>3, <2>4 DEF Emptied
<1>5. ASSUME NEW t \in Thread, FreeBucketEnd(t) PROVE Emptied'
  <2>1. /\ pc[t] = "free" /\ node[t] = Null /\ UNCHANGED <<live, value, node>>
        /\ \/ pc'[t] = "free_lock" /\ bucket'[t] = bucket[t] + 1
           \/ pc'[t] = "freed" /\ ~ (bucket[t] + 1 < NBuckets)
    BY <1>5 DEF FreeBucketEnd, Goto, list
  <2>2. \A u \in Thread : u # t => pc'[u] = "idle"
    BY <1>5, <2>1, FreeingAlone DEF FreeBucketEnd, Goto, Freeing
  <2>3. \A a \in live : Listed(a)
    BY <2>1, FreeingAlone DEF Freeing
  <2> DEFINE T == {a \in live : Home(a) = bucket[t]}
  <2>4. T = {}
    <3>1. ASSUME NEW a \in T PROVE \E c \in T : next[c] = a
      <4>1. a \in live /\ Home(a) = bucket[t] /\ a \in Addr /\ a # Null
        BY Addresses
      <4>2. a \notin Bucket
        BY <2>1, <4>1, Addresses DEF Emptied, Home
      <4>3. a \in Heap
        BY <4>1, <4>2 DEF Addr
      <4>4. PICK c \in live : next[c] = a
        <5>1. \A u \in Thread : u # t => pc[u] = "idle"
          BY <2>1, FreeingAlone DEF Freeing
        <5>2. \A u \in Thread : ~ (pc[u] = "free" /\ node[u] = a)
          BY <2>1, <4>1, <5>1
        <5> QED BY <2>3, <4>1, <4>3, <5>2 DEF Linked
      <4> QED BY <4>1, <4>4 DEF Separate
    <3> QED BY <3>1, NoEndlessList
  <2>5. \A a \in live : Home(a)' = Home(a) /\ Home(a) \in Bucket /\ bucket[t] <= Home(a) /\ Home(a) # bucket[t]
    BY <2>1, <2>4, HomeType DEF Home, Emptied
  <2>6. bucket[t] \in Nat /\ \A b \in Bucket : b \in Nat /\ b < NBuckets
    BY BucketAssumption DEF Bucket
  <2>7. \A a \in live : bucket[t] + 1 <= Home(a)
    BY <2>5, <2>6
  <2>8. CASE pc'[t] = "free_lock" /\ bucket'[t] = bucket[t] + 1
    BY <2>1, <2>2, <2>5, <2>7, <2>8 DEF Emptied
  <2>9. CASE pc'[t] = "freed" /\ ~ (bucket[t] + 1 < NBuckets)
    <3>1. live = {}
      BY <2>5, <2>6, <2>7, <2>9, BucketAssumption
    <3> QED BY <2>1, <2>2, <2>9, <3>1 DEF Emptied
  <2> QED BY <2>1, <2>8, <2>9
<1>6. CASE UNCHANGED vars
  BY <1>6 DEF vars, Emptied, Home
<1>7. ASSUME NEW t \in Thread,
             QuietStep(t) \/ InsertNew(t) \/ InsertLink(t) \/ (RemoveStep(t) /\ live' # live)
      PROVE  map' = "allocated"
  <2>1. map' = map /\ ((~ Freeing(t) /\ pc[t] # "idle") \/ map = "allocated")
    BY <1>7 DEF QuietStep, Lock, Return, InsertNew, InsertLink, RemoveStep, RemoveOutcome, LookupStep,
                PrintStep, PrintBucketEnd, Invoke, Freeing
  <2> QED BY <2>1 DEF FreeAlone
<1> QED BY <1>1, <1>2, <1>3, <1>4, <1>5, <1>6, <1>7, Steps

Base == Inv /\ Phases /\ Linked /\ Emptied

LEMMA BaseInvariant == Spec => []Base
<1>1. Init => Base
  BY InitInv, InitPhases, InitLinked DEF Base
<1>2. Base /\ [Next]_vars => Base'
  BY NextInv, NextPhases, NextLinked, NextEmptied DEF Base
<1> QED BY <1>1, <1>2, PTL DEF Spec

\* free_hashmap deletes every node and every sentinel: a node that nothing in its
\* bucket led to would be lost, and there is none (hashmap.cpp:50-64).
THEOREM EverythingFreed == Spec => []FreeReleasesAll
<1>1. Base => FreeReleasesAll
  BY DEF Base, Emptied, FreeReleasesAll
<1> QED BY <1>1, BaseInvariant, PTL

-----------------------------------------------------------------------------
(* What a call that goes through a list has yet to see *)

Members(b) == {a \in live : Home(a) = b}
Closed(S) == \A a \in S : next[a] # Null => next[a] \in S

\* Every copy of the value a call looks for is where the call can still get, along
\* the list from its node on: it is in any set of nodes of the bucket that has the
\* node of the call in it and is not left by following the list.
Searching(t) == pc[t] = "walk" /\ op[t] \in {"lookup", "remove"}
Ahead(t) == \A a \in Heap : Listed(a) /\ value[a] = arg[t] =>
  /\ \A S \in SUBSET Members(Index(t)) : Closed(S) /\ node[t] \in S \cup {Null} => a \in S
  /\ op[t] = "remove" => a # node[t]

\* What print_hashmap has printed is the bucket up to its node.
Printing(t) == pc[t] = "walk" /\ op[t] = "print"
Printed(t) == \E path \in [1 .. Len(out[t]) -> Heap] :
  /\ LeadsTo(bucket[t], path, Len(out[t]), node[t])
  /\ \A i \in 1 .. Len(out[t]) : path[i] \in Members(bucket[t]) /\ out[t][i] = value[path[i]]

\* lookup_item begins behind the sentinel.
BehindSentinel(t) == pc[t] = "walk" /\ op[t] = "lookup" => node[t] \in Heap \cup {Null}

OnTrack(t) == (Searching(t) => Ahead(t)) /\ (Printing(t) => Printed(t)) /\ BehindSentinel(t)

\* The call of u and the list it goes through stay as they are.
Steady(u) ==
  /\ pc'[u] = pc[u] /\ op'[u] = op[u] /\ arg'[u] = arg[u] /\ node'[u] = node[u]
  /\ bucket'[u] = bucket[u] /\ out'[u] = out[u]
  /\ \A a \in Addr : /\ (a \in live' /\ Home(a)' = Index(u)) <=> (a \in live /\ Home(a) = Index(u))
                     /\ a \in live /\ Home(a) = Index(u) =>
                          next'[a] = next[a] /\ value'[a] = value[a] /\ (Listed(a)' <=> Listed(a))

LEMMA SteadyOnTrack ==
  ASSUME Inv, Inv', NEW u \in Thread, pc[u] = "walk", OnTrack(u), Steady(u)
  PROVE  OnTrack(u)'
<1> USE DEF Inv, TypeOK, ListInv
<1>1. Index(u)' = Index(u) /\ Index(u) \in Bucket
  BY IndexType DEF Index, Steady
<1>2. Members(Index(u))' = Members(Index(u))
  BY <1>1 DEF Members, Steady
<1>3. ASSUME Searching(u)' PROVE Ahead(u)'
  <2>1. Searching(u) /\ Ahead(u) /\ Index(u) = getIndex(arg[u]) /\ arg'[u] = arg[u]
    BY <1>3 DEF OnTrack, Searching, Steady, Index
  <2> SUFFICES ASSUME NEW a \in Heap, Listed(a)', value'[a] = arg'[u]
               PROVE  /\ \A S \in SUBSET Members(Index(u)) :
                           Closed(S)' /\ node'[u] \in S \cup {Null} => a \in S
                      /\ op'[u] = "remove" => a # node'[u]
    BY <1>1, <1>2 DEF Ahead
  <2>2. a \in live' /\ Home(a)' = Index(u) /\ a \in Addr
    BY <2>1, Addresses DEF Listed, Home
  <2>3. a \in live /\ Home(a) = Index(u) /\ Listed(a) /\ value[a] = arg[u]
    BY <2>1, <2>2 DEF Steady
  <2>4. ASSUME NEW S \in SUBSET Members(Index(u)), Closed(S)' PROVE Closed(S)
    BY <2>4 DEF Closed, Members, Steady
  <2> QED BY <2>1, <2>3, <2>4 DEF Ahead, Steady
<1>4. ASSUME Printing(u)' PROVE Printed(u)'
  <2>1. Printing(u) /\ Printed(u) /\ Index(u) = bucket[u]
    BY <1>4 DEF OnTrack, Printing, Steady, Index
  <2>2. bucket'[u] = bucket[u] /\ out'[u] = out[u] /\ node'[u] = node[u]
    BY DEF Steady
  <2>3. PICK path \in [1 .. Len(out[u]) -> Heap] :
          /\ LeadsTo(bucket[u], path, Len(out[u]), node[u])
          /\ \A i \in 1 .. Len(out[u]) : path[i] \in Members(bucket[u]) /\ out[u][i] = value[path[i]]
    BY <2>1 DEF Printed
  <2>4. \A a \in Members(bucket[u]) : next'[a] = next[a] /\ value'[a] = value[a]
    BY <2>1 DEF Members, Steady
  <2>5. Sentinel(bucket[u]) \in Members(bucket[u])
    <3>1. map = "allocated"
      BY DEF FreeAlone, Freeing
    <3> QED BY <3>1, Addresses DEF Members, Home, FreeAlone
  <2>6. LeadsTo(bucket[u], path, Len(out[u]), node[u])'
    <3> DEFINE at(i) == IF i = 0 THEN Sentinel(bucket[u]) ELSE path[i]
    <3> SUFFICES ASSUME NEW i \in 0 .. Len(out[u])
                 PROVE  next'[at(i)] = IF i = Len(out[u]) THEN node[u] ELSE path[i + 1]
      BY <2>2 DEF LeadsTo
    <3>1. at(i) \in Members(bucket[u])
      BY <2>3, <2>5
    <3> QED BY <2>3, <2>4, <3>1 DEF LeadsTo
  <2>7. \A a \in Members(bucket[u]) : a \in Members(bucket[u])'
    BY <2>1, <2>2 DEF Members, Steady
  <2>8. \A i \in 1 .. Len(out'[u]) : path[i] \in Members(bucket[u])' /\ out'[u][i] = value'[path[i]]
    BY <2>2, <2>3, <2>4, <2>7
  <2> QED BY <2>2, <2>3, <2>6, <2>8 DEF Printed
<1>5. BehindSentinel(u)'
  BY DEF OnTrack, BehindSentinel, Steady
<1> QED BY <1>3, <1>4, <1>5 DEF OnTrack

\* Another thread is in another bucket, or leaves the lists alone.
LEMMA OthersSteady ==
  ASSUME Base, NEW t \in Thread, NEW u \in Thread, u # t, pc[u] = "walk",
         \/ QuietStep(t) \/ InsertNew(t) \/ InsertLink(t)
         \/ RemoveStep(t) /\ live' # live
         \/ free_hashmap(t) \/ FreeLock(t) \/ FreeNode(t) \/ FreeBucketEnd(t)
  PROVE  Steady(u)
<1> USE DEF Base, Inv, TypeOK, ListInv
<1>1. CASE QuietStep(t)
  <2>1. Unlisted /\ \A a : (Listed(a)' <=> Listed(a)) /\ Home(a)' = Home(a)
    BY <1>1, QuietUnlisted, SameLists
  <2>2. /\ pc'[u] = pc[u] /\ op'[u] = op[u] /\ arg'[u] = arg[u] /\ node'[u] = node[u]
        /\ bucket'[u] = bucket[u] /\ out'[u] = out[u]
    BY <1>1, QuietUnlisted
  <2> QED BY <2>1, <2>2 DEF Steady, Unlisted
<1>2. InList(t) => Index(u) # Index(t)
  BY Apart DEF InList
<1>3. CASE InsertNew(t)
  <2>1. PICK b \in Heap \ live : /\ live' = live \cup {b}
                                 /\ value' = [value EXCEPT ![b] = arg[t]]
                                 /\ next' = [next EXCEPT ![b] = next[Sentinel(Index(t))]]
    BY <1>3 DEF InsertNew
  <2>2. InList(t) /\ op[t] = "insert"
    BY <1>3 DEF InsertNew, InList, Guarded
  <2>3. b \in Addr /\ Home(b)' = Index(t)
    BY <2>1, <2>2, Addresses DEF Home, Index
  <2>4. \A a \in Addr : a # b => next'[a] = next[a] /\ value'[a] = value[a] /\ Home(a)' = Home(a)
    BY <2>1 DEF Home
  <2>5. \A a \in live : Listed(a)' <=> Listed(a)
    BY <1>3, InsertNewLinked, Addresses DEF InsertNew, Goto, At, Listed, Pending
  <2>6. /\ pc'[u] = pc[u] /\ op'[u] = op[u] /\ arg'[u] = arg[u] /\ node'[u] = node[u]
        /\ bucket'[u] = bucket[u] /\ out'[u] = out[u]
    BY <1>3 DEF InsertNew, Goto, At
  <2> QED BY <1>2, <2>1, <2>2, <2>3, <2>4, <2>5, <2>6 DEF Steady
<1>4. CASE InsertLink(t)
  <2>1. /\ InList(t) /\ UNCHANGED <<live, value>> /\ next' = [next EXCEPT ![Sentinel(Index(t))] = node[t]]
    BY <1>4 DEF InsertLink, InList
  <2>2. Sentinel(Index(t)) \in Bucket /\ Home(Sentinel(Index(t))) = Index(t)
    BY IndexType, Addresses DEF Home
  <2>3. /\ Home(node[t]) = Index(t)
        /\ \A a \in Addr : Listed(a)' <=> Listed(a) \/ a = node[t]
    BY <1>4, InsertLinkLinked
  <2>4. \A a \in Addr : Home(a)' = Home(a)
    BY <2>1 DEF Home
  <2>5. /\ pc'[u] = pc[u] /\ op'[u] = op[u] /\ arg'[u] = arg[u] /\ node'[u] = node[u]
        /\ bucket'[u] = bucket[u] /\ out'[u] = out[u]
    BY <1>4 DEF InsertLink, Goto
  <2> QED BY <1>2, <2>1, <2>2, <2>3, <2>4, <2>5 DEF Steady
<1>5. CASE RemoveStep(t) /\ live' # live
  <2> DEFINE n == next[node[t]]
  <2>1. /\ n \in Heap /\ Home(n) = Index(t) /\ live' = live \ {n}
        /\ next' = [next EXCEPT ![node[t]] = next[n]] /\ Home(node[t]) = Index(t)
        /\ \A a \in Addr : Listed(a)' <=> Listed(a) /\ a # n
    BY <1>5, RemoveLinked
  <2>2. InList(t) /\ value' = value
    BY <1>5 DEF RemoveStep, RemoveOutcome, InList
  <2>3. \A a \in Addr : Home(a)' = Home(a)
    BY <2>2 DEF Home
  <2>4. /\ pc'[u] = pc[u] /\ op'[u] = op[u] /\ arg'[u] = arg[u] /\ node'[u] = node[u]
        /\ bucket'[u] = bucket[u] /\ out'[u] = out[u]
    BY <1>5 DEF RemoveStep, RemoveOutcome, Goto, At
  <2> HIDE DEF n
  <2> QED BY <1>2, <2>1, <2>2, <2>3, <2>4 DEF Steady
<1>6. CASE free_hashmap(t) \/ FreeLock(t) \/ FreeNode(t) \/ FreeBucketEnd(t)
  <2>1. pc[u] = "idle" \/ Freeing(t)
    BY <1>6 DEF free_hashmap, FreeLock, FreeNode, FreeBucketEnd, Freeing
  <2> QED BY <2>1, FreeingAlone
<1> QED BY <1>1, <1>3, <1>4, <1>5, <1>6

\* A call that gets the mutex of its bucket has the whole bucket before it.
LEMMA LockOnTrack == ASSUME Base, NEW t \in Thread, Lock(t) PROVE OnTrack(t)'
<1> USE DEF Base, Inv, TypeOK, ListInv
<1> DEFINE b == Index(t)
<1>1. /\ pc[t] = "lock" /\ owner[b] = NoThread
      /\ UNCHANGED <<map, live, value, next, op, arg, bucket, res, out>>
  BY DEF Lock, list
<1>2. map = "allocated"
  BY <1>1 DEF FreeAlone, Freeing
<1>3. b \in Bucket /\ Sentinel(b) = b /\ b \in live /\ b \in Addr /\ Home(b) = b /\ Index(t)' = b
  BY <1>1, <1>2, IndexType, Addresses DEF FreeAlone, Home, Index
<1>4. Unlisted /\ \A a : (Listed(a)' <=> Listed(a)) /\ Home(a)' = Home(a)
  BY QuietUnlisted, SameLists DEF QuietStep
<1>5. ASSUME Printing(t)' PROVE Printed(t)'
  <2>1. op[t] = "print" /\ out[t] = <<>> /\ bucket[t] = b
    BY <1>1, <1>5 DEF Printing, Phases, Phase, Index
  <2>2. node'[t] = next[Sentinel(b)]
    BY <2>1 DEF Lock, At
  <2> DEFINE path == [i \in 1 .. 0 |-> 0]
  <2>3. Len(out'[t]) = 0 /\ path \in [1 .. Len(out'[t]) -> Heap]
    BY <1>1, <2>1
  <2>4. LeadsTo(bucket[t], path, 0, node[t])'
    BY <1>1, <2>1, <2>2 DEF LeadsTo
  <2>5. \A i \in 1 .. Len(out'[t]) : path[i] \in Members(bucket[t])' /\ out'[t][i] = value'[path[i]]
    BY <2>3
  <2> HIDE DEF path
  <2> QED BY <2>3, <2>4, <2>5 DEF Printed
<1>6. ASSUME Searching(t)' PROVE Ahead(t)'
  <2>1. op[t] \in {"lookup", "remove"} /\ b = getIndex(arg[t])
    BY <1>1, <1>6 DEF Searching, Index
  <2>2. \/ op[t] = "remove" /\ node'[t] = b
        \/ op[t] = "lookup" /\ node'[t] = next[b]
    BY <1>3, <2>1 DEF Lock, At
  <2>3. Members(b)' = Members(b)
    BY <1>1, <1>3, <1>4 DEF Members
  <2> SUFFICES ASSUME NEW a \in Heap, Listed(a), value[a] = arg[t]
               PROVE  /\ \A S \in SUBSET Members(b) : Closed(S)' /\ node'[t] \in S \cup {Null} => a \in S
                      /\ op'[t] = "remove" => a # node'[t]
    BY <1>1, <1>3, <1>4, <2>3 DEF Ahead
  <2>4. a \in Members(b) /\ a \notin Bucket
    BY <2>1, Addresses DEF Listed, Members, Home
  <2>5. ASSUME NEW S \in SUBSET Members(b), Closed(S), node'[t] \in S \cup {Null}, a \notin S PROVE FALSE
    <3>1. next[b] \in S \cup {Null}
      BY <1>3, <2>2, <2>5, Addresses DEF Closed
    <3> DEFINE T == {c \in Members(b) : c \in Heap /\ c \notin S}
    <3>2. ASSUME NEW c \in T PROVE \E d \in T : next[d] = c
      <4>1. c \in live /\ Home(c) = b /\ c \in Heap /\ c # Null
        BY Addresses DEF Members
      <4>2. Listed(c)
        <5>1. \A u \in Thread : InList(u) => Index(u) # b
          BY <1>1, ThreadAssumption DEF Guarded
        <5> QED BY <4>1, <5>1 DEF Listed, Pending, InList, Guarded
      <4>3. PICK d \in live : Listed(d) /\ next[d] = c
        BY <1>2, <4>1, <4>2 DEF Linked, FreeAlone, Freeing
      <4>4. Home(d) = b /\ d \in Addr
        BY <4>1, <4>3 DEF Separate
      <4>5. d # b
        BY <3>1, <3>2, <4>1, <4>3
      <4>6. d \notin Bucket
        BY <4>4, <4>5 DEF Home
      <4>7. d \notin S
        BY <2>5, <3>2, <4>1, <4>3 DEF Closed
      <4> QED BY <4>3, <4>4, <4>6, <4>7 DEF Members, Addr
    <3>3. T = {}
      BY <3>2, NoEndlessList DEF Members
    <3> QED BY <2>4, <2>5, <3>3
  <2>6. \A S : Closed(S)' <=> Closed(S)
    BY <1>1 DEF Closed
  <2> QED BY <1>1, <1>3, <2>2, <2>4, <2>5, <2>6
<1>7. BehindSentinel(t)'
  BY <1>1, <1>3 DEF Lock, At, BehindSentinel
<1> QED BY <1>5, <1>6, <1>7 DEF OnTrack

\* A call goes on to the next node because the value is not there.
LEMMA SearchOnTrack ==
  ASSUME Base, NEW t \in Thread, OnTrack(t), LookupStep(t) \/ RemoveStep(t)
  PROVE  OnTrack(t)'
<1> USE DEF Base, Inv, TypeOK, ListInv
<1>1. pc[t] = "walk" /\ op[t] \in {"lookup", "remove"} /\ UNCHANGED <<op, arg>>
  BY DEF LookupStep, RemoveStep, RemoveOutcome
<1>2. CASE pc'[t] # "walk"
  BY <1>2 DEF OnTrack, Searching, Printing, BehindSentinel
<1>3. CASE pc'[t] = "walk"
  <2> DEFINE n == node[t]
             b == Index(t)
  <2>1. /\ n # Null /\ pc' = pc /\ UNCHANGED <<live, value, next, bucket>>
        /\ node'[t] = next[n]
        /\ op[t] = "lookup" => value[n] # arg[t]
        /\ op[t] = "remove" => next[n] # Null /\ value[next[n]] # arg[t]
    BY <1>1, <1>3 DEF LookupStep, RemoveStep, RemoveOutcome, Goto, At, Guarded, list
  <2>2. n \in Members(b)
    BY <1>1, <2>1 DEF Members, Guarded, InList, NoDangling
  <2>3. Index(t)' = b /\ Members(b)' = Members(b)
    BY <1>1, <2>1 DEF Index, Members, Home
  <2>4. Unlisted /\ \A a : Listed(a)' <=> Listed(a)
    <3>1. QuietStep(t)
      BY <2>1 DEF QuietStep
    <3> QED BY <3>1, QuietUnlisted, SameLists
  <2>5. Ahead(t)
    BY <1>1 DEF OnTrack, Searching
  <2>a. BehindSentinel(t)'
    BY <2>1, <2>2 DEF Members, BehindSentinel
  <2> SUFFICES ASSUME NEW a \in Heap, Listed(a), value[a] = arg[t]
               PROVE  /\ \A S \in SUBSET Members(b) : Closed(S)' /\ node'[t] \in S \cup {Null} => a \in S
                      /\ op'[t] = "remove" => a # node'[t]
    BY <1>1, <2>1, <2>3, <2>4, <2>a DEF OnTrack, Searching, Printing, Ahead
  <2>6. a # n
    BY <1>1, <2>1, <2>5 DEF Ahead
  <2>7. ASSUME NEW S \in SUBSET Members(b), Closed(S), next[n] \in S \cup {Null} PROVE a \in S
    <3>1. S \cup {n} \in SUBSET Members(b) /\ Closed(S \cup {n})
      BY <2>2, <2>7 DEF Closed
    <3>2. a \in S \cup {n}
      BY <2>5, <3>1 DEF Ahead
    <3> QED BY <2>6, <3>2
  <2>8. \A S : Closed(S)' <=> Closed(S)
    BY <2>1 DEF Closed
  <2> QED BY <1>1, <2>1, <2>7, <2>8
<1> QED BY <1>2, <1>3

LEMMA PrintOnTrack ==
  ASSUME Base, NEW t \in Thread, OnTrack(t), PrintStep(t)
  PROVE  OnTrack(t)'
<1> USE DEF Base, Inv, TypeOK, ListInv
<1>a. PICK n \in Nat : n = Len(out[t])
  <2>1. out[t] \in Seq(Int)
    OBVIOUS
  <2> QED BY <2>1
<1>b. PICK b \in Bucket : b = bucket[t]
  OBVIOUS
<1>1. /\ pc[t] = "walk" /\ op[t] = "print" /\ node[t] # Null
      /\ out'[t] = Append(out[t], value[node[t]]) /\ node'[t] = next[node[t]]
      /\ UNCHANGED <<live, value, next, pc, op, bucket>>
  BY DEF PrintStep, At, list
<1>2. PICK path \in [1 .. n -> Heap] :
        /\ LeadsTo(b, path, n, node[t])
        /\ \A i \in 1 .. n : path[i] \in Members(b) /\ out[t][i] = value[path[i]]
  BY <1>1, <1>a, <1>b DEF OnTrack, Printing, Printed
<1>3. Len(out'[t]) = n + 1 /\ out'[t][n + 1] = value[node[t]]
      /\ \A i \in 1 .. n : out'[t][i] = out[t][i]
  <2>1. out[t] \in Seq(Int) /\ value[node[t]] \in Int
    BY <1>1
  <2> QED BY <1>1, <1>a, <2>1
<1>4. node[t] \in Members(b)
  BY <1>1, <1>b DEF Members, Guarded, InList, NoDangling, Index
<1>5. node[t] \in Heap
  <2> DEFINE last == IF n = 0 THEN Sentinel(b) ELSE path[n]
  <2>1. last \in Addr /\ next[last] = node[t]
    <3>1. CASE n = 0
      BY <1>2, <3>1, Addresses DEF LeadsTo
    <3>2. CASE n # 0
      <4>1. n \in 0 .. n /\ n \in 1 .. n
        BY <3>2
      <4>2. next[path[n]] = node[t]
        BY <1>2, <3>2, <4>1 DEF LeadsTo
      <4>3. path[n] \in Addr
        BY <1>2, <4>1, Addresses
      <4> QED BY <3>2, <4>2, <4>3
    <3> QED BY <3>1, <3>2
  <2> HIDE DEF last
  <2> QED BY <1>1, <2>1
<1>6. PICK new \in [1 .. n + 1 -> Heap] : new[n + 1] = node[t] /\ \A i \in 1 .. n : new[i] = path[i]
  <2> DEFINE longer == [i \in 1 .. n + 1 |-> IF i = n + 1 THEN node[t] ELSE path[i]]
  <2>1. longer \in [1 .. n + 1 -> Heap] /\ longer[n + 1] = node[t] /\ \A i \in 1 .. n : longer[i] = path[i]
    BY <1>2, <1>5
  <2> HIDE DEF longer
  <2> QED BY <2>1
<1>7. ASSUME NEW i \in 0 .. n + 1
      PROVE  next[IF i = 0 THEN Sentinel(b) ELSE new[i]] = IF i = n + 1 THEN node'[t] ELSE new[i + 1]
  <2>1. CASE i = n + 1
    BY <1>1, <1>3, <1>6, <2>1
  <2>2. CASE i = n
    <3>1. (IF i = 0 THEN Sentinel(b) ELSE new[i]) = IF i = 0 THEN Sentinel(b) ELSE path[i]
      BY <1>3, <1>6, <2>2
    <3>2. next[IF i = 0 THEN Sentinel(b) ELSE path[i]] = node[t]
      BY <1>2, <1>3, <2>2 DEF LeadsTo
    <3> QED BY <1>3, <1>6, <2>2, <3>1, <3>2
  <2>3. CASE i \in 0 .. n - 1
    <3>1. (IF i = 0 THEN Sentinel(b) ELSE new[i]) = IF i = 0 THEN Sentinel(b) ELSE path[i]
      BY <1>3, <1>6, <2>3
    <3>2. i \in 0 .. n /\ i # n /\ i + 1 \in 1 .. n /\ i # n + 1
      BY <1>3, <2>3
    <3>3. next[IF i = 0 THEN Sentinel(b) ELSE path[i]] = path[i + 1]
      BY <1>2, <3>2 DEF LeadsTo
    <3> QED BY <1>6, <3>1, <3>2, <3>3
  <2> QED BY <1>3, <2>1, <2>2, <2>3
<1>8. LeadsTo(bucket[t], new, Len(out[t]), node[t])'
  BY <1>1, <1>b, <1>3, <1>7 DEF LeadsTo
<1>9. \A i \in 1 .. n + 1 : new[i] \in Members(b)' /\ out'[t][i] = value'[new[i]]
  <2>1. Members(b)' = Members(b)
    BY <1>1 DEF Members, Home
  <2> SUFFICES ASSUME NEW i \in 1 .. n + 1 PROVE new[i] \in Members(b) /\ out'[t][i] = value[new[i]]
    BY <1>1, <2>1
  <2>2. i = n + 1 \/ i \in 1 .. n
    BY <1>3
  <2> QED BY <1>2, <1>3, <1>4, <1>6, <2>2
<1>10. Printed(t)'
  <2>1. bucket'[t] = b /\ new \in [1 .. Len(out'[t]) -> Heap]
    BY <1>1, <1>b, <1>3, <1>6
  <2>2. \A i \in 1 .. Len(out'[t]) : new[i] \in Members(bucket[t])' /\ out'[t][i] = value'[new[i]]
    BY <1>3, <1>9, <2>1 DEF Members
  <2> QED BY <1>8, <2>1, <2>2 DEF Printed
<1> QED BY <1>1, <1>10 DEF OnTrack, Searching, BehindSentinel

LEMMA NextOnTrack ==
  ASSUME Base, Base', \A t \in Thread : OnTrack(t), [Next]_vars
  PROVE  \A t \in Thread : OnTrack(t)'
<1> USE DEF Base, Inv, TypeOK
<1>1. CASE UNCHANGED vars
  <2> SUFFICES ASSUME NEW u \in Thread PROVE OnTrack(u)'
    OBVIOUS
  <2>1. Unlisted /\ UNCHANGED <<pc, op, arg, node, bucket, out>>
    BY <1>1 DEF vars, Unlisted, Pending
  <2>2. \A a : (Listed(a)' <=> Listed(a)) /\ Home(a)' = Home(a)
    BY <2>1, SameLists
  <2>3. Steady(u)
    BY <2>1, <2>2 DEF Steady, Unlisted
  <2>4. CASE pc[u] = "walk"
    BY <2>3, <2>4, SteadyOnTrack
  <2>5. CASE pc[u] # "walk"
    BY <2>1, <2>5 DEF OnTrack, Searching, Printing, BehindSentinel
  <2> QED BY <2>4, <2>5
<1>2. ASSUME NEW t \in Thread,
             \/ QuietStep(t) \/ InsertNew(t) \/ InsertLink(t)
             \/ RemoveStep(t) /\ live' # live
             \/ free_hashmap(t) \/ FreeLock(t) \/ FreeNode(t) \/ FreeBucketEnd(t)
      PROVE  \A u \in Thread : OnTrack(u)'
  <2> SUFFICES ASSUME NEW u \in Thread, pc'[u] = "walk" PROVE OnTrack(u)'
    BY DEF OnTrack, Searching, Printing, BehindSentinel
  <2>1. CASE u # t
    <3>1. pc'[u] = pc[u]
      <4>1. CASE QuietStep(t)
        BY <2>1, <4>1, QuietUnlisted
      <4>2. CASE ~ QuietStep(t)
        BY <1>2, <2>1, <4>2 DEF InsertNew, InsertLink, RemoveStep, RemoveOutcome, free_hashmap, FreeLock,
           FreeNode, FreeBucketEnd, Goto
      <4> QED BY <4>1, <4>2
    <3> QED BY <1>2, <2>1, <3>1, OthersSteady, SteadyOnTrack
  <2>2. CASE u = t
    <3>1. Lock(t) \/ LookupStep(t) \/ RemoveStep(t) \/ PrintStep(t)
      BY <1>2, <2>2 DEF QuietStep, Invoke, Return, PrintBucketEnd, InsertNew, InsertLink, free_hashmap,
         FreeLock, FreeNode, FreeBucketEnd, Goto
    <3> QED BY <2>2, <3>1, LockOnTrack, SearchOnTrack, PrintOnTrack
  <2> QED BY <2>1, <2>2
<1> QED BY <1>1, <1>2, Steps

\* The node of an insertion in progress has the value of the call.
Filled(t) == Pending(t) => value[node[t]] = arg[t]

LEMMA NextFilled ==
  ASSUME Base, Base', \A t \in Thread : Filled(t), [Next]_vars
  PROVE  \A t \in Thread : Filled(t)'
<1> USE DEF Base, Inv, TypeOK
<1> SUFFICES ASSUME NEW u \in Thread, pc'[u] = "link" PROVE value'[node'[u]] = arg'[u]
  BY DEF Filled, Pending
<1>1. CASE UNCHANGED vars
  BY <1>1 DEF vars, Filled, Pending
<1>2. ASSUME NEW t \in Thread, InsertNew(t) PROVE value'[node'[u]] = arg'[u]
  <2>1. PICK b \in Heap \ live : value' = [value EXCEPT ![b] = arg[t]] /\ node' = [node EXCEPT ![t] = b]
    BY <1>2 DEF InsertNew, At
  <2>2. arg' = arg /\ (u # t => pc[u] = "link" /\ node'[u] = node[u] /\ node[u] # b)
    BY <1>2, <2>1, Addresses DEF InsertNew, Goto, NoDangling
  <2>3. CASE u = t
    BY <2>1, <2>2, <2>3, Addresses
  <2>4. CASE u # t
    BY <2>1, <2>2, <2>4 DEF Filled, Pending
  <2> QED BY <2>3, <2>4
<1>3. ASSUME NEW t \in Thread, QuietStep(t) PROVE value'[node'[u]] = arg'[u]
  <2>1. Unlisted /\ pc[t] # "link" /\ (u # t => arg'[u] = arg[u])
    BY <1>3, QuietUnlisted
  <2> QED BY <2>1 DEF Unlisted, Pending, Filled
<1>4. ASSUME NEW t \in Thread, InsertLink(t) PROVE value'[node'[u]] = arg'[u]
  BY <1>4 DEF InsertLink, Goto, Filled, Pending
<1>5. ASSUME NEW t \in Thread, RemoveStep(t) PROVE value'[node'[u]] = arg'[u]
  BY <1>5 DEF RemoveStep, RemoveOutcome, Goto, At, Filled, Pending
<1>6. ASSUME NEW t \in Thread, free_hashmap(t) \/ FreeLock(t) \/ FreeNode(t) \/ FreeBucketEnd(t)
      PROVE  value'[node'[u]] = arg'[u]
  BY <1>6 DEF free_hashmap, FreeLock, FreeNode, FreeBucketEnd, Goto, At, list, Filled, Pending
<1> QED BY <1>1, <1>2, <1>3, <1>4, <1>5, <1>6, Steps

Tracked == Base /\ \A t \in Thread : OnTrack(t) /\ Filled(t)

LEMMA TrackedInvariant == Spec => []Tracked
<1>1. Init => Tracked
  BY InitInv, InitPhases, InitLinked DEF Base, Tracked, Init, OnTrack, Searching, Printing, BehindSentinel,
     Filled, Pending
<1>2. Tracked /\ [Next]_vars => Tracked'
  <2> SUFFICES ASSUME Tracked, [Next]_vars PROVE Tracked'
    OBVIOUS
  <2>1. Base'
    BY NextInv, NextPhases, NextLinked, NextEmptied DEF Base, Tracked
  <2> QED BY <2>1, NextOnTrack, NextFilled DEF Tracked
<1> QED BY <1>1, <1>2, PTL DEF Spec

\* When print_hashmap has come to the end of a bucket, what it has printed of it is
\* the bucket as it is then, however many threads wait to change it
\* (hashmap.cpp:124-136).
THEOREM PrintsSnapshots == Spec => []PrintIsSnapshot
<1>1. Tracked => PrintIsSnapshot
  <2> SUFFICES ASSUME Tracked, NEW t \in Thread, pc[t] = "walk", op[t] = "print", node[t] = Null
               PROVE  \E path \in [1 .. Len(out[t]) -> Heap] :
                        /\ LeadsTo(bucket[t], path, Len(out[t]), Null)
                        /\ \A i \in 1 .. Len(out[t]) : out[t][i] = value[path[i]]
    BY DEF PrintIsSnapshot
  <2>1. Printed(t)
    BY DEF Tracked, OnTrack, Printing
  <2> QED BY <2>1 DEF Printed
<1> QED BY <1>1, TrackedInvariant, PTL

-----------------------------------------------------------------------------
(* The bag the lists stand for *)

LEMMA CopiesFinite ==
  ASSUME NEW k
  PROVE  /\ IsFiniteSet(Copies(k)) /\ Cardinality(Copies(k)) \in Nat
         /\ Cardinality(Copies(k)) = 0 <=> Copies(k) = {}
<1>1. IsFiniteSet(Heap)
  BY BucketAssumption, NodesAssumption, FS_Interval DEF Heap
<1>2. Copies(k) \subseteq Heap
  BY DEF Copies
<1>3. IsFiniteSet(Copies(k))
  BY <1>1, <1>2, FS_Subset
<1> QED BY <1>3, FS_CardinalityType, FS_EmptySet

Count == [k \in Key |-> IF map = "freed" THEN 0 ELSE Cardinality(Copies(k))]
Call == [t \in Thread |-> IF op[t] \in {"none", "print"} THEN <<>> ELSE <<op[t], arg[t]>>]

\* The bag stays as it is when the same nodes are in the lists.
LEMMA SameCount ==
  ASSUME map' = map, \A a \in Heap : (Listed(a)' <=> Listed(a)) /\ (Listed(a) => value'[a] = value[a])
  PROVE  Count' = Count
<1>1. ASSUME NEW k \in Key PROVE Copies(k)' = Copies(k)
  BY DEF Copies
<1> QED BY <1>1 DEF Count

LEMMA QuietCount == ASSUME Base, NEW t \in Thread, QuietStep(t) PROVE Count' = Count
<1>1. Unlisted /\ map' = map
  BY QuietUnlisted DEF Base
<1>2. \A a : Listed(a)' <=> Listed(a)
  BY <1>1, SameLists DEF Base
<1> QED BY <1>1, <1>2, SameCount DEF Unlisted

\* A call in progress has the whole map to itself and those like it.
LEMMA InCall ==
  ASSUME Base, NEW t \in Thread, pc[t] \in {"lock", "new", "link", "walk", "ret"}
  PROVE  map = "allocated" /\ arg[t] \in Key /\ Count[arg[t]] = Cardinality(Copies(arg[t]))
<1>1. map = "allocated" /\ arg[t] \in Key
  BY DEF Base, Inv, TypeOK, ListInv, FreeAlone, Freeing
<1> QED BY <1>1 DEF Count

\* A call that changes neither its operation nor its answer is seen as nothing.
LEMMA SilentStep ==
  ASSUME Count' = Count, UNCHANGED <<op, arg, res>>
  PROVE  UNCHANGED Abstract!bvars
BY DEF Abstract!bvars, Count, Call

\* The operations of the bag in terms of the map
LEMMA BagOperations ==
  ASSUME NEW t \in Thread, NEW k \in Key, res[t] = "none", Call' = Call
  PROVE  /\ /\ Call[t] = <<"lookup", k>>
            /\ res' = [res EXCEPT ![t] = IF Count[k] > 0 THEN "yes" ELSE "no"]
            /\ Count' = Count
            => Abstract!Next
         /\ /\ Call[t] = <<"insert", k>> /\ res' = [res EXCEPT ![t] = "yes"]
            /\ Count' = [Count EXCEPT ![k] = @ + 1]
            => Abstract!Next
         /\ /\ Call[t] = <<"remove", k>> /\ Count[k] > 0 /\ res' = [res EXCEPT ![t] = "yes"]
            /\ Count' = [Count EXCEPT ![k] = @ - 1]
            => Abstract!Next
         /\ /\ Call[t] = <<"remove", k>> /\ ~ (Count[k] > 0) /\ res' = [res EXCEPT ![t] = "no"]
            /\ Count' = Count
            => Abstract!Next
<1>1. Call[t] = <<"lookup", k>> /\ res' = [res EXCEPT ![t] = IF Count[k] > 0 THEN "yes" ELSE "no"]
      /\ Count' = Count => Abstract!Lookup(t, k)
  BY DEF Abstract!Lookup, Abstract!Settle, Count, Call
<1>2. Call[t] = <<"insert", k>> /\ res' = [res EXCEPT ![t] = "yes"] /\ Count' = [Count EXCEPT ![k] = @ + 1]
      => Abstract!Insert(t, k)
  BY DEF Abstract!Insert, Abstract!Settle, Count, Call
<1>3. Call[t] = <<"remove", k>> /\ Count[k] > 0 /\ res' = [res EXCEPT ![t] = "yes"]
      /\ Count' = [Count EXCEPT ![k] = @ - 1] => Abstract!Remove(t, k)
  BY DEF Abstract!Remove, Abstract!Settle, Count, Call
<1>4. Call[t] = <<"remove", k>> /\ ~ (Count[k] > 0) /\ res' = [res EXCEPT ![t] = "no"] /\ Count' = Count
      => Abstract!Remove(t, k)
  BY DEF Abstract!Remove, Abstract!Settle, Count, Call
<1> QED BY <1>1, <1>2, <1>3, <1>4 DEF Abstract!Next

LEMMA LookupAtomic ==
  ASSUME Tracked, NEW t \in Thread, LookupStep(t)
  PROVE  Abstract!Next \/ UNCHANGED Abstract!bvars
<1> USE DEF Tracked, Base, Inv, TypeOK
<1> DEFINE k == arg[t]
<1>1. pc[t] = "walk" /\ op[t] = "lookup" /\ UNCHANGED <<op, arg>> /\ res[t] = "none"
  BY DEF LookupStep, Phases, Phase
<1>2. Count' = Count /\ Call' = Call
  BY <1>1, QuietCount DEF QuietStep, Call
<1>3. k \in Key /\ Count[k] = Cardinality(Copies(k)) /\ Call[t] = <<"lookup", k>>
  BY <1>1, InCall DEF Call
<1>4. CASE node[t] = Null
  <2>1. Copies(k) = {}
    <3> SUFFICES ASSUME NEW a \in Copies(k) PROVE FALSE
      OBVIOUS
    <3>1. Ahead(t) /\ a \in Heap /\ Listed(a) /\ value[a] = k
      BY <1>1 DEF OnTrack, Searching, Copies
    <3>2. Closed({}) /\ {} \in SUBSET Members(Index(t)) /\ node[t] \in {} \cup {Null}
      BY <1>4 DEF Closed
    <3> QED BY <3>1, <3>2 DEF Ahead
  <2>2. res' = [res EXCEPT ![t] = "no"] /\ Count[k] = 0
    BY <1>3, <1>4, <2>1, CopiesFinite DEF LookupStep, Settle
  <2>3. (IF Count[k] > 0 THEN "yes" ELSE "no") = "no"
    BY <2>2
  <2> QED BY <1>1, <1>2, <1>3, <2>2, <2>3, BagOperations
<1>5. CASE node[t] # Null /\ value[node[t]] = k
  <2>1. node[t] \in Heap /\ node[t] \in live /\ Home(node[t]) = Index(t)
    BY <1>1, <1>5 DEF OnTrack, BehindSentinel, NoDangling, ListInv, Guarded, InList
  <2>2. Listed(node[t])
    <3> SUFFICES ASSUME NEW u \in Thread, Pending(u), node[u] = node[t] PROVE FALSE
      BY <2>1 DEF Listed
    <3>1. u # t /\ InList(u) /\ InList(t) /\ Home(node[u]) = Index(u)
      BY <1>1, <1>5 DEF Pending, InList, ListInv, Guarded
    <3> QED BY <2>1, <3>1, Apart
  <2>3. node[t] \in Copies(k)
    BY <1>5, <2>1, <2>2 DEF Copies
  <2>4. res' = [res EXCEPT ![t] = "yes"] /\ Count[k] > 0
    BY <1>3, <1>5, <2>3, CopiesFinite DEF LookupStep, Settle
  <2> QED BY <1>1, <1>2, <1>3, <2>4, BagOperations
<1>6. CASE node[t] # Null /\ value[node[t]] # k
  BY <1>1, <1>2, <1>6, SilentStep DEF LookupStep
<1> QED BY <1>4, <1>5, <1>6

LEMMA RemoveAtomic ==
  ASSUME Tracked, NEW t \in Thread, RemoveStep(t)
  PROVE  Abstract!Next \/ UNCHANGED Abstract!bvars
<1> USE DEF Tracked, Base, Inv, TypeOK
<1> DEFINE k == arg[t]
           n == next[node[t]]
<1>1. pc[t] = "walk" /\ op[t] = "remove" /\ UNCHANGED <<map, value, op, arg>> /\ res[t] = "none"
  BY DEF RemoveStep, RemoveOutcome, Phases, Phase
<1>2. Call' = Call /\ k \in Key /\ Count[k] = Cardinality(Copies(k)) /\ Call[t] = <<"remove", k>>
  BY <1>1, InCall DEF Call
<1>3. node[t] \in live /\ Home(node[t]) = Index(t) /\ map = "allocated"
  BY <1>1, InCall DEF NoDangling, ListInv, Guarded, InList
<1>4. CASE n = Null
  <2>1. Copies(k) = {}
    <3> SUFFICES ASSUME NEW a \in Copies(k) PROVE FALSE
      OBVIOUS
    <3>1. Ahead(t) /\ a \in Heap /\ Listed(a) /\ value[a] = k
      BY <1>1 DEF OnTrack, Searching, Copies
    <3>2. Closed({node[t]}) /\ {node[t]} \in SUBSET Members(Index(t))
      BY <1>3, <1>4 DEF Closed, Members
    <3> QED BY <1>1, <3>1, <3>2 DEF Ahead
  <2>a. Count[k] = 0
    BY <1>2, <2>1, CopiesFinite
  <2>2. res' = [res EXCEPT ![t] = "no"] /\ ~ (Count[k] > 0) /\ live' = live
    BY <1>4, <2>a DEF RemoveStep, RemoveOutcome, Settle
  <2>3. Count' = Count
    BY <2>2, QuietCount DEF QuietStep
  <2> QED BY <1>1, <1>2, <2>2, <2>3, BagOperations
<1>5. CASE n # Null /\ value[n] = k
  <2>1. live' # live
    <3>1. n \in live
      BY <1>3, <1>5 DEF NoDangling
    <3> QED BY <1>5, <3>1 DEF RemoveStep, RemoveOutcome
  <2>2. /\ n \in Heap /\ Listed(n) /\ res' = [res EXCEPT ![t] = "yes"]
        /\ \A a \in Addr : Listed(a)' <=> Listed(a) /\ a # n
    BY <2>1, RemoveLinked
  <2> HIDE DEF n
  <2>3. n \in Copies(k) /\ Copies(k)' = Copies(k) \ {n}
    BY <1>1, <1>5, <2>2, Addresses DEF Copies
  <2>4. \A j \in Key : j # k => Copies(j)' = Copies(j)
    BY <1>1, <1>5, <2>2, Addresses DEF Copies
  <2>5. Cardinality(Copies(k) \ {n}) = Cardinality(Copies(k)) - 1
    BY <2>3, CopiesFinite, FS_RemoveElement
  <2>6. Count[k] > 0
    BY <1>2, <2>3, CopiesFinite
  <2>7. Count' = [Count EXCEPT ![k] = @ - 1]
    BY <1>1, <1>2, <1>3, <2>3, <2>4, <2>5 DEF Count
  <2> QED BY <1>1, <1>2, <2>2, <2>6, <2>7, BagOperations
<1>6. CASE n # Null /\ value[n] # k
  <2>1. live' = live /\ res' = res
    BY <1>6 DEF RemoveStep, RemoveOutcome
  <2>2. Count' = Count
    BY <2>1, QuietCount DEF QuietStep
  <2> QED BY <1>1, <2>1, <2>2, SilentStep
<1> QED BY <1>4, <1>5, <1>6

LEMMA InsertAtomic ==
  ASSUME Tracked, NEW t \in Thread, InsertNew(t) \/ InsertLink(t)
  PROVE  Abstract!Next \/ UNCHANGED Abstract!bvars
<1> USE DEF Tracked, Base, Inv, TypeOK
<1>1. CASE InsertNew(t)
  <2>1. PICK b \in Heap \ live : value' = [value EXCEPT ![b] = arg[t]]
    BY <1>1 DEF InsertNew
  <2>2. \A a \in Heap : Listed(a)' <=> Listed(a)
    BY <1>1, InsertNewLinked
  <2>3. \A a \in Heap : Listed(a) => value'[a] = value[a]
    BY <2>1, Addresses DEF Listed
  <2>4. UNCHANGED <<map, op, arg, res>>
    BY <1>1 DEF InsertNew
  <2> QED BY <2>2, <2>3, <2>4, SameCount, SilentStep
<1>2. CASE InsertLink(t)
  <2> DEFINE k == arg[t]
             n == node[t]
  <2>1. /\ pc[t] = "link" /\ op[t] = "insert" /\ UNCHANGED <<map, value, op, arg>>
        /\ res' = [res EXCEPT ![t] = "yes"] /\ res[t] = "none"
    BY <1>2 DEF InsertLink, Settle, Phases, Phase, ListInv, Guarded
  <2>2. Call' = Call /\ k \in Key /\ map = "allocated" /\ Call[t] = <<"insert", k>>
    BY <2>1, InCall DEF Call
  <2>3. /\ n \in Heap /\ ~ Listed(n) /\ \A a \in Addr : Listed(a)' <=> Listed(a) \/ a = n
    BY <1>2, InsertLinkLinked
  <2>4. value[n] = k
    BY <2>1 DEF Filled, Pending
  <2> HIDE DEF n
  <2>5. n \notin Copies(k) /\ Copies(k)' = Copies(k) \cup {n}
    BY <2>1, <2>3, <2>4, Addresses DEF Copies
  <2>6. \A j \in Key : j # k => Copies(j)' = Copies(j)
    BY <2>1, <2>3, <2>4, Addresses DEF Copies
  <2>7. Cardinality(Copies(k) \cup {n}) = Cardinality(Copies(k)) + 1
    BY <2>5, CopiesFinite, FS_AddElement
  <2>8. Count' = [Count EXCEPT ![k] = @ + 1]
    BY <2>1, <2>2, <2>5, <2>6, <2>7 DEF Count
  <2> QED BY <2>1, <2>2, <2>8, BagOperations
<1> QED BY <1>1, <1>2

LEMMA InvokeAtomic ==
  ASSUME Tracked, NEW t \in Thread, NEW o \in {"insert", "remove", "lookup", "print"}, NEW k \in Key,
         Invoke(t, o, k)
  PROVE  Abstract!Next \/ UNCHANGED Abstract!bvars
<1> USE DEF Tracked, Base, Inv, TypeOK
<1>1. op[t] = "none" /\ op' = [op EXCEPT ![t] = o] /\ arg' = [arg EXCEPT ![t] = k] /\ res' = res
  BY DEF Invoke, Phases, Phase
<1>2. Count' = Count
  BY QuietCount DEF QuietStep
<1>3. CASE o = "print"
  <2>1. Call' = Call
    BY <1>1, <1>3 DEF Call
  <2> QED BY <1>1, <1>2, <2>1 DEF Abstract!bvars, Count, Call
<1>4. CASE o # "print"
  <2>1. Call[t] = <<>> /\ Call' = [Call EXCEPT ![t] = <<o, k>>]
    BY <1>1, <1>4 DEF Call
  <2>2. Abstract!Invoke(t, o, k)
    BY <1>1, <1>2, <2>1 DEF Abstract!Invoke, Abstract!NoCall, Count, Call
  <2> QED BY <1>4, <2>2 DEF Abstract!Next
<1> QED BY <1>3, <1>4

LEMMA ReturnAtomic ==
  ASSUME Tracked, NEW t \in Thread, Return(t)
  PROVE  Abstract!Next \/ UNCHANGED Abstract!bvars
<1> USE DEF Tracked, Base, Inv, TypeOK
<1>1. /\ op' = [op EXCEPT ![t] = "none"] /\ arg' = [arg EXCEPT ![t] = AnyKey]
      /\ res' = [res EXCEPT ![t] = "none"]
      /\ op[t] = "print" <=> res[t] = "none"
  BY DEF Return, Settle, Phases, Phase
<1>2. Count' = Count
  BY QuietCount DEF QuietStep
<1>3. Call' = [Call EXCEPT ![t] = <<>>]
  BY <1>1 DEF Call
<1>4. CASE op[t] = "print"
  <2>1. Call' = Call /\ res' = res
    BY <1>1, <1>4 DEF Call
  <2> QED BY <1>2, <2>1 DEF Abstract!bvars, Count, Call
<1>5. CASE op[t] # "print"
  <2>1. Abstract!Return(t)
    BY <1>1, <1>2, <1>3, <1>5 DEF Abstract!Return, Abstract!NoCall, Count, Call
  <2> QED BY <2>1 DEF Abstract!Next
<1> QED BY <1>4, <1>5

LEMMA FreeAtomic ==
  ASSUME Tracked, NEW t \in Thread, free_hashmap(t) \/ FreeLock(t) \/ FreeNode(t) \/ FreeBucketEnd(t)
  PROVE  Abstract!Next \/ UNCHANGED Abstract!bvars
<1> USE DEF Tracked, Base, Inv, TypeOK
<1>1. UNCHANGED <<op, arg, res>> /\ Call' = Call
  BY DEF free_hashmap, FreeLock, FreeNode, FreeBucketEnd, Call
<1>2. CASE free_hashmap(t)
  <2>1. map' = "freed" /\ \A u \in Thread : op[u] = "none"
    BY <1>2 DEF free_hashmap, Phases, Phase
  <2>2. Count' = [k \in Key |-> 0] /\ \A u \in Thread : Call[u] = <<>>
    BY <2>1 DEF Count, Call
  <2>3. Abstract!Free
    BY <1>1, <2>2 DEF Abstract!Free, Abstract!NoCall, Count, Call
  <2> QED BY <2>3 DEF Abstract!Next
<1>3. CASE ~ free_hashmap(t)
  <2>1. Freeing(t) /\ map' = map
    BY <1>3 DEF FreeLock, FreeNode, FreeBucketEnd, Freeing
  <2>2. map = "freed"
    BY <2>1, FreeingAlone
  <2>3. Count' = Count
    BY <2>1, <2>2 DEF Count
  <2> QED BY <1>1, <2>3, SilentStep
<1> QED BY <1>2, <1>3

\* Linearizability of the lock-based map, for any number of threads: insert_item takes
\* effect when it links its node, remove_item when it bypasses the node or finds the
\* end of the list, lookup_item when it finds the value or the end, and each answers
\* what the bag held at that moment (hashmap.cpp:66-122).
THEOREM ImplementsBag == Spec => AtomicBag
<1>1. Init => Abstract!Init
  <2> SUFFICES ASSUME Init PROVE Abstract!Init
    OBVIOUS
  <2>1. map = "allocated" /\ \A k \in Key : Copies(k) = {}
    BY Addresses DEF Init, Copies, Listed
  <2>2. Count = [k \in Key |-> 0]
    BY <2>1, CopiesFinite DEF Count
  <2>3. Call = [t \in Thread |-> <<>>]
    BY DEF Init, Call
  <2> QED BY <2>2, <2>3 DEF Init, Abstract!Init, Abstract!NoCall, Count, Call
<1>2. Tracked /\ [Next]_vars => [Abstract!Next]_Abstract!bvars
  <2> SUFFICES ASSUME Tracked, [Next]_vars PROVE Abstract!Next \/ UNCHANGED Abstract!bvars
    OBVIOUS
  <2>1. CASE UNCHANGED vars
    <3>1. UNCHANGED <<op, arg, res>> /\ Count' = Count
      BY <2>1 DEF vars, Count, Copies, Listed, Pending
    <3> QED BY <3>1, SilentStep
  <2>2. ASSUME NEW t \in Thread, QuietStep(t) PROVE Abstract!Next \/ UNCHANGED Abstract!bvars
    <3>1. CASE Lock(t) \/ PrintStep(t) \/ PrintBucketEnd(t)
      <4>1. UNCHANGED <<op, arg, res>>
        BY <3>1 DEF Lock, PrintStep, PrintBucketEnd
      <4> QED BY <2>2, <4>1, QuietCount, SilentStep DEF Tracked
    <3> QED BY <2>2, <3>1, InvokeAtomic, ReturnAtomic, LookupAtomic, RemoveAtomic DEF QuietStep
  <2> QED BY <2>1, <2>2, Steps, InsertAtomic, RemoveAtomic, FreeAtomic
<1> QED BY <1>1, <1>2, TrackedInvariant, PTL DEF Spec, AtomicBag, Abstract!Spec

-----------------------------------------------------------------------------
(* The spin lock, whose exchanges may fail spuriously *)

SpinInv == SpinTypeOK /\ LockInv

\* The owners are finitely many, and so are the threads inside.
LEMMA OwnersFinite == IsFiniteSet(Owners) /\ Cardinality(Owners) \in Nat
BY ThreadAssumption, FS_Subset, FS_CardinalityType DEF Owners

\* The initial state: no lock object, everybody idle.
LEMMA SpinInitInv == SpinInit => SpinInv
<1> SUFFICES ASSUME SpinInit PROVE SpinInv
  OBVIOUS
<1>0. strays \in 0..MaxStrays
  BY StraysAssumption DEF SpinInit
<1>1. SpinTypeOK
  BY <1>0, Zenon DEF SpinInit, SpinTypeOK, LockState, SpinPC
<1>2. Owners = {}
  BY DEF SpinInit, Owners, Owns, InCriticalSection
<1>3. Cardinality(Owners) = 0
  BY <1>2, FS_EmptySet
<1> QED
  BY <1>1, <1>3 DEF SpinInit, SpinInv, LockInv

\* Every step of the lock functions and of their callers keeps the types.
LEMMA SpinTypeStep == ASSUME SpinTypeOK, [SpinNext]_spinVars PROVE SpinTypeOK'
<1> USE StraysAssumption DEF SpinTypeOK, LockState, SpinPC, SpinGoto
<1>1. CASE cspin_alloc \/ cspin_free
  <2>1. strays' \in 0..MaxStrays
    BY <1>1 DEF cspin_alloc, cspin_free
  <2>2. unreleased' \in BOOLEAN
    BY <1>1 DEF cspin_alloc, cspin_free
  <2> QED
    BY <1>1, <2>1, <2>2 DEF cspin_alloc, cspin_free
<1>2. ASSUME NEW t \in Thread, SpinCall(t) PROVE SpinTypeOK'
  BY <1>2 DEF SpinCall, CallLock, CallTryLock, CallUnlock
<1>3. ASSUME NEW t \in Thread, LockTest(t) \/ TryLockReturn(t) PROVE SpinTypeOK'
  BY <1>3 DEF LockTest, TryLockReturn
<1>4. ASSUME NEW t \in Thread, LockCas(t) \/ TryLockCas(t) \/ UnlockCas(t) PROVE SpinTypeOK'
  <2>1. place' \in [Thread -> SpinPC] /\ expected' \in [Thread -> LockState \cup {"None"}]
    BY <1>4 DEF LockCas, TryLockCas, UnlockCas, CompareExchangeWeak
  <2>2. lock' \in LockState \cup {"None"}
    BY <1>4 DEF LockCas, TryLockCas, UnlockCas, CompareExchangeWeak, SpuriousFailure
  <2>3. strays' \in 0..MaxStrays
    BY <1>4 DEF LockCas, TryLockCas, UnlockCas, CompareExchangeWeak, SpuriousFailure
  <2>4. unreleased' \in BOOLEAN
    BY <1>4 DEF LockCas, TryLockCas, UnlockCas, CompareExchangeWeak, SpuriousFailure
  <2> QED
    BY <2>1, <2>2, <2>3, <2>4
<1>5. CASE UNCHANGED spinVars
  BY <1>5 DEF spinVars
<1> QED
  BY <1>1, <1>2, <1>3, <1>4, <1>5 DEF SpinNext, cspin_lock, cspin_trylock, cspin_unlock

\* An acquiring exchange: the thread becomes an owner if the word was Unlocked,
\* and is none otherwise.
LEMMA AcquireOwners ==
  ASSUME SpinTypeOK, NEW t \in Thread, LockCas(t) \/ TryLockCas(t)
  PROVE  /\ t \notin Owners
         /\ lock = "Unlocked" => Owners' = Owners \cup {t} /\ Owns(t)'
         /\ lock # "Unlocked" => Owners' = Owners /\ UNCHANGED <<lock, strays, unreleased>>
<1> USE DEF SpinTypeOK, LockState, SpinPC, LockCas, TryLockCas, SpinGoto
<1>1. t \notin Owners
  BY DEF Owners, Owns, InCriticalSection
<1>2. expected' = [expected EXCEPT ![t] = lock]
  BY DEF CompareExchangeWeak
<1>3. \A u \in Thread : u # t => (Owns(u)' <=> Owns(u))
  BY <1>2 DEF Owns, InCriticalSection
<1>4. Owns(t)' <=> lock = "Unlocked"
  BY <1>2 DEF Owns, InCriticalSection
<1>5. lock # "Unlocked" => UNCHANGED <<lock, strays, unreleased>>
  BY DEF CompareExchangeWeak, SpuriousFailure
<1> QED
  BY <1>1, <1>3, <1>4, <1>5 DEF Owners

\* An unlocking exchange: the thread is no owner any more, whatever became of
\* the word.
LEMMA ReleaseOwners ==
  ASSUME SpinTypeOK, NEW t \in Thread, UnlockCas(t)
  PROVE  t \in Owners /\ Owners' = Owners \ {t}
<1> USE DEF SpinTypeOK, LockState, SpinPC, UnlockCas, SpinGoto, CompareExchangeWeak
<1>1. t \in Owners
  BY DEF Owners, Owns, InCriticalSection
<1>2. \A u \in Thread : u # t => (Owns(u)' <=> Owns(u))
  BY DEF Owns, InCriticalSection
<1>3. ~Owns(t)'
  BY DEF Owns, InCriticalSection
<1> QED
  BY <1>1, <1>2, <1>3 DEF Owners

\* All other steps leave the owners as they are.
LEMMA OtherOwners ==
  ASSUME SpinTypeOK,
         \/ cspin_alloc
         \/ cspin_free
         \/ \E t \in Thread : SpinCall(t) \/ LockTest(t) \/ TryLockReturn(t)
         \/ UNCHANGED spinVars
  PROVE  Owners' = Owners
<1>1. \A u \in Thread : Owns(u)' <=> Owns(u)
  BY DEF SpinTypeOK, LockState, SpinPC, SpinGoto, cspin_alloc, cspin_free, SpinCall, CallLock,
         CallTryLock, CallUnlock, LockTest, TryLockReturn, spinVars, Owns, InCriticalSection
<1> QED
  BY <1>1 DEF Owners

\* Every step keeps the word, the owners and the record of failures in agreement.
LEMMA SpinNextInv == ASSUME SpinInv, [SpinNext]_spinVars PROVE SpinInv'
<1>1. SpinTypeOK /\ LockInv
  BY DEF SpinInv
<1>2. SpinTypeOK'
  BY <1>1, SpinTypeStep
<1>3. strays \in Nat /\ strays' \in Nat
  BY <1>1, <1>2, StraysAssumption DEF SpinTypeOK
<1>4. IsFiniteSet(Owners) /\ Cardinality(Owners) \in Nat
  BY OwnersFinite
<1>5. CASE cspin_alloc
  <2>1. Owners' = Owners
    BY <1>1, <1>5, OtherOwners
  <2>2. \A t \in Thread : place[t] = "idle"
    BY <1>1, <1>5 DEF LockInv, cspin_alloc
  <2>3. Owners = {}
    BY <2>2 DEF Owners, Owns, InCriticalSection
  <2>4. Cardinality(Owners) = 0
    BY <2>3, FS_EmptySet
  <2>5. LockInv'
    BY <1>1, <1>3, <1>5, <2>1, <2>4 DEF LockInv, cspin_alloc
  <2> QED
    BY <1>2, <2>5 DEF SpinInv
<1>6. CASE cspin_free
  <2>1. Owners' = Owners
    BY <1>1, <1>6, OtherOwners
  <2>2. Owners = {}
    BY <1>6 DEF cspin_free, Owners, Owns, InCriticalSection
  <2>3. Cardinality(Owners) = 0
    BY <2>2, FS_EmptySet
  <2>4. LockInv'
    BY <1>6, <2>1, <2>3 DEF LockInv, cspin_free
  <2> QED
    BY <1>2, <2>4 DEF SpinInv
<1>7. ASSUME NEW t \in Thread, SpinCall(t) \/ LockTest(t) \/ TryLockReturn(t) PROVE SpinInv'
  <2> USE DEF SpinCall, CallLock, CallTryLock, CallUnlock, LockTest, TryLockReturn, SpinGoto
  <2>1. Owners' = Owners
    BY <1>1, <1>7, OtherOwners
  <2>2. UNCHANGED <<lock, strays, unreleased>>
    BY <1>7
  <2>3. (\E u \in Thread : Owns(u)) => \E u \in Thread : Owns(u)'
    BY <2>1 DEF Owners
  <2>4. lock # "None"
    BY <1>1, <1>7 DEF LockInv
  <2>5. LockInv'
    BY <1>1, <2>1, <2>2, <2>3, <2>4 DEF LockInv
  <2> QED
    BY <1>2, <2>5 DEF SpinInv
<1>8. ASSUME NEW t \in Thread, LockCas(t) \/ TryLockCas(t) PROVE SpinInv'
  <2>1. /\ t \notin Owners
        /\ lock = "Unlocked" => Owners' = Owners \cup {t} /\ Owns(t)'
        /\ lock # "Unlocked" => Owners' = Owners /\ UNCHANGED <<lock, strays, unreleased>>
    BY <1>1, <1>8, AcquireOwners
  <2>2. lock # "None"
    BY <1>1, <1>8 DEF LockInv, LockCas, TryLockCas, SpinGoto
  <2>3. CASE lock = "Unlocked"
    <3>1. Cardinality(Owners') = Cardinality(Owners) + 1
      BY <1>4, <2>1, <2>3, FS_AddElement
    <3>2. \/ lock' = "Locked" /\ unreleased' = FALSE /\ strays' = strays
          \/ lock' = "Unlocked" /\ strays' = strays + 1 /\ unreleased' = unreleased
      BY <1>8, <2>3 DEF LockCas, TryLockCas, CompareExchangeWeak, SpuriousFailure
    <3>3. unreleased = FALSE
      BY <1>1, <2>3 DEF LockInv, SpinTypeOK
    <3>4. Cardinality(Owners) <= strays
      BY <1>1, <1>3, <2>3 DEF LockInv
    <3>5. LockInv'
      BY <1>3, <1>4, <2>1, <2>3, <3>1, <3>2, <3>3, <3>4 DEF LockInv
    <3> QED
      BY <1>2, <3>5 DEF SpinInv
  <2>4. CASE lock # "Unlocked"
    <3>1. (\E u \in Thread : Owns(u)) => \E u \in Thread : Owns(u)'
      BY <2>1, <2>4 DEF Owners
    <3>2. LockInv'
      BY <1>1, <2>1, <2>2, <2>4, <3>1 DEF LockInv
    <3> QED
      BY <1>2, <3>2 DEF SpinInv
  <2> QED
    BY <2>3, <2>4
<1>9. ASSUME NEW t \in Thread, UnlockCas(t) PROVE SpinInv'
  <2>1. t \in Owners /\ Owners' = Owners \ {t}
    BY <1>1, <1>9, ReleaseOwners
  <2>2. Cardinality(Owners') = Cardinality(Owners) - 1
    BY <1>4, <2>1, FS_RemoveElement
  <2>3. lock # "None"
    BY <1>1, <1>9 DEF LockInv, UnlockCas, SpinGoto
  <2>4. \/ lock = "Locked" /\ lock' = "Unlocked" /\ unreleased' = FALSE /\ strays' = strays
        \/ lock = "Unlocked" /\ UNCHANGED <<lock, strays, unreleased>>
        \/ lock = "Locked" /\ lock' = "Locked" /\ unreleased' = TRUE /\ strays' = strays
    BY <1>1, <1>9, <2>3
       DEF UnlockCas, CompareExchangeWeak, SpuriousFailure, SpinTypeOK, LockState
  <2>5. LockInv'
    BY <1>1, <1>3, <1>4, <2>2, <2>4 DEF LockInv
  <2> QED
    BY <1>2, <2>5 DEF SpinInv
<1>10. CASE UNCHANGED spinVars
  <2>1. Owners' = Owners
    BY <1>1, <1>10, OtherOwners
  <2>2. (\E u \in Thread : Owns(u)) => \E u \in Thread : Owns(u)'
    BY <2>1 DEF Owners
  <2>3. LockInv'
    BY <1>1, <1>10, <2>1, <2>2 DEF LockInv, spinVars
  <2> QED
    BY <1>2, <2>3 DEF SpinInv
<1> QED
  BY <1>5, <1>6, <1>7, <1>8, <1>9, <1>10
     DEF SpinNext, SpinCall, cspin_lock, cspin_trylock, cspin_unlock

\* Type correctness and the inductive invariant of the spin lock: the Locked
\* word and the failed exchanges account for every owner.
THEOREM LockInvariant == SpinSpec => [](SpinTypeOK /\ LockInv)
<1>1. SpinInit => SpinInv
  BY SpinInitInv
<1>2. SpinInv /\ [SpinNext]_spinVars => SpinInv'
  BY SpinNextInv
<1> QED
  BY <1>1, <1>2, PTL DEF SpinSpec, SpinInv

\* cspin_lock and cspin_trylock admit at most one thread, and one more for every
\* acquiring exchange that failed on an Unlocked word.
THEOREM MutualExclusionHolds == SpinSpec => []MutualExclusion
<1>1. SpinInv => MutualExclusion
  <2>1. SpinInside \in SUBSET Owners
    BY DEF SpinInside, Owners, Owns
  <2>2. Cardinality(SpinInside) <= Cardinality(Owners) /\ Cardinality(SpinInside) \in Nat
    BY <2>1, OwnersFinite, FS_Subset, FS_CardinalityType
  <2> QED
    BY <2>2, OwnersFinite, StraysAssumption DEF SpinInv, SpinTypeOK, LockInv, MutualExclusion
<1> QED
  BY <1>1, LockInvariant, PTL DEF SpinInv

\* A lock nobody uses is Locked only if the exchange of a cspin_unlock failed.
THEOREM UnlockReleasesHolds == SpinSpec => []UnlockReleases
<1>1. SpinInv => UnlockReleases
  BY DEF SpinInv, LockInv, Owns, InCriticalSection, UnlockReleases
<1> QED
  BY <1>1, LockInvariant, PTL DEF SpinInv

\* While no acquiring exchange has failed spuriously, the owner is the abstract
\* holder, and there is none unless the word is Locked.
LEMMA OwnerIs == ASSUME SpinInv, strays = 0
                 PROVE  /\ \A t \in Thread : Owns(t) => Owner = t
                        /\ lock # "Locked" => Owners = {}
                        /\ Owners = {} => Owner = NoThread
<1>1. Cardinality(Owners) <= (IF lock = "Locked" THEN 1 ELSE 0)
  BY OwnersFinite DEF SpinInv, LockInv
<1>2. lock # "Locked" => Owners = {}
  BY <1>1, OwnersFinite, FS_EmptySet
<1>3. ASSUME NEW t \in Thread, NEW u \in Thread, Owns(t), Owns(u) PROVE t = u
  <2>1. t \in Owners /\ u \in Owners
    BY <1>3 DEF Owners
  <2>2. Cardinality(Owners) = 1
    BY <1>1, <2>1, OwnersFinite, FS_EmptySet
  <2>3. PICK x : Owners = {x}
    BY <2>2, OwnersFinite, FS_Singleton
  <2> QED
    BY <2>1, <2>3
<1> QED
  BY <1>2, <1>3 DEF Owner, Owners

\* The same of the state after a step.
LEMMA OwnerIsNext == ASSUME SpinInv', strays' = 0
                     PROVE  /\ \A t \in Thread : Owns(t)' => Owner' = t
                            /\ Owners' = {} => Owner' = NoThread
<1>0. IsFiniteSet(Owners') /\ Cardinality(Owners') \in Nat
  BY ThreadAssumption, FS_Subset, FS_CardinalityType DEF Owners
<1>1. Cardinality(Owners') <= 1
  BY <1>0 DEF SpinInv, LockInv
<1>2. ASSUME NEW t \in Thread, NEW u \in Thread, Owns(t)', Owns(u)' PROVE t = u
  <2>1. t \in Owners' /\ u \in Owners'
    BY <1>2 DEF Owners
  <2>2. Cardinality(Owners') = 1
    BY <1>0, <1>1, <2>1, FS_EmptySet
  <2>3. PICK x : Owners' = {x}
    BY <1>0, <2>2, FS_Singleton
  <2> QED
    BY <2>1, <2>3
<1> QED
  BY <1>2 DEF Owner, Owners

\* Every step of the spin lock is a step of the abstract mutex or leaves its
\* state alone, until an acquiring exchange has failed spuriously: the exchange
\* acquires, the test of `expected` enters, cspin_unlock releases.
LEMMA StepRefines == ASSUME SpinInv, SpinInv', [SpinNext]_spinVars
                     PROVE  [M!Next \/ strays' > 0]_(<<Owner, SpinInside>>)
<1> SUFFICES ASSUME strays' = 0 PROVE [M!Next]_(<<Owner, SpinInside>>)
  BY StraysAssumption DEF SpinInv, SpinTypeOK
<1>1. SpinTypeOK /\ SpinTypeOK'
  BY DEF SpinInv
<1>2. /\ \A t \in Thread : Owns(t)' => Owner' = t
      /\ Owners' = {} => Owner' = NoThread
  BY OwnerIsNext
<1>3. CASE cspin_free
  <2>1. Owners = {} /\ Owners' = {}
    BY <1>1, <1>3, OtherOwners DEF cspin_free, Owners, Owns, InCriticalSection
  <2>2. UNCHANGED <<Owner, SpinInside>>
    BY <1>3, <2>1 DEF cspin_free, Owner, Owners, SpinInside, InCriticalSection
  <2> QED
    BY <2>2
<1>4. ASSUME ~cspin_free PROVE strays = 0
  BY <1>1, <1>4, StraysAssumption
     DEF SpinTypeOK, SpinNext, cspin_alloc, SpinCall, CallLock, CallTryLock, CallUnlock,
         cspin_lock, LockCas, LockTest, cspin_trylock, TryLockCas, TryLockReturn,
         cspin_unlock, UnlockCas, CompareExchangeWeak, SpuriousFailure, spinVars
<1>5. ASSUME strays = 0
      PROVE  /\ \A t \in Thread : Owns(t) => Owner = t
             /\ lock # "Locked" => Owners = {}
             /\ Owners = {} => Owner = NoThread
  BY <1>5, OwnerIs
<1>6. ASSUME strays = 0, Owners' = Owners PROVE Owner' = Owner
  <2>1. \A t \in Thread : Owns(t)' <=> Owns(t)
    BY <1>6 DEF Owners
  <2> QED
    BY <1>2, <1>5, <1>6, <2>1 DEF Owners
<1> USE DEF SpinTypeOK, LockState, SpinPC
<1>7. ASSUME strays = 0, cspin_alloc PROVE UNCHANGED <<Owner, SpinInside>>
  <2>1. SpinInside' = SpinInside
    BY <1>7 DEF cspin_alloc, SpinInside, InCriticalSection
  <2>2. Owners' = Owners
    BY <1>1, <1>7, OtherOwners
  <2> QED
    BY <1>6, <1>7, <2>1, <2>2
<1>8. ASSUME strays = 0, NEW t \in Thread, SpinCall(t) PROVE UNCHANGED <<Owner, SpinInside>>
  <2>1. SpinInside' = SpinInside
    BY <1>1, <1>8
       DEF SpinCall, CallLock, CallTryLock, CallUnlock, SpinGoto, SpinInside, InCriticalSection
  <2>2. Owners' = Owners
    BY <1>1, <1>8, OtherOwners
  <2> QED
    BY <1>6, <1>8, <2>1, <2>2
<1>9. ASSUME strays = 0, NEW t \in Thread, LockCas(t) \/ TryLockCas(t)
      PROVE  [M!Next]_(<<Owner, SpinInside>>)
  <2>1. SpinInside' = SpinInside
    BY <1>1, <1>9 DEF LockCas, TryLockCas, SpinGoto, SpinInside, InCriticalSection
  <2>2. CASE lock = "Unlocked"
    <3>1. Owns(t)'
      BY <1>1, <1>9, <2>2, AcquireOwners
    <3>2. Owner = NoThread /\ Owner' = t
      BY <1>2, <1>5, <1>9, <2>2, <3>1
    <3> QED
      BY <2>1, <3>2 DEF M!Next, M!Acquire, SpinInside
  <2>3. CASE lock # "Unlocked"
    <3>1. Owners' = Owners
      BY <1>1, <1>9, <2>3, AcquireOwners
    <3> QED
      BY <1>6, <1>9, <2>1, <3>1
  <2> QED
    BY <2>2, <2>3
<1>10. ASSUME strays = 0, NEW t \in Thread, LockTest(t) \/ TryLockReturn(t)
       PROVE  [M!Next]_(<<Owner, SpinInside>>)
  <2> USE DEF LockTest, TryLockReturn, SpinGoto
  <2>1. Owners' = Owners
    BY <1>1, <1>10, OtherOwners
  <2>2. Owner' = Owner
    BY <1>6, <1>10, <2>1
  <2>3. CASE expected[t] = "Unlocked"
    <3>1. Owns(t)
      BY <1>10, <2>3 DEF Owns
    <3>2. SpinInside' = SpinInside \cup {t}
      BY <1>1, <1>10, <2>3 DEF SpinInside, InCriticalSection
    <3>3. Owner = t
      BY <1>5, <1>10, <3>1
    <3> QED
      BY <2>2, <3>2, <3>3 DEF M!Next, M!Enter, SpinInside
  <2>4. CASE expected[t] # "Unlocked"
    <3>1. SpinInside' = SpinInside
      BY <1>1, <1>10, <2>4 DEF SpinInside, InCriticalSection
    <3> QED
      BY <2>2, <3>1
  <2> QED
    BY <2>3, <2>4
<1>11. ASSUME strays = 0, NEW t \in Thread, UnlockCas(t) PROVE [M!Next]_(<<Owner, SpinInside>>)
  <2>1. Owns(t) /\ InCriticalSection(t)
    BY <1>11 DEF UnlockCas, SpinGoto, Owns, InCriticalSection
  <2>2. t \in Owners /\ Owners' = Owners \ {t}
    BY <1>1, <1>11, ReleaseOwners
  <2>3. Owners' = {}
    BY <1>5, <1>11, <2>2 DEF Owners
  <2>4. SpinInside' = SpinInside \ {t}
    BY <1>1, <1>11 DEF UnlockCas, SpinGoto, SpinInside, InCriticalSection
  <2>5. Owner = t /\ Owner' = NoThread
    BY <1>2, <1>5, <1>11, <2>1, <2>3
  <2> QED
    BY <2>1, <2>4, <2>5 DEF M!Next, M!Release, SpinInside
<1>12. CASE UNCHANGED spinVars
  BY <1>12 DEF spinVars, Owner, Owns, SpinInside, InCriticalSection
<1> QED
  BY <1>3, <1>4, <1>7, <1>8, <1>9, <1>10, <1>11, <1>12
     DEF SpinNext, cspin_lock, cspin_trylock, cspin_unlock

\* The spin lock implements the abstract mutex until an acquiring exchange of
\* the lock object fails spuriously; failed releases are part of it.
THEOREM Refinement == SpinSpec => ImplementsMutex
<1>1. SpinInit => M!Init
  <2>1. ASSUME SpinInit PROVE \A t \in Thread : ~Owns(t) /\ ~InCriticalSection(t)
    BY <2>1 DEF SpinInit, Owns, InCriticalSection
  <2> QED
    BY <2>1 DEF M!Init, Owner, SpinInside
<1>2. SpinInv /\ SpinInv' /\ [SpinNext]_spinVars
        => [M!Next \/ strays' > 0]_(<<Owner, SpinInside>>)
  BY StepRefines
<1>3. [M!Next \/ strays' > 0]_(<<Owner, SpinInside>>) => [M!Next \/ strays' > 0]_(M!mvars)
  BY DEF M!mvars
<1> QED
  BY <1>1, <1>2, <1>3, LockInvariant, PTL DEF SpinSpec, SpinInv, ImplementsMutex
=============================================================================
