---------------------------- MODULE LockHashMap ----------------------------
(***************************************************************************)
(* task4-concurrency/src/hashmap.cpp: a hash map whose buckets are singly  *)
(* linked lists behind a sentinel, each protected by a std::mutex that a   *)
(* call holds from its first access to the list until it returns.  A step  *)
(* is one access to the list; a deleted node goes back to the allocator,   *)
(* which may hand out its address again.  A value may be stored twice.     *)
(***************************************************************************)
EXTENDS Integers, Sequences, FiniteSets, Threads

CONSTANTS Key,       \* the values the threads store
          NBuckets,  \* map->length
          WordMod,   \* 2^64: size_t arithmetic wraps at this value
          MaxNodes   \* bound: nodes that exist at one time

ASSUME KeyAssumption == Key \subseteq Int /\ Key # {}
ASSUME BucketAssumption == NBuckets \in Nat \ {0}
ASSUME WordAssumption == WordMod \in Nat \ {0}
ASSUME NodesAssumption == MaxNodes \in Nat

Bucket == 0 .. NBuckets - 1

\* Addresses: one sentinel for each bucket, then the nodes.
Sentinel(b) == b
Heap == NBuckets .. NBuckets + MaxNodes - 1
Addr == Bucket \cup Heap
Null == -1

\* long % size_t is computed on size_t, so a negative value wraps first; the
\* `index < 0` branch of the source is never taken.
getIndex(k) == (k % WordMod) % NBuckets

VARIABLES map,     \* "allocated" or "freed"
          owner,   \* the thread that holds the mutex of each bucket, or NoThread
          live,    \* the addresses `new` has given out and `delete` not taken back
          value,   \* Node::value
          next,    \* Node::next
          pc,      \* where each thread is
          op,      \* the operation it executes, "none" between calls
          arg,     \* its value
          node,    \* the local `node` (the local `insertion` of insert_item)
          bucket,  \* the bucket print_hashmap has come to
          res,     \* "yes" for a return value of 0 and "no" for 1, once settled
          out      \* what print_hashmap has printed of the bucket it is at

list == <<live, value, next>>
vars == <<map, owner, live, value, next, pc, op, arg, node, bucket, res, out>>

AnyKey == CHOOSE k \in Key : TRUE

\* alloc_hashmap: every bucket is a sentinel with nothing behind it.
Init == /\ map = "allocated"
        /\ owner = [b \in Bucket |-> NoThread]
        /\ live = Bucket
        /\ value = [a \in Addr |-> 0]
        /\ next = [a \in Addr |-> Null]
        /\ pc = [t \in Thread |-> "idle"]
        /\ op = [t \in Thread |-> "none"]
        /\ arg = [t \in Thread |-> AnyKey]
        /\ node = [t \in Thread |-> Null]
        /\ bucket = [t \in Thread |-> 0]
        /\ res = [t \in Thread |-> "none"]
        /\ out = [t \in Thread |-> <<>>]

\* The bucket whose mutex the call of t takes.
Index(t) == IF op[t] = "print" THEN bucket[t] ELSE getIndex(arg[t])

Goto(t, to) == pc' = [pc EXCEPT ![t] = to]
At(t, a) == node' = [node EXCEPT ![t] = a]
Settle(t, r) == res' = [res EXCEPT ![t] = r]

-----------------------------------------------------------------------------
(* Invocation, lock_guard and return *)

Invoke(t, o, k) == /\ map = "allocated"
                   /\ pc[t] = "idle"
                   /\ op' = [op EXCEPT ![t] = o]
                   /\ arg' = [arg EXCEPT ![t] = k]
                   /\ Goto(t, "lock")
                   /\ UNCHANGED <<map, owner, list, node, bucket, res, out>>

\* Seeded fault: the mutex is not waited for.
Lock_NoWait(t) == /\ pc[t] = "lock"
                  /\ owner' = [owner EXCEPT ![Index(t)] = t]
                  /\ IF op[t] = "insert" THEN Goto(t, "new") /\ UNCHANGED node
                     ELSE /\ Goto(t, "walk")
                          /\ At(t, IF op[t] = "remove" THEN Sentinel(Index(t))
                                   ELSE next[Sentinel(Index(t))])
                  /\ UNCHANGED <<map, list, op, arg, bucket, res, out>>

\* std::lock_guard lock(...): waits for the mutex.  node is then the sentinel,
\* or the node behind it for the two functions that only read.
Lock(t) == /\ pc[t] = "lock"
           /\ owner[Index(t)] = NoThread
           /\ owner' = [owner EXCEPT ![Index(t)] = t]
           /\ IF op[t] = "insert" THEN Goto(t, "new") /\ UNCHANGED node
              ELSE /\ Goto(t, "walk")
                   /\ At(t, IF op[t] = "remove" THEN Sentinel(Index(t))
                            ELSE next[Sentinel(Index(t))])
           /\ UNCHANGED <<map, list, op, arg, bucket, res, out>>

\* Seeded fault: a return path that does not unlock.
Return_KeepsLock(t) == /\ pc[t] = "ret"
                       /\ Goto(t, "idle")
                       /\ op' = [op EXCEPT ![t] = "none"]
                       /\ arg' = [arg EXCEPT ![t] = AnyKey]
                       /\ At(t, Null)
                       /\ bucket' = [bucket EXCEPT ![t] = 0]
                       /\ Settle(t, "none")
                       /\ out' = [out EXCEPT ![t] = <<>>]
                       /\ UNCHANGED <<map, owner, list>>

\* The function returns and its lock_guard unlocks.
Return(t) == /\ pc[t] = "ret"
             /\ owner' = [owner EXCEPT ![Index(t)] = NoThread]
             /\ Goto(t, "idle")
             /\ op' = [op EXCEPT ![t] = "none"]
             /\ arg' = [arg EXCEPT ![t] = AnyKey]
             /\ At(t, Null)
             /\ bucket' = [bucket EXCEPT ![t] = 0]
             /\ Settle(t, "none")
             /\ out' = [out EXCEPT ![t] = <<>>]
             /\ UNCHANGED <<map, list>>

-----------------------------------------------------------------------------
(* insert_item *)

InsertNew(t) == /\ pc[t] = "new"
                /\ \E a \in Heap \ live :
                     /\ live' = live \cup {a}
                     /\ value' = [value EXCEPT ![a] = arg[t]]
                     /\ next' = [next EXCEPT ![a] = next[Sentinel(Index(t))]]
                     /\ At(t, a)
                /\ Goto(t, "link")
                /\ UNCHANGED <<map, owner, op, arg, bucket, res, out>>

InsertLink(t) == /\ pc[t] = "link"
                 /\ next' = [next EXCEPT ![Sentinel(Index(t))] = node[t]]
                 /\ Goto(t, "ret")
                 /\ Settle(t, "yes")
                 /\ UNCHANGED <<map, owner, live, value, op, arg, node, bucket, out>>

-----------------------------------------------------------------------------
(* remove_item: node is the predecessor of the node it looks at *)

RemoveOutcome(t, nextAfter, liveAfter) ==
  /\ pc[t] = "walk" /\ op[t] = "remove"
  /\ LET n == next[node[t]] IN
       \/ /\ n = Null
          /\ Goto(t, "ret") /\ Settle(t, "no")
          /\ UNCHANGED <<live, next, node>>
       \/ /\ n # Null
          /\ value[n] = arg[t]
          /\ next' = nextAfter
          /\ live' = liveAfter
          /\ Goto(t, "ret") /\ Settle(t, "yes")
          /\ UNCHANGED node
       \/ /\ n # Null
          /\ value[n] # arg[t]
          /\ At(t, n)
          /\ UNCHANGED <<live, next, pc, res>>
  /\ UNCHANGED <<map, owner, value, op, arg, bucket, out>>

\* node->next = node->next->next
Bypass(t) == [next EXCEPT ![node[t]] = next[next[node[t]]]]

\* Seeded fault: the node is deleted but stays in the list.
RemoveStep_StaysLinked(t) == RemoveOutcome(t, next, live \ {next[node[t]]})

RemoveStep(t) == RemoveOutcome(t, Bypass(t), live \ {next[node[t]]})

-----------------------------------------------------------------------------
(* lookup_item *)

LookupStep(t) ==
  /\ pc[t] = "walk" /\ op[t] = "lookup"
  /\ \/ /\ node[t] = Null
        /\ Goto(t, "ret") /\ Settle(t, "no")
        /\ UNCHANGED node
     \/ /\ node[t] # Null
        /\ value[node[t]] = arg[t]
        /\ Goto(t, "ret") /\ Settle(t, "yes")
        /\ UNCHANGED node
     \/ /\ node[t] # Null
        /\ value[node[t]] # arg[t]
        /\ At(t, next[node[t]])
        /\ UNCHANGED <<pc, res>>
  /\ UNCHANGED <<map, owner, list, op, arg, bucket, out>>

-----------------------------------------------------------------------------
(* print_hashmap: the mutex of a bucket is held while the bucket is printed *)

PrintStep(t) == /\ pc[t] = "walk" /\ op[t] = "print"
                /\ node[t] # Null
                /\ out' = [out EXCEPT ![t] = Append(@, value[node[t]])]
                /\ At(t, next[node[t]])
                /\ UNCHANGED <<map, owner, list, pc, op, arg, bucket, res>>

PrintBucketEnd(t) == /\ pc[t] = "walk" /\ op[t] = "print"
                     /\ node[t] = Null
                     /\ IF bucket[t] + 1 < NBuckets
                          THEN /\ owner' = [owner EXCEPT ![bucket[t]] = NoThread]
                               /\ bucket' = [bucket EXCEPT ![t] = @ + 1]
                               /\ out' = [out EXCEPT ![t] = <<>>]
                               /\ Goto(t, "lock")
                          ELSE Goto(t, "ret") /\ UNCHANGED <<owner, bucket, out>>
                     /\ UNCHANGED <<map, list, op, arg, node, res>>

-----------------------------------------------------------------------------
(* free_hashmap, called when no other call is in progress and none will come *)

free_hashmap(t) == /\ map = "allocated"
                   /\ \A u \in Thread : pc[u] = "idle"
                   /\ map' = "freed"
                   /\ Goto(t, "free_lock")
                   /\ UNCHANGED <<owner, list, op, arg, node, bucket, res, out>>

FreeLock(t) == /\ pc[t] = "free_lock"
               /\ owner[bucket[t]] = NoThread
               /\ owner' = [owner EXCEPT ![bucket[t]] = t]
               /\ At(t, Sentinel(bucket[t]))
               /\ Goto(t, "free")
               /\ UNCHANGED <<map, list, op, arg, bucket, res, out>>

\* Seeded fault: the sentinel of a bucket is not deleted.
FreeNode_NotSentinel(t) == /\ pc[t] = "free" /\ node[t] # Null
                           /\ live' = live \ ({node[t]} \cap Heap)
                           /\ At(t, next[node[t]])
                           /\ UNCHANGED <<map, owner, value, next, pc, op, arg, bucket, res, out>>

\* next = node->next; delete node; node = next
FreeNode(t) == /\ pc[t] = "free" /\ node[t] # Null
               /\ live' = live \ {node[t]}
               /\ At(t, next[node[t]])
               /\ UNCHANGED <<map, owner, value, next, pc, op, arg, bucket, res, out>>

\* Unlock, delete the bucket and go on to the next one.
FreeBucketEnd(t) == /\ pc[t] = "free" /\ node[t] = Null
                    /\ owner' = [owner EXCEPT ![bucket[t]] = NoThread]
                    /\ IF bucket[t] + 1 < NBuckets
                         THEN Goto(t, "free_lock") /\ bucket' = [bucket EXCEPT ![t] = @ + 1]
                         ELSE Goto(t, "freed") /\ UNCHANGED bucket
                    /\ UNCHANGED <<map, list, op, arg, node, res, out>>

\* The map is gone and the program goes on without it.
Gone == (\E t \in Thread : pc[t] = "freed") /\ UNCHANGED vars

-----------------------------------------------------------------------------
Step(t) == \/ InsertNew(t) \/ InsertLink(t)
           \/ RemoveStep(t) \/ LookupStep(t)
           \/ PrintStep(t) \/ PrintBucketEnd(t)
           \/ FreeNode(t) \/ FreeBucketEnd(t)
           \/ Return(t)

\* Nodes that exist, or that a call in progress is going to allocate.
NodesInUse == Cardinality(live \cap Heap)
              + Cardinality({t \in Thread : op[t] = "insert" /\ pc[t] \in {"lock", "new"}})

insert_item(t, k) == NodesInUse < MaxNodes /\ Invoke(t, "insert", k)
remove_item(t, k) == Invoke(t, "remove", k)
lookup_item(t, k) == Invoke(t, "lookup", k)
print_hashmap(t) == Invoke(t, "print", AnyKey)

Next == \/ \E t \in Thread, k \in Key : insert_item(t, k) \/ remove_item(t, k) \/ lookup_item(t, k)
        \/ \E t \in Thread : print_hashmap(t) \/ Lock(t) \/ Step(t) \/ free_hashmap(t) \/ FreeLock(t)
        \/ Gone

\* A thread that holds a mutex keeps being scheduled; std::mutex promises no
\* waiting thread in particular that it will get the mutex.
Fairness == \A t \in Thread : WF_vars(Step(t))

Spec == Init /\ [][Next]_vars /\ Fairness

-----------------------------------------------------------------------------
(* Properties *)

PC == {"idle", "lock", "new", "link", "walk", "ret", "free_lock", "free", "freed"}

\* Every variable keeps its type.
TypeOK == /\ map \in {"allocated", "freed"}
          /\ owner \in [Bucket -> Thread \cup {NoThread}]
          /\ live \subseteq Addr
          /\ value \in [Addr -> Int]
          /\ next \in [Addr -> Heap \cup {Null}]
          /\ pc \in [Thread -> PC]
          /\ op \in [Thread -> {"none", "insert", "remove", "lookup", "print"}]
          /\ arg \in [Thread -> Key]
          /\ node \in [Thread -> Addr \cup {Null}]
          /\ bucket \in [Thread -> Bucket]
          /\ res \in [Thread -> {"none", "yes", "no"}]
          /\ out \in [Thread -> Seq(Int)]

\* No thread ever reads a deleted node: the node a call stands on, and the one
\* it would step to, are still allocated, although remove_item and free_hashmap
\* delete nodes at once and their addresses come back.
NoDangling == /\ \A t \in Thread : node[t] \in live \cup {Null}
              /\ \A a \in live : next[a] \in live \cup {Null}

-----------------------------------------------------------------------------
(* Why no thread dangles: the inductive invariant behind NoDangling *)

\* The bucket a node belongs to.
Home(a) == IF a \in Bucket THEN a ELSE getIndex(value[a])

\* t works on a list: it holds the mutex of its bucket, and its node, if it has
\* one, belongs to that bucket.
InList(t) == pc[t] \in {"new", "link", "walk", "ret"}
Guarded == \A t \in Thread :
  /\ InList(t) => owner[Index(t)] = t
  /\ ~InList(t) /\ pc[t] # "free" => node[t] = Null
  /\ InList(t) /\ node[t] # Null => Home(node[t]) = Index(t)
  /\ pc[t] \in {"new", "link"} => op[t] = "insert"
  /\ pc[t] = "walk" /\ op[t] = "remove" => node[t] # Null

\* The node of an insertion that is allocated and not linked yet: nothing leads
\* to it, and it leads where its sentinel does.
Pending(t) == pc[t] = "link"
PendingApart == \A t \in Thread :
  Pending(t) => /\ node[t] \in Heap
                /\ next[node[t]] = next[Sentinel(Index(t))]
                /\ \A a \in live : next[a] # node[t]

\* Lists do not leave their bucket, and two nodes that are in a list never have
\* the same successor.
Listed(a) == a \in live /\ \A t \in Thread : Pending(t) => node[t] # a
Separate ==
  /\ \A a \in live : next[a] # Null => Home(next[a]) = Home(a)
  /\ \A a, c \in Addr : Listed(a) /\ Listed(c) /\ next[a] = next[c] /\ next[a] # Null => a = c

\* free_hashmap runs alone; the buckets it has yet to come to are whole, and
\* nothing that is left leads to the node it deletes next.
Freeing(t) == pc[t] \in {"free_lock", "free", "freed"}
FreeAlone ==
  /\ map = "allocated" => /\ Bucket \subseteq live
                          /\ \A t \in Thread : ~Freeing(t)
  /\ map = "freed" => \A t \in Thread : pc[t] = "idle" \/ Freeing(t)
  /\ \A t, u \in Thread : Freeing(t) /\ Freeing(u) => t = u
  /\ \A t \in Thread : \A b \in Bucket :
       /\ pc[t] = "free_lock" /\ bucket[t] <= b => Sentinel(b) \in live
       /\ pc[t] = "free" /\ bucket[t] < b => Sentinel(b) \in live
  /\ \A t \in Thread : pc[t] = "free" /\ node[t] # Null =>
       /\ node[t] \in Heap \cup {Sentinel(bucket[t])}
       /\ \A a \in live : next[a] # node[t]

\* Whoever stands on a node holds the mutex of the list the node is in, and
\* lists do not run together: what remove_item and free_hashmap delete is known
\* to them alone.
ListInv == Guarded /\ PendingApart /\ Separate /\ FreeAlone

\* The first n nodes behind the sentinel of bucket b are path[1] to path[n], and
\* they lead to end.
LeadsTo(b, path, n, end) ==
  LET at(i) == IF i = 0 THEN Sentinel(b) ELSE path[i] IN
  \A i \in 0 .. n : next[at(i)] = IF i = n THEN end ELSE path[i + 1]

\* What print_hashmap prints of a bucket is the whole bucket at one instant, in
\* list order, whatever the other threads do.
PrintIsSnapshot ==
  \A t \in Thread : pc[t] = "walk" /\ op[t] = "print" /\ node[t] = Null =>
    \E path \in [1 .. Len(out[t]) -> Heap] :
      /\ LeadsTo(bucket[t], path, Len(out[t]), Null)
      /\ \A i \in 1 .. Len(out[t]) : out[t][i] = value[path[i]]

\* free_hashmap gives back every node and every sentinel.
FreeReleasesAll == (\E t \in Thread : pc[t] = "freed") => live = {}

\* The nodes that stand for the copies of k in the bag.
Copies(k) == {a \in Heap : Listed(a) /\ value[a] = k}

Abstract == INSTANCE ConcurrentBag WITH
  count <- [k \in Key |-> IF map = "freed" THEN 0 ELSE Cardinality(Copies(k))],
  call <- [t \in Thread |-> IF op[t] \in {"none", "print"} THEN <<>> ELSE <<op[t], arg[t]>>],
  answer <- res

\* Every call of insert_item, remove_item and lookup_item behaves as one atomic
\* operation on a bag of values, and free_hashmap empties the bag.
AtomicBag == Abstract!Spec

\* A mutex that is held is given back.
MutexReleased ==
  \A b \in Bucket : (owner[b] # NoThread) ~> (owner[b] = NoThread)
=============================================================================
