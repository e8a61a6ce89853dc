-------------------------- MODULE LockFreeHashMap --------------------------
(***************************************************************************)
(* task4-concurrency/src/lockfreehashmap.cpp: a hash map whose buckets are *)
(* sorted linked lists without locks.  A node is removed by marking its    *)
(* `next` reference (logical removal) and then swinging its predecessor    *)
(* past it (physical removal).  A step of a thread is one atomic load or   *)
(* one compare-and-swap with the local computation that follows it; the    *)
(* variables of a C++ function that is being executed are functions of the *)
(* thread, Null when they are dead.  No node is ever deleted (the deletes  *)
(* of the source are commented out), so an address is never used again.    *)
(***************************************************************************)
EXTENDS Integers, Sequences

CONSTANTS Thread,          \* the threads that call the map
          Key,             \* the keys they use
          NBuckets,        \* map->length
          WordMod,         \* 2^64: size_t arithmetic wraps at this value
          MaxNodes,        \* bound: calls of insert (each allocates one node)
          PrintWhileBusy   \* whether print_hashmap may run beside other calls

ASSUME KeyAssumption == Key \subseteq Int /\ Key # {}
ASSUME BucketAssumption == NBuckets \in Nat \ {0}
ASSUME WordAssumption == WordMod \in Nat \ {0}
ASSUME NodesAssumption == MaxNodes \in Nat
ASSUME PrintAssumption == PrintWhileBusy \in BOOLEAN

-----------------------------------------------------------------------------
(* Memory *)

Bucket == 0 .. NBuckets - 1

\* Addresses: the sentinels of the buckets, then the heap.
HeadOf(b) == 2 * b
TailOf(b) == 2 * b + 1
HeapStart == 2 * NBuckets
HeapEnd == HeapStart + MaxNodes
Addr == 0 .. HeapEnd - 1
Heap == HeapStart .. HeapEnd - 1
Null == -1

\* A word of type Node*: an address and the mark in its lowest bit.
Ref == [ptr : Addr \cup {Null}, mark : BOOLEAN]
Unmarked(a) == [ptr |-> a, mark |-> FALSE]
get_marked_reference(r) == [r EXCEPT !.mark = TRUE]
is_marked_reference(r) == r.mark

\* long % size_t is computed on size_t, so a negative key wraps first; the
\* `index < 0` branch of the source is never taken.
getIndex(k) == (k % WordMod) % NBuckets

VARIABLES key,        \* Node::key
          next,       \* Node::next
          brk,        \* the lowest address `new` has not given out
          pc,         \* where each thread is
          op,         \* the operation it executes, "none" between calls
          arg,        \* its key
          ins,        \* insertion
          node,       \* node
          left,       \* left
          leftNext,   \* leftNext; always an unmarked reference
          right,      \* right
          rightNext,  \* rightNext; unmarked whenever it is used
          res,        \* "yes" or "no" once the return value is settled
          printer,    \* print_hashmap: [pc, bucket, node]
          out,        \* the keys it has printed
          linked,     \* history: the heap nodes that are physically in a list
          seen        \* history: whether arg was in the map, at the instants of the call

heap == <<key, next, brk, linked>>
locals == <<node, left, leftNext, right, rightNext>>
print == <<printer, out>>
vars == <<key, next, brk, pc, op, arg, ins, node, left, leftNext, right, rightNext,
          res, printer, out, linked, seen>>

AnyKey == CHOOSE k \in Key : TRUE

\* alloc_hashmap: every bucket is a head and a tail with key 0; the tail points
\* to itself.  The heap is unused memory.
Init == /\ key = [a \in Addr |-> 0]
        /\ next = [a \in Addr |->
                     IF a \in Heap THEN Unmarked(Null)
                     ELSE Unmarked(IF a % 2 = 0 THEN a + 1 ELSE a)]
        /\ brk = HeapStart
        /\ pc = [t \in Thread |-> "idle"]
        /\ op = [t \in Thread |-> "none"]
        /\ arg = [t \in Thread |-> AnyKey]
        /\ ins = [t \in Thread |-> Null]
        /\ node = [t \in Thread |-> Null]
        /\ left = [t \in Thread |-> Null]
        /\ leftNext = [t \in Thread |-> Null]
        /\ right = [t \in Thread |-> Null]
        /\ rightNext = [t \in Thread |-> Null]
        /\ res = [t \in Thread |-> "none"]
        /\ printer = [pc |-> "idle", bucket |-> 0, node |-> Null]
        /\ out = <<>>
        /\ linked = {}
        /\ seen = [t \in Thread |-> {}]

\* The list a call works on.
head(t) == HeadOf(getIndex(arg[t]))
\* Seeded fault: every list is taken to end at the tail of bucket 0.
tail_First(t) == TailOf(0)
tail(t) == TailOf(getIndex(arg[t]))

Goto(t, to) == pc' = [pc EXCEPT ![t] = to]

SetLocals(t, n, l, ln, r, rn) ==
  /\ node' = [node EXCEPT ![t] = n]
  /\ left' = [left EXCEPT ![t] = l]
  /\ leftNext' = [leftNext EXCEPT ![t] = ln]
  /\ right' = [right EXCEPT ![t] = r]
  /\ rightNext' = [rightNext EXCEPT ![t] = rn]

\* Begin (or begin again) search(arg): its variables are not assigned yet.
Restart(t) == Goto(t, "search") /\ SetLocals(t, Null, Null, Null, Null, Null)

\* Leave with a result; the call has yet to return.
Finish(t, r) == /\ Goto(t, "ret")
                /\ SetLocals(t, Null, Null, Null, Null, Null)
                /\ res' = [res EXCEPT ![t] = r]

\* self.compare_exchange_strong(expected, desired) on the next of node a.
\* Seeded fault: the mark is not part of the comparison.
CasSucceeds_IgnoresMark(a, expected) == next[a].ptr = expected.ptr
CasSucceeds(a, expected) == next[a] = expected
Store(a, desired) == next' = [next EXCEPT ![a] = desired]

(***************************************************************************)
(* The keys in the map: the keys of the nodes that are linked and not      *)
(* marked.  LinkedIsReachable below ties `linked` to the references.       *)
(***************************************************************************)
Contents == {key[a] : a \in {n \in linked : ~next[n].mark}}

\* Every call in progress on key k sees the key come or go.
Witness(k, present) ==
  seen' = [u \in Thread |-> IF op[u] # "none" /\ arg[u] = k
                              THEN seen[u] \cup {present} ELSE seen[u]]

-----------------------------------------------------------------------------
(* Invocation and return of insert_item, remove_item and lookup_item *)

Invoke(t, o, k) ==
  /\ pc[t] = "idle"
  /\ printer.pc = "idle" \/ PrintWhileBusy
  /\ op' = [op EXCEPT ![t] = o]
  /\ arg' = [arg EXCEPT ![t] = k]
  /\ seen' = [seen EXCEPT ![t] = {z \in BOOLEAN : z = (k \in Contents)}]
  /\ Restart(t)
  /\ UNCHANGED <<res, next, linked, print>>

\* insert allocates its node before it looks for the key.
insert_item(t, k) == /\ brk < HeapEnd
                     /\ Invoke(t, "insert", k)
                     /\ brk' = brk + 1
                     /\ key' = [key EXCEPT ![brk] = k]
                     /\ ins' = [ins EXCEPT ![t] = brk]

remove_item(t, k) == Invoke(t, "remove", k) /\ UNCHANGED <<key, brk, ins>>

lookup_item(t, k) == Invoke(t, "find", k) /\ UNCHANGED <<key, brk, ins>>

Return(t) == /\ pc[t] = "ret"
             /\ Goto(t, "idle")
             /\ op' = [op EXCEPT ![t] = "none"]
             /\ arg' = [arg EXCEPT ![t] = AnyKey]
             /\ ins' = [ins EXCEPT ![t] = Null]
             /\ res' = [res EXCEPT ![t] = "none"]
             /\ seen' = [seen EXCEPT ![t] = {}]
             /\ UNCHANGED <<heap, locals, print>>

-----------------------------------------------------------------------------
(* List::search *)

\* Parts 2 and 3 of search, up to the next shared access.
CheckAdjacent(t, l, ln, r) ==
  /\ SetLocals(t, Null, l, ln, r, Null)
  /\ Goto(t, IF ln # r THEN "unlink" ELSE IF r # tail(t) THEN "recheck" ELSE "found")

\* The body of the inner loop for node n, whose next was read as r, up to the
\* next shared access.
Walk(t, n, r) ==
  LET l  == IF is_marked_reference(r) THEN left[t] ELSE n
      ln == IF is_marked_reference(r) THEN leftNext[t] ELSE r.ptr
  IN IF r.ptr = tail(t)
       THEN CheckAdjacent(t, l, ln, r.ptr)
       ELSE Goto(t, "load") /\ SetLocals(t, r.ptr, l, ln, Null, Null)

SearchHead(t) == /\ pc[t] = "search"
                 /\ Walk(t, head(t), next[head(t)])
                 /\ UNCHANGED <<heap, op, arg, ins, res, print, seen>>

\* Seeded fault: the walk goes past a node with the key.
SearchLoad_PastEqual(t) ==
  /\ pc[t] = "load"
  /\ LET r == next[node[t]] IN
       IF is_marked_reference(r) \/ key[node[t]] <= arg[t]
         THEN Walk(t, node[t], r)
         ELSE CheckAdjacent(t, left[t], leftNext[t], node[t])
  /\ UNCHANGED <<heap, op, arg, ins, res, print, seen>>

SearchLoad(t) == /\ pc[t] = "load"
                 /\ LET r == next[node[t]] IN
                      IF is_marked_reference(r) \/ key[node[t]] < arg[t]
                        THEN Walk(t, node[t], r)
                        ELSE CheckAdjacent(t, left[t], leftNext[t], node[t])
                 /\ UNCHANGED <<heap, op, arg, ins, res, print, seen>>

\* The nodes an unlinking step takes out of the list of bucket b: those that
\* lie between l and r.
Between(b, l, r) == {n \in linked : /\ getIndex(key[n]) = b
                                    /\ l = HeadOf(b) \/ key[l] < key[n]
                                    /\ r = TailOf(b) \/ key[n] < key[r]}

\* Seeded fault: search leaves marked nodes to others.
SearchUnlink_Never(t) == /\ pc[t] = "unlink"
                         /\ Restart(t)
                         /\ UNCHANGED <<heap, op, arg, ins, res, print, seen>>

\* cas(left->next, leftNext, right) of search.
SearchUnlink(t) ==
  /\ pc[t] = "unlink"
  /\ IF CasSucceeds(left[t], Unmarked(leftNext[t]))
       THEN /\ Store(left[t], Unmarked(right[t]))
            /\ linked' = linked \ Between(getIndex(arg[t]), left[t], right[t])
            /\ Goto(t, IF right[t] # tail(t) THEN "recheck" ELSE "found")
            /\ UNCHANGED locals
       ELSE Restart(t) /\ UNCHANGED <<next, linked>>
  /\ UNCHANGED <<key, brk, op, arg, ins, res, print, seen>>

SearchRecheck(t) == /\ pc[t] = "recheck"
                    /\ IF is_marked_reference(next[right[t]])
                         THEN Restart(t)
                         ELSE Goto(t, "found") /\ UNCHANGED locals
                    /\ UNCHANGED <<heap, op, arg, ins, res, print, seen>>

\* Seeded fault: the tail is compared like any node.
FoundKey_TailToo(t) == key[right[t]] = arg[t]

\* (right != tail) && (right->key == key)
FoundKey(t) == right[t] # tail(t) /\ key[right[t]] = arg[t]

-----------------------------------------------------------------------------
(* List::find *)

FindResult(t) == /\ pc[t] = "found" /\ op[t] = "find"
                 /\ Finish(t, IF FoundKey(t) THEN "yes" ELSE "no")
                 /\ UNCHANGED <<heap, op, arg, ins, print, seen>>

-----------------------------------------------------------------------------
(* List::insert *)

\* Seeded fault: insertion->next is not set.
InsertTest_NoNext(t) == /\ pc[t] = "found" /\ op[t] = "insert"
                        /\ IF FoundKey(t)
                             THEN Finish(t, "no")
                             ELSE Goto(t, "insert_cas") /\ UNCHANGED <<locals, res>>
                        /\ UNCHANGED <<heap, op, arg, ins, print, seen>>

\* The store to insertion->next is to a node no other thread can reach.
InsertTest(t) == /\ pc[t] = "found" /\ op[t] = "insert"
                 /\ IF FoundKey(t)
                      THEN Finish(t, "no") /\ UNCHANGED next
                      ELSE /\ Store(ins[t], Unmarked(right[t]))
                           /\ Goto(t, "insert_cas")
                           /\ UNCHANGED <<locals, res>>
                 /\ UNCHANGED <<key, brk, linked, op, arg, ins, print, seen>>

InsertCas(t) == /\ pc[t] = "insert_cas"
                /\ IF CasSucceeds(left[t], Unmarked(right[t]))
                     THEN /\ Store(left[t], Unmarked(ins[t]))
                          /\ linked' = linked \cup {ins[t]}
                          /\ Witness(arg[t], TRUE)
                          /\ Finish(t, "yes")
                     ELSE Restart(t) /\ UNCHANGED <<next, linked, seen, res>>
                /\ UNCHANGED <<key, brk, op, arg, ins, print>>

-----------------------------------------------------------------------------
(* List::remove *)

\* After the first search; after the search that cleans up, res is settled.
RemoveTest(t) == /\ pc[t] = "found" /\ op[t] = "remove"
                 /\ IF res[t] = "yes" THEN Finish(t, "yes")
                    ELSE IF FoundKey(t) THEN Goto(t, "remove_load") /\ UNCHANGED <<locals, res>>
                    ELSE Finish(t, "no")
                 /\ UNCHANGED <<heap, op, arg, ins, print, seen>>

RemoveLoad(t) == /\ pc[t] = "remove_load"
                 /\ LET r == next[right[t]] IN
                      IF is_marked_reference(r)
                        THEN Restart(t)
                        ELSE /\ Goto(t, "mark_cas")
                             /\ SetLocals(t, Null, left[t], Null, right[t], r.ptr)
                 /\ UNCHANGED <<heap, op, arg, ins, res, print, seen>>

\* The logical removal.
MarkCas(t) ==
  /\ pc[t] = "mark_cas"
  /\ LET r == Unmarked(rightNext[t]) IN
       IF CasSucceeds(right[t], r)
         THEN /\ Store(right[t], get_marked_reference(r))
              /\ res' = [res EXCEPT ![t] = "yes"]
              /\ Witness(arg[t], FALSE)
              /\ Goto(t, "unlink_cas")
              /\ UNCHANGED locals
         ELSE Restart(t) /\ UNCHANGED <<next, res, seen>>
  /\ UNCHANGED <<key, brk, linked, op, arg, ins, print>>

\* Seeded fault: when the physical removal fails, the node is left in the list.
UnlinkCas_NoSearch(t) ==
  /\ pc[t] = "unlink_cas"
  /\ Finish(t, "yes")
  /\ IF CasSucceeds(left[t], Unmarked(right[t]))
       THEN /\ Store(left[t], Unmarked(rightNext[t]))
            /\ linked' = linked \ {right[t]}
       ELSE UNCHANGED <<next, linked>>
  /\ UNCHANGED <<key, brk, op, arg, ins, print, seen>>

\* The physical removal; when it fails, search removes the node on its way.
UnlinkCas(t) ==
  /\ pc[t] = "unlink_cas"
  /\ IF CasSucceeds(left[t], Unmarked(right[t]))
       THEN /\ Store(left[t], Unmarked(rightNext[t]))
            /\ linked' = linked \ {right[t]}
            /\ Finish(t, "yes")
       ELSE Restart(t) /\ UNCHANGED <<next, linked, res>>
  /\ UNCHANGED <<key, brk, op, arg, ins, print, seen>>

-----------------------------------------------------------------------------
(* print_hashmap and List::print, called by the main thread *)

\* Go on with reference r to a node of bucket b: the end of a list leads to the
\* next bucket; a marked reference is no address of a node, and reading through
\* it is undefined: the iteration has derailed.
PrintAt(b, r) ==
  IF r = Unmarked(TailOf(b))
    THEN /\ printer' = IF b + 1 < NBuckets
                         THEN [pc |-> "bucket", bucket |-> b + 1, node |-> Null]
                         ELSE [pc |-> "done", bucket |-> b, node |-> Null]
         /\ UNCHANGED out
    ELSE IF is_marked_reference(r)
      THEN printer' = [pc |-> "derailed", bucket |-> b, node |-> Null] /\ UNCHANGED out
      ELSE /\ printer' = [pc |-> "test", bucket |-> b, node |-> r.ptr]
           /\ out' = Append(out, key[r.ptr])

PrintUnchanged == UNCHANGED <<heap, pc, op, arg, ins, locals, res, seen>>

print_hashmap == /\ printer.pc = "idle"
                 /\ PrintWhileBusy \/ \A t \in Thread : pc[t] = "idle"
                 /\ printer' = [pc |-> "bucket", bucket |-> 0, node |-> Null]
                 /\ UNCHANGED out
                 /\ PrintUnchanged

\* Seeded fault: the iteration begins behind the first node.
PrintBucket_SkipsFirst ==
  /\ printer.pc = "bucket"
  /\ PrintAt(printer.bucket, next[next[HeadOf(printer.bucket)].ptr])
  /\ PrintUnchanged

\* Node* node = head->next
PrintBucket == /\ printer.pc = "bucket"
               /\ PrintAt(printer.bucket, next[HeadOf(printer.bucket)])
               /\ PrintUnchanged

\* while (is_marked_reference(node->next.load())) node = node->next: the body
\* runs only for a marked reference, and assigns that reference to node.
PrintTest == /\ printer.pc = "test"
             /\ LET r == next[printer.node] IN
                  IF is_marked_reference(r) THEN PrintAt(printer.bucket, r)
                  ELSE printer' = [printer EXCEPT !.pc = "advance"] /\ UNCHANGED out
             /\ PrintUnchanged

\* node = node->next of the for statement: a second load.
PrintAdvance == /\ printer.pc = "advance"
                /\ PrintAt(printer.bucket, next[printer.node])
                /\ PrintUnchanged

PrintReturn == /\ printer.pc = "done"
               /\ printer' = [pc |-> "idle", bucket |-> 0, node |-> Null]
               /\ out' = <<>>
               /\ PrintUnchanged

-----------------------------------------------------------------------------
Step(t) == \/ SearchHead(t) \/ SearchLoad(t) \/ SearchUnlink(t) \/ SearchRecheck(t)
           \/ FindResult(t)
           \/ InsertTest(t) \/ InsertCas(t)
           \/ RemoveTest(t) \/ RemoveLoad(t) \/ MarkCas(t) \/ UnlinkCas(t)
           \/ Return(t)

Printing == print_hashmap \/ PrintBucket \/ PrintTest \/ PrintAdvance \/ PrintReturn

Next == \/ \E t \in Thread, k \in Key : insert_item(t, k) \/ remove_item(t, k) \/ lookup_item(t, k)
        \/ \E t \in Thread : Step(t)
        \/ Printing

\* A thread inside a call keeps being scheduled; nobody is obliged to call.
Fairness == \A t \in Thread : WF_vars(Step(t))

Spec == Init /\ [][Next]_vars /\ Fairness

-----------------------------------------------------------------------------
(* Properties *)

PC == {"idle", "search", "load", "unlink", "recheck", "found", "insert_cas",
       "remove_load", "mark_cas", "unlink_cas", "ret"}

\* Every variable keeps its type.
TypeOK == /\ key \in [Addr -> Int]
          /\ next \in [Addr -> Ref]
          /\ brk \in HeapStart .. HeapEnd
          /\ pc \in [Thread -> PC]
          /\ op \in [Thread -> {"none", "insert", "remove", "find"}]
          /\ arg \in [Thread -> Key]
          /\ ins \in [Thread -> Heap \cup {Null}]
          /\ node \in [Thread -> Addr \cup {Null}]
          /\ left \in [Thread -> Addr \cup {Null}]
          /\ leftNext \in [Thread -> Addr \cup {Null}]
          /\ right \in [Thread -> Addr \cup {Null}]
          /\ rightNext \in [Thread -> Addr \cup {Null}]
          /\ res \in [Thread -> {"none", "yes", "no"}]
          /\ linked \subseteq Heap
          /\ seen \in [Thread -> SUBSET BOOLEAN]

\* The nodes a walk over the references of bucket b meets, sentinels left out.
Reachable(b) ==
  LET walk[i \in 0 .. MaxNodes + 1] ==
        IF i = 0 THEN HeadOf(b)
        ELSE IF walk[i - 1] = Null THEN Null ELSE next[walk[i - 1]].ptr
  IN {walk[i] : i \in 1 .. MaxNodes + 1} \ {TailOf(b)}

\* The history variable `linked` says what the references say: the nodes of a
\* bucket are exactly the ones reachable from its head, so an unlinking step
\* takes out the nodes between left and right and no other, and no node that
\* was inserted and not removed is lost.
LinkedIsReachable ==
  \A b \in Bucket : Reachable(b) = {n \in linked : getIndex(key[n]) = b}

\* The list of a bucket is strictly sorted by key and holds no key twice, at
\* every instant and whatever the threads are in the middle of: that is what
\* search relies on when it stops at the first key that is not smaller.
Sorted ==
  \A n \in linked : LET m == next[n].ptr IN
    \/ m = TailOf(getIndex(key[n]))
    \/ m \in linked /\ getIndex(key[m]) = getIndex(key[n]) /\ key[n] < key[m]

\* Once a node is marked nobody changes its next any more: no insertion behind a
\* removed node is lost, and no node is removed twice.
MarkedFrozen == [][\A a \in Addr : next[a].mark => next'[a] = next[a]]_vars

\* When no call is in progress no removed node is left in a list: whoever marks
\* a node has it unlinked before its call returns.  print_hashmap relies on it.
QuiescentClean ==
  (\A t \in Thread : pc[t] = "idle") => \A n \in linked : ~next[n].mark

\* When nobody else runs, print_hashmap prints exactly the keys of the map, each
\* bucket in ascending order.
PrintShowsContents ==
  printer.pc = "done" /\ ~PrintWhileBusy =>
    /\ {out[i] : i \in DOMAIN out} = Contents
    /\ \A i, j \in DOMAIN out :
         i < j => \/ getIndex(out[i]) < getIndex(out[j])
                  \/ getIndex(out[i]) = getIndex(out[j]) /\ out[i] < out[j]

\* The map behaves as a set that changes at one instant of each call: the set
\* is what a walk over the references finds unmarked.
Abstract == INSTANCE ConcurrentSet WITH
  contents <- {key[n] : n \in {m \in UNION {Reachable(b) : b \in Bucket} : ~next[m].mark}},
  call <- [t \in Thread |-> IF op[t] = "none" THEN <<>> ELSE <<op[t], arg[t]>>],
  answer <- res

\* Every result of insert_item, remove_item and lookup_item is one an atomic
\* set could have given at some instant of the call.
Linearizable == Abstract!Spec

\* No call spins for ever: a call goes round again only because another call
\* has succeeded, so calls end once insertions stop.
CallsReturn == \A t \in Thread : (pc[t] # "idle") ~> (pc[t] = "idle")
=============================================================================
