----------------------------- MODULE BuddyBlock -----------------------------
(***************************************************************************)
(* task5-memory/src/buddy_block.c and buddy_allocator.c: the chain of      *)
(* buddy allocators that serves small allocations, with the part of        *)
(* realloc_impl (allocator.c) that moves an allocation out of it.  One     *)
(* thread calls; a step is one iteration of a loop.  The client's view,    *)
(* what it holds and what it wrote there, is part of the state: an         *)
(* allocation is known by a tag that fills its bytes.  Blocks of Capacity  *)
(* allocators are chained, so the allocators are a sequence; a pointer is  *)
(* <<allocator, offset>>.                                                  *)
(***************************************************************************)
EXTENDS BuddyTree, Sequences, FiniteSets

CONSTANTS Capacity,         \* CAPACITY: allocators in a block
          DirectThreshold,  \* DIRECT_ALLOCATION_THRESHOLD
          Tag,              \* bound: the allocations alive at one time
          NoTag,            \* a byte nobody wrote
          MallocSize,       \* the sizes malloc_impl sends here
          ReallocSize,      \* the sizes realloc_impl is called with
          MaxPages          \* bound: the pages the kernel grants

ASSUME CapacityAssumption == Capacity \in Nat \ {0}
ASSUME SizeAssumption == /\ MallocSize \subseteq 1 .. MaximalAllocation
                         /\ ReallocSize \subseteq Nat
                         /\ DirectThreshold \in Nat /\ DirectThreshold >= MaximalAllocation
ASSUME TagAssumption == NoTag \notin Tag
ASSUME PagesAssumption == MaxPages \in Nat \ {0}

VARIABLES nodes,   \* the bitmap of each allocator that has a page
          blocks,  \* the number of blocks in the chain
          mem,     \* the bytes of each page
          owned,   \* the client's allocations: tag -> [at, size, filled]
          pc,      \* the loop the call is in
          call,    \* the call: [op, tag, size, old, current, to]
          cur,     \* where it is: [a, i, bucket, offset, as]
          stray,   \* history: what the client still holds of the allocations that a
                   \* realloc unmarked and then could not move
          misled   \* history: the client has passed such an allocation to a call

vars == <<nodes, blocks, mem, owned, pc, call, cur, stray, misled>>
history == <<stray, misled>>

Byte == 0 .. MaximalAllocation - 1

Nowhere == <<0, NULL>>
Allocation(at, size, filled) == [at |-> at, size |-> size, filled |-> filled]
NoCall == [op |-> "none", tag |-> NoTag, size |-> 0, old |-> Allocation(Nowhere, 0, 0),
           current |-> 0, to |-> Nowhere]

\* The root of allocator a, which is tried as a part of the chain, because its page
\* is fresh, or because it has the allocation that is to grow.
Root(a, as) == [a |-> a, i |-> 0, bucket |-> 0, offset |-> 0, as |-> as]
Start == Root(0, "chain")

\* The first block is there: without its page (buddy_block.c:22) the first call
\* would dereference NULL, and the process would be gone.
Init == /\ nodes = <<>>
        /\ blocks = 1
        /\ mem = <<>>
        /\ owned = <<>>
        /\ pc = "idle"
        /\ call = NoCall
        /\ cur = Start
        /\ stray = <<>>
        /\ misled = FALSE

\* The client's allocations after tag got (or lost) one.
Owning(tag, at, size, filled) ==
  [g \in DOMAIN owned \cup {tag} |->
     IF g = tag THEN Allocation(at, size, filled) ELSE owned[g]]
NotOwning(tag) == [g \in DOMAIN owned \ {tag} |-> owned[g]]

\* The client fills [offset, offset + size) with its tag.
Fill(m, at, size, tag) ==
  [m EXCEPT ![at[1]] = [x \in Byte |-> IF at[2] <= x /\ x < at[2] + size THEN tag ELSE @[x]]]

\* Seeded fault: the bytes are not copied.
Copy_Nothing(m, to, from, size) == m

\* memcpy(to, from, size)
Copy(m, to, from, size) ==
  [m EXCEPT ![to[1]] =
     [x \in Byte |-> IF to[2] <= x /\ x < to[2] + size
                       THEN m[from[1]][from[2] + (x - to[2])] ELSE @[x]]]

\* What is in memory nobody holds is forgotten: no call reads it any more.
Held(m, own, other) ==
  [a \in DOMAIN m |-> [x \in Byte |->
     IF \E o \in {own[g] : g \in DOMAIN own} \cup {other[g] : g \in DOMAIN other} :
          o.at[1] = a /\ o.at[2] <= x /\ x < o.at[2] + o.size
       THEN m[a][x] ELSE NoTag]]

\* What is left of what the client wrote, after a reallocation.
Kept == IF call.old.filled < call.size THEN call.old.filled ELSE call.size

\* The call returns to the client, who then has `own` and finds m in memory.
Return(own, m) == /\ owned' = own
                  /\ mem' = Held(m, own, stray')
                  /\ pc' = "idle" /\ call' = NoCall /\ cur' = Start

\* The loop goes on, or another one begins, at c.
Goto(label, c) == pc' = label /\ cur' = c

marked == nodes[cur.a]
Mark(i) == nodes' = [nodes EXCEPT ![cur.a] = @ \cup {i}]
Unmark(i) == nodes' = [nodes EXCEPT ![cur.a] = @ \ {i}]
Up == [cur EXCEPT !.i = parent(@), !.bucket = @ - 1]

-----------------------------------------------------------------------------
(* The client's calls *)

Malloc(tag, size) ==
  /\ pc = "idle" /\ tag \notin DOMAIN owned \cup DOMAIN stray
  /\ call' = [NoCall EXCEPT !.op = "malloc", !.tag = tag, !.size = size]
  /\ Goto("try", Root(1, "chain"))
  /\ UNCHANGED <<nodes, blocks, mem, owned, history>>

\* buddy_block_deallocate and buddy_block_reallocate take the allocator whose
\* page holds the pointer.
Free(tag) ==
  /\ pc = "idle" /\ tag \in DOMAIN owned
  /\ call' = [NoCall EXCEPT !.op = "free", !.old = owned[tag]]
  /\ owned' = NotOwning(tag)
  /\ Goto("find", Root(owned[tag].at[1], "chain"))
  /\ UNCHANGED <<nodes, blocks, mem, history>>

Realloc(tag, size) ==
  /\ pc = "idle" /\ tag \in DOMAIN owned
  /\ call' = [NoCall EXCEPT !.op = "realloc", !.tag = tag, !.size = size,
                            !.old = owned[tag]]
  /\ owned' = NotOwning(tag)
  /\ Goto("find", Root(owned[tag].at[1], "chain"))
  /\ UNCHANGED <<nodes, blocks, mem, history>>

\* The same calls with an allocation that is stray, which the client cannot know.
CallOnStray(tag) ==
  /\ pc = "idle" /\ tag \in DOMAIN stray
  /\ \/ call' = [NoCall EXCEPT !.op = "free", !.old = stray[tag]]
     \/ \E size \in ReallocSize :
          call' = [NoCall EXCEPT !.op = "realloc", !.tag = tag, !.size = size,
                                 !.old = stray[tag]]
  /\ stray' = [g \in DOMAIN stray \ {tag} |-> stray[g]]
  /\ misled' = TRUE
  /\ Goto("find", Root(stray[tag].at[1], "chain"))
  /\ UNCHANGED <<nodes, blocks, mem, owned>>

\* The old place is freed; the bytes are at `to` already, or in the direct
\* allocator (outside this module) if that is Nowhere.
Release(to) ==
  /\ call' = [call EXCEPT !.op = "free", !.to = to]
  /\ Goto("find", Root(call.old.at[1], "chain"))
  /\ UNCHANGED history

\* The direct allocator is refused its page: realloc_impl returns NULL and the client
\* keeps its allocation.  That is unmarked if the call has tried to expand it.
Refused(m) ==
  LET old == call.old IN
  \/ /\ call.size <= MaximalAllocation
     /\ stray' = [g \in DOMAIN stray \cup {call.tag} |-> IF g = call.tag THEN old ELSE stray[g]]
     /\ Return(owned, m)
     /\ UNCHANGED misled
  \/ /\ call.size > MaximalAllocation
     /\ UNCHANGED history
     /\ Return(Owning(call.tag, old.at, old.size, old.filled), m)

\* realloc_impl moves the bytes to the direct allocator.
MoveOut(m) == \/ Release(Nowhere) /\ mem' = m /\ UNCHANGED owned
              \/ Refused(m)

-----------------------------------------------------------------------------
(* buddy_block_allocate *)

\* request_page: the kernel may refuse a page at any time, and grants no more than
\* MaxPages.  Blocks and allocators each take one.
PageLeft == Len(nodes) + blocks < MaxPages

\* The result is NULL, to malloc_impl or to realloc_impl.
Fail(m) == IF call.op = "malloc"
             THEN UNCHANGED history /\ Return(owned, m)
             ELSE MoveOut(m)

\* Seeded fault: only the newest allocator is tried.
Try_Newest ==
  /\ pc = "try" /\ cur.a <= Len(nodes)
  /\ IF call.size > MaximalAllocation \/ cur.a < Len(nodes)
       THEN Goto("try", Root(cur.a + 1, "chain")) ELSE Goto("search", cur)
  /\ UNCHANGED <<nodes, blocks, mem, owned, call, history>>

\* The next allocator has a page.
Try ==
  /\ pc = "try" /\ cur.a <= Len(nodes)
  /\ IF call.size > MaximalAllocation
       THEN Goto("try", Root(cur.a + 1, "chain")) ELSE Goto("search", cur)
  /\ UNCHANGED <<nodes, blocks, mem, owned, call, history>>

\* The last block is full.
NewBlock ==
  /\ pc = "try" /\ cur.a > Len(nodes) /\ Len(nodes) = blocks * Capacity
  /\ \/ /\ PageLeft
        /\ blocks' = blocks + 1
        /\ UNCHANGED <<mem, owned, pc, call, cur, history>>
     \/ /\ Fail(mem)
        /\ UNCHANGED blocks
  /\ UNCHANGED nodes

\* An allocator without page gets one, which stays even if the size does not fit
\* in it.  A fresh page is zero.
NewPage ==
  /\ pc = "try" /\ cur.a > Len(nodes) /\ Len(nodes) < blocks * Capacity
  /\ LET zeroed == Append(mem, [x \in Byte |-> NoTag]) IN
     \/ /\ PageLeft /\ call.size <= MaximalAllocation
        /\ nodes' = Append(nodes, {})
        /\ mem' = zeroed
        /\ Goto("search", Root(cur.a, "fresh"))
        /\ UNCHANGED <<owned, call, history>>
     \/ /\ PageLeft /\ call.size > MaximalAllocation
        /\ nodes' = Append(nodes, {})
        /\ Fail(zeroed)
     \/ /\ Fail(mem)
        /\ UNCHANGED nodes
  /\ UNCHANGED blocks

-----------------------------------------------------------------------------
(* buddy_allocator_allocate *)

\* An occupied node, or one that is too small to have room below.
Occupied == /\ cur.i \in marked
            /\ call.size > bucket_size(cur.bucket + 1) \/ ~is_split(marked, cur.i, cur.bucket)

Search ==
  /\ pc = "search"
  /\ \/ /\ Occupied
        /\ Goto("leave", cur)
        /\ UNCHANGED nodes
     \/ /\ ~Occupied /\ call.size <= bucket_size(cur.bucket + 1)
        /\ Goto("search", [cur EXCEPT !.i = left(@), !.bucket = @ + 1])
        /\ UNCHANGED nodes
     \/ /\ ~Occupied /\ call.size > bucket_size(cur.bucket + 1)
        /\ Mark(cur.i)
        /\ Goto("mark", cur)
  /\ UNCHANGED <<blocks, mem, owned, call, history>>

\* Where the chain goes on when this allocator has no room; a reallocation begins it.
NextAllocator == IF cur.as = "chain" THEN cur.a + 1 ELSE 1

\* Leave an occupied subtree: up to the first left child, then to its sibling.
\* At the root the whole tree has been tried and the result is NULL.
Leave ==
  /\ pc = "leave"
  /\ \/ /\ ~is_left(cur.i)
        /\ Goto("leave", [Up EXCEPT !.offset = @ - bucket_size(cur.bucket)])
        /\ UNCHANGED <<mem, owned, call, history>>
     \/ /\ is_left(cur.i) /\ cur.i # 0
        /\ Goto("search", [cur EXCEPT !.i = sibling(@), !.offset = @ + bucket_size(cur.bucket)])
        /\ UNCHANGED <<mem, owned, call, history>>
     \/ /\ cur.i = 0
        /\ IF cur.as = "fresh" THEN Fail(mem)
           ELSE /\ Goto("try", Root(NextAllocator, "chain"))
                /\ UNCHANGED <<mem, owned, call, history>>
  /\ UNCHANGED <<nodes, blocks>>

\* An allocation has been made at `to`: the client of malloc fills it, a
\* reallocation copies the bytes and frees the old place unless that was done before.
Allocated(to) ==
  LET moved == Copy(mem, to, call.old.at, call.current) IN
  \/ /\ call.op = "malloc"
     /\ UNCHANGED history
     /\ Return(Owning(call.tag, to, call.size, call.size), Fill(mem, to, call.size, call.tag))
  \/ /\ call.op = "realloc" /\ cur.as = "realloc"
     /\ UNCHANGED history
     /\ Return(Owning(call.tag, to, call.size, Kept), moved)
  \/ /\ call.op = "realloc" /\ cur.as # "realloc"
     /\ Release(to)
     /\ mem' = moved
     /\ UNCHANGED owned

\* Seeded fault: only the node is marked and not the nodes above it.
MarkUp_NodeOnly ==
  /\ pc = "mark"
  /\ Allocated(<<cur.a, cur.offset>>)
  /\ UNCHANGED <<nodes, blocks>>

\* Mark the nodes above the node found.
MarkUp ==
  /\ pc = "mark"
  /\ \/ /\ cur.i # 0
        /\ Mark(parent(cur.i))
        /\ Goto("mark", Up)
        /\ UNCHANGED <<mem, owned, call, history>>
     \/ /\ cur.i = 0
        /\ Allocated(<<cur.a, cur.offset>>)
        /\ UNCHANGED nodes
  /\ UNCHANGED blocks

-----------------------------------------------------------------------------
(* find_buddy and buddy_allocator_deallocate *)

\* Seeded fault: the size of the level above.
current_allocation_size_Above == bucket_size(cur.bucket - 1)

current_allocation_size == bucket_size(cur.bucket)

Find ==
  /\ pc = "find"
  /\ LET half == cur.offset + bucket_size(cur.bucket + 1)
         stop == cur.offset = call.old.at[2] /\ ~is_split(marked, cur.i, cur.bucket)
     IN \/ /\ stop /\ call.op = "free"
           /\ Goto("unmark", cur)
           /\ UNCHANGED call
        \/ /\ stop /\ call.op = "realloc"
           /\ Goto("shrink", cur)
           /\ call' = [call EXCEPT !.current = current_allocation_size]
        \/ /\ ~stop /\ call.old.at[2] < half
           /\ Goto("find", [cur EXCEPT !.i = left(@), !.bucket = @ + 1])
           /\ UNCHANGED call
        \/ /\ ~stop /\ call.old.at[2] >= half
           /\ Goto("find", [cur EXCEPT !.i = right(@), !.bucket = @ + 1, !.offset = half])
           /\ UNCHANGED call
  /\ UNCHANGED <<nodes, blocks, mem, owned, history>>

\* The call is over; a reallocation returns the new place.
Freed == /\ UNCHANGED history
         /\ Return(IF call.to = Nowhere THEN owned
                   ELSE Owning(call.tag, call.to, call.size, Kept), mem)

\* Seeded fault: buddies are not merged.
Deallocate_NoMerge ==
  /\ pc = "unmark"
  /\ Unmark(cur.i)
  /\ Freed
  /\ UNCHANGED blocks

\* Unmark the node and merge it with its sibling as long as that is free.
Deallocate ==
  /\ pc = "unmark"
  /\ Unmark(cur.i)
  /\ IF cur.i = 0 \/ sibling(cur.i) \in marked
       THEN Freed
       ELSE Goto("unmark", Up) /\ UNCHANGED <<mem, owned, call, history>>
  /\ UNCHANGED blocks

-----------------------------------------------------------------------------
(* buddy_allocator_reallocate and the rest of buddy_block_reallocate *)

\* Descend into left children while the size fits.  Then the allocation stays, or
\* it grows, or this component has no room for it.
Shrink ==
  /\ pc = "shrink"
  /\ LET small == call.size <= bucket_size(cur.bucket + 1) /\ cur.bucket < Depth - 1 IN
       \/ /\ small
          /\ Mark(left(cur.i))
          /\ Goto("shrink", [cur EXCEPT !.i = left(@), !.bucket = @ + 1])
          /\ UNCHANGED <<mem, owned, call, history>>
       \/ /\ ~small /\ call.size <= call.current
          /\ UNCHANGED history
          /\ Return(Owning(call.tag, call.old.at, call.size, Kept), mem)
          /\ UNCHANGED nodes
       \/ /\ ~small /\ call.current < call.size /\ call.size <= MaximalAllocation
          /\ Goto("expand", cur)
          /\ UNCHANGED <<nodes, mem, owned, call, history>>
       \/ /\ ~small /\ call.size > MaximalAllocation /\ call.size > DirectThreshold
          /\ MoveOut(mem)
          /\ UNCHANGED nodes
       \/ /\ ~small /\ call.size > MaximalAllocation /\ call.size <= DirectThreshold
          /\ Goto("try", Root(1, "chain"))
          /\ UNCHANGED <<nodes, mem, owned, call, history>>
  /\ UNCHANGED blocks

\* Grow into free siblings, unmarking the allocation on the way.  When a sibling is
\* in use the old place is free already, and another is looked for in this page.
Expand ==
  /\ pc = "expand"
  /\ \/ /\ bucket_size(cur.bucket) >= call.size
        /\ UNCHANGED history
        /\ LET to == <<cur.a, node_to_pointer(cur.i, cur.bucket)>> IN
             Return(Owning(call.tag, to, call.size, Kept),
                    IF to = call.old.at THEN mem ELSE Copy(mem, to, call.old.at, call.current))
        /\ UNCHANGED nodes
     \/ /\ bucket_size(cur.bucket) < call.size
        /\ Unmark(cur.i)
        /\ IF cur.bucket = 0 \/ sibling(cur.i) \in marked
             THEN Goto("search", Root(cur.a, "realloc"))
             ELSE Goto("expand", Up)
        /\ UNCHANGED <<mem, owned, call, history>>
  /\ UNCHANGED blocks

Step == \/ Try \/ NewBlock \/ NewPage \/ Search \/ Leave \/ MarkUp
        \/ Find \/ Deallocate \/ Shrink \/ Expand

Next == \/ \E tag \in Tag : \/ \E size \in MallocSize : Malloc(tag, size)
                            \/ \E size \in ReallocSize : Realloc(tag, size)
                            \/ Free(tag)
                            \/ CallOnStray(tag)
        \/ Step

Spec == Init /\ [][Next]_vars

-----------------------------------------------------------------------------
(* Properties *)

Pointer == ({0} \X {NULL}) \cup ((1 .. Len(nodes)) \X Byte)

AnyAllocation == [at : Pointer, size : Nat, filled : Nat]

TypeOK ==
  /\ nodes \in Seq(SUBSET Node)
  /\ blocks \in Nat
  /\ mem \in Seq([Byte -> Tag \cup {NoTag}]) /\ Len(mem) = Len(nodes)
  /\ DOMAIN owned \subseteq Tag
  /\ \A g \in DOMAIN owned : owned[g] \in AnyAllocation
  /\ pc \in {"idle", "try", "search", "leave", "mark", "find", "unmark", "shrink", "expand"}
  /\ call \in [op : {"none", "malloc", "free", "realloc"}, tag : Tag \cup {NoTag}, size : Nat,
               old : AnyAllocation, current : Nat, to : Pointer]
  /\ cur \in [a : Nat, i : Node, bucket : 0 .. Depth - 1, offset : Byte,
              as : {"chain", "fresh", "realloc"}]
  /\ DOMAIN stray \subseteq Tag
  /\ \A g \in DOMAIN stray :
       stray[g] \in [at : Nat \X (Byte \cup {NULL}), size : Nat, filled : Nat]
  /\ misled \in BOOLEAN

\* The bytes an allocation may use.
Extent(o) == {<<o.at[1], x>> : x \in o.at[2] .. o.at[2] + o.size - 1}

\* No two allocations share a byte and none leaves its page, after any sequence
\* of allocations, frees and reallocations, one that returned NULL included.  The
\* exception is what such a call leaves to the client after it has unmarked it
\* (allocator.c:75-77): that allocation may be given out again, and from the moment
\* the client passes it to free or realloc nothing is promised.
NoOverlap ==
  ~misled => \A g \in DOMAIN owned :
    /\ \A h \in DOMAIN owned : g # h => Extent(owned[g]) \cap Extent(owned[h]) = {}
    /\ owned[g].at[1] \in DOMAIN nodes
    /\ owned[g].size > 0 => \A p \in Extent(owned[g]) : p[2] \in Byte

\* realloc keeps what the client wrote, in whichever direction the block grows
\* and wherever it moves, and nobody else writes there; a call that returns NULL
\* before it has unmarked the allocation leaves it whole.  Stray ones excepted.
DataIntact ==
  ~misled => \A g \in DOMAIN owned : \A x \in 0 .. owned[g].filled - 1 :
    mem[owned[g].at[1]][owned[g].at[2] + x] = g

\* The node that stands for an allocation: on the lowest level that holds it.
LevelOf(size) == CHOOSE b \in 0 .. Depth - 1 :
                   /\ size <= bucket_size(b)
                   /\ b = Depth - 1 \/ size > bucket_size(b + 1)
NodeOf(o) == LET b == LevelOf(o.size) IN Pow2[b] - 1 + o.at[2] \div bucket_size(b)

\* Between calls the bitmap is exactly what the client's allocations call for: each
\* has the smallest buddy that holds it, and everything free, what a refused realloc
\* has unmarked included, is merged up to the root.
BitmapExact ==
  pc = "idle" /\ ~misled => \A a \in DOMAIN nodes :
    nodes[a] = UNION {PathToRoot(NodeOf(owned[g])) :
                        g \in {h \in DOMAIN owned : owned[h].at[1] = a}}

\* Allocator a has a free node on the level a request needs: no allocation lies
\* above, below or on it.
HasRoom(a, size) ==
  \E i \in Node : LET b == LevelOf(size) IN
    /\ Pow2[b] - 1 <= i /\ i < Pow2[b + 1] - 1
    /\ \A g \in DOMAIN owned :
         owned[g].at[1] = a => LET m == NodeOf(owned[g]) IN
                                 i \notin PathToRoot(m) /\ m \notin PathToRoot(i)

\* A call asks the kernel for a page, and fails if it gets none, only when no
\* allocator has a free buddy of the size it needs.
NoNeedlessPage ==
  ~misled /\ pc = "try" /\ cur.a > Len(nodes) /\ call.size <= MaximalAllocation
    => \A a \in DOMAIN nodes : ~HasRoom(a, call.size)

\* Where the next step copies the bytes of the allocation to
Destination ==
  CASE pc = "mark" /\ cur.i = 0 -> <<cur.a, cur.offset>>
    [] pc = "expand" /\ bucket_size(cur.bucket) >= call.size
         -> <<cur.a, node_to_pointer(cur.i, cur.bucket)>>
    [] OTHER -> call.old.at

\* memcpy never gets ranges that overlap: neither when an allocation grows to the
\* left nor when it moves within its page (buddy_allocator.c:209, 236-245).
CopiesApart ==
  ~misled /\ call.op = "realloc" /\ Destination # call.old.at /\ Destination[1] = call.old.at[1]
    => \/ Destination[2] + call.current <= call.old.at[2]
       \/ call.old.at[2] + call.current <= Destination[2]
=============================================================================
