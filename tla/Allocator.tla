------------------------------ MODULE Allocator ------------------------------
(***************************************************************************)
(* task5-memory/src/allocator.c: malloc, calloc, free and realloc as the   *)
(* preloaded library offers them, over the direct allocator in full and    *)
(* over what buddy_block.c and slot_allocator.c promise (the modules       *)
(* BuddyBlock and SlotAllocator model those): a cell is a piece of their   *)
(* memory, free or in use, that keeps its old contents when it is given    *)
(* out again.  The client is part of the state: it fills what malloc gives *)
(* it with a tag, leaves what calloc gives it as it is, and after a        *)
(* successful realloc fills the words that were added.                     *)
(***************************************************************************)
EXTENDS DirectAllocator

CONSTANTS Tag,              \* bound: the blocks a client holds at one time
          BuddyCells,       \* bound: blocks of the buddy allocators, by address
          SlotCells,        \* bound: blocks of the slot allocators, by address
          Bucket,           \* bucket_size of the smallest buddy for a size
          BuddyMax,         \* BUDDY_ALLOCATOR_MAXIMAL_ALLOCATION
          SlotMax,          \* the largest block of an arena
          SlotThreshold,    \* SLOT_ALLOCATOR_THRESHOLD
          DirectThreshold,  \* DIRECT_ALLOCATION_THRESHOLD
          MallocSize,       \* the sizes malloc is called with
          CallocArgs,       \* the <<count, size>> calloc is called with
          ReallocSize       \* the sizes realloc is called with

Cell == BuddyCells \cup SlotCells
CellWord == 0 .. SlotMax - 1

ASSUME CellAssumption == /\ Cell \subseteq {n \in Int : n < 0}
                         /\ BuddyCells \cap SlotCells = {}
ASSUME SizeAssumption ==
  /\ MallocSize \subseteq Nat \ {0} /\ ReallocSize \subseteq Nat
  /\ CallocArgs \subseteq (Nat \ {0}) \X (Nat \ {0})
  /\ {SlotThreshold, BuddyMax, DirectThreshold, SlotMax} \subseteq Nat
  /\ SlotThreshold <= BuddyMax /\ BuddyMax <= DirectThreshold
  /\ BuddyMax <= SlotMax /\ DirectThreshold <= SlotMax + 1
ASSUME BucketAssumption ==
  \A s \in 1 .. BuddyMax : Bucket[s] \in s .. BuddyMax
ASSUME TagAssumption == Zero \notin Tag /\ Junk \notin Tag

VARIABLES heap,   \* the direct allocator's tables and the mapped pages
          cells,  \* address -> [used, bucket, data]
          live,   \* tag -> [at, size, val]: what the client holds
          status, \* "ok", or how the process ended
          lost,   \* history: tag -> block the client still holds, which the
                  \* allocator unmarked before it refused to move it
          misled  \* history: an address stands for two blocks, or the client has
                  \* passed a lost block to a call

vars == <<heap, cells, live, status, lost, misled>>

\* The kernel has granted the first table's page (request_page of the first call);
\* if it refuses that one, the call dereferences NULL and the process ends.
Init == /\ heap = [entries |-> EmptyTable, tables |-> {1},
                   mem |-> [p \in Page |-> IF p = 1 THEN TableWords ELSE Unmapped]]
        /\ cells = [c \in Cell |-> [used |-> FALSE, bucket |-> 0,
                                    data |-> [w \in CellWord |-> Zero]]]
        /\ live = <<>>
        /\ status = "ok"
        /\ lost = <<>>
        /\ misled = FALSE

-----------------------------------------------------------------------------
(* The small allocators, as their callers see them. *)

CellRoom(c, size) == IF c \in BuddyCells THEN Bucket[size] ELSE size

Taken(c, size, cs) ==
  [cs EXCEPT ![c] = [used |-> TRUE, bucket |-> CellRoom(c, size), data |-> @.data]]

\* What a block held is in the way of the next owner (free writes nothing: the
\* words stay, and are not told apart here).
Released(c, cs) ==
  [cs EXCEPT ![c] = [used |-> FALSE, bucket |-> 0, data |-> [w \in CellWord |-> Junk]]]

\* buddy_block_allocate and slot_allocator_allocate: a free cell of their own,
\* which one does not matter, because they are alike; NULL if there is none.
small_allocate(among, size, cs) ==
  LET free == {c \in among : ~ cs[c].used}
      c == CHOOSE f \in free : TRUE
  IN IF free = {} THEN [ret |-> NULL, cells |-> cs]
     ELSE [ret |-> c, cells |-> Taken(c, size, cs)]

\* The first n words of some data, copied to a cell.
CopyCell(cs, to, data, n) ==
  [cs EXCEPT ![to].data = [w \in CellWord |-> IF w < n THEN data[w] ELSE @[w]]]

(***************************************************************************)
(* buddy_block_reallocate: [ret, current, cells].  current is 0 for a      *)
(* pointer of somebody else.  A block grows into a free neighbour or       *)
(* moves; one that has to move is unmarked before a new place is known,    *)
(* and stays unmarked when there is none.                                  *)
(***************************************************************************)
buddy_block_reallocate(at, size, cs) ==
  IF at \notin BuddyCells THEN {[ret |-> NULL, current |-> 0, cells |-> cs]}
  ELSE LET room == cs[at].bucket
           gone == [cs EXCEPT ![at].used = FALSE]
           stays == [ret |-> at, current |-> room,
                     cells |-> [cs EXCEPT ![at].bucket = Bucket[IF size = 0 THEN 1 ELSE size]]]
       IN IF size <= room THEN {stays}
          ELSE IF size > BuddyMax
            THEN {[ret |-> NULL, current |-> room, cells |-> cs]}
          ELSE {stays,
                LET r == small_allocate(BuddyCells \ {at}, size, gone) IN
                [ret |-> r.ret, current |-> room,
                 cells |-> IF r.ret = NULL THEN gone
                           ELSE CopyCell(Released(at, r.cells), r.ret, cs[at].data, room)]}

\* slot_allocator_reallocate: in place, in another span, or NULL when the arenas
\* have no room and the kernel gives no more.
slot_allocator_reallocate(at, size, cs) ==
  IF at \notin SlotCells THEN {[ret |-> NULL, cells |-> cs]}
  ELSE {[ret |-> NULL, cells |-> cs]} \cup
       (IF size > SlotMax THEN {} ELSE
          {[ret |-> at, cells |-> [cs EXCEPT ![at].bucket = size]],
           LET r == small_allocate(SlotCells, size, cs) IN
           [ret |-> r.ret,
            cells |-> IF r.ret = NULL THEN cs
                      ELSE CopyCell(Released(at, r.cells), r.ret, cs[at].data, cs[at].bucket)]})

-----------------------------------------------------------------------------
(* Results of a call: [ret, heap, cells]. *)

Small(r) == [ret |-> r.ret, heap |-> heap, cells |-> r.cells]
Direct(o, cs) == [ret |-> o.ret, heap |-> o.heap, cells |-> cs]

malloc_impl(size) ==
  IF size < SlotThreshold THEN {Small(small_allocate(BuddyCells, size, cells))}
  ELSE IF size < DirectThreshold
    THEN {Small(small_allocate(SlotCells, size, cells))}
  ELSE {Direct(o, cells) : o \in direct_allocator_allocate(size, heap)}

\* The client (or memset) puts v into the words from .. to - 1 of a block.
Put(r, from, to, v) ==
  IF r.ret \in Cell
    THEN [r EXCEPT !.cells[r.ret].data =
            [w \in CellWord |-> IF w \in from .. to - 1 THEN v ELSE @[w]]]
    ELSE [r EXCEPT !.heap.mem =
            [p \in Page |->
               IF p \notin r.ret .. r.ret + PagesFor(to) - 1 THEN @[p]
               ELSE [w \in Word |->
                       IF (p - r.ret) * PageSize + w \in from .. to - 1
                         THEN v ELSE @[p][w]]]]

\* Two entries with one address: realloc to 0 gives the pages back and leaves
\* their address in its entry, where the kernel may map something else.
Reused(h) == \E i, j \in DOMAIN h.entries :
               /\ i # j /\ h.entries[i].pages # NULL
               /\ h.entries[i].pages = h.entries[j].pages

Becomes(r) == heap' = r.heap /\ cells' = r.cells
Adopt(r) == Becomes(r) /\ misled' = (misled \/ Reused(r.heap))

Holds(tag, at, size, v) ==
  live' = [t \in DOMAIN live \cup {tag} |->
             IF t = tag THEN [at |-> at, size |-> size, val |-> v] ELSE live[t]]
LetsGo(tag) == live' = [t \in DOMAIN live \ {tag} |-> live[t]]
Forgets(tag) == lost' = [t \in DOMAIN lost \ {tag} |-> lost[t]]

Running == status = "ok"
Unused(tag) == tag \notin DOMAIN live \cup DOMAIN lost

malloc(tag, size) ==
  /\ Running /\ Unused(tag) /\ UNCHANGED lost
  /\ \E r \in malloc_impl(size) :
       IF r.ret = NULL THEN Adopt(r) /\ UNCHANGED <<live, status>>
       ELSE /\ Adopt(Put(r, 0, size, tag))
            /\ Holds(tag, r.ret, size, tag)
            /\ UNCHANGED status

\* calloc_impl: what the kernel has just mapped is zero already.
calloc_impl(count, size) ==
  {IF r.ret # NULL /\ size < DirectThreshold THEN Put(r, 0, count * size, Zero) ELSE r
     : r \in malloc_impl(count * size)}

\* memset is called with the pointer that malloc_impl returned, NULL or not.
ClearsNull(r, size) == r.ret = NULL /\ size < DirectThreshold

calloc(tag, count, size) ==
  /\ Running /\ Unused(tag) /\ UNCHANGED lost
  /\ \E r \in calloc_impl(count, size) :
       /\ Adopt(r)
       /\ status' = IF ClearsNull(r, size) THEN "cleared NULL" ELSE "ok"
       /\ IF r.ret = NULL THEN UNCHANGED live ELSE Holds(tag, r.ret, count * size, Zero)

\* Seeded fault: a pointer of the slot allocator is looked for nowhere else.
free_impl_NoSlot(at) ==
  LET o == direct_allocator_deallocate(at, heap)
  IN [heap |-> o.heap,
      cells |-> IF ~ o.ret /\ at \in BuddyCells THEN Released(at, cells) ELSE cells]

\* free_impl: the direct allocator, then the others, is asked for the pointer.
free_impl(at) ==
  LET o == direct_allocator_deallocate(at, heap)
  IN [heap |-> o.heap,
      cells |-> IF ~ o.ret /\ at \in Cell THEN Released(at, cells) ELSE cells]

free(tag) == /\ Running /\ tag \in DOMAIN live
             /\ Adopt(free_impl(live[tag].at))
             /\ LetsGo(tag)
             /\ UNCHANGED <<status, lost>>

free_null == /\ Running /\ Adopt(free_impl(NULL)) /\ UNCHANGED <<live, status, lost>>

\* memcpy of the first n words of a cell into fresh pages
CopyOut(r, from, n) ==
  [r EXCEPT !.heap.mem =
     [p \in Page |->
        IF p \notin Region(r.ret, n) THEN @[p]
        ELSE [w \in Word |->
                LET k == (p - r.ret) * PageSize + w
                IN IF k < n THEN cells[from].data[k] ELSE @[p][w]]]]

\* Out of the buddy allocator: a mapping of its own, even for a size below the
\* threshold.
MoveOut(at, size, b) ==
  {LET r == Direct(o, b.cells)
   IN IF o.ret = NULL THEN r
      ELSE [CopyOut(r, at, b.current) EXCEPT !.cells = Released(at, b.cells)]
   : o \in direct_allocator_allocate(size, heap)}

\* Neither in the buddy allocator nor moved: the slot, then the direct allocator.
Elsewhere(at, size, b) ==
  UNION {IF s.ret # NULL THEN {Small(s)}
         ELSE {Direct(o, s.cells) : o \in direct_allocator_reallocate(at, size, heap)}
         : s \in slot_allocator_reallocate(at, size, b.cells)}

realloc_impl(at, size) ==
  UNION {IF b.ret # NULL THEN {Small(b)}
         ELSE IF b.current = 0 THEN Elsewhere(at, size, b)
         ELSE MoveOut(at, size, b)
         : b \in buddy_block_reallocate(at, size, cells)}

\* The buddy allocator has unmarked the block, and nobody has room for it.
Stranded(at, r) == r.ret = NULL /\ at \in Cell /\ ~ r.cells[at].used

\* A client that gets NULL keeps its block, whether or not it is still marked.
realloc(tag, size) ==
  /\ Running /\ tag \in DOMAIN live /\ UNCHANGED status
  /\ LET old == live[tag] IN
       \E r \in realloc_impl(old.at, size) :
         \/ /\ Stranded(old.at, r)
            /\ Adopt(r)
            /\ LetsGo(tag)
            /\ lost' = [t \in DOMAIN lost \cup {tag} |-> IF t = tag THEN old ELSE lost[t]]
         \/ /\ r.ret = NULL /\ ~ Stranded(old.at, r)
            /\ Adopt(r)
            /\ UNCHANGED <<live, lost>>
         \/ /\ r.ret # NULL
            /\ Adopt(Put(r, old.size, size, old.val))
            /\ Holds(tag, r.ret, size, old.val)
            /\ UNCHANGED lost

\* free and realloc of a lost block, which the client cannot tell from another.
CallOnLost(tag) ==
  /\ Running /\ tag \in DOMAIN lost /\ UNCHANGED status
  /\ misled' = TRUE
  /\ LET old == lost[tag] IN
       \/ /\ Becomes(free_impl(old.at))
          /\ Forgets(tag)
          /\ UNCHANGED live
       \/ \E size \in ReallocSize : \E r \in realloc_impl(old.at, size) :
            IF r.ret = NULL THEN Becomes(r) /\ UNCHANGED <<live, lost>>
            ELSE /\ Becomes(Put(r, old.size, size, old.val))
                 /\ Holds(tag, r.ret, size, old.val)
                 /\ Forgets(tag)

\* realloc(NULL, size)
realloc_null(tag, size) ==
  /\ Running /\ Unused(tag) /\ UNCHANGED lost /\ size > 0
  /\ IF CopiesFromNull(NULL, size, heap)
       THEN status' = "copied from NULL" /\ UNCHANGED <<heap, cells, live, misled>>
       ELSE \E r \in realloc_impl(NULL, size) :
              IF r.ret = NULL THEN Adopt(r) /\ UNCHANGED <<live, status>>
              ELSE /\ Adopt(Put(r, 0, size, tag))
                   /\ Holds(tag, r.ret, size, tag)
                   /\ UNCHANGED status

Next == \/ \E tag \in Tag : \/ \E size \in MallocSize : malloc(tag, size)
                            \/ \E a \in CallocArgs : calloc(tag, a[1], a[2])
                            \/ free(tag)
                            \/ CallOnLost(tag)
                            \/ \E size \in ReallocSize : \/ realloc(tag, size)
                                                         \/ realloc_null(tag, size)
        \/ free_null

Spec == Init /\ [][Next]_vars

-----------------------------------------------------------------------------
(* Two calls end what the library can promise, and the properties name them: *)
(* after realloc to 0 (direct_allocator.c:99) the kernel may map the address *)
(* again that the table still has, and after a refused move (allocator.c:75) *)
(* the client may pass the unmarked block to free or to realloc.  From then  *)
(* on the run goes on, misled, and only RegionsExact is still asked for.     *)

EntryRegion(i) == Region(heap.entries[i].pages, heap.entries[i].size)
InUse == {i \in DOMAIN heap.entries : heap.entries[i].pages # NULL}

\* What the kernel has mapped is exactly the tables and the regions the tables
\* record, and these do not overlap: no page is lost by a shrinking realloc and
\* none is given back that is in use (release_page in direct_allocator.c).
RegionsExact ==
  /\ Mapped(heap.mem) = heap.tables \cup UNION {EntryRegion(i) : i \in InUse}
  /\ \A i \in InUse : EntryRegion(i) \cap heap.tables = {}
  /\ \A i, j \in InUse : i # j => EntryRegion(i) \cap EntryRegion(j) = {}

WordOf(b, w) == IF b.at \in Cell THEN cells[b.at].data[w]
                ELSE LET p == b.at + (w \div PageSize)
                     IN IF heap.mem[p] = Unmapped THEN Junk ELSE heap.mem[p][w % PageSize]

\* A client finds in every block what it put there, and zeros in what calloc gave
\* it, wherever realloc_impl has moved the block and also if the kernel refused to
\* move it; of a block that realloc_impl unmarked and then refused, nothing is
\* said (it is lost), and nothing of any block once a call was misled.
DataIntact ==
  ~misled => \A t \in DOMAIN live : \A w \in 0 .. live[t].size - 1 :
               WordOf(live[t], w) = live[t].val

\* The allocators' books agree with the client's, until a call is misled: the
\* addresses recorded are those of the client's blocks on pages of their own, each
\* with at least the client's size, and a cell is in use exactly if the client holds
\* it and was not refused after the unmark (free_impl finds every pointer's owner).
BooksBalance ==
  ~misled =>
    /\ {heap.entries[i].pages : i \in InUse} = {live[t].at : t \in DOMAIN live} \ Cell
    /\ \A t \in DOMAIN live : \A i \in InUse :
         heap.entries[i].pages = live[t].at => live[t].size <= heap.entries[i].size
    /\ {c \in Cell : cells[c].used} = {live[t].at : t \in DOMAIN live} \cap Cell
=============================================================================
