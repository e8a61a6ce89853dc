--------------------------- MODULE DirectAllocator ---------------------------
(***************************************************************************)
(* task5-memory/src/direct_allocator.c and the page requests of common.c:  *)
(* allocations of two pages and more are mappings of their own, recorded   *)
(* in tables of Capacity entries that are chained.  The chain is one       *)
(* sequence of entries, Capacity per table.  Addresses are page numbers, 0 *)
(* is NULL; sizes count words, PageSize to a page.                         *)
(*                                                                         *)
(* A heap is a record [entries, tables, mem]: what the tables say, the     *)
(* pages they lie in, and the contents of the mapped pages.  A call maps a *)
(* heap to the set of its possible outcomes [ret, heap], one for every     *)
(* decision of the kernel.                                                 *)
(***************************************************************************)
EXTENDS Integers, Sequences, FiniteSets

CONSTANTS PageSize,   \* PAGE_SIZE, in words
          Capacity,   \* CAPACITY: entries in a table
          NPages,     \* bound: the pages of the address space
          Zero,       \* a word as the kernel clears it
          Junk        \* a word of the allocator's own

ASSUME PageAssumption == PageSize \in Nat \ {0}
ASSUME TableAssumption == Capacity \in Nat \ {0}
ASSUME SpaceAssumption == NPages \in Nat \ {0}
ASSUME WordAssumption == Zero # Junk

NULL == 0
Page == 1 .. NPages
Word == 0 .. PageSize - 1
Unmapped == <<>>

\* align_up(size, PAGE_SIZE), counted in pages
PagesFor(size) == (size + (PageSize - 1)) \div PageSize

Region(at, size) == at .. at + PagesFor(size) - 1

Mapped(mem) == {p \in Page : mem[p] # Unmapped}

-----------------------------------------------------------------------------
\* request_page: the kernel maps fresh zero pages anywhere, or refuses.  Nothing
\* is mapped for size 0.
request_page(size, mem) ==
  {[ret |-> NULL, mem |-> mem]} \cup
  {[ret |-> a,
    mem |-> [p \in Page |-> IF p \in Region(a, size) THEN [w \in Word |-> Zero] ELSE mem[p]]]
     : a \in {b \in Page : /\ size > 0
                           /\ Region(b, size) \subseteq Page \ Mapped(mem)}}

\* Seeded fault: one page too few is given back.
release_page_Short(at, size, mem) ==
  [p \in Page |-> IF at # NULL /\ p \in at .. at + PagesFor(size) - 2
                    THEN Unmapped ELSE mem[p]]

\* release_page.  Pages around address NULL hold nothing of the heap.
release_page(at, size, mem) ==
  [p \in Page |-> IF at # NULL /\ p \in Region(at, size) THEN Unmapped ELSE mem[p]]

Outcome(ret, entries, tables, mem) ==
  [ret |-> ret, heap |-> [entries |-> entries, tables |-> tables, mem |-> mem]]

Entry(size, pages) == [size |-> size, pages |-> pages]
EmptyTable == [i \in 1 .. Capacity |-> Entry(0, NULL)]

\* The first entry in chain order with the given pages field.
Holding(entries, pages) == {i \in DOMAIN entries : entries[i].pages = pages}
First(S) == CHOOSE i \in S : \A j \in S : i <= j

\* The pages of a new mapping of the given size go to entry i; the size is
\* recorded even if the kernel refused.
Record(entries, tables, mem, i, size) ==
  {Outcome(r.ret, [entries EXCEPT ![i] = Entry(size, r.ret)], tables, r.mem)
     : r \in request_page(size, mem)}

\* What a page says that holds a table.
TableWords == [w \in Word |-> Junk]

(***************************************************************************)
(* The first empty entry of the chain; if there is none, a page for one    *)
(* more table, whose first entry is then used.                             *)
(***************************************************************************)
direct_allocator_allocate(size, heap) ==
  LET empty == Holding(heap.entries, NULL)
  IN IF empty # {}
       THEN Record(heap.entries, heap.tables, heap.mem, First(empty), size)
     ELSE UNION {
       IF r.ret = NULL
         THEN {Outcome(NULL, heap.entries, heap.tables, r.mem)}
         ELSE Record(heap.entries \o EmptyTable, heap.tables \cup {r.ret},
                     [r.mem EXCEPT ![r.ret] = TableWords],
                     Len(heap.entries) + 1, size)
       : r \in request_page(PageSize, heap.mem)}

\* The entry of the pointer is emptied, its size stays.  NULL is found in an
\* empty entry.
direct_allocator_deallocate(at, heap) ==
  LET found == Holding(heap.entries, at)
      e == heap.entries[First(found)]
  IN IF found = {} THEN Outcome(FALSE, heap.entries, heap.tables, heap.mem)
     ELSE Outcome(TRUE, [heap.entries EXCEPT ![First(found)].pages = NULL],
                  heap.tables, release_page(e.pages, e.size, heap.mem))

\* The first n words from `from`, copied to `to`.
WordAt(mem, at, n) == mem[at + (n \div PageSize)][n % PageSize]
CopyWords(mem, to, from, n) ==
  [p \in Page |->
     IF p \notin Region(to, n) THEN mem[p]
     ELSE [w \in Word |->
             LET k == (p - to) * PageSize + w
             IN IF k < n THEN WordAt(mem, from, k) ELSE mem[p][w]]]

\* The pages of an entry from its start-th page on are given back.
Behind(e, start, mem) ==
  IF e.pages = NULL THEN mem
  ELSE release_page(e.pages + start, e.size - start * PageSize, mem)

\* Shrinking by a page or more: the pages from align_up(size) on go back.
Shrink(e, i, size, heap) ==
  LET start == PagesFor(size)
  IN Outcome(e.pages, [heap.entries EXCEPT ![i].size = size], heap.tables,
             Behind(e, start, heap.mem))

\* Seeded fault: the old pages are given back before the new ones are known.
Grow_ReleaseFirst(e, i, size, heap) ==
  LET rest == release_page(e.pages, e.size, heap.mem)
  IN {IF r.ret = NULL
        THEN Outcome(NULL, heap.entries, heap.tables, rest)
        ELSE Outcome(r.ret, [heap.entries EXCEPT ![i] = Entry(size, r.ret)], heap.tables, r.mem)
      : r \in request_page(size, rest)}

\* Growing: new pages, the recorded size copied, the old pages given back.  If
\* the kernel refuses, nothing changes.
Grow(e, i, size, heap) ==
  {IF r.ret = NULL
     THEN Outcome(NULL, heap.entries, heap.tables, heap.mem)
     ELSE Outcome(r.ret, [heap.entries EXCEPT ![i] = Entry(size, r.ret)], heap.tables,
                  release_page(e.pages, e.size, CopyWords(r.mem, r.ret, e.pages, e.size)))
   : r \in request_page(size, heap.mem)}

(***************************************************************************)
(* direct_allocator_reallocate.  A difference of less than a page changes  *)
(* nothing, the recorded size included.  NULL is looked for like any other *)
(* pointer and finds an empty entry with the size it last had; growing     *)
(* that one copies from NULL (the caller of this operator excludes it, see *)
(* CopiesFromNull).                                                        *)
(***************************************************************************)
direct_allocator_reallocate(at, size, heap) ==
  LET found == Holding(heap.entries, at)
      i == First(found)
      e == heap.entries[i]
  IN IF found = {} THEN {Outcome(NULL, heap.entries, heap.tables, heap.mem)}
     ELSE IF e.size < size THEN Grow(e, i, size, heap)
     ELSE IF e.size - size < PageSize
       THEN {Outcome(at, heap.entries, heap.tables, heap.mem)}
     ELSE {Shrink(e, i, size, heap)}

\* memcpy(insertion, NULL, allocation->size) with a size that is not 0
CopiesFromNull(at, size, heap) ==
  /\ at = NULL
  /\ Holding(heap.entries, NULL) # {}
  /\ heap.entries[First(Holding(heap.entries, NULL))].size \in 1 .. size - 1
=============================================================================
