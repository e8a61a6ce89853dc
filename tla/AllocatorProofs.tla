--------------------------- MODULE AllocatorProofs ---------------------------
(***************************************************************************)
(* Proofs for Allocator and DirectAllocator: for every page size, table    *)
(* size, address space, threshold and set of cells, the mapped pages are   *)
(* exactly the recorded ones, the books of the library and of the client   *)
(* agree, and the client finds its data, until a call is misled: until the *)
(* kernel maps an address that the tables still have, or the client passes *)
(* on a block that was unmarked before its move was refused.               *)
(***************************************************************************)
EXTENDS Allocator, WellFoundedInduction, TLAPS

-----------------------------------------------------------------------------
(* Pages and words. *)

\* Division by the page size, as a quotient and a remainder.
LEMMA DivFacts ==
  ASSUME NEW n \in Nat
  PROVE  /\ n \div PageSize \in Nat /\ n % PageSize \in Word
         /\ n = (n \div PageSize) * PageSize + (n % PageSize)
BY PageAssumption DEF Word

\* Only one quotient and remainder give a number.
LEMMA DivUnique ==
  ASSUME NEW q \in Int, NEW r \in Int, NEW s \in Word, NEW w \in Word,
         q * PageSize + s = r * PageSize + w
  PROVE  q = r /\ s = w
<1>1. PageSize \in Nat /\ PageSize > 0 /\ s \in Int /\ w \in Int
      /\ 0 <= s /\ s < PageSize /\ 0 <= w /\ w < PageSize
  BY PageAssumption DEF Word
<1>2. ~ (q > r)
  <2>1. SUFFICES ASSUME q >= r + 1 PROVE FALSE
    OBVIOUS
  <2>2. (q - r - 1) * PageSize >= 0
    BY <2>1, <1>1
  <2>3. (q - r - 1) * PageSize = q * PageSize - r * PageSize - PageSize
    BY <1>1
  <2> QED
    BY <1>1, <2>2, <2>3
<1>3. ~ (q < r)
  <2>1. SUFFICES ASSUME r >= q + 1 PROVE FALSE
    OBVIOUS
  <2>2. (r - q - 1) * PageSize >= 0
    BY <2>1, <1>1
  <2>3. (r - q - 1) * PageSize = r * PageSize - q * PageSize - PageSize
    BY <1>1
  <2> QED
    BY <1>1, <2>2, <2>3
<1>4. q = r
  BY <1>2, <1>3
<1> QED
  BY <1>1, <1>4

\* The number of pages of a size is the least that holds it.
LEMMA PagesForFacts ==
  ASSUME NEW n \in Nat
  PROVE  /\ PagesFor(n) \in Nat
         /\ n <= PagesFor(n) * PageSize
         /\ PagesFor(n) * PageSize < n + PageSize
<1>1. PageSize \in Nat /\ PageSize > 0
  BY PageAssumption
<1>2. PICK m \in Nat : m = n + (PageSize - 1)
  BY <1>1
<1>3. /\ m \div PageSize \in Nat /\ m % PageSize \in Word
      /\ m = (m \div PageSize) * PageSize + (m % PageSize)
  BY DivFacts
<1>4. PICK q \in Nat, r \in Word : q = m \div PageSize /\ r = m % PageSize
  BY <1>3
<1>5. m = q * PageSize + r /\ r \in Int /\ 0 <= r /\ r < PageSize
  BY <1>1, <1>3, <1>4 DEF Word
<1>6. PagesFor(n) = q
  BY <1>2, <1>4 DEF PagesFor
<1>7. q * PageSize \in Int
  BY <1>1
<1>8. n <= q * PageSize /\ q * PageSize < n + PageSize
  BY <1>1, <1>2, <1>5, <1>7
<1> QED
  BY <1>6, <1>8

\* What comes before a multiple of the page size has a smaller quotient.
LEMMA BelowMultiple ==
  ASSUME NEW q \in Int, NEW m \in Int, q * PageSize < m * PageSize
  PROVE  q < m
<1>1. PageSize \in Nat /\ PageSize > 0
  BY PageAssumption
<1>2. SUFFICES ASSUME q - m >= 0 PROVE FALSE
  OBVIOUS
<1>3. (q - m) * PageSize >= 0
  BY <1>1, <1>2
<1>4. (q - m) * PageSize = q * PageSize - m * PageSize
  BY <1>1
<1>5. q * PageSize \in Int /\ m * PageSize \in Int
  BY <1>1
<1> QED
  BY <1>3, <1>4, <1>5

\* PagesFor is determined by its bounds.
LEMMA PagesForUnique ==
  ASSUME NEW n \in Nat, NEW q \in Nat,
         n <= q * PageSize, q * PageSize < n + PageSize
  PROVE  PagesFor(n) = q
<1>1. PageSize \in Nat /\ PageSize > 0
  BY PageAssumption
<1>2. /\ PagesFor(n) \in Nat /\ n <= PagesFor(n) * PageSize
      /\ PagesFor(n) * PageSize < n + PageSize
  BY PagesForFacts
<1>3. PICK m \in Nat : m = PagesFor(n)
  BY <1>2
<1>4. m * PageSize \in Int /\ q * PageSize \in Int
  BY <1>1
<1>5. q * PageSize < (m + 1) * PageSize
  <2>1. (m + 1) * PageSize = m * PageSize + PageSize
    BY <1>1
  <2> QED
    BY <1>1, <1>2, <1>3, <1>4, <2>1
<1>6. m * PageSize < (q + 1) * PageSize
  <2>1. (q + 1) * PageSize = q * PageSize + PageSize
    BY <1>1
  <2> QED
    BY <1>1, <1>2, <1>3, <1>4, <2>1
<1>7. q < m + 1 /\ m < q + 1
  BY <1>5, <1>6, BelowMultiple
<1> QED
  BY <1>3, <1>7

\* A word below the size lies on one of the pages, and the other way round the
\* last page has a word of it.
LEMMA WordOnPage ==
  ASSUME NEW n \in Nat, NEW q \in Nat, NEW w \in Word, q * PageSize + w < n
  PROVE  q < PagesFor(n)
<1>1. PageSize \in Nat /\ PageSize > 0 /\ w \in Nat
  BY PageAssumption DEF Word
<1>2. PagesFor(n) \in Nat /\ n <= PagesFor(n) * PageSize
  BY PagesForFacts
<1>3. PICK m \in Nat : m = PagesFor(n)
  BY <1>2
<1>4. m * PageSize \in Int /\ q * PageSize \in Int
  BY <1>1
<1>5. q * PageSize < m * PageSize
  BY <1>1, <1>2, <1>3, <1>4
<1> QED
  BY <1>3, <1>5, BelowMultiple

\* A larger size takes no fewer pages.
LEMMA PagesForMonotone ==
  ASSUME NEW m \in Nat, NEW n \in Nat, m <= n
  PROVE  PagesFor(m) <= PagesFor(n)
<1>1. PageSize \in Nat /\ PageSize > 0
  BY PageAssumption
<1>2. /\ PagesFor(m) \in Nat /\ PagesFor(m) * PageSize < m + PageSize
      /\ PagesFor(n) \in Nat /\ n <= PagesFor(n) * PageSize
  BY PagesForFacts
<1>3. PICK a \in Nat, b \in Nat : a = PagesFor(m) /\ b = PagesFor(n)
  BY <1>2
<1>4. a * PageSize \in Int /\ b * PageSize \in Int
  BY <1>1
<1>5. (b + 1) * PageSize = b * PageSize + PageSize
  BY <1>1
<1>6. a * PageSize < (b + 1) * PageSize
  BY <1>1, <1>2, <1>3, <1>4, <1>5
<1>7. a < b + 1
  BY <1>6, BelowMultiple
<1> QED
  BY <1>3, <1>7

\* Nothing takes no page, something at least one, a page exactly one.
LEMMA PagesForSmall ==
  /\ PagesFor(0) = 0 /\ PagesFor(PageSize) = 1
  /\ \A n \in Nat \ {0} : PagesFor(n) >= 1
<1>1. PageSize \in Nat /\ PageSize > 0
  BY PageAssumption
<1>2. PagesFor(0) = 0
  BY <1>1, PagesForUnique
<1>3. PagesFor(PageSize) = 1
  <2>1. 1 * PageSize = PageSize
    BY <1>1
  <2> QED
    BY <1>1, <2>1, PagesForUnique
<1>4. ASSUME NEW n \in Nat \ {0} PROVE PagesFor(n) >= 1
  <2>1. PagesFor(n) \in Nat /\ n <= PagesFor(n) * PageSize
    BY PagesForFacts
  <2> QED
    BY <1>1, <2>1
<1> QED
  BY <1>2, <1>3, <1>4

\* Behind the first s pages of a size are the pages of what is left of it.
LEMMA PagesForRest ==
  ASSUME NEW n \in Nat, NEW s \in Nat, s * PageSize <= n
  PROVE  n - s * PageSize \in Nat /\ PagesFor(n - s * PageSize) = PagesFor(n) - s
         /\ PagesFor(n) - s \in Nat
<1>1. PageSize \in Nat /\ PageSize > 0
  BY PageAssumption
<1>2. /\ PagesFor(n) \in Nat /\ n <= PagesFor(n) * PageSize
      /\ PagesFor(n) * PageSize < n + PageSize
  BY PagesForFacts
<1>3. PICK m \in Nat : m = PagesFor(n)
  BY <1>2
<1>4. m * PageSize \in Int /\ s * PageSize \in Nat
  BY <1>1
<1>5. PICK k \in Nat : k = n - s * PageSize
  BY <1>4
<1>6. s * PageSize < (m + 1) * PageSize
  <2>1. (m + 1) * PageSize = m * PageSize + PageSize
    BY <1>1
  <2> QED
    BY <1>1, <1>2, <1>3, <1>4, <2>1
<1>7. m - s \in Nat
  BY <1>6, BelowMultiple
<1>8. (m - s) * PageSize = m * PageSize - s * PageSize
  BY <1>1
<1>9. k <= (m - s) * PageSize /\ (m - s) * PageSize < k + PageSize
  BY <1>1, <1>2, <1>3, <1>4, <1>5, <1>8
<1>10. PagesFor(k) = m - s
  BY <1>7, <1>9, PagesForUnique
<1> QED
  BY <1>3, <1>5, <1>7, <1>10

-----------------------------------------------------------------------------
(* Heaps: what the operations of the direct allocator do to the mapped pages. *)

Val == Tag \cup {Zero, Junk}
Content == {Unmapped} \cup [Word -> Val]
Heap == [entries : Seq([size : Nat, pages : Page \cup {NULL}]),
         tables : SUBSET Page, mem : [Page -> Content]]

\* RegionsExact, of any heap.
Used(h) == {i \in DOMAIN h.entries : h.entries[i].pages # NULL}
Reg(h, i) == Region(h.entries[i].pages, h.entries[i].size)
Exact(h) ==
  /\ Mapped(h.mem) = h.tables \cup UNION {Reg(h, i) : i \in Used(h)}
  /\ \A i \in Used(h) : Reg(h, i) \cap h.tables = {}
  /\ \A i, j \in Used(h) : i # j => Reg(h, i) \cap Reg(h, j) = {}

LEMMA WordsAreMapped ==
  /\ 0 \in Word
  /\ \A x \in [Word -> Val] : x # Unmapped
<1>1. 0 \in Word
  BY PageAssumption DEF Word
<1>2. ASSUME NEW x \in [Word -> Val] PROVE x # Unmapped
  <2>1. DOMAIN x # {}
    BY <1>1
  <2>2. DOMAIN << >> = {}
    OBVIOUS
  <2> QED
    BY <2>1, <2>2 DEF Unmapped
<1> QED
  BY <1>1, <1>2

LEMMA SeqParts ==
  ASSUME NEW S, NEW s \in Seq(S)
  PROVE  /\ DOMAIN s = 1 .. Len(s) /\ Len(s) \in Nat
         /\ \A i \in DOMAIN s : s[i] \in S
OBVIOUS

LEMMA HeapParts ==
  ASSUME NEW h \in Heap
  PROVE  /\ h.entries \in Seq([size : Nat, pages : Page \cup {NULL}])
         /\ h.tables \subseteq Page /\ h.mem \in [Page -> Content]
         /\ DOMAIN h.entries = 1 .. Len(h.entries) /\ Len(h.entries) \in Nat
         /\ \A i \in DOMAIN h.entries :
              /\ h.entries[i] \in [size : Nat, pages : Page \cup {NULL}]
              /\ h.entries[i].size \in Nat /\ h.entries[i].pages \in Page \cup {NULL}
              /\ h.entries[i] = Entry(h.entries[i].size, h.entries[i].pages)
<1>1. /\ h.entries \in Seq([size : Nat, pages : Page \cup {NULL}])
      /\ h.tables \subseteq Page /\ h.mem \in [Page -> Content]
  BY DEF Heap
<1>2. DOMAIN h.entries = 1 .. Len(h.entries) /\ Len(h.entries) \in Nat
  BY <1>1
<1>3. ASSUME NEW i \in DOMAIN h.entries
      PROVE  /\ h.entries[i] \in [size : Nat, pages : Page \cup {NULL}]
             /\ h.entries[i].size \in Nat /\ h.entries[i].pages \in Page \cup {NULL}
             /\ h.entries[i] = Entry(h.entries[i].size, h.entries[i].pages)
  <2>1. h.entries[i] \in [size : Nat, pages : Page \cup {NULL}]
    BY <1>1, SeqParts
  <2> QED
    BY <2>1 DEF Entry
<1> QED
  BY <1>1, <1>2, <1>3

\* The kernel gives pages that were not mapped, cleared, and leaves the others.
LEMMA RequestPage ==
  ASSUME NEW mem \in [Page -> Content], NEW size \in Nat,
         NEW r \in request_page(size, mem)
  PROVE  /\ r.mem \in [Page -> Content] /\ r.ret \in Page \cup {NULL}
         /\ r.ret = NULL => r.mem = mem
         /\ r.ret # NULL =>
              /\ size > 0 /\ Region(r.ret, size) \subseteq Page \ Mapped(mem)
              /\ \A p \in Region(r.ret, size) : r.mem[p] = [w \in Word |-> Zero]
              /\ \A p \in Page \ Region(r.ret, size) : r.mem[p] = mem[p]
              /\ Mapped(r.mem) = Mapped(mem) \cup Region(r.ret, size)
<1>1. CASE r = [ret |-> NULL, mem |-> mem]
  BY <1>1
<1>2. CASE \E a \in Page : /\ size > 0 /\ Region(a, size) \subseteq Page \ Mapped(mem)
                           /\ r = [ret |-> a, mem |-> [p \in Page |-> IF p \in Region(a, size)
                                     THEN [w \in Word |-> Zero] ELSE mem[p]]]
  <2>1. PICK a \in Page :
          /\ size > 0 /\ Region(a, size) \subseteq Page \ Mapped(mem)
          /\ r = [ret |-> a, mem |-> [p \in Page |-> IF p \in Region(a, size)
                    THEN [w \in Word |-> Zero] ELSE mem[p]]]
    BY <1>2
  <2>2. r.ret = a /\ r.ret # NULL /\ r.ret \in Page
    BY <2>1, SpaceAssumption DEF Page, NULL
  <2>3. r.mem = [p \in Page |-> IF p \in Region(a, size)
                                  THEN [w \in Word |-> Zero] ELSE mem[p]]
    BY <2>1
  <2>4. [w \in Word |-> Zero] \in [Word -> Val]
    BY DEF Val
  <2>5. r.mem \in [Page -> Content]
    BY <2>3, <2>4 DEF Content
  <2>6. Mapped(r.mem) = Mapped(mem) \cup Region(a, size)
    BY <2>1, <2>3, <2>4, WordsAreMapped DEF Mapped
  <2> QED
    BY <2>1, <2>2, <2>3, <2>5, <2>6
<1>3. r = [ret |-> NULL, mem |-> mem] \/
      \E a \in Page : /\ size > 0 /\ Region(a, size) \subseteq Page \ Mapped(mem)
                      /\ r = [ret |-> a, mem |-> [p \in Page |-> IF p \in Region(a, size)
                                THEN [w \in Word |-> Zero] ELSE mem[p]]]
  BY DEF request_page
<1> QED
  BY <1>1, <1>2, <1>3

\* Pages that are given back are no longer mapped, the others are left.
LEMMA ReleasePage ==
  ASSUME NEW mem \in [Page -> Content], NEW at \in Int, NEW size \in Int
  PROVE  /\ release_page(at, size, mem) \in [Page -> Content]
         /\ at # NULL => /\ Mapped(release_page(at, size, mem)) = Mapped(mem) \ Region(at, size)
                         /\ \A p \in Page \ Region(at, size) :
                              release_page(at, size, mem)[p] = mem[p]
         /\ at = NULL => release_page(at, size, mem) = mem
<1>1. release_page(at, size, mem) \in [Page -> Content]
  BY DEF release_page, Content
<1>2. ASSUME at # NULL
      PROVE  /\ Mapped(release_page(at, size, mem)) = Mapped(mem) \ Region(at, size)
             /\ \A p \in Page \ Region(at, size) :
                  release_page(at, size, mem)[p] = mem[p]
  BY <1>2 DEF release_page, Mapped
<1>3. ASSUME at = NULL PROVE release_page(at, size, mem) = mem
  BY <1>3 DEF release_page
<1> QED
  BY <1>1, <1>2, <1>3

\* One entry changes, with the pages it records.
LEMMA ExactEntry ==
  ASSUME NEW h \in Heap, NEW g \in Heap, NEW i, NEW O, NEW N, Exact(h),
         Used(g) \ {i} = Used(h) \ {i}, g.tables = h.tables,
         \A j \in Used(h) \ {i} : g.entries[j] = h.entries[j],
         O = IF i \in Used(h) THEN Reg(h, i) ELSE {},
         N = IF i \in Used(g) THEN Reg(g, i) ELSE {},
         N \cap Mapped(h.mem) \subseteq O,
         Mapped(g.mem) = (Mapped(h.mem) \ O) \cup N
  PROVE  Exact(g)
<1>1. \A j \in Used(h) \ {i} : Reg(g, j) = Reg(h, j)
  BY DEF Reg
<1>2. \A j \in Used(h) \ {i} : Reg(h, j) \cap O = {}
  BY DEF Exact
<1>3. O \cap h.tables = {}
  BY DEF Exact
<1>4. \A j \in Used(h) : Reg(h, j) \subseteq Mapped(h.mem)
  BY DEF Exact
<1>5. h.tables \subseteq Mapped(h.mem)
  BY DEF Exact
<1>6. \A j \in Used(g) \ {i} : Reg(g, j) \cap N = {}
  BY <1>1, <1>2, <1>4
<1>7. N \cap g.tables = {}
  BY <1>3, <1>5
<1>8. Mapped(g.mem) = g.tables \cup UNION {Reg(g, j) : j \in Used(g)}
  <2>1. ASSUME NEW p \in Mapped(g.mem)
        PROVE  p \in g.tables \cup UNION {Reg(g, j) : j \in Used(g)}
    <3>1. CASE p \in N
      BY <3>1
    <3>2. CASE p \notin N
      <4>1. p \in Mapped(h.mem) \ O
        BY <3>2
      <4>2. p \in h.tables \/ \E j \in Used(h) : p \in Reg(h, j)
        BY <4>1 DEF Exact
      <4>3. ASSUME NEW j \in Used(h), p \in Reg(h, j) PROVE \E k \in Used(g) : p \in Reg(g, k)
        <5>1. j # i
          BY <4>1, <4>3
        <5> QED
          BY <5>1, <4>3, <1>1
      <4> QED
        BY <4>2, <4>3
    <3> QED
      BY <3>1, <3>2
  <2>2. g.tables \subseteq Mapped(g.mem)
    BY <1>3, <1>5
  <2>3. ASSUME NEW j \in Used(g) PROVE Reg(g, j) \subseteq Mapped(g.mem)
    <3>1. CASE j = i
      BY <3>1
    <3>2. CASE j # i
      <4>1. j \in Used(h) \ {i}
        BY <3>2
      <4> QED
        BY <4>1, <1>1, <1>2, <1>4
    <3> QED
      BY <3>1, <3>2
  <2> QED
    BY <2>1, <2>2, <2>3
<1>9. \A j \in Used(g) : Reg(g, j) \cap g.tables = {}
  <2>1. ASSUME NEW j \in Used(g) \ {i} PROVE Reg(g, j) \cap g.tables = {}
    BY <1>1 DEF Exact
  <2> QED
    BY <2>1, <1>7
<1>10. \A j, k \in Used(g) : j # k => Reg(g, j) \cap Reg(g, k) = {}
  <2>1. ASSUME NEW j \in Used(g) \ {i}, NEW k \in Used(g) \ {i}, j # k
        PROVE  Reg(g, j) \cap Reg(g, k) = {}
    BY <2>1, <1>1 DEF Exact
  <2> QED
    BY <2>1, <1>6
<1> QED
  BY <1>8, <1>9, <1>10 DEF Exact

\* One more page holds a table.
LEMMA ExactTable ==
  ASSUME NEW h \in Heap, NEW g \in Heap, NEW a, Exact(h),
         Used(g) = Used(h), g.tables = h.tables \cup {a},
         \A j \in Used(h) : g.entries[j] = h.entries[j],
         a \notin Mapped(h.mem), Mapped(g.mem) = Mapped(h.mem) \cup {a}
  PROVE  Exact(g)
<1>1. \A j \in Used(h) : Reg(g, j) = Reg(h, j)
  BY DEF Reg
<1>2. \A j \in Used(h) : Reg(h, j) \subseteq Mapped(h.mem)
  BY DEF Exact
<1>3. Mapped(g.mem) = g.tables \cup UNION {Reg(g, j) : j \in Used(g)}
  BY <1>1 DEF Exact
<1>4. \A j \in Used(g) : Reg(g, j) \cap g.tables = {}
  BY <1>1, <1>2 DEF Exact
<1>5. \A j, k \in Used(g) : j # k => Reg(g, j) \cap Reg(g, k) = {}
  BY <1>1 DEF Exact
<1> QED
  BY <1>3, <1>4, <1>5 DEF Exact

-----------------------------------------------------------------------------
(* Allocation. *)

Less == {ad \in Nat \X Nat : ad[1] < ad[2]}

\* There is a first entry among some entries.
LEMMA FirstIn ==
  ASSUME NEW S \in SUBSET Nat, S # {}
  PROVE  First(S) \in S
<1>1. IsWellFoundedOn(Less, Nat)
  BY NatLessThanWellFounded DEF OpToRel, Less
<1>2. PICK i \in S : \A j \in S : ~ (<<j, i>> \in Less)
  BY <1>1, WFMin
<1>3. ASSUME NEW j \in S PROVE i <= j
  <2>1. i \in Nat /\ j \in Nat /\ ~ (<<j, i>> \in Less)
    BY <1>2
  <2> QED
    BY <2>1 DEF Less
<1> QED
  BY <1>3 DEF First

\* g records all that h does, and the pages that were mapped are as they were.
Keeps(h, g) ==
  /\ g \in Heap /\ Exact(g) /\ Used(g) = Used(h)
  /\ \A j \in Used(h) : g.entries[j] = h.entries[j]
  /\ \A p \in Mapped(h.mem) : g.mem[p] = h.mem[p]

\* Besides, g records n words at page a in an entry that h does not use.
Grants(h, g, i, a, n) ==
  /\ g \in Heap /\ Exact(g) /\ a \in Page /\ i \notin Used(h) /\ Used(g) = Used(h) \cup {i}
  /\ g.entries[i] = Entry(n, a)
  /\ Region(a, n) \cap Mapped(h.mem) = {}
  /\ \A j \in Used(h) : g.entries[j] = h.entries[j]
  /\ \A p \in Mapped(h.mem) : g.mem[p] = h.mem[p]

LEMMA RecordFacts ==
  ASSUME NEW h \in Heap, Exact(h), NEW i \in DOMAIN h.entries, h.entries[i].pages = NULL,
         NEW size \in Nat, NEW o \in Record(h.entries, h.tables, h.mem, i, size)
  PROVE  /\ o.ret \in Page \cup {NULL}
         /\ o.ret = NULL => Keeps(h, o.heap)
         /\ o.ret # NULL => /\ Grants(h, o.heap, i, o.ret, size)
                            /\ \A p \in Region(o.ret, size) : o.heap.mem[p] = [w \in Word |-> Zero]
<1>1. PICK r \in request_page(size, h.mem) :
        o = Outcome(r.ret, [h.entries EXCEPT ![i] = Entry(size, r.ret)], h.tables, r.mem)
  BY DEF Record
<1>2. /\ h.entries \in Seq([size : Nat, pages : Page \cup {NULL}])
      /\ h.tables \subseteq Page /\ h.mem \in [Page -> Content]
  BY HeapParts
<1>3. /\ r.mem \in [Page -> Content] /\ r.ret \in Page \cup {NULL}
      /\ r.ret = NULL => r.mem = h.mem
      /\ r.ret # NULL =>
           /\ size > 0 /\ Region(r.ret, size) \subseteq Page \ Mapped(h.mem)
           /\ \A p \in Region(r.ret, size) : r.mem[p] = [w \in Word |-> Zero]
           /\ \A p \in Page \ Region(r.ret, size) : r.mem[p] = h.mem[p]
           /\ Mapped(r.mem) = Mapped(h.mem) \cup Region(r.ret, size)
  BY <1>2, RequestPage
<1>4. PICK g : g = o.heap
  OBVIOUS
<1>5. /\ o.ret = r.ret /\ g.entries = [h.entries EXCEPT ![i] = Entry(size, r.ret)]
      /\ g.tables = h.tables /\ g.mem = r.mem
  BY <1>1, <1>4 DEF Outcome
<1>6. g \in Heap
  <2>1. Entry(size, r.ret) \in [size : Nat, pages : Page \cup {NULL}]
    BY <1>3 DEF Entry
  <2>2. [h.entries EXCEPT ![i] = Entry(size, r.ret)] \in Seq([size : Nat, pages : Page \cup {NULL}])
    BY <1>2, <2>1
  <2> QED
    BY <1>1, <1>2, <1>3, <1>4, <2>2 DEF Heap, Outcome
<1>7. /\ DOMAIN g.entries = DOMAIN h.entries /\ i \notin Used(h)
      /\ g.entries[i] = Entry(size, r.ret)
      /\ \A j \in DOMAIN h.entries \ {i} : g.entries[j] = h.entries[j]
  BY <1>2, <1>5 DEF Used
<1>8. Used(g) = IF r.ret = NULL THEN Used(h) ELSE Used(h) \cup {i}
  BY <1>7 DEF Used, Entry
<1>9. \A j \in Used(h) : j # i /\ g.entries[j] = h.entries[j]
  BY <1>7 DEF Used
<1>10. CASE r.ret = NULL
  <2>1. Mapped(g.mem) = (Mapped(h.mem) \ {}) \cup {} /\ {} \cap Mapped(h.mem) \subseteq {}
    BY <1>10, <1>3, <1>5
  <2>2. Exact(g)
    <3>1. /\ {} = (IF i \in Used(h) THEN Reg(h, i) ELSE {})
          /\ {} = (IF i \in Used(g) THEN Reg(g, i) ELSE {})
          /\ Used(g) \ {i} = Used(h) \ {i} /\ g.tables = h.tables
          /\ \A j \in Used(h) \ {i} : g.entries[j] = h.entries[j]
      BY <1>5, <1>7, <1>8, <1>9, <1>10
    <3> QED
      BY <3>1, <2>1, <1>6, ExactEntry
  <2>3. Keeps(h, g)
    BY <1>3, <1>5, <1>6, <1>8, <1>9, <1>10, <2>2 DEF Keeps
  <2> QED
    BY <1>4, <1>5, <1>10, <2>3
<1>11. CASE r.ret # NULL
  <2>1. Reg(g, i) = Region(r.ret, size)
    BY <1>7 DEF Reg, Entry
  <2>2. /\ Reg(g, i) \cap Mapped(h.mem) \subseteq {}
        /\ Mapped(g.mem) = (Mapped(h.mem) \ {}) \cup Reg(g, i)
    BY <1>11, <1>3, <1>5, <2>1
  <2>3. Exact(g)
    <3>1. /\ {} = (IF i \in Used(h) THEN Reg(h, i) ELSE {})
          /\ Reg(g, i) = (IF i \in Used(g) THEN Reg(g, i) ELSE {})
          /\ Used(g) \ {i} = Used(h) \ {i} /\ g.tables = h.tables
          /\ \A j \in Used(h) \ {i} : g.entries[j] = h.entries[j]
      BY <1>5, <1>7, <1>8, <1>9, <1>11
    <3> QED
      BY <3>1, <2>2, <1>6, ExactEntry
  <2>4. \A p \in Mapped(h.mem) : g.mem[p] = h.mem[p]
    BY <1>3, <1>5, <1>11 DEF Mapped
  <2>5. Grants(h, g, i, r.ret, size)
    BY <1>3, <1>6, <1>7, <1>8, <1>9, <1>11, <2>2, <2>1, <2>3, <2>4 DEF Grants
  <2>6. \A p \in Region(r.ret, size) : g.mem[p] = [w \in Word |-> Zero]
    BY <1>3, <1>5, <1>11
  <2> QED
    BY <1>3, <1>4, <1>5, <1>11, <2>5, <2>6
<1> QED
  BY <1>10, <1>11

LEMMA ConcatParts ==
  ASSUME NEW S, NEW s \in Seq(S), NEW t \in Seq(S)
  PROVE  /\ s \o t \in Seq(S) /\ DOMAIN (s \o t) = 1 .. Len(s) + Len(t)
         /\ \A i \in 1 .. Len(s) : (s \o t)[i] = s[i]
         /\ \A i \in 1 .. Len(t) : (s \o t)[Len(s) + i] = t[i]
OBVIOUS

WithTable(h, r) == [entries |-> h.entries \o EmptyTable, tables |-> h.tables \cup {r.ret},
                    mem |-> [r.mem EXCEPT ![r.ret] = TableWords]]

\* One more table, in a page the kernel has just given.
LEMMA TableFacts ==
  ASSUME NEW h \in Heap, Exact(h), NEW r \in request_page(PageSize, h.mem), r.ret # NULL,
         NEW g, g = WithTable(h, r)
  PROVE  /\ Keeps(h, g) /\ Mapped(h.mem) \subseteq Mapped(g.mem)
         /\ Len(h.entries) + 1 \in DOMAIN g.entries
         /\ g.entries[Len(h.entries) + 1].pages = NULL
<1>1. /\ h.entries \in Seq([size : Nat, pages : Page \cup {NULL}])
      /\ h.tables \subseteq Page /\ h.mem \in [Page -> Content]
      /\ DOMAIN h.entries = 1 .. Len(h.entries) /\ Len(h.entries) \in Nat
  BY HeapParts
<1>2. PageSize \in Nat
  BY PageAssumption
<1>3. /\ r.mem \in [Page -> Content] /\ r.ret \in Page
      /\ Region(r.ret, PageSize) \subseteq Page \ Mapped(h.mem)
      /\ \A p \in Page \ Region(r.ret, PageSize) : r.mem[p] = h.mem[p]
      /\ Mapped(r.mem) = Mapped(h.mem) \cup Region(r.ret, PageSize)
  BY <1>1, <1>2, RequestPage
<1>4. Region(r.ret, PageSize) = {r.ret}
  BY <1>3, PagesForSmall DEF Region, Page
<1>5. TableWords \in [Word -> Val]
  BY DEF TableWords, Val
<1>6. g.mem = [r.mem EXCEPT ![r.ret] = TableWords] /\ g.mem \in [Page -> Content]
  BY <1>3, <1>5 DEF Content, WithTable
<1>7. /\ EmptyTable \in Seq([size : Nat, pages : Page \cup {NULL}])
      /\ Len(EmptyTable) = Capacity /\ Capacity \in Nat /\ Capacity >= 1
      /\ EmptyTable[1].pages = NULL
  BY TableAssumption DEF EmptyTable, Entry
<1>8. g \in Heap
  <2>1. h.entries \o EmptyTable \in Seq([size : Nat, pages : Page \cup {NULL}])
    BY <1>1, <1>7
  <2>2. h.tables \cup {r.ret} \subseteq Page
    BY <1>1, <1>3
  <2> QED
    BY <1>6, <2>1, <2>2 DEF Heap, WithTable
<1>9. /\ DOMAIN g.entries = 1 .. Len(h.entries) + Capacity
      /\ \A j \in DOMAIN h.entries : g.entries[j] = h.entries[j]
      /\ \A j \in DOMAIN g.entries \ DOMAIN h.entries : g.entries[j].pages = NULL
  <2>1. g.entries = h.entries \o EmptyTable
    BY DEF WithTable
  <2>2. PICK n \in Nat : n = Len(h.entries)
    BY <1>1
  <2>3. /\ DOMAIN g.entries = 1 .. n + Capacity
        /\ \A j \in 1 .. n : g.entries[j] = h.entries[j]
        /\ \A j \in 1 .. Capacity : g.entries[n + j] = EmptyTable[j]
    <3>1. PICK S : S = [size : Nat, pages : Page \cup {NULL}]
      OBVIOUS
    <3>2. PICK t \in Seq(S) : t = EmptyTable
      BY <1>7, <3>1
    <3>3. PICK e \in Seq(S) : e = h.entries
      BY <1>1, <3>1
    <3>4. /\ DOMAIN (e \o t) = 1 .. Len(e) + Len(t)
          /\ \A i \in 1 .. Len(e) : (e \o t)[i] = e[i]
          /\ \A i \in 1 .. Len(t) : (e \o t)[Len(e) + i] = t[i]
      BY ConcatParts
    <3> QED
      BY <1>7, <2>1, <2>2, <3>2, <3>3, <3>4
  <2>4. ASSUME NEW j \in DOMAIN g.entries \ DOMAIN h.entries PROVE g.entries[j].pages = NULL
    <3>1. j \in Nat /\ n < j /\ j <= n + Capacity
      BY <1>1, <1>7, <2>2, <2>3
    <3>2. PICK k \in 1 .. Capacity : j = n + k
      <4>1. j - n \in 1 .. Capacity /\ j = n + (j - n)
        BY <1>7, <3>1
      <4> QED
        BY <4>1
    <3>3. g.entries[j] = EmptyTable[k]
      BY <2>3, <3>2
    <3>4. EmptyTable[k] = Entry(0, NULL)
      BY <3>2 DEF EmptyTable
    <3> QED
      BY <3>3, <3>4 DEF Entry
  <2> QED
    BY <1>1, <2>2, <2>3, <2>4
<1>10. Used(g) = Used(h)
  <2>1. DOMAIN h.entries \subseteq DOMAIN g.entries
    BY <1>1, <1>7, <1>9
  <2> QED
    BY <1>9, <2>1 DEF Used
<1>11. \A j \in Used(h) : g.entries[j] = h.entries[j]
  BY <1>9 DEF Used
<1>12. Mapped(g.mem) = Mapped(h.mem) \cup {r.ret}
  BY <1>3, <1>4, <1>5, <1>6, WordsAreMapped DEF Mapped
<1>13. r.ret \notin Mapped(h.mem)
  BY <1>3, <1>4
<1>14. Exact(g)
  BY <1>8, <1>10, <1>11, <1>12, <1>13, ExactTable DEF WithTable
<1>15. \A p \in Mapped(h.mem) : g.mem[p] = h.mem[p]
  BY <1>3, <1>4, <1>6, <1>13 DEF Mapped
<1>16. Len(h.entries) + 1 \in DOMAIN g.entries \ DOMAIN h.entries
  BY <1>1, <1>7, <1>9
<1> QED
  BY <1>8, <1>9, <1>10, <1>11, <1>12, <1>14, <1>15, <1>16 DEF Keeps

\* direct_allocator_allocate.
LEMMA AllocateFacts ==
  ASSUME NEW h \in Heap, Exact(h), NEW size \in Nat,
         NEW o \in direct_allocator_allocate(size, h)
  PROVE  /\ o.ret \in Page \cup {NULL}
         /\ o.ret = NULL => Keeps(h, o.heap)
         /\ o.ret # NULL =>
              /\ \E i \in Nat : Grants(h, o.heap, i, o.ret, size)
              /\ \A p \in Region(o.ret, size) : o.heap.mem[p] = [w \in Word |-> Zero]
<1>1. DOMAIN h.entries \subseteq Nat /\ h.mem \in [Page -> Content]
  BY HeapParts
<1>2. CASE Holding(h.entries, NULL) # {}
  <2>1. First(Holding(h.entries, NULL)) \in Holding(h.entries, NULL)
    BY <1>1, <1>2, FirstIn DEF Holding
  <2>2. PICK i \in DOMAIN h.entries : i = First(Holding(h.entries, NULL)) /\ h.entries[i].pages = NULL
    BY <2>1 DEF Holding
  <2>3. o \in Record(h.entries, h.tables, h.mem, i, size)
    BY <1>2, <2>2 DEF direct_allocator_allocate
  <2>4. /\ o.ret \in Page \cup {NULL}
        /\ o.ret = NULL => Keeps(h, o.heap)
        /\ o.ret # NULL => /\ Grants(h, o.heap, i, o.ret, size)
                           /\ \A p \in Region(o.ret, size) : o.heap.mem[p] = [w \in Word |-> Zero]
    BY <2>2, <2>3, RecordFacts
  <2> QED
    BY <1>1, <2>2, <2>4
<1>3. CASE Holding(h.entries, NULL) = {}
  <2>1. PICK r \in request_page(PageSize, h.mem) :
          o \in IF r.ret = NULL
                  THEN {Outcome(NULL, h.entries, h.tables, r.mem)}
                  ELSE Record(h.entries \o EmptyTable, h.tables \cup {r.ret},
                              [r.mem EXCEPT ![r.ret] = TableWords],
                              Len(h.entries) + 1, size)
    BY <1>3 DEF direct_allocator_allocate
  <2>2. CASE r.ret = NULL
    <3>1. r.mem = h.mem
      BY <1>1, <2>2, PageAssumption, RequestPage
    <3>2. o.ret = NULL /\ o.heap = [entries |-> h.entries, tables |-> h.tables, mem |-> h.mem]
      BY <2>1, <2>2, <3>1 DEF Outcome
    <3>3. o.heap = h
      BY <3>2 DEF Heap
    <3>4. Keeps(h, h)
      BY DEF Keeps
    <3> QED
      BY <3>2, <3>3, <3>4
  <2>3. CASE r.ret # NULL
    <3>1. PICK g : g = WithTable(h, r)
      OBVIOUS
    <3>2. /\ Keeps(h, g) /\ Mapped(h.mem) \subseteq Mapped(g.mem)
          /\ Len(h.entries) + 1 \in DOMAIN g.entries
          /\ g.entries[Len(h.entries) + 1].pages = NULL
      BY <2>3, <3>1, TableFacts
    <3>3. PICK i \in DOMAIN g.entries : i = Len(h.entries) + 1 /\ g.entries[i].pages = NULL
      BY <3>2
    <3>4. o \in Record(g.entries, g.tables, g.mem, i, size)
      BY <2>1, <2>3, <3>1, <3>3 DEF WithTable
    <3>5. g \in Heap /\ Exact(g)
      BY <3>2 DEF Keeps
    <3>6. /\ o.ret \in Page \cup {NULL}
          /\ o.ret = NULL => Keeps(g, o.heap)
          /\ o.ret # NULL => /\ Grants(g, o.heap, i, o.ret, size)
                             /\ \A p \in Region(o.ret, size) : o.heap.mem[p] = [w \in Word |-> Zero]
      BY <3>3, <3>4, <3>5, RecordFacts
    <3>7. i \in Nat
      BY <3>3, HeapParts
    <3>8. ASSUME o.ret = NULL PROVE Keeps(h, o.heap)
      BY <3>2, <3>6, <3>8 DEF Keeps
    <3>9. ASSUME o.ret # NULL PROVE Grants(h, o.heap, i, o.ret, size)
      BY <3>2, <3>6, <3>9 DEF Keeps, Grants
    <3> QED
      BY <3>6, <3>7, <3>8, <3>9
  <2> QED
    BY <2>2, <2>3
<1> QED
  BY <1>2, <1>3

-----------------------------------------------------------------------------
(* Giving back and moving. *)

\* Where the k-th word of a block is.
LEMMA WordPlace ==
  ASSUME NEW at \in Nat, NEW n \in Nat, NEW k \in Nat, k < n
  PROVE  /\ at + (k \div PageSize) \in Region(at, n) /\ k % PageSize \in Word
         /\ ((at + (k \div PageSize)) - at) * PageSize + (k % PageSize) = k
<1>1. /\ k \div PageSize \in Nat /\ k % PageSize \in Word
      /\ k = (k \div PageSize) * PageSize + (k % PageSize)
  BY DivFacts
<1>2. PICK q \in Nat, w \in Word : q = k \div PageSize /\ w = k % PageSize
  BY <1>1
<1>3. q * PageSize + w = k
  BY <1>1, <1>2
<1>4. q < PagesFor(n) /\ PagesFor(n) \in Nat
  BY <1>3, WordOnPage, PagesForFacts
<1>5. at + q \in Region(at, n)
  BY <1>4 DEF Region
<1>6. (at + q) - at = q
  OBVIOUS
<1> QED
  BY <1>2, <1>3, <1>5, <1>6

\* Words of mapped pages are values.
LEMMA MappedWords ==
  ASSUME NEW mem \in [Page -> Content], NEW p \in Mapped(mem)
  PROVE  p \in Page /\ mem[p] \in [Word -> Val]
BY DEF Mapped, Content

\* Other words on some of the mapped pages.
LEMMA RewriteFacts ==
  ASSUME NEW mem, NEW g, NEW S, S \subseteq Mapped(mem),
         \A p \in S : g[p] # Unmapped,
         \A p \in Page \ S : g[p] = mem[p]
  PROVE  Mapped(g) = Mapped(mem)
BY DEF Mapped

\* memcpy from one mapped region to another.
LEMMA CopyFacts ==
  ASSUME NEW mem \in [Page -> Content], NEW to \in Page, NEW from \in Page, NEW n \in Nat,
         Region(to, n) \subseteq Mapped(mem), Region(from, n) \subseteq Mapped(mem),
         NEW g, g = CopyWords(mem, to, from, n)
  PROVE  /\ g \in [Page -> Content] /\ Mapped(g) = Mapped(mem)
         /\ \A p \in Page \ Region(to, n) : g[p] = mem[p]
         /\ \A k \in Nat : k < n => WordAt(g, to, k) = WordAt(mem, from, k)
<1> DEFINE f == [p \in Region(to, n) |->
                   [w \in Word |->
                      LET k == (p - to) * PageSize + w
                      IN IF k < n THEN WordAt(mem, from, k) ELSE mem[p][w]]]
<1>1. to \in Nat /\ from \in Nat /\ PageSize \in Nat /\ PageSize > 0
  BY PageAssumption, SpaceAssumption DEF Page
<1>2. ASSUME NEW k \in Nat, k < n PROVE WordAt(mem, from, k) \in Val
  <2>1. from + (k \div PageSize) \in Mapped(mem) /\ k % PageSize \in Word
    BY <1>1, <1>2, WordPlace
  <2>2. mem[from + (k \div PageSize)] \in [Word -> Val]
    BY <2>1, MappedWords
  <2> QED
    BY <2>1, <2>2 DEF WordAt
<1>3. ASSUME NEW p \in Region(to, n) PROVE f[p] \in [Word -> Val]
  <2>1. mem[p] \in [Word -> Val]
    BY MappedWords
  <2>2. p - to \in Nat
    BY <1>1, PagesForFacts DEF Region
  <2>3. ASSUME NEW w \in Word PROVE (p - to) * PageSize + w \in Nat
    <3>1. w \in Nat
      BY <1>1 DEF Word
    <3> QED
      BY <1>1, <2>2, <3>1
  <2> QED
    BY <1>2, <2>1, <2>3
<1>4. g = [p \in Page |-> IF p \notin Region(to, n) THEN mem[p] ELSE f[p]]
  BY DEF CopyWords
<1>5. /\ g \in [Page -> Content] /\ Mapped(g) = Mapped(mem)
      /\ \A p \in Page \ Region(to, n) : g[p] = mem[p]
      /\ \A p \in Region(to, n) : g[p] = f[p]
  <2> HIDE DEF f
  <2>1. PICK S \in SUBSET Mapped(mem) : S = Region(to, n)
    OBVIOUS
  <2>2. \A p \in S : f[p] \in [Word -> Val]
    BY <1>3, <2>1
  <2>3. g = [p \in Page |-> IF p \notin S THEN mem[p] ELSE f[p]]
    BY <1>4, <2>1
  <2>4. /\ g \in [Page -> Content] /\ Mapped(g) = Mapped(mem)
        /\ \A p \in Page \ S : g[p] = mem[p]
        /\ \A p \in S : g[p] = f[p]
    <3>1. S \subseteq Page
      BY DEF Mapped
    <3>2. /\ \A p \in Page \ S : g[p] = mem[p]
          /\ \A p \in S : g[p] = f[p]
      BY <2>3, <3>1
    <3>3. g \in [Page -> Content]
      BY <2>2, <2>3, <3>1 DEF Content
    <3>4. S \subseteq Mapped(mem) /\ \A p \in S : g[p] # Unmapped
      BY <2>2, <3>2, WordsAreMapped
    <3>5. Mapped(g) = Mapped(mem)
      BY <3>2, <3>4, RewriteFacts
    <3> QED
      BY <3>2, <3>3, <3>5
  <2> QED
    BY <2>1, <2>4
<1>6. ASSUME NEW k \in Nat, k < n PROVE WordAt(g, to, k) = WordAt(mem, from, k)
  <2>1. /\ to + (k \div PageSize) \in Region(to, n) /\ k % PageSize \in Word
        /\ ((to + (k \div PageSize)) - to) * PageSize + (k % PageSize) = k
    BY <1>1, <1>6, WordPlace
  <2>2. PICK p \in Region(to, n), w \in Word :
          p = to + (k \div PageSize) /\ w = k % PageSize
    BY <2>1
  <2>3. (p - to) * PageSize + w = k
    BY <2>1, <2>2
  <2>4. f[p][w] = WordAt(mem, from, k)
    BY <1>6, <2>3
  <2>5. WordAt(g, to, k) = g[p][w]
    BY <2>2 DEF WordAt
  <2> QED
    BY <1>5, <2>4, <2>5
<1> QED
  BY <1>5, <1>6

\* g is h without what entry i recorded.
Returns(h, g, i) ==
  /\ g \in Heap /\ Exact(g) /\ i \in Used(h) /\ Used(g) = Used(h) \ {i}
  /\ \A j \in Used(g) : g.entries[j] = h.entries[j]
  /\ \A p \in Mapped(h.mem) \ Reg(h, i) : g.mem[p] = h.mem[p]

\* Changing one field of an entry.
LEMMA FieldFacts ==
  ASSUME NEW h \in Heap, NEW i \in DOMAIN h.entries, NEW e, NEW n \in Nat, NEW a \in Page \cup {NULL},
         e = [h.entries EXCEPT ![i] = Entry(n, a)]
  PROVE  /\ e \in Seq([size : Nat, pages : Page \cup {NULL}])
         /\ DOMAIN e = DOMAIN h.entries /\ e[i] = Entry(n, a)
         /\ \A j \in DOMAIN h.entries \ {i} : e[j] = h.entries[j]
<1>1. h.entries \in Seq([size : Nat, pages : Page \cup {NULL}])
  BY HeapParts
<1>2. Entry(n, a) \in [size : Nat, pages : Page \cup {NULL}]
  BY DEF Entry
<1> QED
  BY <1>1, <1>2

\* direct_allocator_deallocate: a pointer no table records is somebody else's.
LEMMA DeallocateFacts ==
  ASSUME NEW h \in Heap, Exact(h), NEW at \in Int,
         NEW o, o = direct_allocator_deallocate(at, h)
  PROVE  /\ (\A i \in DOMAIN h.entries : h.entries[i].pages # at) => ~ o.ret /\ o.heap = h
         /\ (\E i \in DOMAIN h.entries : h.entries[i].pages = at) =>
              /\ o.ret
              /\ at = NULL => Keeps(h, o.heap)
              /\ at # NULL => \E i \in Used(h) : h.entries[i].pages = at /\ Returns(h, o.heap, i)
<1>1. /\ DOMAIN h.entries \subseteq Nat /\ h.mem \in [Page -> Content] /\ h.tables \subseteq Page
  BY HeapParts
<1>2. CASE Holding(h.entries, at) = {}
  <2>1. o = Outcome(FALSE, h.entries, h.tables, h.mem)
    BY <1>2 DEF direct_allocator_deallocate
  <2>2. o.heap = h /\ ~ o.ret
    BY <2>1 DEF Outcome, Heap
  <2> QED
    BY <1>2, <2>2 DEF Holding
<1>3. CASE Holding(h.entries, at) # {}
  <2>1. First(Holding(h.entries, at)) \in Holding(h.entries, at)
    BY <1>1, <1>3, FirstIn DEF Holding
  <2>2. PICK i \in DOMAIN h.entries : i = First(Holding(h.entries, at)) /\ h.entries[i].pages = at
    BY <2>1 DEF Holding
  <2>3. PICK n \in Nat : n = h.entries[i].size /\ h.entries[i] = Entry(n, at)
    BY <2>2, HeapParts
  <2>4. o = Outcome(TRUE, [h.entries EXCEPT ![i].pages = NULL], h.tables, release_page(at, n, h.mem))
    BY <1>3, <2>2, <2>3 DEF direct_allocator_deallocate
  <2>5. [h.entries EXCEPT ![i].pages = NULL] = [h.entries EXCEPT ![i] = Entry(n, NULL)]
    BY <2>3 DEF Entry
  <2>6. PICK g : g = o.heap
    OBVIOUS
  <2>7. /\ o.ret /\ g.entries = [h.entries EXCEPT ![i] = Entry(n, NULL)]
        /\ g.tables = h.tables /\ g.mem = release_page(at, n, h.mem)
        /\ g = [entries |-> g.entries, tables |-> g.tables, mem |-> g.mem]
    BY <2>4, <2>5, <2>6 DEF Outcome
  <2>8. /\ g.entries \in Seq([size : Nat, pages : Page \cup {NULL}])
        /\ DOMAIN g.entries = DOMAIN h.entries /\ g.entries[i] = Entry(n, NULL)
        /\ \A j \in DOMAIN h.entries \ {i} : g.entries[j] = h.entries[j]
    BY <2>7, FieldFacts
  <2>9. /\ g.mem \in [Page -> Content]
        /\ at # NULL => /\ Mapped(g.mem) = Mapped(h.mem) \ Region(at, n)
                        /\ \A p \in Page \ Region(at, n) : g.mem[p] = h.mem[p]
        /\ at = NULL => g.mem = h.mem
    BY <1>1, <2>7, ReleasePage
  <2>10. g \in Heap
    BY <1>1, <2>7, <2>8, <2>9 DEF Heap
  <2>11. i \notin Used(g)
    BY <2>8 DEF Used, Entry
  <2>12. Used(g) = Used(h) \ {i}
    BY <2>8, <2>11 DEF Used
  <2>13. \A j \in Used(h) \ {i} : g.entries[j] = h.entries[j]
    BY <2>8 DEF Used
  <2>14. Used(g) \ {i} = Used(h) \ {i} /\ {} = (IF i \in Used(g) THEN Reg(g, i) ELSE {})
    BY <2>11, <2>12
  <2>15. CASE at = NULL
    <3>1. i \notin Used(h)
      BY <2>2, <2>15 DEF Used
    <3>2. /\ {} = (IF i \in Used(h) THEN Reg(h, i) ELSE {})
          /\ {} \cap Mapped(h.mem) \subseteq {} /\ Mapped(g.mem) = (Mapped(h.mem) \ {}) \cup {}
      BY <3>1, <2>9, <2>15
    <3>3. Exact(g)
      BY <2>7, <2>10, <2>13, <2>14, <3>2, ExactEntry
    <3>4. Keeps(h, g)
      BY <2>9, <2>10, <2>12, <2>13, <2>15, <3>1, <3>3 DEF Keeps
    <3> QED
      BY <2>2, <2>6, <2>7, <2>15, <3>4
  <2>16. CASE at # NULL
    <3>1. i \in Used(h) /\ Reg(h, i) = Region(at, n)
      BY <2>2, <2>3, <2>16 DEF Used, Reg
    <3>2. /\ Reg(h, i) = (IF i \in Used(h) THEN Reg(h, i) ELSE {})
          /\ {} \cap Mapped(h.mem) \subseteq Reg(h, i)
          /\ Mapped(g.mem) = (Mapped(h.mem) \ Reg(h, i)) \cup {}
      BY <3>1, <2>9, <2>16
    <3>3. Exact(g)
      BY <2>7, <2>10, <2>13, <2>14, <3>2, ExactEntry
    <3>4. \A p \in Mapped(h.mem) \ Reg(h, i) : g.mem[p] = h.mem[p]
      BY <2>9, <2>16, <3>1 DEF Mapped
    <3>5. Returns(h, g, i)
      BY <2>10, <2>12, <2>13, <3>1, <3>3, <3>4 DEF Returns
    <3> QED
      BY <2>2, <2>6, <2>7, <2>16, <3>1, <3>5
  <2> QED
    BY <2>15, <2>16
<1> QED
  BY <1>2, <1>3

-----------------------------------------------------------------------------
(* Reallocation. *)

\* What entry i of h records is n words at page a in g.
Moves(h, g, i, a, n) ==
  /\ g \in Heap /\ Exact(g) /\ a \in Page /\ i \in Used(h) /\ Used(g) = Used(h)
  /\ g.entries[i] = Entry(n, a) /\ g.tables = h.tables
  /\ \A j \in Used(h) \ {i} : g.entries[j] = h.entries[j]
  /\ \A p \in Mapped(h.mem) \ Reg(h, i) : g.mem[p] = h.mem[p]

\* The first size words came along.
Carries(h, g, i, a, size) ==
  \A k \in Nat : k < size /\ k < h.entries[i].size =>
    WordAt(g.mem, a, k) = WordAt(h.mem, h.entries[i].pages, k)

LEMMA UsedParts ==
  ASSUME NEW h \in Heap, Exact(h), NEW i \in Used(h)
  PROVE  /\ i \in DOMAIN h.entries /\ i \in Nat
         /\ h.entries[i].pages \in Page /\ h.entries[i].size \in Nat
         /\ h.entries[i] = Entry(h.entries[i].size, h.entries[i].pages)
         /\ Reg(h, i) \subseteq Mapped(h.mem)
<1>1. i \in DOMAIN h.entries /\ h.entries[i].pages # NULL
  BY DEF Used
<1>2. Reg(h, i) \subseteq Mapped(h.mem)
  BY DEF Exact
<1>3. i \in Nat
  BY <1>1, HeapParts
<1> QED
  BY <1>1, <1>2, <1>3, HeapParts

\* Every word of what an entry records is mapped.
LEMMA WordsMapped ==
  ASSUME NEW h \in Heap, Exact(h), NEW i \in Used(h), NEW k \in Nat, k < h.entries[i].size
  PROVE  /\ h.entries[i].pages + (k \div PageSize) \in Reg(h, i)
         /\ h.entries[i].pages + (k \div PageSize) \in Mapped(h.mem)
<1>1. /\ h.entries[i].pages \in Page /\ h.entries[i].size \in Nat
      /\ Reg(h, i) \subseteq Mapped(h.mem)
  BY UsedParts
<1>2. h.entries[i].pages \in Nat
  BY <1>1, SpaceAssumption DEF Page
<1>3. h.entries[i].pages + (k \div PageSize) \in Region(h.entries[i].pages, h.entries[i].size)
  BY <1>1, <1>2, WordPlace
<1> QED
  BY <1>1, <1>3 DEF Reg

LEMMA ShrinkFacts ==
  ASSUME NEW h \in Heap, Exact(h), NEW i \in Used(h), NEW size \in Nat,
         ~ (h.entries[i].size < size), ~ (h.entries[i].size - size < PageSize),
         NEW o, o = Shrink(h.entries[i], i, size, h)
  PROVE  /\ o.ret = h.entries[i].pages
         /\ Moves(h, o.heap, i, o.ret, size)
         /\ Carries(h, o.heap, i, o.ret, size)
<1>1. /\ i \in DOMAIN h.entries
      /\ h.entries[i].pages \in Page /\ h.entries[i].size \in Nat
      /\ h.entries[i] = Entry(h.entries[i].size, h.entries[i].pages)
      /\ Reg(h, i) \subseteq Mapped(h.mem)
  BY UsedParts
<1>2. h.mem \in [Page -> Content] /\ h.tables \subseteq Page
  BY HeapParts
<1>3. PICK a \in Page, n \in Nat : a = h.entries[i].pages /\ n = h.entries[i].size
                                   /\ h.entries[i] = Entry(n, a)
  BY <1>1
<1>4. a \in Nat /\ a # NULL /\ PageSize \in Nat /\ PageSize > 0 /\ NULL \notin Page
  BY SpaceAssumption, PageAssumption DEF Page, NULL
<1>5. PICK s \in Nat : s = PagesFor(size)
  BY PagesForFacts
<1>6. size <= s * PageSize /\ s * PageSize < size + PageSize /\ s * PageSize \in Nat
  BY <1>4, <1>5, PagesForFacts
<1>7. n - size >= PageSize /\ s * PageSize <= n
  BY <1>3, <1>4, <1>6
<1>8. n - s * PageSize \in Nat /\ PagesFor(n - s * PageSize) = PagesFor(n) - s
      /\ PagesFor(n) - s \in Nat /\ PagesFor(n) \in Nat
  BY <1>7, PagesForRest, PagesForFacts
<1>9. PICK g : g = o.heap
  OBVIOUS
<1>10. Behind(h.entries[i], s, h.mem) = release_page(a + s, n - s * PageSize, h.mem)
  BY <1>3, <1>4 DEF Behind, Entry
<1>11. [h.entries EXCEPT ![i].size = size] = [h.entries EXCEPT ![i] = Entry(size, a)]
  BY <1>3 DEF Entry
<1>12. /\ o.ret = a /\ g.entries = [h.entries EXCEPT ![i] = Entry(size, a)]
       /\ g.tables = h.tables /\ g.mem = release_page(a + s, n - s * PageSize, h.mem)
       /\ g = [entries |-> g.entries, tables |-> g.tables, mem |-> g.mem]
  BY <1>3, <1>5, <1>9, <1>10, <1>11 DEF Shrink, Outcome
<1>13. /\ g.entries \in Seq([size : Nat, pages : Page \cup {NULL}])
       /\ DOMAIN g.entries = DOMAIN h.entries /\ g.entries[i] = Entry(size, a)
       /\ \A j \in DOMAIN h.entries \ {i} : g.entries[j] = h.entries[j]
  <2>1. a \in Page \cup {NULL} /\ i \in DOMAIN h.entries
    BY <1>1
  <2>2. PICK e : e = [h.entries EXCEPT ![i] = Entry(size, a)]
    OBVIOUS
  <2>3. /\ e \in Seq([size : Nat, pages : Page \cup {NULL}])
       /\ DOMAIN e = DOMAIN h.entries /\ e[i] = Entry(size, a)
       /\ \A j \in DOMAIN h.entries \ {i} : e[j] = h.entries[j]
    BY <2>1, <2>2, FieldFacts
  <2> QED
    BY <2>2, <2>3, <1>12
<1>14. Region(a + s, n - s * PageSize) = a + s .. a + PagesFor(n) - 1
  BY <1>4, <1>8 DEF Region
<1>15. /\ g.mem \in [Page -> Content]
       /\ Mapped(g.mem) = Mapped(h.mem) \ (a + s .. a + PagesFor(n) - 1)
       /\ \A p \in Page \ (a + s .. a + PagesFor(n) - 1) : g.mem[p] = h.mem[p]
  <2>1. PICK b \in Nat, m \in Nat : b = a + s /\ m = n - s * PageSize
    BY <1>4, <1>8
  <2>2. b # NULL
    BY <1>4, <2>1 DEF NULL
  <2>3. /\ release_page(b, m, h.mem) \in [Page -> Content]
        /\ Mapped(release_page(b, m, h.mem)) = Mapped(h.mem) \ Region(b, m)
        /\ \A p \in Page \ Region(b, m) : release_page(b, m, h.mem)[p] = h.mem[p]
    BY <1>2, <2>2, ReleasePage
  <2> QED
    BY <1>12, <1>14, <2>1, <2>3
<1>16. g \in Heap
  BY <1>2, <1>12, <1>13, <1>15 DEF Heap
<1>17. Used(g) = Used(h)
  <2>1. g.entries[i].pages # NULL /\ h.entries[i].pages # NULL
    BY <1>3, <1>4, <1>13 DEF Entry
  <2> QED
    BY <1>13, <2>1 DEF Used
<1>18. Reg(g, i) = a .. a + s - 1 /\ Reg(h, i) = a .. a + PagesFor(n) - 1
  BY <1>3, <1>5, <1>13 DEF Reg, Region, Entry
<1>19. /\ Reg(g, i) \subseteq Reg(h, i)
       /\ Reg(h, i) \ (a + s .. a + PagesFor(n) - 1) = Reg(g, i)
       /\ a + s .. a + PagesFor(n) - 1 \subseteq Reg(h, i)
  BY <1>4, <1>8, <1>18
<1>20. Exact(g)
  <2>1. /\ Reg(h, i) = (IF i \in Used(h) THEN Reg(h, i) ELSE {})
        /\ Reg(g, i) = (IF i \in Used(g) THEN Reg(g, i) ELSE {})
        /\ Used(g) \ {i} = Used(h) \ {i} /\ g.tables = h.tables
        /\ \A j \in Used(h) \ {i} : g.entries[j] = h.entries[j]
    BY <1>12, <1>13, <1>17 DEF Used
  <2>2. /\ Reg(g, i) \cap Mapped(h.mem) \subseteq Reg(h, i)
        /\ Mapped(g.mem) = (Mapped(h.mem) \ Reg(h, i)) \cup Reg(g, i)
    BY <1>1, <1>15, <1>19
  <2> QED
    BY <1>16, <2>1, <2>2, ExactEntry
<1>21. \A p \in Mapped(h.mem) \ Reg(h, i) : g.mem[p] = h.mem[p]
  BY <1>15, <1>19 DEF Mapped
<1>22. \A j \in Used(h) \ {i} : g.entries[j] = h.entries[j]
  BY <1>13 DEF Used
<1>23. Moves(h, g, i, a, size)
  BY <1>12, <1>13, <1>16, <1>17, <1>20, <1>21, <1>22 DEF Moves
<1>24. ASSUME NEW k \in Nat, k < size PROVE WordAt(g.mem, a, k) = WordAt(h.mem, a, k)
  <2>1. a + (k \div PageSize) \in Region(a, size)
    BY <1>4, <1>24, WordPlace
  <2>2. Region(a, size) = Reg(g, i)
    BY <1>5, <1>18 DEF Region
  <2>3. Reg(g, i) \subseteq Page \ (a + s .. a + PagesFor(n) - 1)
    BY <1>1, <1>19 DEF Mapped
  <2> QED
    BY <1>15, <2>1, <2>2, <2>3 DEF WordAt
<1> QED
  BY <1>3, <1>9, <1>12, <1>23, <1>24 DEF Carries

LEMMA GrowFacts ==
  ASSUME NEW h \in Heap, Exact(h), NEW i \in Used(h), NEW size \in Nat,
         h.entries[i].size < size, NEW o \in Grow(h.entries[i], i, size, h)
  PROVE  /\ o.ret \in Page \cup {NULL}
         /\ o.ret = NULL => o.heap = h
         /\ o.ret # NULL => /\ Moves(h, o.heap, i, o.ret, size)
                            /\ Carries(h, o.heap, i, o.ret, size)
<1>1. /\ i \in DOMAIN h.entries
      /\ h.entries[i].pages \in Page /\ h.entries[i].size \in Nat
      /\ h.entries[i] = Entry(h.entries[i].size, h.entries[i].pages)
      /\ Reg(h, i) \subseteq Mapped(h.mem)
  BY UsedParts
<1>2. h.mem \in [Page -> Content] /\ h.tables \subseteq Page
  BY HeapParts
<1>3. PICK a \in Page, n \in Nat : a = h.entries[i].pages /\ n = h.entries[i].size
                                   /\ h.entries[i] = Entry(n, a)
  BY <1>1
<1>4. a \in Nat /\ a # NULL /\ PageSize \in Nat /\ PageSize > 0 /\ NULL \notin Page
  BY SpaceAssumption, PageAssumption DEF Page, NULL
<1>5. PICK r \in request_page(size, h.mem) :
        o = IF r.ret = NULL
              THEN Outcome(NULL, h.entries, h.tables, h.mem)
              ELSE Outcome(r.ret, [h.entries EXCEPT ![i] = Entry(size, r.ret)], h.tables,
                           release_page(a, n, CopyWords(r.mem, r.ret, a, n)))
  BY <1>3 DEF Grow
<1>6. /\ r.mem \in [Page -> Content] /\ r.ret \in Page \cup {NULL}
      /\ r.ret = NULL => r.mem = h.mem
      /\ r.ret # NULL =>
           /\ size > 0 /\ Region(r.ret, size) \subseteq Page \ Mapped(h.mem)
           /\ \A p \in Region(r.ret, size) : r.mem[p] = [w \in Word |-> Zero]
           /\ \A p \in Page \ Region(r.ret, size) : r.mem[p] = h.mem[p]
           /\ Mapped(r.mem) = Mapped(h.mem) \cup Region(r.ret, size)
  BY <1>2, RequestPage
<1>7. CASE r.ret = NULL
  <2>1. o.ret = NULL /\ o.heap = [entries |-> h.entries, tables |-> h.tables, mem |-> h.mem]
    BY <1>5, <1>7 DEF Outcome
  <2> QED
    BY <2>1 DEF Heap
<1>8. CASE r.ret # NULL
  <2>1. PICK b \in Page : b = r.ret
    BY <1>6, <1>8
  <2>2. Region(a, n) = Reg(h, i)
    BY <1>3 DEF Reg
  <2>3. Region(b, n) \subseteq Region(b, size)
    <3>1. PagesFor(n) <= PagesFor(size) /\ PagesFor(n) \in Nat /\ PagesFor(size) \in Nat
      BY <1>3, PagesForMonotone, PagesForFacts
    <3>2. b \in Nat
      BY SpaceAssumption DEF Page
    <3> QED
      BY <3>1, <3>2 DEF Region
  <2>4. /\ Region(b, n) \subseteq Mapped(r.mem) /\ Region(a, n) \subseteq Mapped(r.mem)
        /\ Region(b, size) \cap Region(a, n) = {}
    BY <1>1, <1>6, <1>8, <2>1, <2>2, <2>3
  <2>5. PICK m : m = CopyWords(r.mem, b, a, n)
    OBVIOUS
  <2>6. /\ m \in [Page -> Content] /\ Mapped(m) = Mapped(r.mem)
        /\ \A p \in Page \ Region(b, n) : m[p] = r.mem[p]
        /\ \A k \in Nat : k < n => WordAt(m, b, k) = WordAt(r.mem, a, k)
    BY <1>6, <2>4, <2>5, CopyFacts
  <2>7. PICK g : g = o.heap
    OBVIOUS
  <2>8. /\ o.ret = b /\ g.entries = [h.entries EXCEPT ![i] = Entry(size, b)]
        /\ g.tables = h.tables /\ g.mem = release_page(a, n, m)
        /\ g = [entries |-> g.entries, tables |-> g.tables, mem |-> g.mem]
    BY <1>5, <1>8, <2>1, <2>5, <2>7 DEF Outcome
  <2>9. /\ g.entries \in Seq([size : Nat, pages : Page \cup {NULL}])
        /\ DOMAIN g.entries = DOMAIN h.entries /\ g.entries[i] = Entry(size, b)
        /\ \A j \in DOMAIN h.entries \ {i} : g.entries[j] = h.entries[j]
    <3>1. b \in Page \cup {NULL} /\ i \in DOMAIN h.entries
      BY <1>1
    <3>2. PICK e : e = [h.entries EXCEPT ![i] = Entry(size, b)]
      OBVIOUS
    <3>3. /\ e \in Seq([size : Nat, pages : Page \cup {NULL}])
         /\ DOMAIN e = DOMAIN h.entries /\ e[i] = Entry(size, b)
         /\ \A j \in DOMAIN h.entries \ {i} : e[j] = h.entries[j]
      BY <3>1, <3>2, FieldFacts
    <3> QED
      BY <3>2, <3>3, <2>8
  <2>10. /\ g.mem \in [Page -> Content]
         /\ Mapped(g.mem) = Mapped(m) \ Region(a, n)
         /\ \A p \in Page \ Region(a, n) : g.mem[p] = m[p]
    BY <1>4, <2>6, <2>8, ReleasePage
  <2>11. g \in Heap
    BY <1>2, <2>8, <2>9, <2>10 DEF Heap
  <2>12. Used(g) = Used(h)
    <3>1. g.entries[i].pages # NULL /\ h.entries[i].pages # NULL
      BY <1>3, <1>4, <2>9 DEF Entry
    <3> QED
      BY <2>9, <3>1 DEF Used
  <2>13. Reg(g, i) = Region(b, size)
    BY <2>9 DEF Reg, Entry
  <2>14. Exact(g)
    <3>1. /\ Reg(h, i) = (IF i \in Used(h) THEN Reg(h, i) ELSE {})
          /\ Reg(g, i) = (IF i \in Used(g) THEN Reg(g, i) ELSE {})
          /\ Used(g) \ {i} = Used(h) \ {i} /\ g.tables = h.tables
          /\ \A j \in Used(h) \ {i} : g.entries[j] = h.entries[j]
      BY <2>8, <2>9, <2>12 DEF Used
    <3>2. /\ Reg(g, i) \cap Mapped(h.mem) \subseteq Reg(h, i)
          /\ Mapped(g.mem) = (Mapped(h.mem) \ Reg(h, i)) \cup Reg(g, i)
      BY <1>6, <1>8, <2>1, <2>2, <2>4, <2>6, <2>10, <2>13
    <3> QED
      BY <2>11, <3>1, <3>2, ExactEntry
  <2>15. ASSUME NEW p \in Mapped(h.mem) \ Reg(h, i) PROVE g.mem[p] = h.mem[p]
    <3>1. p \in Page /\ p \notin Region(b, size) /\ p \notin Region(b, n) /\ p \notin Region(a, n)
      BY <1>6, <1>8, <2>1, <2>2, <2>3 DEF Mapped
    <3> QED
      BY <1>6, <1>8, <2>1, <2>6, <2>10, <3>1
  <2>16. \A j \in Used(h) \ {i} : g.entries[j] = h.entries[j]
    BY <2>9 DEF Used
  <2>17. Moves(h, g, i, b, size)
    BY <2>8, <2>9, <2>11, <2>12, <2>14, <2>15, <2>16 DEF Moves
  <2>18. ASSUME NEW k \in Nat, k < n PROVE WordAt(g.mem, b, k) = WordAt(h.mem, a, k)
    <3>1. a + (k \div PageSize) \in Region(a, n) /\ b + (k \div PageSize) \in Region(b, n)
      <4>1. b \in Nat
        BY SpaceAssumption DEF Page
      <4> QED
        BY <1>4, <2>18, <4>1, WordPlace
    <3>2. r.mem[a + (k \div PageSize)] = h.mem[a + (k \div PageSize)]
      <4>1. Region(a, n) \subseteq Page \ Region(b, size)
        BY <1>1, <2>2, <2>4 DEF Mapped
      <4> QED
        BY <1>6, <1>8, <2>1, <3>1, <4>1
    <3>3. g.mem[b + (k \div PageSize)] = m[b + (k \div PageSize)]
      <4>1. Region(b, n) \subseteq Page \ Region(a, n)
        BY <1>6, <1>8, <2>1, <2>3, <2>4
      <4> QED
        BY <2>10, <3>1, <4>1
    <3>4. WordAt(m, b, k) = WordAt(r.mem, a, k)
      BY <2>6, <2>18
    <3> QED
      BY <3>2, <3>3, <3>4 DEF WordAt
  <2> QED
    BY <1>3, <1>8, <2>1, <2>7, <2>8, <2>17, <2>18 DEF Carries
<1> QED
  BY <1>7, <1>8

\* direct_allocator_reallocate of a pointer some table records.
LEMMA ReallocateFacts ==
  ASSUME NEW h \in Heap, Exact(h), NEW at \in Page, NEW size \in Nat,
         \E j \in DOMAIN h.entries : h.entries[j].pages = at,
         NEW o \in direct_allocator_reallocate(at, size, h)
  PROVE  /\ o.ret \in Page \cup {NULL}
         /\ o.ret = NULL => o.heap = h
         /\ o.ret # NULL =>
              \E i \in Used(h), n \in Nat :
                /\ h.entries[i].pages = at /\ size <= n
                /\ Moves(h, o.heap, i, o.ret, n) /\ Carries(h, o.heap, i, o.ret, size)
<1>1. DOMAIN h.entries \subseteq Nat
  BY HeapParts
<1>2. Holding(h.entries, at) # {}
  BY DEF Holding
<1>3. First(Holding(h.entries, at)) \in Holding(h.entries, at)
  BY <1>1, <1>2, FirstIn DEF Holding
<1>4. at # NULL
  BY SpaceAssumption DEF Page, NULL
<1>5. PICK i \in Used(h) : i = First(Holding(h.entries, at)) /\ h.entries[i].pages = at
  BY <1>3, <1>4 DEF Holding, Used
<1>6. h.entries[i].size \in Nat /\ h.entries[i] = Entry(h.entries[i].size, at)
  BY <1>5, UsedParts
<1>7. CASE h.entries[i].size < size
  <2>1. o \in Grow(h.entries[i], i, size, h)
    BY <1>2, <1>5, <1>7 DEF direct_allocator_reallocate
  <2> QED
    BY <1>5, <1>7, <2>1, GrowFacts
<1>8. CASE ~ (h.entries[i].size < size) /\ h.entries[i].size - size < PageSize
  <2>1. o = Outcome(at, h.entries, h.tables, h.mem)
    BY <1>2, <1>5, <1>8 DEF direct_allocator_reallocate
  <2>2. o.ret = at /\ o.heap = h
    BY <2>1 DEF Outcome, Heap
  <2>3. Moves(h, h, i, at, h.entries[i].size)
    BY <1>6 DEF Moves
  <2>4. Carries(h, h, i, at, size)
    BY <1>5 DEF Carries
  <2> QED
    BY <1>5, <1>6, <1>8, <2>2, <2>3, <2>4
<1>9. CASE ~ (h.entries[i].size < size) /\ ~ (h.entries[i].size - size < PageSize)
  <2>1. o = Shrink(h.entries[i], i, size, h)
    BY <1>2, <1>5, <1>9 DEF direct_allocator_reallocate
  <2>2. /\ o.ret = at
        /\ Moves(h, o.heap, i, o.ret, size)
        /\ Carries(h, o.heap, i, o.ret, size)
    BY <1>5, <1>9, <2>1, ShrinkFacts
  <2>3. size <= size /\ o.ret # NULL
    BY <1>4, <2>2
  <2> QED
    BY <1>5, <2>2, <2>3
<1> QED
  BY <1>7, <1>8, <1>9

\* Of NULL: an empty entry is taken for the block, and filled when that is too
\* small.
LEMMA ReallocateNullFacts ==
  ASSUME NEW h \in Heap, Exact(h), NEW size \in Nat, ~ CopiesFromNull(NULL, size, h),
         NEW o \in direct_allocator_reallocate(NULL, size, h)
  PROVE  /\ o.ret \in Page \cup {NULL}
         /\ o.ret = NULL => Keeps(h, o.heap)
         /\ o.ret # NULL => \E i \in Nat : Grants(h, o.heap, i, o.ret, size)
<1>1. DOMAIN h.entries \subseteq Nat /\ h.mem \in [Page -> Content] /\ h.tables \subseteq Page
  BY HeapParts
<1>2. Keeps(h, h)
  BY DEF Keeps
<1>3. h = [entries |-> h.entries, tables |-> h.tables, mem |-> h.mem]
  BY DEF Heap
<1>4. CASE Holding(h.entries, NULL) = {}
  <2>1. o = Outcome(NULL, h.entries, h.tables, h.mem)
    BY <1>4 DEF direct_allocator_reallocate
  <2> QED
    BY <1>2, <1>3, <2>1 DEF Outcome
<1>5. CASE Holding(h.entries, NULL) # {}
  <2>1. First(Holding(h.entries, NULL)) \in Holding(h.entries, NULL)
    BY <1>1, <1>5, FirstIn DEF Holding
  <2>2. PICK i \in DOMAIN h.entries : i = First(Holding(h.entries, NULL)) /\ h.entries[i].pages = NULL
    BY <2>1 DEF Holding
  <2>3. PICK n \in Nat : n = h.entries[i].size /\ h.entries[i] = Entry(n, NULL)
    BY <2>2, HeapParts
  <2>4. i \notin Used(h) /\ i \in Nat
    BY <1>1, <2>2 DEF Used
  <2>5. CASE ~ (n < size) /\ n - size < PageSize
    <3>1. o = Outcome(NULL, h.entries, h.tables, h.mem)
      BY <1>5, <2>2, <2>3, <2>5 DEF direct_allocator_reallocate
    <3> QED
      BY <1>2, <1>3, <3>1 DEF Outcome
  <2>6. CASE ~ (n < size) /\ ~ (n - size < PageSize)
    <3>1. o = Shrink(h.entries[i], i, size, h)
      BY <1>5, <2>2, <2>3, <2>6 DEF direct_allocator_reallocate
    <3>2. Behind(h.entries[i], PagesFor(size), h.mem) = h.mem
      BY <2>2 DEF Behind
    <3>3. [h.entries EXCEPT ![i].size = size] = [h.entries EXCEPT ![i] = Entry(size, NULL)]
      BY <2>3 DEF Entry
    <3>4. PICK g : g = o.heap
      OBVIOUS
    <3>5. /\ o.ret = NULL /\ g.entries = [h.entries EXCEPT ![i] = Entry(size, NULL)]
          /\ g.tables = h.tables /\ g.mem = h.mem
          /\ g = [entries |-> g.entries, tables |-> g.tables, mem |-> g.mem]
      BY <2>2, <3>1, <3>2, <3>3, <3>4 DEF Shrink, Outcome
    <3>6. PICK e : e = [h.entries EXCEPT ![i] = Entry(size, NULL)]
      OBVIOUS
    <3>7. /\ e \in Seq([size : Nat, pages : Page \cup {NULL}])
          /\ DOMAIN e = DOMAIN h.entries /\ e[i] = Entry(size, NULL)
          /\ \A j \in DOMAIN h.entries \ {i} : e[j] = h.entries[j]
      BY <3>6, FieldFacts
    <3>8. g \in Heap
      BY <1>1, <3>5, <3>6, <3>7 DEF Heap
    <3>9. Used(g) = Used(h)
      <4>1. e[i].pages = NULL
        BY <3>7 DEF Entry
      <4> QED
        BY <2>2, <3>5, <3>6, <3>7, <4>1 DEF Used
    <3>10. \A j \in Used(h) : j # i /\ g.entries[j] = h.entries[j]
      BY <2>4, <3>5, <3>6, <3>7 DEF Used
    <3>11. Exact(g)
      <4>1. \A j \in Used(h) : Reg(g, j) = Reg(h, j)
        BY <3>10 DEF Reg
      <4> QED
        BY <3>5, <3>9, <4>1 DEF Exact
    <3>12. Keeps(h, g)
      BY <3>5, <3>8, <3>9, <3>10, <3>11 DEF Keeps
    <3> QED
      BY <3>4, <3>5, <3>12
  <2>7. CASE n < size
    <3>1. n = 0
      BY <1>5, <2>2, <2>3, <2>7 DEF CopiesFromNull
    <3>2. o \in Grow(h.entries[i], i, size, h)
      BY <1>5, <2>2, <2>3, <2>7 DEF direct_allocator_reallocate
    <3>3. PICK r \in request_page(size, h.mem) :
            o = IF r.ret = NULL
                  THEN Outcome(NULL, h.entries, h.tables, h.mem)
                  ELSE Outcome(r.ret, [h.entries EXCEPT ![i] = Entry(size, r.ret)], h.tables,
                               release_page(NULL, 0, CopyWords(r.mem, r.ret, NULL, 0)))
      BY <2>2, <2>3, <3>1, <3>2 DEF Grow
    <3>4. CASE r.ret = NULL
      BY <1>2, <1>3, <3>3, <3>4 DEF Outcome
    <3>5. CASE r.ret # NULL
      <4>1. r.mem \in [Page -> Content] /\ r.ret \in Page
        BY <1>1, <3>5, RequestPage
      <4>2. Region(r.ret, 0) = {}
        BY <4>1, SpaceAssumption, PagesForSmall DEF Region, Page
      <4>3. CopyWords(r.mem, r.ret, NULL, 0) = r.mem
        BY <4>1, <4>2 DEF CopyWords
      <4>4. NULL \in Int /\ 0 \in Int
        BY DEF NULL
      <4>5. release_page(NULL, 0, r.mem) = r.mem
        BY <4>1, <4>4, ReleasePage
      <4>6. o = Outcome(r.ret, [h.entries EXCEPT ![i] = Entry(size, r.ret)], h.tables, r.mem)
        BY <3>3, <3>5, <4>3, <4>5
      <4>7. o \in Record(h.entries, h.tables, h.mem, i, size)
        BY <4>6 DEF Record
      <4>8. /\ o.ret \in Page \cup {NULL}
            /\ o.ret = NULL => Keeps(h, o.heap)
            /\ o.ret # NULL => Grants(h, o.heap, i, o.ret, size)
        BY <2>2, <4>7, RecordFacts
      <4> QED
        BY <2>4, <4>8
    <3> QED
      BY <3>4, <3>5
  <2> QED
    BY <2>5, <2>6, <2>7
<1> QED
  BY <1>4, <1>5

\* A pointer no table records.
LEMMA ReallocateUnknown ==
  ASSUME NEW h \in Heap, NEW at, NEW size,
         \A j \in DOMAIN h.entries : h.entries[j].pages # at,
         NEW o \in direct_allocator_reallocate(at, size, h)
  PROVE  o.ret = NULL /\ o.heap = h
<1>1. Holding(h.entries, at) = {}
  BY DEF Holding
<1>2. o = Outcome(NULL, h.entries, h.tables, h.mem)
  BY <1>1 DEF direct_allocator_reallocate
<1> QED
  BY <1>2 DEF Outcome, Heap

-----------------------------------------------------------------------------
(* The inductive invariant. *)

CellState == [used : BOOLEAN, bucket : Nat, data : [CellWord -> Val]]
Block == [at : Cell \cup Page, size : Nat, val : Val]

TypeOK ==
  /\ heap \in Heap /\ cells \in [Cell -> CellState]
  /\ DOMAIN live \subseteq Tag /\ live \in [DOMAIN live -> Block]
  /\ status \in {"ok", "cleared NULL", "copied from NULL"}

\* A block of the small allocators is large enough for what the client has there,
\* and no larger than they can give.
FitsAt(c, size, cs) ==
  /\ size <= cs[c].bucket /\ cs[c].bucket <= SlotMax
  /\ c \in BuddyCells => cs[c].bucket \in 1 .. BuddyMax
Fits == \A t \in DOMAIN live : live[t].at \in Cell => FitsAt(live[t].at, live[t].size, cells)

\* No address is given out twice.
OneBlock == \A t, u \in DOMAIN live : live[t].at = live[u].at => t = u

\* What DataIntact and BooksBalance say while no call was misled.
Intact == \A t \in DOMAIN live : \A w \in 0 .. live[t].size - 1 :
            WordOf(live[t], w) = live[t].val
Balanced ==
  /\ {heap.entries[i].pages : i \in InUse} = {live[t].at : t \in DOMAIN live} \ Cell
  /\ \A t \in DOMAIN live : \A i \in InUse :
       heap.entries[i].pages = live[t].at => live[t].size <= heap.entries[i].size
  /\ {c \in Cell : cells[c].used} = {live[t].at : t \in DOMAIN live} \cap Cell

\* No address stands for two blocks, and what the client holds is marked.
Unambiguous == \A i, j \in DOMAIN heap.entries :
                 i # j /\ heap.entries[i].pages = heap.entries[j].pages
                   => heap.entries[i].pages = NULL
NotTaken == \A t \in DOMAIN live : live[t].at \in Cell => cells[live[t].at].used
Consistent == Unambiguous /\ NotTaken
Books == Consistent => Balanced

Inv == /\ TypeOK /\ RegionsExact /\ Fits /\ Intact /\ Books
       /\ Consistent => OneBlock

\* What the client still holds of refused moves.
LostOK == DOMAIN lost \subseteq Tag /\ lost \in [DOMAIN lost -> Block]

\* Both hold from the start, with the one step that ends them: a misled call.
IInv == /\ misled \in BOOLEAN
        /\ ~misled => Inv /\ Consistent /\ LostOK

LEMMA Addresses ==
  /\ Cell \cap Page = {} /\ NULL \notin Page /\ NULL \notin Cell /\ Page \subseteq Nat
  /\ Cell \subseteq Int /\ \A c \in Cell : c < 0
<1>1. /\ NULL \notin Page /\ Page \subseteq Nat /\ \A p \in Page : p > 0
  BY SpaceAssumption DEF Page, NULL
<1>2. Cell \subseteq Int /\ \A c \in Cell : c < 0
  BY CellAssumption
<1> QED
  BY <1>1, <1>2 DEF NULL

LEMMA RegionsAreExact ==
  /\ RegionsExact <=> Exact(heap)
  /\ InUse = Used(heap)
BY DEF RegionsExact, Exact, InUse, Used, EntryRegion, Reg

LEMMA RegionsAreExactNext ==
  /\ RegionsExact' <=> Exact(heap')
  /\ InUse' = Used(heap')
BY DEF RegionsExact, Exact, InUse, Used, EntryRegion, Reg

\* WordOf, of any heap and cells.
WordIn(h, cs, b, w) ==
  IF b.at \in Cell THEN cs[b.at].data[w]
  ELSE LET p == b.at + (w \div PageSize)
       IN IF h.mem[p] = Unmapped THEN Junk ELSE h.mem[p][w % PageSize]

\* The books, entry by entry.
LEMMA BooksParts ==
  ASSUME TypeOK, RegionsExact, Books, Consistent
  PROVE  /\ \A t \in DOMAIN live : live[t].at \in Page =>
              \E j \in Used(heap) : /\ heap.entries[j].pages = live[t].at
                                    /\ live[t].size <= heap.entries[j].size
         /\ \A j \in Used(heap) : \E t \in DOMAIN live : heap.entries[j].pages = live[t].at
         /\ \A t \in DOMAIN live : live[t].at \in Cell => cells[live[t].at].used
         /\ \A c \in Cell : cells[c].used => \E t \in DOMAIN live : live[t].at = c
<1>1. Used(heap) = InUse
  BY RegionsAreExact
<1>2. /\ {heap.entries[i].pages : i \in InUse} = {live[t].at : t \in DOMAIN live} \ Cell
      /\ \A t \in DOMAIN live : \A i \in InUse :
           heap.entries[i].pages = live[t].at => live[t].size <= heap.entries[i].size
      /\ {c \in Cell : cells[c].used} = {live[t].at : t \in DOMAIN live} \cap Cell
  BY DEF Books, Balanced
<1>3. ASSUME NEW t \in DOMAIN live, live[t].at \in Page
      PROVE  \E j \in Used(heap) : /\ heap.entries[j].pages = live[t].at
                                   /\ live[t].size <= heap.entries[j].size
  <2>1. live[t].at \in {live[u].at : u \in DOMAIN live} \ Cell
    BY <1>3, Addresses
  <2>2. PICK j \in Used(heap) : heap.entries[j].pages = live[t].at
    BY <1>1, <1>2, <2>1
  <2> QED
    BY <1>1, <1>2, <2>2
<1>4. ASSUME NEW j \in Used(heap) PROVE \E t \in DOMAIN live : heap.entries[j].pages = live[t].at
  BY <1>1, <1>2
<1>5. ASSUME NEW t \in DOMAIN live, live[t].at \in Cell PROVE cells[live[t].at].used
  BY <1>5 DEF Consistent, NotTaken
<1>6. ASSUME NEW c \in Cell, cells[c].used PROVE \E t \in DOMAIN live : live[t].at = c
  BY <1>2, <1>6
<1> QED
  BY <1>3, <1>4, <1>5, <1>6

\* Where a block on pages of its own is.
LEMMA BlockPlace ==
  ASSUME TypeOK, RegionsExact, NEW t \in DOMAIN live, NEW j \in Used(heap),
         heap.entries[j].pages = live[t].at, live[t].size <= heap.entries[j].size,
         NEW w \in 0 .. live[t].size - 1
  PROVE  /\ live[t].at + (w \div PageSize) \in Reg(heap, j)
         /\ live[t].at + (w \div PageSize) \in Mapped(heap.mem)
         /\ WordOf(live[t], w) = WordAt(heap.mem, live[t].at, w)
<1>1. heap \in Heap /\ Exact(heap) /\ live[t].size \in Nat
  BY RegionsAreExact DEF TypeOK, Block
<1>2. heap.entries[j].pages \in Page /\ heap.entries[j].size \in Nat
  BY <1>1, UsedParts
<1>3. w \in Nat /\ w < heap.entries[j].size
  BY <1>1, <1>2
<1>4. /\ heap.entries[j].pages + (w \div PageSize) \in Reg(heap, j)
      /\ heap.entries[j].pages + (w \div PageSize) \in Mapped(heap.mem)
  BY <1>1, <1>3, WordsMapped
<1>5. live[t].at \notin Cell
  BY <1>2, Addresses
<1>6. heap.mem[live[t].at + (w \div PageSize)] # Unmapped
  BY <1>4 DEF Mapped
<1> QED
  BY <1>4, <1>5, <1>6 DEF WordOf, WordAt

-----------------------------------------------------------------------------
(* A step in which one client block is exchanged for another, or is new, or  *)
(* goes.                                                                     *)

Had(tag, S) == tag \in DOMAIN live /\ live[tag].at \in S
Has(tag, S) == tag \in DOMAIN live' /\ live'[tag].at \in S

OthersKept(tag) == /\ DOMAIN live' \ {tag} = DOMAIN live \ {tag}
                   /\ \A t \in DOMAIN live \ {tag} : live'[t] = live[t]

\* Entry i is the only one that changes; it was the block's, and is afterwards.
HeapChange(tag, i) ==
  /\ Exact(heap') /\ Used(heap') \ {i} = Used(heap) \ {i}
  /\ \A j \in Used(heap) \ {i} : heap'.entries[j] = heap.entries[j]
  /\ \A p \in Mapped(heap.mem) :
       (i \in Used(heap) => p \notin Reg(heap, i)) => heap'.mem[p] = heap.mem[p]
  /\ i \in Used(heap) <=> Had(tag, Page)
  /\ i \in Used(heap) => heap.entries[i].pages = live[tag].at
  /\ i \in Used(heap') <=> Has(tag, Page)
  /\ i \in Used(heap') => /\ heap'.entries[i].pages = live'[tag].at
                          /\ live'[tag].size <= heap'.entries[i].size

\* The only cells that change are the block's.
CellChange(tag) ==
  /\ \A c \in Cell : (Had(tag, Cell) => c # live[tag].at) /\ (Has(tag, Cell) => c # live'[tag].at)
                       => cells'[c] = cells[c]
  /\ Has(tag, Cell) => /\ cells'[live'[tag].at].used
                       /\ FitsAt(live'[tag].at, live'[tag].size, cells')
                       /\ ~ Had(tag, {live'[tag].at}) => ~ cells[live'[tag].at].used
  /\ Had(tag, Cell) => Has(tag, {live[tag].at}) \/ ~ cells'[live[tag].at].used

TagData(tag) == tag \in DOMAIN live' =>
  \A w \in 0 .. live'[tag].size - 1 : WordIn(heap', cells', live'[tag], w) = live'[tag].val

\* The block of another tag is not touched.
LEMMA OtherBlocks ==
  ASSUME Inv, Consistent, TypeOK', NEW tag, NEW i,
         OthersKept(tag), HeapChange(tag, i), CellChange(tag),
         NEW t \in DOMAIN live' \ {tag}
  PROVE  /\ t \in DOMAIN live /\ live'[t] = live[t] /\ live[t].at \in Cell \cup Page
         /\ live[t].at \in Cell => cells'[live[t].at] = cells[live[t].at]
                                   /\ ~ Has(tag, {live[t].at}) /\ ~ Had(tag, {live[t].at})
         /\ live[t].at \in Page =>
              \E j \in Used(heap) \ {i} :
                /\ heap.entries[j].pages = live[t].at /\ live[t].size <= heap.entries[j].size
                /\ j \in Used(heap') /\ heap'.entries[j] = heap.entries[j]
         /\ \A w \in 0 .. live[t].size - 1 : WordIn(heap', cells', live'[t], w) = live[t].val
<1>1. t \in DOMAIN live /\ live'[t] = live[t]
  BY DEF OthersKept
<1>2. /\ live[t].at \in Cell \cup Page /\ live[t].size \in Nat
      /\ heap \in Heap /\ Exact(heap) /\ RegionsExact /\ TypeOK /\ Books
  BY <1>1, RegionsAreExact DEF Inv, TypeOK, Block
<1>3. tag \in DOMAIN live => live[t].at # live[tag].at
  BY <1>1 DEF Inv, OneBlock
<1>4. ASSUME live[t].at \in Cell
      PROVE  /\ cells'[live[t].at] = cells[live[t].at]
             /\ ~ Has(tag, {live[t].at}) /\ ~ Had(tag, {live[t].at})
  <2>1. cells[live[t].at].used
    BY <1>1, <1>2, <1>4, BooksParts
  <2>2. ~ Had(tag, {live[t].at})
    BY <1>3 DEF Had
  <2>3. ~ Has(tag, {live[t].at})
    <3>1. SUFFICES ASSUME tag \in DOMAIN live', live'[tag].at = live[t].at PROVE FALSE
      BY DEF Has
    <3>2. Has(tag, Cell)
      BY <1>4, <3>1 DEF Has
    <3>3. ~ Had(tag, {live'[tag].at}) => ~ cells[live'[tag].at].used
      BY <3>2 DEF CellChange
    <3> QED
      BY <2>1, <2>2, <3>1, <3>3
  <2>4. (Had(tag, Cell) => live[t].at # live[tag].at) /\ (Has(tag, Cell) => live[t].at # live'[tag].at)
    BY <2>2, <2>3 DEF Had, Has
  <2> QED
    BY <1>4, <2>2, <2>3, <2>4 DEF CellChange
<1>5. ASSUME live[t].at \in Page
      PROVE  \E j \in Used(heap) \ {i} :
               /\ heap.entries[j].pages = live[t].at /\ live[t].size <= heap.entries[j].size
               /\ j \in Used(heap') /\ heap'.entries[j] = heap.entries[j]
  <2>1. PICK j \in Used(heap) : /\ heap.entries[j].pages = live[t].at
                                /\ live[t].size <= heap.entries[j].size
    BY <1>1, <1>2, <1>5, BooksParts
  <2>2. j # i
    BY <1>3, <2>1 DEF HeapChange, Had
  <2> QED
    BY <2>1, <2>2 DEF HeapChange
<1>6. ASSUME NEW w \in 0 .. live[t].size - 1 PROVE WordIn(heap', cells', live'[t], w) = live[t].val
  <2>1. WordOf(live[t], w) = live[t].val
    BY <1>1 DEF Inv, Intact
  <2>2. CASE live[t].at \in Cell
    <3>1. WordOf(live[t], w) = cells[live[t].at].data[w]
      BY <2>2 DEF WordOf
    <3>2. WordIn(heap', cells', live'[t], w) = cells'[live[t].at].data[w]
      BY <1>1, <2>2 DEF WordIn
    <3> QED
      BY <1>4, <2>1, <2>2, <3>1, <3>2
  <2>3. CASE live[t].at \in Page
    <3>1. PICK j \in Used(heap) \ {i} :
               heap.entries[j].pages = live[t].at /\ live[t].size <= heap.entries[j].size
      BY <1>5, <2>3
    <3>2. PICK p : p = live[t].at + (w \div PageSize)
      OBVIOUS
    <3>3. /\ p \in Reg(heap, j) /\ p \in Mapped(heap.mem)
          /\ WordOf(live[t], w) = heap.mem[p][w % PageSize]
      BY <1>1, <1>2, <3>1, <3>2, BlockPlace DEF WordAt
    <3>4. i \in Used(heap) => p \notin Reg(heap, i)
      BY <1>2, <3>1, <3>3 DEF Exact
    <3>5. heap'.mem[p] = heap.mem[p] /\ heap'.mem[p] # Unmapped
      BY <3>3, <3>4 DEF HeapChange, Mapped
    <3>6. live'[t].at \notin Cell
      BY <1>1, <2>3, Addresses
    <3>7. WordIn(heap', cells', live'[t], w) = heap'.mem[p][w % PageSize]
      BY <1>1, <3>2, <3>5, <3>6 DEF WordIn
    <3> QED
      BY <2>1, <3>3, <3>5, <3>7
  <2> QED
    BY <1>2, <2>2, <2>3
<1> QED
  BY <1>1, <1>2, <1>4, <1>5, <1>6

\* After the step the books agree with the client's, if nothing is ambiguous.
LEMMA ExchangeBooks ==
  ASSUME Inv, Consistent, TypeOK', NEW tag, NEW i,
         OthersKept(tag), HeapChange(tag, i), CellChange(tag), Consistent'
  PROVE  Books' /\ OneBlock'
<1>1. /\ heap \in Heap /\ Exact(heap) /\ RegionsExact /\ TypeOK /\ Books
      /\ heap' \in Heap /\ Exact(heap') /\ InUse' = Used(heap')
  BY RegionsAreExact, RegionsAreExactNext DEF Inv, TypeOK, HeapChange
<1>2. \A j, k \in Used(heap') : heap'.entries[j].pages = heap'.entries[k].pages => j = k
  BY DEF Consistent, Unambiguous, Used
<1>3. \A j, k \in Used(heap) : heap.entries[j].pages = heap.entries[k].pages => j = k
  BY DEF Consistent, Unambiguous, Used
<1>4. \A t \in DOMAIN live' : live'[t].at \in Cell \cup Page
  BY DEF TypeOK, Block
<1>5. ASSUME NEW j \in Used(heap') PROVE \E t \in DOMAIN live' : live'[t].at = heap'.entries[j].pages /\ live'[t].at \notin Cell
  <2>1. heap'.entries[j].pages \in Page
    BY <1>1, UsedParts
  <2>2. CASE j = i
    BY <2>1, <2>2, Addresses DEF HeapChange, Has
  <2>3. CASE j # i
    <3>1. j \in Used(heap) \ {i} /\ heap'.entries[j] = heap.entries[j]
      BY <2>3 DEF HeapChange
    <3>2. PICK t \in DOMAIN live : heap.entries[j].pages = live[t].at
      BY <1>1, <3>1, BooksParts
    <3>3. t # tag
      <4>1. SUFFICES ASSUME t = tag PROVE FALSE
        OBVIOUS
      <4>2. i \in Used(heap) /\ heap.entries[i].pages = live[tag].at
        BY <2>1, <3>1, <3>2, <4>1 DEF HeapChange, Had
      <4> QED
        BY <1>3, <3>1, <3>2, <4>1, <4>2
    <3>4. t \in DOMAIN live' /\ live'[t] = live[t]
      BY <3>2, <3>3 DEF OthersKept
    <3> QED
      BY <2>1, <3>1, <3>2, <3>4, Addresses
  <2> QED
    BY <2>2, <2>3
<1>6. ASSUME NEW t \in DOMAIN live', live'[t].at \notin Cell
      PROVE  \E j \in Used(heap') : /\ heap'.entries[j].pages = live'[t].at
                                    /\ live'[t].size <= heap'.entries[j].size
                                    /\ t # tag => j # i
  <2>1. live'[t].at \in Page
    BY <1>4, <1>6
  <2>2. CASE t = tag
    <3>1. i \in Used(heap')
      BY <2>1, <2>2 DEF HeapChange, Has
    <3> QED
      BY <2>2, <3>1 DEF HeapChange
  <2>3. CASE t # tag
    <3>0. t \in DOMAIN live' \ {tag}
      BY <2>3
    <3>1. /\ t \in DOMAIN live /\ live'[t] = live[t] /\ live[t].at \in Cell \cup Page
          /\ live[t].at \in Cell => cells'[live[t].at] = cells[live[t].at]
                                     /\ ~ Has(tag, {live[t].at}) /\ ~ Had(tag, {live[t].at})
          /\ live[t].at \in Page =>
              \E j \in Used(heap) \ {i} :
                /\ heap.entries[j].pages = live[t].at /\ live[t].size <= heap.entries[j].size
                /\ j \in Used(heap') /\ heap'.entries[j] = heap.entries[j]
      BY <3>0, OtherBlocks
    <3> QED
      BY <2>1, <2>3, <3>1
  <2> QED
    BY <2>2, <2>3
<1>7. {heap'.entries[j].pages : j \in Used(heap')} = {live'[t].at : t \in DOMAIN live'} \ Cell
  BY <1>5, <1>6
<1>8. ASSUME NEW t \in DOMAIN live', NEW j \in Used(heap'), heap'.entries[j].pages = live'[t].at
      PROVE  live'[t].size <= heap'.entries[j].size
  <2>1. heap'.entries[j].pages \in Page
    BY <1>1, UsedParts
  <2>2. live'[t].at \notin Cell
    BY <1>8, <2>1, Addresses
  <2> QED
    BY <1>2, <1>6, <1>8, <2>2
<1>9. ASSUME NEW c \in Cell PROVE cells'[c].used <=> \E t \in DOMAIN live' : live'[t].at = c
  <2>1. ASSUME NEW t \in DOMAIN live', live'[t].at = c PROVE cells'[c].used
    BY <2>1 DEF Consistent, NotTaken
  <2>2. ASSUME cells'[c].used PROVE \E t \in DOMAIN live' : live'[t].at = c
    <3>1. CASE Has(tag, {c})
      BY <3>1 DEF Has
    <3>2. CASE ~ Has(tag, {c})
      <4>1. ~ Had(tag, {c})
        <5>1. SUFFICES ASSUME tag \in DOMAIN live, live[tag].at = c PROVE FALSE
          BY DEF Had
        <5>2. Had(tag, Cell)
          BY <5>1 DEF Had
        <5> QED
          BY <2>2, <3>2, <5>1, <5>2 DEF CellChange
      <4>2. cells'[c] = cells[c]
        BY <3>2, <4>1 DEF CellChange, Had, Has
      <4>3. PICK t \in DOMAIN live : live[t].at = c
        BY <1>1, <2>2, <4>2, BooksParts
      <4>4. t # tag
        BY <4>1, <4>3 DEF Had
      <4> QED
        BY <4>3, <4>4 DEF OthersKept
    <3> QED
      BY <3>1, <3>2
  <2> QED
    BY <2>1, <2>2
<1>10. {c \in Cell : cells'[c].used} = {live'[t].at : t \in DOMAIN live'} \cap Cell
  BY <1>9
<1>11. Books'
  BY <1>1, <1>7, <1>8, <1>10 DEF Books, Balanced
<1>12. ASSUME NEW t \in DOMAIN live', t # tag, tag \in DOMAIN live', live'[t].at = live'[tag].at
       PROVE  FALSE
  <2>1. CASE live'[t].at \in Cell
    <3>1. t \in DOMAIN live' \ {tag}
      BY <1>12
    <3>2. /\ live'[t] = live[t]
          /\ live[t].at \in Cell => ~ Has(tag, {live[t].at})
      BY <3>1, OtherBlocks
    <3> QED
      BY <1>12, <2>1, <3>2 DEF Has
  <2>2. CASE live'[t].at \notin Cell
    <3>1. PICK j \in Used(heap') : heap'.entries[j].pages = live'[t].at /\ j # i
      BY <1>6, <1>12, <2>2
    <3>2. i \in Used(heap') /\ heap'.entries[i].pages = live'[tag].at
      BY <1>4, <1>12, <2>2 DEF HeapChange, Has
    <3> QED
      BY <1>2, <1>12, <3>1, <3>2
  <2> QED
    BY <2>1, <2>2
<1>13. ASSUME NEW t \in DOMAIN live', NEW u \in DOMAIN live', live'[t].at = live'[u].at
       PROVE  t = u
  <2>1. CASE t # tag /\ u # tag
    <3>1. t \in DOMAIN live /\ u \in DOMAIN live /\ live'[t] = live[t] /\ live'[u] = live[u]
      BY <2>1 DEF OthersKept
    <3>2. OneBlock
      BY DEF Inv
    <3> QED
      BY <1>13, <3>1, <3>2 DEF OneBlock
  <2>2. CASE t = tag \/ u = tag
    BY <1>12, <1>13, <2>2
  <2> QED
    BY <2>1, <2>2
<1>14. OneBlock'
  BY <1>13 DEF OneBlock
<1> QED
  BY <1>11, <1>14

LEMMA Exchange ==
  ASSUME Inv, Consistent, TypeOK', NEW tag, NEW i,
         OthersKept(tag), HeapChange(tag, i), CellChange(tag), TagData(tag)
  PROVE  Inv' /\ NotTaken'
<1>1. RegionsExact'
  BY RegionsAreExactNext DEF HeapChange
<1>2. Fits'
  <2>1. ASSUME NEW t \in DOMAIN live', live'[t].at \in Cell
        PROVE  FitsAt(live'[t].at, live'[t].size, cells')
    <3>1. CASE t = tag
      BY <2>1, <3>1 DEF CellChange, Has
    <3>2. CASE t # tag
      <4>1. /\ t \in DOMAIN live /\ live'[t] = live[t]
            /\ live[t].at \in Cell => cells'[live[t].at] = cells[live[t].at]
        <5>1. t \in DOMAIN live' \ {tag}
          BY <3>2
        <5> QED
          BY <5>1, OtherBlocks
      <4>2. FitsAt(live[t].at, live[t].size, cells)
        BY <2>1, <4>1 DEF Inv, Fits
      <4> QED
        BY <2>1, <4>1, <4>2 DEF FitsAt
    <3> QED
      BY <3>1, <3>2
  <2> QED
    BY <2>1 DEF Fits
<1>3. Intact'
  <2>1. ASSUME NEW t \in DOMAIN live', NEW w \in 0 .. live'[t].size - 1
        PROVE  WordIn(heap', cells', live'[t], w) = live'[t].val
    <3>1. CASE t = tag
      BY <2>1, <3>1 DEF TagData
    <3>2. CASE t # tag
      <4>1. /\ t \in DOMAIN live /\ live'[t] = live[t]
            /\ \A x \in 0 .. live[t].size - 1 : WordIn(heap', cells', live'[t], x) = live[t].val
        <5>1. t \in DOMAIN live' \ {tag}
          BY <3>2
        <5> QED
          BY <5>1, OtherBlocks
      <4> QED
        BY <2>1, <4>1
    <3> QED
      BY <3>1, <3>2
  <2> QED
    BY <2>1 DEF Intact, WordOf, WordIn
<1>4. Books' /\ (Consistent' => OneBlock')
  <2>1. CASE Consistent'
    BY <2>1, ExchangeBooks
  <2>2. CASE ~ Consistent'
    BY <2>2 DEF Books, Balanced
  <2> QED
    BY <2>1, <2>2
<1>5. NotTaken'
  <2>1. ASSUME NEW t \in DOMAIN live', live'[t].at \in Cell PROVE cells'[live'[t].at].used
    <3>1. CASE t = tag
      BY <2>1, <3>1 DEF CellChange, Has
    <3>2. CASE t # tag
      <4>1. t \in DOMAIN live' \ {tag}
        BY <3>2
      <4>2. /\ t \in DOMAIN live /\ live'[t] = live[t]
            /\ live[t].at \in Cell => cells'[live[t].at] = cells[live[t].at]
        BY <4>1, OtherBlocks
      <4> QED
        BY <2>1, <4>2 DEF Consistent, NotTaken
    <3> QED
      BY <3>1, <3>2
  <2> QED
    BY <2>1 DEF NotTaken
<1> QED
  BY <1>1, <1>2, <1>3, <1>4, <1>5 DEF Inv

\* A step after which the client has what it had: a call that failed.
LEMMA Failure ==
  ASSUME Inv, Consistent, TypeOK', Keeps(heap, heap'), live' = live,
         \A c \in Cell : /\ cells'[c].data = cells[c].data /\ cells'[c].bucket = cells[c].bucket
                         /\ cells'[c].used = cells[c].used
  PROVE  Inv' /\ NotTaken'
<1>1. /\ heap \in Heap /\ Exact(heap) /\ RegionsExact /\ TypeOK /\ Books /\ OneBlock
      /\ InUse = Used(heap)
      /\ InUse' = Used(heap) /\ Exact(heap') /\ RegionsExact'
  BY RegionsAreExact, RegionsAreExactNext DEF Inv, TypeOK, Keeps
<1>2. \A t \in DOMAIN live : live[t].at \in Cell \cup Page /\ live[t].size \in Nat
  BY <1>1 DEF TypeOK, Block
<1>3. Fits'
  BY DEF Inv, Fits, FitsAt
<1>4. Intact'
  <2>1. ASSUME NEW t \in DOMAIN live, NEW w \in 0 .. live[t].size - 1
        PROVE  WordIn(heap', cells', live[t], w) = live[t].val
    <3>1. WordOf(live[t], w) = live[t].val
      BY DEF Inv, Intact
    <3>2. CASE live[t].at \in Cell
      BY <3>1, <3>2 DEF WordOf, WordIn
    <3>3. CASE live[t].at \in Page
      <4>1. PICK j \in Used(heap) : /\ heap.entries[j].pages = live[t].at
                                    /\ live[t].size <= heap.entries[j].size
        BY <1>1, <3>3, BooksParts
      <4>2. PICK p : p = live[t].at + (w \div PageSize)
        OBVIOUS
      <4>3. p \in Mapped(heap.mem) /\ WordOf(live[t], w) = heap.mem[p][w % PageSize]
        BY <1>1, <4>1, <4>2, BlockPlace DEF WordAt
      <4>4. heap'.mem[p] = heap.mem[p] /\ heap'.mem[p] # Unmapped
        BY <4>3 DEF Keeps, Mapped
      <4>5. live[t].at \notin Cell
        BY <3>3, Addresses
      <4> QED
        BY <3>1, <4>2, <4>3, <4>4, <4>5 DEF WordIn
    <3> QED
      BY <1>2, <3>2, <3>3
  <2> QED
    BY <2>1 DEF Intact, WordOf, WordIn
<1>5. Books'
  <2>1. SUFFICES ASSUME Consistent' PROVE Books'
    BY DEF Books, Balanced
  <2>2. \A i \in Used(heap) : heap'.entries[i] = heap.entries[i]
    BY DEF Keeps
  <2>3. {heap'.entries[i].pages : i \in Used(heap)} = {live[t].at : t \in DOMAIN live} \ Cell
    BY <1>1, <2>2 DEF Books, Balanced
  <2>4. \A t \in DOMAIN live : \A i \in Used(heap) :
          heap'.entries[i].pages = live[t].at => live[t].size <= heap'.entries[i].size
    BY <1>1, <2>2 DEF Books, Balanced
  <2>5. \A t \in DOMAIN live : live[t].at \in Cell => cells'[live[t].at].used
    BY <2>1 DEF Consistent, NotTaken
  <2>6. \A c \in Cell : cells'[c].used => \E t \in DOMAIN live : live[t].at = c
    BY <1>1, BooksParts
  <2>7. {c \in Cell : cells'[c].used} = {live[t].at : t \in DOMAIN live} \cap Cell
    BY <2>5, <2>6
  <2>8. /\ {heap'.entries[i].pages : i \in Used(heap')} = {live'[t].at : t \in DOMAIN live'} \ Cell
        /\ \A t \in DOMAIN live' : \A i \in Used(heap') :
             heap'.entries[i].pages = live'[t].at => live'[t].size <= heap'.entries[i].size
        /\ {c \in Cell : cells'[c].used} = {live'[t].at : t \in DOMAIN live'} \cap Cell
    BY <2>3, <2>4, <2>7 DEF Keeps
  <2>9. InUse' = Used(heap')
    BY RegionsAreExactNext
  <2> QED
    BY <2>8, <2>9 DEF Books, Balanced
<1>6. OneBlock'
  BY <1>1 DEF OneBlock
<1>7. NotTaken'
  BY <1>2 DEF Consistent, NotTaken
<1> QED
  BY <1>1, <1>3, <1>4, <1>5, <1>6, <1>7 DEF Inv

-----------------------------------------------------------------------------
(* Writing into blocks. *)

\* The words W of n words from page a on are those of F.
Overwrite(h, a, n, F, W) ==
  [h EXCEPT !.mem =
     [p \in Page |->
        IF p \notin Region(a, n) THEN h.mem[p]
        ELSE [w \in Word |-> IF (p - a) * PageSize + w \in W
                               THEN F[(p - a) * PageSize + w] ELSE h.mem[p][w]]]]

\* A write into what entry i records.
Overwritten(h, g, i, n, F, W) ==
  /\ h \in Heap /\ Exact(h) /\ i \in Used(h) /\ n \in Nat /\ n <= h.entries[i].size
  /\ \A k \in Nat : k < n => F[k] \in Val
  /\ W \subseteq 0 .. n - 1
  /\ g = Overwrite(h, h.entries[i].pages, n, F, W)

LEMMA WriteFacts ==
  ASSUME NEW h, NEW g, NEW i, NEW n, NEW F, NEW W, Overwritten(h, g, i, n, F, W)
  PROVE  /\ g \in Heap /\ Exact(g) /\ Used(g) = Used(h) /\ g.entries = h.entries
         /\ \A p \in Page \ Reg(h, i) : g.mem[p] = h.mem[p]
         /\ \A k \in Nat : k < n =>
              WordAt(g.mem, h.entries[i].pages, k) =
                IF k \in W THEN F[k] ELSE WordAt(h.mem, h.entries[i].pages, k)
<1> USE DEF Overwritten
<1>1. h.mem \in [Page -> Content] /\ h.tables \subseteq Page
  BY HeapParts
<1>2. PICK a \in Page, m \in Nat : a = h.entries[i].pages /\ m = h.entries[i].size
                                   /\ Reg(h, i) = Region(a, m) /\ Reg(h, i) \subseteq Mapped(h.mem)
  BY UsedParts DEF Reg
<1>3. a \in Nat
  BY Addresses
<1>4. Region(a, n) \subseteq Region(a, m)
  <2>1. PagesFor(n) <= PagesFor(m) /\ PagesFor(n) \in Nat /\ PagesFor(m) \in Nat
    BY <1>2, PagesForMonotone, PagesForFacts
  <2> QED
    BY <1>3, <2>1 DEF Region
<1> DEFINE f == [p \in Region(a, n) |->
                   [w \in Word |-> IF (p - a) * PageSize + w \in W
                                     THEN F[(p - a) * PageSize + w] ELSE h.mem[p][w]]]
           mm == [p \in Page |-> IF p \notin Region(a, n) THEN h.mem[p] ELSE f[p]]
<1>5. g = [h EXCEPT !.mem = mm]
  BY <1>2 DEF Overwrite
<1>6. ASSUME NEW p \in Region(a, n) PROVE f[p] \in [Word -> Val]
  <2>1. h.mem[p] \in [Word -> Val]
    BY <1>1, <1>2, <1>4, MappedWords
  <2>2. ASSUME NEW k \in W PROVE F[k] \in Val
    BY <2>2
  <2> QED
    BY <2>1, <2>2
<1>7. Region(a, n) \subseteq Page
  BY <1>2, <1>4 DEF Mapped
<1>8. /\ \A p \in Page \ Region(a, n) : mm[p] = h.mem[p]
      /\ \A p \in Region(a, n) : mm[p] = f[p]
  BY <1>7
<1>9. mm \in [Page -> Content]
  BY <1>1, <1>6, <1>7 DEF Content
<1> HIDE DEF mm
<1>10. Mapped(mm) = Mapped(h.mem)
  <2> HIDE DEF f
  <2>1. \A p \in Region(a, n) : mm[p] # Unmapped
    BY <1>6, <1>8, WordsAreMapped
  <2>2. PICK S : S = Region(a, n)
    OBVIOUS
  <2>3. S \subseteq Mapped(h.mem) /\ (\A p \in S : mm[p] # Unmapped)
        /\ (\A p \in Page \ S : mm[p] = h.mem[p])
    BY <1>2, <1>4, <1>8, <2>1, <2>2
  <2> QED
    BY <2>3, RewriteFacts
<1>11. g.entries = h.entries /\ g.tables = h.tables /\ g.mem = mm /\ g \in Heap
  BY <1>5, <1>9 DEF Heap
<1>12. Used(g) = Used(h) /\ \A j \in Used(h) : Reg(g, j) = Reg(h, j)
  BY <1>11 DEF Used, Reg
<1>13. Exact(g)
  BY <1>10, <1>11, <1>12 DEF Exact
<1>14. \A p \in Page \ Reg(h, i) : g.mem[p] = h.mem[p]
  BY <1>2, <1>4, <1>8, <1>11
<1>15. ASSUME NEW k \in Nat, k < n
       PROVE  WordAt(g.mem, a, k) = IF k \in W THEN F[k] ELSE WordAt(h.mem, a, k)
  <2>1. /\ a + (k \div PageSize) \in Region(a, n) /\ k % PageSize \in Word
        /\ ((a + (k \div PageSize)) - a) * PageSize + (k % PageSize) = k
    BY <1>3, <1>15, WordPlace
  <2>2. PICK p \in Region(a, n), w \in Word : p = a + (k \div PageSize) /\ w = k % PageSize
    BY <2>1
  <2>3. (p - a) * PageSize + w = k
    BY <2>1, <2>2
  <2>4. f[p][w] = IF k \in W THEN F[k] ELSE h.mem[p][w]
    BY <2>3
  <2>5. WordAt(g.mem, a, k) = mm[p][w] /\ WordAt(h.mem, a, k) = h.mem[p][w]
    BY <1>11, <2>2 DEF WordAt
  <2> QED
    BY <1>8, <2>4, <2>5
<1> QED
  BY <1>2, <1>11, <1>12, <1>13, <1>14, <1>15

Result(r) == r = [ret |-> r.ret, heap |-> r.heap, cells |-> r.cells]

\* What a write to entry i of h from page a on leaves alone.
Wrote(h, g, i) ==
  /\ g \in Heap /\ Exact(g) /\ Used(g) = Used(h) /\ g.entries = h.entries
  /\ \A p \in Page \ Reg(h, i) : g.mem[p] = h.mem[p]

\* The client, or memset, writes into pages.
LEMMA PutPages ==
  ASSUME NEW r, Result(r), r.heap \in Heap, Exact(r.heap), NEW i \in Used(r.heap),
         r.heap.entries[i].pages = r.ret, NEW from \in Nat, NEW to \in Nat,
         to <= r.heap.entries[i].size, NEW v \in Val, NEW g, g = Put(r, from, to, v)
  PROVE  /\ g.cells = r.cells /\ g.ret = r.ret /\ Wrote(r.heap, g.heap, i)
         /\ \A k \in Nat : k < to =>
              WordAt(g.heap.mem, r.ret, k) = IF from <= k THEN v ELSE WordAt(r.heap.mem, r.ret, k)
<1>1. PICK h \in Heap : h = r.heap
  OBVIOUS
<1>2. PICK a \in Page : a = r.ret
  BY UsedParts
<1>3. a \notin Cell /\ a \in Nat
  BY Addresses
<1>4. PICK F : F = [k \in Nat |-> v]
  OBVIOUS
<1>5. PICK W : W = from .. to - 1
  OBVIOUS
<1>6. W \subseteq 0 .. to - 1 /\ \A k \in Nat : k < to => F[k] \in Val /\ F[k] = v
  BY <1>4, <1>5
<1>7. PagesFor(to) \in Nat /\ PageSize \in Nat
  BY PagesForFacts, PageAssumption
<1>8. g = [r EXCEPT !.heap.mem =
            [p \in Page |->
               IF p \notin Region(a, to) THEN h.mem[p]
               ELSE [w \in Word |->
                       IF (p - a) * PageSize + w \in W
                         THEN v ELSE h.mem[p][w]]]]
  BY <1>1, <1>2, <1>3, <1>5 DEF Put, Region
<1>9. [p \in Page |-> IF p \notin Region(a, to) THEN h.mem[p]
                      ELSE [w \in Word |-> IF (p - a) * PageSize + w \in W
                                             THEN v ELSE h.mem[p][w]]]
      = [p \in Page |-> IF p \notin Region(a, to) THEN h.mem[p]
                        ELSE [w \in Word |-> IF (p - a) * PageSize + w \in W
                                               THEN F[(p - a) * PageSize + w] ELSE h.mem[p][w]]]
  <2>1. \A k \in W : F[k] = v
    BY <1>4, <1>5
  <2> QED
    BY <2>1
<1>10. /\ g.ret = r.ret /\ g.cells = r.cells
       /\ g.heap = [h EXCEPT !.mem =
                      [p \in Page |-> IF p \notin Region(a, to) THEN h.mem[p]
                        ELSE [w \in Word |-> IF (p - a) * PageSize + w \in W
                                               THEN F[(p - a) * PageSize + w] ELSE h.mem[p][w]]]]
  BY <1>1, <1>8, <1>9 DEF Result
<1>11. PICK gh : gh = g.heap
  OBVIOUS
<1>12. /\ gh \in Heap /\ Exact(gh) /\ Used(gh) = Used(h) /\ gh.entries = h.entries
       /\ \A p \in Page \ Reg(h, i) : gh.mem[p] = h.mem[p]
       /\ \A k \in Nat : k < to =>
            WordAt(gh.mem, h.entries[i].pages, k) =
              IF k \in W THEN F[k] ELSE WordAt(h.mem, h.entries[i].pages, k)
  <2>1. /\ a = h.entries[i].pages /\ i \in Used(h) /\ Exact(h) /\ to <= h.entries[i].size
        /\ \A k \in Nat : k < to => F[k] \in Val
    BY <1>1, <1>2, <1>6
  <2>2. gh = Overwrite(h, h.entries[i].pages, to, F, W)
    BY <1>10, <1>11, <2>1 DEF Overwrite
  <2>3. Overwritten(h, gh, i, to, F, W)
    BY <1>6, <2>1, <2>2 DEF Overwritten
  <2> QED
    BY <2>3, WriteFacts
<1>13. ASSUME NEW k \in Nat, k < to
       PROVE  WordAt(g.heap.mem, r.ret, k) = IF from <= k THEN v ELSE WordAt(r.heap.mem, r.ret, k)
  <2>1. k \in W <=> from <= k
    BY <1>5, <1>13
  <2> QED
    BY <1>1, <1>2, <1>6, <1>11, <1>12, <1>13, <2>1
<1>14. Wrote(r.heap, g.heap, i)
  BY <1>1, <1>11, <1>12 DEF Wrote
<1> QED
  BY <1>10, <1>13, <1>14

\* memcpy from a cell into pages.
LEMMA CopyOutFacts ==
  ASSUME NEW r, Result(r), r.heap \in Heap, Exact(r.heap), NEW i \in Used(r.heap),
         r.heap.entries[i].pages = r.ret, NEW n \in Nat,
         n <= r.heap.entries[i].size, NEW from \in Cell, cells[from].data \in [CellWord -> Val],
         n <= SlotMax, NEW g, g = CopyOut(r, from, n)
  PROVE  /\ g.cells = r.cells /\ g.ret = r.ret /\ Wrote(r.heap, g.heap, i) /\ Result(g)
         /\ \A k \in Nat : k < n => WordAt(g.heap.mem, r.ret, k) = cells[from].data[k]
<1>1. PICK h \in Heap : h = r.heap
  OBVIOUS
<1>2. PICK a \in Page : a = r.ret
  BY UsedParts
<1>3. a \notin Cell /\ a \in Nat
  BY Addresses
<1>4. PICK F : F = cells[from].data
  OBVIOUS
<1>5. PICK W : W = 0 .. n - 1
  OBVIOUS
<1>6. W \subseteq 0 .. n - 1 /\ \A k \in Nat : k < n => F[k] \in Val
  BY <1>4, <1>5, SizeAssumption DEF CellWord
<1>7. PagesFor(n) \in Nat /\ PageSize \in Nat
  BY PagesForFacts, PageAssumption
<1>8. g = [r EXCEPT !.heap.mem =
            [p \in Page |->
               IF p \notin Region(a, n) THEN h.mem[p]
               ELSE [w \in Word |->
                       IF (p - a) * PageSize + w < n
                         THEN F[(p - a) * PageSize + w] ELSE h.mem[p][w]]]]
  BY <1>1, <1>2, <1>3, <1>4 DEF CopyOut
<1>9. [p \in Page |-> IF p \notin Region(a, n) THEN h.mem[p]
                      ELSE [w \in Word |-> IF (p - a) * PageSize + w < n
                                             THEN F[(p - a) * PageSize + w] ELSE h.mem[p][w]]]
      = [p \in Page |-> IF p \notin Region(a, n) THEN h.mem[p]
                        ELSE [w \in Word |-> IF (p - a) * PageSize + w \in W
                                               THEN F[(p - a) * PageSize + w] ELSE h.mem[p][w]]]
  <2>1. ASSUME NEW p \in Region(a, n), NEW w \in Word
        PROVE  (p - a) * PageSize + w < n <=> (p - a) * PageSize + w \in W
    <3>1. p - a \in Nat /\ w \in Nat
      BY <1>3, <1>7 DEF Region, Word
    <3>2. (p - a) * PageSize + w \in Nat
      BY <1>7, <3>1
    <3>3. PICK k \in Nat : k = (p - a) * PageSize + w
      BY <3>2
    <3>4. k < n <=> k \in W
      BY <1>5
    <3> QED
      BY <3>3, <3>4
  <2> QED
    BY <2>1
<1>10. /\ g.ret = r.ret /\ g.cells = r.cells /\ Result(g)
       /\ g.heap = [h EXCEPT !.mem =
                      [p \in Page |-> IF p \notin Region(a, n) THEN h.mem[p]
                        ELSE [w \in Word |-> IF (p - a) * PageSize + w \in W
                                               THEN F[(p - a) * PageSize + w] ELSE h.mem[p][w]]]]
  BY <1>1, <1>8, <1>9 DEF Result
<1>11. PICK gh : gh = g.heap
  OBVIOUS
<1>12. /\ gh \in Heap /\ Exact(gh) /\ Used(gh) = Used(h) /\ gh.entries = h.entries
       /\ \A p \in Page \ Reg(h, i) : gh.mem[p] = h.mem[p]
       /\ \A k \in Nat : k < n =>
            WordAt(gh.mem, h.entries[i].pages, k) =
              IF k \in W THEN F[k] ELSE WordAt(h.mem, h.entries[i].pages, k)
  <2>1. /\ a = h.entries[i].pages /\ i \in Used(h) /\ Exact(h) /\ n <= h.entries[i].size
        /\ \A k \in Nat : k < n => F[k] \in Val
    BY <1>1, <1>2, <1>6
  <2>2. gh = Overwrite(h, h.entries[i].pages, n, F, W)
    BY <1>10, <1>11, <2>1 DEF Overwrite
  <2>3. Overwritten(h, gh, i, n, F, W)
    BY <1>6, <2>1, <2>2 DEF Overwritten
  <2> QED
    BY <2>3, WriteFacts
<1>13. ASSUME NEW k \in Nat, k < n PROVE WordAt(g.heap.mem, r.ret, k) = cells[from].data[k]
  <2>1. k \in W
    BY <1>5, <1>13
  <2> QED
    BY <1>1, <1>2, <1>4, <1>11, <1>12, <1>13, <2>1
<1>14. Wrote(r.heap, g.heap, i)
  BY <1>1, <1>11, <1>12 DEF Wrote
<1> QED
  BY <1>10, <1>13, <1>14

-----------------------------------------------------------------------------
(* The small allocators. *)

IsCells(cs) == cs \in [Cell -> CellState]

LEMMA CellParts ==
  ASSUME NEW cs, IsCells(cs), NEW c \in Cell
  PROVE  /\ cs[c] \in CellState /\ cs[c].used \in BOOLEAN /\ cs[c].bucket \in Nat
         /\ cs[c].data \in [CellWord -> Val]
         /\ cs[c] = [used |-> cs[c].used, bucket |-> cs[c].bucket, data |-> cs[c].data]
BY DEF IsCells, CellState

\* One cell is different.
Change(cs, c, x) == [cs EXCEPT ![c] = x]

LEMMA OneCell ==
  ASSUME NEW cs, IsCells(cs), NEW c \in Cell, NEW x \in CellState
  PROVE  /\ IsCells(Change(cs, c, x)) /\ Change(cs, c, x)[c] = x
         /\ \A d \in Cell \ {c} : Change(cs, c, x)[d] = cs[d]
BY DEF IsCells, Change

\* Cell c, which was free, is given out for n words with what it holds.
Took(cs, ds, c, n) ==
  /\ c \in Cell /\ ~ cs[c].used /\ IsCells(ds) /\ ds[c].used /\ FitsAt(c, n, ds)
  /\ ds[c].data = cs[c].data
  /\ \A d \in Cell \ {c} : ds[d] = cs[d]

\* The sizes an allocator is asked for.
Asked(among, n) == \/ among \subseteq BuddyCells /\ n \in 1 .. BuddyMax
                   \/ among \subseteq SlotCells /\ n \in 0 .. SlotMax

LEMMA RoomFacts ==
  ASSUME NEW among, NEW n, Asked(among, n), NEW c \in among
  PROVE  /\ c \in Cell /\ CellRoom(c, n) \in Nat /\ n <= CellRoom(c, n) /\ CellRoom(c, n) <= SlotMax
         /\ c \in BuddyCells => CellRoom(c, n) \in 1 .. BuddyMax
<1>1. BuddyMax \in Nat /\ SlotMax \in Nat /\ BuddyMax <= SlotMax
  BY SizeAssumption
<1>2. CASE among \subseteq BuddyCells /\ n \in 1 .. BuddyMax
  <2>1. Bucket[n] \in n .. BuddyMax
    BY <1>2, BucketAssumption
  <2>2. CellRoom(c, n) = Bucket[n] /\ c \in Cell
    BY <1>2 DEF CellRoom, Cell
  <2> QED
    BY <1>1, <1>2, <2>1, <2>2
<1>3. CASE among \subseteq SlotCells /\ n \in 0 .. SlotMax
  <2>1. c \in Cell /\ c \notin BuddyCells
    BY <1>3, CellAssumption DEF Cell
  <2> QED
    BY <1>1, <1>3, <2>1 DEF CellRoom
<1> QED
  BY <1>2, <1>3 DEF Asked

LEMMA SmallAllocate ==
  ASSUME NEW cs, IsCells(cs), NEW among, NEW n, Asked(among, n),
         NEW r, r = small_allocate(among, n, cs)
  PROVE  /\ r.ret = NULL => r.cells = cs
         /\ r.ret # NULL => r.ret \in among /\ Took(cs, r.cells, r.ret, n)
         /\ r.ret = NULL \/ r.ret \in Cell
<1>1. CASE {c \in among : ~ cs[c].used} = {}
  <2>1. r = [ret |-> NULL, cells |-> cs]
    BY <1>1 DEF small_allocate
  <2> QED
    BY <2>1
<1>2. CASE {c \in among : ~ cs[c].used} # {}
  <2>1. PICK c \in among : ~ cs[c].used /\ r = [ret |-> c, cells |-> Taken(c, n, cs)]
    <3>1. PICK c : c = CHOOSE f \in {d \in among : ~ cs[d].used} : TRUE
      OBVIOUS
    <3>2. c \in {d \in among : ~ cs[d].used}
      BY <1>2, <3>1
    <3>3. r = [ret |-> c, cells |-> Taken(c, n, cs)]
      BY <1>2, <3>1 DEF small_allocate
    <3> QED
      BY <3>2, <3>3
  <2>2. /\ c \in Cell /\ CellRoom(c, n) \in Nat /\ n <= CellRoom(c, n) /\ CellRoom(c, n) <= SlotMax
        /\ c \in BuddyCells => CellRoom(c, n) \in 1 .. BuddyMax
    BY RoomFacts
  <2>3. PICK x : x = [used |-> TRUE, bucket |-> CellRoom(c, n), data |-> cs[c].data]
    OBVIOUS
  <2>4. x \in CellState
    BY <2>2, <2>3, CellParts DEF CellState
  <2>5. Taken(c, n, cs) = Change(cs, c, x)
    BY <2>3 DEF Taken, Change
  <2>6. PICK ds : ds = Taken(c, n, cs)
    OBVIOUS
  <2>7. IsCells(ds) /\ ds[c] = x /\ \A d \in Cell \ {c} : ds[d] = cs[d]
    BY <2>2, <2>4, <2>5, <2>6, OneCell
  <2>8. Took(cs, ds, c, n)
    BY <2>1, <2>2, <2>3, <2>7 DEF Took, FitsAt
  <2>9. c # NULL
    BY <2>2, Addresses
  <2> QED
    BY <2>1, <2>2, <2>6, <2>8, <2>9
<1> QED
  BY <1>1, <1>2

\* free.
LEMMA ReleasedFacts ==
  ASSUME NEW cs, IsCells(cs), NEW c \in Cell, NEW ds, ds = Released(c, cs)
  PROVE  IsCells(ds) /\ ~ ds[c].used /\ \A d \in Cell \ {c} : ds[d] = cs[d]
<1>1. PICK x : x = [used |-> FALSE, bucket |-> 0, data |-> [w \in CellWord |-> Junk]]
  OBVIOUS
<1>2. x \in CellState
  BY <1>1 DEF CellState, Val
<1>4. Released(c, cs) = Change(cs, c, x)
  BY <1>1 DEF Released, Change
<1>5. IsCells(ds) /\ ds[c] = x /\ \A d \in Cell \ {c} : ds[d] = cs[d]
  BY <1>2, <1>4, OneCell
<1> QED
  BY <1>1, <1>5

\* Only the words of cell c are different.
Filled(cs, ds, c) ==
  /\ IsCells(ds) /\ ds[c].used = cs[c].used /\ ds[c].bucket = cs[c].bucket
  /\ \A d \in Cell \ {c} : ds[d] = cs[d]

LEMMA CopyCellFacts ==
  ASSUME NEW cs, IsCells(cs), NEW c \in Cell, NEW data \in [CellWord -> Val], NEW n \in Nat,
         NEW ds, ds = CopyCell(cs, c, data, n)
  PROVE  /\ Filled(cs, ds, c)
         /\ \A w \in CellWord : w < n => ds[c].data[w] = data[w]
<1>1. cs[c] = [used |-> cs[c].used, bucket |-> cs[c].bucket, data |-> cs[c].data]
      /\ cs[c].data \in [CellWord -> Val] /\ cs[c] \in CellState
  BY CellParts
<1>2. PICK y : y = [w \in CellWord |-> IF w < n THEN data[w] ELSE cs[c].data[w]]
  OBVIOUS
<1>3. y \in [CellWord -> Val] /\ \A w \in CellWord : w < n => y[w] = data[w]
  BY <1>1, <1>2
<1>4. PICK x : x = [used |-> cs[c].used, bucket |-> cs[c].bucket, data |-> y]
  OBVIOUS
<1>5. x \in CellState
  BY <1>1, <1>3, <1>4, CellParts DEF CellState
<1>6. ds = Change(cs, c, x)
  <2>1. ds = [cs EXCEPT ![c].data = y]
    BY <1>2 DEF CopyCell
  <2>2. [cs[c] EXCEPT !.data = y] = x
    BY <1>1, <1>4
  <2> QED
    BY <2>1, <2>2 DEF Change
<1>7. IsCells(ds) /\ ds[c] = x /\ \A d \in Cell \ {c} : ds[d] = cs[d]
  BY <1>5, <1>6, OneCell
<1> QED
  BY <1>3, <1>4, <1>7 DEF Filled

LEMMA PutCell ==
  ASSUME NEW r, Result(r), IsCells(r.cells), r.ret \in Cell, NEW from \in Nat, NEW to \in Nat,
         NEW v \in Val, NEW g, g = Put(r, from, to, v)
  PROVE  /\ g.heap = r.heap /\ g.ret = r.ret /\ Filled(r.cells, g.cells, r.ret)
         /\ \A w \in CellWord : g.cells[r.ret].data[w] =
              IF from <= w /\ w < to THEN v ELSE r.cells[r.ret].data[w]
<1>1. PICK cs : cs = r.cells
  OBVIOUS
<1>2. PICK c \in Cell : c = r.ret
  OBVIOUS
<1>3. IsCells(cs)
  BY <1>1
<1>4. /\ cs[c] = [used |-> cs[c].used, bucket |-> cs[c].bucket, data |-> cs[c].data]
      /\ cs[c].data \in [CellWord -> Val] /\ cs[c] \in CellState
  BY <1>3, CellParts
<1>5. PICK y : y = [w \in CellWord |-> IF w \in from .. to - 1 THEN v ELSE cs[c].data[w]]
  OBVIOUS
<1>6. y \in [CellWord -> Val]
  BY <1>4, <1>5
<1>7. \A w \in CellWord : y[w] = IF from <= w /\ w < to THEN v ELSE cs[c].data[w]
  BY <1>5, SizeAssumption DEF CellWord
<1>8. PICK x : x = [used |-> cs[c].used, bucket |-> cs[c].bucket, data |-> y]
  OBVIOUS
<1>9. x \in CellState
  BY <1>3, <1>6, <1>8, CellParts DEF CellState
<1>10. g = [r EXCEPT !.cells = Change(cs, c, x)]
  <2>1. g = [r EXCEPT !.cells[c].data = y]
    BY <1>1, <1>2, <1>5 DEF Put
  <2>2. [cs[c] EXCEPT !.data = y] = x
    BY <1>4, <1>8
  <2>3. [cs EXCEPT ![c].data = y] = Change(cs, c, x)
    BY <2>2 DEF Change
  <2> QED
    BY <1>1, <2>1, <2>3
<1>11. g.heap = r.heap /\ g.ret = r.ret /\ g.cells = Change(cs, c, x)
  BY <1>10 DEF Result
<1>12. IsCells(g.cells) /\ g.cells[c] = x /\ \A d \in Cell \ {c} : g.cells[d] = cs[d]
  BY <1>3, <1>9, <1>11, OneCell
<1>13. g.cells[c].used = cs[c].used /\ g.cells[c].bucket = cs[c].bucket /\ g.cells[c].data = y
  BY <1>8, <1>12
<1>14. Filled(cs, g.cells, c)
  BY <1>12, <1>13 DEF Filled
<1> QED
  BY <1>1, <1>2, <1>7, <1>11, <1>13, <1>14

-----------------------------------------------------------------------------
(* Blocks that are new. *)

LEMMA HoldsFacts ==
  ASSUME TypeOK, NEW tag \in Tag, NEW a \in Cell \cup Page, NEW n \in Nat, NEW v \in Val,
         Holds(tag, a, n, v)
  PROVE  /\ DOMAIN live' = DOMAIN live \cup {tag} /\ DOMAIN live' \subseteq Tag
         /\ live' \in [DOMAIN live' -> Block]
         /\ live'[tag] = [at |-> a, size |-> n, val |-> v]
         /\ live'[tag].at = a /\ live'[tag].size = n /\ live'[tag].val = v
         /\ OthersKept(tag)
<1>1. PICK b : b = [at |-> a, size |-> n, val |-> v]
  OBVIOUS
<1>2. b \in Block /\ b.at = a /\ b.size = n /\ b.val = v
  BY <1>1 DEF Block
<1>3. live' = [t \in DOMAIN live \cup {tag} |-> IF t = tag THEN b ELSE live[t]]
  BY <1>1 DEF Holds
<1>4. DOMAIN live' = DOMAIN live \cup {tag} /\ live'[tag] = b
      /\ \A t \in DOMAIN live \ {tag} : live'[t] = live[t]
  BY <1>3
<1>5. live' \in [DOMAIN live' -> Block] /\ DOMAIN live' \subseteq Tag
  BY <1>2, <1>3, <1>4 DEF TypeOK
<1> QED
  BY <1>1, <1>2, <1>4, <1>5 DEF OthersKept

\* The entries are numbered from 1 on.
LEMMA NoEntryZero ==
  ASSUME NEW h \in Heap
  PROVE  0 \notin Used(h)
BY HeapParts DEF Used

\* Nothing happens to the heap.
LEMMA SameHeap ==
  ASSUME Inv, heap' = heap, NEW tag, ~ Had(tag, Page), ~ Has(tag, Page)
  PROVE  HeapChange(tag, 0)
<1>1. heap \in Heap /\ Exact(heap)
  BY RegionsAreExact DEF Inv, TypeOK
<1>2. 0 \notin Used(heap) /\ 0 \notin Used(heap')
  BY <1>1, NoEntryZero
<1> QED
  BY <1>1, <1>2 DEF HeapChange

LEMMA NewCell ==
  ASSUME Inv, Consistent, NEW tag \in Tag, tag \notin DOMAIN live, NEW n \in Nat, NEW v \in Val,
         NEW ds, NEW c, Took(cells, ds, c, n), Filled(ds, cells', c),
         \A w \in CellWord : w < n => cells'[c].data[w] = v,
         heap' = heap, Holds(tag, c, n, v), status' = "ok"
  PROVE  Inv' /\ NotTaken'
<1>1. TypeOK /\ c \in Cell /\ c \notin Page /\ IsCells(cells')
  BY Addresses DEF Inv, Took, Filled
<1>2. /\ DOMAIN live' = DOMAIN live \cup {tag} /\ DOMAIN live' \subseteq Tag
      /\ live' \in [DOMAIN live' -> Block]
      /\ live'[tag].at = c /\ live'[tag].size = n /\ live'[tag].val = v
      /\ OthersKept(tag)
  BY <1>1, HoldsFacts
<1>3. TypeOK'
  BY <1>1, <1>2 DEF TypeOK, IsCells
<1>4. ~ Had(tag, Page) /\ ~ Has(tag, Page) /\ ~ Had(tag, Cell) /\ \A S : ~ Had(tag, S)
  BY <1>1, <1>2 DEF Had, Has
<1>5. HeapChange(tag, 0)
  BY <1>4, SameHeap
<1>6. cells'[c].used /\ FitsAt(c, n, cells')
  BY DEF Took, Filled, FitsAt
<1>7. CellChange(tag)
  <2>1. \A d \in Cell : d # c => cells'[d] = cells[d]
    BY DEF Took, Filled
  <2>2. ~ cells[c].used
    BY DEF Took
  <2>3. Has(tag, Cell)
    BY <1>1, <1>2 DEF Has
  <2> QED
    BY <1>2, <1>4, <1>6, <2>1, <2>2, <2>3 DEF CellChange
<1>8. TagData(tag)
  <2>1. ASSUME NEW w \in 0 .. n - 1 PROVE WordIn(heap', cells', live'[tag], w) = v
    <3>1. w \in CellWord /\ w < n
      <4>1. n <= SlotMax
        <5>1. cells'[c].bucket \in Nat
          BY <1>1, CellParts
        <5>2. n <= cells'[c].bucket /\ cells'[c].bucket <= SlotMax /\ SlotMax \in Nat
          BY <1>6, SizeAssumption DEF FitsAt
        <5> QED
          BY <5>1, <5>2
      <4> QED
        BY <4>1, SizeAssumption DEF CellWord
    <3> QED
      BY <1>1, <1>2, <3>1 DEF WordIn
  <2> QED
    BY <1>2, <2>1 DEF TagData
<1> QED
  BY <1>2, <1>3, <1>5, <1>7, <1>8, Exchange

\* A word on pages of its own.
LEMMA PageWord ==
  ASSUME NEW h \in Heap, Exact(h), NEW i \in Used(h), NEW cs, NEW b, NEW k \in Nat,
         b.at = h.entries[i].pages, k < h.entries[i].size
  PROVE  WordIn(h, cs, b, k) = WordAt(h.mem, b.at, k)
<1>1. h.entries[i].pages + (k \div PageSize) \in Mapped(h.mem)
  BY WordsMapped
<1>2. h.entries[i].pages \notin Cell
  BY UsedParts, Addresses
<1> QED
  BY <1>1, <1>2 DEF WordIn, WordAt, Mapped

LEMMA NewPages ==
  ASSUME Inv, Consistent, NEW tag \in Tag, tag \notin DOMAIN live, NEW n \in Nat, NEW v \in Val,
         NEW g, NEW i \in Nat, NEW a, Grants(heap, g, i, a, n), Wrote(g, heap', i),
         \A k \in Nat : k < n => WordAt(heap'.mem, a, k) = v,
         cells' = cells, Holds(tag, a, n, v), status' = "ok"
  PROVE  Inv' /\ NotTaken'
<1>1. TypeOK /\ a \in Page /\ a \notin Cell /\ heap' \in Heap /\ Exact(heap') /\ heap \in Heap
  BY Addresses DEF Inv, TypeOK, Grants, Wrote
<1>2. /\ DOMAIN live' = DOMAIN live \cup {tag} /\ DOMAIN live' \subseteq Tag
      /\ live' \in [DOMAIN live' -> Block]
      /\ live'[tag].at = a /\ live'[tag].size = n /\ live'[tag].val = v
      /\ OthersKept(tag)
  BY <1>1, HoldsFacts
<1>3. TypeOK'
  BY <1>1, <1>2 DEF TypeOK
<1>4. ~ Had(tag, Page) /\ ~ Has(tag, Cell) /\ ~ Had(tag, Cell) /\ Has(tag, Page)
  BY <1>1, <1>2 DEF Had, Has
<1>5. /\ i \notin Used(heap) /\ Used(heap') = Used(heap) \cup {i}
      /\ heap'.entries[i] = Entry(n, a) /\ heap'.entries[i].pages = a /\ heap'.entries[i].size = n
      /\ \A j \in Used(heap) : heap'.entries[j] = heap.entries[j]
  BY DEF Grants, Wrote, Entry
<1>6. ASSUME NEW p \in Mapped(heap.mem) PROVE heap'.mem[p] = heap.mem[p]
  <2>1. g.mem[p] = heap.mem[p] /\ p \in Page
    BY DEF Grants, Mapped
  <2>2. Reg(g, i) = Region(a, n)
    BY DEF Grants, Reg, Entry
  <2>3. p \notin Reg(g, i)
    BY <2>2 DEF Grants
  <2> QED
    BY <2>1, <2>3 DEF Wrote
<1>7. HeapChange(tag, i)
  BY <1>1, <1>2, <1>4, <1>5, <1>6 DEF HeapChange
<1>8. CellChange(tag)
  BY <1>4 DEF CellChange
<1>9. TagData(tag)
  <2>1. ASSUME NEW w \in 0 .. n - 1 PROVE WordIn(heap', cells', live'[tag], w) = v
    <3>1. w \in Nat /\ w < n
      OBVIOUS
    <3>2. WordIn(heap', cells', live'[tag], w) = WordAt(heap'.mem, live'[tag].at, w)
      BY <1>1, <1>2, <1>5, <3>1, PageWord
    <3> QED
      BY <1>2, <3>1, <3>2
  <2> QED
    BY <1>2, <2>1 DEF TagData
<1> QED
  BY <1>2, <1>3, <1>7, <1>8, <1>9, Exchange

\* What malloc_impl gives.
LEMMA MallocImpl ==
  ASSUME Inv, NEW n \in Nat \ {0}, NEW r \in malloc_impl(n)
  PROVE  /\ Result(r) /\ r.ret \in {NULL} \cup Cell \cup Page
         /\ r.ret = NULL => Keeps(heap, r.heap) /\ r.cells = cells
         /\ r.ret \in Cell => n < DirectThreshold /\ r.heap = heap /\ Took(cells, r.cells, r.ret, n)
         /\ r.ret \in Page => /\ r.cells = cells
                              /\ \E i \in Nat : Grants(heap, r.heap, i, r.ret, n)
                              /\ \A p \in Region(r.ret, n) : r.heap.mem[p] = [w \in Word |-> Zero]
<1>1. heap \in Heap /\ Exact(heap) /\ IsCells(cells) /\ Keeps(heap, heap)
  BY RegionsAreExact DEF Inv, TypeOK, IsCells, Keeps
<1>2. /\ {SlotThreshold, BuddyMax, DirectThreshold, SlotMax} \subseteq Nat
      /\ SlotThreshold <= BuddyMax /\ BuddyMax <= DirectThreshold /\ DirectThreshold <= SlotMax + 1
  BY SizeAssumption
<1>3. ASSUME NEW among, Asked(among, n), r = Small(small_allocate(among, n, cells)), n < DirectThreshold
      PROVE  /\ Result(r) /\ r.ret \in {NULL} \cup Cell /\ r.heap = heap
             /\ r.ret = NULL => r.cells = cells
             /\ r.ret # NULL => Took(cells, r.cells, r.ret, n)
  <2>1. PICK s : s = small_allocate(among, n, cells)
    OBVIOUS
  <2>2. /\ s.ret = NULL => s.cells = cells
        /\ s.ret # NULL => s.ret \in among /\ Took(cells, s.cells, s.ret, n)
        /\ s.ret = NULL \/ s.ret \in Cell
    BY <1>1, <1>3, <2>1, SmallAllocate
  <2>3. r = [ret |-> s.ret, heap |-> heap, cells |-> s.cells]
    BY <1>3, <2>1 DEF Small
  <2> QED
    BY <2>2, <2>3 DEF Result
<1>4. CASE n < SlotThreshold
  <2>1. r = Small(small_allocate(BuddyCells, n, cells))
    BY <1>4 DEF malloc_impl
  <2>2. Asked(BuddyCells, n) /\ n < DirectThreshold
    BY <1>2, <1>4 DEF Asked
  <2> QED
    BY <1>1, <1>3, <2>1, <2>2, Addresses
<1>5. CASE ~ (n < SlotThreshold) /\ n < DirectThreshold
  <2>1. r = Small(small_allocate(SlotCells, n, cells))
    BY <1>5 DEF malloc_impl
  <2>2. Asked(SlotCells, n)
    BY <1>2, <1>5 DEF Asked
  <2> QED
    BY <1>1, <1>3, <1>5, <2>1, <2>2, Addresses
<1>6. CASE ~ (n < SlotThreshold) /\ ~ (n < DirectThreshold)
  <2>1. PICK o \in direct_allocator_allocate(n, heap) : r = Direct(o, cells)
    BY <1>6 DEF malloc_impl
  <2>2. r = [ret |-> o.ret, heap |-> o.heap, cells |-> cells]
    BY <2>1 DEF Direct
  <2>3. /\ o.ret \in Page \cup {NULL}
        /\ o.ret = NULL => Keeps(heap, o.heap)
        /\ o.ret # NULL =>
             /\ \E i \in Nat : Grants(heap, o.heap, i, o.ret, n)
             /\ \A p \in Region(o.ret, n) : o.heap.mem[p] = [w \in Word |-> Zero]
    BY <1>1, AllocateFacts
  <2>4. r.ret = o.ret /\ r.heap = o.heap /\ r.cells = cells /\ Result(r)
    BY <2>2 DEF Result
  <2> QED
    BY <2>3, <2>4, Addresses
<1> QED
  BY <1>4, <1>5, <1>6

LEMMA MallocKeepsInv ==
  ASSUME Inv, Consistent, NEW tag \in Tag, NEW size \in MallocSize, malloc(tag, size)
  PROVE  Inv' /\ NotTaken'
<1>1. PICK n \in Nat \ {0} : n = size
  BY SizeAssumption
<1>2. PICK r \in malloc_impl(n) :
        IF r.ret = NULL THEN Adopt(r) /\ UNCHANGED <<live, status>>
        ELSE /\ Adopt(Put(r, 0, n, tag))
             /\ Holds(tag, r.ret, n, tag)
             /\ UNCHANGED status
  BY <1>1 DEF malloc
<1>3. tag \notin DOMAIN live /\ status = "ok" /\ TypeOK /\ tag \in Val
  BY DEF malloc, Running, Unused, Inv, Val
<1>4. /\ Result(r) /\ r.ret \in {NULL} \cup Cell \cup Page
      /\ r.ret = NULL => Keeps(heap, r.heap) /\ r.cells = cells
      /\ r.ret \in Cell => n < DirectThreshold /\ r.heap = heap /\ Took(cells, r.cells, r.ret, n)
      /\ r.ret \in Page => /\ r.cells = cells
                           /\ \E i \in Nat : Grants(heap, r.heap, i, r.ret, n)
                           /\ \A p \in Region(r.ret, n) : r.heap.mem[p] = [w \in Word |-> Zero]
  BY MallocImpl
<1>5. CASE r.ret = NULL
  <2>1. Keeps(heap, heap') /\ cells' = cells /\ live' = live /\ status' = status
    BY <1>2, <1>4, <1>5 DEF Adopt, Becomes
  <2>2. TypeOK'
    BY <1>3, <2>1 DEF TypeOK, Keeps
  <2> QED
    BY <2>1, <2>2, Failure
<1>6. CASE r.ret \in Cell
  <2>1. PICK g : g = Put(r, 0, n, tag)
    OBVIOUS
  <2>2. heap' = g.heap /\ cells' = g.cells /\ Holds(tag, r.ret, n, tag) /\ status' = "ok"
    BY <1>2, <1>3, <1>6, <2>1, Addresses DEF Adopt, Becomes
  <2>3. r.heap = heap /\ Took(cells, r.cells, r.ret, n) /\ IsCells(r.cells)
    BY <1>4, <1>6 DEF Took
  <2>4. /\ g.heap = r.heap /\ g.ret = r.ret /\ Filled(r.cells, g.cells, r.ret)
        /\ \A w \in CellWord : g.cells[r.ret].data[w] =
             IF 0 <= w /\ w < n THEN tag ELSE r.cells[r.ret].data[w]
    BY <1>3, <1>4, <1>6, <2>1, <2>3, PutCell
  <2>5. \A w \in CellWord : w < n => cells'[r.ret].data[w] = tag
    BY <2>2, <2>4, SizeAssumption DEF CellWord
  <2> QED
    BY <1>3, <2>2, <2>3, <2>4, <2>5, NewCell
<1>7. CASE r.ret \in Page
  <2>1. PICK g : g = Put(r, 0, n, tag)
    OBVIOUS
  <2>2. heap' = g.heap /\ cells' = g.cells /\ Holds(tag, r.ret, n, tag) /\ status' = "ok"
    BY <1>2, <1>3, <1>7, <2>1, Addresses DEF Adopt, Becomes
  <2>3. PICK i \in Nat : Grants(heap, r.heap, i, r.ret, n)
    BY <1>4, <1>7
  <2>4. /\ r.heap \in Heap /\ Exact(r.heap) /\ i \in Used(r.heap)
        /\ r.heap.entries[i].pages = r.ret /\ n <= r.heap.entries[i].size
    BY <2>3 DEF Grants, Entry
  <2>5. /\ g.cells = r.cells /\ g.ret = r.ret /\ Wrote(r.heap, g.heap, i)
        /\ \A k \in Nat : k < n =>
             WordAt(g.heap.mem, r.ret, k) = IF 0 <= k THEN tag ELSE WordAt(r.heap.mem, r.ret, k)
    BY <1>3, <1>4, <2>1, <2>4, PutPages
  <2>6. \A k \in Nat : k < n => WordAt(heap'.mem, r.ret, k) = tag
    BY <2>2, <2>5
  <2>7. Wrote(r.heap, heap', i) /\ cells' = cells
    BY <1>4, <1>7, <2>2, <2>5
  <2> QED
    BY <1>3, <2>2, <2>3, <2>6, <2>7, NewPages
<1> QED
  BY <1>4, <1>5, <1>6, <1>7

LEMMA CallocKeepsInv ==
  ASSUME Inv, Consistent, NEW tag \in Tag, NEW a \in CallocArgs, calloc(tag, a[1], a[2])
  PROVE  Inv' /\ NotTaken'
<1>1. PICK count \in Nat \ {0}, size \in Nat \ {0} : count = a[1] /\ size = a[2]
  BY SizeAssumption
<1>2. count * size \in Nat /\ size <= count * size
  <2>1. (count - 1) * size >= 0
    BY <1>1
  <2>2. (count - 1) * size = count * size - size /\ count * size \in Int
    BY <1>1
  <2> QED
    BY <1>1, <2>1, <2>2
<1>3. PICK n \in Nat \ {0} : n = count * size /\ size <= n
  BY <1>1, <1>2
<1>4. PICK r \in calloc_impl(count, size) :
        /\ Adopt(r)
        /\ status' = IF ClearsNull(r, size) THEN "cleared NULL" ELSE "ok"
        /\ IF r.ret = NULL THEN UNCHANGED live ELSE Holds(tag, r.ret, count * size, Zero)
  BY <1>1 DEF calloc
<1>5. PICK q \in malloc_impl(n) :
        r = IF q.ret # NULL /\ size < DirectThreshold THEN Put(q, 0, n, Zero) ELSE q
  BY <1>3, <1>4 DEF calloc_impl
<1>6. tag \notin DOMAIN live /\ status = "ok" /\ TypeOK /\ Zero \in Val
  BY DEF calloc, Running, Unused, Inv, Val
<1>7. /\ Result(q) /\ q.ret \in {NULL} \cup Cell \cup Page
      /\ q.ret = NULL => Keeps(heap, q.heap) /\ q.cells = cells
      /\ q.ret \in Cell => n < DirectThreshold /\ q.heap = heap /\ Took(cells, q.cells, q.ret, n)
      /\ q.ret \in Page => /\ q.cells = cells
                           /\ \E i \in Nat : Grants(heap, q.heap, i, q.ret, n)
                           /\ \A p \in Region(q.ret, n) : q.heap.mem[p] = [w \in Word |-> Zero]
  BY MallocImpl
<1>8. DirectThreshold \in Nat
  BY SizeAssumption
<1>9. CASE q.ret = NULL
  <2>1. r = q
    BY <1>5, <1>9
  <2>2. Keeps(heap, heap') /\ cells' = cells /\ live' = live /\ status' \in {"ok", "cleared NULL"}
    BY <1>4, <1>7, <1>9, <2>1 DEF Adopt, Becomes
  <2>3. TypeOK'
    BY <1>6, <2>2 DEF TypeOK, Keeps
  <2> QED
    BY <2>2, <2>3, Failure
<1>10. CASE q.ret \in Cell
  <2>1. q.ret # NULL /\ size < DirectThreshold
    BY <1>3, <1>7, <1>8, <1>10, Addresses
  <2>2. r = Put(q, 0, n, Zero)
    BY <1>5, <2>1
  <2>3. q.heap = heap /\ Took(cells, q.cells, q.ret, n) /\ IsCells(q.cells)
    BY <1>7, <1>10 DEF Took
  <2>4. /\ r.heap = q.heap /\ r.ret = q.ret /\ Filled(q.cells, r.cells, q.ret)
        /\ \A w \in CellWord : r.cells[q.ret].data[w] =
             IF 0 <= w /\ w < n THEN Zero ELSE q.cells[q.ret].data[w]
    BY <1>6, <1>7, <1>10, <2>2, <2>3, PutCell
  <2>5. heap' = r.heap /\ cells' = r.cells /\ Holds(tag, q.ret, n, Zero) /\ status' = "ok"
    BY <1>3, <1>4, <2>1, <2>4 DEF Adopt, Becomes, ClearsNull
  <2>6. \A w \in CellWord : w < n => cells'[q.ret].data[w] = Zero
    BY <2>4, <2>5, SizeAssumption DEF CellWord
  <2> QED
    BY <1>6, <2>3, <2>4, <2>5, <2>6, NewCell
<1>11. CASE q.ret \in Page
  <2>1. PICK i \in Nat : Grants(heap, q.heap, i, q.ret, n)
    BY <1>7, <1>11
  <2>2. /\ q.heap \in Heap /\ Exact(q.heap) /\ i \in Used(q.heap)
        /\ q.heap.entries[i].pages = q.ret /\ n <= q.heap.entries[i].size
    BY <2>1 DEF Grants, Entry
  <2>3. q.ret # NULL /\ q.ret \in Nat
    BY <1>11, Addresses
  <2>4. r.ret = q.ret /\ r.cells = cells /\ Wrote(q.heap, r.heap, i)
        /\ \A k \in Nat : k < n => WordAt(r.heap.mem, q.ret, k) = Zero
    <3>1. CASE size < DirectThreshold
      <4>1. r = Put(q, 0, n, Zero)
        BY <1>5, <2>3, <3>1
      <4>2. /\ r.cells = q.cells /\ r.ret = q.ret /\ Wrote(q.heap, r.heap, i)
            /\ \A k \in Nat : k < n =>
                 WordAt(r.heap.mem, q.ret, k) = IF 0 <= k THEN Zero ELSE WordAt(q.heap.mem, q.ret, k)
        BY <1>6, <1>7, <2>2, <4>1, PutPages
      <4> QED
        BY <1>7, <1>11, <4>2
    <3>2. CASE ~ (size < DirectThreshold)
      <4>1. r = q
        BY <1>5, <3>2
      <4>2. Wrote(q.heap, q.heap, i)
        BY <2>2 DEF Wrote
      <4>3. ASSUME NEW k \in Nat, k < n PROVE WordAt(q.heap.mem, q.ret, k) = Zero
        <5>1. q.ret + (k \div PageSize) \in Region(q.ret, n) /\ k % PageSize \in Word
          BY <2>3, <4>3, WordPlace
        <5> QED
          BY <1>7, <1>11, <5>1 DEF WordAt
      <4> QED
        BY <1>7, <1>11, <4>1, <4>2, <4>3
    <3> QED
      BY <3>1, <3>2
  <2>5. heap' = r.heap /\ cells' = cells /\ Holds(tag, q.ret, n, Zero) /\ status' = "ok"
    BY <1>3, <1>4, <2>3, <2>4 DEF Adopt, Becomes, ClearsNull
  <2>6. Wrote(q.heap, heap', i) /\ \A k \in Nat : k < n => WordAt(heap'.mem, q.ret, k) = Zero
    BY <2>4, <2>5
  <2> QED
    BY <1>6, <2>1, <2>5, <2>6, NewPages
<1> QED
  BY <1>7, <1>9, <1>10, <1>11

-----------------------------------------------------------------------------
(* Blocks that go. *)

LEMMA LetsGoFacts ==
  ASSUME TypeOK, NEW tag, LetsGo(tag)
  PROVE  /\ DOMAIN live' = DOMAIN live \ {tag} /\ DOMAIN live' \subseteq Tag
         /\ live' \in [DOMAIN live' -> Block] /\ OthersKept(tag)
BY DEF TypeOK, LetsGo, OthersKept

\* The tables record no address of a cell.
LEMMA NoCellRecorded ==
  ASSUME NEW h \in Heap, NEW c \in Cell
  PROVE  c \in Int /\ \A i \in DOMAIN h.entries : h.entries[i].pages # c
BY HeapParts, Addresses

LEMMA FreeKeepsInv ==
  ASSUME Inv, Consistent, NEW tag \in Tag, free(tag)
  PROVE  Inv' /\ NotTaken'
<1>1. /\ tag \in DOMAIN live /\ status' = status /\ LetsGo(tag)
      /\ Adopt(free_impl(live[tag].at))
  BY DEF free
<1>2. /\ TypeOK /\ heap \in Heap /\ Exact(heap) /\ RegionsExact /\ Books /\ IsCells(cells)
      /\ live[tag].at \in Cell \cup Page
  BY <1>1, RegionsAreExact DEF Inv, TypeOK, Block, IsCells
<1>3. /\ DOMAIN live' = DOMAIN live \ {tag} /\ DOMAIN live' \subseteq Tag
      /\ live' \in [DOMAIN live' -> Block] /\ OthersKept(tag)
  BY <1>1, <1>2, LetsGoFacts
<1>4. PICK at : at = live[tag].at
  OBVIOUS
<1>5. PICK o : o = direct_allocator_deallocate(at, heap)
  OBVIOUS
<1>6. heap' = o.heap /\ cells' = IF ~ o.ret /\ at \in Cell THEN Released(at, cells) ELSE cells
  BY <1>1, <1>4, <1>5 DEF Adopt, Becomes, free_impl
<1>7. tag \notin DOMAIN live' /\ TagData(tag)
  BY <1>3 DEF TagData
<1>8. CASE at \in Cell
  <2>1. ~ o.ret /\ o.heap = heap
    BY <1>2, <1>5, <1>8, NoCellRecorded, DeallocateFacts
  <2>2. IsCells(cells') /\ ~ cells'[at].used /\ \A d \in Cell \ {at} : cells'[d] = cells[d]
    BY <1>2, <1>6, <1>8, <2>1, ReleasedFacts
  <2>3. TypeOK'
    BY <1>1, <1>2, <1>3, <1>6, <2>1, <2>2 DEF TypeOK, IsCells
  <2>4. ~ Had(tag, Page) /\ ~ Has(tag, Page) /\ ~ Has(tag, Cell) /\ Had(tag, Cell)
    BY <1>1, <1>4, <1>7, <1>8, Addresses DEF Had, Has
  <2>5. HeapChange(tag, 0)
    BY <1>6, <2>1, <2>4, SameHeap
  <2>6. CellChange(tag)
    BY <1>4, <2>2, <2>4 DEF CellChange
  <2> QED
    BY <1>3, <1>7, <2>3, <2>5, <2>6, Exchange
<1>9. CASE at \in Page
  <2>1. PICK j \in Used(heap) : heap.entries[j].pages = at
    BY <1>1, <1>2, <1>4, <1>9, BooksParts
  <2>2. at \in Int /\ at # NULL /\ at \notin Cell /\ \E i \in DOMAIN heap.entries : heap.entries[i].pages = at
    BY <1>9, <2>1, Addresses DEF Used
  <2>3. o.ret /\ \E i \in Used(heap) : heap.entries[i].pages = at /\ Returns(heap, o.heap, i)
    BY <1>2, <1>5, <2>2, DeallocateFacts
  <2>4. PICK i \in Used(heap) : heap.entries[i].pages = at /\ Returns(heap, o.heap, i)
    BY <2>3
  <2>5. cells' = cells /\ heap' \in Heap /\ Exact(heap')
    BY <1>6, <2>3, <2>4 DEF Returns
  <2>6. TypeOK'
    BY <1>1, <1>2, <1>3, <2>5 DEF TypeOK
  <2>7. Had(tag, Page) /\ ~ Has(tag, Page) /\ ~ Has(tag, Cell) /\ ~ Had(tag, Cell)
    BY <1>1, <1>4, <1>7, <1>9, Addresses DEF Had, Has
  <2>8. HeapChange(tag, i)
    BY <1>4, <1>6, <2>4, <2>5, <2>7 DEF HeapChange, Returns
  <2>9. CellChange(tag)
    BY <2>5, <2>7 DEF CellChange
  <2> QED
    BY <1>3, <1>7, <2>6, <2>8, <2>9, Exchange
<1> QED
  BY <1>2, <1>4, <1>8, <1>9

LEMMA FreeNullKeepsInv ==
  ASSUME Inv, Consistent, free_null
  PROVE  Inv' /\ NotTaken'
<1>1. TypeOK /\ heap \in Heap /\ Exact(heap) /\ Keeps(heap, heap)
  BY RegionsAreExact DEF Inv, TypeOK, Keeps
<1>2. PICK o : o = direct_allocator_deallocate(NULL, heap)
  OBVIOUS
<1>3. heap' = o.heap /\ cells' = cells /\ live' = live /\ status' = status
  BY <1>2, Addresses DEF free_null, Adopt, Becomes, free_impl
<1>4. NULL \in Int
  BY DEF NULL
<1>5. Keeps(heap, o.heap)
  <2>1. CASE \E i \in DOMAIN heap.entries : heap.entries[i].pages = NULL
    BY <1>1, <1>2, <1>4, <2>1, DeallocateFacts
  <2>2. CASE \A i \in DOMAIN heap.entries : heap.entries[i].pages # NULL
    BY <1>1, <1>2, <1>4, <2>2, DeallocateFacts
  <2> QED
    BY <2>1, <2>2
<1>6. TypeOK'
  BY <1>1, <1>3, <1>5 DEF TypeOK, Keeps
<1> QED
  BY <1>3, <1>5, <1>6, Failure

-----------------------------------------------------------------------------
(* Blocks that are moved. *)

\* The first words of the block in cell at are in cell d, with room for n.
ToCell(at, old, d, n, ds) ==
  /\ d \in Cell /\ IsCells(ds) /\ ds[d].used /\ FitsAt(d, n, ds)
  /\ d # at => ~ cells[d].used /\ ~ ds[at].used
  /\ \A c \in Cell \ {at, d} : ds[c] = cells[c]
  /\ \A w \in CellWord : w < old => ds[d].data[w] = cells[at].data[w]

\* At most the mark of cell at is gone.
Unmarked(at, ds) ==
  /\ IsCells(ds)
  /\ \A c \in Cell : /\ ds[c].data = cells[c].data /\ ds[c].bucket = cells[c].bucket
                     /\ ds[c].used => cells[c].used
  /\ \A c \in Cell \ {at} : ds[c] = cells[c]

Resize(cs, at, x) == [cs EXCEPT ![at].bucket = x]

\* The same block with another size.
LEMMA Resized ==
  ASSUME IsCells(cells), NEW at \in Cell, cells[at].used, NEW n \in Nat, NEW x \in Nat, NEW old,
         n <= x, x <= SlotMax, at \in BuddyCells => x \in 1 .. BuddyMax,
         NEW ds, ds = Resize(cells, at, x)
  PROVE  ToCell(at, old, at, n, ds)
<1>1. /\ cells[at] = [used |-> cells[at].used, bucket |-> cells[at].bucket, data |-> cells[at].data]
      /\ cells[at].data \in [CellWord -> Val]
  BY CellParts
<1>2. PICK z : z = [cells[at] EXCEPT !.bucket = x]
  OBVIOUS
<1>3. z = [used |-> cells[at].used, bucket |-> x, data |-> cells[at].data]
  BY <1>1, <1>2
<1>4. z \in CellState
  BY <1>3, CellParts DEF CellState
<1>5. ds = Change(cells, at, z)
  BY <1>2 DEF Change, Resize
<1>6. IsCells(ds) /\ ds[at] = z /\ \A d \in Cell \ {at} : ds[d] = cells[d]
  BY <1>4, <1>5, OneCell
<1>7. ds[at].used /\ ds[at].bucket = x /\ ds[at].data = cells[at].data
  BY <1>3, <1>6
<1> QED
  BY <1>6, <1>7 DEF ToCell, FitsAt

\* The block in a new cell.
LEMMA Relocated ==
  ASSUME NEW cs, IsCells(cells), NEW at \in Cell, NEW n \in Nat, NEW old, NEW room \in Nat, old <= room,
         old \in Nat, NEW ds, NEW d, Took(cs, ds, d, n), d # at, ~ cells[d].used,
         \A c \in Cell \ {at} : cs[c] = cells[c],
         NEW es, es = CopyCell(Released(at, ds), d, cells[at].data, room)
  PROVE  ToCell(at, old, d, n, es)
<1>1. PICK rs : rs = Released(at, ds)
  OBVIOUS
<1>2. IsCells(ds) /\ d \in Cell
  BY DEF Took
<1>3. IsCells(rs) /\ ~ rs[at].used /\ \A c \in Cell \ {at} : rs[c] = ds[c]
  BY <1>1, <1>2, ReleasedFacts
<1>4. cells[at].data \in [CellWord -> Val]
  BY CellParts
<1>5. PICK data \in [CellWord -> Val] : data = cells[at].data
  BY <1>4
<1>6. /\ Filled(rs, es, d)
      /\ \A w \in CellWord : w < room => es[d].data[w] = data[w]
  BY <1>1, <1>2, <1>3, <1>5, CopyCellFacts
<1>7. IsCells(es) /\ es[d].used /\ FitsAt(d, n, es)
  BY <1>2, <1>3, <1>6 DEF Filled, Took, FitsAt
<1>8. ~ es[at].used
  BY <1>3, <1>6 DEF Filled
<1>9. \A c \in Cell \ {at, d} : es[c] = cells[c]
  BY <1>3, <1>6 DEF Filled, Took
<1>10. \A w \in CellWord : w < old => es[d].data[w] = cells[at].data[w]
  BY <1>5, <1>6, SizeAssumption DEF CellWord
<1> QED
  BY <1>2, <1>7, <1>8, <1>9, <1>10 DEF ToCell

\* buddy_block_reallocate of a block of its own.
LEMMA BuddyRealloc ==
  ASSUME IsCells(cells), NEW at \in BuddyCells, cells[at].used, NEW old \in Nat,
         FitsAt(at, old, cells), NEW size \in Nat,
         NEW b \in buddy_block_reallocate(at, size, cells)
  PROVE  /\ b.current = cells[at].bucket /\ b.ret \in {NULL} \cup Cell
         /\ b.ret # NULL => ToCell(at, old, b.ret, size, b.cells)
         /\ b.ret = NULL => cells[at].bucket < size /\ Unmarked(at, b.cells)
<1>1. BuddyMax \in Nat /\ SlotMax \in Nat /\ BuddyMax <= SlotMax
  BY SizeAssumption
<1>2. at \in Cell /\ at # NULL
  BY Addresses DEF Cell
<1>3. PICK room \in 1 .. BuddyMax : room = cells[at].bucket /\ old <= room
  BY <1>2 DEF FitsAt
<1>4. PICK gone : gone = [cells EXCEPT ![at].used = FALSE]
  OBVIOUS
<1>5. PICK stays : stays = [ret |-> at, current |-> room,
                            cells |-> [cells EXCEPT ![at].bucket = Bucket[IF size = 0 THEN 1 ELSE size]]]
  OBVIOUS
<1>6. ASSUME size <= BuddyMax
      PROVE  /\ stays.ret = at /\ stays.current = room
             /\ ToCell(at, old, stays.ret, size, stays.cells)
  <2>1. PICK m \in 1 .. BuddyMax : m = (IF size = 0 THEN 1 ELSE size)
    BY <1>1, <1>3, <1>6
  <2>2. Bucket[m] \in m .. BuddyMax
    BY BucketAssumption
  <2>3. PICK x \in Nat : x = Bucket[m] /\ size <= x /\ x \in 1 .. BuddyMax /\ x <= SlotMax
    BY <1>1, <2>1, <2>2
  <2>4. stays.ret = at /\ stays.current = room /\ stays.cells = Resize(cells, at, x)
    BY <1>5, <2>1, <2>3 DEF Resize
  <2>5. ToCell(at, old, at, size, stays.cells)
    BY <1>2, <2>3, <2>4, Resized
  <2> QED
    BY <2>4, <2>5
<1>7. /\ IsCells(gone) /\ \A c \in Cell \ {at} : gone[c] = cells[c]
      /\ ~ gone[at].used /\ Unmarked(at, gone)
  <2>1. cells[at] = [used |-> cells[at].used, bucket |-> cells[at].bucket, data |-> cells[at].data]
    BY <1>2, CellParts
  <2>2. PICK z : z = [cells[at] EXCEPT !.used = FALSE]
    OBVIOUS
  <2>3. ~ z.used /\ z.bucket = cells[at].bucket /\ z.data = cells[at].data
    BY <2>1, <2>2
  <2>4. z \in CellState
    <3>1. cells[at] \in CellState
      BY <1>2, CellParts
    <3> QED
      BY <2>2, <3>1 DEF CellState
  <2>5. gone = Change(cells, at, z)
    BY <1>4, <2>2 DEF Change
  <2>6. IsCells(gone) /\ gone[at] = z /\ \A d \in Cell \ {at} : gone[d] = cells[d]
    BY <1>2, <2>4, <2>5, OneCell
  <2> QED
    BY <2>3, <2>6 DEF Unmarked
<1>8. CASE size <= room
  <2>1. b = stays
    BY <1>3, <1>5, <1>8 DEF buddy_block_reallocate
  <2>2. size <= BuddyMax
    BY <1>1, <1>8
  <2> QED
    BY <1>2, <1>3, <1>6, <2>1, <2>2
<1>9. CASE ~ (size <= room) /\ size > BuddyMax
  <2>1. b = [ret |-> NULL, current |-> room, cells |-> cells]
    BY <1>3, <1>9 DEF buddy_block_reallocate
  <2>2. Unmarked(at, cells)
    BY DEF Unmarked
  <2> QED
    BY <1>3, <1>9, <2>1, <2>2
<1>10. CASE ~ (size <= room) /\ ~ (size > BuddyMax)
  <2>1. PICK r : r = small_allocate(BuddyCells \ {at}, size, gone)
    OBVIOUS
  <2>2. b \in {stays, [ret |-> r.ret, current |-> room,
                       cells |-> IF r.ret = NULL THEN gone
                                 ELSE CopyCell(Released(at, r.cells), r.ret, cells[at].data, room)]}
    BY <1>3, <1>4, <1>5, <1>10, <2>1 DEF buddy_block_reallocate
  <2>3. CASE b = stays
    <3>1. size <= BuddyMax
      BY <1>1, <1>10
    <3> QED
      BY <1>2, <1>3, <1>6, <2>3, <3>1
  <2>4. CASE b = [ret |-> r.ret, current |-> room,
                  cells |-> IF r.ret = NULL THEN gone
                            ELSE CopyCell(Released(at, r.cells), r.ret, cells[at].data, room)]
    <3>1. Asked(BuddyCells \ {at}, size)
      BY <1>1, <1>3, <1>10 DEF Asked
    <3>2. /\ r.ret = NULL => r.cells = gone
          /\ r.ret # NULL => r.ret \in BuddyCells \ {at} /\ Took(gone, r.cells, r.ret, size)
          /\ r.ret = NULL \/ r.ret \in Cell
      BY <1>7, <2>1, <3>1, SmallAllocate
    <3>3. b.ret = r.ret /\ b.current = room
      BY <2>4
    <3>4. CASE r.ret = NULL
      BY <1>3, <1>7, <1>10, <2>4, <3>4
    <3>5. CASE r.ret # NULL
      <4>1. PICK d : d = r.ret
        OBVIOUS
      <4>2. PICK ds : ds = r.cells
        OBVIOUS
      <4>3. Took(gone, ds, d, size) /\ d # at /\ d \in Cell
        BY <3>2, <3>5, <4>1, <4>2
      <4>4. ~ cells[d].used
        BY <1>7, <4>3 DEF Took
      <4>5. b.cells = CopyCell(Released(at, ds), d, cells[at].data, room)
        BY <2>4, <3>5, <4>1, <4>2
      <4>6. ToCell(at, old, d, size, b.cells)
        BY <1>2, <1>3, <1>7, <4>3, <4>4, <4>5, Relocated
      <4> QED
        BY <1>3, <3>3, <3>5, <4>1, <4>3, <4>6
    <3> QED
      BY <3>4, <3>5
  <2> QED
    BY <2>2, <2>3, <2>4
<1> QED
  BY <1>8, <1>9, <1>10

\* slot_allocator_reallocate of a block of its own.
LEMMA SlotRealloc ==
  ASSUME IsCells(cells), NEW at \in SlotCells, cells[at].used, NEW old \in Nat,
         FitsAt(at, old, cells), NEW size \in Nat,
         NEW s \in slot_allocator_reallocate(at, size, cells)
  PROVE  /\ s.ret \in {NULL} \cup Cell
         /\ s.ret # NULL => ToCell(at, old, s.ret, size, s.cells)
         /\ s.ret = NULL => s.cells = cells
<1>1. SlotMax \in Nat
  BY SizeAssumption
<1>2. at \in Cell /\ at # NULL /\ at \notin BuddyCells
  BY Addresses, CellAssumption DEF Cell
<1>3. PICK room \in Nat : room = cells[at].bucket /\ old <= room
  BY <1>2, CellParts DEF FitsAt
<1>4. PICK r : r = small_allocate(SlotCells, size, cells)
  OBVIOUS
<1>5. \/ s = [ret |-> NULL, cells |-> cells]
      \/ size <= SlotMax /\ s = [ret |-> at, cells |-> [cells EXCEPT ![at].bucket = size]]
      \/ size <= SlotMax /\ s = [ret |-> r.ret,
                 cells |-> IF r.ret = NULL THEN cells
                           ELSE CopyCell(Released(at, r.cells), r.ret, cells[at].data, room)]
  BY <1>1, <1>3, <1>4 DEF slot_allocator_reallocate
<1>6. CASE s = [ret |-> NULL, cells |-> cells]
  BY <1>6
<1>7. CASE size <= SlotMax /\ s = [ret |-> at, cells |-> [cells EXCEPT ![at].bucket = size]]
  <2>1. s.ret = at /\ s.cells = Resize(cells, at, size) /\ size <= size
    BY <1>7 DEF Resize
  <2>2. ToCell(at, old, at, size, s.cells)
    BY <1>2, <1>7, <2>1, Resized
  <2> QED
    BY <1>2, <2>1, <2>2
<1>8. CASE size <= SlotMax /\ s = [ret |-> r.ret,
                 cells |-> IF r.ret = NULL THEN cells
                           ELSE CopyCell(Released(at, r.cells), r.ret, cells[at].data, room)]
  <2>1. Asked(SlotCells, size)
    BY <1>1, <1>8 DEF Asked
  <2>2. /\ r.ret = NULL => r.cells = cells
        /\ r.ret # NULL => r.ret \in SlotCells /\ Took(cells, r.cells, r.ret, size)
        /\ r.ret = NULL \/ r.ret \in Cell
    BY <1>4, <2>1, SmallAllocate
  <2>3. CASE r.ret = NULL
    BY <1>8, <2>3
  <2>4. CASE r.ret # NULL
    <3>1. PICK d : d = r.ret
      OBVIOUS
    <3>2. PICK ds : ds = r.cells
      OBVIOUS
    <3>3. Took(cells, ds, d, size) /\ d \in Cell /\ ~ cells[d].used /\ d # at
      BY <2>2, <2>4, <3>1, <3>2 DEF Took
    <3>4. s.cells = CopyCell(Released(at, ds), d, cells[at].data, room) /\ s.ret = d
      BY <1>8, <2>4, <3>1, <3>2
    <3>5. ToCell(at, old, d, size, s.cells)
      BY <1>2, <1>3, <3>3, <3>4, Relocated
    <3> QED
      BY <3>1, <2>4, <3>3, <3>4, <3>5
  <2> QED
    BY <2>3, <2>4
<1> QED
  BY <1>5, <1>6, <1>7, <1>8

\* What the client has in a block.
LEMMA BlockData ==
  ASSUME Inv, NEW tag \in DOMAIN live, NEW w \in Nat, w < live[tag].size
  PROVE  WordIn(heap, cells, live[tag], w) = live[tag].val
<1>1. live[tag].size \in Nat
  BY DEF Inv, TypeOK, Block
<1>2. w \in 0 .. live[tag].size - 1
  BY <1>1
<1>3. WordOf(live[tag], w) = live[tag].val
  BY <1>2 DEF Inv, Intact
<1> QED
  BY <1>3 DEF WordOf, WordIn

\* The new size of a block, and what it holds.
Reheld(tag, a, n) == Holds(tag, a, n, live[tag].val) /\ status' = "ok"

LEMMA ReheldFacts ==
  ASSUME Inv, NEW tag \in DOMAIN live, NEW a \in Cell \cup Page, NEW n \in Nat, Reheld(tag, a, n),
         heap' \in Heap, IsCells(cells')
  PROVE  /\ DOMAIN live' = DOMAIN live /\ OthersKept(tag)
         /\ live'[tag].at = a /\ live'[tag].size = n /\ live'[tag].val = live[tag].val
         /\ live[tag].at \in Cell \cup Page /\ live[tag].size \in Nat /\ live[tag].val \in Val
         /\ TypeOK'
<1>1. TypeOK /\ tag \in Tag /\ live[tag] \in Block
  BY DEF Inv, TypeOK
<1>2. live[tag].at \in Cell \cup Page /\ live[tag].size \in Nat /\ live[tag].val \in Val
  BY <1>1 DEF Block
<1>3. PICK v \in Val : v = live[tag].val
  BY <1>2
<1>4. Holds(tag, a, n, v) /\ status' = "ok"
  BY <1>3 DEF Reheld
<1>5. /\ DOMAIN live' = DOMAIN live \cup {tag} /\ DOMAIN live' \subseteq Tag
      /\ live' \in [DOMAIN live' -> Block]
      /\ live'[tag].at = a /\ live'[tag].size = n /\ live'[tag].val = v
      /\ OthersKept(tag)
  BY <1>1, <1>4, HoldsFacts
<1>6. TypeOK'
  BY <1>4, <1>5 DEF TypeOK, IsCells
<1>7. DOMAIN live' = DOMAIN live
  BY <1>5
<1> QED
  BY <1>2, <1>3, <1>5, <1>6, <1>7

\* realloc gives a cell.
LEMMA KeptInCell ==
  ASSUME Inv, Consistent, NEW tag \in DOMAIN live, live[tag].at \in Cell, NEW n \in Nat,
         NEW r, Result(r), r.heap = heap, r.ret \in Cell,
         ToCell(live[tag].at, live[tag].size, r.ret, n, r.cells),
         NEW g, g = Put(r, live[tag].size, n, live[tag].val),
         heap' = g.heap, cells' = g.cells, Reheld(tag, r.ret, n)
  PROVE  Inv' /\ NotTaken'
<1>1. heap \in Heap /\ live[tag].size \in Nat /\ live[tag].val \in Val
  BY DEF Inv, TypeOK, Block
<1>2. PICK at \in Cell : at = live[tag].at
  OBVIOUS
<1>3. PICK old \in Nat, v \in Val : old = live[tag].size /\ v = live[tag].val
  BY <1>1
<1>4. PICK d \in Cell : d = r.ret
  OBVIOUS
<1>5. PICK ds : ds = r.cells
  OBVIOUS
<1>6. ToCell(at, old, d, n, ds) /\ IsCells(ds)
  BY <1>2, <1>3, <1>4, <1>5 DEF ToCell
<1>7. /\ g.heap = heap /\ Filled(ds, g.cells, d)
      /\ \A w \in CellWord : g.cells[d].data[w] = IF old <= w /\ w < n THEN v ELSE ds[d].data[w]
  <2>1. g = Put(r, old, n, v) /\ IsCells(r.cells)
    BY <1>3, <1>5, <1>6
  <2>2. /\ g.heap = r.heap /\ g.ret = r.ret /\ Filled(r.cells, g.cells, r.ret)
        /\ \A w \in CellWord : g.cells[r.ret].data[w] =
             IF old <= w /\ w < n THEN v ELSE r.cells[r.ret].data[w]
    BY <2>1, PutCell
  <2> QED
    BY <1>4, <1>5, <2>2
<1>8. heap' = heap /\ IsCells(cells') /\ Filled(ds, cells', d)
  BY <1>7 DEF Filled
<1>9. /\ DOMAIN live' = DOMAIN live /\ OthersKept(tag)
      /\ live'[tag].at = d /\ live'[tag].size = n /\ live'[tag].val = v /\ TypeOK'
  BY <1>1, <1>3, <1>4, <1>8, ReheldFacts
<1>10. Had(tag, Cell) /\ Has(tag, Cell) /\ ~ Had(tag, Page) /\ ~ Has(tag, Page)
  BY <1>2, <1>4, <1>9, Addresses DEF Had, Has
<1>11. HeapChange(tag, 0)
  BY <1>8, <1>10, SameHeap
<1>12. cells'[d].used /\ FitsAt(d, n, cells')
  BY <1>6, <1>8 DEF ToCell, Filled, FitsAt
<1>13. CellChange(tag)
  <2>1. \A c \in Cell : c # at /\ c # d => cells'[c] = cells[c]
    BY <1>6, <1>8 DEF ToCell, Filled
  <2>2. d # at => ~ cells[d].used /\ ~ cells'[at].used
    BY <1>6, <1>8 DEF ToCell, Filled
  <2>3. d = at => Had(tag, {d}) /\ Has(tag, {at})
    BY <1>2, <1>9 DEF Had, Has
  <2> QED
    BY <1>2, <1>9, <1>10, <1>12, <2>1, <2>2, <2>3 DEF CellChange
<1>14. TagData(tag)
  <2>1. ASSUME NEW w \in 0 .. n - 1 PROVE WordIn(heap', cells', live'[tag], w) = v
    <3>1. w \in CellWord /\ w < n /\ w \in Nat
      <4>1. n <= SlotMax
        <5>1. cells'[d].bucket \in Nat
          BY <1>8, CellParts
        <5>2. n <= cells'[d].bucket /\ cells'[d].bucket <= SlotMax /\ SlotMax \in Nat
          BY <1>12, SizeAssumption DEF FitsAt
        <5> QED
          BY <5>1, <5>2
      <4> QED
        BY <4>1, SizeAssumption DEF CellWord
    <3>2. cells'[d].data[w] = IF old <= w /\ w < n THEN v ELSE ds[d].data[w]
      BY <1>7, <3>1
    <3>3. ASSUME w < old PROVE ds[d].data[w] = v
      <4>1. ds[d].data[w] = cells[at].data[w]
        BY <1>6, <3>1, <3>3 DEF ToCell
      <4>2. WordIn(heap, cells, live[tag], w) = v
        BY <1>3, <3>1, <3>3, BlockData
      <4>3. WordIn(heap, cells, live[tag], w) = cells[at].data[w]
        BY <1>2 DEF WordIn
      <4> QED
        BY <4>1, <4>2, <4>3
    <3>4. cells'[d].data[w] = v
      BY <3>1, <3>2, <3>3
    <3> QED
      BY <1>9, <3>4 DEF WordIn
  <2> QED
    BY <1>9, <2>1 DEF TagData
<1> QED
  BY <1>9, <1>11, <1>13, <1>14, Exchange

\* realloc gives pages for a block that was in a cell.
LEMMA OutToPages ==
  ASSUME Inv, Consistent, NEW tag \in DOMAIN live, NEW at \in Cell, at = live[tag].at, NEW n \in Nat,
         NEW r, Result(r), NEW i \in Nat, NEW f, Grants(heap, f, i, r.ret, n), Wrote(f, r.heap, i),
         \A k \in Nat : k < live[tag].size /\ k < n => WordAt(r.heap.mem, r.ret, k) = cells[at].data[k],
         IsCells(r.cells), ~ r.cells[at].used, \A c \in Cell \ {at} : r.cells[c] = cells[c],
         NEW g, g = Put(r, live[tag].size, n, live[tag].val),
         heap' = g.heap, cells' = g.cells, Reheld(tag, r.ret, n)
  PROVE  Inv' /\ NotTaken'
<1>1. heap \in Heap /\ live[tag].size \in Nat /\ live[tag].val \in Val
  BY DEF Inv, TypeOK, Block
<1>2. PICK old \in Nat, v \in Val : old = live[tag].size /\ v = live[tag].val
  BY <1>1
<1>3. PICK a \in Page : a = r.ret
  BY DEF Grants
<1>4. Grants(heap, f, i, a, n)
  BY <1>3
<1>5. /\ r.heap \in Heap /\ Exact(r.heap) /\ i \in Used(r.heap)
      /\ r.heap.entries[i].pages = r.ret /\ r.heap.entries[i].size = n
  BY <1>3, <1>4 DEF Grants, Wrote, Entry
<1>6. g = Put(r, old, n, v) /\ n <= r.heap.entries[i].size
  BY <1>2, <1>5
<1>7. /\ g.cells = r.cells /\ g.ret = r.ret /\ Wrote(r.heap, g.heap, i)
      /\ \A k \in Nat : k < n =>
           WordAt(g.heap.mem, r.ret, k) = IF old <= k THEN v ELSE WordAt(r.heap.mem, r.ret, k)
  BY <1>5, <1>6, PutPages
<1>8. heap' \in Heap /\ Exact(heap') /\ cells' = r.cells /\ Wrote(r.heap, heap', i)
  BY <1>7 DEF Wrote
<1>9. /\ DOMAIN live' = DOMAIN live /\ OthersKept(tag)
      /\ live'[tag].at = a /\ live'[tag].size = n /\ live'[tag].val = v /\ TypeOK'
  BY <1>1, <1>2, <1>3, <1>8, ReheldFacts
<1>10. Had(tag, Cell) /\ ~ Has(tag, Cell) /\ ~ Had(tag, Page) /\ Has(tag, Page)
  BY <1>3, <1>9, Addresses DEF Had, Has
<1>11. /\ i \notin Used(heap) /\ Used(heap') = Used(heap) \cup {i}
       /\ heap'.entries[i].pages = a /\ heap'.entries[i].size = n
       /\ \A j \in Used(heap) : heap'.entries[j] = heap.entries[j]
  BY <1>4, <1>8 DEF Grants, Wrote, Entry
<1>12. ASSUME NEW p \in Mapped(heap.mem) PROVE heap'.mem[p] = heap.mem[p]
  <2>1. f.mem[p] = heap.mem[p] /\ p \in Page
    BY DEF Grants, Mapped
  <2>2. Reg(f, i) = Region(a, n)
    BY <1>4 DEF Grants, Reg, Entry
  <2>3. p \notin Reg(f, i)
    BY <1>4, <2>2 DEF Grants
  <2>4. Reg(r.heap, i) = Reg(f, i)
    BY DEF Wrote, Reg
  <2> QED
    BY <1>8, <2>1, <2>3, <2>4 DEF Wrote
<1>13. HeapChange(tag, i)
  BY <1>8, <1>9, <1>10, <1>11, <1>12 DEF HeapChange
<1>14. CellChange(tag)
  BY <1>8, <1>10 DEF CellChange
<1>15. TagData(tag)
  <2>1. ASSUME NEW w \in 0 .. n - 1 PROVE WordIn(heap', cells', live'[tag], w) = v
    <3>1. w \in Nat /\ w < n
      OBVIOUS
    <3>2. WordAt(heap'.mem, a, w) = IF old <= w THEN v ELSE WordAt(r.heap.mem, a, w)
      BY <1>3, <1>7, <3>1
    <3>3. ASSUME w < old PROVE WordAt(r.heap.mem, a, w) = v
      <4>1. WordAt(r.heap.mem, a, w) = cells[at].data[w]
        BY <1>2, <1>3, <3>1, <3>3
      <4>2. WordIn(heap, cells, live[tag], w) = v
        BY <1>2, <3>1, <3>3, BlockData
      <4>3. WordIn(heap, cells, live[tag], w) = cells[at].data[w]
        BY DEF WordIn
      <4> QED
        BY <4>1, <4>2, <4>3
    <3>4. WordAt(heap'.mem, a, w) = v
      BY <3>1, <3>2, <3>3
    <3>5. i \in Used(heap') /\ live'[tag].at = heap'.entries[i].pages /\ w < heap'.entries[i].size
      BY <1>9, <1>11, <3>1
    <3>6. WordIn(heap', cells', live'[tag], w) = WordAt(heap'.mem, live'[tag].at, w)
      BY <1>8, <3>1, <3>5, PageWord
    <3> QED
      BY <1>9, <3>4, <3>6
  <2> QED
    BY <1>9, <2>1 DEF TagData
<1> QED
  BY <1>9, <1>13, <1>14, <1>15, Exchange

\* realloc gives pages for a block that was on pages.
LEMMA FromPages ==
  ASSUME Inv, Consistent, NEW tag \in DOMAIN live, NEW at \in Page, at = live[tag].at, NEW n \in Nat,
         NEW r, Result(r), r.cells = cells, NEW i \in Used(heap), heap.entries[i].pages = at,
         NEW m \in Nat, n <= m, Moves(heap, r.heap, i, r.ret, m), Carries(heap, r.heap, i, r.ret, n),
         NEW g, g = Put(r, live[tag].size, n, live[tag].val),
         heap' = g.heap, cells' = g.cells, Reheld(tag, r.ret, n)
  PROVE  Inv' /\ NotTaken'
<1>1. /\ heap \in Heap /\ Exact(heap) /\ live[tag].size \in Nat /\ live[tag].val \in Val
      /\ IsCells(cells) /\ InUse = Used(heap) /\ Books
  BY RegionsAreExact DEF Inv, TypeOK, Block, IsCells
<1>2. PICK old \in Nat, v \in Val : old = live[tag].size /\ v = live[tag].val
  BY <1>1
<1>3. PICK a \in Page : a = r.ret
  BY DEF Moves
<1>4. Moves(heap, r.heap, i, a, m) /\ Carries(heap, r.heap, i, a, n)
  BY <1>3
<1>5. /\ r.heap \in Heap /\ Exact(r.heap) /\ i \in Used(r.heap)
      /\ r.heap.entries[i].pages = r.ret /\ r.heap.entries[i].size = m
  BY <1>3, <1>4 DEF Moves, Entry
<1>6. g = Put(r, old, n, v) /\ n <= r.heap.entries[i].size
  BY <1>2, <1>5
<1>7. /\ g.cells = r.cells /\ g.ret = r.ret /\ Wrote(r.heap, g.heap, i)
      /\ \A k \in Nat : k < n =>
           WordAt(g.heap.mem, r.ret, k) = IF old <= k THEN v ELSE WordAt(r.heap.mem, r.ret, k)
  BY <1>5, <1>6, PutPages
<1>8. heap' \in Heap /\ Exact(heap') /\ cells' = cells /\ Wrote(r.heap, heap', i)
  BY <1>7 DEF Wrote
<1>9. /\ DOMAIN live' = DOMAIN live /\ OthersKept(tag)
      /\ live'[tag].at = a /\ live'[tag].size = n /\ live'[tag].val = v /\ TypeOK'
  BY <1>1, <1>2, <1>3, <1>8, ReheldFacts
<1>10. ~ Had(tag, Cell) /\ ~ Has(tag, Cell) /\ Had(tag, Page) /\ Has(tag, Page)
  BY <1>3, <1>9, Addresses DEF Had, Has
<1>11. /\ Used(heap') = Used(heap)
       /\ heap'.entries[i].pages = a /\ heap'.entries[i].size = m
       /\ \A j \in Used(heap) \ {i} : heap'.entries[j] = heap.entries[j]
  BY <1>4, <1>8 DEF Moves, Wrote, Entry
<1>12. ASSUME NEW p \in Mapped(heap.mem), p \notin Reg(heap, i) PROVE heap'.mem[p] = heap.mem[p]
  <2>1. r.heap.mem[p] = heap.mem[p] /\ p \in Page
    BY <1>4, <1>12 DEF Moves, Mapped
  <2>2. p \notin Reg(r.heap, i)
    <3>1. CASE p \in heap.tables
      BY <1>4, <1>5, <3>1 DEF Moves, Exact
    <3>2. CASE p \notin heap.tables
      <4>1. PICK j \in Used(heap) : p \in Reg(heap, j)
        BY <1>1, <3>2 DEF Exact
      <4>2. j # i /\ j \in Used(r.heap) /\ Reg(r.heap, j) = Reg(heap, j)
        BY <1>4, <1>12, <4>1 DEF Moves, Reg
      <4> QED
        BY <1>5, <4>1, <4>2 DEF Exact
    <3> QED
      BY <3>1, <3>2
  <2> QED
    BY <1>8, <2>1, <2>2 DEF Wrote
<1>13. HeapChange(tag, i)
  BY <1>8, <1>9, <1>10, <1>11, <1>12 DEF HeapChange
<1>14. CellChange(tag)
  BY <1>8, <1>10 DEF CellChange
<1>15. heap.entries[i].size \in Nat /\ old <= heap.entries[i].size
  BY <1>1, <1>2, UsedParts DEF Books, Balanced
<1>16. TagData(tag)
  <2>1. ASSUME NEW w \in 0 .. n - 1 PROVE WordIn(heap', cells', live'[tag], w) = v
    <3>1. w \in Nat /\ w < n
      OBVIOUS
    <3>2. WordAt(heap'.mem, a, w) = IF old <= w THEN v ELSE WordAt(r.heap.mem, a, w)
      BY <1>3, <1>7, <3>1
    <3>3. ASSUME w < old PROVE WordAt(r.heap.mem, a, w) = v
      <4>1. w < heap.entries[i].size
        BY <1>15, <3>1, <3>3
      <4>2. WordAt(r.heap.mem, a, w) = WordAt(heap.mem, at, w)
        BY <1>4, <3>1, <4>1 DEF Carries
      <4>3. WordIn(heap, cells, live[tag], w) = v
        BY <1>2, <3>1, <3>3, BlockData
      <4>4. WordIn(heap, cells, live[tag], w) = WordAt(heap.mem, at, w)
        BY <1>1, <3>1, <4>1, PageWord
      <4> QED
        BY <4>2, <4>3, <4>4
    <3>4. WordAt(heap'.mem, a, w) = v
      BY <3>1, <3>2, <3>3
    <3>5. i \in Used(heap') /\ live'[tag].at = heap'.entries[i].pages /\ w < heap'.entries[i].size
      BY <1>9, <1>11, <3>1
    <3>6. WordIn(heap', cells', live'[tag], w) = WordAt(heap'.mem, live'[tag].at, w)
      BY <1>8, <3>1, <3>5, PageWord
    <3> QED
      BY <1>9, <3>4, <3>6
  <2> QED
    BY <1>9, <2>1 DEF TagData
<1> QED
  BY <1>9, <1>13, <1>14, <1>16, Exchange

\* The block in cell at is on pages of its own.
Leaves(at, old, n, r) ==
  /\ \E i \in Nat, f \in Heap : Grants(heap, f, i, r.ret, n) /\ Wrote(f, r.heap, i)
  /\ \A k \in Nat : k < old /\ k < n => WordAt(r.heap.mem, r.ret, k) = cells[at].data[k]
  /\ IsCells(r.cells) /\ ~ r.cells[at].used /\ \A c \in Cell \ {at} : r.cells[c] = cells[c]

\* What it was told of the block, the block of somebody else.
LEMMA MoveOutFacts ==
  ASSUME heap \in Heap, Exact(heap), IsCells(cells), NEW at \in Cell, NEW size \in Nat, NEW old \in Nat,
         FitsAt(at, old, cells), NEW b, b.current = cells[at].bucket, cells[at].bucket < size,
         Unmarked(at, b.cells), NEW r \in MoveOut(at, size, b)
  PROVE  /\ Result(r) /\ r.ret \in {NULL} \cup Page
         /\ r.ret = NULL => Keeps(heap, r.heap) /\ r.cells = b.cells
         /\ r.ret # NULL => Leaves(at, old, size, r)
<1>1. PICK o \in direct_allocator_allocate(size, heap) :
        r = IF o.ret = NULL THEN Direct(o, b.cells)
            ELSE [CopyOut(Direct(o, b.cells), at, b.current) EXCEPT !.cells = Released(at, b.cells)]
  BY DEF MoveOut
<1>2. /\ o.ret \in Page \cup {NULL}
      /\ o.ret = NULL => Keeps(heap, o.heap)
      /\ o.ret # NULL => \E i \in Nat : Grants(heap, o.heap, i, o.ret, size)
  BY AllocateFacts
<1>3. PICK room \in Nat : room = cells[at].bucket /\ room <= SlotMax /\ old <= room /\ room < size
  BY CellParts DEF FitsAt
<1>4. PICK bs : bs = b.cells
  OBVIOUS
<1>5. PICK q : q = Direct(o, bs)
  OBVIOUS
<1>6. q = [ret |-> o.ret, heap |-> o.heap, cells |-> bs] /\ Result(q)
  BY <1>5 DEF Direct, Result
<1>7. q.ret = o.ret /\ q.heap = o.heap /\ q.cells = bs
  BY <1>6
<1>8. CASE o.ret = NULL
  BY <1>1, <1>2, <1>4, <1>5, <1>6, <1>7, <1>8
<1>9. CASE o.ret # NULL
  <2>1. PICK i \in Nat : Grants(heap, o.heap, i, o.ret, size)
    BY <1>2, <1>9
  <2>2. /\ q.heap \in Heap /\ Exact(q.heap) /\ i \in Used(q.heap)
        /\ q.heap.entries[i].pages = q.ret /\ room <= q.heap.entries[i].size
    BY <1>3, <1>7, <2>1 DEF Grants, Entry
  <2>3. PICK g : g = CopyOut(q, at, room)
    OBVIOUS
  <2>4. cells[at].data \in [CellWord -> Val]
    BY CellParts
  <2>5. /\ g.cells = q.cells /\ g.ret = q.ret /\ Wrote(q.heap, g.heap, i) /\ Result(g)
        /\ \A k \in Nat : k < room => WordAt(g.heap.mem, q.ret, k) = cells[at].data[k]
    BY <1>3, <1>6, <2>2, <2>3, <2>4, CopyOutFacts
  <2>6. PICK es : es = Released(at, bs)
    OBVIOUS
  <2>7. IsCells(es) /\ ~ es[at].used /\ \A c \in Cell \ {at} : es[c] = bs[c]
    BY <1>4, <2>6, ReleasedFacts DEF Unmarked
  <2>8. \A c \in Cell \ {at} : es[c] = cells[c]
    BY <1>4, <2>7 DEF Unmarked
  <2>9. r = [g EXCEPT !.cells = es]
    BY <1>1, <1>3, <1>4, <1>5, <1>9, <2>3, <2>6
  <2>10. r = [ret |-> g.ret, heap |-> g.heap, cells |-> es]
    BY <2>5, <2>9 DEF Result
  <2>11. r.ret = o.ret /\ r.heap = g.heap /\ r.cells = es /\ Result(r)
    BY <1>7, <2>5, <2>10 DEF Result
  <2>12. Grants(heap, o.heap, i, r.ret, size) /\ Wrote(o.heap, r.heap, i) /\ o.heap \in Heap
    BY <1>7, <2>1, <2>5, <2>11 DEF Grants
  <2>13. \A k \in Nat : k < old /\ k < size => WordAt(r.heap.mem, r.ret, k) = cells[at].data[k]
    <3>1. ASSUME NEW k \in Nat, k < old PROVE WordAt(r.heap.mem, r.ret, k) = cells[at].data[k]
      <4>1. k < room
        BY <1>3, <3>1
      <4> QED
        BY <1>7, <2>5, <2>11, <4>1
    <3> QED
      BY <3>1
  <2>14. Leaves(at, old, size, r)
    BY <2>7, <2>8, <2>11, <2>12, <2>13 DEF Leaves
  <2> QED
    BY <1>2, <1>9, <2>11, <2>14
<1> QED
  BY <1>8, <1>9

\* What realloc_impl gives for a block of the client's.
LEMMA ReallocImpl ==
  ASSUME Inv, Consistent, NEW tag \in DOMAIN live, NEW size \in Nat, NEW at, at = live[tag].at,
         NEW r \in realloc_impl(at, size)
  PROVE  /\ Result(r) /\ r.ret \in {NULL} \cup Cell \cup Page /\ at \in Cell \cup Page
         /\ r.ret = NULL => Keeps(heap, r.heap) /\ Unmarked(at, r.cells)
         /\ r.ret \in Cell => /\ at \in Cell /\ r.heap = heap
                              /\ ToCell(at, live[tag].size, r.ret, size, r.cells)
         /\ r.ret \in Page /\ at \in Cell => Leaves(at, live[tag].size, size, r)
         /\ r.ret \in Page /\ at \in Page =>
              /\ r.cells = cells
              /\ \E i \in Used(heap), n \in Nat :
                   /\ heap.entries[i].pages = at /\ size <= n
                   /\ Moves(heap, r.heap, i, r.ret, n) /\ Carries(heap, r.heap, i, r.ret, size)
<1>1. /\ heap \in Heap /\ Exact(heap) /\ TypeOK /\ Books /\ IsCells(cells) /\ RegionsExact
      /\ at \in Cell \cup Page /\ live[tag].size \in Nat
  BY RegionsAreExact DEF Inv, TypeOK, Block, IsCells
<1>2. PICK old \in Nat : old = live[tag].size
  BY <1>1
<1>3. at \in Cell => cells[at].used /\ FitsAt(at, old, cells)
  BY <1>2 DEF Inv, Fits, Consistent, NotTaken
<1>4. PICK b \in buddy_block_reallocate(at, size, cells) :
        r \in (IF b.ret # NULL THEN {Small(b)}
               ELSE IF b.current = 0 THEN Elsewhere(at, size, b)
               ELSE MoveOut(at, size, b))
  BY DEF realloc_impl
<1>5. Keeps(heap, heap) /\ Unmarked(at, cells)
  BY <1>1 DEF Keeps, Unmarked
<1>6. CASE at \in BuddyCells
  <2>1. at \in Cell /\ at \notin Page
    BY <1>6, Addresses DEF Cell
  <2>2. /\ b.current = cells[at].bucket /\ b.ret \in {NULL} \cup Cell
        /\ b.ret # NULL => ToCell(at, old, b.ret, size, b.cells)
        /\ b.ret = NULL => cells[at].bucket < size /\ Unmarked(at, b.cells)
    BY <1>1, <1>3, <1>6, <2>1, BuddyRealloc
  <2>3. CASE b.ret # NULL
    <3>1. r = [ret |-> b.ret, heap |-> heap, cells |-> b.cells]
      BY <1>4, <2>3 DEF Small
    <3>2. Result(r) /\ r.ret = b.ret /\ r.heap = heap /\ r.cells = b.cells
      BY <3>1 DEF Result
    <3>3. r.ret \in Cell /\ r.ret \notin Page /\ r.ret # NULL
      BY <2>2, <2>3, <3>2, Addresses
    <3> QED
      BY <1>2, <2>1, <2>2, <2>3, <3>2, <3>3
  <2>4. CASE b.ret = NULL
    <3>1. b.current # 0
      BY <1>3, <1>6, <2>1, <2>2 DEF FitsAt
    <3>2. r \in MoveOut(at, size, b)
      BY <1>4, <2>4, <3>1
    <3>3. /\ Result(r) /\ r.ret \in {NULL} \cup Page
          /\ r.ret = NULL => Keeps(heap, r.heap) /\ r.cells = b.cells
          /\ r.ret # NULL => Leaves(at, old, size, r)
      BY <1>1, <1>3, <2>1, <2>2, <2>4, <3>2, MoveOutFacts
    <3>4. r.ret \notin Cell /\ (r.ret \in Page => r.ret # NULL)
      BY <3>3, Addresses
    <3> QED
      BY <1>1, <1>2, <2>1, <2>2, <2>4, <3>3, <3>4
  <2> QED
    BY <2>3, <2>4
<1>7. CASE at \notin BuddyCells
  <2>1. b = [ret |-> NULL, current |-> 0, cells |-> cells]
    BY <1>4, <1>7 DEF buddy_block_reallocate
  <2>2. r \in Elsewhere(at, size, b) /\ b.cells = cells
    BY <1>4, <2>1
  <2>3. PICK s \in slot_allocator_reallocate(at, size, cells) :
          r \in (IF s.ret # NULL THEN {Small(s)}
                 ELSE {Direct(o, s.cells) : o \in direct_allocator_reallocate(at, size, heap)})
    BY <2>2 DEF Elsewhere
  <2>4. CASE at \in SlotCells
    <3>1. at \in Cell /\ at \notin Page
      BY <2>4, Addresses DEF Cell
    <3>2. /\ s.ret \in {NULL} \cup Cell
          /\ s.ret # NULL => ToCell(at, old, s.ret, size, s.cells)
          /\ s.ret = NULL => s.cells = cells
      BY <1>1, <1>3, <2>4, <3>1, SlotRealloc
    <3>3. CASE s.ret # NULL
      <4>1. r = [ret |-> s.ret, heap |-> heap, cells |-> s.cells]
        BY <2>3, <3>3 DEF Small
      <4>2. Result(r) /\ r.ret = s.ret /\ r.heap = heap /\ r.cells = s.cells
        BY <4>1 DEF Result
      <4>3. r.ret \in Cell /\ r.ret \notin Page /\ r.ret # NULL
        BY <3>2, <3>3, <4>2, Addresses
      <4> QED
        BY <1>2, <3>1, <3>2, <3>3, <4>2, <4>3
    <3>4. CASE s.ret = NULL
      <4>1. PICK o \in direct_allocator_reallocate(at, size, heap) : r = Direct(o, cells)
        BY <2>3, <3>2, <3>4
      <4>2. o.ret = NULL /\ o.heap = heap
        BY <1>1, <3>1, <4>1, NoCellRecorded, ReallocateUnknown
      <4>3. r = [ret |-> NULL, heap |-> heap, cells |-> cells]
        BY <4>1, <4>2 DEF Direct
      <4>4. Result(r) /\ r.ret = NULL /\ r.heap = heap /\ r.cells = cells
        BY <4>3 DEF Result
      <4> QED
        BY <1>1, <1>5, <4>4, Addresses
    <3> QED
      BY <3>3, <3>4
  <2>5. CASE at \notin SlotCells
    <3>1. at \in Page /\ at \notin Cell
      BY <1>1, <1>7, <2>5 DEF Cell
    <3>2. s = [ret |-> NULL, cells |-> cells]
      BY <2>3, <2>5 DEF slot_allocator_reallocate
    <3>3. PICK o \in direct_allocator_reallocate(at, size, heap) : r = Direct(o, cells)
      BY <2>3, <3>2
    <3>4. \E j \in DOMAIN heap.entries : heap.entries[j].pages = at
      BY <1>1, <3>1, BooksParts DEF Used
    <3>5. /\ o.ret \in Page \cup {NULL}
          /\ o.ret = NULL => o.heap = heap
          /\ o.ret # NULL =>
               \E i \in Used(heap), n \in Nat :
                 /\ heap.entries[i].pages = at /\ size <= n
                 /\ Moves(heap, o.heap, i, o.ret, n) /\ Carries(heap, o.heap, i, o.ret, size)
      BY <1>1, <3>1, <3>3, <3>4, ReallocateFacts
    <3>6. r = [ret |-> o.ret, heap |-> o.heap, cells |-> cells]
      BY <3>3 DEF Direct
    <3>7. Result(r) /\ r.ret = o.ret /\ r.heap = o.heap /\ r.cells = cells
      BY <3>6 DEF Result
    <3>8. r.ret \notin Cell /\ (r.ret \in Page => r.ret # NULL)
      BY <3>5, <3>7, Addresses
    <3> QED
      BY <1>1, <1>5, <3>1, <3>5, <3>7, <3>8
  <2> QED
    BY <2>4, <2>5
<1> QED
  BY <1>6, <1>7

\* realloc gives NULL for a block that is no longer marked.
LEMMA LeftBehind ==
  ASSUME Inv, Consistent, NEW tag \in DOMAIN live, NEW at \in Cell, at = live[tag].at,
         Keeps(heap, heap'), Unmarked(at, cells'), ~ cells'[at].used, LetsGo(tag), status' = status
  PROVE  Inv' /\ NotTaken'
<1>1. TypeOK /\ heap' \in Heap /\ IsCells(cells') /\ at \notin Page
  BY Addresses DEF Inv, Keeps, Unmarked
<1>2. /\ DOMAIN live' = DOMAIN live \ {tag} /\ DOMAIN live' \subseteq Tag
      /\ live' \in [DOMAIN live' -> Block] /\ OthersKept(tag)
  BY <1>1, LetsGoFacts
<1>3. TypeOK'
  BY <1>1, <1>2 DEF TypeOK, IsCells
<1>4. ~ Had(tag, Page) /\ ~ Has(tag, Page) /\ ~ Has(tag, Cell) /\ Had(tag, Cell)
  BY <1>1, <1>2 DEF Had, Has
<1>5. 0 \notin Used(heap) /\ 0 \notin Used(heap')
  BY <1>1, NoEntryZero DEF TypeOK, Keeps
<1>6. HeapChange(tag, 0)
  BY <1>4, <1>5 DEF HeapChange, Keeps
<1>7. CellChange(tag)
  BY <1>4 DEF CellChange, Unmarked
<1>8. TagData(tag)
  BY <1>2 DEF TagData
<1> QED
  BY <1>2, <1>3, <1>6, <1>7, <1>8, Exchange

LEMMA ReallocKeepsInv ==
  ASSUME Inv, Consistent, NEW tag \in Tag, NEW size \in ReallocSize, realloc(tag, size)
  PROVE  Inv' /\ NotTaken'
<1>1. PICK n \in Nat : n = size
  BY SizeAssumption
<1>2. tag \in DOMAIN live /\ status = "ok" /\ TypeOK
  BY DEF realloc, Running, Inv
<1>3. PICK at : at = live[tag].at
  OBVIOUS
<1>4. PICK r \in realloc_impl(at, n) :
        /\ status' = status
        /\ \/ Stranded(at, r) /\ Adopt(r) /\ LetsGo(tag)
           \/ r.ret = NULL /\ ~ Stranded(at, r) /\ Adopt(r) /\ UNCHANGED live
           \/ /\ r.ret # NULL
              /\ Adopt(Put(r, live[tag].size, n, live[tag].val))
              /\ Holds(tag, r.ret, n, live[tag].val)
  BY <1>1, <1>3 DEF realloc
<1>5. /\ Result(r) /\ r.ret \in {NULL} \cup Cell \cup Page /\ at \in Cell \cup Page
      /\ r.ret = NULL => Keeps(heap, r.heap) /\ Unmarked(at, r.cells)
      /\ r.ret \in Cell => /\ at \in Cell /\ r.heap = heap
                           /\ ToCell(at, live[tag].size, r.ret, n, r.cells)
      /\ r.ret \in Page /\ at \in Cell => Leaves(at, live[tag].size, n, r)
      /\ r.ret \in Page /\ at \in Page =>
           /\ r.cells = cells
           /\ \E i \in Used(heap), m \in Nat :
                /\ heap.entries[i].pages = at /\ n <= m
                /\ Moves(heap, r.heap, i, r.ret, m) /\ Carries(heap, r.heap, i, r.ret, n)
  BY <1>2, <1>3, <1>4, ReallocImpl
<1>6. CASE r.ret = NULL
  <2>1. Keeps(heap, heap') /\ Unmarked(at, cells') /\ cells' = r.cells
    BY <1>4, <1>5, <1>6 DEF Adopt, Becomes
  <2>2. CASE Stranded(at, r)
    <3>1. LetsGo(tag) /\ status' = status
      BY <1>4, <1>6, <2>2
    <3>2. at \in Cell /\ ~ cells'[at].used
      BY <2>1, <2>2 DEF Stranded
    <3> QED
      BY <1>2, <1>3, <2>1, <3>1, <3>2, LeftBehind
  <2>3. CASE ~ Stranded(at, r)
    <3>1. live' = live /\ status' = status
      BY <1>4, <1>6, <2>3
    <3>2. TypeOK'
      BY <1>2, <2>1, <3>1 DEF TypeOK, Keeps, Unmarked, IsCells
    <3>3. at \in Cell => cells'[at].used /\ cells[at].used
      BY <1>2, <1>3, <1>6, <2>1, <2>3 DEF Stranded, Consistent, NotTaken
    <3>4. ASSUME NEW c \in Cell
          PROVE  /\ cells'[c].data = cells[c].data /\ cells'[c].bucket = cells[c].bucket
                 /\ cells'[c].used = cells[c].used
      <4>1. cells'[c].used \in BOOLEAN /\ cells[c].used \in BOOLEAN
        BY <1>2, <2>1, CellParts DEF Unmarked, TypeOK, IsCells
      <4> QED
        BY <2>1, <3>3, <4>1 DEF Unmarked
    <3> QED
      BY <2>1, <3>1, <3>2, <3>4, Failure
  <2> QED
    BY <2>2, <2>3
<1>7. ASSUME r.ret # NULL
      PROVE  /\ Reheld(tag, r.ret, n)
             /\ \E g : /\ g = Put(r, live[tag].size, n, live[tag].val)
                       /\ heap' = g.heap /\ cells' = g.cells
  BY <1>2, <1>4, <1>7 DEF Adopt, Becomes, Reheld, Stranded
<1>8. CASE r.ret \in Cell
  <2>1. r.ret # NULL
    BY <1>8, Addresses
  <2>2. PICK g : /\ g = Put(r, live[tag].size, n, live[tag].val)
                 /\ heap' = g.heap /\ cells' = g.cells
    BY <1>7, <2>1
  <2> QED
    BY <1>2, <1>3, <1>5, <1>7, <1>8, <2>1, <2>2, KeptInCell
<1>9. CASE r.ret \in Page /\ at \in Cell
  <2>1. r.ret # NULL
    BY <1>9, Addresses
  <2>2. PICK g : /\ g = Put(r, live[tag].size, n, live[tag].val)
                 /\ heap' = g.heap /\ cells' = g.cells
    BY <1>7, <2>1
  <2>3. Leaves(at, live[tag].size, n, r)
    BY <1>5, <1>9
  <2>4. PICK i \in Nat, f \in Heap : Grants(heap, f, i, r.ret, n) /\ Wrote(f, r.heap, i)
    BY <2>3 DEF Leaves
  <2>5. /\ \A k \in Nat : k < live[tag].size /\ k < n => WordAt(r.heap.mem, r.ret, k) = cells[at].data[k]
        /\ IsCells(r.cells) /\ ~ r.cells[at].used /\ \A c \in Cell \ {at} : r.cells[c] = cells[c]
    BY <2>3 DEF Leaves
  <2> QED
    BY <1>2, <1>3, <1>5, <1>7, <1>9, <2>1, <2>2, <2>4, <2>5, OutToPages
<1>10. CASE r.ret \in Page /\ at \in Page
  <2>1. r.ret # NULL
    BY <1>10, Addresses
  <2>2. PICK g : /\ g = Put(r, live[tag].size, n, live[tag].val)
                 /\ heap' = g.heap /\ cells' = g.cells
    BY <1>7, <2>1
  <2>3. r.cells = cells
    BY <1>5, <1>10
  <2>4. PICK i \in Used(heap), m \in Nat :
          /\ heap.entries[i].pages = at /\ n <= m
          /\ Moves(heap, r.heap, i, r.ret, m) /\ Carries(heap, r.heap, i, r.ret, n)
    BY <1>5, <1>10
  <2> QED
    BY <1>2, <1>3, <1>5, <1>7, <1>10, <2>1, <2>2, <2>3, <2>4, FromPages
<1> QED
  BY <1>5, <1>6, <1>8, <1>9, <1>10

LEMMA ReallocNullKeepsInv ==
  ASSUME Inv, Consistent, NEW tag \in Tag, NEW size \in ReallocSize, realloc_null(tag, size)
  PROVE  Inv' /\ NotTaken'
<1>1. PICK n \in Nat : n = size
  BY SizeAssumption
<1>2. /\ tag \notin DOMAIN live /\ status = "ok" /\ TypeOK /\ tag \in Val
      /\ heap \in Heap /\ Exact(heap) /\ IsCells(cells) /\ Keeps(heap, heap)
  BY RegionsAreExact DEF realloc_null, Running, Unused, Inv, Val, TypeOK, IsCells, Keeps
<1>3. CASE CopiesFromNull(NULL, size, heap)
  <2>1. heap' = heap /\ cells' = cells /\ live' = live /\ status' = "copied from NULL"
    BY <1>3 DEF realloc_null
  <2>2. TypeOK'
    BY <1>2, <2>1 DEF TypeOK
  <2> QED
    BY <1>2, <2>1, <2>2, Failure
<1>4. CASE ~ CopiesFromNull(NULL, size, heap)
  <2>1. PICK r \in realloc_impl(NULL, n) :
          IF r.ret = NULL THEN Adopt(r) /\ UNCHANGED <<live, status>>
          ELSE /\ Adopt(Put(r, 0, n, tag))
               /\ Holds(tag, r.ret, n, tag)
               /\ UNCHANGED status
    BY <1>1, <1>4 DEF realloc_null
  <2>2. NULL \notin BuddyCells /\ NULL \notin SlotCells
    BY Addresses DEF Cell
  <2>3. PICK b \in buddy_block_reallocate(NULL, n, cells) :
          r \in (IF b.ret # NULL THEN {Small(b)}
                 ELSE IF b.current = 0 THEN Elsewhere(NULL, n, b)
                 ELSE MoveOut(NULL, n, b))
    BY DEF realloc_impl
  <2>4. b = [ret |-> NULL, current |-> 0, cells |-> cells]
    BY <2>2, <2>3 DEF buddy_block_reallocate
  <2>5. r \in Elsewhere(NULL, n, b) /\ b.cells = cells
    BY <2>3, <2>4
  <2>6. PICK s \in slot_allocator_reallocate(NULL, n, cells) :
          r \in (IF s.ret # NULL THEN {Small(s)}
                 ELSE {Direct(o, s.cells) : o \in direct_allocator_reallocate(NULL, n, heap)})
    BY <2>5 DEF Elsewhere
  <2>7. s = [ret |-> NULL, cells |-> cells]
    BY <2>2, <2>6 DEF slot_allocator_reallocate
  <2>8. PICK o \in direct_allocator_reallocate(NULL, n, heap) : r = Direct(o, cells)
    BY <2>6, <2>7
  <2>9. r = [ret |-> o.ret, heap |-> o.heap, cells |-> cells]
    BY <2>8 DEF Direct
  <2>10. Result(r) /\ r.ret = o.ret /\ r.heap = o.heap /\ r.cells = cells
    BY <2>9 DEF Result
  <2>11. /\ o.ret \in Page \cup {NULL}
         /\ o.ret = NULL => Keeps(heap, o.heap)
         /\ o.ret # NULL => \E i \in Nat : Grants(heap, o.heap, i, o.ret, n)
    BY <1>1, <1>2, <1>4, <2>8, ReallocateNullFacts
  <2>12. CASE r.ret = NULL
    <3>1. Keeps(heap, heap') /\ cells' = cells /\ live' = live /\ status' = status
      BY <2>1, <2>10, <2>11, <2>12 DEF Adopt, Becomes
    <3>2. TypeOK'
      BY <1>2, <3>1 DEF TypeOK, Keeps
    <3> QED
      BY <3>1, <3>2, Failure
  <2>13. CASE r.ret # NULL
    <3>1. PICK g : g = Put(r, 0, n, tag)
      OBVIOUS
    <3>2. heap' = g.heap /\ cells' = g.cells /\ Holds(tag, r.ret, n, tag) /\ status' = "ok"
      BY <1>2, <2>1, <2>13, <3>1 DEF Adopt, Becomes
    <3>3. PICK i \in Nat : Grants(heap, r.heap, i, r.ret, n)
      BY <2>10, <2>11, <2>13
    <3>4. /\ r.heap \in Heap /\ Exact(r.heap) /\ i \in Used(r.heap)
          /\ r.heap.entries[i].pages = r.ret /\ n <= r.heap.entries[i].size
      BY <3>3 DEF Grants, Entry
    <3>5. /\ g.cells = r.cells /\ g.ret = r.ret /\ Wrote(r.heap, g.heap, i)
          /\ \A k \in Nat : k < n =>
               WordAt(g.heap.mem, r.ret, k) = IF 0 <= k THEN tag ELSE WordAt(r.heap.mem, r.ret, k)
      BY <1>2, <2>10, <3>1, <3>4, PutPages
    <3>6. \A k \in Nat : k < n => WordAt(heap'.mem, r.ret, k) = tag
      BY <3>2, <3>5
    <3>7. Wrote(r.heap, heap', i) /\ cells' = cells
      BY <2>10, <3>2, <3>5
    <3> QED
      BY <1>2, <3>2, <3>3, <3>6, <3>7, NewPages
  <2> QED
    BY <2>12, <2>13
<1> QED
  BY <1>3, <1>4

-----------------------------------------------------------------------------
(* The theorems. *)

LEMMA InitInv == Init => IInv
<1> SUFFICES ASSUME Init PROVE IInv
  OBVIOUS
<1>1. PICK m : m = [p \in Page |-> IF p = 1 THEN TableWords ELSE Unmapped]
  OBVIOUS
<1>2. heap = [entries |-> EmptyTable, tables |-> {1}, mem |-> m]
  BY <1>1 DEF Init
<1>3. 1 \in Page
  BY SpaceAssumption DEF Page
<1>4. TableWords \in [Word -> Val]
  BY DEF TableWords, Val
<1>5. m \in [Page -> Content] /\ Mapped(m) = {1}
  <2>1. TableWords # Unmapped
    BY <1>4, WordsAreMapped
  <2> QED
    BY <1>1, <1>3, <1>4, <2>1 DEF Content, Mapped
<1>6. EmptyTable \in Seq([size : Nat, pages : Page \cup {NULL}]) /\ DOMAIN EmptyTable = 1 .. Capacity
  <2>1. PICK S : S = [size : Nat, pages : Page \cup {NULL}]
    OBVIOUS
  <2>2. Entry(0, NULL) \in S
    BY <2>1 DEF Entry
  <2>3. EmptyTable \in [1 .. Capacity -> S] /\ Capacity \in Nat
    BY <2>2, TableAssumption DEF EmptyTable
  <2>4. EmptyTable \in Seq(S)
    BY <2>3
  <2> QED
    BY <2>1, <2>3, <2>4
<1>7. heap \in Heap
  BY <1>2, <1>3, <1>5, <1>6 DEF Heap
<1>8. /\ heap.entries = EmptyTable /\ heap.tables = {1} /\ heap.mem = m
  BY <1>2
<1>9. Used(heap) = {}
  <2>1. \A i \in DOMAIN EmptyTable : EmptyTable[i].pages = NULL
    BY <1>6 DEF EmptyTable, Entry
  <2> QED
    BY <1>8, <2>1 DEF Used
<1>10. Exact(heap)
  BY <1>5, <1>8, <1>9 DEF Exact
<1>11. DOMAIN live = {} /\ live \in [DOMAIN live -> Block]
  BY DEF Init
<1>12. IsCells(cells) /\ \A c \in Cell : ~ cells[c].used
  <2>1. PICK x : x = [used |-> FALSE, bucket |-> 0, data |-> [w \in CellWord |-> Zero]]
    OBVIOUS
  <2>2. x \in CellState /\ ~ x.used
    BY <2>1 DEF CellState, Val
  <2>3. cells = [c \in Cell |-> x]
    BY <2>1 DEF Init
  <2> QED
    BY <2>2, <2>3 DEF IsCells
<1>13. TypeOK
  BY <1>7, <1>11, <1>12 DEF TypeOK, IsCells, Init
<1>14. RegionsExact /\ InUse = {}
  BY <1>9, <1>10, RegionsAreExact
<1>15. Balanced /\ Books
  <2>1. /\ {heap.entries[i].pages : i \in InUse} = {}
        /\ {live[t].at : t \in DOMAIN live} = {} /\ {c \in Cell : cells[c].used} = {}
    BY <1>11, <1>12, <1>14
  <2> QED
    BY <1>11, <2>1 DEF Balanced, Books
<1>16. Fits /\ Intact /\ OneBlock /\ NotTaken
  BY <1>11 DEF Fits, Intact, OneBlock, NotTaken
<1>17. Unambiguous
  BY <1>9 DEF Unambiguous, Used
<1>18. LostOK /\ misled = FALSE
  BY DEF Init, LostOK
<1> QED
  BY <1>13, <1>14, <1>15, <1>16, <1>17, <1>18 DEF IInv, Inv, Consistent

\* A call that is not misled adopts a result in which no address is reused, or
\* changes nothing but the status; it loses no block but one of the client's.
LEMMA StepHistory ==
  ASSUME TypeOK, LostOK, misled \in BOOLEAN, ~misled => Unambiguous, Next, ~misled'
  PROVE  LostOK' /\ ~misled /\ Unambiguous'
<1>1. ASSUME NEW r, Adopt(r) PROVE ~misled /\ Unambiguous'
  <2>1. heap' = r.heap /\ ~ (misled \/ Reused(r.heap))
    BY <1>1 DEF Adopt, Becomes
  <2> QED
    BY <2>1 DEF Reused, Unambiguous
<1>2. ASSUME lost' = lost PROVE LostOK'
  BY <1>2 DEF LostOK
<1>3. ASSUME NEW tag \in Tag, NEW size \in MallocSize, malloc(tag, size)
      PROVE  LostOK' /\ ~misled /\ Unambiguous'
  <2>1. (\E r : Adopt(r)) /\ lost' = lost
    BY <1>3 DEF malloc
  <2> QED
    BY <1>1, <1>2, <2>1
<1>4. ASSUME NEW tag \in Tag, NEW a \in CallocArgs, calloc(tag, a[1], a[2])
      PROVE  LostOK' /\ ~misled /\ Unambiguous'
  <2>1. (\E r : Adopt(r)) /\ lost' = lost
    BY <1>4 DEF calloc
  <2> QED
    BY <1>1, <1>2, <2>1
<1>5. ASSUME NEW tag \in Tag, free(tag) PROVE LostOK' /\ ~misled /\ Unambiguous'
  <2>1. (\E r : Adopt(r)) /\ lost' = lost
    BY <1>5 DEF free
  <2> QED
    BY <1>1, <1>2, <2>1
<1>6. ASSUME NEW tag \in Tag, CallOnLost(tag) PROVE FALSE
  BY <1>6 DEF CallOnLost
<1>7. ASSUME NEW tag \in Tag, NEW size \in ReallocSize, realloc(tag, size)
      PROVE  LostOK' /\ ~misled /\ Unambiguous'
  <2>1. /\ tag \in DOMAIN live /\ \E r : Adopt(r)
        /\ \/ lost' = lost
           \/ lost' = [t \in DOMAIN lost \cup {tag} |-> IF t = tag THEN live[tag] ELSE lost[t]]
    BY <1>7 DEF realloc
  <2>2. live[tag] \in Block
    BY <2>1 DEF TypeOK
  <2>3. LostOK'
    <3>1. CASE lost' = lost
      BY <1>2, <3>1
    <3>2. CASE lost' = [t \in DOMAIN lost \cup {tag} |-> IF t = tag THEN live[tag] ELSE lost[t]]
      BY <2>2, <3>2 DEF LostOK
    <3> QED
      BY <2>1, <3>1, <3>2
  <2> QED
    BY <1>1, <2>1, <2>3
<1>8. ASSUME NEW tag \in Tag, NEW size \in ReallocSize, realloc_null(tag, size)
      PROVE  LostOK' /\ ~misled /\ Unambiguous'
  <2>1. lost' = lost /\ ((heap' = heap /\ misled' = misled) \/ (\E r : Adopt(r)))
    BY <1>8 DEF realloc_null
  <2>2. CASE heap' = heap /\ misled' = misled
    BY <1>2, <2>1, <2>2 DEF Unambiguous
  <2> QED
    BY <1>1, <1>2, <2>1, <2>2
<1>9. ASSUME free_null PROVE LostOK' /\ ~misled /\ Unambiguous'
  <2>1. (\E r : Adopt(r)) /\ lost' = lost
    BY <1>9 DEF free_null
  <2> QED
    BY <1>1, <1>2, <2>1
<1> QED
  BY <1>3, <1>4, <1>5, <1>6, <1>7, <1>8, <1>9 DEF Next

\* What happened to a client stays known.
LEMMA StepMisled ==
  ASSUME misled \in BOOLEAN, Next
  PROVE  misled' \in BOOLEAN /\ (misled => misled')
<1>1. (\E r : Adopt(r)) \/ misled' = misled \/ misled' = TRUE
  <2>1. ASSUME NEW tag \in Tag, NEW size \in MallocSize, malloc(tag, size) PROVE \E r : Adopt(r)
    BY <2>1 DEF malloc
  <2>2. ASSUME NEW tag \in Tag, NEW a \in CallocArgs, calloc(tag, a[1], a[2]) PROVE \E r : Adopt(r)
    BY <2>2 DEF calloc
  <2>3. ASSUME NEW tag \in Tag, free(tag) PROVE \E r : Adopt(r)
    BY <2>3 DEF free
  <2>4. ASSUME NEW tag \in Tag, CallOnLost(tag) PROVE misled' = TRUE
    BY <2>4 DEF CallOnLost
  <2>5. ASSUME NEW tag \in Tag, NEW size \in ReallocSize, realloc(tag, size) PROVE \E r : Adopt(r)
    BY <2>5 DEF realloc
  <2>6. ASSUME NEW tag \in Tag, NEW size \in ReallocSize, realloc_null(tag, size)
        PROVE  misled' = misled \/ \E r : Adopt(r)
    BY <2>6 DEF realloc_null
  <2>7. ASSUME free_null PROVE \E r : Adopt(r)
    BY <2>7 DEF free_null
  <2> QED
    BY <2>1, <2>2, <2>3, <2>4, <2>5, <2>6, <2>7 DEF Next
<1>2. ASSUME NEW r, Adopt(r) PROVE misled' \in BOOLEAN /\ (misled => misled')
  <2>1. misled' = (misled \/ Reused(r.heap))
    BY <1>2 DEF Adopt
  <2> QED
    BY <2>1
<1> QED
  BY <1>1, <1>2

LEMMA StepInv == IInv /\ [Next]_vars => IInv'
<1> SUFFICES ASSUME IInv, [Next]_vars PROVE IInv'
  OBVIOUS
<1>1. CASE UNCHANGED vars
  <2>1. /\ heap' = heap /\ cells' = cells /\ live' = live /\ status' = status
        /\ lost' = lost /\ misled' = misled
    BY <1>1 DEF vars
  <2>2. ASSUME Inv, Consistent, LostOK PROVE Inv' /\ Consistent' /\ LostOK'
    <3>1. TypeOK' /\ Fits' /\ Intact' /\ LostOK'
      BY <2>1, <2>2 DEF Inv, TypeOK, Fits, Intact, WordOf, LostOK
    <3>2. RegionsExact' /\ InUse' = InUse
      BY <2>1, <2>2, RegionsAreExact, RegionsAreExactNext DEF Inv
    <3>3. Consistent'
      BY <2>1, <2>2 DEF Consistent, Unambiguous, NotTaken
    <3>4. Books'
      BY <2>1, <2>2, <3>2 DEF Inv, Books, Balanced
    <3>5. OneBlock'
      BY <2>1, <2>2 DEF Inv, OneBlock
    <3> QED
      BY <3>1, <3>2, <3>3, <3>4, <3>5 DEF Inv
  <2> QED
    BY <2>1, <2>2 DEF IInv
<1>2. CASE Next
  <2>1. misled' \in BOOLEAN /\ (misled => misled')
    BY <1>2, StepMisled DEF IInv
  <2>2. SUFFICES ASSUME ~misled' PROVE Inv' /\ Consistent' /\ LostOK'
    BY <2>1 DEF IInv
  <2>3. Inv /\ Consistent /\ LostOK /\ TypeOK /\ Unambiguous
    BY <2>1, <2>2 DEF IInv, Inv, Consistent
  <2>4. LostOK' /\ Unambiguous'
    BY <1>2, <2>2, <2>3, StepHistory DEF IInv
  <2>5. Inv' /\ NotTaken'
    <3>1. CASE \E tag \in Tag : \E size \in MallocSize : malloc(tag, size)
      BY <2>3, <3>1, MallocKeepsInv
    <3>2. CASE \E tag \in Tag : \E a \in CallocArgs : calloc(tag, a[1], a[2])
      BY <2>3, <3>2, CallocKeepsInv
    <3>3. CASE \E tag \in Tag : free(tag)
      BY <2>3, <3>3, FreeKeepsInv
    <3>4. CASE \E tag \in Tag : CallOnLost(tag)
      BY <2>2, <3>4 DEF CallOnLost
    <3>5. CASE \E tag \in Tag : \E size \in ReallocSize : realloc(tag, size)
      BY <2>3, <3>5, ReallocKeepsInv
    <3>6. CASE \E tag \in Tag : \E size \in ReallocSize : realloc_null(tag, size)
      BY <2>3, <3>6, ReallocNullKeepsInv
    <3>7. CASE free_null
      BY <2>3, <3>7, FreeNullKeepsInv
    <3> QED
      BY <1>2, <3>1, <3>2, <3>3, <3>4, <3>5, <3>6, <3>7 DEF Next
  <2> QED
    BY <2>4, <2>5 DEF Consistent
<1> QED
  BY <1>1, <1>2

LEMMA InvHolds == Spec => []IInv
BY InitInv, StepInv, PTL DEF Spec

\* The tables of direct_allocator.c, the cells and the client's blocks, lost ones
\* included, have their types after every call, until one is misled.
THEOREM AllocatorTypeCorrect == Spec => [](~misled => TypeOK /\ LostOK)
<1>1. IInv => (~misled => TypeOK /\ LostOK)
  BY DEF IInv, Inv
<1> QED
  BY InvHolds, <1>1, PTL

\* direct_allocator.c keeps mapped exactly the pages its tables lie in and record,
\* without overlap, for every page size, capacity, address space and mix of calls,
\* until one is misled.
THEOREM AllocatorRegionsExact == Spec => [](~misled => RegionsExact)
<1>1. IInv => (~misled => RegionsExact)
  BY DEF IInv, Inv
<1> QED
  BY InvHolds, <1>1, PTL

\* A client of allocator.c finds in its blocks what it put there, whatever
\* realloc_impl moves between the three allocators and whatever the kernel refuses,
\* until a call is misled (of a block that was unmarked and refused, nothing is said).
THEOREM AllocatorDataIntact == Spec => []DataIntact
<1>1. IInv => DataIntact
  BY DEF IInv, Inv, Intact, DataIntact
<1> QED
  BY InvHolds, <1>1, PTL

\* The allocators' books agree with the client's, so that free_impl and
\* realloc_impl find the owner of every pointer, until a call is misled: only a
\* remapped address (direct_allocator.c:99) and a refused move (allocator.c:75) can
\* put them out of step.
THEOREM AllocatorBooksBalance == Spec => []BooksBalance
<1>1. IInv => BooksBalance
  BY DEF IInv, Inv, Books, Balanced, BooksBalance
<1> QED
  BY InvHolds, <1>1, PTL
=============================================================================
