-------------------------- MODULE BuddyBlockProofs --------------------------
(***************************************************************************)
(* Proofs about BuddyBlock, for every depth of the tree, granularity,      *)
(* number of pages and mix of calls.                                       *)
(***************************************************************************)
EXTENDS BuddyBlock, WellFoundedInduction, SequenceTheorems, TLAPS

-----------------------------------------------------------------------------
(* Numbers *)

Less == {ad \in Nat \X Nat : ad[1] < ad[2]}

\* A set of numbers that is not empty has a smallest one.
LEMMA Least ==
  ASSUME NEW T \in SUBSET Nat, T # {}
  PROVE  \E n \in T : \A k \in T : n <= k
<1>1. IsWellFoundedOn(Less, Nat)
  BY NatLessThanWellFounded DEF OpToRel, Less
<1>2. PICK n \in T : \A k \in T : ~(<<k, n>> \in Less)
  BY <1>1, WFMin
<1>3. ASSUME NEW k \in T PROVE n <= k
  <2>1. n \in Nat /\ k \in Nat /\ ~(<<k, n>> \in Less)
    BY <1>2
  <2> QED
    BY <2>1 DEF Less
<1> QED
  BY <1>3

\* Induction, over sets of numbers.
LEMMA Induction ==
  ASSUME NEW T \in SUBSET Nat,
         \A n \in Nat : (\A k \in 0 .. n - 1 : k \in T) => n \in T
  PROVE  Nat \subseteq T
<1>1. SUFFICES ASSUME Nat \ T # {} PROVE FALSE
  OBVIOUS
<1>2. PICK n \in Nat \ T : \A k \in Nat \ T : n <= k
  BY <1>1, Least
<1>3. \A k \in 0 .. n - 1 : k \in T
  BY <1>2
<1> QED
  BY <1>2, <1>3

\* The products of offsets and sizes.
LEMMA Products ==
  ASSUME NEW a \in Nat, NEW b \in Nat, NEW c \in Nat
  PROVE  /\ a * c \in Nat
         /\ (a + b) * c = a * c + b * c
         /\ (a + 1) * c = a * c + c
         /\ (2 * a) * c = a * (2 * c)
         /\ (2 * a) * c = 2 * (a * c)
         /\ a <= b => a * c <= b * c
         /\ a < b => a * c + c <= b * c
<1>1. /\ a * c \in Nat /\ (a + b) * c = a * c + b * c /\ (a + 1) * c = a * c + c
      /\ (2 * a) * c = a * (2 * c) /\ (2 * a) * c = 2 * (a * c)
  OBVIOUS
<1>2. ASSUME a <= b PROVE a * c <= b * c
  <2>1. PICK d \in Nat : b = a + d
    BY <1>2
  <2>2. b * c = a * c + d * c /\ d * c \in Nat
    BY <2>1
  <2> QED
    BY <1>1, <2>2
<1>3. ASSUME a < b PROVE a * c + c <= b * c
  <2>1. PICK d \in Nat : b = (a + 1) + d
    BY <1>3
  <2>2. b * c = (a + 1) * c + d * c /\ d * c \in Nat
    BY <2>1
  <2> QED
    BY <1>1, <2>2
<1> QED
  BY <1>1, <1>2, <1>3

\* The quotient is determined.
LEMMA Quotient ==
  ASSUME NEW q \in Nat, NEW p \in Nat \ {0}, NEW r \in 0 .. p - 1
  PROVE  (q * p + r) \div p = q
<1> DEFINE x == q * p + r
           d == x \div p
<1>1. x \in Nat /\ d \in Int /\ d * p <= x /\ x < d * p + p
  BY Products
<1>2. ASSUME d < q PROVE FALSE
  BY <1>1, <1>2
<1>3. ASSUME q < d PROVE FALSE
  BY <1>1, <1>3, Products
<1> QED
  BY <1>1, <1>2, <1>3

-----------------------------------------------------------------------------
(* Powers of two *)

\* A function on 0 .. n that begins with 1 and doubles
Doubling(n, f) == /\ f \in [0 .. n -> Nat \ {0}] /\ f[0] = 1
                  /\ \A k \in 0 .. n - 1 : f[k + 1] = 2 * f[k]

LEMMA DoublingExists == \A n \in Nat : \E f : Doubling(n, f)
<1> DEFINE T == {n \in Nat : \E f : Doubling(n, f)}
<1>1. ASSUME NEW n \in Nat, \A k \in 0 .. n - 1 : k \in T PROVE n \in T
  <2>1. CASE n = 0
    <3>1. Doubling(0, [k \in 0 .. 0 |-> 1])
      BY DEF Doubling
    <3> QED
      BY <2>1, <3>1
  <2>2. CASE n # 0
    <3>1. PICK f : Doubling(n - 1, f)
      BY <1>1, <2>2
    <3> DEFINE g == [k \in 0 .. n |-> IF k = n THEN 2 * f[n - 1] ELSE f[k]]
    <3>2. Doubling(n, g)
      BY <2>2, <3>1 DEF Doubling
    <3> HIDE DEF g
    <3> QED
      BY <3>2
  <2> QED
    BY <2>1, <2>2
<1>2. T \in SUBSET Nat
  OBVIOUS
<1> HIDE DEF T
<1>3. Nat \subseteq T
  BY <1>1, <1>2, Induction
<1> QED
  BY <1>3 DEF T

LEMMA DoublingUnique ==
  ASSUME NEW n \in Nat, NEW m \in Nat, NEW f, NEW g, Doubling(n, f), Doubling(m, g), n <= m
  PROVE  \A k \in 0 .. n : f[k] = g[k]
<1> DEFINE T == {k \in Nat : k \in 0 .. n => f[k] = g[k]}
<1>1. ASSUME NEW k \in Nat, \A l \in 0 .. k - 1 : l \in T PROVE k \in T
  <2>1. CASE k = 0
    BY <2>1 DEF Doubling
  <2>2. CASE k # 0 /\ k \in 0 .. n
    <3>1. f[k - 1] = g[k - 1] /\ k - 1 \in 0 .. n - 1 /\ k - 1 \in 0 .. m - 1
      BY <1>1, <2>2
    <3>2. f[k] = 2 * f[k - 1] /\ g[k] = 2 * g[k - 1]
      BY <3>1, <2>2 DEF Doubling
    <3> QED
      BY <3>1, <3>2
  <2> QED
    BY <2>1, <2>2
<1>2. T \in SUBSET Nat
  OBVIOUS
<1> HIDE DEF T
<1>3. Nat \subseteq T
  BY <1>1, <1>2, Induction
<1> QED
  BY <1>3 DEF T

\* Pow2 is what its definition says.
LEMMA Pow2Defined == Pow2 = [n \in Nat |-> IF n = 0 THEN 1 ELSE 2 * Pow2[n - 1]]
<1> DEFINE D(n) == CHOOSE f : Doubling(n, f)
           F == [n \in Nat |-> D(n)[n]]
<1>1. \A n \in Nat : Doubling(n, D(n))
  BY DoublingExists
<1>2. ASSUME NEW n \in Nat PROVE F[n] = IF n = 0 THEN 1 ELSE 2 * F[n - 1]
  <2>1. CASE n = 0
    BY <1>1, <2>1 DEF Doubling
  <2>2. CASE n # 0
    <3>1. Doubling(n, D(n)) /\ Doubling(n - 1, D(n - 1))
      BY <1>1, <2>2
    <3>2. D(n - 1)[n - 1] = D(n)[n - 1]
      <4> HIDE DEF D
      <4> QED
        BY <3>1, <2>2, DoublingUnique
    <3>3. D(n)[n] = 2 * D(n)[n - 1]
      <4> HIDE DEF D
      <4>1. n - 1 \in 0 .. n - 1 /\ (n - 1) + 1 = n
        BY <2>2
      <4> QED
        BY <3>1, <4>1 DEF Doubling
    <3> HIDE DEF D
    <3> QED
      BY <2>2, <3>2, <3>3
  <2> QED
    BY <2>1, <2>2
<1>3. F = [n \in Nat |-> IF n = 0 THEN 1 ELSE 2 * F[n - 1]]
  <2> HIDE DEF D
  <2>1. F = [n \in Nat |-> F[n]]
    OBVIOUS
  <2> HIDE DEF F
  <2> QED
    BY <2>1, <1>2
<1> HIDE DEF F
<1>4. \E f : f = [n \in Nat |-> IF n = 0 THEN 1 ELSE 2 * f[n - 1]]
  BY <1>3
<1> QED
  BY <1>4, Zenon DEF Pow2

LEMMA Powers ==
  /\ Pow2[0] = 1
  /\ \A n \in Nat : Pow2[n] \in Nat \ {0}
  /\ \A n \in Nat : Pow2[n + 1] = 2 * Pow2[n]
<1>1. Pow2[0] = 1
  BY Pow2Defined
<1>2. ASSUME NEW n \in Nat PROVE Pow2[n + 1] = 2 * Pow2[n]
  BY Pow2Defined
<1> DEFINE T == {n \in Nat : Pow2[n] \in Nat \ {0}}
<1>3. ASSUME NEW n \in Nat, \A k \in 0 .. n - 1 : k \in T PROVE n \in T
  <2>1. CASE n = 0
    BY <1>1, <2>1
  <2>2. CASE n # 0
    <3>1. n - 1 \in Nat /\ Pow2[(n - 1) + 1] = 2 * Pow2[n - 1]
      BY <1>2, <2>2
    <3> QED
      BY <1>3, <2>2, <3>1
  <2> QED
    BY <2>1, <2>2
<1>4. T \in SUBSET Nat
  OBVIOUS
<1> HIDE DEF T
<1>5. Nat \subseteq T
  BY <1>3, <1>4, Induction
<1> QED
  BY <1>1, <1>2, <1>5 DEF T

\* Higher powers are larger.
LEMMA PowersGrow ==
  ASSUME NEW a \in Nat, NEW b \in Nat, a <= b
  PROVE  Pow2[a] <= Pow2[b]
<1> DEFINE T == {d \in Nat : Pow2[a] <= Pow2[a + d]}
<1>1. ASSUME NEW d \in Nat, \A k \in 0 .. d - 1 : k \in T PROVE d \in T
  <2>1. CASE d = 0
    BY <2>1, Powers
  <2>2. CASE d # 0
    <3>1. d - 1 \in T /\ a + (d - 1) \in Nat /\ (a + (d - 1)) + 1 = a + d
      BY <1>1, <2>2
    <3>2. Pow2[a + d] = 2 * Pow2[a + (d - 1)]
      BY <3>1, Powers
    <3> QED
      BY <3>1, <3>2, Powers
  <2> QED
    BY <2>1, <2>2
<1>2. T \in SUBSET Nat
  OBVIOUS
<1> HIDE DEF T
<1>3. Nat \subseteq T
  BY <1>1, <1>2, Induction
<1>4. b - a \in T /\ a + (b - a) = b
  BY <1>3
<1> QED
  BY <1>4 DEF T

-----------------------------------------------------------------------------
(* Levels *)

\* The level of a node, and the bytes it stands for: Begin .. Begin + Width - 1
At(i, b) == Pow2[b] - 1 <= i /\ i < 2 * Pow2[b] - 1
Bucket(i) == CHOOSE b \in 0 .. Depth - 1 : At(i, b)
Begin(i) == node_to_pointer(i, Bucket(i))
Width(i) == bucket_size(Bucket(i))

LEMMA Constants ==
  /\ Depth \in Nat \ {0} /\ Depth - 1 \in Nat /\ Granularity \in Nat \ {0}
  /\ NodeCount \in Nat \ {0} /\ NodeCount = Pow2[Depth] - 1 /\ Node = 0 .. NodeCount - 1
  /\ MaximalAllocation \in Nat \ {0}
<1>1. Pow2[Depth] = 2 * Pow2[Depth - 1] /\ Pow2[Depth - 1] \in Nat \ {0}
  BY Powers, DepthAssumption
<1> QED
  BY <1>1, DepthAssumption, GranularityAssumption DEF NodeCount, Node, MaximalAllocation

LEMMA PowerPositive == \A n \in Nat : Pow2[n] \in Nat \ {0}
BY Powers

LEMMA NodesAreNumbers == Node \subseteq Nat
BY Constants

LEMMA NodeLevel ==
  ASSUME NEW i \in Node
  PROVE  Bucket(i) \in 0 .. Depth - 1 /\ At(i, Bucket(i))
<1> DEFINE T == {b \in Nat : i < Pow2[b + 1] - 1}
<1>1. Depth - 1 \in T
  BY Constants
<1>2. PICK b \in T : \A k \in T : b <= k
  <2>1. T \in SUBSET Nat /\ T # {}
    BY <1>1
  <2> HIDE DEF T
  <2> QED
    BY <2>1, Least
<1>3. b \in 0 .. Depth - 1
  <2>1. b \in Nat /\ b <= Depth - 1
    <3>1. T \subseteq Nat
      OBVIOUS
    <3> HIDE DEF T
    <3> QED
      BY <1>1, <1>2, <3>1
  <2> QED
    BY <2>1, Constants
<1>4. i < 2 * Pow2[b] - 1
  BY <1>2, Powers
<1>5. Pow2[b] - 1 <= i
  <2>1. CASE b = 0
    BY <2>1, Powers, Constants
  <2>2. CASE b # 0
    <3>1. b - 1 \in Nat /\ (b - 1) + 1 = b
      BY <1>3, <2>2, Constants
    <3>2. b - 1 \notin T
      <4> HIDE DEF T
      <4> QED
        BY <1>2, <1>3, <3>1, Constants
    <3>3. ~(i < Pow2[b] - 1)
      BY <3>1, <3>2
    <3>4. i \in Int /\ Pow2[b] \in Int
      <4>1. b \in Nat
        BY <1>3, Constants
      <4> QED
        BY <4>1, NodesAreNumbers, PowerPositive
    <3> QED
      BY <3>3, <3>4
  <2> QED
    BY <2>1, <2>2
<1>6. \E c \in 0 .. Depth - 1 : At(i, c)
  BY <1>3, <1>4, <1>5 DEF At
<1> QED
  BY <1>6 DEF Bucket

\* A number that lies in a level is a node of that level, and of no other.
LEMMA BucketIs ==
  ASSUME NEW i \in Int, NEW b \in 0 .. Depth - 1, At(i, b)
  PROVE  i \in Node /\ Bucket(i) = b
<1>1. i \in Node
  <2>1. Pow2[b + 1] <= Pow2[Depth] /\ Pow2[b + 1] = 2 * Pow2[b] /\ Pow2[b] \in Nat \ {0}
    BY PowersGrow, Powers, Constants
  <2> DEFINE x == Pow2[b]
             y == Pow2[Depth]
  <2>2. x \in Nat \ {0} /\ y \in Int /\ x - 1 <= i /\ i < 2 * x - 1 /\ 2 * x <= y
    <3>1. y \in Int
      BY Constants, PowerPositive
    <3> QED
      BY <2>1, <3>1 DEF At
  <2>3. NodeCount = y - 1 /\ Node = 0 .. NodeCount - 1
    BY Constants
  <2> HIDE DEF x, y
  <2> QED
    BY <2>2, <2>3
<1>2. Bucket(i) \in 0 .. Depth - 1 /\ At(i, Bucket(i))
  BY <1>1, NodeLevel
<1> DEFINE c == Bucket(i)
<1> HIDE DEF c
<1>3. c \in 0 .. Depth - 1 /\ At(i, c)
  BY <1>2 DEF c
<1>4. ASSUME NEW x \in Nat, NEW y \in Nat, At(i, x), At(i, y), x < y PROVE FALSE
  <2>1. Pow2[x + 1] <= Pow2[y] /\ Pow2[x + 1] = 2 * Pow2[x]
    BY <1>4, PowersGrow, Powers
  <2> QED
    BY <1>4, <2>1, Powers DEF At
<1>5. b \in Nat /\ c \in Nat
  BY <1>3, Constants
<1>6. b = c
  BY <1>3, <1>4, <1>5
<1> QED
  BY <1>1, <1>6 DEF c

LEMMA Sizes ==
  /\ bucket_size(0) = MaximalAllocation
  /\ bucket_size(Depth) = 0
  /\ \A b \in 0 .. Depth - 1 : bucket_size(b) \in Nat \ {0}
  /\ \A b \in 0 .. Depth - 1 : b < Depth - 1 => bucket_size(b) = 2 * bucket_size(b + 1)
<1>1. bucket_size(0) = MaximalAllocation /\ bucket_size(Depth) = 0
  BY Constants DEF bucket_size, MaximalAllocation
<1>2. ASSUME NEW b \in 0 .. Depth - 1 PROVE bucket_size(b) \in Nat \ {0}
  <2>1. Pow2[Depth - 1 - b] \in Nat \ {0}
    BY Constants, Powers
  <2> QED
    BY <2>1, Constants DEF bucket_size
<1>3. ASSUME NEW b \in 0 .. Depth - 1, b < Depth - 1 PROVE bucket_size(b) = 2 * bucket_size(b + 1)
  <2>1. Depth - 1 - (b + 1) \in Nat /\ (Depth - 1 - (b + 1)) + 1 = Depth - 1 - b
    BY <1>3, Constants
  <2>2. Pow2[Depth - 1 - b] = 2 * Pow2[Depth - 1 - (b + 1)] /\ Pow2[Depth - 1 - (b + 1)] \in Nat
    BY <2>1, Powers
  <2>3. Granularity * (2 * Pow2[Depth - 1 - (b + 1)]) = 2 * (Granularity * Pow2[Depth - 1 - (b + 1)])
    BY <2>2, Constants
  <2>4. ~(b >= Depth) /\ ~(b + 1 >= Depth)
    BY <1>3, Constants
  <2> QED
    BY <2>2, <2>3, <2>4 DEF bucket_size
<1> QED
  BY <1>1, <1>2, <1>3

\* Deeper nodes are smaller.
LEMMA SizesFall ==
  ASSUME NEW b \in 0 .. Depth - 1, NEW c \in 0 .. Depth, b < c
  PROVE  bucket_size(c) <= bucket_size(b + 1) /\ bucket_size(b + 1) < bucket_size(b)
         /\ bucket_size(c) \in Nat
<1>1. bucket_size(c) \in Nat /\ bucket_size(b + 1) \in Nat
  BY Sizes, Constants
<1>2. bucket_size(b + 1) < bucket_size(b)
  <2>1. CASE b = Depth - 1
    BY <2>1, Sizes, Constants
  <2>2. CASE b < Depth - 1
    BY <2>2, Sizes, Constants
  <2> QED
    BY <2>1, <2>2, Constants
<1>3. bucket_size(c) <= bucket_size(b + 1)
  <2>1. CASE c = Depth
    BY <1>1, <2>1, Sizes
  <2>2. CASE c # Depth
    <3> DEFINE x == Pow2[Depth - 1 - c]
               y == Pow2[Depth - 1 - (b + 1)]
    <3>1. Depth - 1 - c \in Nat /\ Depth - 1 - (b + 1) \in Nat
          /\ Depth - 1 - c <= Depth - 1 - (b + 1)
      BY <2>2, Constants
    <3>2. x \in Nat /\ y \in Nat /\ x <= y
      BY <3>1, Powers, PowersGrow
    <3>3. bucket_size(c) = Granularity * x /\ bucket_size(b + 1) = Granularity * y
      BY <2>2, <3>1, Constants DEF bucket_size
    <3> HIDE DEF x, y
    <3>4. x * Granularity <= y * Granularity
      BY <3>2, Constants, Products
    <3>5. x * Granularity = Granularity * x /\ y * Granularity = Granularity * y
      BY <3>2, Constants
    <3> QED
      BY <3>3, <3>4, <3>5
  <2> QED
    BY <2>1, <2>2
<1> QED
  BY <1>1, <1>2, <1>3

\* The nodes of a level share the page.
LEMMA LevelFillsPage == \A b \in 0 .. Depth - 1 : Pow2[b] * bucket_size(b) = MaximalAllocation
<1> DEFINE T == {b \in Nat : b < Depth => Pow2[b] * bucket_size(b) = MaximalAllocation}
<1>1. ASSUME NEW b \in Nat, \A k \in 0 .. b - 1 : k \in T PROVE b \in T
  <2>1. CASE b = 0
    <3>1. Pow2[0] * bucket_size(0) = MaximalAllocation
      <4>1. Pow2[0] = 1 /\ bucket_size(0) = MaximalAllocation /\ MaximalAllocation \in Nat
        BY Powers, Sizes, Constants
      <4> QED
        BY <4>1
    <3> QED
      BY <2>1, <3>1
  <2>2. CASE b # 0 /\ b < Depth
    <3>1. Pow2[b - 1] * bucket_size(b - 1) = MaximalAllocation
      <4>1. b - 1 \in T /\ b - 1 < Depth
        BY <1>1, <2>2, Constants
      <4> QED
        BY <4>1
    <3>2. b - 1 \in 0 .. Depth - 1 /\ b - 1 < Depth - 1 /\ (b - 1) + 1 = b
      BY <2>2, Constants
    <3>3. bucket_size(b - 1) = 2 * bucket_size(b) /\ bucket_size(b) \in Nat
      <4>1. b \in 0 .. Depth - 1
        BY <2>2, Constants
      <4>2. bucket_size(b - 1) = 2 * bucket_size((b - 1) + 1)
        BY <3>2, Sizes
      <4>3. bucket_size(b) \in Nat \ {0}
        BY <4>1, Sizes
      <4> QED
        BY <3>2, <4>2, <4>3
    <3>4. Pow2[b] = 2 * Pow2[b - 1] /\ Pow2[b - 1] \in Nat
      BY <3>2, Powers
    <3> DEFINE x == Pow2[b - 1]
               y == bucket_size(b)
    <3> HIDE DEF x, y
    <3>5. x \in Nat /\ y \in Nat /\ (2 * x) * y = x * (2 * y)
      BY <3>3, <3>4, Products DEF x, y
    <3> QED
      BY <3>1, <3>3, <3>4, <3>5 DEF x, y
  <2> QED
    BY <2>1, <2>2
<1>2. T \in SUBSET Nat
  OBVIOUS
<1> HIDE DEF T
<1>3. Nat \subseteq T
  BY <1>1, <1>2, Induction
<1> QED
  BY <1>3, Constants DEF T

LEMMA LevelIs ==
  ASSUME NEW size \in Nat, NEW b \in 0 .. Depth - 1,
         size <= bucket_size(b), b = Depth - 1 \/ size > bucket_size(b + 1)
  PROVE  LevelOf(size) = b
<1> DEFINE Fit(c) == size <= bucket_size(c) /\ (c = Depth - 1 \/ size > bucket_size(c + 1))
<1>1. ASSUME NEW x \in 0 .. Depth - 1, NEW y \in 0 .. Depth - 1, Fit(x), Fit(y), x < y
      PROVE  FALSE
  <2>1. bucket_size(y) <= bucket_size(x + 1) /\ bucket_size(y) \in Nat
    BY <1>1, SizesFall, Constants
  <2>3. x # Depth - 1
    BY <1>1, Constants
  <2>2. bucket_size(x + 1) \in Nat
    <3>1. x + 1 \in 0 .. Depth - 1
      BY <2>3, Constants
    <3> QED
      BY <3>1, Sizes
  <2> QED
    BY <1>1, <2>1, <2>2, <2>3
<1>2. Fit(b)
  OBVIOUS
<1>3. LevelOf(size) = CHOOSE c \in 0 .. Depth - 1 : Fit(c)
  BY DEF LevelOf
<1> HIDE DEF Fit
<1>4. LevelOf(size) \in 0 .. Depth - 1 /\ Fit(LevelOf(size))
  BY <1>2, <1>3
<1>5. \A x, y \in 0 .. Depth - 1 : Fit(x) /\ Fit(y) => ~(x < y)
  BY <1>1
<1> QED
  BY <1>2, <1>4, <1>5, Constants

LEMMA LevelFits ==
  ASSUME NEW size \in 0 .. MaximalAllocation
  PROVE  /\ LevelOf(size) \in 0 .. Depth - 1
         /\ size <= bucket_size(LevelOf(size))
         /\ LevelOf(size) = Depth - 1 \/ size > bucket_size(LevelOf(size) + 1)
<1> DEFINE T == {d \in Nat : d <= Depth - 1 /\ size <= bucket_size(Depth - 1 - d)}
<1>1. Depth - 1 \in T
  <2>1. Depth - 1 - (Depth - 1) = 0
    BY Constants
  <2> QED
    BY <2>1, Constants, Sizes
<1>2. PICK d \in T : \A k \in T : d <= k
  <2>1. T \in SUBSET Nat /\ T # {}
    BY <1>1
  <2> HIDE DEF T
  <2> QED
    BY <2>1, Least
<1> DEFINE b == Depth - 1 - d
<1>3. b \in 0 .. Depth - 1 /\ size <= bucket_size(b)
  BY <1>2, Constants
<1>4. b = Depth - 1 \/ size > bucket_size(b + 1)
  <2>1. CASE d = 0
    BY <2>1, Constants
  <2>2. CASE d # 0
    <3>1. d - 1 \in Nat /\ d - 1 \notin T /\ d - 1 <= Depth - 1 /\ Depth - 1 - (d - 1) = b + 1
      BY <1>2, <2>2, Constants
    <3>2. ~(size <= bucket_size(b + 1))
      BY <3>1
    <3>3. b + 1 \in 0 .. Depth - 1
      BY <1>3, <2>2, Constants
    <3>4. bucket_size(b + 1) \in Nat
      BY <3>3, Sizes
    <3> HIDE DEF b
    <3> QED
      BY <3>2, <3>4, Constants
  <2> QED
    BY <2>1, <2>2
<1> HIDE DEF b
<1>5. size \in Nat
  BY Constants
<1>6. LevelOf(size) = b
  BY <1>3, <1>4, <1>5, LevelIs
<1> QED
  BY <1>3, <1>4, <1>6

-----------------------------------------------------------------------------
(* The tree *)

\* Where a node is: the place-th of its level.
LEMMA NodeFacts ==
  ASSUME NEW i \in Node
  PROVE  /\ i \in Nat
         /\ Bucket(i) \in 0 .. Depth - 1
         /\ Width(i) \in Nat \ {0}
         /\ Begin(i) \in Nat
         /\ Begin(i) + Width(i) <= MaximalAllocation
         /\ Bucket(i) = 0 <=> i = 0
<1> DEFINE b == Bucket(i)
           p == Pow2[b]
           s == bucket_size(b)
           k == i - p + 1
<1>1. i \in Nat /\ b \in 0 .. Depth - 1 /\ b \in Nat
  BY NodeLevel, NodesAreNumbers, Constants
<1>2. p \in Nat \ {0} /\ s \in Nat \ {0} /\ p * s = MaximalAllocation
  BY <1>1, PowerPositive, Sizes, LevelFillsPage
<1>3. p - 1 <= i /\ i < 2 * p - 1
  BY NodeLevel DEF At
<1>4. Begin(i) = k * s /\ Width(i) = s
  BY DEF Begin, Width, node_to_pointer
<1>5. b = 0 => p = 1
  BY Powers
<1>6. i = 0 => b = 0
  <2>1. At(0, 0)
    BY Powers DEF At
  <2> QED
    BY <2>1, BucketIs, Constants
<1>7. MaximalAllocation \in Nat
  BY Constants
<1> HIDE DEF b, p, s
<1>8. k \in Nat /\ k < p
  BY <1>1, <1>2, <1>3
<1> HIDE DEF k
<1>9. k * s \in Nat /\ k * s + s <= p * s
  BY <1>2, <1>8, Products
<1>10. b = 0 => i = 0
  BY <1>1, <1>3, <1>5
<1> QED
  BY <1>1, <1>2, <1>4, <1>6, <1>7, <1>9, <1>10 DEF b

LEMMA RootFacts ==
  /\ 0 \in Node /\ Bucket(0) = 0 /\ Begin(0) = 0 /\ Width(0) = MaximalAllocation
  /\ is_left(0)
<1>1. 0 \in Node
  <2>1. NodeCount \in Nat \ {0} /\ Node = 0 .. NodeCount - 1
    BY Constants
  <2> QED
    BY <2>1
<1>2. Bucket(0) = 0
  BY <1>1, NodeFacts
<1>3. Width(0) = MaximalAllocation
  BY <1>2, Sizes DEF Width
<1>4. Begin(0) = 0
  BY <1>1, <1>3, NodeFacts, Constants
<1> QED
  BY <1>1, <1>2, <1>3, <1>4 DEF is_left

\* The two halves of a node
LEMMA Children ==
  ASSUME NEW i \in Node, Bucket(i) < Depth - 1
  PROVE  /\ left(i) \in Node /\ Bucket(left(i)) = Bucket(i) + 1 /\ Begin(left(i)) = Begin(i)
         /\ right(i) \in Node /\ Bucket(right(i)) = Bucket(i) + 1
         /\ Begin(right(i)) = Begin(i) + bucket_size(Bucket(i) + 1)
         /\ Width(i) = 2 * bucket_size(Bucket(i) + 1)
<1> DEFINE b == Bucket(i)
           p == Pow2[b]
           s == bucket_size(b + 1)
           k == i - p + 1
<1>1. i \in Nat /\ b \in 0 .. Depth - 1 /\ b \in Nat /\ b + 1 \in 0 .. Depth - 1
  BY NodeFacts, Constants
<1>2. p \in Nat \ {0} /\ Pow2[b + 1] = 2 * p
  BY <1>1, Powers
<1>3. p - 1 <= i /\ i < 2 * p - 1
  BY NodeLevel DEF At
<1>4. s \in Nat \ {0} /\ bucket_size(b) = 2 * s
  BY <1>1, Sizes
<1>5. Begin(i) = k * (2 * s) /\ Width(i) = 2 * s
  BY <1>4 DEF Begin, Width, node_to_pointer
<1>6. At(left(i), b + 1) /\ At(right(i), b + 1) /\ left(i) \in Int /\ right(i) \in Int
  <2> HIDE DEF b, p
  <2> QED
    BY <1>1, <1>2, <1>3 DEF At, left, right
<1>7. /\ left(i) \in Node /\ Bucket(left(i)) = b + 1
      /\ right(i) \in Node /\ Bucket(right(i)) = b + 1
  BY <1>1, <1>6, BucketIs
<1>8. /\ Begin(left(i)) = (left(i) - 2 * p + 1) * s
      /\ Begin(right(i)) = (right(i) - 2 * p + 1) * s
  BY <1>2, <1>7 DEF Begin, node_to_pointer
<1> HIDE DEF b, p, s
<1>9. k \in Nat /\ left(i) - 2 * p + 1 = 2 * k /\ right(i) - 2 * p + 1 = 2 * k + 1
  BY <1>1, <1>2, <1>3 DEF left, right
<1> HIDE DEF k
<1>10. (2 * k) * s = k * (2 * s) /\ (2 * k + 1) * s = (2 * k) * s + s
  BY <1>4, <1>9, Products
<1> QED
  BY <1>5, <1>7, <1>8, <1>9, <1>10 DEF b, s

LEMMA Arithmetic ==
  ASSUME NEW i \in Nat
  PROVE  /\ parent(left(i)) = i /\ parent(right(i)) = i
         /\ sibling(left(i)) = right(i) /\ sibling(right(i)) = left(i)
         /\ is_left(left(i)) /\ ~is_left(right(i))
         /\ left(i) # right(i) /\ left(i) > i /\ right(i) > i
         /\ i # 0 => /\ parent(i) \in Nat /\ parent(i) < i
                     /\ i = left(parent(i)) \/ i = right(parent(i))
<1>1. parent(left(i)) = i /\ parent(right(i)) = i
  BY DEF parent, left, right
<1>2. left(i) % 2 = 1 /\ right(i) % 2 = 0
  BY DEF left, right
<1>3. sibling(left(i)) = right(i) /\ sibling(right(i)) = left(i)
  BY <1>2 DEF sibling, left, right
<1>4. is_left(left(i)) /\ ~is_left(right(i))
  BY <1>3 DEF is_left, left, right
<1>5. left(i) # right(i) /\ left(i) > i /\ right(i) > i
  BY DEF left, right
<1>6. ASSUME i # 0
      PROVE /\ parent(i) \in Nat /\ parent(i) < i
            /\ i = left(parent(i)) \/ i = right(parent(i))
  BY <1>6 DEF parent, left, right
<1> QED
  BY <1>1, <1>3, <1>4, <1>5, <1>6

\* A node and its sibling are the halves of their parent.
LEMMA Parents ==
  ASSUME NEW i \in Node, i # 0
  PROVE  /\ parent(i) \in Node /\ Bucket(parent(i)) = Bucket(i) - 1 /\ Bucket(i) > 0
         /\ parent(i) < i
         /\ \/ is_left(i) /\ i = left(parent(i)) /\ sibling(i) = right(parent(i))
            \/ ~is_left(i) /\ i = right(parent(i)) /\ sibling(i) = left(parent(i))
<1> DEFINE j == parent(i)
<1>1. i \in Nat /\ j \in Nat /\ j < i /\ (i = left(j) \/ i = right(j))
  BY NodeFacts, Arithmetic
<1>2. j \in Node
  BY <1>1, Constants
<1>3. Bucket(i) > 0 /\ Bucket(i) \in 0 .. Depth - 1
  BY NodeFacts
<1> DEFINE b == Bucket(i) - 1
<1>4. b \in 0 .. Depth - 1 /\ b \in Nat /\ b + 1 = Bucket(i)
  BY <1>3, Constants
<1>5. At(i, b + 1)
  BY <1>4, NodeLevel
<1>6. Pow2[b + 1] = 2 * Pow2[b] /\ Pow2[b] \in Nat
  BY <1>4, Powers
<1> HIDE DEF b
<1>7. At(j, b)
  BY <1>1, <1>5, <1>6 DEF At, left, right
<1>8. Bucket(j) = b
  BY <1>1, <1>4, <1>7, BucketIs
<1>9. \/ is_left(i) /\ i = left(j) /\ sibling(i) = right(j)
      \/ ~is_left(i) /\ i = right(j) /\ sibling(i) = left(j)
  BY <1>1, Arithmetic
<1> QED
  BY <1>1, <1>2, <1>3, <1>8, <1>9 DEF b

LEMMA Siblings ==
  ASSUME NEW i \in Node, i # 0
  PROVE  /\ sibling(i) \in Node /\ sibling(i) # i /\ Bucket(sibling(i)) = Bucket(i)
         /\ parent(sibling(i)) = parent(i)
         /\ Width(sibling(i)) = Width(i) /\ Width(parent(i)) = 2 * Width(i)
         /\ is_left(i) => Begin(i) = Begin(parent(i)) /\ Begin(sibling(i)) = Begin(i) + Width(i)
         /\ ~is_left(i) => Begin(i) = Begin(parent(i)) + Width(i)
                           /\ Begin(sibling(i)) = Begin(parent(i))
<1> DEFINE j == parent(i)
<1>1. j \in Node /\ Bucket(j) = Bucket(i) - 1 /\ Bucket(i) > 0 /\ j \in Nat
      /\ Bucket(i) \in 0 .. Depth - 1
  BY Parents, NodeFacts
<1>2. Bucket(j) < Depth - 1 /\ Bucket(j) + 1 = Bucket(i)
  BY <1>1, Constants
<1>3. /\ left(j) \in Node /\ Bucket(left(j)) = Bucket(i) /\ Begin(left(j)) = Begin(j)
      /\ right(j) \in Node /\ Bucket(right(j)) = Bucket(i)
      /\ Begin(right(j)) = Begin(j) + Width(i)
      /\ Width(j) = 2 * Width(i)
  BY <1>1, <1>2, Children DEF Width
<1>4. \/ is_left(i) /\ i = left(j) /\ sibling(i) = right(j)
      \/ ~is_left(i) /\ i = right(j) /\ sibling(i) = left(j)
  BY Parents
<1>5. parent(left(j)) = j /\ parent(right(j)) = j /\ left(j) # right(j)
  BY <1>1, Arithmetic
<1> HIDE DEF j
<1> QED
  BY <1>3, <1>4, <1>5 DEF j, Width

\* An allocation has one node only: the one of its level at its place.
LEMMA NodeOfIs ==
  ASSUME NEW o, NEW n \in Node, Bucket(n) = LevelOf(o.size), Begin(n) = o.at[2]
  PROVE  NodeOf(o) = n
<1> DEFINE b == Bucket(n)
           p == Pow2[b]
           s == bucket_size(b)
           k == n - p + 1
<1>1. n \in Nat /\ b \in 0 .. Depth - 1 /\ b \in Nat
  BY NodeFacts, Constants
<1>2. p \in Nat \ {0} /\ s \in Nat \ {0}
  BY <1>1, PowerPositive, Sizes
<1>3. p - 1 <= n
  BY NodeLevel DEF At
<1>4. Begin(n) = k * s
  BY DEF Begin, node_to_pointer
<1>5. NodeOf(o) = p - 1 + (k * s) \div s
  BY <1>4 DEF NodeOf
<1> HIDE DEF b, p, s
<1>6. k \in Nat
  BY <1>1, <1>2, <1>3
<1>7. (k * s + 0) \div s = k
  <2> HIDE DEF k
  <2>1. 0 \in 0 .. s - 1
    BY <1>2
  <2> QED
    BY <1>2, <1>6, <2>1, Quotient
<1>8. k * s + 0 = k * s
  BY <1>2, <1>6
<1>9. NodeOf(o) = p - 1 + k
  BY <1>5, <1>7, <1>8
<1> QED
  BY <1>1, <1>2, <1>9

-----------------------------------------------------------------------------
(* Paths to the root *)

LEMMA HalfQuotient ==
  ASSUME NEW x \in Nat, NEW p \in Nat \ {0}
  PROVE  (x \div 2) \div p = x \div (2 * p)
<1> DEFINE q == x \div (2 * p)
           r == x - q * (2 * p)
<1>1. 2 * p \in Nat \ {0}
  OBVIOUS
<1>2. q \in Nat /\ q * (2 * p) <= x /\ x < q * (2 * p) + 2 * p
  <2> DEFINE d == 2 * p
  <2> HIDE DEF d
  <2>1. d \in Nat \ {0}
    BY <1>1 DEF d
  <2>2. x \div d \in Nat /\ (x \div d) * d <= x /\ x < (x \div d) * d + d
    BY <2>1
  <2> QED
    BY <2>2 DEF d
<1> HIDE DEF q
<1>3. q * (2 * p) = 2 * (q * p) /\ q * p \in Nat
  BY <1>2, Products
<1>4. r \in 0 .. 2 * p - 1 /\ x = 2 * (q * p) + r
  BY <1>1, <1>2, <1>3
<1>5. r \div 2 \in 0 .. p - 1 /\ x \div 2 = q * p + (r \div 2)
  <2> HIDE DEF r
  <2> DEFINE m == q * p
  <2> HIDE DEF m
  <2>1. m \in Nat /\ x = 2 * m + r
    BY <1>3, <1>4 DEF m
  <2>2. r \div 2 \in 0 .. p - 1 /\ x \div 2 = m + (r \div 2)
    BY <2>1, <1>4
  <2> QED
    BY <2>2 DEF m
<1>6. (q * p + (r \div 2)) \div p = q
  BY <1>2, <1>5, Quotient
<1> QED
  BY <1>5, <1>6 DEF q

\* The path of a node: the node, and the path of its parent.
LEMMA PathStep ==
  /\ PathToRoot(0) = {0}
  /\ \A i \in Node \ {0} : PathToRoot(i) = {i} \cup PathToRoot(parent(i))
<1> DEFINE y(i, n) == ((i + 1) \div Pow2[n]) - 1
<1>1. \A i : PathToRoot(i) = {y(i, n) : n \in 0 .. Depth} \ {NULL}
  BY DEF PathToRoot
<1>2. ASSUME NEW i \in Nat PROVE y(i, 0) = i
  BY Powers
<1>3. ASSUME NEW i \in Node \ {0}, NEW n \in Nat PROVE y(i, n + 1) = y(parent(i), n)
  <2>1. Pow2[n + 1] = 2 * Pow2[n] /\ Pow2[n] \in Nat \ {0}
    BY Powers
  <2>2. i \in Nat /\ i # 0
    BY NodesAreNumbers
  <2>3. parent(i) + 1 = (i + 1) \div 2
    BY <2>2 DEF parent
  <2>4. ((i + 1) \div 2) \div Pow2[n] = (i + 1) \div (2 * Pow2[n])
    <3>1. i + 1 \in Nat
      BY <2>2
    <3> QED
      BY <2>1, <3>1, HalfQuotient
  <2> QED
    BY <2>1, <2>3, <2>4
<1>4. ASSUME NEW i \in Nat, NEW p \in Nat, i + 1 < p PROVE (i + 1) \div p = 0
  <2>1. (0 * p + (i + 1)) \div p = 0
    <3>1. i + 1 \in 0 .. p - 1 /\ p \in Nat \ {0}
      BY <1>4
    <3> QED
      BY <3>1, Quotient
  <2> QED
    BY <2>1
<1>5. ASSUME NEW i \in Node PROVE y(i, Depth) = NULL
  <2>1. i \in Nat /\ Pow2[Depth] \in Nat /\ i + 1 < Pow2[Depth]
    BY Constants, PowerPositive, NodesAreNumbers
  <2> QED
    BY <2>1, <1>4 DEF NULL
<1>6. ASSUME NEW n \in Nat, n # 0 PROVE y(0, n) = NULL
  <2>1. Pow2[1] <= Pow2[n] /\ Pow2[n] \in Nat
    BY <1>6, PowersGrow, PowerPositive
  <2>2. Pow2[0 + 1] = 2 * Pow2[0] /\ Pow2[0] = 1
    BY Powers
  <2>3. 0 + 1 < Pow2[n]
    BY <2>1, <2>2
  <2> QED
    BY <2>1, <2>3, <1>4 DEF NULL
<1> HIDE DEF y
<1>7. PathToRoot(0) = {0}
  BY <1>1, <1>2, <1>6, Constants DEF NULL
<1>8. ASSUME NEW i \in Node \ {0} PROVE PathToRoot(i) = {i} \cup PathToRoot(parent(i))
  <2>1. i \in Nat /\ i # NULL /\ parent(i) \in Node
    BY NodesAreNumbers, Parents DEF NULL
  <2>2. ASSUME NEW j \in PathToRoot(i) PROVE j \in {i} \cup PathToRoot(parent(i))
    <3>1. PICK n \in 0 .. Depth : j = y(i, n) /\ j # NULL
      BY <1>1, <2>2
    <3>2. CASE n = 0
      BY <3>1, <3>2, <1>2, <2>1
    <3>3. CASE n # 0
      <4>1. n - 1 \in Nat /\ n - 1 \in 0 .. Depth /\ (n - 1) + 1 = n
        BY <3>3, Constants
      <4>2. j = y(parent(i), n - 1)
        BY <3>1, <4>1, <1>3
      <4> QED
        BY <3>1, <4>1, <4>2, <1>1
    <3> QED
      BY <3>2, <3>3
  <2>3. i \in PathToRoot(i)
    <3>1. 0 \in 0 .. Depth
      BY Constants
    <3> QED
      BY <1>1, <1>2, <2>1, <3>1
  <2>4. ASSUME NEW j \in PathToRoot(parent(i)) PROVE j \in PathToRoot(i)
    <3>1. PICK n \in 0 .. Depth : j = y(parent(i), n) /\ j # NULL
      BY <1>1, <2>4
    <3>2. n # Depth
      BY <1>5, <2>1, <3>1
    <3>3. n + 1 \in 0 .. Depth /\ n \in Nat
      BY <3>2, Constants
    <3>4. j = y(i, n + 1)
      BY <3>1, <3>3, <1>3
    <3> QED
      BY <3>1, <3>3, <3>4, <1>1
  <2> QED
    BY <2>2, <2>3, <2>4
<1> QED
  BY <1>7, <1>8

\* What holds of the root, and of a node when it holds of its parent, holds of all.
LEMMA TreeInduction ==
  ASSUME NEW T \in SUBSET Node, 0 \in T, \A i \in Node \ {0} : parent(i) \in T => i \in T
  PROVE  T = Node
<1> DEFINE U == {i \in Nat : i \in Node => i \in T}
<1>1. ASSUME NEW i \in Nat, \A k \in 0 .. i - 1 : k \in U PROVE i \in U
  <2>1. CASE i \in Node \ {0}
    <3>1. parent(i) \in Node /\ parent(i) \in 0 .. i - 1
      <4>1. parent(i) \in Node /\ parent(i) < i
        BY <2>1, Parents
      <4>2. parent(i) \in Nat
        BY <4>1, NodesAreNumbers
      <4> QED
        BY <4>1, <4>2
    <3> QED
      BY <1>1, <2>1, <3>1
  <2> QED
    BY <2>1
<1>2. U \in SUBSET Nat
  OBVIOUS
<1> HIDE DEF U
<1>3. Nat \subseteq U
  BY <1>1, <1>2, Induction
<1> QED
  BY <1>3, NodesAreNumbers DEF U

LEMMA PathBasics ==
  ASSUME NEW i \in Node
  PROVE  /\ PathToRoot(i) \subseteq Node
         /\ i \in PathToRoot(i) /\ 0 \in PathToRoot(i)
         /\ \A j \in PathToRoot(i) : j <= i
<1> DEFINE T == {k \in Node : /\ PathToRoot(k) \subseteq Node
                              /\ k \in PathToRoot(k) /\ 0 \in PathToRoot(k)
                              /\ \A j \in PathToRoot(k) : j <= k}
<1>1. 0 \in T
  BY PathStep, RootFacts
<1>2. ASSUME NEW k \in Node \ {0}, parent(k) \in T PROVE k \in T
  <2>1. PathToRoot(k) = {k} \cup PathToRoot(parent(k))
    BY PathStep
  <2>2. parent(k) < k /\ parent(k) \in Nat /\ k \in Nat
    BY Parents, NodesAreNumbers
  <2>3. \A j \in PathToRoot(parent(k)) : j \in Nat /\ j <= parent(k)
    BY <1>2, NodesAreNumbers
  <2> QED
    BY <1>2, <2>1, <2>2, <2>3
<1>3. T \in SUBSET Node
  OBVIOUS
<1> HIDE DEF T
<1>4. T = Node
  BY <1>1, <1>2, <1>3, TreeInduction
<1> QED
  BY <1>4 DEF T

\* The nodes above i are above everything below i.
LEMMA PathUp ==
  ASSUME NEW i \in Node, NEW j \in PathToRoot(i)
  PROVE  PathToRoot(j) \subseteq PathToRoot(i)
<1> DEFINE T == {k \in Node : \A l \in PathToRoot(k) : PathToRoot(l) \subseteq PathToRoot(k)}
<1>1. 0 \in T
  BY PathStep, RootFacts
<1>2. ASSUME NEW k \in Node \ {0}, parent(k) \in T PROVE k \in T
  <2>1. PathToRoot(k) = {k} \cup PathToRoot(parent(k))
    BY PathStep
  <2> QED
    BY <1>2, <2>1
<1>3. T \in SUBSET Node
  OBVIOUS
<1> HIDE DEF T
<1>4. T = Node
  BY <1>1, <1>2, <1>3, TreeInduction
<1> QED
  BY <1>4 DEF T

\* Two nodes above the same one are above each other.
LEMMA PathLinear ==
  ASSUME NEW i \in Node, NEW j \in PathToRoot(i), NEW k \in PathToRoot(i)
  PROVE  j \in PathToRoot(k) \/ k \in PathToRoot(j)
<1> DEFINE T == {n \in Node : \A x, y \in PathToRoot(n) : x \in PathToRoot(y) \/ y \in PathToRoot(x)}
<1>1. 0 \in T
  BY PathStep, RootFacts
<1>2. ASSUME NEW n \in Node \ {0}, parent(n) \in T PROVE n \in T
  <2>1. PathToRoot(n) = {n} \cup PathToRoot(parent(n))
    BY PathStep
  <2> QED
    BY <1>2, <2>1
<1>3. T \in SUBSET Node
  OBVIOUS
<1> HIDE DEF T
<1>4. T = Node
  BY <1>1, <1>2, <1>3, TreeInduction
<1> QED
  BY <1>4 DEF T

\* A node above another has a child on the way.
LEMMA PathChild ==
  ASSUME NEW i \in Node, NEW j \in PathToRoot(i), j # i
  PROVE  /\ left(j) \in PathToRoot(i) \/ right(j) \in PathToRoot(i)
         /\ Bucket(j) < Depth - 1
<1> DEFINE T == {n \in Node : \A x \in PathToRoot(n) :
                   x # n => /\ left(x) \in PathToRoot(n) \/ right(x) \in PathToRoot(n)
                            /\ Bucket(x) < Depth - 1}
<1>1. 0 \in T
  BY PathStep, RootFacts
<1>2. ASSUME NEW n \in Node \ {0}, parent(n) \in T PROVE n \in T
  <2>1. PathToRoot(n) = {n} \cup PathToRoot(parent(n))
    BY PathStep
  <2>2. n = left(parent(n)) \/ n = right(parent(n))
    BY Parents
  <2>3. Bucket(parent(n)) < Depth - 1
    <3>1. Bucket(parent(n)) = Bucket(n) - 1 /\ Bucket(n) \in 0 .. Depth - 1
      BY Parents, NodeFacts
    <3> QED
      BY <3>1, Constants
  <2> QED
    BY <1>2, <2>1, <2>2, <2>3
<1>3. T \in SUBSET Node
  OBVIOUS
<1> HIDE DEF T
<1>4. T = Node
  BY <1>1, <1>2, <1>3, TreeInduction
<1> QED
  BY <1>4 DEF T

\* A node lies inside every node above it, a whole number of its widths from the
\* begin.
LEMMA PathNested ==
  ASSUME NEW i \in Node, NEW j \in PathToRoot(i)
  PROVE  /\ Bucket(j) <= Bucket(i)
         /\ Begin(j) <= Begin(i) /\ Begin(i) + Width(i) <= Begin(j) + Width(j)
         /\ Begin(j) = Begin(i) \/ Begin(j) + Width(i) <= Begin(i)
<1> DEFINE In(n, x) == /\ Bucket(x) <= Bucket(n)
                       /\ Begin(x) <= Begin(n) /\ Begin(n) + Width(n) <= Begin(x) + Width(x)
                       /\ Begin(x) = Begin(n) \/ Begin(x) + Width(n) <= Begin(n)
           T == {n \in Node : \A x \in PathToRoot(n) : In(n, x)}
<1>0. ASSUME NEW n \in Node PROVE In(n, n)
  BY NodeFacts
<1>1. 0 \in T
  BY <1>0, PathStep, RootFacts
<1>2. ASSUME NEW n \in Node \ {0}, parent(n) \in T PROVE n \in T
  <2>1. PathToRoot(n) = {n} \cup PathToRoot(parent(n))
    BY PathStep
  <2>2. ASSUME NEW x \in PathToRoot(parent(n)) PROVE In(n, x)
    <3> DEFINE p == parent(n)
    <3>1. p \in Node /\ In(p, x) /\ x \in Node
      BY <1>2, <2>2, PathBasics
    <3>2. Bucket(p) = Bucket(n) - 1 /\ Width(p) = 2 * Width(n)
          /\ (Begin(n) = Begin(p) \/ Begin(n) = Begin(p) + Width(n))
      BY Parents, Siblings
    <3>3. /\ Bucket(n) \in Int /\ Bucket(x) \in Int
          /\ Begin(n) \in Nat /\ Begin(p) \in Nat /\ Begin(x) \in Nat
          /\ Width(n) \in Nat \ {0} /\ Width(x) \in Nat
      BY <3>1, NodeFacts, Constants
    <3> HIDE DEF p
    <3> QED
      BY <3>1, <3>2, <3>3
  <2> QED
    BY <1>0, <2>1, <2>2
<1>3. T \in SUBSET Node
  OBVIOUS
<1> HIDE DEF T
<1>4. T = Node
  BY <1>1, <1>2, <1>3, TreeInduction
<1> QED
  BY <1>4 DEF T

\* Nodes of which neither is above the other do not share a byte.
Disjoint(i, j) == Begin(i) + Width(i) <= Begin(j) \/ Begin(j) + Width(j) <= Begin(i)

LEMMA PathDisjoint ==
  ASSUME NEW i \in Node, NEW j \in Node
  PROVE  i \in PathToRoot(j) \/ j \in PathToRoot(i) \/ Disjoint(i, j)
<1> DEFINE T == {n \in Node : \A m \in Node :
                   n \in PathToRoot(m) \/ m \in PathToRoot(n) \/ Disjoint(n, m)}
<1>1. 0 \in T
  BY PathBasics, RootFacts
<1>2. ASSUME NEW n \in Node \ {0}, parent(n) \in T PROVE n \in T
  <2> DEFINE p == parent(n)
             s == sibling(n)
  <2>1. PathToRoot(n) = {n} \cup PathToRoot(p) /\ p \in Node /\ s \in Node
    BY PathStep, Parents, Siblings
  <2>2. ASSUME NEW m \in Node PROVE n \in PathToRoot(m) \/ m \in PathToRoot(n) \/ Disjoint(n, m)
    <3>0. /\ Begin(n) \in Nat /\ Begin(p) \in Nat /\ Begin(s) \in Nat /\ Begin(m) \in Nat
          /\ Width(n) \in Nat /\ Width(p) \in Nat /\ Width(s) \in Nat /\ Width(m) \in Nat
      BY <2>1, NodeFacts
    <3>1. CASE p \in PathToRoot(m) /\ p # m
      <4>1. left(p) \in PathToRoot(m) \/ right(p) \in PathToRoot(m)
        BY <3>1, PathChild
      <4>2. n \in PathToRoot(m) \/ s \in PathToRoot(m)
        BY <4>1, Parents
      <4>3. CASE s \in PathToRoot(m)
        <5>1. Begin(s) <= Begin(m) /\ Begin(m) + Width(m) <= Begin(s) + Width(s)
          BY <4>3, PathNested
        <5>2. /\ Width(s) = Width(n)
              /\ Begin(s) = Begin(n) + Width(n) \/ Begin(n) = Begin(s) + Width(n)
          BY Siblings
        <5> HIDE DEF s
        <5> QED
          BY <3>0, <5>1, <5>2 DEF Disjoint
      <4> QED
        BY <4>2, <4>3
    <3>2. CASE p = m
      BY <3>2, <2>1, PathBasics
    <3>3. CASE m \in PathToRoot(p)
      BY <3>3, <2>1
    <3>4. CASE Disjoint(p, m)
      <4>1. Begin(p) <= Begin(n) /\ Begin(n) + Width(n) <= Begin(p) + Width(p)
        BY <2>1, PathNested, PathBasics
      <4> QED
        BY <3>0, <3>4, <4>1 DEF Disjoint
    <3> QED
      BY <1>2, <3>1, <3>2, <3>3, <3>4
  <2> QED
    BY <2>2
<1>3. T \in SUBSET Node
  OBVIOUS
<1> HIDE DEF T
<1>4. T = Node
  BY <1>1, <1>2, <1>3, TreeInduction
<1> QED
  BY <1>4 DEF T

\* A node and one above it on the same level are the same; the halves of a node are
\* not above it.
LEMMA SameLevel ==
  ASSUME NEW i \in Node, NEW j \in PathToRoot(i), Bucket(i) <= Bucket(j)
  PROVE  i = j
<1>1. SUFFICES ASSUME i # j PROVE FALSE
  OBVIOUS
<1>2. j \in Node /\ Bucket(j) \in 0 .. Depth - 1 /\ Bucket(i) \in 0 .. Depth - 1
  BY PathBasics, NodeFacts
<1>3. PICK c \in PathToRoot(i) : c \in {left(j), right(j)} /\ Bucket(j) < Depth - 1
  BY <1>1, PathChild
<1>4. Bucket(c) = Bucket(j) + 1
  BY <1>2, <1>3, Children
<1>5. Bucket(c) <= Bucket(i)
  BY <1>3, PathNested
<1> QED
  BY <1>2, <1>4, <1>5, Constants

LEMMA ChildPath ==
  ASSUME NEW n \in Node, NEW i \in Node, left(i) \in PathToRoot(n) \/ right(i) \in PathToRoot(n)
  PROVE  i \in PathToRoot(n) /\ i # n
<1>1. PICK c \in PathToRoot(n) : c \in {left(i), right(i)}
  OBVIOUS
<1>2. c \in Node /\ c \in Nat /\ i \in Nat /\ n \in Nat /\ c > i /\ parent(c) = i /\ c <= n
  BY <1>1, PathBasics, NodesAreNumbers, Arithmetic
<1>3. c # 0
  BY <1>2
<1>4. i \in PathToRoot(c)
  BY <1>2, <1>3, PathStep, PathBasics
<1> QED
  BY <1>1, <1>2, <1>4, PathUp

LEMMA SiblingPath ==
  ASSUME NEW i \in Node, i # 0
  PROVE  sibling(i) \notin PathToRoot(i) /\ parent(i) \in PathToRoot(i)
         /\ parent(i) \in PathToRoot(sibling(i)) /\ i \notin PathToRoot(parent(i))
<1>1. /\ sibling(i) \in Node /\ sibling(i) # i /\ Bucket(sibling(i)) = Bucket(i)
      /\ parent(sibling(i)) = parent(i) /\ parent(i) \in Node /\ parent(i) < i
  BY Siblings, Parents
<1>2. sibling(i) # 0
  BY <1>1, NodeFacts, RootFacts
<1>3. Bucket(i) <= Bucket(sibling(i))
  BY <1>1, NodeFacts, Constants
<1>4. i \notin PathToRoot(parent(i))
  <2>1. i \in PathToRoot(parent(i)) => i <= parent(i)
    BY <1>1, PathBasics
  <2>2. i \in Nat /\ parent(i) \in Nat
    BY <1>1, NodesAreNumbers
  <2> HIDE DEF parent
  <2> QED
    BY <1>1, <2>1, <2>2
<1> QED
  BY <1>1, <1>2, <1>3, <1>4, SameLevel, PathStep, PathBasics

-----------------------------------------------------------------------------
(* Bitmaps *)

\* The bitmap that allocations on the nodes N call for, and the nodes beside them
Marks(N) == UNION {PathToRoot(n) : n \in N}
Beside(N, i) == \A n \in N : i \notin PathToRoot(n) /\ n \notin PathToRoot(i)
Scattered(N) == N \subseteq Node /\ \A m, n \in N : m # n => m \notin PathToRoot(n)

LEMMA MarksUp ==
  ASSUME NEW N \in SUBSET Node, NEW j \in Marks(N)
  PROVE  j \in Node /\ PathToRoot(j) \subseteq Marks(N)
<1>1. PICK n \in N : j \in PathToRoot(n)
  BY DEF Marks
<1>2. j \in Node /\ PathToRoot(j) \subseteq PathToRoot(n)
  BY <1>1, PathBasics, PathUp
<1> QED
  BY <1>1, <1>2 DEF Marks

LEMMA MarksChild ==
  ASSUME NEW N \in SUBSET Node, NEW i \in Marks(N), i \notin N
  PROVE  Bucket(i) < Depth - 1 /\ (left(i) \in Marks(N) \/ right(i) \in Marks(N))
<1>1. PICK n \in N : i \in PathToRoot(n)
  BY DEF Marks
<1>2. /\ left(i) \in PathToRoot(n) \/ right(i) \in PathToRoot(n)
      /\ Bucket(i) < Depth - 1
  BY <1>1, PathChild
<1> QED
  BY <1>1, <1>2 DEF Marks

\* The node of an allocation is not split.
LEMMA MarksLeaf ==
  ASSUME NEW N, Scattered(N), NEW i \in N, NEW b
  PROVE  i \in Marks(N) /\ ~is_split(Marks(N), i, b)
<1>1. i \in Node /\ N \subseteq Node
  BY DEF Scattered
<1>2. i \in Marks(N)
  BY <1>1, PathBasics DEF Marks
<1>3. ASSUME NEW n \in N, left(i) \in PathToRoot(n) \/ right(i) \in PathToRoot(n) PROVE FALSE
  <2>1. i \in PathToRoot(n) /\ i # n
    BY <1>1, <1>3, ChildPath
  <2> QED
    BY <2>1 DEF Scattered
<1> QED
  BY <1>2, <1>3 DEF is_split, Marks

\* A search that goes on below a node leaves no allocation above.
LEMMA Descends ==
  ASSUME NEW N, Scattered(N), NEW i \in Node, NEW b,
         i \notin Marks(N) \/ is_split(Marks(N), i, b)
  PROVE  i \notin N
BY MarksLeaf

\* A node without mark, below no allocation, is free.
LEMMA FoundFree ==
  ASSUME NEW N, Scattered(N), NEW i \in Node, i \notin Marks(N),
         \A j \in PathToRoot(i) \ {i} : j \notin N
  PROVE  Beside(N, i)
<1>1. N \subseteq Node
  BY DEF Scattered
<1>2. \A n \in N : n \in PathToRoot(n)
  BY <1>1, PathBasics
<1> QED
  BY <1>2 DEF Beside, Marks

\* A search leaves a node only when nothing below it is free.
LEMMA LeavesFull ==
  ASSUME NEW N, Scattered(N), NEW i \in Node, i \in Marks(N),
         NEW m \in Node, Bucket(i) <= Bucket(m),
         Bucket(i) = Bucket(m) \/ ~is_split(Marks(N), i, Bucket(i)),
         Begin(i) <= Begin(m), Begin(m) < Begin(i) + Width(i)
  PROVE  ~Beside(N, m)
<1>1. i \in PathToRoot(m)
  <2>1. ~Disjoint(i, m)
    BY NodeFacts DEF Disjoint
  <2>2. m \in PathToRoot(i) => m = i
    BY SameLevel
  <2> QED
    BY <2>1, <2>2, PathDisjoint, PathBasics
<1>2. CASE Bucket(i) = Bucket(m)
  <2>1. m = i
    BY <1>1, <1>2, SameLevel, NodeFacts
  <2> QED
    BY <2>1 DEF Beside, Marks
<1>3. CASE ~is_split(Marks(N), i, Bucket(i))
  <2>1. N \in SUBSET Node
    BY DEF Scattered
  <2>2. i \in N
    BY <1>3, <2>1, MarksChild DEF is_split
  <2> QED
    BY <1>1, <2>2 DEF Beside
<1> QED
  BY <1>2, <1>3

\* A node beside the allocations has no allocation above, and no mark when nothing
\* but them is marked.
LEMMA BesideUp ==
  ASSUME NEW N, Scattered(N), NEW o \in Node, Beside(N, o), NEW i \in PathToRoot(o)
  PROVE  i \in Node /\ i \notin N /\ o \notin Marks(N)
BY PathBasics DEF Beside, Marks

\* What find_buddy meets: the bitmap X has the marks of the allocations N, and
\* perhaps those of the node o it looks for.
LEMMA FindStops ==
  ASSUME NEW N, Scattered(N), NEW o \in Node, Beside(N, o), NEW i \in PathToRoot(o), NEW X,
         Marks(N) \subseteq X, X \subseteq Marks(N) \cup PathToRoot(o)
  PROVE  /\ ~is_split(X, o, Bucket(o))
         /\ ~is_split(X, i, Bucket(i)) => i \notin Marks(N)
         /\ ~is_split(X, i, Bucket(i)) /\ PathToRoot(o) \subseteq X => i = o
<1>1. N \in SUBSET Node
  BY DEF Scattered
<1>2. ~is_split(X, o, Bucket(o))
  <2>1. SUFFICES ASSUME NEW c \in X, c \in {left(o), right(o)} PROVE FALSE
    BY DEF is_split
  <2>2. CASE c \in PathToRoot(o)
    BY <2>1, <2>2, ChildPath
  <2>3. CASE c \in Marks(N)
    <3>1. PICK n \in N : c \in PathToRoot(n)
      BY <2>3 DEF Marks
    <3>2. o \in PathToRoot(n)
      BY <1>1, <2>1, <3>1, ChildPath
    <3> QED
      BY <3>1, <3>2 DEF Beside
  <2> QED
    BY <2>1, <2>2, <2>3
<1>3. ASSUME ~is_split(X, i, Bucket(i)), i \in Marks(N) PROVE FALSE
  <2>1. i \notin N
    BY BesideUp
  <2>2. Bucket(i) < Depth - 1 /\ (left(i) \in Marks(N) \/ right(i) \in Marks(N))
    BY <1>1, <1>3, <2>1, MarksChild
  <2> QED
    BY <1>3, <2>2 DEF is_split
<1>4. ASSUME ~is_split(X, i, Bucket(i)), PathToRoot(o) \subseteq X, i # o PROVE FALSE
  <2>1. /\ left(i) \in PathToRoot(o) \/ right(i) \in PathToRoot(o)
        /\ Bucket(i) < Depth - 1
    BY <1>4, PathChild
  <2> QED
    BY <1>4, <2>1 DEF is_split
<1> QED
  BY <1>2, <1>3, <1>4

\* The half find_buddy turns to is on the way.
LEMMA FindTurns ==
  ASSUME NEW o \in Node, NEW i \in PathToRoot(o), i # o
  PROVE  /\ i \in Node /\ Bucket(i) < Depth - 1
         /\ Begin(o) < Begin(i) + bucket_size(Bucket(i) + 1) => left(i) \in PathToRoot(o)
         /\ Begin(o) >= Begin(i) + bucket_size(Bucket(i) + 1) => right(i) \in PathToRoot(o)
<1>1. i \in Node /\ Bucket(i) < Depth - 1
      /\ (left(i) \in PathToRoot(o) \/ right(i) \in PathToRoot(o))
  BY PathChild, PathBasics
<1>2. /\ left(i) \in Node /\ Begin(left(i)) = Begin(i)
      /\ right(i) \in Node /\ Begin(right(i)) = Begin(i) + bucket_size(Bucket(i) + 1)
      /\ Width(left(i)) = bucket_size(Bucket(i) + 1)
  BY <1>1, Children DEF Width
<1> DEFINE s == bucket_size(Bucket(i) + 1)
<1>3. /\ Begin(o) \in Nat /\ Begin(i) \in Nat /\ s \in Nat
      /\ Width(o) \in Nat \ {0}
  BY <1>1, <1>2, NodeFacts
<1>4. left(i) \in PathToRoot(o) => Begin(o) + Width(o) <= Begin(i) + s
  BY <1>2, PathNested
<1>5. right(i) \in PathToRoot(o) => Begin(i) + s <= Begin(o)
  BY <1>2, PathNested
<1> HIDE DEF s
<1>6. /\ Begin(o) < Begin(i) + s => left(i) \in PathToRoot(o)
      /\ Begin(o) >= Begin(i) + s => right(i) \in PathToRoot(o)
  BY <1>1, <1>3, <1>4, <1>5
<1> QED
  BY <1>1, <1>6 DEF s

\* The bitmap of one more allocation
LEMMA MarksOneMore ==
  ASSUME NEW N, NEW n
  PROVE  Marks(N \cup {n}) = Marks(N) \cup PathToRoot(n)
BY DEF Marks

\* One step up of the loop that marks the way from the new node n to the root
LEMMA MarkStep ==
  ASSUME NEW n \in Node, NEW i \in PathToRoot(n), NEW X, NEW E, i \in X,
         X \cup PathToRoot(i) = E \cup PathToRoot(n)
  PROVE  /\ i = 0 => X = E \cup PathToRoot(n)
         /\ i # 0 => /\ (X \cup {parent(i)}) \cup PathToRoot(parent(i)) = E \cup PathToRoot(n)
                     /\ parent(i) \in PathToRoot(n) /\ parent(i) \in Node
<1>1. i \in Node
  BY PathBasics
<1>2. CASE i = 0
  BY <1>2, PathStep
<1>3. CASE i # 0
  <2>1. PathToRoot(i) = {i} \cup PathToRoot(parent(i)) /\ parent(i) \in Node
        /\ parent(i) \in PathToRoot(parent(i)) /\ PathToRoot(i) \subseteq PathToRoot(n)
    BY <1>1, <1>3, PathStep, PathBasics, PathUp, Parents
  <2> HIDE DEF parent
  <2> QED
    BY <1>3, <2>1
<1> QED
  BY <1>2, <1>3

\* One step up of the loops that unmark the way from a node o beside the
\* allocations N: they stop when X is exactly the bitmap of N.
Climbs(N, o, i, X) ==
  /\ i = 0 \/ sibling(i) \in X => X \ {i} = Marks(N)
  /\ i # 0 /\ sibling(i) \in X => parent(i) \in Marks(N)
  /\ ~(i = 0 \/ sibling(i) \in X) =>
       /\ Marks(N) \subseteq X \ {i} /\ X \ {i} \subseteq Marks(N) \cup PathToRoot(parent(i))
       /\ X = Marks(N) \cup PathToRoot(i) => X \ {i} = Marks(N) \cup PathToRoot(parent(i))
       /\ parent(i) \notin Marks(N)
       /\ parent(i) \in PathToRoot(o) /\ parent(i) \in Node

LEMMA UnmarkStep ==
  ASSUME NEW N, Scattered(N), NEW o \in Node, Beside(N, o), NEW i \in PathToRoot(o),
         NEW X, Marks(N) \subseteq X, X \subseteq Marks(N) \cup PathToRoot(i), i \notin Marks(N)
  PROVE  Climbs(N, o, i, X)
<1>0. i \in Node /\ N \in SUBSET Node
  BY PathBasics DEF Scattered
<1>1. CASE i = 0
  BY <1>1, PathStep DEF Climbs
<1>2. CASE i # 0
  <2> DEFINE p == parent(i)
             s == sibling(i)
  <2>1. /\ p \in Node /\ s \in Node /\ p \in PathToRoot(i) /\ p \in PathToRoot(s)
        /\ s \notin PathToRoot(i) /\ i \notin PathToRoot(p)
        /\ PathToRoot(i) = {i} \cup PathToRoot(p)
        /\ PathToRoot(i) \subseteq PathToRoot(o)
    BY <1>0, <1>2, SiblingPath, PathStep, PathUp, Siblings, Parents
  <2>2. {left(p), right(p)} = {i, s}
    BY <1>0, <1>2, Parents
  <2> HIDE DEF p, s
  <2>3. s \in X => p \in Marks(N) /\ PathToRoot(p) \subseteq Marks(N)
    <3>1. SUFFICES ASSUME s \in X PROVE p \in Marks(N) /\ PathToRoot(p) \subseteq Marks(N)
      OBVIOUS
    <3>2. s \in Marks(N)
      BY <3>1, <2>1
    <3>3. p \in Marks(N)
      BY <1>0, <2>1, <3>2, MarksUp
    <3> QED
      BY <1>0, <3>3, MarksUp
  <2>4. s \notin X => p \notin Marks(N)
    <3>1. SUFFICES ASSUME s \notin X, p \in Marks(N) PROVE FALSE
      OBVIOUS
    <3>2. p \notin N
      BY <2>1, BesideUp
    <3>3. left(p) \in Marks(N) \/ right(p) \in Marks(N)
      BY <1>0, <3>1, <3>2, MarksChild
    <3> QED
      BY <2>2, <3>1, <3>3
  <2>5. s \in X => X \ {i} = Marks(N)
    BY <2>1, <2>3
  <2>6. s \notin X =>
          /\ Marks(N) \subseteq X \ {i} /\ X \ {i} \subseteq Marks(N) \cup PathToRoot(p)
          /\ X = Marks(N) \cup PathToRoot(i) => X \ {i} = Marks(N) \cup PathToRoot(p)
          /\ p \in PathToRoot(o) /\ p \in Node
    BY <2>1
  <2> QED
    BY <1>2, <2>3, <2>4, <2>5, <2>6 DEF Climbs, p, s
<1> QED
  BY <1>1, <1>2

\* The nodes below and above a node beside the allocations
LEMMA BesideBelow ==
  ASSUME NEW N, N \subseteq Node, NEW o \in Node, Beside(N, o), NEW i \in Node, o \in PathToRoot(i)
  PROVE  Beside(N, i)
<1>1. ASSUME NEW n \in N PROVE i \notin PathToRoot(n) /\ n \notin PathToRoot(i)
  <2>1. i \in PathToRoot(n) => o \in PathToRoot(n)
    BY PathUp
  <2>2. n \in PathToRoot(i) => o \in PathToRoot(n) \/ n \in PathToRoot(o)
    BY PathLinear
  <2> QED
    BY <2>1, <2>2 DEF Beside
<1> QED
  BY <1>1 DEF Beside

LEMMA BesideAbove ==
  ASSUME NEW N, NEW o \in Node, Beside(N, o), NEW i \in PathToRoot(o), i \notin Marks(N)
  PROVE  Beside(N, i)
<1>1. PathToRoot(i) \subseteq PathToRoot(o)
  BY PathUp
<1> QED
  BY <1>1 DEF Beside, Marks

\* When an allocation cannot grow because the buddy of i is in use, no node above i
\* is free.
LEMMA GrowthFails ==
  ASSUME NEW N, Scattered(N), NEW o \in Node, NEW i \in PathToRoot(o), i # 0, parent(i) \in Marks(N),
         NEW j \in PathToRoot(o), Bucket(j) < Bucket(i)
  PROVE  ~Beside(N, j)
<1>1. i \in Node /\ j \in Node /\ N \in SUBSET Node
  BY PathBasics DEF Scattered
<1>2. i \notin PathToRoot(j)
  BY <1>1, PathNested, NodeFacts
<1>3. j \in PathToRoot(i) /\ j # i
  BY <1>1, <1>2, PathLinear, PathBasics
<1>4. j \in PathToRoot(parent(i))
  BY <1>1, <1>3, PathStep
<1>5. j \in Marks(N)
  BY <1>1, <1>4, MarksUp
<1> QED
  BY <1>5 DEF Marks, Beside

-----------------------------------------------------------------------------
(* Levels and requests *)

\* A size that fits in the halves of level b needs a lower level.
LEMMA LevelBelow ==
  ASSUME NEW size \in 1 .. MaximalAllocation, NEW b \in 0 .. Depth - 1
  PROVE  /\ size <= bucket_size(b + 1) => b < Depth - 1 /\ b + 1 <= LevelOf(size)
         /\ size > bucket_size(b + 1) /\ b <= LevelOf(size) => b = LevelOf(size)
         /\ size > bucket_size(b) => LevelOf(size) < b
<1> DEFINE l == LevelOf(size)
<1>1. l \in 0 .. Depth - 1 /\ size <= bucket_size(l)
      /\ (l = Depth - 1 \/ size > bucket_size(l + 1))
  BY LevelFits, Constants
<1>2. Depth \in Nat \ {0}
  BY Constants
<1>3. size <= bucket_size(b + 1) => b < Depth - 1
  BY <1>2, Sizes
<1>4. l < b => bucket_size(b) <= bucket_size(l + 1) /\ bucket_size(b) \in Nat /\ bucket_size(l + 1) \in Nat
  <2>1. l < b => l + 1 \in 0 .. Depth
    BY <1>1, <1>2
  <2> QED
    BY <1>1, <1>2, <2>1, SizesFall
<1>5. b < l => bucket_size(l) <= bucket_size(b + 1) /\ bucket_size(l) \in Nat /\ bucket_size(b + 1) \in Nat
  BY <1>1, <1>2, SizesFall
<1>6. bucket_size(b + 1) <= bucket_size(b) /\ bucket_size(b) \in Nat /\ bucket_size(b + 1) \in Nat
      /\ bucket_size(l) \in Nat /\ bucket_size(l + 1) \in Nat
  <2>1. b + 1 \in 0 .. Depth /\ l + 1 \in 0 .. Depth
    BY <1>1, <1>2
  <2> QED
    BY <1>1, <1>2, <2>1, SizesFall, Sizes
<1>7. b = l => bucket_size(b + 1) = bucket_size(l + 1)
  OBVIOUS
<1>8. l < b => l + 1 <= b /\ l < Depth - 1
  BY <1>1, <1>2
<1> HIDE DEF l
<1>9. size <= bucket_size(b + 1) => b + 1 <= l
  BY <1>1, <1>3, <1>4, <1>6, <1>7, <1>8
<1>10. size > bucket_size(b + 1) /\ b <= l => b = l
  BY <1>1, <1>5
<1>11. size > bucket_size(b) => l < b
  <2>1. b < l => size <= bucket_size(b)
    BY <1>1, <1>5, <1>6
  <2>2. b = l => size <= bucket_size(b)
    BY <1>1
  <2>3. b < l \/ b = l \/ l < b
    BY <1>1, <1>2
  <2>4. size \in Nat /\ bucket_size(b) \in Nat
    BY <1>6, Constants
  <2> QED
    BY <2>1, <2>2, <2>3, <2>4
<1> QED
  BY <1>3, <1>9, <1>10, <1>11 DEF l

-----------------------------------------------------------------------------
(* Allocations *)

\* The types, with the number k of pages and the state as parameters
Place(k) == ({0} \X {NULL}) \cup ((1 .. k) \X Byte)
Record(k) == [at : Place(k), size : Nat, filled : Nat]
AnyRecord == [at : Nat \X (Byte \cup {NULL}), size : Nat, filled : Nat]
Memory(k) == [1 .. k -> [Byte -> Tag \cup {NoTag}]]

\* Allocation o has the smallest node that holds it, and is at its begin.
Sits(k, o) == /\ o \in Record(k) /\ o.at[1] \in 1 .. k
              /\ o.size \in 0 .. MaximalAllocation /\ o.filled \in 0 .. o.size
              /\ NodeOf(o) \in Node
              /\ Bucket(NodeOf(o)) = LevelOf(o.size)
              /\ Begin(NodeOf(o)) = o.at[2]

\* The first n bytes at `at` are the client's.
Written(m, at, n, tag) == \A x \in 0 .. n - 1 : m[at[1]][at[2] + x] = tag

Apart(own) == \A g, h \in DOMAIN own :
  g # h /\ own[g].at[1] = own[h].at[1] => NodeOf(own[g]) \notin PathToRoot(NodeOf(own[h]))

Sound(k, m, own) ==
  /\ DOMAIN own \subseteq Tag
  /\ \A g \in DOMAIN own : Sits(k, own[g]) /\ Written(m, own[g].at, own[g].filled, g)
  /\ Apart(own)

\* The nodes of the allocations in allocator a
NodesIn(own, a) == {NodeOf(own[g]) : g \in {h \in DOMAIN own : own[h].at[1] = a}}

\* The client's allocations with one more, and with one less
With(own, tag, o) == [g \in DOMAIN own \cup {tag} |-> IF g = tag THEN o ELSE own[g]]
Without(own, tag) == [g \in DOMAIN own \ {tag} |-> own[g]]

\* `more` has one allocation more than `own`, on node n of page p.
OneMore(more, own, p, n) ==
  /\ Beside(NodesIn(own, p), n)
  /\ NodesIn(more, p) = NodesIn(own, p) \cup {n}
  /\ \A a : a # p => NodesIn(more, a) = NodesIn(own, a)

LEMMA NodesApart ==
  ASSUME NEW k, NEW m, NEW own, Sound(k, m, own), NEW a
  PROVE  Scattered(NodesIn(own, a))
<1>1. NodesIn(own, a) \subseteq Node
  BY DEF Sound, Sits, NodesIn
<1>2. ASSUME NEW x \in NodesIn(own, a), NEW y \in NodesIn(own, a), x # y
      PROVE  x \notin PathToRoot(y)
  <2>1. PICK g \in DOMAIN own : own[g].at[1] = a /\ x = NodeOf(own[g])
    BY DEF NodesIn
  <2>2. PICK h \in DOMAIN own : own[h].at[1] = a /\ y = NodeOf(own[h])
    BY DEF NodesIn
  <2> QED
    BY <1>2, <2>1, <2>2 DEF Sound, Apart
<1> QED
  BY <1>1, <1>2 DEF Scattered

LEMMA Adding ==
  ASSUME NEW k, NEW m, NEW own, Sound(k, m, own), NEW tag \in Tag \ DOMAIN own, NEW o, Sits(k, o),
         NEW p, p = o.at[1], NEW n, n = NodeOf(o),
         Beside(NodesIn(own, p), n), Written(m, o.at, o.filled, tag),
         NEW new, new = With(own, tag, o)
  PROVE  Sound(k, m, new) /\ OneMore(new, own, p, n)
<1>1. /\ DOMAIN new = DOMAIN own \cup {tag} /\ new[tag] = o
      /\ \A g \in DOMAIN own : new[g] = own[g]
  BY DEF With
<1>2. \A g \in DOMAIN new : Sits(k, new[g]) /\ Written(m, new[g].at, new[g].filled, g)
  BY <1>1 DEF Sound
<1>3. Apart(new)
  <2>1. SUFFICES ASSUME NEW g \in DOMAIN new, NEW h \in DOMAIN new, g # h,
                        new[g].at[1] = new[h].at[1]
                 PROVE  NodeOf(new[g]) \notin PathToRoot(NodeOf(new[h]))
    BY DEF Apart
  <2>2. CASE g = tag
    <3>1. NodeOf(own[h]) \in NodesIn(own, p) /\ new[h] = own[h]
      BY <1>1, <2>1, <2>2 DEF NodesIn
    <3> QED
      BY <1>1, <2>2, <3>1 DEF Beside
  <2>3. CASE h = tag
    <3>1. NodeOf(own[g]) \in NodesIn(own, p) /\ new[g] = own[g]
      BY <1>1, <2>1, <2>3 DEF NodesIn
    <3> QED
      BY <1>1, <2>3, <3>1 DEF Beside
  <2>4. CASE g # tag /\ h # tag
    <3>1. g \in DOMAIN own /\ h \in DOMAIN own /\ new[g] = own[g] /\ new[h] = own[h]
      BY <1>1, <2>4
    <3> QED
      BY <2>1, <3>1 DEF Sound, Apart
  <2> QED
    BY <2>2, <2>3, <2>4
<1>4. NodesIn(new, p) = NodesIn(own, p) \cup {n}
  <2>1. ASSUME NEW x \in NodesIn(new, p) PROVE x \in NodesIn(own, p) \cup {n}
    BY <1>1 DEF NodesIn
  <2>2. NodesIn(own, p) \subseteq NodesIn(new, p)
    BY <1>1 DEF NodesIn
  <2>3. n \in NodesIn(new, p)
    BY <1>1 DEF NodesIn
  <2> QED
    BY <2>1, <2>2, <2>3
<1>5. ASSUME NEW a, a # p PROVE NodesIn(new, a) = NodesIn(own, a)
  <2>1. {h \in DOMAIN new : new[h].at[1] = a} = {h \in DOMAIN own : own[h].at[1] = a}
    BY <1>1, <1>5
  <2>2. NodesIn(new, a) \subseteq NodesIn(own, a)
    BY <1>1, <2>1 DEF NodesIn
  <2>3. NodesIn(own, a) \subseteq NodesIn(new, a)
    BY <1>1, <2>1 DEF NodesIn
  <2> QED
    BY <2>2, <2>3
<1> QED
  BY <1>1, <1>2, <1>3, <1>4, <1>5 DEF Sound, OneMore

LEMMA Removing ==
  ASSUME NEW k, NEW m, NEW own, Sound(k, m, own), NEW tag \in DOMAIN own,
         NEW new, new = Without(own, tag), NEW p, p = own[tag].at[1], NEW n, n = NodeOf(own[tag])
  PROVE  /\ Sound(k, m, new)
         /\ OneMore(own, new, p, n)
<1>1. DOMAIN new = DOMAIN own \ {tag} /\ \A g \in DOMAIN new : new[g] = own[g]
  BY DEF Without
<1>2. Sound(k, m, new)
  BY <1>1 DEF Sound, Apart
<1>3. Beside(NodesIn(new, p), n)
  <2>1. SUFFICES ASSUME NEW j \in NodesIn(new, p)
                 PROVE  n \notin PathToRoot(j) /\ j \notin PathToRoot(n)
    BY DEF Beside
  <2>2. PICK g \in DOMAIN new : new[g].at[1] = p /\ j = NodeOf(new[g])
    BY DEF NodesIn
  <2>3. g \in DOMAIN own /\ g # tag /\ new[g] = own[g]
    BY <1>1
  <2> QED
    BY <2>2, <2>3 DEF Sound, Apart
<1>4. NodesIn(own, p) = NodesIn(new, p) \cup {n}
  <2>1. ASSUME NEW x \in NodesIn(own, p) PROVE x \in NodesIn(new, p) \cup {n}
    BY <1>1 DEF NodesIn
  <2>2. NodesIn(new, p) \subseteq NodesIn(own, p)
    BY <1>1 DEF NodesIn
  <2>3. n \in NodesIn(own, p)
    BY <1>1 DEF NodesIn
  <2> QED
    BY <2>1, <2>2, <2>3
<1>5. ASSUME NEW a, a # p PROVE NodesIn(new, a) = NodesIn(own, a)
  <2>1. NodesIn(new, a) \subseteq NodesIn(own, a)
    BY <1>1, <1>5 DEF NodesIn
  <2>2. NodesIn(own, a) \subseteq NodesIn(new, a)
    BY <1>1, <1>5 DEF NodesIn
  <2> QED
    BY <2>1, <2>2
<1> QED
  BY <1>1, <1>2, <1>3, <1>4, <1>5 DEF OneMore

\* An allocation on the level of node n, at its begin
LEMMA SitsOn ==
  ASSUME NEW k \in Nat, NEW n \in Node, NEW a \in 1 .. k, NEW size \in 0 .. MaximalAllocation,
         NEW filled \in 0 .. size, LevelOf(size) = Bucket(n)
  PROVE  /\ Sits(k, Allocation(<<a, Begin(n)>>, size, filled))
         /\ NodeOf(Allocation(<<a, Begin(n)>>, size, filled)) = n
         /\ size <= Width(n)
<1> DEFINE o == Allocation(<<a, Begin(n)>>, size, filled)
<1>1. o.at = <<a, Begin(n)>> /\ o.size = size /\ o.filled = filled /\ o.at[1] = a /\ o.at[2] = Begin(n)
  BY DEF Allocation
<1>2. NodeOf(o) = n
  BY <1>1, NodeOfIs
<1>3. Begin(n) \in Byte
  <2> DEFINE x == Begin(n)
             w == Width(n)
  <2>1. x \in Nat /\ w \in Nat \ {0} /\ x + w <= MaximalAllocation /\ MaximalAllocation \in Nat
    BY NodeFacts, Constants
  <2> HIDE DEF x, w
  <2>2. x \in 0 .. MaximalAllocation - 1
    BY <2>1
  <2> QED
    BY <2>2 DEF Byte, x
<1>4. size \in Nat /\ filled \in Nat
  BY Constants
<1>5. o \in Record(k)
  BY <1>3, <1>4 DEF Record, Place, Allocation
<1>6. size <= Width(n)
  BY LevelFits DEF Width
<1> QED
  BY <1>1, <1>2, <1>5, <1>6 DEF Sits

LEMMA SitsFacts ==
  ASSUME NEW k \in Nat, NEW o, Sits(k, o)
  PROVE  /\ NodeOf(o) \in Node /\ Begin(NodeOf(o)) = o.at[2] /\ o.at \in Place(k)
         /\ o.at = <<o.at[1], o.at[2]>> /\ o.at[1] \in 1 .. k /\ o.at[2] \in Byte
         /\ o.size \in Nat /\ o.filled \in Nat /\ o.filled <= o.size /\ o.size <= Width(NodeOf(o))
<1>1. /\ o \in Record(k) /\ o.at[1] \in 1 .. k /\ NodeOf(o) \in Node
      /\ o.size \in 0 .. MaximalAllocation /\ o.filled \in 0 .. o.size
      /\ Bucket(NodeOf(o)) = LevelOf(o.size) /\ Begin(NodeOf(o)) = o.at[2]
  BY DEF Sits
<1>2. o.at \in Place(k) /\ o.size \in Nat /\ o.filled \in Nat
  BY <1>1 DEF Record
<1>3. o.at \in (1 .. k) \X Byte
  BY <1>1, <1>2 DEF Place
<1>4. o.size <= Width(NodeOf(o))
  BY <1>1, LevelFits DEF Width
<1> QED
  BY <1>1, <1>2, <1>3, <1>4

-----------------------------------------------------------------------------
(* Memory *)

\* Only the bytes of node n of page a may differ.
Elsewhere(k, m, new, a, n) ==
  \A b \in 1 .. k, x \in Byte :
    ~(b = a /\ Begin(n) <= x /\ x < Begin(n) + Width(n)) => new[b][x] = m[b][x]

\* The bytes of an allocation are in its node.
LEMMA BytesIn ==
  ASSUME NEW k \in Nat, NEW o, Sits(k, o), NEW x \in 0 .. o.size - 1
  PROVE  /\ o.at[2] + x \in Byte /\ o.at[2] + x \in Nat
         /\ Begin(NodeOf(o)) <= o.at[2] + x /\ o.at[2] + x < Begin(NodeOf(o)) + Width(NodeOf(o))
<1> DEFINE n == NodeOf(o)
           b == Begin(n)
           w == Width(n)
           y == o.at[2]
           s == o.size
<1>1. b = y /\ s <= w /\ s \in Nat
  BY SitsFacts
<1>2. b \in Nat /\ w \in Nat /\ b + w <= MaximalAllocation /\ MaximalAllocation \in Nat
  BY SitsFacts, NodeFacts, Constants
<1> HIDE DEF b, w, y
<1>3. x \in Nat /\ x < s
  BY <1>1
<1> HIDE DEF s
<1>4. y + x \in 0 .. MaximalAllocation - 1 /\ b <= y + x /\ y + x < b + w
  BY <1>1, <1>2, <1>3
<1> QED
  BY <1>4 DEF Byte, b, w, y

LEMMA BesideDisjoint ==
  ASSUME NEW N, N \subseteq Node, NEW n \in Node, Beside(N, n), NEW j \in N
  PROVE  Disjoint(j, n)
BY PathDisjoint DEF Beside

\* What is written in a node beside the allocations leaves theirs alone.
LEMMA WritingBeside ==
  ASSUME NEW k \in Nat, NEW m, NEW new, NEW own, Sound(k, m, own), NEW a, NEW n \in Node,
         Beside(NodesIn(own, a), n), Elsewhere(k, m, new, a, n)
  PROVE  Sound(k, new, own)
<1>1. ASSUME NEW g \in DOMAIN own PROVE Written(new, own[g].at, own[g].filled, g)
  <2> DEFINE o == own[g]
  <2>1. Sits(k, o) /\ Written(m, o.at, o.filled, g)
    BY DEF Sound
  <2>2. o.at[1] \in 1 .. k /\ o.filled \in Nat /\ o.size \in Nat /\ o.filled <= o.size
    BY <2>1, SitsFacts
  <2>3. ASSUME NEW x \in 0 .. o.filled - 1 PROVE new[o.at[1]][o.at[2] + x] = g
    <3>1. x \in 0 .. o.size - 1
      BY <2>2
    <3> DEFINE y == o.at[2] + x
               j == NodeOf(o)
    <3>2. y \in Byte /\ y \in Nat /\ Begin(j) <= y /\ y < Begin(j) + Width(j)
      BY <2>1, <3>1, BytesIn
    <3>3. m[o.at[1]][y] = g
      BY <2>1, <2>3 DEF Written
    <3>4. ~(o.at[1] = a /\ Begin(n) <= y /\ y < Begin(n) + Width(n))
      <4>1. SUFFICES ASSUME o.at[1] = a PROVE ~(Begin(n) <= y /\ y < Begin(n) + Width(n))
        OBVIOUS
      <4>2. j \in NodesIn(own, a) /\ NodesIn(own, a) \subseteq Node
        BY <4>1, NodesApart DEF NodesIn, Scattered
      <4>3. Disjoint(j, n) /\ j \in Node
        BY <4>2, BesideDisjoint
      <4>4. /\ Begin(n) \in Nat /\ Width(n) \in Nat /\ Begin(j) \in Nat /\ Width(j) \in Nat
        BY <4>3, NodeFacts
      <4> HIDE DEF y, j
      <4> QED
        BY <3>2, <4>3, <4>4 DEF Disjoint
    <3> HIDE DEF y
    <3>5. new[o.at[1]][y] = m[o.at[1]][y]
      BY <2>2, <3>2, <3>4 DEF Elsewhere
    <3> QED
      BY <3>3, <3>5 DEF y
  <2> QED
    BY <2>3 DEF Written
<1> QED
  BY <1>1 DEF Sound

\* The allocation that is filled or copied: at the begin of node n
LEMMA Filling ==
  ASSUME NEW k \in Nat, NEW m \in Memory(k), NEW a \in 1 .. k, NEW n \in Node,
         NEW size \in Nat, size <= Width(n), NEW tag \in Tag
  PROVE  /\ Fill(m, <<a, Begin(n)>>, size, tag) \in Memory(k)
         /\ Elsewhere(k, m, Fill(m, <<a, Begin(n)>>, size, tag), a, n)
         /\ Written(Fill(m, <<a, Begin(n)>>, size, tag), <<a, Begin(n)>>, size, tag)
<1> DEFINE y == Begin(n)
           w == Width(n)
           new == Fill(m, <<a, y>>, size, tag)
           page == [x \in Byte |-> IF y <= x /\ x < y + size THEN tag ELSE m[a][x]]
<1>1. y \in Nat /\ w \in Nat /\ y + w <= MaximalAllocation /\ MaximalAllocation \in Nat /\ size <= w
  BY NodeFacts, Constants
<1> HIDE DEF y, w
<1>2. new = [m EXCEPT ![a] = page]
  BY DEF Fill
<1>3. page \in [Byte -> Tag \cup {NoTag}]
  BY DEF Memory
<1>4. new \in Memory(k) /\ new[a] = page /\ \A b \in 1 .. k : b # a => new[b] = m[b]
  BY <1>2, <1>3 DEF Memory
<1>5. \A x \in Byte : page[x] = IF y <= x /\ x < y + size THEN tag ELSE m[a][x]
  OBVIOUS
<1> HIDE DEF new, page
<1>6. \A x \in Byte : x \in Nat
  BY <1>1 DEF Byte
<1>7. \A b \in 1 .. k, x \in Byte : ~(b = a /\ y <= x /\ x < y + w) => new[b][x] = m[b][x]
  BY <1>1, <1>4, <1>5, <1>6
<1>8. ASSUME NEW x \in 0 .. size - 1 PROVE new[a][y + x] = tag
  <2>1. y + x \in Byte /\ y <= y + x /\ y + x < y + size
    BY <1>1 DEF Byte
  <2> QED
    BY <1>4, <1>5, <2>1
<1>9. Written(new, <<a, y>>, size, tag)
  BY <1>8 DEF Written
<1> QED
  BY <1>4, <1>7, <1>9 DEF Elsewhere, new, y, w

LEMMA Copying ==
  ASSUME NEW k \in Nat, NEW m \in Memory(k), NEW a \in 1 .. k, NEW n \in Node,
         NEW size \in Nat, size <= Width(n), NEW tag, NEW from, from[1] \in 1 .. k,
         from[2] \in Nat, from[2] + size <= MaximalAllocation,
         NEW filled \in Nat, filled <= size, Written(m, from, filled, tag)
  PROVE  /\ Copy(m, <<a, Begin(n)>>, from, size) \in Memory(k)
         /\ Elsewhere(k, m, Copy(m, <<a, Begin(n)>>, from, size), a, n)
         /\ Written(Copy(m, <<a, Begin(n)>>, from, size), <<a, Begin(n)>>, filled, tag)
<1> DEFINE y == Begin(n)
           w == Width(n)
           f == from[2]
           source == m[from[1]]
           new == Copy(m, <<a, y>>, from, size)
           page == [x \in Byte |-> IF y <= x /\ x < y + size THEN source[f + (x - y)] ELSE m[a][x]]
<1>1. /\ y \in Nat /\ w \in Nat /\ y + w <= MaximalAllocation /\ MaximalAllocation \in Nat
      /\ size <= w /\ f \in Nat /\ f + size <= MaximalAllocation
  BY NodeFacts, Constants
<1> HIDE DEF y, w
<1>2. new = [m EXCEPT ![a] = page]
  BY DEF Copy
<1>3. source \in [Byte -> Tag \cup {NoTag}] /\ m[a] \in [Byte -> Tag \cup {NoTag}]
  BY DEF Memory
<1> HIDE DEF source, f
<1>4. page \in [Byte -> Tag \cup {NoTag}]
  <2>1. ASSUME NEW x \in Byte, y <= x, x < y + size PROVE f + (x - y) \in Byte
    BY <1>1, <2>1 DEF Byte
  <2> QED
    BY <1>3, <2>1
<1>5. new \in Memory(k) /\ new[a] = page /\ \A b \in 1 .. k : b # a => new[b] = m[b]
  BY <1>2, <1>4 DEF Memory
<1>6. \A x \in Byte : page[x] = IF y <= x /\ x < y + size THEN source[f + (x - y)] ELSE m[a][x]
  OBVIOUS
<1> HIDE DEF new, page
<1>7. \A x \in Byte : x \in Nat
  BY <1>1 DEF Byte
<1>8. \A b \in 1 .. k, x \in Byte : ~(b = a /\ y <= x /\ x < y + w) => new[b][x] = m[b][x]
  BY <1>1, <1>5, <1>6, <1>7
<1>9. ASSUME NEW x \in 0 .. filled - 1 PROVE new[a][y + x] = tag
  <2>1. y + x \in Byte /\ y <= y + x /\ y + x < y + size /\ f + ((y + x) - y) = f + x
    BY <1>1 DEF Byte
  <2>2. source[f + x] = tag
    BY DEF Written, source, f
  <2> QED
    BY <1>5, <1>6, <2>1, <2>2
<1>10. Written(new, <<a, y>>, filled, tag)
  BY <1>9 DEF Written
<1> QED
  BY <1>5, <1>8, <1>10 DEF Elsewhere, new, y, w

LEMMA Holding ==
  ASSUME NEW k \in Nat, NEW m \in Memory(k), NEW own, NEW other, Sound(k, m, own)
  PROVE  Held(m, own, other) \in Memory(k) /\ Sound(k, Held(m, own, other), own)
<1> DEFINE new == Held(m, own, other)
           all == {own[h] : h \in DOMAIN own} \cup {other[h] : h \in DOMAIN other}
<1>1. /\ DOMAIN m = 1 .. k
      /\ \A a \in 1 .. k, x \in Byte :
           new[a][x] = IF \E o \in all : o.at[1] = a /\ o.at[2] <= x /\ x < o.at[2] + o.size
                         THEN m[a][x] ELSE NoTag
  BY DEF Held, Memory
<1>2. new \in Memory(k)
  BY DEF Held, Memory
<1> HIDE DEF new
<1>3. ASSUME NEW g \in DOMAIN own PROVE Written(new, own[g].at, own[g].filled, g)
  <2> DEFINE o == own[g]
  <2>1. Sits(k, o) /\ Written(m, o.at, o.filled, g)
    BY DEF Sound
  <2>2. /\ o.at[1] \in 1 .. k /\ o.filled \in Nat /\ o.size \in Nat /\ o.filled <= o.size
        /\ o.at[2] \in Byte
    BY <2>1, SitsFacts
  <2>3. ASSUME NEW x \in 0 .. o.filled - 1 PROVE new[o.at[1]][o.at[2] + x] = g
    <3>1. x \in 0 .. o.size - 1
      BY <2>2
    <3>2. o.at[2] + x \in Byte
      BY <2>1, <3>1, BytesIn
    <3>3. m[o.at[1]][o.at[2] + x] = g
      BY <2>1, <2>3 DEF Written
    <3>4. o.at[2] \in Nat
      BY <2>2, Constants DEF Byte
    <3>5. o.at[2] <= o.at[2] + x /\ o.at[2] + x < o.at[2] + o.size
      BY <2>2, <3>1, <3>4
    <3>6. o \in all
      OBVIOUS
    <3> HIDE DEF o, all
    <3>7. \E h \in all : h.at[1] = o.at[1] /\ h.at[2] <= o.at[2] + x /\ o.at[2] + x < h.at[2] + h.size
      BY <3>5, <3>6
    <3> QED
      BY <1>1, <2>2, <3>2, <3>3, <3>7
  <2> QED
    BY <2>3 DEF Written
<1> QED
  BY <1>2, <1>3 DEF Sound, new

-----------------------------------------------------------------------------
(* The invariant, with the state as parameters: bitmaps ns, memory m, the client's *)
(* allocations own, the loop p, the call c and the place q.                        *)

Pages(ns, m) == /\ ns \in Seq(SUBSET Node)
                /\ m \in Seq([Byte -> Tag \cup {NoTag}]) /\ Len(m) = Len(ns)

Calls(k) == [op : {"none", "malloc", "free", "realloc"}, tag : Tag \cup {NoTag}, size : Nat,
             old : Record(k), current : Nat, to : Place(k)]

Cursors == [a : Nat, i : Node, bucket : 0 .. Depth - 1, offset : Byte,
            as : {"chain", "fresh", "realloc"}]

\* The bitmaps, except for that of page e, are what the allocations call for.
Exactly(ns, own, e) == \A a \in 1 .. Len(ns) : a # e => ns[a] = Marks(NodesIn(own, a))

\* No node of page a is free on the level that size needs.
Full(own, a, size) == \A n \in Node : Bucket(n) = LevelOf(size) => ~Beside(NodesIn(own, a), n)

\* The allocation that is resized or freed, and what the client has in the end
Old(c) == NodeOf(c.old)
OldPage(c) == c.old.at[1]
Keep(c) == IF c.old.filled < c.size THEN c.old.filled ELSE c.size
Live(own, c) == IF c.to = Nowhere THEN own
                ELSE With(own, c.tag, Allocation(c.to, c.size, Keep(c)))

IdleInv(ns, own, c) == c = NoCall /\ Exactly(ns, own, 0)

\* A call of malloc, of realloc, and of realloc once it is known to move
Asked(own, c) == /\ c.op = "malloc" /\ c.tag \in Tag \ DOMAIN own /\ c.to = Nowhere
                 /\ c.size \in 1 .. MaximalAllocation
Moving(k, m, own, c) == /\ c.op = "realloc" /\ c.tag \in Tag \ DOMAIN own /\ c.to = Nowhere
                        /\ Sits(k, c.old) /\ Beside(NodesIn(own, OldPage(c)), Old(c))
                        /\ Written(m, c.old.at, Keep(c), c.tag)
Growing(k, m, own, c) == Moving(k, m, own, c) /\ c.current = Width(Old(c)) /\ c.size > c.current
Wanting(k, m, own, c) == Asked(own, c) \/ Growing(k, m, own, c)

\* The allocators before a have no room; nor has the page a reallocation comes from.
Tried(own, c, a) == /\ \A b \in 1 .. a - 1 : Full(own, b, c.size)
                    /\ c.op = "realloc" => Full(own, OldPage(c), c.size)

TryInv(ns, m, own, c, q) ==
  /\ Wanting(Len(ns), m, own, c)
  /\ q = Root(q.a, "chain") /\ q.a \in 1 .. Len(ns) + 1
  /\ \/ c.size <= MaximalAllocation /\ Exactly(ns, own, 0) /\ Tried(own, c, q.a)
     \/ /\ c.size > MaximalAllocation /\ c.op = "realloc"
        /\ Exactly(ns, own, OldPage(c))
        /\ ns[OldPage(c)] = Marks(NodesIn(own, OldPage(c))) \cup PathToRoot(Old(c))

Searching(ns, m, own, c, q) ==
  /\ Wanting(Len(ns), m, own, c) /\ c.size <= MaximalAllocation
  /\ q.a \in 1 .. Len(ns)
  /\ q.as # "realloc" => Tried(own, c, q.a)
  /\ q.as = "realloc" => /\ c.op = "realloc" /\ q.a = OldPage(c)
                         /\ \A j \in PathToRoot(Old(c)) :
                              Bucket(j) = LevelOf(c.size) => ~Beside(NodesIn(own, q.a), j)

AtNode(q) == q.bucket = Bucket(q.i) /\ q.offset = Begin(q.i)

\* No node before byte x of the page is free.
SearchInv(ns, m, own, c, q, x) ==
  /\ Searching(ns, m, own, c, q) /\ AtNode(q)
  /\ Exactly(ns, own, 0)
  /\ q.bucket <= LevelOf(c.size)
  /\ \A j \in PathToRoot(q.i) \ {q.i} : j \notin NodesIn(own, q.a)
  /\ \A n \in Node : Bucket(n) = LevelOf(c.size) /\ Begin(n) < x => ~Beside(NodesIn(own, q.a), n)

\* Node n has been found and is marked, up to q.i.
MarkInv(ns, m, own, c, q) ==
  /\ Searching(ns, m, own, c, q)
  /\ Exactly(ns, own, q.a)
  /\ q.bucket = Bucket(q.i) /\ q.i \in ns[q.a]
  /\ \E n \in Node :
       /\ Bucket(n) = LevelOf(c.size) /\ Begin(n) = q.offset
       /\ Beside(NodesIn(own, q.a), n)
       /\ q.i \in PathToRoot(n)
       /\ ns[q.a] \cup PathToRoot(q.i) = Marks(NodesIn(own, q.a)) \cup PathToRoot(n)

\* The old place is to go and is beside what stays.
Leaving(ns, m, own, c, q) ==
  /\ Sound(Len(ns), m, Live(own, c))
  /\ Sits(Len(ns), c.old) /\ Beside(NodesIn(Live(own, c), OldPage(c)), Old(c))
  /\ Exactly(ns, Live(own, c), OldPage(c))
  /\ q.a = OldPage(c) /\ q.bucket = Bucket(q.i) /\ q.i \in PathToRoot(Old(c))

FindInv(ns, m, own, c, q) ==
  /\ Leaving(ns, m, own, c, q) /\ AtNode(q)
  /\ LET E == Marks(NodesIn(Live(own, c), OldPage(c)))
         P == PathToRoot(Old(c)) IN
       \/ c.op = "free" /\ ns[OldPage(c)] = E
       \/ c.op = "free" /\ ns[OldPage(c)] = E \cup P
       \/ Moving(Len(ns), m, own, c) /\ ns[OldPage(c)] = E \cup P

UnmarkInv(ns, m, own, c, q) ==
  /\ Leaving(ns, m, own, c, q)
  /\ LET E == Marks(NodesIn(Live(own, c), OldPage(c))) IN
       /\ E \subseteq ns[OldPage(c)] /\ ns[OldPage(c)] \subseteq E \cup PathToRoot(q.i)
       /\ q.i \notin E

\* The marks lead to q.i, below the old node or above.
Resizing(ns, own, c, q) ==
  /\ Exactly(ns, own, OldPage(c))
  /\ q.a = OldPage(c) /\ q.bucket = Bucket(q.i)
  /\ ns[OldPage(c)] = Marks(NodesIn(own, OldPage(c))) \cup PathToRoot(q.i)

ShrinkInv(ns, m, own, c, q) ==
  /\ Moving(Len(ns), m, own, c) /\ c.current = Width(Old(c))
  /\ Resizing(ns, own, c, q)
  /\ Old(c) \in PathToRoot(q.i) /\ Begin(q.i) = c.old.at[2]
  /\ q.i = Old(c) \/ c.size <= Width(q.i)

ExpandInv(ns, m, own, c, q) ==
  /\ Growing(Len(ns), m, own, c) /\ c.size <= MaximalAllocation
  /\ Resizing(ns, own, c, q)
  /\ q.i \in PathToRoot(Old(c)) /\ q.i \notin Marks(NodesIn(own, OldPage(c)))
  /\ bucket_size(q.bucket + 1) < c.size

Loop(ns, m, own, p, c, q) ==
  \/ p = "idle" /\ IdleInv(ns, own, c)
  \/ p = "try" /\ TryInv(ns, m, own, c, q)
  \/ p = "search" /\ SearchInv(ns, m, own, c, q, q.offset)
  \/ p = "leave" /\ SearchInv(ns, m, own, c, q, q.offset + Width(q.i))
  \/ p = "mark" /\ MarkInv(ns, m, own, c, q)
  \/ p = "find" /\ FindInv(ns, m, own, c, q)
  \/ p = "unmark" /\ UnmarkInv(ns, m, own, c, q)
  \/ p = "shrink" /\ ShrinkInv(ns, m, own, c, q)
  \/ p = "expand" /\ ExpandInv(ns, m, own, c, q)

Good(ns, m, own, p, c, q) ==
  /\ Pages(ns, m)
  /\ c \in Calls(Len(ns)) /\ q \in Cursors
  /\ Sound(Len(ns), m, own)
  /\ Loop(ns, m, own, p, c, q)

Inv == blocks \in Nat /\ Good(nodes, mem, owned, pc, call, cur)

\* The stray allocations are records of allocations; nothing is promised once the
\* client has been misled by one.
Strays(other) == /\ DOMAIN other \subseteq Tag
                 /\ \A g \in DOMAIN other : other[g] \in AnyRecord
IInv == misled \in BOOLEAN /\ (misled \/ (Inv /\ Strays(stray)))

-----------------------------------------------------------------------------
(* Pages *)

LEMMA PagesFacts ==
  ASSUME NEW ns, NEW m, Pages(ns, m)
  PROVE  /\ Len(ns) \in Nat /\ DOMAIN ns = 1 .. Len(ns) /\ Len(m) = Len(ns)
         /\ \A a \in 1 .. Len(ns) : ns[a] \subseteq Node
         /\ m \in Memory(Len(ns))
<1>1. Len(ns) \in Nat /\ DOMAIN ns = 1 .. Len(ns) /\ \A a \in 1 .. Len(ns) : ns[a] \subseteq Node
  BY DEF Pages
<1>2. m \in [1 .. Len(m) -> [Byte -> Tag \cup {NoTag}]] /\ Len(m) = Len(ns)
  BY DEF Pages
<1> QED
  BY <1>1, <1>2 DEF Memory

LEMMA PagesMemory ==
  ASSUME NEW ns, NEW m, Pages(ns, m), NEW new \in Memory(Len(ns))
  PROVE  Pages(ns, new)
<1>1. Len(ns) \in Nat /\ new \in [1 .. Len(ns) -> [Byte -> Tag \cup {NoTag}]]
  BY PagesFacts DEF Memory
<1>2. new \in Seq([Byte -> Tag \cup {NoTag}])
  BY <1>1, SeqDef
<1>3. Len(new) = Len(ns)
  BY <1>1, <1>2, LenProperties
<1> QED
  BY <1>2, <1>3 DEF Pages

\* Bitmap a has become X.
OneChanged(new, ns, a, X) ==
  /\ Len(new) = Len(ns) /\ new[a] = X
  /\ \A b \in 1 .. Len(ns) : b # a => new[b] = ns[b]

LEMMA PagesBitmap ==
  ASSUME NEW ns, NEW m, Pages(ns, m), NEW a \in 1 .. Len(ns), NEW X \in SUBSET Node,
         NEW new, new = [ns EXCEPT ![a] = X]
  PROVE  Pages(new, m) /\ OneChanged(new, ns, a, X)
BY DEF Pages, OneChanged

\* There is a page more, with nothing marked.
OneAdded(more, new, ns, m) ==
  /\ Len(more) = Len(ns) + 1 /\ more[Len(ns) + 1] = {}
  /\ \A b \in 1 .. Len(ns) : more[b] = ns[b] /\ new[b] = m[b]

LEMMA PagesMore ==
  ASSUME NEW ns, NEW m, Pages(ns, m), NEW page \in [Byte -> Tag \cup {NoTag}],
         NEW more, more = Append(ns, {}), NEW new, new = Append(m, page)
  PROVE  Pages(more, new) /\ OneAdded(more, new, ns, m)
<1>1. ns \in Seq(SUBSET Node) /\ m \in Seq([Byte -> Tag \cup {NoTag}]) /\ Len(m) = Len(ns)
  BY DEF Pages
<1>2. {} \in SUBSET Node
  OBVIOUS
<1> QED
  BY <1>1, <1>2, AppendProperties DEF Pages, OneAdded

\* Allocations stay when a page is added.
LEMMA SitsMore ==
  ASSUME NEW k \in Nat
  PROVE  /\ Place(k) \subseteq Place(k + 1) /\ Record(k) \subseteq Record(k + 1)
         /\ Calls(k) \subseteq Calls(k + 1)
         /\ \A o : Sits(k, o) => Sits(k + 1, o)
<1>1. 1 .. k \subseteq 1 .. k + 1
  OBVIOUS
<1>2. Place(k) \subseteq Place(k + 1)
  BY <1>1 DEF Place
<1>3. Record(k) \subseteq Record(k + 1)
  BY <1>2 DEF Record
<1>4. Calls(k) \subseteq Calls(k + 1)
  BY <1>2, <1>3 DEF Calls
<1> QED
  BY <1>1, <1>2, <1>3, <1>4 DEF Sits

LEMMA WrittenMore ==
  ASSUME NEW k \in Nat, NEW m, NEW new, \A b \in 1 .. k : new[b] = m[b],
         NEW at, at[1] \in 1 .. k, NEW n, NEW tag, Written(m, at, n, tag)
  PROVE  Written(new, at, n, tag)
BY DEF Written

LEMMA SoundMore ==
  ASSUME NEW k \in Nat, NEW m, NEW new, \A b \in 1 .. k : new[b] = m[b], NEW own, Sound(k, m, own)
  PROVE  Sound(k + 1, new, own) /\ NodesIn(own, k + 1) = {}
<1>1. ASSUME NEW g \in DOMAIN own
      PROVE  /\ Sits(k + 1, own[g]) /\ own[g].at[1] # k + 1
             /\ Written(new, own[g].at, own[g].filled, g)
  <2>1. Sits(k, own[g]) /\ Written(m, own[g].at, own[g].filled, g) /\ own[g].at[1] \in 1 .. k
    BY DEF Sound, Sits
  <2> QED
    BY <2>1, SitsMore, WrittenMore
<1>2. NodesIn(own, k + 1) = {}
  BY <1>1 DEF NodesIn
<1> QED
  BY <1>1, <1>2 DEF Sound

-----------------------------------------------------------------------------
(* Each step keeps the invariant *)

LEMMA Phases ==
  ASSUME Inv
  PROVE  /\ blocks \in Nat /\ Pages(nodes, mem)
         /\ call \in Calls(Len(nodes)) /\ cur \in Cursors
         /\ Sound(Len(nodes), mem, owned)
         /\ pc = "idle" => IdleInv(nodes, owned, call)
         /\ pc = "try" => TryInv(nodes, mem, owned, call, cur)
         /\ pc = "search" => SearchInv(nodes, mem, owned, call, cur, cur.offset)
         /\ pc = "leave" => SearchInv(nodes, mem, owned, call, cur, cur.offset + Width(cur.i))
         /\ pc = "mark" => MarkInv(nodes, mem, owned, call, cur)
         /\ pc = "find" => FindInv(nodes, mem, owned, call, cur)
         /\ pc = "unmark" => UnmarkInv(nodes, mem, owned, call, cur)
         /\ pc = "shrink" => ShrinkInv(nodes, mem, owned, call, cur)
         /\ pc = "expand" => ExpandInv(nodes, mem, owned, call, cur)
BY DEF Inv, Good, Loop

LEMMA NodeInPage ==
  ASSUME NEW i \in Node
  PROVE  Begin(i) \in Byte
<1> DEFINE x == Begin(i)
           w == Width(i)
<1>1. x \in Nat /\ w \in Nat \ {0} /\ x + w <= MaximalAllocation /\ MaximalAllocation \in Nat
  BY NodeFacts, Constants
<1> HIDE DEF x, w
<1>2. x \in 0 .. MaximalAllocation - 1
  BY <1>1
<1> QED
  BY <1>2 DEF Byte, x

LEMMA RootCursor ==
  ASSUME NEW a \in Nat, NEW as \in {"chain", "fresh", "realloc"}
  PROVE  /\ Root(a, as) \in Cursors /\ AtNode(Root(a, as))
         /\ Root(a, as).a = a /\ Root(a, as).i = 0 /\ Root(a, as).bucket = 0
         /\ Root(a, as).offset = 0 /\ Root(a, as).as = as
<1>1. 0 \in Node /\ 0 \in 0 .. Depth - 1 /\ 0 \in Byte /\ Bucket(0) = 0 /\ Begin(0) = 0
  BY RootFacts, NodeInPage, Constants
<1> QED
  BY <1>1 DEF Root, Cursors, AtNode

\* The call has returned.
LEMMA Returns ==
  ASSUME NEW ns, NEW m, Pages(ns, m), NEW own, NEW other,
         Sound(Len(ns), m, own), Exactly(ns, own, 0)
  PROVE  Good(ns, Held(m, own, other), own, "idle", NoCall, Start)
<1>1. Len(ns) \in Nat /\ m \in Memory(Len(ns))
  BY PagesFacts
<1>2. Held(m, own, other) \in Memory(Len(ns)) /\ Sound(Len(ns), Held(m, own, other), own)
  BY <1>1, Holding
<1>3. Pages(ns, Held(m, own, other))
  BY <1>2, PagesMemory
<1>4. Start \in Cursors
  BY RootCursor DEF Start
<1>5. Nowhere \in Place(Len(ns))
  BY DEF Nowhere, Place
<1>6. NoCall \in Calls(Len(ns))
  BY <1>5 DEF NoCall, Calls, Record, Allocation
<1> QED
  BY <1>2, <1>3, <1>4, <1>6 DEF Good, Loop, IdleInv

\* The old place is about to be looked for and freed.
LEMMA Releases ==
  ASSUME NEW ns, NEW m, Pages(ns, m), NEW own, Sound(Len(ns), m, own), NEW c \in Calls(Len(ns)),
         c.op \in {"free", "realloc"},
         Sound(Len(ns), m, Live(own, c)), Sits(Len(ns), c.old),
         Beside(NodesIn(Live(own, c), OldPage(c)), Old(c)),
         Exactly(ns, Live(own, c), OldPage(c)),
         \/ c.op = "free" /\ ns[OldPage(c)] = Marks(NodesIn(Live(own, c), OldPage(c)))
         \/ /\ c.op = "free" \/ Moving(Len(ns), m, own, c)
            /\ ns[OldPage(c)] = Marks(NodesIn(Live(own, c), OldPage(c))) \cup PathToRoot(Old(c))
  PROVE  Good(ns, m, own, "find", c, Root(c.old.at[1], "chain"))
<1> DEFINE q == Root(c.old.at[1], "chain")
<1>1. Len(ns) \in Nat
  BY PagesFacts
<1>2. OldPage(c) \in Nat /\ Old(c) \in Node
  BY <1>1, SitsFacts DEF OldPage, Old
<1>3. q \in Cursors /\ AtNode(q) /\ q.a = OldPage(c) /\ q.i = 0 /\ q.bucket = Bucket(q.i)
  BY <1>2, RootCursor DEF OldPage, AtNode
<1>4. 0 \in PathToRoot(Old(c))
  BY <1>2, PathBasics
<1> HIDE DEF q
<1>5. Leaving(ns, m, own, c, q)
  BY <1>3, <1>4 DEF Leaving
<1>6. FindInv(ns, m, own, c, q)
  BY <1>3, <1>5 DEF FindInv
<1> QED
  BY <1>3, <1>6 DEF Good, Loop, q

LEMMA MallocKeeps ==
  ASSUME Inv, NEW tag \in Tag, NEW size \in MallocSize, Malloc(tag, size)
  PROVE  Inv'
<1> DEFINE c == [NoCall EXCEPT !.op = "malloc", !.tag = tag, !.size = size]
           q == Root(1, "chain")
<1>1. /\ pc = "idle" /\ tag \notin DOMAIN owned /\ call' = c /\ pc' = "try" /\ cur' = q
      /\ nodes' = nodes /\ blocks' = blocks /\ mem' = mem /\ owned' = owned
  BY DEF Malloc, Goto
<1>2. /\ blocks \in Nat /\ Pages(nodes, mem) /\ Sound(Len(nodes), mem, owned)
      /\ IdleInv(nodes, owned, call) /\ call \in Calls(Len(nodes))
  BY <1>1, Phases
<1>3. size \in 1 .. MaximalAllocation /\ size \in Nat
  BY SizeAssumption, Constants
<1>4. c.op = "malloc" /\ c.tag = tag /\ c.size = size /\ c.to = Nowhere
  BY DEF NoCall
<1>5. c \in Calls(Len(nodes))
  BY <1>2, <1>3 DEF IdleInv, NoCall, Calls
<1>6. q \in Cursors /\ q.a = 1
  BY RootCursor
<1>7. Len(nodes) \in Nat
  BY <1>2, PagesFacts
<1> HIDE DEF c, q
<1>8. Asked(owned, c)
  BY <1>1, <1>3, <1>4 DEF Asked
<1>9. Tried(owned, c, 1)
  BY <1>4 DEF Tried
<1>10. TryInv(nodes, mem, owned, c, q)
  BY <1>2, <1>3, <1>4, <1>6, <1>7, <1>8, <1>9 DEF TryInv, Wanting, IdleInv, q
<1> QED
  BY <1>1, <1>2, <1>5, <1>6, <1>10 DEF Inv, Good, Loop

\* What a free and a reallocation have in common
LEMMA TakesOut ==
  ASSUME Inv, pc = "idle", NEW tag \in DOMAIN owned, NEW c \in Calls(Len(nodes)),
         c.old = owned[tag], c.to = Nowhere,
         \/ c.op = "free"
         \/ c.op = "realloc" /\ c.tag = tag
  PROVE  Good(nodes, mem, NotOwning(tag), "find", c, Root(owned[tag].at[1], "chain"))
<1> DEFINE own == NotOwning(tag)
           k == Len(nodes)
<1>1. own = Without(owned, tag)
  BY DEF NotOwning, Without
<1> HIDE DEF own
<1>2. /\ Pages(nodes, mem) /\ Sound(k, mem, owned) /\ IdleInv(nodes, owned, call)
  BY Phases
<1>3. Exactly(nodes, owned, 0) /\ k \in Nat
  BY <1>2, PagesFacts DEF IdleInv
<1>4. /\ Sound(k, mem, own) /\ DOMAIN own = DOMAIN owned \ {tag}
      /\ Beside(NodesIn(own, OldPage(c)), Old(c))
      /\ NodesIn(owned, OldPage(c)) = NodesIn(own, OldPage(c)) \cup {Old(c)}
      /\ \A a : a # OldPage(c) => NodesIn(own, a) = NodesIn(owned, a)
  <2>1. OldPage(c) = owned[tag].at[1] /\ Old(c) = NodeOf(owned[tag])
    BY DEF OldPage, Old
  <2>2. DOMAIN own = DOMAIN owned \ {tag}
    BY <1>1 DEF Without
  <2>3. Sound(k, mem, own)
    BY <1>1, <1>2, <2>1, Removing
  <2>4. OneMore(owned, own, OldPage(c), Old(c))
    BY <1>1, <1>2, <2>1, Removing
  <2> QED
    BY <2>2, <2>3, <2>4 DEF OneMore
<1>5. Sits(k, c.old) /\ tag \in Tag /\ Written(mem, c.old.at, c.old.filled, tag)
  BY <1>2 DEF Sound
<1>6. OldPage(c) \in 1 .. k /\ c.old.filled \in Nat
  BY <1>3, <1>5, SitsFacts DEF OldPage
<1>7. Exactly(nodes, own, OldPage(c))
  BY <1>3, <1>4 DEF Exactly
<1>8. nodes[OldPage(c)] = Marks(NodesIn(own, OldPage(c))) \cup PathToRoot(Old(c))
  <2>1. OldPage(c) # 0
    BY <1>3, <1>6
  <2> QED
    BY <1>3, <1>4, <1>6, <2>1, MarksOneMore DEF Exactly
<1>9. Live(own, c) = own
  BY DEF Live
<1>10. c.op = "realloc" => Moving(k, mem, own, c)
  <2>1. c.size \in Nat
    BY DEF Calls
  <2>2. Keep(c) \in Nat /\ Keep(c) <= c.old.filled
    BY <1>6, <2>1 DEF Keep
  <2>3. Written(mem, c.old.at, Keep(c), tag)
    BY <1>5, <1>6, <2>2 DEF Written
  <2> QED
    BY <1>4, <1>5, <2>3 DEF Moving
<1> QED
  BY <1>2, <1>4, <1>5, <1>7, <1>8, <1>9, <1>10, Releases DEF own

LEMMA FreeKeeps ==
  ASSUME Inv, NEW tag \in Tag, Free(tag)
  PROVE  Inv'
<1> DEFINE c == [NoCall EXCEPT !.op = "free", !.old = owned[tag]]
<1>1. /\ pc = "idle" /\ tag \in DOMAIN owned /\ call' = c /\ pc' = "find"
      /\ cur' = Root(owned[tag].at[1], "chain") /\ owned' = NotOwning(tag)
      /\ nodes' = nodes /\ blocks' = blocks /\ mem' = mem
  BY DEF Free, Goto
<1>2. blocks \in Nat /\ IdleInv(nodes, owned, call) /\ Sound(Len(nodes), mem, owned)
      /\ call \in Calls(Len(nodes))
  BY <1>1, Phases
<1>3. owned[tag] \in Record(Len(nodes))
  BY <1>1, <1>2 DEF Sound, Sits
<1>4. c \in Calls(Len(nodes)) /\ c.op = "free" /\ c.to = Nowhere /\ c.old = owned[tag]
  BY <1>2, <1>3 DEF IdleInv, NoCall, Calls
<1> HIDE DEF c
<1>5. Good(nodes, mem, NotOwning(tag), "find", c, Root(owned[tag].at[1], "chain"))
  BY <1>1, <1>4, TakesOut
<1> QED
  BY <1>1, <1>2, <1>5 DEF Inv

LEMMA ReallocKeeps ==
  ASSUME Inv, NEW tag \in Tag, NEW size \in ReallocSize, Realloc(tag, size)
  PROVE  Inv'
<1> DEFINE c == [NoCall EXCEPT !.op = "realloc", !.tag = tag, !.size = size, !.old = owned[tag]]
<1>1. /\ pc = "idle" /\ tag \in DOMAIN owned /\ call' = c /\ pc' = "find"
      /\ cur' = Root(owned[tag].at[1], "chain") /\ owned' = NotOwning(tag)
      /\ nodes' = nodes /\ blocks' = blocks /\ mem' = mem
  BY DEF Realloc, Goto
<1>2. blocks \in Nat /\ IdleInv(nodes, owned, call) /\ Sound(Len(nodes), mem, owned)
      /\ call \in Calls(Len(nodes))
  BY <1>1, Phases
<1>3. owned[tag] \in Record(Len(nodes)) /\ size \in Nat
  BY <1>1, <1>2, SizeAssumption DEF Sound, Sits
<1>4. c \in Calls(Len(nodes)) /\ c.op = "realloc" /\ c.to = Nowhere /\ c.old = owned[tag] /\ c.tag = tag
  BY <1>2, <1>3 DEF IdleInv, NoCall, Calls
<1> HIDE DEF c
<1>5. Good(nodes, mem, NotOwning(tag), "find", c, Root(owned[tag].at[1], "chain"))
  BY <1>1, <1>4, TakesOut
<1> QED
  BY <1>1, <1>2, <1>5 DEF Inv

\* An allocation gets its place.
LEMMA Places ==
  ASSUME NEW ns, NEW m, Pages(ns, m), NEW k, k = Len(ns), NEW own, Sound(k, m, own),
         NEW tag \in Tag \ DOMAIN own, NEW n \in Node, NEW a \in 1 .. k,
         NEW size \in 0 .. MaximalAllocation, NEW filled \in 0 .. size, Bucket(n) = LevelOf(size),
         Beside(NodesIn(own, a), n),
         Exactly(ns, own, a), ns[a] = Marks(NodesIn(own, a)) \cup PathToRoot(n),
         NEW m1 \in Memory(k), Elsewhere(k, m, m1, a, n),
         Written(m1, <<a, Begin(n)>>, filled, tag),
         NEW new, new = With(own, tag, Allocation(<<a, Begin(n)>>, size, filled))
  PROVE  /\ Pages(ns, m1) /\ Sound(k, m1, own) /\ Sound(k, m1, new)
         /\ Exactly(ns, new, 0) /\ OneMore(new, own, a, n)
<1> DEFINE o == Allocation(<<a, Begin(n)>>, size, filled)
<1>1. k \in Nat
  BY PagesFacts
<1>2. Pages(ns, m1)
  BY PagesMemory
<1>3. Sound(k, m1, own)
  BY <1>1, WritingBeside
<1>4. Sits(k, o) /\ NodeOf(o) = n /\ o.at = <<a, Begin(n)>> /\ o.filled = filled /\ o.at[1] = a
  BY <1>1, SitsOn DEF Allocation
<1> HIDE DEF o
<1>5. new = With(own, tag, o)
  BY DEF o
<1>6. Sound(k, m1, new)
  BY <1>3, <1>4, <1>5, Adding
<1>7. OneMore(new, own, a, n)
  BY <1>3, <1>4, <1>5, Adding
<1>8. Exactly(ns, new, 0)
  <2>1. SUFFICES ASSUME NEW b \in 1 .. Len(ns) PROVE ns[b] = Marks(NodesIn(new, b))
    BY DEF Exactly
  <2>2. CASE b = a
    <3>1. NodesIn(new, a) = NodesIn(own, a) \cup {n}
      BY <1>7 DEF OneMore
    <3>2. Marks(NodesIn(own, a) \cup {n}) = Marks(NodesIn(own, a)) \cup PathToRoot(n)
      BY MarksOneMore
    <3> QED
      BY <2>2, <3>1, <3>2
  <2>3. CASE b # a
    <3>1. NodesIn(new, b) = NodesIn(own, b)
      BY <1>7, <2>3 DEF OneMore
    <3> QED
      BY <2>3, <3>1 DEF Exactly
  <2> QED
    BY <2>2, <2>3
<1> QED
  BY <1>2, <1>3, <1>6, <1>7, <1>8

\* A memory in which nothing changed
LEMMA NothingMoves ==
  ASSUME NEW k, NEW m, NEW a, NEW n
  PROVE  Elsewhere(k, m, m, a, n)
BY DEF Elsewhere

\* The bytes move out of the component, or the direct allocator is refused.
LEMMA MovesOut ==
  ASSUME NEW ns, NEW m, Pages(ns, m), call \in Calls(Len(ns)),
         Sound(Len(ns), m, owned), Growing(Len(ns), m, owned, call),
         \/ call.size <= MaximalAllocation /\ Exactly(ns, owned, 0)
         \/ /\ call.size > MaximalAllocation /\ Exactly(ns, owned, OldPage(call))
            /\ ns[OldPage(call)] = Marks(NodesIn(owned, OldPage(call))) \cup PathToRoot(Old(call)),
         MoveOut(m)
  PROVE  Good(ns, mem', owned', pc', call', cur')
<1> DEFINE k == Len(ns)
           old == call.old
<1>1. /\ Sits(k, old) /\ Beside(NodesIn(owned, OldPage(call)), Old(call))
      /\ call.op = "realloc" /\ call.tag \in Tag \ DOMAIN owned
      /\ Written(m, old.at, Keep(call), call.tag)
  BY DEF Growing, Moving
<1>2. k \in Nat /\ m \in Memory(k)
  BY PagesFacts
<1>3. OldPage(call) \in 1 .. k /\ OldPage(call) # 0
  BY <1>1, <1>2, SitsFacts DEF OldPage
<1>4. CASE Release(Nowhere) /\ mem' = m /\ owned' = owned
  <2> DEFINE c == [call EXCEPT !.op = "free", !.to = Nowhere]
  <2>1. /\ call' = c /\ pc' = "find" /\ cur' = Root(call.old.at[1], "chain")
        /\ mem' = m /\ owned' = owned
    BY <1>4 DEF Release, Goto
  <2>2. Nowhere \in Place(k)
    BY DEF Nowhere, Place
  <2>3. c \in Calls(k) /\ c.op = "free" /\ c.to = Nowhere /\ c.old = call.old
    BY <2>2 DEF Calls
  <2> HIDE DEF c
  <2>4. Live(owned, c) = owned /\ OldPage(c) = OldPage(call) /\ Old(c) = Old(call)
    BY <2>3 DEF Live, OldPage, Old
  <2>5. /\ Exactly(ns, owned, OldPage(call))
        /\ \/ ns[OldPage(call)] = Marks(NodesIn(owned, OldPage(call)))
           \/ ns[OldPage(call)] = Marks(NodesIn(owned, OldPage(call))) \cup PathToRoot(Old(call))
    BY <1>3 DEF Exactly
  <2>6. Good(ns, m, owned, "find", c, Root(c.old.at[1], "chain"))
    BY <1>1, <2>3, <2>4, <2>5, Releases
  <2> QED
    BY <2>1, <2>3, <2>6
<1>5. CASE call.size <= MaximalAllocation /\ Return(owned, m)
  <2>1. Exactly(ns, owned, 0)
    <3>1. ~(call.size > MaximalAllocation)
      BY <1>5, Constants DEF Calls
    <3> QED
      BY <3>1
  <2> QED
    BY <1>5, <2>1, Returns DEF Return
<1>6. CASE call.size > MaximalAllocation /\ Return(Owning(call.tag, old.at, old.size, old.filled), m)
  <2> DEFINE own == Owning(call.tag, old.at, old.size, old.filled)
             n == Old(call)
             a == OldPage(call)
  <2>1. /\ n \in Node /\ Begin(n) = old.at[2] /\ old.at = <<a, Begin(n)>> /\ a \in 1 .. k
        /\ Bucket(n) = LevelOf(old.size)
        /\ old.size \in 0 .. MaximalAllocation /\ old.filled \in 0 .. old.size
    BY <1>1, <1>2, SitsFacts DEF Old, OldPage, Sits
  <2>2. /\ Exactly(ns, owned, a) /\ ns[a] = Marks(NodesIn(owned, a)) \cup PathToRoot(n)
    <3>1. ~(call.size <= MaximalAllocation)
      BY <1>6, Constants DEF Calls
    <3> QED
      BY <3>1
  <2>3. Written(m, <<a, Begin(n)>>, old.filled, call.tag)
    <3>1. /\ call.size \in Nat /\ old.filled \in Nat /\ old.filled < call.size
      BY <1>6, <2>1, Constants DEF Calls
    <3>2. Keep(call) = old.filled
      BY <3>1 DEF Keep
    <3> QED
      BY <1>1, <2>1, <3>2
  <2>4. own = With(owned, call.tag, Allocation(<<a, Begin(n)>>, old.size, old.filled))
    BY <2>1 DEF Owning, With
  <2> HIDE DEF own, n, a
  <2>5. Sound(k, m, own)
    BY <1>1, <1>2, <2>1, <2>2, <2>3, <2>4, NothingMoves, Places DEF n, a
  <2>6. Exactly(ns, own, 0)
    BY <1>1, <1>2, <2>1, <2>2, <2>3, <2>4, NothingMoves, Places DEF n, a
  <2> QED
    BY <1>6, <2>5, <2>6, Returns DEF Return, own
<1> QED
  BY <1>4, <1>5, <1>6 DEF MoveOut, Refused

\* A chain that is exhausted: what a call does when it gets NULL
LEMMA Fails ==
  ASSUME NEW ns, NEW m, Pages(ns, m), call \in Calls(Len(ns)),
         Sound(Len(ns), m, owned), Wanting(Len(ns), m, owned, call),
         \/ call.size <= MaximalAllocation /\ Exactly(ns, owned, 0)
         \/ /\ call.op = "realloc"
            /\ call.size > MaximalAllocation /\ Exactly(ns, owned, OldPage(call))
            /\ ns[OldPage(call)] = Marks(NodesIn(owned, OldPage(call))) \cup PathToRoot(Old(call)),
         Fail(m)
  PROVE  Good(ns, mem', owned', pc', call', cur')
<1>1. CASE call.op = "malloc"
  <2>1. /\ owned' = owned /\ mem' = Held(m, owned, stray') /\ pc' = "idle" /\ call' = NoCall
        /\ cur' = Start
    BY <1>1 DEF Fail, Return
  <2> QED
    BY <1>1, <2>1, Returns
<1>2. CASE call.op = "realloc"
  <2>1. MoveOut(m)
    BY <1>2 DEF Fail
  <2>2. Growing(Len(ns), m, owned, call)
    BY <1>2 DEF Wanting, Asked
  <2> QED
    BY <1>2, <2>1, <2>2, MovesOut
<1> QED
  BY <1>1, <1>2 DEF Wanting, Asked, Growing, Moving

\* A search begins at the root.
LEMMA RootSearch ==
  ASSUME NEW ns, NEW m, NEW own, NEW c, c.size \in Nat, NEW q \in Cursors,
         NEW a \in Nat, NEW as \in {"chain", "fresh", "realloc"}, q = Root(a, as),
         Searching(ns, m, own, c, q), Exactly(ns, own, 0)
  PROVE  SearchInv(ns, m, own, c, q, q.offset)
<1>1. AtNode(q) /\ q.i = 0 /\ q.bucket = 0 /\ q.offset = 0
  BY RootCursor
<1>2. c.size \in 0 .. MaximalAllocation
  BY Constants DEF Searching
<1>3. LevelOf(c.size) \in 0 .. Depth - 1 /\ PathToRoot(0) = {0}
  BY <1>2, LevelFits, PathStep
<1>4. q.bucket <= LevelOf(c.size)
  BY <1>1, <1>3, Constants
<1>5. \A n \in Node : ~(Begin(n) < 0)
  BY NodeFacts
<1> QED
  BY <1>1, <1>3, <1>4, <1>5 DEF SearchInv

LEMMA TryKeeps ==
  ASSUME Inv, Try
  PROVE  Inv'
<1>1. /\ pc = "try" /\ cur.a <= Len(nodes)
      /\ nodes' = nodes /\ blocks' = blocks /\ mem' = mem /\ owned' = owned /\ call' = call
  BY DEF Try
<1>2. /\ blocks \in Nat /\ Pages(nodes, mem) /\ Sound(Len(nodes), mem, owned)
      /\ call \in Calls(Len(nodes)) /\ cur \in Cursors
      /\ TryInv(nodes, mem, owned, call, cur)
  BY <1>1, Phases
<1>3. Len(nodes) \in Nat /\ cur.a \in 1 .. Len(nodes) /\ call.size \in Nat /\ MaximalAllocation \in Nat
      /\ cur = Root(cur.a, "chain") /\ Wanting(Len(nodes), mem, owned, call)
  BY <1>1, <1>2, PagesFacts, Constants DEF TryInv, Calls
<1>4. CASE call.size > MaximalAllocation
  <2> DEFINE q == Root(cur.a + 1, "chain")
  <2>1. pc' = "try" /\ cur' = q
    BY <1>4 DEF Try, Goto
  <2>2. q \in Cursors /\ q.a = cur.a + 1
    BY <1>3, RootCursor
  <2>3. TryInv(nodes, mem, owned, call, q)
    BY <1>2, <1>3, <1>4, <2>2 DEF TryInv
  <2> HIDE DEF q
  <2> QED
    BY <1>1, <1>2, <2>1, <2>2, <2>3 DEF Inv, Good, Loop
<1>5. CASE ~(call.size > MaximalAllocation)
  <2>1. pc' = "search" /\ cur' = cur
    BY <1>5 DEF Try, Goto
  <2>2. Exactly(nodes, owned, 0) /\ Tried(owned, call, cur.a) /\ call.size <= MaximalAllocation
    BY <1>2, <1>3, <1>5 DEF TryInv
  <2>3. AtNode(cur) /\ cur.i = 0 /\ cur.bucket = 0 /\ cur.offset = 0 /\ cur.as = "chain"
    BY <1>3, RootCursor
  <2>4. Searching(nodes, mem, owned, call, cur)
    BY <1>3, <2>2, <2>3 DEF Searching
  <2>5. SearchInv(nodes, mem, owned, call, cur, cur.offset)
    BY <1>2, <1>3, <2>2, <2>4, RootSearch
  <2> QED
    BY <1>1, <1>2, <2>1, <2>5 DEF Inv, Good, Loop
<1> QED
  BY <1>4, <1>5

\* What TryInv gives when the chain is exhausted
LEMMA TryFails ==
  ASSUME NEW ns, NEW m, NEW own, NEW c, NEW q, TryInv(ns, m, own, c, q)
  PROVE  \/ c.size <= MaximalAllocation /\ Exactly(ns, own, 0)
         \/ /\ c.op = "realloc"
            /\ c.size > MaximalAllocation /\ Exactly(ns, own, OldPage(c))
            /\ ns[OldPage(c)] = Marks(NodesIn(own, OldPage(c))) \cup PathToRoot(Old(c))
BY DEF TryInv

LEMMA NewBlockKeeps ==
  ASSUME Inv, NewBlock
  PROVE  Inv'
<1>1. pc = "try" /\ nodes' = nodes
  BY DEF NewBlock
<1>2. /\ blocks \in Nat /\ Pages(nodes, mem) /\ Sound(Len(nodes), mem, owned)
      /\ call \in Calls(Len(nodes)) /\ cur \in Cursors
      /\ TryInv(nodes, mem, owned, call, cur)
  BY <1>1, Phases
<1>3. CASE blocks' = blocks + 1 /\ mem' = mem /\ owned' = owned /\ pc' = pc /\ call' = call /\ cur' = cur
  BY <1>1, <1>2, <1>3 DEF Inv, Good, Loop
<1>4. CASE Fail(mem) /\ blocks' = blocks
  <2>1. Fail(mem) /\ blocks' = blocks
    BY <1>4
  <2>2. Wanting(Len(nodes), mem, owned, call) /\ Len(nodes) \in Nat
    BY <1>2, PagesFacts DEF TryInv
  <2>3. Good(nodes, mem', owned', pc', call', cur')
    BY <1>2, <2>1, <2>2, TryFails, Fails
  <2> QED
    BY <1>1, <1>2, <2>1, <2>3 DEF Inv
<1> QED
  BY <1>3, <1>4 DEF NewBlock

LEMMA WantingMore ==
  ASSUME NEW k \in Nat, NEW m, NEW new, \A b \in 1 .. k : new[b] = m[b],
         NEW own, NEW c, Wanting(k, m, own, c)
  PROVE  Wanting(k + 1, new, own, c)
<1>1. CASE Asked(own, c)
  BY <1>1 DEF Wanting
<1>2. CASE Growing(k, m, own, c)
  <2>1. Sits(k, c.old) /\ Written(m, c.old.at, Keep(c), c.tag) /\ c.old.at[1] \in 1 .. k
    BY <1>2 DEF Growing, Moving, Sits
  <2>2. Sits(k + 1, c.old) /\ Written(new, c.old.at, Keep(c), c.tag)
    BY <2>1, SitsMore, WrittenMore
  <2> QED
    BY <1>2, <2>2 DEF Wanting, Growing, Moving
<1> QED
  BY <1>1, <1>2 DEF Wanting

LEMMA NewPageKeeps ==
  ASSUME Inv, NewPage
  PROVE  Inv'
<1> DEFINE k == Len(nodes)
           more == Append(nodes, {})
           zero == [x \in Byte |-> NoTag]
           zeroed == Append(mem, zero)
           q == Root(cur.a, "fresh")
<1>1. pc = "try" /\ cur.a > k /\ blocks' = blocks
  BY DEF NewPage
<1>2. /\ blocks \in Nat /\ Pages(nodes, mem) /\ Sound(k, mem, owned)
      /\ call \in Calls(k) /\ cur \in Cursors
      /\ TryInv(nodes, mem, owned, call, cur)
  BY <1>1, Phases
<1>3. k \in Nat /\ cur.a = k + 1 /\ call.size \in Nat /\ Wanting(k, mem, owned, call)
      /\ MaximalAllocation \in Nat
  BY <1>1, <1>2, PagesFacts, Constants DEF TryInv, Calls
<1>4. zero \in [Byte -> Tag \cup {NoTag}]
  OBVIOUS
<1>5. /\ Pages(more, zeroed) /\ Len(more) = k + 1 /\ more[k + 1] = {}
      /\ \A b \in 1 .. k : more[b] = nodes[b] /\ zeroed[b] = mem[b]
  <2> HIDE DEF zero
  <2>1. more = Append(nodes, {}) /\ zeroed = Append(mem, zero)
    OBVIOUS
  <2> HIDE DEF more, zeroed
  <2>2. Pages(more, zeroed)
    BY <1>2, <1>4, <2>1, PagesMore
  <2>3. OneAdded(more, zeroed, nodes, mem)
    BY <1>2, <1>4, <2>1, PagesMore
  <2> QED
    BY <2>2, <2>3 DEF OneAdded
<1> HIDE DEF more, zeroed
<1>6. /\ Sound(k + 1, zeroed, owned) /\ NodesIn(owned, k + 1) = {}
      /\ Wanting(k + 1, zeroed, owned, call) /\ call \in Calls(k + 1)
  BY <1>2, <1>3, <1>5, SoundMore, WantingMore, SitsMore
<1>7. \A e \in 0 .. k : Exactly(nodes, owned, e) => Exactly(more, owned, e)
  <2>1. \A a \in 1 .. k + 1 : a \in 1 .. k \/ a = k + 1
    BY <1>3
  <2>2. Marks({}) = {}
    BY DEF Marks
  <2> QED
    BY <1>5, <1>6, <2>1, <2>2 DEF Exactly
<1>8. CASE /\ call.size <= MaximalAllocation /\ nodes' = more /\ mem' = zeroed
            /\ pc' = "search" /\ cur' = q /\ owned' = owned /\ call' = call
  <2>1. /\ nodes' = more /\ mem' = zeroed /\ pc' = "search" /\ cur' = q
        /\ owned' = owned /\ call' = call
    BY <1>8
  <2>2. q \in Cursors /\ q.a = k + 1 /\ q.as = "fresh"
    BY <1>3, RootCursor
  <2>3. Exactly(more, owned, 0) /\ Tried(owned, call, k + 1)
    BY <1>2, <1>3, <1>7, <1>8 DEF TryInv
  <2>4. Searching(more, zeroed, owned, call, q)
    BY <1>3, <1>5, <1>6, <1>8, <2>2, <2>3 DEF Searching
  <2>5. SearchInv(more, zeroed, owned, call, q, q.offset)
    <3>1. cur.a \in Nat
      BY <1>3
    <3> QED
      BY <1>3, <2>2, <2>3, <2>4, <3>1, RootSearch
  <2> HIDE DEF q
  <2> QED
    BY <1>1, <1>2, <1>5, <1>6, <2>1, <2>2, <2>5 DEF Inv, Good, Loop
<1>9. CASE call.size > MaximalAllocation /\ nodes' = more /\ Fail(zeroed)
  <2>1. nodes' = more /\ Fail(zeroed)
    BY <1>9
  <2>2. /\ call.op = "realloc" /\ Exactly(nodes, owned, OldPage(call))
        /\ nodes[OldPage(call)] = Marks(NodesIn(owned, OldPage(call))) \cup PathToRoot(Old(call))
        /\ OldPage(call) \in 1 .. k
    <3>1. /\ call.op = "realloc" /\ Exactly(nodes, owned, OldPage(call))
          /\ nodes[OldPage(call)] = Marks(NodesIn(owned, OldPage(call))) \cup PathToRoot(Old(call))
      BY <1>2, <1>3, <1>9 DEF TryInv
    <3>2. Sits(k, call.old)
      BY <1>3, <3>1 DEF Wanting, Asked, Growing, Moving
    <3> QED
      BY <1>3, <3>1, <3>2, SitsFacts DEF OldPage
  <2>3. /\ Exactly(more, owned, OldPage(call))
        /\ more[OldPage(call)] = Marks(NodesIn(owned, OldPage(call))) \cup PathToRoot(Old(call))
    BY <1>3, <1>5, <1>7, <2>2
  <2>4. Good(more, mem', owned', pc', call', cur')
    BY <1>5, <1>6, <1>9, <2>1, <2>2, <2>3, Fails
  <2> QED
    BY <1>1, <1>2, <2>1, <2>4 DEF Inv
<1>10. CASE nodes' = nodes /\ Fail(mem)
  <2>1. nodes' = nodes /\ Fail(mem)
    BY <1>10
  <2>2. Good(nodes, mem', owned', pc', call', cur')
    BY <1>2, <1>3, <2>1, TryFails, Fails
  <2> QED
    BY <1>1, <1>2, <2>1, <2>2 DEF Inv
<1> QED
  BY <1>8, <1>9, <1>10 DEF NewPage, Goto, more, zeroed

\* The size of what is looked for, and its level
LEMMA WantedSize ==
  ASSUME NEW k \in Nat, NEW m, NEW own, NEW c \in Calls(k), Wanting(k, m, own, c),
         c.size <= MaximalAllocation
  PROVE  c.size \in 1 .. MaximalAllocation /\ LevelOf(c.size) \in 0 .. Depth - 1
<1>1. c.size \in Nat /\ MaximalAllocation \in Nat
  BY Constants DEF Calls
<1>2. CASE Asked(own, c)
  BY <1>1, <1>2, LevelFits DEF Asked
<1>3. CASE Growing(k, m, own, c)
  <2>1. Sits(k, c.old) /\ c.size > Width(Old(c))
    BY <1>3 DEF Growing, Moving
  <2>2. Old(c) \in Node
    BY <2>1 DEF Sits, Old
  <2>3. Width(Old(c)) \in Nat
    BY <2>2, NodeFacts
  <2>4. c.size \in 1 .. MaximalAllocation
    BY <1>1, <2>1, <2>3
  <2>5. c.size \in 0 .. MaximalAllocation
    BY <2>4
  <2> QED
    BY <2>4, <2>5, LevelFits
<1> QED
  BY <1>2, <1>3 DEF Wanting

LEMMA SearchKeeps ==
  ASSUME Inv, Search
  PROVE  Inv'
<1> DEFINE k == Len(nodes)
           N == NodesIn(owned, cur.a)
           i == cur.i
           b == cur.bucket
<1>1. /\ pc = "search"
      /\ blocks' = blocks /\ mem' = mem /\ owned' = owned /\ call' = call
  BY DEF Search
<1>2. /\ blocks \in Nat /\ Pages(nodes, mem) /\ Sound(k, mem, owned)
      /\ call \in Calls(k) /\ cur \in Cursors
      /\ SearchInv(nodes, mem, owned, call, cur, cur.offset)
  BY <1>1, Phases
<1>3. /\ Searching(nodes, mem, owned, call, cur) /\ b = Bucket(i) /\ cur.offset = Begin(i)
      /\ Exactly(nodes, owned, 0) /\ b <= LevelOf(call.size)
      /\ \A j \in PathToRoot(i) \ {i} : j \notin N
      /\ \A n \in Node : Bucket(n) = LevelOf(call.size) /\ Begin(n) < Begin(i) => ~Beside(N, n)
  BY <1>2 DEF SearchInv, AtNode
<1>4. /\ k \in Nat /\ i \in Node /\ b \in 0 .. Depth - 1 /\ cur.a \in 1 .. k
      /\ Wanting(k, mem, owned, call) /\ call.size <= MaximalAllocation
  BY <1>2, <1>3, PagesFacts DEF Cursors, Searching
<1>5. call.size \in 1 .. MaximalAllocation /\ LevelOf(call.size) \in 0 .. Depth - 1
  BY <1>2, <1>4, WantedSize
<1>6. Scattered(N) /\ marked = Marks(N)
  <2>1. cur.a # 0
    BY <1>4
  <2> QED
    BY <1>2, <1>3, <1>4, <2>1, NodesApart DEF Exactly, marked
<1>7. /\ call.size <= bucket_size(b + 1) => b < Depth - 1 /\ b + 1 <= LevelOf(call.size)
      /\ call.size > bucket_size(b + 1) => b = LevelOf(call.size)
  BY <1>3, <1>4, <1>5, LevelBelow
<1> HIDE DEF N, i, b
<1>8. CASE Occupied
  <2>1. pc' = "leave" /\ cur' = cur /\ nodes' = nodes
    BY <1>8 DEF Search, Goto
  <2>2. ASSUME NEW n \in Node, Bucket(n) = LevelOf(call.size), Begin(n) < Begin(i) + Width(i)
        PROVE  ~Beside(N, n)
    <3>1. i \in Marks(N) /\ (call.size > bucket_size(b + 1) \/ ~is_split(Marks(N), i, b))
      BY <1>6, <1>8 DEF Occupied, i, b
    <3>2. CASE Begin(n) < Begin(i)
      BY <1>3, <2>2, <3>2
    <3>3. CASE Begin(i) <= Begin(n)
      <4>1. Bucket(i) = Bucket(n) \/ ~is_split(Marks(N), i, Bucket(i))
        BY <1>3, <1>7, <2>2, <3>1
      <4>2. Bucket(i) <= Bucket(n)
        BY <1>3, <2>2
      <4> QED
        BY <1>4, <1>6, <2>2, <3>1, <3>3, <4>1, <4>2, LeavesFull
    <3>4. Begin(i) \in Nat /\ Begin(n) \in Nat
      BY <1>4, NodeFacts
    <3> QED
      BY <3>2, <3>3, <3>4
  <2>3. SearchInv(nodes, mem, owned, call, cur, cur.offset + Width(cur.i))
    BY <1>2, <1>3, <2>2 DEF SearchInv, i, N
  <2> QED
    BY <1>1, <1>2, <2>1, <2>3 DEF Inv, Good, Loop
<1>9. CASE ~Occupied /\ call.size <= bucket_size(b + 1)
  <2> DEFINE q == [cur EXCEPT !.i = left(i), !.bucket = b + 1]
  <2>1. pc' = "search" /\ nodes' = nodes /\ cur' = q
    <3>1. bucket_size(b + 1) \in Nat /\ call.size \in Nat
      <4>1. b + 1 \in 0 .. Depth /\ b < b + 1
        BY <1>4, Constants
      <4> QED
        BY <1>4, <1>5, <4>1, SizesFall, Constants
    <3> QED
      BY <1>9, <3>1 DEF Search, Goto, i, b
  <2>2. /\ left(i) \in Node /\ Bucket(left(i)) = b + 1 /\ Begin(left(i)) = Begin(i)
        /\ left(i) # 0 /\ parent(left(i)) = i
    <3>1. i \in Nat /\ left(i) > i /\ parent(left(i)) = i
      BY <1>4, NodesAreNumbers, Arithmetic
    <3> QED
      BY <1>3, <1>4, <1>7, <1>9, <3>1, Children
  <2>3. i \notin N
    BY <1>4, <1>6, <1>9, Descends DEF Occupied, i, b
  <2>4. PathToRoot(left(i)) = {left(i)} \cup PathToRoot(i)
    BY <2>2, PathStep
  <2>5. /\ q \in Cursors /\ q.i = left(i) /\ q.bucket = b + 1 /\ q.offset = cur.offset
        /\ q.a = cur.a /\ q.as = cur.as
    <3>1. b + 1 \in 0 .. Depth - 1
      BY <1>4, <1>7, <1>9, Constants
    <3> QED
      BY <1>2, <2>2, <3>1 DEF Cursors
  <2> HIDE DEF q
  <2>6. Searching(nodes, mem, owned, call, q)
    BY <1>3, <2>5 DEF Searching
  <2>7. SearchInv(nodes, mem, owned, call, q, q.offset)
    BY <1>3, <1>7, <1>9, <2>2, <2>3, <2>4, <2>5, <2>6 DEF SearchInv, AtNode, N
  <2> QED
    BY <1>1, <1>2, <2>1, <2>5, <2>7 DEF Inv, Good, Loop
<1>10. CASE ~Occupied /\ call.size > bucket_size(b + 1)
  <2> DEFINE X == nodes[cur.a] \cup {i}
             ns == [nodes EXCEPT ![cur.a] = X]
  <2>1. pc' = "mark" /\ cur' = cur /\ nodes' = ns
    <3>1. bucket_size(b + 1) \in Nat /\ call.size \in Nat
      <4>1. b + 1 \in 0 .. Depth /\ b < b + 1
        BY <1>4, Constants
      <4> QED
        BY <1>4, <1>5, <4>1, SizesFall, Constants
    <3> QED
      BY <1>10, <3>1 DEF Search, Goto, Mark, i, b
  <2>2. i \notin Marks(N) /\ b = LevelOf(call.size)
    BY <1>6, <1>7, <1>10 DEF Occupied, i, b
  <2>3. Beside(N, i)
    BY <1>3, <1>4, <1>6, <2>2, FoundFree
  <2>4. nodes[cur.a] \subseteq Node
    BY <1>2, <1>4, PagesFacts
  <2>5. X \in SUBSET Node /\ X = Marks(N) \cup {i}
    BY <1>4, <1>6, <2>4 DEF marked
  <2>6. /\ Pages(ns, mem) /\ Len(ns) = k /\ ns[cur.a] = X
        /\ \A a \in 1 .. k : a # cur.a => ns[a] = nodes[a]
    <3>1. ns = [nodes EXCEPT ![cur.a] = X]
      OBVIOUS
    <3> HIDE DEF ns, X
    <3>2. Pages(ns, mem)
      BY <1>2, <1>4, <2>5, <3>1, PagesBitmap
    <3>3. OneChanged(ns, nodes, cur.a, X)
      BY <1>2, <1>4, <2>5, <3>1, PagesBitmap
    <3> QED
      BY <3>2, <3>3 DEF OneChanged
  <2> HIDE DEF ns
  <2>7. Searching(ns, mem, owned, call, cur)
    BY <1>3, <2>6 DEF Searching
  <2>8. Exactly(ns, owned, cur.a)
    BY <1>3, <1>4, <2>6 DEF Exactly
  <2>9. i \in PathToRoot(i)
    BY <1>4, PathBasics
  <2>10. ns[cur.a] \cup PathToRoot(i) = Marks(N) \cup PathToRoot(i)
    BY <2>5, <2>6, <2>9
  <2>11. MarkInv(ns, mem, owned, call, cur)
    BY <1>3, <1>4, <2>2, <2>3, <2>5, <2>6, <2>7, <2>8, <2>9, <2>10 DEF MarkInv, i, b, N
  <2> QED
    BY <1>1, <1>2, <2>1, <2>6, <2>11 DEF Inv, Good, Loop
<1>11. call.size <= bucket_size(b + 1) \/ call.size > bucket_size(b + 1)
  <2>1. b + 1 \in 0 .. Depth /\ b < b + 1
    BY <1>4, Constants
  <2>2. bucket_size(b + 1) \in Nat /\ call.size \in Nat
    BY <1>4, <1>5, <2>1, SizesFall, Constants
  <2> QED
    BY <2>2
<1> QED
  BY <1>8, <1>9, <1>10, <1>11

LEMMA LeaveKeeps ==
  ASSUME Inv, Leave
  PROVE  Inv'
<1> DEFINE k == Len(nodes)
           N == NodesIn(owned, cur.a)
           i == cur.i
           b == cur.bucket
<1>1. pc = "leave" /\ nodes' = nodes /\ blocks' = blocks
  BY DEF Leave
<1>2. /\ blocks \in Nat /\ Pages(nodes, mem) /\ Sound(k, mem, owned)
      /\ call \in Calls(k) /\ cur \in Cursors
      /\ SearchInv(nodes, mem, owned, call, cur, cur.offset + Width(cur.i))
  BY <1>1, Phases
<1>3. /\ Searching(nodes, mem, owned, call, cur) /\ b = Bucket(i) /\ cur.offset = Begin(i)
      /\ Exactly(nodes, owned, 0) /\ b <= LevelOf(call.size)
      /\ \A j \in PathToRoot(i) \ {i} : j \notin N
      /\ \A n \in Node : Bucket(n) = LevelOf(call.size) /\ Begin(n) < Begin(i) + Width(i)
           => ~Beside(N, n)
  BY <1>2 DEF SearchInv, AtNode
<1>4. /\ k \in Nat /\ i \in Node /\ b \in 0 .. Depth - 1 /\ cur.a \in 1 .. k
      /\ Wanting(k, mem, owned, call) /\ call.size <= MaximalAllocation
      /\ cur.as \in {"chain", "fresh", "realloc"}
  BY <1>2, <1>3, PagesFacts DEF Cursors, Searching
<1>5. LevelOf(call.size) \in 0 .. Depth - 1
  BY <1>2, <1>4, WantedSize
<1>6. Begin(i) \in Nat /\ Width(i) \in Nat /\ Width(i) = bucket_size(b)
  BY <1>3, <1>4, NodeFacts DEF Width
<1> HIDE DEF N, i, b
<1>7. CASE ~is_left(i)
  <2> DEFINE p == parent(i)
             q == [Up EXCEPT !.offset = @ - bucket_size(b)]
  <2>1. pc' = "leave" /\ cur' = q /\ mem' = mem /\ owned' = owned /\ call' = call
    <3>1. i # 0
      BY <1>7, RootFacts
    <3> QED
      BY <1>7, <3>1 DEF Leave, NextAllocator, Goto, i, b
  <2>2. i # 0
    BY <1>7, RootFacts
  <2>3. /\ p \in Node /\ Bucket(p) = b - 1 /\ b > 0
        /\ Width(p) = 2 * Width(i) /\ Begin(i) = Begin(p) + Width(i)
        /\ p \in PathToRoot(i) /\ i \notin PathToRoot(p) /\ PathToRoot(i) = {i} \cup PathToRoot(p)
    BY <1>3, <1>4, <1>7, <2>2, Parents, Siblings, SiblingPath, PathStep
  <2> HIDE DEF p
  <2>4. Begin(p) \in Nat /\ Begin(p) \in Byte
    BY <2>3, NodeFacts, NodeInPage
  <2>5. Begin(i) - bucket_size(b) = Begin(p) /\ Begin(p) + Width(p) = Begin(i) + Width(i)
    BY <1>6, <2>3, <2>4
  <2>6. b - 1 \in 0 .. Depth - 1 /\ b - 1 <= LevelOf(call.size)
    BY <1>3, <1>4, <1>5, <2>3, Constants
  <2>7. /\ q \in Cursors /\ q.a = cur.a /\ q.as = cur.as /\ q.i = p /\ q.bucket = b - 1
        /\ q.offset = Begin(p)
    <3>1. q = [cur EXCEPT !.i = p, !.bucket = b - 1, !.offset = Begin(p)]
      BY <1>2, <1>3, <2>5 DEF Up, Cursors, p, i, b
    <3> QED
      BY <1>2, <2>3, <2>4, <2>6, <3>1 DEF Cursors
  <2> HIDE DEF q
  <2>8. Searching(nodes, mem, owned, call, q)
    BY <1>3, <2>7 DEF Searching
  <2>9. SearchInv(nodes, mem, owned, call, q, q.offset + Width(q.i))
    BY <1>3, <2>3, <2>5, <2>6, <2>7, <2>8 DEF SearchInv, AtNode, N
  <2> QED
    BY <1>1, <1>2, <2>1, <2>7, <2>9 DEF Inv, Good, Loop
<1>8. CASE is_left(i) /\ i # 0
  <2> DEFINE s == sibling(i)
             q == [cur EXCEPT !.i = s, !.offset = @ + bucket_size(b)]
  <2>1. pc' = "search" /\ cur' = q /\ mem' = mem /\ owned' = owned /\ call' = call
    BY <1>8 DEF Leave, NextAllocator, Goto, i, b
  <2>2. /\ s \in Node /\ Bucket(s) = b /\ Begin(s) = Begin(i) + Width(i)
        /\ s # 0 /\ PathToRoot(s) = {s} \cup PathToRoot(parent(i))
        /\ PathToRoot(i) = {i} \cup PathToRoot(parent(i)) /\ i \notin PathToRoot(parent(i))
    <3>1. /\ s \in Node /\ Bucket(s) = b /\ Begin(s) = Begin(i) + Width(i) /\ b > 0
          /\ parent(s) = parent(i)
      BY <1>3, <1>4, <1>8, Siblings, Parents
    <3>2. s # 0
      BY <1>4, <3>1, RootFacts
    <3> QED
      BY <1>4, <1>8, <3>1, <3>2, PathStep, SiblingPath
  <2> HIDE DEF s
  <2>3. /\ q \in Cursors /\ q.a = cur.a /\ q.as = cur.as /\ q.i = s /\ q.bucket = b
        /\ q.offset = Begin(s)
    <3>1. Begin(s) \in Byte /\ cur.offset + bucket_size(b) = Begin(s)
      BY <1>3, <1>6, <2>2, NodeInPage
    <3> QED
      BY <1>2, <2>2, <3>1 DEF Cursors, b
  <2> HIDE DEF q
  <2>4. Searching(nodes, mem, owned, call, q)
    BY <1>3, <2>3 DEF Searching
  <2>5. \A j \in PathToRoot(s) \ {s} : j \notin N
    BY <1>3, <2>2
  <2>6. SearchInv(nodes, mem, owned, call, q, q.offset)
    BY <1>3, <2>2, <2>3, <2>4, <2>5 DEF SearchInv, AtNode, N
  <2> QED
    BY <1>1, <1>2, <2>1, <2>3, <2>6 DEF Inv, Good, Loop
<1>9. CASE i = 0
  <2>1. Full(owned, cur.a, call.size)
    <3>1. Begin(i) = 0 /\ Width(i) = MaximalAllocation /\ MaximalAllocation \in Nat
      BY <1>9, RootFacts, Constants
    <3>2. \A n \in Node : Begin(n) < Begin(i) + Width(i)
      <4>1. SUFFICES ASSUME NEW n \in Node PROVE Begin(n) < MaximalAllocation
        BY <3>1
      <4>2. Begin(n) \in Nat /\ Width(n) \in Nat \ {0} /\ Begin(n) + Width(n) <= MaximalAllocation
        BY NodeFacts
      <4> QED
        BY <3>1, <4>2
    <3> QED
      BY <1>3, <3>2 DEF Full, N
  <2>2. CASE cur.as = "fresh"
    <3>1. Fail(mem)
      BY <1>9, <2>2, RootFacts DEF Leave, NextAllocator, i
    <3>2. Good(nodes, mem', owned', pc', call', cur')
      <4>1. call.op \in {"malloc", "realloc"}
        BY <1>4 DEF Wanting, Asked, Growing, Moving
      <4> QED
        BY <1>2, <1>3, <1>4, <3>1, <4>1, Fails
    <3> QED
      BY <1>1, <1>2, <3>2 DEF Inv
  <2>3. CASE cur.as # "fresh"
    <3> DEFINE a == IF cur.as = "chain" THEN cur.a + 1 ELSE 1
               q == Root(a, "chain")
    <3>1. pc' = "try" /\ cur' = q /\ mem' = mem /\ owned' = owned /\ call' = call
      BY <1>9, <2>3, RootFacts DEF Leave, NextAllocator, Goto, i
    <3>2. a \in 1 .. k + 1 /\ a \in Nat
      BY <1>4
    <3>3. Tried(owned, call, a)
      <4>1. CASE cur.as = "chain"
        <5>1. Tried(owned, call, cur.a) /\ a = cur.a + 1
          BY <1>3, <4>1 DEF Searching
        <5> HIDE DEF a
        <5>2. \A c \in 1 .. a - 1 : c \in 1 .. cur.a - 1 \/ c = cur.a
          BY <1>4, <5>1
        <5>3. \A c \in 1 .. a - 1 : Full(owned, c, call.size)
          BY <2>1, <5>1, <5>2 DEF Tried
        <5> QED
          BY <5>1, <5>3 DEF Tried
      <4>2. CASE cur.as = "realloc"
        <5>1. cur.a = OldPage(call) /\ a = 1
          BY <1>3, <4>2 DEF Searching
        <5> QED
          BY <2>1, <5>1 DEF Tried
      <4> QED
        BY <1>4, <2>3, <4>1, <4>2
    <3> HIDE DEF a
    <3>4. q \in Cursors /\ q.a = a
      BY <3>2, RootCursor
    <3>5. TryInv(nodes, mem, owned, call, q)
      BY <1>3, <1>4, <3>2, <3>3, <3>4 DEF TryInv
    <3> HIDE DEF q
    <3> QED
      BY <1>1, <1>2, <3>1, <3>4, <3>5 DEF Inv, Good, Loop
  <2> QED
    BY <2>2, <2>3
<1> QED
  BY <1>7, <1>8, <1>9 DEF Leave

-----------------------------------------------------------------------------
(* An allocation gets its place *)

\* The bytes of an allocation that moves to node n
LEMMA Moves ==
  ASSUME NEW k \in Nat, NEW m \in Memory(k), NEW own, NEW c \in Calls(k), Growing(k, m, own, c),
         NEW a \in 1 .. k, NEW n \in Node, c.size <= MaximalAllocation, Bucket(n) = LevelOf(c.size),
         NEW m1, m1 = Copy(m, <<a, Begin(n)>>, c.old.at, c.current)
  PROVE  /\ m1 \in Memory(k) /\ Elsewhere(k, m, m1, a, n)
         /\ Written(m1, <<a, Begin(n)>>, Keep(c), c.tag)
<1>1. /\ Sits(k, c.old) /\ Written(m, c.old.at, Keep(c), c.tag)
      /\ c.current = Width(Old(c)) /\ c.size > c.current
  BY DEF Growing, Moving
<1>2. /\ Old(c) \in Node /\ Begin(Old(c)) = c.old.at[2] /\ c.old.at[1] \in 1 .. k
      /\ c.old.filled \in Nat /\ c.old.size \in Nat /\ c.old.filled <= c.old.size
      /\ c.old.size <= Width(Old(c))
  BY <1>1, SitsFacts DEF Old
<1>3. c.size \in Nat /\ c.size \in 0 .. MaximalAllocation
  BY Constants DEF Calls
<1>4. /\ Width(Old(c)) \in Nat /\ Begin(Old(c)) \in Nat
      /\ Begin(Old(c)) + Width(Old(c)) <= MaximalAllocation /\ Width(n) \in Nat
  BY <1>2, NodeFacts
<1>5. c.size <= Width(n)
  BY <1>3, LevelFits DEF Width
<1>6. /\ c.current \in Nat /\ c.current <= Width(n) /\ c.old.at[2] \in Nat
      /\ c.old.at[2] + c.current <= MaximalAllocation
  BY <1>1, <1>2, <1>3, <1>4, <1>5
<1>7. Keep(c) \in Nat /\ Keep(c) <= c.current
  BY <1>1, <1>2, <1>3, <1>4 DEF Keep
<1> QED
  BY <1>1, <1>2, <1>6, <1>7, Copying

LEMMA KeepFits ==
  ASSUME NEW k \in Nat, NEW c \in Calls(k), Sits(k, c.old)
  PROVE  Keep(c) \in 0 .. c.size
<1>1. c.size \in Nat /\ c.old.filled \in Nat
  BY SitsFacts DEF Calls
<1> QED
  BY <1>1 DEF Keep

\* A call returns an allocation that has its place.
LEMMA PlacedReturns ==
  ASSUME Pages(nodes, mem), Sound(Len(nodes), mem, owned), NEW tag \in Tag \ DOMAIN owned,
         NEW n \in Node, NEW a \in 1 .. Len(nodes), NEW size \in 0 .. MaximalAllocation,
         NEW filled \in 0 .. size, Bucket(n) = LevelOf(size),
         Beside(NodesIn(owned, a), n),
         Exactly(nodes, owned, a), nodes[a] = Marks(NodesIn(owned, a)) \cup PathToRoot(n),
         NEW m1 \in Memory(Len(nodes)), Elsewhere(Len(nodes), mem, m1, a, n),
         Written(m1, <<a, Begin(n)>>, filled, tag),
         Return(Owning(tag, <<a, Begin(n)>>, size, filled), m1)
  PROVE  Good(nodes, mem', owned', pc', call', cur')
<1> DEFINE own == Owning(tag, <<a, Begin(n)>>, size, filled)
           k == Len(nodes)
<1>1. own = With(owned, tag, Allocation(<<a, Begin(n)>>, size, filled))
  BY DEF Owning, With
<1>2. /\ owned' = own /\ mem' = Held(m1, own, stray') /\ pc' = "idle" /\ call' = NoCall /\ cur' = Start
  BY DEF Return
<1> HIDE DEF own
<1>3. Pages(nodes, m1)
  BY PagesMemory
<1>4. Sound(k, m1, own)
  BY <1>1, Places
<1>5. Exactly(nodes, own, 0)
  BY <1>1, Places
<1> QED
  BY <1>2, <1>3, <1>4, <1>5, Returns

LEMMA AllocatedKeeps ==
  ASSUME Inv, pc = "mark", cur.i = 0, Allocated(<<cur.a, cur.offset>>), nodes' = nodes, blocks' = blocks
  PROVE  Inv'
<1> DEFINE k == Len(nodes)
           a == cur.a
           N == NodesIn(owned, a)
           to == <<a, cur.offset>>
           moved == Copy(mem, to, call.old.at, call.current)
<1>1. /\ blocks \in Nat /\ Pages(nodes, mem) /\ Sound(k, mem, owned)
      /\ call \in Calls(k) /\ cur \in Cursors /\ MarkInv(nodes, mem, owned, call, cur)
  BY Phases
<1>2. Searching(nodes, mem, owned, call, cur) /\ Exactly(nodes, owned, a) /\ cur.i \in nodes[a]
  BY <1>1 DEF MarkInv
<1>3. PICK n \in Node : /\ Bucket(n) = LevelOf(call.size) /\ Begin(n) = cur.offset
                        /\ Beside(N, n) /\ cur.i \in PathToRoot(n)
                        /\ nodes[a] \cup PathToRoot(cur.i) = Marks(N) \cup PathToRoot(n)
  BY <1>1 DEF MarkInv
<1>4. nodes[a] = Marks(N) \cup PathToRoot(n)
  <2>1. PathToRoot(0) = {0}
    BY PathStep
  <2> QED
    BY <1>2, <1>3, <2>1
<1>5. /\ k \in Nat /\ a \in 1 .. k /\ mem \in Memory(k) /\ Wanting(k, mem, owned, call)
      /\ call.size <= MaximalAllocation /\ to = <<a, Begin(n)>>
  BY <1>1, <1>2, <1>3, PagesFacts DEF Searching
<1>6. call.size \in 1 .. MaximalAllocation
  BY <1>1, <1>5, WantedSize
<1>7. /\ call.size \in 0 .. MaximalAllocation /\ call.size \in Nat /\ call.size \in 0 .. call.size
      /\ call.tag \in Tag \ DOMAIN owned /\ call.to = Nowhere
  BY <1>5, <1>6 DEF Wanting, Asked, Growing, Moving
<1> HIDE DEF N, a
<1>8. CASE call.op = "malloc"
  <2> DEFINE m1 == Fill(mem, to, call.size, call.tag)
  <2>1. Return(Owning(call.tag, to, call.size, call.size), m1)
    BY <1>8 DEF Allocated, a
  <2>2. call.size <= Width(n)
    BY <1>3, <1>7, LevelFits DEF Width
  <2>3. m1 \in Memory(k)
    BY <1>5, <1>7, <2>2, Filling
  <2>4. Elsewhere(k, mem, m1, a, n)
    BY <1>5, <1>7, <2>2, Filling
  <2>5. Written(m1, to, call.size, call.tag)
    BY <1>5, <1>7, <2>2, Filling
  <2> HIDE DEF m1
  <2>6. Good(nodes, mem', owned', pc', call', cur')
    BY <1>1, <1>2, <1>3, <1>4, <1>5, <1>7, <2>1, <2>3, <2>4, <2>5, PlacedReturns DEF a, N
  <2> QED
    BY <1>1, <2>6 DEF Inv
<1>9. CASE call.op = "realloc"
  <2>1. Growing(k, mem, owned, call) /\ Sits(k, call.old)
    BY <1>5, <1>9 DEF Wanting, Asked, Growing, Moving
  <2>2. Keep(call) \in 0 .. call.size /\ Kept = Keep(call)
    BY <1>1, <1>5, <2>1, KeepFits DEF Kept, Keep
  <2>3. /\ moved \in Memory(k) /\ Elsewhere(k, mem, moved, a, n)
        /\ Written(moved, to, Keep(call), call.tag)
    BY <1>1, <1>3, <1>5, <2>1, Moves
  <2> HIDE DEF moved
  <2>4. CASE cur.as = "realloc"
    <3>1. Return(Owning(call.tag, to, call.size, Keep(call)), moved)
      BY <1>9, <2>2, <2>4 DEF Allocated, a, moved
    <3>2. Good(nodes, mem', owned', pc', call', cur')
      BY <1>1, <1>2, <1>3, <1>4, <1>5, <1>7, <2>2, <2>3, <3>1, PlacedReturns DEF a, N
    <3> QED
      BY <1>1, <3>2 DEF Inv
  <2>5. CASE cur.as # "realloc"
    <3> DEFINE c == [call EXCEPT !.op = "free", !.to = to]
               new == With(owned, call.tag, Allocation(to, call.size, Keep(call)))
    <3>1. /\ call' = c /\ pc' = "find" /\ cur' = Root(call.old.at[1], "chain")
          /\ mem' = moved /\ owned' = owned
      BY <1>9, <2>5 DEF Allocated, Release, Goto, a, moved
    <3>2. to \in Place(k) /\ to # Nowhere
      <4>1. Begin(n) \in Byte /\ a # 0
        BY <1>5, NodeInPage
      <4>2. to \in Place(k)
        BY <1>5, <4>1 DEF Place
      <4> QED
        BY <4>1, <4>2 DEF Nowhere
    <3>3. /\ c \in Calls(k) /\ c.op = "free" /\ c.to = to /\ c.old = call.old
          /\ c.tag = call.tag /\ c.size = call.size
      <4> HIDE DEF to
      <4> QED
        BY <1>1, <3>2 DEF Calls
    <3> HIDE DEF c
    <3>4. Live(owned, c) = new /\ OldPage(c) = OldPage(call) /\ Old(c) = Old(call)
      BY <3>2, <3>3 DEF Live, Keep, OldPage, Old
    <3> HIDE DEF new
    <3>5. new = With(owned, call.tag, Allocation(<<a, Begin(n)>>, call.size, Keep(call)))
      BY <1>5 DEF new
    <3>6. Pages(nodes, moved)
      BY <1>1, <2>3, PagesMemory
    <3>7. Sound(k, moved, owned)
      BY <1>1, <1>2, <1>3, <1>4, <1>5, <1>7, <2>2, <2>3, <3>5, Places DEF N
    <3>8. Sound(k, moved, new)
      BY <1>1, <1>2, <1>3, <1>4, <1>5, <1>7, <2>2, <2>3, <3>5, Places DEF N
    <3>9. Exactly(nodes, new, 0)
      BY <1>1, <1>2, <1>3, <1>4, <1>5, <1>7, <2>2, <2>3, <3>5, Places DEF N
    <3>10. OneMore(new, owned, a, n)
      BY <1>1, <1>2, <1>3, <1>4, <1>5, <1>7, <2>2, <2>3, <3>5, Places DEF N
    <3>11. OldPage(call) \in 1 .. k /\ OldPage(call) # 0 /\ OldPage(call) # a
      <4>1. OldPage(call) \in 1 .. k
        BY <1>5, <2>1, SitsFacts DEF OldPage
      <4>2. Full(owned, OldPage(call), call.size)
        BY <1>2, <1>9, <2>5 DEF Searching, Tried
      <4> QED
        BY <1>3, <1>5, <4>1, <4>2 DEF Full, N
    <3>12. NodesIn(new, OldPage(call)) = NodesIn(owned, OldPage(call))
      BY <3>10, <3>11 DEF OneMore
    <3>13. /\ Beside(NodesIn(new, OldPage(call)), Old(call))
           /\ Exactly(nodes, new, OldPage(call))
           /\ nodes[OldPage(call)] = Marks(NodesIn(new, OldPage(call)))
      BY <2>1, <3>9, <3>11, <3>12 DEF Exactly, Growing, Moving
    <3>14. Good(nodes, moved, owned, "find", c, Root(c.old.at[1], "chain"))
      BY <2>1, <3>3, <3>4, <3>6, <3>7, <3>8, <3>13, Releases
    <3> QED
      BY <1>1, <3>1, <3>3, <3>14 DEF Inv
  <2> QED
    BY <2>4, <2>5
<1> QED
  BY <1>8, <1>9 DEF Allocated

LEMMA MarkUpKeeps ==
  ASSUME Inv, MarkUp
  PROVE  Inv'
<1> DEFINE k == Len(nodes)
           a == cur.a
           i == cur.i
           N == NodesIn(owned, a)
<1>1. pc = "mark" /\ blocks' = blocks
  BY DEF MarkUp
<1>2. /\ blocks \in Nat /\ Pages(nodes, mem) /\ Sound(k, mem, owned)
      /\ call \in Calls(k) /\ cur \in Cursors /\ MarkInv(nodes, mem, owned, call, cur)
  BY <1>1, Phases
<1>3. CASE i = 0
  BY <1>1, <1>3, AllocatedKeeps DEF MarkUp
<1>4. CASE i # 0
  <2> DEFINE p == parent(i)
             q == [cur EXCEPT !.i = p, !.bucket = cur.bucket - 1]
             X == nodes[a] \cup {p}
             ns == [nodes EXCEPT ![a] = X]
  <2>1. nodes' = ns /\ pc' = "mark" /\ cur' = q /\ mem' = mem /\ owned' = owned /\ call' = call
    BY <1>4 DEF MarkUp, Mark, Goto, Up
  <2>2. /\ Searching(nodes, mem, owned, call, cur) /\ Exactly(nodes, owned, a)
        /\ i \in nodes[a] /\ cur.bucket = Bucket(i) /\ i \in Node
    BY <1>2 DEF MarkInv, Cursors
  <2>3. PICK n \in Node : /\ Bucket(n) = LevelOf(call.size) /\ Begin(n) = cur.offset
                          /\ Beside(N, n) /\ i \in PathToRoot(n)
                          /\ nodes[a] \cup PathToRoot(i) = Marks(N) \cup PathToRoot(n)
    BY <1>2 DEF MarkInv
  <2>4. a \in 1 .. k /\ nodes[a] \subseteq Node
    BY <1>2, <2>2, PagesFacts DEF Searching
  <2>5. p \in Node /\ Bucket(p) = cur.bucket - 1
    BY <1>4, <2>2, Parents
  <2>6. /\ X \cup PathToRoot(p) = Marks(N) \cup PathToRoot(n) /\ p \in PathToRoot(n)
    BY <1>4, <2>2, <2>3, MarkStep
  <2>7. X \in SUBSET Node /\ p \in X
    BY <2>4, <2>5
  <2>8. Bucket(p) \in 0 .. Depth - 1
    BY <2>5, NodeFacts
  <2> HIDE DEF p
  <2>9. /\ q \in Cursors /\ q.a = a /\ q.as = cur.as /\ q.i = p /\ q.bucket = Bucket(p)
        /\ q.offset = cur.offset
    BY <1>2, <2>5, <2>8 DEF Cursors
  <2>10. ns = [nodes EXCEPT ![a] = X]
    OBVIOUS
  <2> HIDE DEF X, ns, q
  <2>11. Pages(ns, mem)
    BY <1>2, <2>4, <2>7, <2>10, PagesBitmap
  <2>12. OneChanged(ns, nodes, a, X)
    BY <1>2, <2>4, <2>7, <2>10, PagesBitmap
  <2>13. Len(ns) = k /\ ns[a] = X /\ \A c \in 1 .. k : c # a => ns[c] = nodes[c]
    BY <2>12 DEF OneChanged
  <2>14. Searching(ns, mem, owned, call, q)
    BY <2>2, <2>9, <2>13 DEF Searching
  <2>15. Exactly(ns, owned, a)
    BY <2>2, <2>13 DEF Exactly
  <2>16. MarkInv(ns, mem, owned, call, q)
    BY <2>3, <2>6, <2>7, <2>9, <2>13, <2>14, <2>15 DEF MarkInv
  <2> QED
    BY <1>1, <1>2, <2>1, <2>9, <2>11, <2>13, <2>16 DEF Inv, Good, Loop
<1> QED
  BY <1>3, <1>4

-----------------------------------------------------------------------------
(* find_buddy, deallocate and reallocate *)

LEMMA FindKeeps ==
  ASSUME Inv, Find
  PROVE  Inv'
<1> DEFINE k == Len(nodes)
           i == cur.i
           b == cur.bucket
           o == Old(call)
           N == NodesIn(Live(owned, call), OldPage(call))
           X == nodes[OldPage(call)]
           half == cur.offset + bucket_size(b + 1)
           stop == cur.offset = call.old.at[2] /\ ~is_split(marked, i, b)
<1>1. /\ pc = "find" /\ nodes' = nodes /\ blocks' = blocks /\ mem' = mem /\ owned' = owned
  BY DEF Find
<1>2. /\ blocks \in Nat /\ Pages(nodes, mem) /\ Sound(k, mem, owned)
      /\ call \in Calls(k) /\ cur \in Cursors /\ FindInv(nodes, mem, owned, call, cur)
  BY <1>1, Phases
<1>3. /\ Leaving(nodes, mem, owned, call, cur) /\ b = Bucket(i) /\ cur.offset = Begin(i)
      /\ \/ call.op = "free" /\ X = Marks(N)
         \/ call.op = "free" /\ X = Marks(N) \cup PathToRoot(o)
         \/ Moving(k, mem, owned, call) /\ X = Marks(N) \cup PathToRoot(o)
  BY <1>2 DEF FindInv, AtNode
<1>4. /\ Sound(k, mem, Live(owned, call)) /\ Sits(k, call.old) /\ Beside(N, o)
      /\ Exactly(nodes, Live(owned, call), OldPage(call))
      /\ cur.a = OldPage(call) /\ i \in PathToRoot(o)
  BY <1>3 DEF Leaving
<1>5. k \in Nat /\ o \in Node /\ Begin(o) = call.old.at[2] /\ i \in Node /\ b \in 0 .. Depth - 1
  BY <1>2, <1>4, PagesFacts, SitsFacts DEF Old, Cursors
<1>6. Scattered(N) /\ marked = X
  BY <1>4, NodesApart DEF marked
<1>7. Marks(N) \subseteq X /\ X \subseteq Marks(N) \cup PathToRoot(o)
  BY <1>3
<1>8. /\ ~is_split(X, o, Bucket(o))
      /\ ~is_split(X, i, b) => i \notin Marks(N)
      /\ ~is_split(X, i, b) /\ PathToRoot(o) \subseteq X => i = o
  BY <1>3, <1>4, <1>5, <1>6, <1>7, FindStops
<1> HIDE DEF N, X, o, i, b
<1>9. CASE stop
  <2>1. /\ i \notin Marks(N) /\ (X = Marks(N) \cup PathToRoot(o) => i = o)
        /\ X \subseteq Marks(N) \cup PathToRoot(i)
    BY <1>3, <1>6, <1>8, <1>9
  <2>2. CASE call.op = "free"
    <3>1. pc' = "unmark" /\ cur' = cur /\ call' = call
      BY <1>9, <2>2 DEF Find, current_allocation_size, Goto, i, b
    <3>2. UnmarkInv(nodes, mem, owned, call, cur)
      BY <1>3, <1>7, <2>1 DEF UnmarkInv, N, X, i
    <3> QED
      BY <1>1, <1>2, <3>1, <3>2 DEF Inv, Good, Loop
  <2>3. CASE call.op = "realloc"
    <3> DEFINE c == [call EXCEPT !.current = bucket_size(b)]
    <3>1. pc' = "shrink" /\ cur' = cur /\ call' = c
      BY <1>9, <2>3 DEF Find, current_allocation_size, Goto, i, b
    <3>2. /\ Moving(k, mem, owned, call) /\ X = Marks(N) \cup PathToRoot(o) /\ i = o
          /\ N = NodesIn(owned, OldPage(call)) /\ Live(owned, call) = owned
      BY <1>3, <2>1, <2>3 DEF Moving, Live, N
    <3>3. bucket_size(b) = Width(o) /\ Width(o) \in Nat
      BY <1>3, <1>5, <3>2, NodeFacts DEF Width
    <3>4. /\ c \in Calls(k) /\ c.current = Width(o) /\ c.op = call.op /\ c.tag = call.tag
          /\ c.to = call.to /\ c.old = call.old /\ c.size = call.size
      BY <1>2, <3>3 DEF Calls
    <3> HIDE DEF c
    <3>5. OldPage(c) = OldPage(call) /\ Old(c) = o /\ Keep(c) = Keep(call)
      BY <3>4 DEF OldPage, Old, Keep, o
    <3>6. Moving(k, mem, owned, c)
      BY <3>2, <3>4, <3>5 DEF Moving, o
    <3>7. Resizing(nodes, owned, c, cur)
      BY <1>3, <1>4, <3>2, <3>5 DEF Resizing, X, N, i, b
    <3>8. o \in PathToRoot(o)
      BY <1>5, PathBasics
    <3>9. ShrinkInv(nodes, mem, owned, c, cur)
      BY <1>5, <3>2, <3>4, <3>5, <3>6, <3>7, <3>8 DEF ShrinkInv, i
    <3> QED
      BY <1>1, <1>2, <3>1, <3>4, <3>9 DEF Inv, Good, Loop
  <2> QED
    BY <1>3, <2>2, <2>3 DEF Moving
<1>10. CASE ~stop
  <2>1. i # o
    BY <1>3, <1>5, <1>6, <1>8, <1>10
  <2>2. /\ b < Depth - 1
        /\ Begin(o) < half => left(i) \in PathToRoot(o)
        /\ Begin(o) >= half => right(i) \in PathToRoot(o)
    BY <1>3, <1>4, <1>5, <2>1, FindTurns
  <2>3. /\ left(i) \in Node /\ Bucket(left(i)) = b + 1 /\ Begin(left(i)) = Begin(i)
        /\ right(i) \in Node /\ Bucket(right(i)) = b + 1 /\ Begin(right(i)) = half
    BY <1>3, <1>5, <2>2, Children
  <2>4. b + 1 \in 0 .. Depth - 1 /\ Begin(right(i)) \in Byte
    BY <1>5, <2>2, <2>3, NodeInPage, Constants
  <2>5. CASE Begin(o) < half
    <3> DEFINE q == [cur EXCEPT !.i = left(i), !.bucket = b + 1]
    <3>1. pc' = "find" /\ cur' = q /\ call' = call
      <4>1. Begin(o) \in Nat /\ half \in Nat
        BY <1>5, <2>3, NodeFacts
      <4>2. ~(call.old.at[2] >= half)
        BY <1>5, <2>5, <4>1
      <4> QED
        BY <1>10, <4>2 DEF Find, current_allocation_size, Goto, i, b
    <3>2. /\ q \in Cursors /\ q.i = left(i) /\ q.bucket = b + 1 /\ q.offset = cur.offset /\ q.a = cur.a
      BY <1>2, <2>3, <2>4 DEF Cursors
    <3> HIDE DEF q
    <3>3. Leaving(nodes, mem, owned, call, q) /\ AtNode(q)
      BY <1>3, <2>2, <2>3, <2>5, <3>2 DEF Leaving, AtNode, o
    <3>4. FindInv(nodes, mem, owned, call, q)
      BY <1>3, <3>3 DEF FindInv, X, N, o
    <3> QED
      BY <1>1, <1>2, <3>1, <3>2, <3>4 DEF Inv, Good, Loop
  <2>6. CASE Begin(o) >= half
    <3> DEFINE q == [cur EXCEPT !.i = right(i), !.bucket = b + 1, !.offset = half]
    <3>1. pc' = "find" /\ cur' = q /\ call' = call
      <4>1. Begin(o) \in Nat /\ half \in Nat
        BY <1>5, <2>3, NodeFacts
      <4>2. ~(call.old.at[2] < half)
        BY <1>5, <2>6, <4>1
      <4> QED
        BY <1>10, <4>2 DEF Find, current_allocation_size, Goto, i, b
    <3> HIDE DEF half
    <3>2. /\ q \in Cursors /\ q.i = right(i) /\ q.bucket = b + 1 /\ q.offset = half /\ q.a = cur.a
      BY <1>2, <2>3, <2>4 DEF Cursors
    <3> HIDE DEF q
    <3>3. Leaving(nodes, mem, owned, call, q) /\ AtNode(q)
      BY <1>3, <2>2, <2>3, <2>6, <3>2 DEF Leaving, AtNode, o
    <3>4. FindInv(nodes, mem, owned, call, q)
      BY <1>3, <3>3 DEF FindInv, X, N, o
    <3> QED
      BY <1>1, <1>2, <3>1, <3>2, <3>4 DEF Inv, Good, Loop
  <2>7. Begin(o) \in Nat /\ half \in Nat
    BY <1>5, <2>3, NodeFacts
  <2> QED
    BY <2>5, <2>6, <2>7
<1> QED
  BY <1>9, <1>10

LEMMA DeallocateKeeps ==
  ASSUME Inv, Deallocate
  PROVE  Inv'
<1> DEFINE k == Len(nodes)
           a == cur.a
           i == cur.i
           o == Old(call)
           own == Live(owned, call)
           N == NodesIn(own, a)
           X == nodes[a] \ {i}
           ns == [nodes EXCEPT ![a] = X]
<1>1. pc = "unmark" /\ blocks' = blocks /\ nodes' = ns
  BY DEF Deallocate, Unmark
<1>2. /\ blocks \in Nat /\ Pages(nodes, mem) /\ Sound(k, mem, owned)
      /\ call \in Calls(k) /\ cur \in Cursors /\ UnmarkInv(nodes, mem, owned, call, cur)
  BY <1>1, Phases
<1>3. /\ Leaving(nodes, mem, owned, call, cur) /\ a = OldPage(call)
      /\ Marks(N) \subseteq nodes[a] /\ nodes[a] \subseteq Marks(N) \cup PathToRoot(i)
      /\ i \notin Marks(N)
  BY <1>2 DEF UnmarkInv, Leaving
<1>4. /\ Sound(k, mem, own) /\ Sits(k, call.old) /\ Beside(N, o) /\ Exactly(nodes, own, a)
      /\ cur.bucket = Bucket(i) /\ i \in PathToRoot(o)
  BY <1>3 DEF Leaving
<1>5. /\ k \in Nat /\ o \in Node /\ i \in Node /\ a \in 1 .. k /\ nodes[a] \subseteq Node
  BY <1>2, <1>3, <1>4, PagesFacts, SitsFacts DEF Old, OldPage, Cursors
<1>6. Scattered(N)
  BY <1>4, NodesApart
<1>7. /\ i = 0 \/ sibling(i) \in nodes[a] => X = Marks(N)
      /\ ~(i = 0 \/ sibling(i) \in nodes[a]) =>
           /\ Marks(N) \subseteq X /\ X \subseteq Marks(N) \cup PathToRoot(parent(i))
           /\ parent(i) \notin Marks(N)
           /\ parent(i) \in PathToRoot(o) /\ parent(i) \in Node
  <2>1. Climbs(N, o, i, nodes[a])
    BY <1>3, <1>4, <1>5, <1>6, UnmarkStep
  <2> QED
    BY <2>1 DEF Climbs
<1>8. X \in SUBSET Node /\ ns = [nodes EXCEPT ![a] = X]
  BY <1>5
<1>9. marked = nodes[a]
  BY DEF marked
<1> HIDE DEF X, ns, N, own, o, i, a
<1>10. Pages(ns, mem)
  BY <1>2, <1>5, <1>8, PagesBitmap
<1>11. OneChanged(ns, nodes, a, X)
  BY <1>2, <1>5, <1>8, PagesBitmap
<1>12. Len(ns) = k /\ ns[a] = X /\ \A c \in 1 .. k : c # a => ns[c] = nodes[c]
  BY <1>11 DEF OneChanged
<1>13. Exactly(ns, own, a)
  BY <1>4, <1>12 DEF Exactly
<1>14. CASE i = 0 \/ sibling(i) \in nodes[a]
  <2>1. Return(own, mem)
    <3>1. Freed
      BY <1>9, <1>14 DEF Deallocate, i
    <3>2. own = IF call.to = Nowhere THEN owned ELSE Owning(call.tag, call.to, call.size, Kept)
      BY DEF own, Live, With, Owning, Kept, Keep
    <3> QED
      BY <3>1, <3>2 DEF Freed
  <2>2. Exactly(ns, own, 0)
    BY <1>7, <1>12, <1>13, <1>14 DEF Exactly, N
  <2>3. Good(ns, Held(mem, own, stray'), own, "idle", NoCall, Start)
    BY <1>4, <1>10, <1>12, <2>2, Returns
  <2> QED
    BY <1>1, <1>2, <2>1, <2>3 DEF Inv, Return
<1>15. CASE ~(i = 0 \/ sibling(i) \in nodes[a])
  <2> DEFINE p == parent(i)
             q == [cur EXCEPT !.i = p, !.bucket = cur.bucket - 1]
  <2>1. pc' = "unmark" /\ cur' = q /\ mem' = mem /\ owned' = owned /\ call' = call
    BY <1>9, <1>15 DEF Deallocate, Goto, Up, i
  <2>2. /\ p \in Node /\ Bucket(p) = cur.bucket - 1 /\ Bucket(p) \in 0 .. Depth - 1
    BY <1>4, <1>5, <1>15, Parents, NodeFacts
  <2>3. /\ Marks(N) \subseteq X /\ X \subseteq Marks(N) \cup PathToRoot(p)
        /\ p \notin Marks(N) /\ p \in PathToRoot(o)
    BY <1>7, <1>15
  <2> HIDE DEF p
  <2>4. q \in Cursors /\ q.a = a /\ q.i = p /\ q.bucket = Bucket(p)
    BY <1>2, <2>2 DEF Cursors, a
  <2> HIDE DEF q
  <2>5. Leaving(ns, mem, owned, call, q)
    BY <1>3, <1>4, <1>12, <1>13, <2>3, <2>4 DEF Leaving, own, N, o
  <2>6. UnmarkInv(ns, mem, owned, call, q)
    BY <1>3, <1>12, <2>3, <2>4, <2>5 DEF UnmarkInv, own, N
  <2> QED
    BY <1>1, <1>2, <1>10, <1>12, <2>1, <2>4, <2>6 DEF Inv, Good, Loop
<1> QED
  BY <1>14, <1>15

LEMMA ShrinkKeeps ==
  ASSUME Inv, Shrink
  PROVE  Inv'
<1> DEFINE k == Len(nodes)
           a == cur.a
           i == cur.i
           b == cur.bucket
           o == Old(call)
           N == NodesIn(owned, a)
           small == call.size <= bucket_size(b + 1) /\ b < Depth - 1
<1>1. pc = "shrink" /\ blocks' = blocks
  BY DEF Shrink
<1>2. /\ blocks \in Nat /\ Pages(nodes, mem) /\ Sound(k, mem, owned)
      /\ call \in Calls(k) /\ cur \in Cursors /\ ShrinkInv(nodes, mem, owned, call, cur)
  BY <1>1, Phases
<1>3. /\ Moving(k, mem, owned, call) /\ call.current = Width(o)
      /\ Exactly(nodes, owned, a) /\ a = OldPage(call) /\ b = Bucket(i)
      /\ nodes[a] = Marks(N) \cup PathToRoot(i)
      /\ o \in PathToRoot(i) /\ Begin(i) = call.old.at[2]
      /\ i = o \/ call.size <= Width(i)
  BY <1>2 DEF ShrinkInv, Resizing
<1>4. /\ call.op = "realloc" /\ call.tag \in Tag \ DOMAIN owned /\ call.to = Nowhere
      /\ Sits(k, call.old) /\ Beside(N, o) /\ Written(mem, call.old.at, Keep(call), call.tag)
  BY <1>3 DEF Moving
<1>5. /\ k \in Nat /\ o \in Node /\ i \in Node /\ a \in 1 .. k /\ nodes[a] \subseteq Node
      /\ b \in 0 .. Depth - 1 /\ call.size \in Nat /\ MaximalAllocation \in Nat
      /\ call.old.at = <<a, Begin(i)>> /\ mem \in Memory(k)
  BY <1>2, <1>3, <1>4, PagesFacts, SitsFacts, Constants DEF Old, OldPage, Cursors, Calls
<1>6. /\ Width(o) \in Nat /\ Width(i) \in Nat /\ Width(i) <= Width(o) /\ Width(i) = bucket_size(b)
      /\ Width(o) <= MaximalAllocation /\ bucket_size(b + 1) \in Nat /\ bucket_size(b + 1) < Width(i)
      /\ DirectThreshold >= MaximalAllocation
  <2>1. /\ Width(o) \in Nat /\ Width(i) \in Nat /\ Begin(o) \in Nat /\ Begin(i) \in Nat
        /\ Begin(o) + Width(o) <= MaximalAllocation
    BY <1>5, NodeFacts
  <2>2. Width(i) <= Width(o)
    <3>1. Begin(o) <= Begin(i) /\ Begin(i) + Width(i) <= Begin(o) + Width(o)
      BY <1>3, <1>5, PathNested
    <3> QED
      BY <2>1, <3>1
  <2>3. bucket_size(b + 1) \in Nat /\ bucket_size(b + 1) < bucket_size(b)
    <3>1. b + 1 \in 0 .. Depth /\ b < b + 1
      BY <1>5, Constants
    <3> QED
      BY <1>5, <3>1, SizesFall
  <2>4. Width(i) = bucket_size(b)
    BY <1>3 DEF Width
  <2>5. Width(o) <= MaximalAllocation
    BY <1>5, <2>1
  <2> QED
    BY <2>1, <2>2, <2>3, <2>4, <2>5, SizeAssumption
<1>7. Scattered(N)
  BY <1>2, NodesApart
<1> HIDE DEF N, o, i, a, b
<1>8. CASE small
  <2> DEFINE l == left(i)
             q == [cur EXCEPT !.i = l, !.bucket = b + 1]
             X == nodes[a] \cup {l}
             ns == [nodes EXCEPT ![a] = X]
  <2>1. nodes' = ns /\ pc' = "shrink" /\ cur' = q /\ mem' = mem /\ owned' = owned /\ call' = call
    BY <1>8 DEF Shrink, Goto, Mark, i, a, b
  <2>2. /\ l \in Node /\ Bucket(l) = b + 1 /\ Begin(l) = Begin(i) /\ l # 0 /\ parent(l) = i
        /\ b + 1 \in 0 .. Depth - 1
    <3>1. i \in Nat /\ l > i /\ parent(l) = i
      BY <1>5, NodesAreNumbers, Arithmetic
    <3>2. b + 1 \in 0 .. Depth - 1
      BY <1>5, <1>8, Constants
    <3> QED
      BY <1>3, <1>5, <1>8, <3>1, <3>2, Children
  <2>3. PathToRoot(l) = {l} \cup PathToRoot(i)
    BY <2>2, PathStep
  <2>4. X \in SUBSET Node /\ ns = [nodes EXCEPT ![a] = X] /\ X = Marks(N) \cup PathToRoot(l)
    BY <1>3, <1>5, <2>2, <2>3
  <2>5. call.size <= Width(l)
    BY <1>8, <2>2 DEF Width
  <2> HIDE DEF l
  <2>6. q \in Cursors /\ q.a = a /\ q.i = l /\ q.bucket = b + 1
    BY <1>2, <2>2 DEF Cursors, a
  <2> HIDE DEF X, ns, q
  <2>7. Pages(ns, mem)
    BY <1>2, <1>5, <2>4, PagesBitmap
  <2>8. OneChanged(ns, nodes, a, X)
    BY <1>2, <1>5, <2>4, PagesBitmap
  <2>9. Len(ns) = k /\ ns[a] = X /\ \A c \in 1 .. k : c # a => ns[c] = nodes[c]
    BY <2>8 DEF OneChanged
  <2>10. Exactly(ns, owned, a)
    BY <1>3, <2>9 DEF Exactly
  <2>11. Resizing(ns, owned, call, q)
    BY <1>3, <2>2, <2>4, <2>6, <2>9, <2>10 DEF Resizing, N
  <2>12. ShrinkInv(ns, mem, owned, call, q)
    BY <1>3, <2>2, <2>3, <2>5, <2>6, <2>9, <2>11 DEF ShrinkInv, o
  <2> QED
    BY <1>1, <1>2, <2>1, <2>6, <2>7, <2>9, <2>12 DEF Inv, Good, Loop
<1>9. CASE ~small /\ call.size <= call.current
  <2>1. Return(Owning(call.tag, call.old.at, call.size, Kept), mem) /\ nodes' = nodes
    <3>1. ~(call.current < call.size) /\ ~(call.size > MaximalAllocation)
      BY <1>3, <1>5, <1>6, <1>9
    <3> QED
      BY <1>9, <3>1 DEF Shrink, b
  <2>2. call.size <= Width(i) /\ call.size \in 0 .. MaximalAllocation
    BY <1>3, <1>5, <1>6, <1>9
  <2>3. b = Depth - 1 \/ call.size > bucket_size(b + 1)
    <3>1. b # Depth - 1 => b < Depth - 1
      BY <1>5, Constants
    <3>2. call.size <= bucket_size(b + 1) \/ call.size > bucket_size(b + 1)
      BY <1>5, <1>6
    <3> QED
      BY <1>9, <3>1, <3>2
  <2>4. Bucket(i) = LevelOf(call.size)
    BY <1>3, <1>5, <1>6, <2>2, <2>3, LevelIs
  <2>5. Beside(N, i)
    BY <1>3, <1>4, <1>5, <1>7, BesideBelow DEF Scattered
  <2>6. Keep(call) \in 0 .. call.size /\ Kept = Keep(call)
    BY <1>2, <1>4, <1>5, KeepFits DEF Kept, Keep
  <2>7. Good(nodes, mem', owned', pc', call', cur')
    BY <1>2, <1>3, <1>4, <1>5, <2>1, <2>2, <2>4, <2>5, <2>6, NothingMoves, PlacedReturns DEF N
  <2> QED
    BY <1>1, <1>2, <2>1, <2>7 DEF Inv
<1>10. CASE ~small /\ call.size > call.current
  <2>1. i = o /\ b = Bucket(o)
    BY <1>3, <1>5, <1>6, <1>10
  <2>2. Growing(k, mem, owned, call)
    BY <1>3, <1>10 DEF Growing, o
  <2>3. CASE call.size <= MaximalAllocation
    <3>1. pc' = "expand" /\ cur' = cur /\ nodes' = nodes /\ mem' = mem /\ owned' = owned /\ call' = call
      <4>1. ~(call.size <= call.current) /\ ~(call.size > MaximalAllocation)
        BY <1>3, <1>5, <1>6, <1>10, <2>3
      <4> QED
        BY <1>10, <4>1 DEF Shrink, Goto, b
    <3>2. o \in PathToRoot(o) /\ o \notin Marks(N)
      BY <1>4, <1>5, <1>7, PathBasics, BesideUp
    <3>3. bucket_size(b + 1) < call.size
      BY <1>3, <1>5, <1>6, <1>10, <2>1
    <3>4. ExpandInv(nodes, mem, owned, call, cur)
      BY <1>2, <1>3, <2>1, <2>2, <2>3, <3>2, <3>3 DEF ExpandInv, ShrinkInv, N, o, i, a, b
    <3> QED
      BY <1>1, <1>2, <3>1, <3>4 DEF Inv, Good, Loop
  <2>4. CASE call.size > MaximalAllocation /\ call.size > DirectThreshold
    <3>1. MoveOut(mem) /\ nodes' = nodes
      <4>1. ~(call.size <= call.current) /\ ~(call.size <= MaximalAllocation)
        BY <1>3, <1>5, <1>6, <1>10, <2>4
      <4>2. ~(call.size <= DirectThreshold)
        BY <1>5, <2>4, SizeAssumption
      <4> QED
        BY <1>10, <2>4, <4>1, <4>2 DEF Shrink, b
    <3>2. Good(nodes, mem', owned', pc', call', cur')
      BY <1>2, <1>3, <2>1, <2>2, <2>4, <3>1, MovesOut DEF N, o
    <3> QED
      BY <1>1, <1>2, <3>1, <3>2 DEF Inv
  <2>5. CASE call.size > MaximalAllocation /\ ~(call.size > DirectThreshold)
    <3> DEFINE q == Root(1, "chain")
    <3>1. pc' = "try" /\ cur' = q /\ nodes' = nodes /\ mem' = mem /\ owned' = owned /\ call' = call
      <4>1. ~(call.size <= call.current) /\ ~(call.size <= MaximalAllocation)
        BY <1>3, <1>5, <1>6, <1>10, <2>5
      <4> QED
        BY <1>10, <2>5, <4>1 DEF Shrink, Goto, b
    <3>2. q \in Cursors /\ q.a = 1
      BY RootCursor
    <3>3. TryInv(nodes, mem, owned, call, q)
      BY <1>3, <1>4, <1>5, <2>1, <2>2, <2>5, <3>2 DEF TryInv, Wanting, N, o
    <3> HIDE DEF q
    <3> QED
      BY <1>1, <1>2, <3>1, <3>2, <3>3 DEF Inv, Good, Loop
  <2> QED
    BY <1>5, <2>3, <2>4, <2>5
<1>11. call.size <= call.current \/ call.size > call.current
  BY <1>3, <1>5, <1>6
<1> QED
  BY <1>8, <1>9, <1>10, <1>11

LEMMA ExpandKeeps ==
  ASSUME Inv, Expand
  PROVE  Inv'
<1> DEFINE k == Len(nodes)
           a == cur.a
           i == cur.i
           b == cur.bucket
           o == Old(call)
           N == NodesIn(owned, a)
<1>1. pc = "expand" /\ blocks' = blocks
  BY DEF Expand
<1>2. /\ blocks \in Nat /\ Pages(nodes, mem) /\ Sound(k, mem, owned)
      /\ call \in Calls(k) /\ cur \in Cursors /\ ExpandInv(nodes, mem, owned, call, cur)
  BY <1>1, Phases
<1>3. /\ Growing(k, mem, owned, call) /\ call.size <= MaximalAllocation
      /\ Exactly(nodes, owned, a) /\ a = OldPage(call) /\ b = Bucket(i)
      /\ nodes[a] = Marks(N) \cup PathToRoot(i)
      /\ i \in PathToRoot(o) /\ i \notin Marks(N) /\ bucket_size(b + 1) < call.size
  BY <1>2 DEF ExpandInv, Resizing
<1>4. /\ call.op = "realloc" /\ call.tag \in Tag \ DOMAIN owned /\ call.to = Nowhere
      /\ Sits(k, call.old) /\ Beside(N, o) /\ Written(mem, call.old.at, Keep(call), call.tag)
      /\ Wanting(k, mem, owned, call)
  BY <1>3 DEF Growing, Moving, Wanting
<1>5. /\ k \in Nat /\ o \in Node /\ i \in Node /\ a \in 1 .. k /\ nodes[a] \subseteq Node
      /\ b \in 0 .. Depth - 1 /\ mem \in Memory(k) /\ call.old.at = <<a, Begin(o)>>
  BY <1>2, <1>3, <1>4, PagesFacts, SitsFacts DEF Old, OldPage, Cursors
<1>6. /\ call.size \in 1 .. MaximalAllocation /\ call.size \in 0 .. MaximalAllocation
      /\ call.size \in Nat /\ bucket_size(b) \in Nat
  <2>1. call.size \in 1 .. MaximalAllocation
    BY <1>2, <1>3, <1>4, <1>5, WantedSize
  <2> QED
    BY <1>5, <2>1, Sizes, Constants
<1>7. Scattered(N)
  BY <1>2, NodesApart
<1>8. marked = nodes[a]
  BY DEF marked
<1> HIDE DEF N, o, i, a, b
<1>9. CASE bucket_size(b) >= call.size
  <2> DEFINE to == <<a, Begin(i)>>
             m1 == IF to = call.old.at THEN mem ELSE Copy(mem, to, call.old.at, call.current)
  <2>1. Return(Owning(call.tag, to, call.size, Kept), m1) /\ nodes' = nodes
    <3>1. node_to_pointer(i, b) = Begin(i)
      BY <1>3 DEF Begin
    <3>2. ~(bucket_size(b) < call.size)
      BY <1>6, <1>9
    <3> QED
      BY <1>9, <3>1, <3>2 DEF Expand, i, a, b
  <2>2. Bucket(i) = LevelOf(call.size)
    BY <1>3, <1>5, <1>6, <1>9, LevelIs
  <2>3. Beside(N, i)
    BY <1>3, <1>4, <1>5, BesideAbove
  <2>4. Keep(call) \in 0 .. call.size /\ Kept = Keep(call)
    BY <1>2, <1>4, <1>5, KeepFits DEF Kept, Keep
  <2>5. /\ m1 \in Memory(k) /\ Elsewhere(k, mem, m1, a, i) /\ Written(m1, to, Keep(call), call.tag)
    <3>1. CASE to = call.old.at
      BY <1>4, <1>5, <3>1, NothingMoves
    <3>2. CASE to # call.old.at
      <4> HIDE DEF m1
      <4>1. m1 = Copy(mem, to, call.old.at, call.current)
        BY <3>2 DEF m1
      <4> QED
        BY <1>2, <1>3, <1>5, <2>2, <4>1, Moves
    <3> QED
      BY <3>1, <3>2
  <2> HIDE DEF m1
  <2>6. Good(nodes, mem', owned', pc', call', cur')
    BY <1>2, <1>3, <1>4, <1>5, <1>6, <2>1, <2>2, <2>3, <2>4, <2>5, PlacedReturns DEF N
  <2> QED
    BY <1>1, <1>2, <2>1, <2>6 DEF Inv
<1>10. CASE bucket_size(b) < call.size
  <2> DEFINE X == nodes[a] \ {i}
             ns == [nodes EXCEPT ![a] = X]
             p == parent(i)
             r == Root(a, "realloc")
             q == [cur EXCEPT !.i = p, !.bucket = b - 1]
             full == b = 0 \/ sibling(i) \in nodes[a]
  <2>1. /\ nodes' = ns /\ mem' = mem /\ owned' = owned /\ call' = call
        /\ full => pc' = "search" /\ cur' = r
        /\ ~full => pc' = "expand" /\ cur' = q
    <3>1. ~(bucket_size(b) >= call.size)
      BY <1>6, <1>10
    <3> QED
      BY <1>8, <1>10, <3>1 DEF Expand, Unmark, Goto, Up, i, a, b
  <2>2. i # 0 /\ b # 0 /\ p \in Node /\ Bucket(p) = b - 1 /\ Bucket(p) \in 0 .. Depth - 1
    <3>1. b # 0
      BY <1>3, <1>6, <1>10, Sizes
    <3>2. i # 0
      BY <1>3, <3>1, RootFacts
    <3> QED
      BY <1>3, <1>5, <3>1, <3>2, Parents, NodeFacts
  <2>3. Climbs(N, o, i, nodes[a])
    <3>1. Marks(N) \subseteq nodes[a] /\ nodes[a] \subseteq Marks(N) \cup PathToRoot(i)
      BY <1>3
    <3> QED
      BY <1>3, <1>4, <1>5, <1>7, <3>1, UnmarkStep
  <2>4. /\ full => X = Marks(N) /\ p \in Marks(N)
        /\ ~full => /\ X = Marks(N) \cup PathToRoot(p) /\ p \notin Marks(N)
                    /\ p \in PathToRoot(o)
    BY <1>3, <2>2, <2>3 DEF Climbs
  <2>5. X \in SUBSET Node /\ ns = [nodes EXCEPT ![a] = X]
    BY <1>5
  <2> HIDE DEF X, ns, p
  <2>6. Pages(ns, mem)
    BY <1>2, <1>5, <2>5, PagesBitmap
  <2>7. OneChanged(ns, nodes, a, X)
    BY <1>2, <1>5, <2>5, PagesBitmap
  <2>8. Len(ns) = k /\ ns[a] = X /\ \A c \in 1 .. k : c # a => ns[c] = nodes[c]
    BY <2>7 DEF OneChanged
  <2>9. Exactly(ns, owned, a)
    BY <1>3, <2>8 DEF Exactly
  <2>10. CASE full
    <3>1. pc' = "search" /\ cur' = r /\ X = Marks(N) /\ p \in Marks(N)
      BY <2>1, <2>4, <2>10
    <3>2. r \in Cursors /\ r.a = a /\ r.as = "realloc"
      BY <1>5, RootCursor
    <3>3. Exactly(ns, owned, 0)
      BY <2>8, <2>9, <3>1 DEF Exactly, N
    <3>4. ASSUME NEW j \in PathToRoot(o), Bucket(j) = LevelOf(call.size) PROVE ~Beside(N, j)
      <4>1. Bucket(j) < Bucket(i)
        BY <1>3, <1>5, <1>6, <1>10, <3>4, LevelBelow
      <4> QED
        BY <1>3, <1>5, <1>7, <2>2, <3>1, <4>1, GrowthFails DEF p
    <3>5. Searching(ns, mem, owned, call, r)
      BY <1>3, <1>4, <1>5, <2>8, <3>2, <3>4 DEF Searching, o, N
    <3>6. SearchInv(ns, mem, owned, call, r, r.offset)
      <4>1. a \in Nat
        BY <1>5
      <4> QED
        BY <1>6, <3>2, <3>3, <3>5, <4>1, RootSearch
    <3> HIDE DEF r
    <3> QED
      BY <1>1, <1>2, <2>1, <2>6, <2>8, <3>1, <3>2, <3>6 DEF Inv, Good, Loop
  <2>11. CASE ~full
    <3>1. /\ pc' = "expand" /\ cur' = q /\ X = Marks(N) \cup PathToRoot(p) /\ p \notin Marks(N)
          /\ p \in PathToRoot(o)
      BY <2>1, <2>4, <2>11
    <3>2. q \in Cursors /\ q.a = a /\ q.i = p /\ q.bucket = b - 1 /\ q.bucket + 1 = b
      <4>1. b - 1 \in 0 .. Depth - 1 /\ (b - 1) + 1 = b
        BY <1>5, <2>2
      <4>2. q \in Cursors /\ q.a = a /\ q.i = p /\ q.bucket = b - 1
        BY <1>2, <2>2, <4>1 DEF Cursors, a
      <4> QED
        BY <4>1, <4>2
    <3> HIDE DEF q
    <3>3. Resizing(ns, owned, call, q)
      BY <1>3, <2>2, <2>8, <2>9, <3>1, <3>2 DEF Resizing, N
    <3>4. ExpandInv(ns, mem, owned, call, q)
      BY <1>3, <1>10, <2>8, <3>1, <3>2, <3>3 DEF ExpandInv, N, o
    <3> QED
      BY <1>1, <1>2, <2>1, <2>6, <2>8, <3>1, <3>2, <3>4 DEF Inv, Good, Loop
  <2> QED
    BY <2>10, <2>11
<1> QED
  BY <1>6, <1>9, <1>10

-----------------------------------------------------------------------------
(* The theorems *)

LEMMA InvInit == Init => Inv
<1>1. SUFFICES ASSUME Init PROVE Inv
  OBVIOUS
<1>2. /\ nodes = <<>> /\ blocks = 1 /\ mem = <<>> /\ owned = <<>> /\ pc = "idle"
      /\ call = NoCall /\ cur = Start
  BY <1>1 DEF Init
<1>3. Pages(nodes, mem) /\ Len(nodes) = 0 /\ DOMAIN owned = {}
  BY <1>2 DEF Pages
<1>4. Nowhere \in Place(0)
  BY DEF Nowhere, Place
<1>5. NoCall \in Calls(0)
  BY <1>4 DEF NoCall, Calls, Record, Allocation
<1>6. Start \in Cursors
  BY RootCursor DEF Start
<1>7. Sound(0, mem, owned)
  BY <1>3 DEF Sound, Apart
<1>8. IdleInv(nodes, owned, call)
  BY <1>2, <1>3 DEF IdleInv, Exactly
<1> QED
  BY <1>2, <1>3, <1>5, <1>6, <1>7, <1>8 DEF Inv, Good, Loop

LEMMA InvNext == Inv /\ Next => Inv' \/ misled'
<1>1. ASSUME NEW tag \in Tag, CallOnStray(tag) PROVE misled'
  BY <1>1 DEF CallOnStray
<1> QED
  BY <1>1, MallocKeeps, FreeKeeps, ReallocKeeps, TryKeeps, NewBlockKeeps, NewPageKeeps, SearchKeeps,
     LeaveKeeps, MarkUpKeeps, FindKeeps, DeallocateKeeps, ShrinkKeeps, ExpandKeeps DEF Next, Step

\* An allocation becomes stray when a reallocation is refused, and only so.
LEMMA StraysNext ==
  ASSUME Inv, Strays(stray), misled = FALSE, Next
  PROVE  misled' = TRUE \/ (misled' = FALSE /\ Strays(stray'))
<1> DEFINE G == misled' = TRUE \/ (misled' = FALSE /\ Strays(stray'))
<1>1. call.old \in AnyRecord
  <2>1. Len(nodes) \in Nat /\ call.old \in Record(Len(nodes))
    BY Phases, PagesFacts DEF Calls
  <2> QED
    BY <2>1 DEF Record, Place, AnyRecord
<1>2. pc \in {"try", "leave", "shrink"} /\ call.op # "malloc" => call.tag \in Tag
  BY Phases DEF TryInv, SearchInv, Searching, ShrinkInv, Wanting, Asked, Growing, Moving
<1>3. UNCHANGED history => G
  BY DEF history
<1>4. ASSUME NEW m, MoveOut(m), call.tag \in Tag PROVE G
  <2>1. CASE call.size <= MaximalAllocation /\ Refused(m)
    <3>1. \/ UNCHANGED history
          \/ /\ misled' = misled
             /\ stray' = [g \in DOMAIN stray \cup {call.tag} |->
                            IF g = call.tag THEN call.old ELSE stray[g]]
      BY <2>1 DEF Refused
    <3> QED
      BY <1>1, <1>3, <1>4, <3>1 DEF Strays
  <2> QED
    BY <1>3, <1>4, <2>1 DEF MoveOut, Refused, Release
<1>5. ASSUME NEW m, Fail(m), pc \in {"try", "leave"} PROVE G
  BY <1>2, <1>3, <1>4, <1>5 DEF Fail
<1>6. ASSUME NEW tag \in Tag, \/ \E size \in MallocSize : Malloc(tag, size)
                              \/ \E size \in ReallocSize : Realloc(tag, size)
                              \/ Free(tag) \/ CallOnStray(tag)
      PROVE G
  BY <1>3, <1>6 DEF Malloc, Realloc, Free, CallOnStray, history
<1>7. ASSUME Try \/ Search \/ Find PROVE G
  BY <1>3, <1>7 DEF Try, Search, Find, history
<1>8. ASSUME NewBlock \/ NewPage \/ Leave PROVE G
  BY <1>3, <1>5, <1>8 DEF NewBlock, NewPage, Leave, history
<1>9. ASSUME MarkUp PROVE G
  BY <1>3, <1>9 DEF MarkUp, Allocated, Release, history
<1>10. ASSUME Deallocate \/ Expand PROVE G
  BY <1>3, <1>10 DEF Deallocate, Freed, Expand, history
<1>11. ASSUME Shrink PROVE G
  <2>1. pc = "shrink"
    BY <1>11 DEF Shrink
  <2>2. call.tag \in Tag
    BY <2>1, Phases DEF ShrinkInv, Moving
  <2> QED
    BY <1>3, <1>4, <1>11, <2>2 DEF Shrink, history
<1> QED
  BY <1>6, <1>7, <1>8, <1>9, <1>10, <1>11 DEF Next, Step

LEMMA MisledStays ==
  ASSUME misled = TRUE, Next
  PROVE  misled' = TRUE
<1> DEFINE G == misled' = TRUE
<1>1. UNCHANGED misled => G
  OBVIOUS
<1>2. ASSUME NEW m, MoveOut(m) PROVE G
  BY <1>1, <1>2 DEF MoveOut, Refused, Release, history
<1>3. ASSUME NEW m, Fail(m) PROVE G
  BY <1>1, <1>2, <1>3 DEF Fail, history
<1>4. ASSUME NEW tag \in Tag, \/ \E size \in MallocSize : Malloc(tag, size)
                              \/ \E size \in ReallocSize : Realloc(tag, size)
                              \/ Free(tag) \/ CallOnStray(tag)
      PROVE G
  BY <1>1, <1>4 DEF Malloc, Realloc, Free, CallOnStray, history
<1>5. ASSUME Try \/ Search \/ Find PROVE G
  BY <1>1, <1>5 DEF Try, Search, Find, history
<1>6. ASSUME NewBlock \/ NewPage \/ Leave PROVE G
  BY <1>1, <1>3, <1>6 DEF NewBlock, NewPage, Leave, history
<1>7. ASSUME MarkUp PROVE G
  BY <1>1, <1>7 DEF MarkUp, Allocated, Release, history
<1>8. ASSUME Deallocate \/ Expand PROVE G
  BY <1>1, <1>8 DEF Deallocate, Freed, Expand, history
<1>9. ASSUME Shrink PROVE G
  BY <1>1, <1>2, <1>9 DEF Shrink, history
<1> QED
  BY <1>4, <1>5, <1>6, <1>7, <1>8, <1>9 DEF Next, Step

LEMMA Invariance == Spec => []IInv
<1>1. Init => IInv
  <2>1. Init => misled = FALSE /\ Strays(stray)
    BY DEF Init, Strays
  <2> QED
    BY <2>1, InvInit DEF IInv
<1>2. IInv /\ [Next]_vars => IInv'
  <2>1. ASSUME IInv, Next, misled = TRUE PROVE IInv'
    BY <2>1, MisledStays DEF IInv
  <2>2. ASSUME IInv, Next, misled = FALSE PROVE IInv'
    <3>1. Inv /\ Strays(stray)
      BY <2>2 DEF IInv
    <3>2. misled' = TRUE \/ (misled' = FALSE /\ Strays(stray'))
      BY <2>2, <3>1, StraysNext
    <3>3. Inv' \/ misled'
      BY <2>2, <3>1, InvNext
    <3> QED
      BY <3>2, <3>3 DEF IInv, Strays
  <2>3. ASSUME IInv, UNCHANGED vars PROVE IInv'
    BY <2>3 DEF vars, IInv, Inv, Strays
  <2> QED
    BY <2>1, <2>2, <2>3 DEF IInv
<1> QED
  BY <1>1, <1>2, PTL DEF Spec

\* Until the client is misled the state has its types: indices are nodes of the tree
\* and offsets bytes of the page, in every loop.
THEOREM BuddyTypeCorrect == Spec => [](~misled => TypeOK)
<1>1. ASSUME IInv, ~misled PROVE TypeOK
  <2>1. /\ blocks \in Nat /\ Pages(nodes, mem) /\ call \in Calls(Len(nodes)) /\ cur \in Cursors
        /\ Sound(Len(nodes), mem, owned)
    BY <1>1, Phases DEF IInv
  <2>2. Pointer = Place(Len(nodes)) /\ AnyAllocation = Record(Len(nodes))
    BY DEF Pointer, Place, AnyAllocation, Record
  <2>3. pc \in {"idle", "try", "search", "leave", "mark", "find", "unmark", "shrink", "expand"}
    BY <1>1 DEF IInv, Inv, Good, Loop
  <2>4. DOMAIN owned \subseteq Tag /\ \A g \in DOMAIN owned : owned[g] \in Record(Len(nodes))
    BY <2>1 DEF Sound, Sits
  <2>5. /\ misled \in BOOLEAN /\ DOMAIN stray \subseteq Tag
        /\ \A g \in DOMAIN stray : stray[g] \in [at : Nat \X (Byte \cup {NULL}), size : Nat, filled : Nat]
    BY <1>1 DEF IInv, Strays, AnyRecord
  <2> QED
    BY <2>1, <2>2, <2>3, <2>4, <2>5 DEF TypeOK, Pages, Calls, Cursors
<1> QED
  BY <1>1, Invariance, PTL

\* No two allocations share a byte and none leaves its page, in the middle of a call
\* as well: for every depth, granularity and sequence of calls.
THEOREM BuddyNoOverlap == Spec => []NoOverlap
<1>1. ASSUME IInv, ~misled PROVE NoOverlap
  <2> DEFINE k == Len(nodes)
  <2>1. Pages(nodes, mem) /\ Sound(k, mem, owned)
    BY <1>1, Phases DEF IInv
  <2>2. k \in Nat /\ DOMAIN nodes = 1 .. k
    BY <2>1, PagesFacts
  <2>3. ASSUME NEW g \in DOMAIN owned
        PROVE  /\ Sits(k, owned[g]) /\ owned[g].at[1] \in 1 .. k
               /\ \A p \in Extent(owned[g]) :
                    /\ p[1] = owned[g].at[1] /\ p[2] \in Byte /\ p[2] \in Nat
                    /\ Begin(NodeOf(owned[g])) <= p[2]
                    /\ p[2] < Begin(NodeOf(owned[g])) + Width(NodeOf(owned[g]))
    <3> DEFINE o == owned[g]
    <3>1. Sits(k, o)
      BY <2>1 DEF Sound
    <3>2. o.at[1] \in 1 .. k /\ o.at[2] \in Nat /\ o.size \in Nat
      BY <2>2, <3>1, SitsFacts, Constants DEF Byte
    <3> HIDE DEF o
    <3>3. ASSUME NEW p \in Extent(o)
          PROVE  /\ p[1] = o.at[1] /\ p[2] \in Byte /\ p[2] \in Nat
                 /\ Begin(NodeOf(o)) <= p[2] /\ p[2] < Begin(NodeOf(o)) + Width(NodeOf(o))
      <4>1. PICK x \in o.at[2] .. o.at[2] + o.size - 1 : p = <<o.at[1], x>>
        BY DEF Extent
      <4>2. x - o.at[2] \in 0 .. o.size - 1 /\ o.at[2] + (x - o.at[2]) = x
        BY <3>2
      <4> QED
        BY <2>2, <3>1, <4>1, <4>2, BytesIn
    <3> QED
      BY <3>1, <3>2, <3>3 DEF o
  <2>4. ASSUME NEW g \in DOMAIN owned, NEW h \in DOMAIN owned, g # h,
               NEW p \in Extent(owned[g]), p \in Extent(owned[h])
        PROVE  FALSE
    <3> DEFINE i == NodeOf(owned[g])
               j == NodeOf(owned[h])
    <3>1. owned[g].at[1] = owned[h].at[1] /\ i \in Node /\ j \in Node
      BY <2>3, <2>4 DEF Sits
    <3>2. i \notin PathToRoot(j) /\ j \notin PathToRoot(i)
      BY <2>1, <2>4, <3>1 DEF Sound, Apart
    <3>3. Disjoint(i, j)
      BY <3>1, <3>2, PathDisjoint
    <3>4. /\ Begin(i) \in Nat /\ Begin(j) \in Nat /\ Width(i) \in Nat /\ Width(j) \in Nat
      BY <3>1, NodeFacts
    <3>5. /\ p[2] \in Nat /\ Begin(i) <= p[2] /\ p[2] < Begin(i) + Width(i)
          /\ Begin(j) <= p[2] /\ p[2] < Begin(j) + Width(j)
      BY <2>3, <2>4
    <3> HIDE DEF i, j
    <3> QED
      BY <3>3, <3>4, <3>5 DEF Disjoint
  <2> QED
    BY <2>2, <2>3, <2>4 DEF NoOverlap
<1>2. IInv => NoOverlap
  BY <1>1 DEF NoOverlap
<1> QED
  BY <1>2, Invariance, PTL

\* What the client wrote stays: realloc carries it along wherever the allocation
\* goes, and no other call touches it.
THEOREM BuddyDataIntact == Spec => []DataIntact
<1>1. ASSUME IInv, ~misled PROVE DataIntact
  <2>1. Sound(Len(nodes), mem, owned)
    BY <1>1, Phases DEF IInv
  <2> QED
    BY <2>1 DEF Sound, Written, DataIntact
<1>2. IInv => DataIntact
  BY <1>1 DEF DataIntact
<1> QED
  BY <1>2, Invariance, PTL

\* Between calls each bitmap is exactly what the allocations call for: every loop that
\* marks or unmarks the way to the root stops at the right node.
THEOREM BuddyBitmapExact == Spec => []BitmapExact
<1>1. ASSUME Inv, ~misled, pc = "idle", NEW a \in DOMAIN nodes
      PROVE  nodes[a] = UNION {PathToRoot(NodeOf(owned[g])) :
                                 g \in {h \in DOMAIN owned : owned[h].at[1] = a}}
  <2>1. Pages(nodes, mem) /\ Exactly(nodes, owned, 0)
    BY <1>1, Phases DEF IdleInv
  <2>2. a \in 1 .. Len(nodes) /\ a # 0
    BY <2>1, PagesFacts
  <2>3. nodes[a] = Marks(NodesIn(owned, a))
    BY <2>1, <2>2 DEF Exactly
  <2> QED
    BY <2>3 DEF Marks, NodesIn
<1>2. IInv => BitmapExact
  BY <1>1 DEF IInv, BitmapExact
<1> QED
  BY <1>2, Invariance, PTL

\* The search is complete: when it gives up on the chain, and asks the kernel for a
\* page, no allocator has a free node on the level the request needs.
THEOREM BuddyNoNeedlessPage == Spec => []NoNeedlessPage
<1>1. ASSUME Inv, ~misled, pc = "try", cur.a > Len(nodes), call.size <= MaximalAllocation,
             NEW a \in DOMAIN nodes, HasRoom(a, call.size)
      PROVE  FALSE
  <2> DEFINE b == LevelOf(call.size)
  <2>1. /\ Pages(nodes, mem) /\ call \in Calls(Len(nodes))
        /\ TryInv(nodes, mem, owned, call, cur)
    BY <1>1, Phases
  <2>2. /\ Len(nodes) \in Nat /\ a \in 1 .. Len(nodes) /\ Wanting(Len(nodes), mem, owned, call)
        /\ call.size \in Nat /\ MaximalAllocation \in Nat /\ cur.a \in Nat
    BY <2>1, PagesFacts, Constants DEF TryInv, Calls
  <2>3. Tried(owned, call, cur.a)
    BY <1>1, <2>1, <2>2 DEF TryInv
  <2>4. a \in 1 .. cur.a - 1
    BY <1>1, <2>2
  <2>5. Full(owned, a, call.size)
    BY <2>3, <2>4 DEF Tried
  <2>6. b \in 0 .. Depth - 1
    BY <1>1, <2>1, <2>2, WantedSize
  <2>7. PICK i \in Node : /\ Pow2[b] - 1 <= i /\ i < Pow2[b + 1] - 1
                          /\ \A g \in DOMAIN owned : owned[g].at[1] = a =>
                               /\ i \notin PathToRoot(NodeOf(owned[g]))
                               /\ NodeOf(owned[g]) \notin PathToRoot(i)
    BY <1>1 DEF HasRoom
  <2>8. Bucket(i) = b
    <3>1. b \in Nat /\ i \in Int
      BY <2>6, NodesAreNumbers, Constants
    <3>2. Pow2[b + 1] = 2 * Pow2[b]
      BY <3>1, Powers
    <3>3. At(i, b)
      BY <2>7, <3>2 DEF At
    <3> QED
      BY <2>6, <3>1, <3>3, BucketIs
  <2>9. Beside(NodesIn(owned, a), i)
    BY <2>7 DEF Beside, NodesIn
  <2> QED
    BY <2>5, <2>8, <2>9 DEF Full
<1>2. IInv => NoNeedlessPage
  BY <1>1 DEF IInv, NoNeedlessPage
<1> QED
  BY <1>2, Invariance, PTL

\* memcpy never gets ranges that overlap.
THEOREM BuddyCopiesApart == Spec => []CopiesApart
<1>1. ASSUME Inv, ~misled, call.op = "realloc", Destination # call.old.at, Destination[1] = call.old.at[1]
      PROVE  \/ Destination[2] + call.current <= call.old.at[2]
             \/ call.old.at[2] + call.current <= Destination[2]
  <2> DEFINE k == Len(nodes)
             o == Old(call)
  <2>1. /\ Pages(nodes, mem) /\ call \in Calls(k) /\ cur \in Cursors
        /\ Sound(k, mem, owned)
        /\ pc = "mark" => MarkInv(nodes, mem, owned, call, cur)
        /\ pc = "expand" => ExpandInv(nodes, mem, owned, call, cur)
    BY <1>1, Phases
  <2>2. k \in Nat
    BY <2>1, PagesFacts
  <2>3. ASSUME Growing(k, mem, owned, call)
        PROVE  /\ o \in Node /\ Begin(o) = call.old.at[2] /\ call.current = Width(o)
               /\ Begin(o) \in Nat /\ Width(o) \in Nat /\ call.size > Width(o)
               /\ call.old.at = <<OldPage(call), Begin(o)>>
    <3>1. Sits(k, call.old) /\ call.current = Width(o) /\ call.size > call.current
      BY <2>3 DEF Growing, Moving
    <3>2. o \in Node /\ Begin(o) = call.old.at[2] /\ call.old.at = <<OldPage(call), Begin(o)>>
      BY <2>2, <3>1, SitsFacts DEF Old, OldPage
    <3> QED
      BY <3>1, <3>2, NodeFacts
  <2>4. CASE pc = "mark" /\ cur.i = 0
    <3>1. Destination = <<cur.a, cur.offset>>
      BY <2>4 DEF Destination
    <3>2. /\ Searching(nodes, mem, owned, call, cur)
      BY <2>1, <2>4 DEF MarkInv
    <3>3. PICK n \in Node : /\ Bucket(n) = LevelOf(call.size) /\ Begin(n) = cur.offset
                            /\ Beside(NodesIn(owned, cur.a), n)
      BY <2>1, <2>4 DEF MarkInv
    <3>4. Growing(k, mem, owned, call) /\ call.size <= MaximalAllocation
          /\ Wanting(k, mem, owned, call)
      BY <1>1, <3>2 DEF Searching, Wanting, Asked
    <3>5. /\ o \in Node /\ Begin(o) = call.old.at[2] /\ call.current = Width(o)
          /\ Begin(o) \in Nat /\ Width(o) \in Nat /\ call.size > Width(o)
          /\ cur.a = OldPage(call)
      BY <1>1, <2>3, <3>1, <3>4 DEF OldPage
    <3>6. cur.as = "realloc"
      BY <1>1, <3>2, <3>3, <3>5 DEF Searching, Tried, Full
    <3>7. n \notin PathToRoot(o)
      BY <3>2, <3>3, <3>6 DEF Searching
    <3>8. call.size \in 1 .. MaximalAllocation /\ call.size \in 0 .. MaximalAllocation
      BY <2>1, <2>2, <3>4, WantedSize, Constants
    <3>9. o \notin PathToRoot(n)
      <4>1. Bucket(o) \in 0 .. Depth - 1 /\ Bucket(n) \in 0 .. Depth - 1
        BY <3>5, NodeFacts
      <4>2. Bucket(n) < Bucket(o)
        BY <3>3, <3>5, <3>8, <4>1, LevelBelow DEF Width
      <4>3. o \in PathToRoot(n) => Bucket(o) <= Bucket(n)
        BY PathNested
      <4> QED
        BY <4>1, <4>2, <4>3, Constants
    <3>10. Disjoint(n, o)
      BY <3>5, <3>7, <3>9, PathDisjoint
    <3>11. call.size <= Width(n) /\ Width(n) \in Nat /\ Begin(n) \in Nat /\ call.size \in Nat
      BY <3>3, <3>8, LevelFits, NodeFacts, Constants DEF Width
    <3>12. Destination[2] = Begin(n)
      BY <3>1, <3>3
    <3> HIDE DEF o
    <3> QED
      BY <3>5, <3>10, <3>11, <3>12 DEF Disjoint
  <2>5. CASE pc = "expand" /\ bucket_size(cur.bucket) >= call.size
    <3>1. Destination = <<cur.a, node_to_pointer(cur.i, cur.bucket)>>
      BY <2>5 DEF Destination
    <3>2. /\ Growing(k, mem, owned, call) /\ cur.bucket = Bucket(cur.i) /\ cur.i \in PathToRoot(o)
          /\ cur.a = OldPage(call)
      BY <2>1, <2>5 DEF ExpandInv, Resizing
    <3>3. /\ o \in Node /\ Begin(o) = call.old.at[2] /\ call.current = Width(o)
          /\ call.old.at = <<OldPage(call), Begin(o)>>
      BY <2>3, <3>2
    <3>4. Destination = <<OldPage(call), Begin(cur.i)>>
      BY <3>1, <3>2 DEF Begin
    <3>5. Begin(cur.i) # Begin(o)
      BY <1>1, <3>3, <3>4
    <3>6. Begin(cur.i) + Width(o) <= Begin(o)
      BY <3>2, <3>3, <3>5, PathNested
    <3> QED
      BY <3>3, <3>4, <3>6
  <2>6. CASE ~(pc = "mark" /\ cur.i = 0) /\ ~(pc = "expand" /\ bucket_size(cur.bucket) >= call.size)
    BY <1>1, <2>6 DEF Destination
  <2> QED
    BY <2>4, <2>5, <2>6
<1>2. IInv => CopiesApart
  BY <1>1 DEF IInv, CopiesApart
<1> QED
  BY <1>2, Invariance, PTL
=============================================================================
