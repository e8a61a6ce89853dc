----------------------------- MODULE BuddyTree -----------------------------
(***************************************************************************)
(* task5-memory/src/buddy_allocator.c: the tree of one buddy allocator.    *)
(* Its page is halved Depth - 1 times; the nodes of the binary tree of     *)
(* halves are numbered from 0 in level order and a bitmap, here the set of *)
(* marked indices, records which are in use.  A node that is marked and    *)
(* has no marked child is an allocation; an inner node is marked when      *)
(* something below it is.  An offset counts bytes from the beginning of    *)
(* the page.                                                               *)
(***************************************************************************)
EXTENDS Integers

CONSTANTS Depth,        \* BUDDY_ALLOCATOR_DEPTH: the number of levels
          Granularity   \* ALLOCATION_GRANULARITY: the bytes of a leaf

ASSUME DepthAssumption == Depth \in Nat \ {0}
ASSUME GranularityAssumption == Granularity \in Nat \ {0}

\* 1 << n
Pow2[n \in Nat] == IF n = 0 THEN 1 ELSE 2 * Pow2[n - 1]

NodeCount == Pow2[Depth] - 1
Node == 0 .. NodeCount - 1
MaximalAllocation == Granularity * Pow2[Depth - 1]

\* Where there is no room, and where there is no node.
NULL == -1

bucket_size(bucket) == IF bucket >= Depth THEN 0 ELSE Granularity * Pow2[Depth - 1 - bucket]

left(i) == 2 * i + 1
right(i) == 2 * i + 2
parent(i) == (i - 1) \div 2

\* ((i - 1) ^ 1) + 1: the other child of the parent.  The root's is ~0u.
sibling(i) == IF i % 2 = 1 THEN i + 1 ELSE i - 1
is_left(i) == i = 0 \/ i < sibling(i)

\* The comment in the source says that a node whose children are both marked is
\* not split; the code says that it is, and find_buddy depends on it.
is_split(marked, i, bucket) ==
  bucket < Depth - 1 /\ (left(i) \in marked \/ right(i) \in marked)

node_to_pointer(i, bucket) == (i - Pow2[bucket] + 1) * bucket_size(bucket)

\* i and the nodes above it.
PathToRoot(i) == {((i + 1) \div Pow2[n]) - 1 : n \in 0 .. Depth} \ {NULL}
=============================================================================
