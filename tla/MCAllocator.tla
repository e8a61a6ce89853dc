----------------------------- MODULE MCAllocator -----------------------------
(* Finite instances of Allocator. *)
EXTENDS Allocator, TLC

TagSymmetry == Permutations(Tag)

\* Addresses below zero are the cells of the small allocators.
TwoBuddies == {-1, -2}
TwoSlots == {-3, -4}

\* Buddies of one and of two words.
SmallBuckets == <<1, 2>>

\* A block of the slot allocator, and a product at the threshold of a size below it.
SomeCalloc == {<<1, 3>>, <<2, 2>>}
=============================================================================
