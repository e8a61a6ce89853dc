-------------------------- MODULE MCSlotAllocator --------------------------
(* Finite instances of SlotAllocator. *)
EXTENDS SlotAllocator, TLC

TagSymmetry == Permutations(Tag)
=============================================================================
