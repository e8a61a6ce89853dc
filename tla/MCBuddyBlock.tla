---------------------------- MODULE MCBuddyBlock ----------------------------
(* Finite instances of BuddyBlock. *)
EXTENDS BuddyBlock, TLC

TagSymmetry == Permutations(Tag)
=============================================================================
