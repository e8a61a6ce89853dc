-------------------------- MODULE MCLockFreeHashMap --------------------------
(* Finite instances of LockFreeHashMap. *)
EXTENDS LockFreeHashMap, TLC

ThreadSymmetry == Permutations(Thread)

\* Two keys of one list: one below the key the sentinel carries, and that key.
TwoKeys == {-3, 0}

\* A negative key wraps to the top of size_t before it is reduced; 0 is the key
\* the sentinels carry.
MixedKeys == {-3, 0, 1}
=============================================================================
