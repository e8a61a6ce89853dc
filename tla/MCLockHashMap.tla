---------------------------- MODULE MCLockHashMap ----------------------------
(* Finite instances of LockHashMap. *)
EXTENDS LockHashMap

\* One of the values is negative: getIndex works with unsigned arithmetic.
MixedKeys == {-3, 1}
=============================================================================
