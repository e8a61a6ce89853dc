------------------------------ MODULE Threads -------------------------------
(* The threads that share a lock or a map of task4-concurrency. *)
EXTENDS FiniteSets

CONSTANTS Thread,
          NoThread   \* not a thread

ASSUME ThreadAssumption == NoThread \notin Thread /\ IsFiniteSet(Thread)
=============================================================================
