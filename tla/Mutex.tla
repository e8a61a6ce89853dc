------------------------------- MODULE Mutex -------------------------------
(***************************************************************************)
(* What a lock promises: at most one thread holds it, only the holder is   *)
(* told that it is inside, and only a thread that is inside gives it up.   *)
(* The specification says nothing of how a thread waits.                   *)
(***************************************************************************)
EXTENDS Naturals

CONSTANTS Thread, NoThread

VARIABLES holder,  \* the thread that owns the lock, or NoThread
          inside   \* the threads whose lock call has returned "acquired"

mvars == <<holder, inside>>

Init == holder = NoThread /\ inside = {}

\* The lock changes hands; its new owner does not know it yet.
Acquire(t) == /\ holder = NoThread
              /\ holder' = t
              /\ UNCHANGED inside

\* The lock call of the owner returns.
Enter(t) == /\ holder = t
            /\ inside' = inside \cup {t}
            /\ UNCHANGED holder

Release(t) == /\ holder = t
              /\ t \in inside
              /\ holder' = NoThread
              /\ inside' = inside \ {t}

Next == \E t \in Thread : Acquire(t) \/ Enter(t) \/ Release(t)

Spec == Init /\ [][Next]_mvars
=============================================================================
