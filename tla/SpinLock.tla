------------------------------ MODULE SpinLock ------------------------------
(***************************************************************************)
(* task4-concurrency/src/spinlock.cpp: a spin lock on one atomic word,     *)
(* taken and released with compare_exchange_weak, and the threads that     *)
(* call it.  A step of a thread is one atomic access or one local test.    *)
(* A weak exchange may fail although the word holds the expected value.    *)
(* The functions look at `expected` after the exchange, never at the value *)
(* the exchange returns, so they take such a failure for a success.  The   *)
(* last two variables record these failures; no step depends on them.      *)
(***************************************************************************)
EXTENDS Naturals, Threads

CONSTANT MaxStrays   \* how many acquiring exchanges may fail spuriously

ASSUME StraysAssumption == MaxStrays \in Nat

LockState == {"Locked", "Unlocked"}

VARIABLES lock,        \* SpinLock::lock, or "None" when no lock object exists
          place,       \* where each thread is
          expected,    \* the local `expected` of the call in progress
          strays,      \* history: acquiring exchanges that failed on an Unlocked word
          unreleased   \* history: an unlocking exchange failed on the Locked word,
                       \* and none has taken place since

spinVars == <<lock, place, expected, strays, unreleased>>

SpinPC == {"idle", "lock_cas", "lock_test", "try_cas", "try_test", "cs", "unlock_cas"}

SpinInit == /\ lock = "None"
            /\ place = [t \in Thread |-> "idle"]
            /\ expected = [t \in Thread |-> "Unlocked"]
            /\ strays = 0
            /\ unreleased = FALSE

cspin_alloc == /\ lock = "None"
               /\ lock' = "Unlocked"
               /\ UNCHANGED <<place, expected, strays, unreleased>>

\* Callers free a lock only when nobody uses it any more.
cspin_free == /\ lock # "None"
              /\ \A t \in Thread : place[t] = "idle"
              /\ lock' = "None"
              /\ strays' = 0
              /\ unreleased' = FALSE
              /\ UNCHANGED <<place, expected>>

SpinGoto(t, from, to) == place[t] = from /\ place' = [place EXCEPT ![t] = to]

\* An exchange that fails although the word holds `want`.
SpuriousFailure(want) ==
  /\ lock = want
  /\ \/ /\ want = "Unlocked"
        /\ strays < MaxStrays
        /\ strays' = strays + 1
        /\ UNCHANGED unreleased
     \/ /\ want = "Locked"
        /\ unreleased' = TRUE
        /\ UNCHANGED strays
  /\ UNCHANGED lock

\* lock.compare_exchange_weak(want, desired): `expected` ends up holding the
\* word's value at the time of the access, whether the exchange took place or not.
CompareExchangeWeak(t, want, desired) ==
  /\ expected' = [expected EXCEPT ![t] = lock]
  /\ \/ /\ lock = want
        /\ lock' = desired
        /\ unreleased' = FALSE
        /\ UNCHANGED strays
     \/ /\ lock # want
        /\ UNCHANGED <<lock, strays, unreleased>>
     \/ SpuriousFailure(want)

\* A thread calls one of the three functions.  Only a thread that was told it
\* has the lock calls cspin_unlock.
CallLock(t) == /\ lock # "None"
               /\ SpinGoto(t, "idle", "lock_cas")
               /\ UNCHANGED <<lock, expected, strays, unreleased>>

CallTryLock(t) == /\ lock # "None"
                  /\ SpinGoto(t, "idle", "try_cas")
                  /\ UNCHANGED <<lock, expected, strays, unreleased>>

CallUnlock(t) == /\ SpinGoto(t, "cs", "unlock_cas")
                 /\ UNCHANGED <<lock, expected, strays, unreleased>>

LockCas(t) == /\ SpinGoto(t, "lock_cas", "lock_test")
              /\ CompareExchangeWeak(t, "Unlocked", "Locked")

\* Seeded fault: the result of the exchange is not looked at.
LockTest_Unchecked(t) == /\ SpinGoto(t, "lock_test", "cs")
                         /\ UNCHANGED <<lock, expected, strays, unreleased>>

LockTest(t) == /\ SpinGoto(t, "lock_test",
                           IF expected[t] = "Unlocked" THEN "cs" ELSE "lock_cas")
               /\ UNCHANGED <<lock, expected, strays, unreleased>>

TryLockCas(t) == /\ SpinGoto(t, "try_cas", "try_test")
                 /\ CompareExchangeWeak(t, "Unlocked", "Locked")

\* Seeded fault: trylock reports success in any case.
TryLockReturn_Unchecked(t) == /\ SpinGoto(t, "try_test", "cs")
                              /\ UNCHANGED <<lock, expected, strays, unreleased>>

TryLockReturn(t) == /\ SpinGoto(t, "try_test",
                                IF expected[t] = "Unlocked" THEN "cs" ELSE "idle")
                    /\ UNCHANGED <<lock, expected, strays, unreleased>>

\* Seeded fault: the release expects the wrong value, so it never takes place.
UnlockCas_Lost(t) == /\ SpinGoto(t, "unlock_cas", "idle")
                     /\ CompareExchangeWeak(t, "Unlocked", "Unlocked")

UnlockCas(t) == /\ SpinGoto(t, "unlock_cas", "idle")
                /\ CompareExchangeWeak(t, "Locked", "Unlocked")

cspin_lock(t) == LockCas(t) \/ LockTest(t)

cspin_trylock(t) == TryLockCas(t) \/ TryLockReturn(t)

cspin_unlock(t) == UnlockCas(t)

SpinCall(t) == CallLock(t) \/ CallTryLock(t) \/ CallUnlock(t)

SpinNext == \/ cspin_alloc
            \/ cspin_free
            \/ \E t \in Thread : SpinCall(t) \/ cspin_lock(t) \/ cspin_trylock(t) \/ cspin_unlock(t)

(***************************************************************************)
(* A running thread is scheduled again and again, and a critical section   *)
(* ends.  Nobody is obliged to call the lock.                              *)
(***************************************************************************)
SpinFairness == \A t \in Thread :
  /\ WF_spinVars(cspin_lock(t))
  /\ WF_spinVars(cspin_trylock(t))
  /\ WF_spinVars(cspin_unlock(t))
  /\ WF_spinVars(CallUnlock(t))

SpinSpec == SpinInit /\ [][SpinNext]_spinVars /\ SpinFairness

-----------------------------------------------------------------------------
(* Properties *)

\* Every variable keeps its type.
SpinTypeOK == /\ lock \in LockState \cup {"None"}
              /\ place \in [Thread -> SpinPC]
              /\ expected \in [Thread -> LockState \cup {"None"}]
              /\ strays \in 0..MaxStrays
              /\ unreleased \in BOOLEAN

InCriticalSection(t) == place[t] \in {"cs", "unlock_cas"}

SpinInside == {t \in Thread : InCriticalSection(t)}

\* cspin_lock and cspin_trylock let at most one thread past the lock, and one
\* more for every acquiring exchange that has failed on an Unlocked word: the
\* test of `expected` (spinlock.cpp:30, 41) admits the thread it failed for, and
\* nothing else does, in whatever order the intruder and the owner unlock.
MutualExclusion == Cardinality(SpinInside) <= 1 + strays

\* When no call is in progress and nobody is inside, the word is Locked exactly
\* if the exchange of a cspin_unlock failed on it and nobody has made up for it
\* (spinlock.cpp:47 does not look at the outcome): every other unlock released
\* the lock, an intruder's too.
UnlockReleases == (\A t \in Thread : place[t] = "idle") => (lock = "Locked" <=> unreleased)

\* t takes the lock for its own, whether it has noticed yet or not.
Owns(t) == \/ InCriticalSection(t)
           \/ place[t] \in {"lock_test", "try_test"} /\ expected[t] = "Unlocked"

Owners == {t \in Thread : Owns(t)}

\* The inductive form: there are no more owners than the Locked word and the
\* failed exchanges account for, a Locked word has an owner or was not released,
\* and the lock object exists as long as somebody is using it.
LockInv ==
  /\ Cardinality(Owners) <= strays + (IF lock = "Locked" THEN 1 ELSE 0)
  /\ lock = "Locked" => unreleased \/ \E t \in Thread : Owns(t)
  /\ unreleased => lock = "Locked"
  /\ lock = "None" => \A t \in Thread : place[t] = "idle"

\* Threads that wait in cspin_lock do not wait for nothing: as long as some
\* thread is waiting, some thread gets in again and again, unless a cspin_unlock
\* has left the word Locked (spinlock.cpp:47).  Starvation of one waiter is
\* possible, and spurious failures of the acquiring exchange do no harm here.
LockProgress ==
  (\E t \in Thread : place[t] \in {"lock_cas", "lock_test"})
     ~> ((\E t \in Thread : place[t] = "cs") \/ unreleased)

\* The spin lock implements Mutex: the owner is the thread that won the
\* exchange, and a thread is inside from the return of its lock call to the
\* exchange of its unlock.
Owner == IF \E t \in Thread : Owns(t) THEN CHOOSE t \in Thread : Owns(t) ELSE NoThread

M == INSTANCE Mutex WITH holder <- Owner, inside <- SpinInside

\* cspin_lock, cspin_trylock and cspin_unlock behave as an abstract mutex until
\* an acquiring exchange of this lock object fails spuriously (spinlock.cpp:29,
\* 40).  Releases may fail: the lock is then no longer given out, but never twice.
ImplementsMutex == M!Init /\ [][M!Next \/ strays' > 0]_(M!mvars)
=============================================================================
