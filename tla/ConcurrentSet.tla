---------------------------- MODULE ConcurrentSet ----------------------------
(***************************************************************************)
(* What a concurrent set of keys promises to the threads that call it: each *)
(* call behaves as if it took effect at one instant between its invocation *)
(* and its return.  A call that changes the set does so in Effect.  A call *)
(* that only reports (a lookup, an insertion of a key that is there, a     *)
(* removal of a key that is not) may be placed at any instant of its       *)
(* interval; `seen` collects what those instants show of its key.          *)
(***************************************************************************)
CONSTANTS Thread, Key

VARIABLES contents,  \* the keys in the set
          call,      \* <<operation, key>> of the call each thread executes, or NoCall
          seen,      \* whether that key was in the set, at the instants of the call so far
          answer     \* "yes" or "no" once the outcome of the call is settled

cvars == <<contents, call, seen, answer>>

NoCall == <<>>

Init == /\ contents = {}
        /\ call = [t \in Thread |-> NoCall]
        /\ seen = [t \in Thread |-> {}]
        /\ answer = [t \in Thread |-> "none"]

Invoke(t, o, k) == /\ call[t] = NoCall
                   /\ call' = [call EXCEPT ![t] = <<o, k>>]
                   /\ seen' = [seen EXCEPT ![t] = {z \in BOOLEAN : z = (k \in contents)}]
                   /\ UNCHANGED <<contents, answer>>

\* Every call in progress on key k sees the key come or go.
Witness(k, present) ==
  seen' = [u \in Thread |-> IF call[u] # NoCall /\ call[u][2] = k
                              THEN seen[u] \cup {present} ELSE seen[u]]

Settle(t, a) == answer[t] = "none" /\ answer' = [answer EXCEPT ![t] = a]

\* A successful insertion or removal.
Effect(t, k) == /\ Settle(t, "yes")
                /\ \/ /\ call[t] = <<"insert", k>> /\ k \notin contents
                      /\ contents' = contents \cup {k}
                      /\ Witness(k, TRUE)
                   \/ /\ call[t] = <<"remove", k>> /\ k \in contents
                      /\ contents' = contents \ {k}
                      /\ Witness(k, FALSE)
                /\ UNCHANGED call

\* An answer some instant of the call justifies.
Report(t) == /\ call[t] # NoCall
             /\ \/ call[t][1] = "find"   /\ TRUE \in seen[t]  /\ Settle(t, "yes")
                \/ call[t][1] = "find"   /\ FALSE \in seen[t] /\ Settle(t, "no")
                \/ call[t][1] = "insert" /\ TRUE \in seen[t]  /\ Settle(t, "no")
                \/ call[t][1] = "remove" /\ FALSE \in seen[t] /\ Settle(t, "no")
             /\ UNCHANGED <<contents, call, seen>>

Return(t) == /\ answer[t] # "none"
             /\ call' = [call EXCEPT ![t] = NoCall]
             /\ seen' = [seen EXCEPT ![t] = {}]
             /\ answer' = [answer EXCEPT ![t] = "none"]
             /\ UNCHANGED contents

Next == \E t \in Thread :
          \/ \E o \in {"insert", "remove", "find"}, k \in Key : Invoke(t, o, k)
          \/ \E k \in Key : Effect(t, k)
          \/ Report(t)
          \/ Return(t)

Spec == Init /\ [][Next]_cvars
=============================================================================
