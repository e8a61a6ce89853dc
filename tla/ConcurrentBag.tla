---------------------------- MODULE ConcurrentBag ----------------------------
(***************************************************************************)
(* What a concurrent bag of values promises: every call takes effect and   *)
(* has its answer settled at one instant between its invocation and its    *)
(* return.  A value may be in the bag several times.                       *)
(***************************************************************************)
EXTENDS Naturals

CONSTANTS Thread, Key

VARIABLES count,   \* how often each value is in the bag
          call,    \* <<operation, value>> of the call each thread executes, or NoCall
          answer   \* "yes" or "no" once the call has taken effect

bvars == <<count, call, answer>>

NoCall == <<>>

Init == /\ count = [k \in Key |-> 0]
        /\ call = [t \in Thread |-> NoCall]
        /\ answer = [t \in Thread |-> "none"]

Invoke(t, o, k) == /\ call[t] = NoCall
                   /\ call' = [call EXCEPT ![t] = <<o, k>>]
                   /\ UNCHANGED <<count, answer>>

Settle(t, a) == answer[t] = "none" /\ answer' = [answer EXCEPT ![t] = a]

Insert(t, k) == /\ call[t] = <<"insert", k>>
                /\ Settle(t, "yes")
                /\ count' = [count EXCEPT ![k] = @ + 1]
                /\ UNCHANGED call

Remove(t, k) == /\ call[t] = <<"remove", k>>
                /\ IF count[k] > 0
                     THEN Settle(t, "yes") /\ count' = [count EXCEPT ![k] = @ - 1]
                     ELSE Settle(t, "no") /\ UNCHANGED count
                /\ UNCHANGED call

Lookup(t, k) == /\ call[t] = <<"lookup", k>>
                /\ Settle(t, IF count[k] > 0 THEN "yes" ELSE "no")
                /\ UNCHANGED <<count, call>>

Return(t) == /\ answer[t] # "none"
             /\ call' = [call EXCEPT ![t] = NoCall]
             /\ answer' = [answer EXCEPT ![t] = "none"]
             /\ UNCHANGED count

\* The bag is given up when nobody uses it.
Free == /\ \A t \in Thread : call[t] = NoCall
        /\ count' = [k \in Key |-> 0]
        /\ UNCHANGED <<call, answer>>

Next == \/ \E t \in Thread :
             \/ \E o \in {"insert", "remove", "lookup"}, k \in Key : Invoke(t, o, k)
             \/ \E k \in Key : Insert(t, k) \/ Remove(t, k) \/ Lookup(t, k)
             \/ Return(t)
        \/ Free

Spec == Init /\ [][Next]_bvars
=============================================================================
