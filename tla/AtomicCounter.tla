---------------------------- MODULE AtomicCounter ----------------------------
(***************************************************************************)
(* What the counter server promises (task6-sockets/README.md): one global  *)
(* counter that the requests of all clients update atomically, each        *)
(* client's requests in the order it made them, and an answer that is the  *)
(* counter after all requests of the client it goes to.  A request is the  *)
(* sequence of the amounts it adds one after the other, the last one is    *)
(* End.                                                                    *)
(***************************************************************************)
EXTENDS Integers, Sequences

CONSTANTS Client, None, End

VARIABLES value,   \* the counter
          queue,   \* client -> the requests it made that are not finished
          answer   \* client -> the value it is told, None before

vars == <<value, queue, answer>>

Init == /\ value = 0
        /\ queue = [c \in Client |-> <<>>]
        /\ answer = [c \in Client |-> None]

Ended(c) == answer[c] # None \/ \E i \in DOMAIN queue[c] : queue[c][i] = End

Ask(c, request) == /\ ~ Ended(c)
                   /\ queue' = [queue EXCEPT ![c] = Append(@, request)]
                   /\ UNCHANGED <<value, answer>>

\* One amount of the oldest request
Apply(c) ==
  /\ queue[c] # <<>> /\ Head(queue[c]) # End
  /\ value' = value + Head(Head(queue[c]))
  /\ queue' = [queue EXCEPT ![c] =
                 IF Len(Head(@)) = 1 THEN Tail(@) ELSE <<Tail(Head(@))>> \o Tail(@)]
  /\ UNCHANGED answer

Answer(c) == /\ queue[c] # <<>> /\ Head(queue[c]) = End
             /\ answer' = [answer EXCEPT ![c] = value]
             /\ queue' = [queue EXCEPT ![c] = Tail(@)]
             /\ UNCHANGED value

\* ADD 2 and ADD 3, or SUB 2, or the termination request
Request == {<<2, 3>>, <<-2>>, End}

Next == \E c \in Client : \/ \E request \in Request : Ask(c, request)
                          \/ Apply(c) \/ Answer(c)

Spec == Init /\ [][Next]_vars
=============================================================================
