--------------------------- MODULE MCCounterServer ---------------------------
(* Finite instances of CounterServer. *)
EXTENDS CounterServer

\* Client 1 belongs to the program that may be killed.
ThreeClients == 1 .. 3
SomeRequests == <<1, 0, 0>>
=============================================================================
