---------------------------- MODULE CounterServer ----------------------------
(***************************************************************************)
(* task6-sockets: the server of server.cc (the accepting main thread and   *)
(* the worker threads), the clients of client.cc and util_msg.cc, and the  *)
(* framing of util.h over TCP.                                             *)
(*                                                                         *)
(* A message is a length and a payload, which arrive separately: wire[c]   *)
(* holds the complete messages client c has sent and the server has not    *)
(* read, and headOnly[c] says that the length of one more has arrived      *)
(* without its payload.  A payload is the sequence of the amounts its      *)
(* operations add, with Term for TERMINATION.                              *)
(*                                                                         *)
(* Every section a mutex protects touches the list of one worker once, so  *)
(* it is one step and the mutexes do not appear.                           *)
(***************************************************************************)
EXTENDS Integers, Sequences, FiniteSets

CONSTANTS Client,     \* the client threads
          Flaky,      \* those of a second client program, which may be killed
          Requests,   \* client -> request_count
          NWorkers,   \* nb_server_threads
          MaxFd,      \* bound: the descriptors the process may open
          ReplyBits,  \* the width of the result field of server_msg, 32
          Term,       \* the TERMINATION operation
          None        \* no client, no answer, no descriptor

ASSUME ClientAssumption == /\ IsFiniteSet(Client) /\ Client # {}
                           /\ Flaky \subseteq Client
                           /\ Requests \in [Client -> Nat]
ASSUME WorkerAssumption == NWorkers \in Nat \ {0}

Worker == 1 .. NWorkers
Fd == 1 .. MaxFd
Gone == -1     \* a list entry whose connection was closed

\* accept never runs out of descriptors.
ASSUME FdAssumption == MaxFd \in Nat /\ Cardinality(Client) <= MaxFd
ASSUME NoneAssumption == None \notin Client \cup Int
ASSUME TermAssumption == Term \notin Int

VARIABLES number,    \* the counter
          \* the kernel
          backlog,   \* clients connected and not accepted
          conn,      \* descriptor -> the client at the other end, None if closed
          wire, headOnly,
          hungUp,    \* clients that have closed or lost their connection
          \* the main thread
          turn,      \* whose connection is next
          fresh,     \* a descriptor accepted and not handed over, None else
          \* the workers
          list,      \* args.sockets
          copy,      \* the local copy of it
          idx,       \* i
          pc,        \* where the worker is
          ops,       \* what is left of the message being processed
          snapshot,  \* client -> the counter when its termination was processed
          \* the clients
          opNo,      \* the counter inside get_operation of each program, modulo 2
          stage,     \* where the client is
          left,      \* requests it has still to send
          out,       \* the message it is sending
          result     \* client -> what secure_recv brought it

kernel == <<backlog, conn, wire, headOnly, hungUp>>
acceptor == <<turn, fresh>>
workers == <<list, copy, idx, pc, ops, snapshot>>
clients == <<opNo, stage, left, out, result>>
vars == <<number, kernel, acceptor, workers, clients>>

Init == /\ number = 0
        /\ backlog = <<>>
        /\ conn = [f \in Fd |-> None]
        /\ wire = [c \in Client |-> <<>>]
        /\ headOnly = [c \in Client |-> FALSE]
        /\ hungUp = {}
        /\ turn = 1
        /\ fresh = None
        /\ list = [w \in Worker |-> <<>>]
        /\ copy = [w \in Worker |-> <<>>]
        /\ idx = [w \in Worker |-> 1]
        /\ pc = [w \in Worker |-> "wait"]
        /\ ops = [w \in Worker |-> <<>>]
        /\ snapshot = [c \in Client |-> None]
        /\ opNo = [program \in {"flaky", "steady"} |-> 0]
        /\ stage = [c \in Client |-> "start"]
        /\ left = Requests
        /\ out = [c \in Client |-> <<>>]
        /\ result = [c \in Client |-> None]

-----------------------------------------------------------------------------
(* The clients: client(), get_operation, send_termination_message *)

\* connect
Connect(c) == /\ stage[c] = "start"
              /\ backlog' = Append(backlog, c)
              /\ stage' = [stage EXCEPT ![c] = "send"]
              /\ UNCHANGED <<number, conn, wire, headOnly, hungUp, acceptor, workers,
                             opNo, left, out, result>>

\* The program a client thread belongs to.
Program(c) == IF c \in Flaky THEN "flaky" ELSE "steady"

\* get_operation: two additions and one subtraction in turns, whichever thread asks.
get_operation(c) == IF opNo[Program(c)] = 0 THEN <<2, 3>> ELSE <<-2>>

\* The next request, or the termination message after the last one; secure_send
\* has sent its length.
SendLength(c) ==
  /\ stage[c] = "send"
  /\ IF left[c] > 0
       THEN /\ out' = [out EXCEPT ![c] = get_operation(c)]
            /\ opNo' = [opNo EXCEPT ![Program(c)] = (@ + 1) % 2]
            /\ left' = [left EXCEPT ![c] = @ - 1]
       ELSE /\ out' = [out EXCEPT ![c] = <<Term>>]
            /\ UNCHANGED <<opNo, left>>
  /\ headOnly' = [headOnly EXCEPT ![c] = TRUE]
  /\ stage' = [stage EXCEPT ![c] = "payload"]
  /\ UNCHANGED <<number, backlog, conn, wire, hungUp, acceptor, workers, result>>

\* send_all has sent the rest.
SendPayload(c) ==
  /\ stage[c] = "payload"
  /\ headOnly' = [headOnly EXCEPT ![c] = FALSE]
  /\ wire' = [wire EXCEPT ![c] = Append(@, out[c])]
  /\ out' = [out EXCEPT ![c] = <<>>]
  /\ stage' = [stage EXCEPT ![c] = IF out[c] = <<Term>> THEN "await" ELSE "send"]
  /\ UNCHANGED <<number, backlog, conn, hungUp, acceptor, workers, opNo, left, result>>

\* secure_recv and close
Receive(c) == /\ stage[c] = "await" /\ result[c] # None
              /\ stage' = [stage EXCEPT ![c] = "done"]
              /\ hungUp' = hungUp \cup {c}
              /\ UNCHANGED <<number, backlog, conn, wire, headOnly, acceptor, workers,
                             opNo, left, out, result>>

\* The second client program is killed: its connections end.  What was sent
\* completely still arrives.
Kill == LET killed == {c \in Flaky : stage[c] \in {"send", "payload", "await"}} IN
  /\ killed # {}
  /\ stage' = [c \in Client |-> IF c \in Flaky THEN "killed" ELSE stage[c]]
  /\ hungUp' = hungUp \cup killed
  /\ UNCHANGED <<number, backlog, conn, wire, headOnly, acceptor, workers, opNo, left,
                 out, result>>

-----------------------------------------------------------------------------
(* The main thread *)

\* accept: the lowest free descriptor, as POSIX demands.
Accept == \E fd \in Fd :
  /\ backlog # <<>> /\ fresh = None
  /\ conn[fd] = None /\ \A lower \in 1 .. fd - 1 : conn[lower] # None
  /\ conn' = [conn EXCEPT ![fd] = Head(backlog)]
  /\ backlog' = Tail(backlog)
  /\ fresh' = fd
  /\ UNCHANGED <<number, wire, headOnly, hungUp, turn, workers, clients>>

\* Seeded fault: the new connection is put in front.
HandOver_Front ==
  /\ fresh # None
  /\ list' = [list EXCEPT ![turn] = <<fresh>> \o @]
  /\ fresh' = None
  /\ turn' = (turn % NWorkers) + 1
  /\ UNCHANGED <<number, kernel, copy, idx, pc, ops, snapshot, clients>>

\* push_back to the list of the worker whose turn it is
HandOver ==
  /\ fresh # None
  /\ list' = [list EXCEPT ![turn] = Append(@, fresh)]
  /\ fresh' = None
  /\ turn' = (turn % NWorkers) + 1
  /\ UNCHANGED <<number, kernel, copy, idx, pc, ops, snapshot, clients>>

-----------------------------------------------------------------------------
(* The workers: server(), process_request *)

Goto(w, label) == pc' = [pc EXCEPT ![w] = label]
Fdesc(w) == copy[w][idx[w]]
Peer(w) == conn[Fdesc(w)]

\* On to the next descriptor of the round.
Advance(w) == /\ idx' = [idx EXCEPT ![w] = @ + 1]
              /\ Goto(w, "scan")

\* The list is copied once it is not empty.
CopyList(w) ==
  /\ pc[w] = "wait" /\ list[w] # <<>>
  /\ copy' = [copy EXCEPT ![w] = list[w]]
  /\ idx' = [idx EXCEPT ![w] = 1]
  /\ Goto(w, "scan")
  /\ UNCHANGED <<number, kernel, acceptor, list, ops, snapshot, clients>>

InRound(w) == pc[w] = "scan" /\ idx[w] <= Len(copy[w])

\* poll reports data, the end of the stream, or an error.
Readable(c) == wire[c] # <<>> \/ headOnly[c] \/ c \in hungUp

\* The entry is not a connection any more, or poll times out.
PollNothing(w) ==
  /\ InRound(w)
  /\ Fdesc(w) # Gone => ~ Readable(Peer(w))
  /\ Advance(w)
  /\ UNCHANGED <<number, kernel, acceptor, list, copy, ops, snapshot, clients>>

\* secure_recv, the length.  At the end of the stream process_request is called
\* with nothing and the connection stays in the list.
RecvLength(w) == LET c == Peer(w) IN
  /\ InRound(w) /\ Fdesc(w) # Gone
  /\ \/ /\ wire[c] # <<>> \/ headOnly[c]
        /\ headOnly' = [headOnly EXCEPT ![c] = @ /\ wire[c] # <<>>]
        /\ Goto(w, "payload")
        /\ UNCHANGED idx
     \/ /\ wire[c] = <<>> /\ ~ headOnly[c] /\ c \in hungUp
        /\ Advance(w)
        /\ UNCHANGED headOnly
  /\ UNCHANGED <<number, backlog, conn, wire, hungUp, acceptor, list, copy, ops,
                 snapshot, clients>>

\* Seeded fault: recv_all does not notice the end of the stream.
RecvPayload_NoEof(w) == LET c == Peer(w) IN
  /\ pc[w] = "payload" /\ wire[c] # <<>>
  /\ ops' = [ops EXCEPT ![w] = Head(wire[c])]
  /\ wire' = [wire EXCEPT ![c] = Tail(@)]
  /\ Goto(w, "process")
  /\ UNCHANGED <<number, backlog, conn, headOnly, hungUp, acceptor, list, copy, idx,
                 snapshot, clients>>

\* secure_recv, the payload: recv_all goes round until it is there or the stream
\* ends.
RecvPayload(w) == LET c == Peer(w) IN
  /\ pc[w] = "payload"
  /\ \/ /\ wire[c] # <<>>
        /\ ops' = [ops EXCEPT ![w] = Head(wire[c])]
        /\ wire' = [wire EXCEPT ![c] = Tail(@)]
        /\ Goto(w, "process")
        /\ UNCHANGED idx
     \/ /\ wire[c] = <<>> /\ c \in hungUp
        /\ Advance(w)
        /\ UNCHANGED <<ops, wire>>
  /\ UNCHANGED <<number, backlog, conn, headOnly, hungUp, acceptor, list, copy,
                 snapshot, clients>>

\* Seeded fault: only the first operation of a message is executed.
Update_First(w) ==
  /\ pc[w] = "process" /\ Head(ops[w]) # Term
  /\ number' = number + Head(ops[w])
  /\ ops' = [ops EXCEPT ![w] = <<>>]
  /\ Advance(w)
  /\ UNCHANGED <<kernel, acceptor, list, copy, snapshot, clients>>

\* ADD, SUB: one atomic update each.  The message is finished with the last.
Update(w) ==
  /\ pc[w] = "process" /\ Head(ops[w]) # Term
  /\ number' = number + Head(ops[w])
  /\ ops' = [ops EXCEPT ![w] = Tail(@)]
  /\ IF Len(ops[w]) = 1 THEN Advance(w) ELSE UNCHANGED <<idx, pc>>
  /\ UNCHANGED <<kernel, acceptor, list, copy, snapshot, clients>>

\* TERMINATION: the counter is read once, for the line printed and for the reply.
Snapshot(w) ==
  /\ pc[w] = "process" /\ Head(ops[w]) = Term
  /\ snapshot' = [snapshot EXCEPT ![Peer(w)] = number]
  /\ ops' = [ops EXCEPT ![w] = <<>>]
  /\ Goto(w, "reply")
  /\ UNCHANGED <<number, kernel, acceptor, list, copy, idx, clients>>

\* static_cast<int32_t>
AsReply(n) == LET m == 2 ^ ReplyBits IN ((n + m \div 2) % m) - m \div 2

\* secure_send of the reply, which nobody reads if the client is gone, and
\* close(fd): the number is free for the next accept before the list knows.
ReplyAndClose(w) ==
  /\ pc[w] = "reply"
  /\ result' = [result EXCEPT ![Peer(w)] = AsReply(snapshot[Peer(w)])]
  /\ conn' = [conn EXCEPT ![Fdesc(w)] = None]
  /\ Goto(w, "mark")
  /\ UNCHANGED <<number, backlog, wire, headOnly, hungUp, acceptor, list, copy, idx,
                 ops, snapshot, opNo, stage, left, out>>

\* Seeded fault: every entry with the descriptor is marked, not the i-th.
Mark_ByValue(w) ==
  /\ pc[w] = "mark"
  /\ list' = [list EXCEPT ![w] = [j \in DOMAIN @ |->
                                    IF @[j] = Fdesc(w) THEN Gone ELSE @[j]]]
  /\ Advance(w)
  /\ UNCHANGED <<number, kernel, acceptor, copy, ops, snapshot, clients>>

\* args.sockets[i] = -1
Mark(w) ==
  /\ pc[w] = "mark"
  /\ list' = [list EXCEPT ![w][idx[w]] = Gone]
  /\ Advance(w)
  /\ UNCHANGED <<number, kernel, acceptor, copy, ops, snapshot, clients>>

\* remove_if and erase: the entries of s that are not Gone, in their order.  `kept`
\* gives their places.
Without(s) ==
  {[k \in DOMAIN kept |-> s[kept[k]]] :
     kept \in {h \in UNION {[1 .. n -> DOMAIN s] : n \in 0 .. Len(s)} :
                /\ \A k, l \in DOMAIN h : k < l => h[k] < h[l]
                /\ {h[k] : k \in DOMAIN h} = {i \in DOMAIN s : s[i] # Gone}}}

\* The round is over: closed connections leave the list.
Erase(w) ==
  /\ pc[w] = "scan" /\ idx[w] > Len(copy[w])
  /\ \E rest \in Without(list[w]) : list' = [list EXCEPT ![w] = rest]
  /\ copy' = [copy EXCEPT ![w] = <<>>]
  /\ idx' = [idx EXCEPT ![w] = 1]
  /\ Goto(w, "wait")
  /\ UNCHANGED <<number, kernel, acceptor, ops, snapshot, clients>>

server(w) == \/ CopyList(w) \/ PollNothing(w) \/ RecvLength(w) \/ RecvPayload(w)
             \/ Update(w) \/ Snapshot(w) \/ ReplyAndClose(w) \/ Mark(w) \/ Erase(w)
client(c) == \/ Connect(c) \/ SendLength(c) \/ SendPayload(c) \/ Receive(c)

Next == \/ Accept \/ HandOver \/ Kill
        \/ \E w \in Worker : server(w)
        \/ \E c \in Client : client(c)

\* Threads are scheduled fairly.  Nobody has to kill a program.
Fairness == /\ WF_vars(Accept) /\ WF_vars(HandOver)
            /\ \A w \in Worker : WF_vars(server(w))
            /\ \A c \in Client : WF_vars(client(c))

Spec == Init /\ [][Next]_vars /\ Fairness

-----------------------------------------------------------------------------
(* Properties *)

\* Every variable the workers and the main thread share keeps its type.
TypeOK ==
  /\ backlog \in Seq(Client) /\ conn \in [Fd -> Client \cup {None}]
  /\ turn \in Worker /\ fresh \in Fd \cup {None}
  /\ list \in [Worker -> Seq(Fd \cup {Gone})]
  /\ copy \in [Worker -> Seq(Fd \cup {Gone})]
  /\ idx \in [Worker -> Nat \ {0}]
  /\ pc \in [Worker -> {"wait", "scan", "payload", "process", "reply", "mark"}]

\* Entry i of worker w's list stands for the open descriptor f.  The entry a worker
\* is about to mark does not: its descriptor is closed already.
Owns(w, i, f) == /\ i \in DOMAIN list[w] /\ list[w][i] = f
                 /\ ~ (pc[w] = "mark" /\ i = idx[w])

\* Between close(fd) and args.sockets[i] = -1 the kernel may give the number to a
\* new connection, which may be pushed to the same list: still every open
\* connection is served by exactly one worker, or is on its way to one, and no
\* worker serves a closed one (server.cc:82, 121, 128, 183, 192).
OneOwner == \A f \in Fd :
  /\ conn[f] # None <=> (fresh = f \/ \E w \in Worker : \E i \in DOMAIN list[w] : Owns(w, i, f))
  /\ \A w \in Worker : \A i \in DOMAIN list[w] : Owns(w, i, f) =>
       /\ fresh # f
       /\ \A v \in Worker : \A j \in DOMAIN list[v] : Owns(v, j, f) => v = w /\ j = i

\* A worker marks by the position in its copy, made before other connections were
\* pushed: what is still to be visited is at the same position in the list
\* (server.cc:100, 121).
CopyAligned == \A w \in Worker : pc[w] # "wait" =>
  \A i \in idx[w] .. Len(copy[w]) : i \in DOMAIN list[w] /\ list[w][i] = copy[w][i]

\* The amount the requests of one program add up to, whichever thread sent which.
Total(n) == 5 * ((n + 1) \div 2) - 2 * (n \div 2)
RequestsOf(threads) == Cardinality(UNION {{c} \X (1 .. Requests[c]) : c \in threads})

\* What the tests look at: once all clients are served the counter is the sum of
\* all requests, the last answer given is that sum, and every client was told the
\* value that was printed for it, reduced to the width of the reply.
TotalReported == (\A c \in Client : stage[c] = "done") =>
  /\ number = Total(RequestsOf(Flaky)) + Total(RequestsOf(Client \ Flaky))
  /\ \E c \in Client : snapshot[c] = number
  /\ \A c \in Client : result[c] = AsReply(snapshot[c])

\* A client that has sent its termination request is answered, whatever the other
\* clients of its worker do, or is killed.  A client waits for an answer only once,
\* so one that waited for ever would leave no later state in which nobody waits.
Answered == []<>(\A c \in Client : stage[c] # "await")

\* The requests of client c the server has not finished: the rest of the one a
\* worker processes, then what is on the wire.
Unread(c) ==
  LET serving == {w \in Worker : pc[w] = "process" /\ Peer(w) = c}
  IN  IF serving = {} THEN wire[c] ELSE <<ops[CHOOSE w \in serving : TRUE]>> \o wire[c]

\* The server implements the atomic counter: every request is applied exactly
\* once and in its client's order, and an answer is the counter after them.
Counter == INSTANCE AtomicCounter WITH
  End <- <<Term>>,
  value <- number,
  queue <- [c \in Client |-> Unread(c)],
  answer <- snapshot
ImplementsCounter == Counter!Spec
=============================================================================
