------------------------ MODULE CounterServerProofs ------------------------
(***************************************************************************)
(* For any number of workers, clients and descriptors: every open          *)
(* connection has exactly one owner (OneOwner), because the positions a    *)
(* worker uses to mark closed connections stay valid (CopyAligned); and    *)
(* the server implements the atomic counter.                               *)
(***************************************************************************)
EXTENDS CounterServer, FiniteSetTheorems, TLAPS

\* A worker that handles a connection has its index inside the copy.
Busy == \A w \in Worker : pc[w] \in {"payload", "process", "reply", "mark"} =>
          idx[w] \in DOMAIN copy[w] /\ copy[w][idx[w]] # Gone

\* The inductive invariant
Inv == TypeOK /\ Busy /\ CopyAligned /\ OneOwner

\* OneOwner with the bounds TLC needs left out
OwnedAlone(f) ==
  /\ conn[f] # None <=> (fresh = f \/ \E w \in Worker : \E i : Owns(w, i, f))
  /\ \A w, v \in Worker : \A i, j :
       Owns(w, i, f) /\ Owns(v, j, f) => fresh # f /\ v = w /\ j = i

\* What the invariant is about
shared == <<backlog, conn, turn, fresh, list, copy, idx, pc>>

\* Both say the same, before a step and after it.
LEMMA Owners ==
  /\ OneOwner <=> \A f \in Fd : OwnedAlone(f)
  /\ OneOwner' <=> \A f \in Fd : OwnedAlone(f)'
<1>1. OneOwner <=> \A f \in Fd : OwnedAlone(f)
  <2>1. \A w \in Worker : \A i, f : Owns(w, i, f) => i \in DOMAIN list[w]
    BY DEF Owns
  <2> QED BY <2>1, Zenon DEF OneOwner, OwnedAlone
<1>2. OneOwner' <=> \A f \in Fd : OwnedAlone(f)'
  <2>1. \A w \in Worker : \A i, f : Owns(w, i, f)' => i \in DOMAIN list'[w]
    BY DEF Owns
  <2> QED BY <2>1, Zenon DEF OneOwner, OwnedAlone
<1> QED BY <1>1, <1>2

LEMMA InitInv == Init => Inv
<1> SUFFICES ASSUME Init PROVE Inv
  OBVIOUS
<1>1. TypeOK
  BY WorkerAssumption DEF Init, TypeOK, Worker, Fd
<1>2. Busy /\ CopyAligned
  BY DEF Init, Busy, CopyAligned
<1>3. OneOwner
  <2>1. \A w \in Worker : DOMAIN list[w] = {}
    BY DEF Init
  <2>2. \A f \in Fd : conn[f] = None /\ fresh # f
    BY NoneAssumption, FdAssumption DEF Init, Fd
  <2> QED BY <2>1, <2>2 DEF OneOwner
<1> QED BY <1>1, <1>2, <1>3 DEF Inv

\* Steps that touch nothing of it
LEMMA StutterInv == ASSUME Inv, UNCHANGED shared PROVE Inv'
BY DEF Inv, TypeOK, Busy, CopyAligned, OneOwner, Owns, shared, Fd, Worker

\* A client queues its connection.
LEMMA ConnectInv == ASSUME Inv, NEW c \in Client, Connect(c) PROVE Inv'
<1>1. backlog' \in Seq(Client)
  BY DEF Connect, Inv, TypeOK
<1>2. UNCHANGED <<conn, turn, fresh, list, copy, idx, pc>>
  BY DEF Connect, acceptor, workers
<1> QED BY <1>1, <1>2 DEF Inv, TypeOK, Busy, CopyAligned, OneOwner, Owns, Fd, Worker

\* A worker goes on without touching a list or a descriptor, at the same place or
\* at the next.
LEMMA MoveInv ==
  ASSUME Inv, NEW w \in Worker, NEW to \in {"scan", "payload", "process", "reply"},
         pc[w] # "wait", pc[w] # "mark",
         pc' = [pc EXCEPT ![w] = to],
         \/ /\ idx' = idx
            /\ idx[w] \in DOMAIN copy[w] /\ copy[w][idx[w]] # Gone
         \/ /\ to = "scan"
            /\ idx' = [idx EXCEPT ![w] = @ + 1],
         UNCHANGED <<backlog, conn, turn, fresh, list, copy>>
  PROVE  Inv'
<1> USE DEF Inv, TypeOK
<1>1. TypeOK'
  OBVIOUS
<1>2. Busy'
  BY DEF Busy
<1>3. CopyAligned'
  <2> SUFFICES ASSUME NEW v \in Worker, pc'[v] # "wait",
                      NEW i \in idx'[v] .. Len(copy[v])
               PROVE  i \in DOMAIN list[v] /\ list[v][i] = copy[v][i]
    BY DEF CopyAligned
  <2>1. pc[v] # "wait"
    OBVIOUS
  <2>2. Len(copy[v]) \in Nat
    OBVIOUS
  <2>3. i \in idx[v] .. Len(copy[v])
    BY <2>2
  <2> QED BY <2>1, <2>3 DEF CopyAligned
<1>4. \A v \in Worker : \A i, f : Owns(v, i, f)' <=> Owns(v, i, f)
  BY DEF Owns
<1>5. OneOwner'
  BY <1>4 DEF OneOwner
<1> QED BY <1>1, <1>2, <1>3, <1>5

\* accept: the lowest free descriptor has no owner yet, so it gets one, `fresh`.
LEMMA AcceptInv == ASSUME Inv, Accept PROVE Inv'
<1> USE DEF Inv, TypeOK
<1> PICK fd \in Fd : /\ backlog # <<>> /\ fresh = None
                     /\ conn[fd] = None
                     /\ conn' = [conn EXCEPT ![fd] = Head(backlog)]
                     /\ backlog' = Tail(backlog)
                     /\ fresh' = fd
                     /\ UNCHANGED <<turn, list, copy, idx, pc>>
  BY DEF Accept, workers
<1>1. Head(backlog) \in Client /\ backlog' \in Seq(Client)
  OBVIOUS
<1>2. TypeOK'
  BY <1>1
<1>3. Busy' /\ CopyAligned'
  BY DEF Busy, CopyAligned
<1>4. \A v \in Worker : \A i, f : Owns(v, i, f)' <=> Owns(v, i, f)
  BY DEF Owns
<1>5. Head(backlog) # None /\ \A f \in Fd : fresh # f
  BY <1>1, NoneAssumption, FdAssumption DEF Fd
<1>6. OneOwner'
  BY <1>4, <1>5 DEF OneOwner
<1> QED BY <1>2, <1>3, <1>6

\* The main thread pushes the new connection behind the others: the positions of
\* the others stay, and the owner of the descriptor changes from `fresh` to the entry.
LEMMA HandOverInv == ASSUME Inv, HandOver PROVE Inv'
<1> USE DEF Inv, TypeOK
<1> DEFINE n == Len(list[turn]) + 1
<1>0. /\ fresh # None /\ fresh' = None
      /\ list' = [list EXCEPT ![turn] = Append(@, fresh)]
      /\ turn' = (turn % NWorkers) + 1
      /\ UNCHANGED <<backlog, conn, copy, idx, pc>>
  BY DEF HandOver, kernel
<1>1. fresh \in Fd /\ turn \in Worker
  BY <1>0
<1>2. turn' \in Worker
  BY <1>0, <1>1, WorkerAssumption DEF Worker
<1>3. Append(list[turn], fresh) \in Seq(Fd \cup {Gone})
  BY <1>1
<1>4. TypeOK'
  BY <1>0, <1>2, <1>3
<1>5. /\ \A v \in Worker : \A i \in DOMAIN list[v] : i \in DOMAIN list'[v] /\ list'[v][i] = list[v][i]
      /\ n \in DOMAIN list'[turn] /\ list'[turn][n] = fresh
      /\ n \notin DOMAIN list[turn]
      /\ \A v \in Worker : \A i \in DOMAIN list'[v] : i \in DOMAIN list[v] \/ (v = turn /\ i = n)
  BY <1>0, <1>1
<1>6. Busy'
  BY <1>0 DEF Busy
<1>7. CopyAligned'
  BY <1>0, <1>5 DEF CopyAligned
<1>8. ~ (pc[turn] = "mark" /\ n = idx[turn])
  <2> SUFFICES ASSUME pc[turn] = "mark" PROVE idx[turn] \in DOMAIN list[turn]
    BY <1>5
  <2>1. idx[turn] \in idx[turn] .. Len(copy[turn])
    BY <1>1 DEF Busy
  <2> QED BY <1>1, <2>1 DEF CopyAligned
<1>9. \A v \in Worker : \A i, f : Owns(v, i, f)' <=> Owns(v, i, f) \/ (v = turn /\ i = n /\ f = fresh)
  BY <1>0, <1>1, <1>5, <1>8 DEF Owns
<1> HIDE DEF n
<1>10. \A v \in Worker : \A i : ~ Owns(v, i, fresh)
  BY <1>0, <1>1 DEF OneOwner, Owns
<1>11. \A f \in Fd : fresh' # f
  BY <1>0, NoneAssumption, FdAssumption DEF Fd
<1>12. ASSUME NEW f \in Fd
       PROVE  conn'[f] # None <=> \E v \in Worker : \E i \in DOMAIN list'[v] : Owns(v, i, f)'
  <2>1. CASE f = fresh
    BY <2>1, <1>0, <1>1, <1>5, <1>9 DEF OneOwner
  <2>2. CASE f # fresh
    BY <2>2, <1>0, <1>5, <1>9 DEF OneOwner, Owns
  <2> QED BY <2>1, <2>2
<1>13. ASSUME NEW f \in Fd, NEW v \in Worker, NEW i \in DOMAIN list'[v], Owns(v, i, f)',
              NEW u \in Worker, NEW j \in DOMAIN list'[u], Owns(u, j, f)'
       PROVE  u = v /\ j = i
  <2>1. CASE f = fresh
    BY <2>1, <1>13, <1>9, <1>10
  <2>2. CASE f # fresh
    <3>1. Owns(v, i, f) /\ Owns(u, j, f)
      BY <2>2, <1>13, <1>9
    <3> QED BY <3>1 DEF OneOwner, Owns
  <2> QED BY <2>1, <2>2
<1>14. OneOwner'
  BY <1>11, <1>12, <1>13 DEF OneOwner
<1> QED BY <1>4, <1>6, <1>7, <1>14

\* A round starts with a copy that agrees with the list.
LEMMA CopyListInv == ASSUME Inv, NEW w \in Worker, CopyList(w) PROVE Inv'
<1> USE DEF Inv, TypeOK
<1>0. /\ pc[w] = "wait" /\ pc' = [pc EXCEPT ![w] = "scan"]
      /\ copy' = [copy EXCEPT ![w] = list[w]]
      /\ idx' = [idx EXCEPT ![w] = 1]
      /\ UNCHANGED <<backlog, conn, turn, fresh, list>>
  BY DEF CopyList, Goto, kernel, acceptor
<1>1. TypeOK'
  BY <1>0
<1>2. Busy'
  BY <1>0 DEF Busy
<1>3. CopyAligned'
  BY <1>0 DEF CopyAligned
<1>4. \A v \in Worker : \A i, f : Owns(v, i, f)' <=> Owns(v, i, f)
  BY <1>0 DEF Owns
<1>5. OneOwner'
  BY <1>0, <1>4 DEF OneOwner
<1> QED BY <1>1, <1>2, <1>3, <1>5

\* The entry a worker handles is at the same position of its list.
LEMMA Handled ==
  ASSUME Inv, NEW w \in Worker, pc[w] \in {"payload", "process", "reply", "mark"}
  PROVE  idx[w] \in DOMAIN list[w] /\ list[w][idx[w]] = Fdesc(w) /\ Fdesc(w) \in Fd
<1> USE DEF Inv, TypeOK
<1>1. idx[w] \in idx[w] .. Len(copy[w]) /\ Fdesc(w) \in Fd
  BY DEF Busy, Fdesc
<1> QED BY <1>1 DEF CopyAligned, Fdesc

\* close(fd): the entry loses the descriptor in the step in which it is closed.
LEMMA ReplyAndCloseInv == ASSUME Inv, NEW w \in Worker, ReplyAndClose(w) PROVE Inv'
<1> USE DEF Inv, TypeOK
<1>0. /\ pc[w] = "reply" /\ pc' = [pc EXCEPT ![w] = "mark"]
      /\ conn' = [conn EXCEPT ![Fdesc(w)] = None]
      /\ UNCHANGED <<backlog, turn, fresh, list, copy, idx>>
  BY DEF ReplyAndClose, Goto, acceptor
<1> PICK fd \in Fd : fd = Fdesc(w) /\ idx[w] \in DOMAIN list[w] /\ list[w][idx[w]] = fd
  BY <1>0, Handled
<1>1. conn' = [conn EXCEPT ![fd] = None]
  BY <1>0
<1>2. TypeOK'
  BY <1>0, <1>1
<1>3. Busy' /\ CopyAligned'
  BY <1>0 DEF Busy, CopyAligned
<1>4. \A v \in Worker : \A i, f : Owns(v, i, f)' <=> Owns(v, i, f) /\ ~ (v = w /\ i = idx[w])
  BY <1>0 DEF Owns
<1>5. Owns(w, idx[w], fd)
  BY <1>0 DEF Owns
<1>6. fresh # fd /\ \A v \in Worker : \A i : ~ Owns(v, i, fd)'
  BY <1>4, <1>5, Owners DEF OwnedAlone
<1>7. ASSUME NEW f \in Fd, f # fd
      PROVE  conn'[f] = conn[f] /\ \A v \in Worker : \A i : Owns(v, i, f)' <=> Owns(v, i, f)
  <2>1. conn'[f] = conn[f]
    BY <1>1, <1>7
  <2>2. ~ Owns(w, idx[w], f)
    BY <1>7 DEF Owns
  <2> QED BY <2>1, <2>2, <1>4
<1>8. ASSUME NEW f \in Fd, f = fd PROVE OwnedAlone(f)'
  BY <1>0, <1>1, <1>6, <1>8 DEF OwnedAlone
<1>9. ASSUME NEW f \in Fd, f # fd PROVE OwnedAlone(f)'
  BY <1>0, <1>7, <1>9, Owners DEF OwnedAlone
<1>10. OneOwner'
  BY <1>8, <1>9, Owners
<1> QED BY <1>2, <1>3, <1>10

\* args.sockets[i] = -1: the entry at i is the one whose descriptor was closed,
\* whatever was pushed behind it in between.
LEMMA MarkInv == ASSUME Inv, NEW w \in Worker, Mark(w) PROVE Inv'
<1> USE DEF Inv, TypeOK
<1>0. /\ pc[w] = "mark" /\ pc' = [pc EXCEPT ![w] = "scan"]
      /\ list' = [list EXCEPT ![w][idx[w]] = Gone]
      /\ idx' = [idx EXCEPT ![w] = @ + 1]
      /\ UNCHANGED <<backlog, conn, turn, fresh, copy>>
  BY DEF Mark, Advance, Goto, kernel, acceptor
<1>1. idx[w] \in DOMAIN list[w]
  BY <1>0, Handled
<1>2. /\ list' \in [Worker -> Seq(Fd \cup {Gone})]
      /\ \A v \in Worker : DOMAIN list'[v] = DOMAIN list[v]
      /\ \A v \in Worker : \A i \in DOMAIN list[v] :
           list'[v][i] = IF v = w /\ i = idx[w] THEN Gone ELSE list[v][i]
  BY <1>0, <1>1
<1>3. TypeOK'
  BY <1>0, <1>2
<1>4. Busy'
  BY <1>0 DEF Busy
<1>5. CopyAligned'
  <2> SUFFICES ASSUME NEW v \in Worker, pc'[v] # "wait",
                      NEW i \in idx'[v] .. Len(copy[v])
               PROVE  i \in DOMAIN list'[v] /\ list'[v][i] = copy[v][i]
    BY <1>0 DEF CopyAligned
  <2>1. pc[v] # "wait" /\ ~ (v = w /\ i = idx[w]) /\ i \in idx[v] .. Len(copy[v])
    BY <1>0
  <2> QED BY <2>1, <1>2 DEF CopyAligned
<1>6. \A v \in Worker : \A i : \A f \in Fd : Owns(v, i, f)' <=> Owns(v, i, f)
  BY <1>0, <1>2 DEF Owns, Gone, Fd
<1>7. ASSUME NEW f \in Fd PROVE OwnedAlone(f)'
  BY <1>0, <1>6, Owners DEF OwnedAlone
<1>8. OneOwner'
  BY <1>7, Owners
<1> QED BY <1>3, <1>4, <1>5, <1>8

\* remove_if keeps every connection of the list, and keeps it once.
LEMMA EraseInv == ASSUME Inv, NEW w \in Worker, Erase(w) PROVE Inv'
<1> USE DEF Inv, TypeOK
<1>0. /\ pc[w] = "scan" /\ pc' = [pc EXCEPT ![w] = "wait"]
      /\ copy' = [copy EXCEPT ![w] = <<>>]
      /\ idx' = [idx EXCEPT ![w] = 1]
      /\ UNCHANGED <<backlog, conn, turn, fresh>>
  BY DEF Erase, Goto, kernel, acceptor
<1>1. PICK h \in UNION {[1 .. m -> DOMAIN list[w]] : m \in 0 .. Len(list[w])} :
        /\ \A k, l \in DOMAIN h : k < l => h[k] < h[l]
        /\ {h[k] : k \in DOMAIN h} = {i \in DOMAIN list[w] : list[w][i] # Gone}
        /\ list' = [list EXCEPT ![w] = [k \in DOMAIN h |-> list[w][h[k]]]]
  BY DEF Erase, Without
<1> PICK n \in 0 .. Len(list[w]) : h \in [1 .. n -> DOMAIN list[w]]
  OBVIOUS
<1>2. /\ \A k, l \in 1 .. n : k < l => h[k] < h[l]
      /\ \A i \in DOMAIN list[w] : list[w][i] # Gone => \E k \in 1 .. n : h[k] = i
      /\ list' = [list EXCEPT ![w] = [k \in 1 .. n |-> list[w][h[k]]]]
  <2>1. DOMAIN h = 1 .. n
    OBVIOUS
  <2> QED BY <1>1, <2>1
<1>3. [k \in 1 .. n |-> list[w][h[k]]] \in Seq(Fd \cup {Gone})
  OBVIOUS
<1>4. TypeOK'
  BY <1>0, <1>2, <1>3
<1>5. Busy' /\ CopyAligned'
  BY <1>0, <1>2 DEF Busy, CopyAligned
<1>6. /\ \A v \in Worker \ {w} : list'[v] = list[v]
      /\ DOMAIN list'[w] = 1 .. n
      /\ \A k \in 1 .. n : list'[w][k] = list[w][h[k]]
  BY <1>2
<1>7. ASSUME NEW v \in Worker \ {w}, NEW i, NEW f PROVE Owns(v, i, f)' <=> Owns(v, i, f)
  BY <1>0, <1>6 DEF Owns
<1>8. ASSUME NEW k, NEW f PROVE Owns(w, k, f)' <=> k \in 1 .. n /\ Owns(w, h[k], f)
  BY <1>0, <1>2, <1>6 DEF Owns
<1>9. ASSUME NEW i, NEW f \in Fd, Owns(w, i, f) PROVE \E k \in 1 .. n : h[k] = i
  <2>1. i \in DOMAIN list[w] /\ list[w][i] # Gone
    BY <1>9 DEF Owns, Gone, Fd
  <2> QED BY <2>1, <1>2
<1>10. ASSUME NEW k \in 1 .. n, NEW l \in 1 .. n, h[k] = h[l] PROVE k = l
  <2>1. h[k] \in Nat /\ k \in Int /\ l \in Int
    OBVIOUS
  <2>2. \A a, b \in 1 .. n : a < b => h[a] < h[b]
    BY <1>2
  <2>3. ~ (k < l) /\ ~ (l < k)
    BY <2>1, <2>2, <1>10
  <2> QED BY <2>1, <2>3
<1>11. ASSUME NEW f \in Fd PROVE OwnedAlone(f)'
  <2>1. (\E v \in Worker : \E i : Owns(v, i, f)') <=> \E v \in Worker : \E i : Owns(v, i, f)
    <3>1. ASSUME NEW i, Owns(w, i, f) PROVE \E k : Owns(w, k, f)'
      <4>1. PICK k \in 1 .. n : h[k] = i
        BY <3>1, <1>9
      <4> QED BY <3>1, <4>1, <1>8
    <3>2. ASSUME NEW k, Owns(w, k, f)' PROVE \E i : Owns(w, i, f)
      BY <3>2, <1>8
    <3> QED BY <3>1, <3>2, <1>7
  <2>2. ASSUME NEW v \in Worker, NEW u \in Worker, NEW i, NEW j, Owns(v, i, f)', Owns(u, j, f)'
        PROVE  fresh # f /\ u = v /\ j = i
    <3>1. CASE v = w /\ u = w
      BY <3>1, <2>2, <1>8, <1>10, Owners DEF OwnedAlone
    <3>2. CASE v # w /\ u # w
      BY <3>2, <2>2, <1>7, Owners DEF OwnedAlone
    <3>3. CASE v = w /\ u # w
      BY <3>3, <2>2, <1>7, <1>8, Owners DEF OwnedAlone
    <3>4. CASE v # w /\ u = w
      BY <3>4, <2>2, <1>7, <1>8, Owners DEF OwnedAlone
    <3> QED BY <3>1, <3>2, <3>3, <3>4
  <2> QED BY <1>0, <2>1, <2>2, Owners DEF OwnedAlone
<1>12. OneOwner'
  BY <1>11, Owners
<1> QED BY <1>4, <1>5, <1>12

\* Every step of a worker
LEMMA ServerInv == ASSUME Inv, NEW w \in Worker, server(w) PROVE Inv'
<1>1. CASE CopyList(w)
  BY <1>1, CopyListInv
<1>2. CASE ReplyAndClose(w)
  BY <1>2, ReplyAndCloseInv
<1>3. CASE Mark(w)
  BY <1>3, MarkInv
<1>4. CASE Erase(w)
  BY <1>4, EraseInv
<1>5. CASE PollNothing(w)
  <2>1. /\ pc[w] = "scan" /\ pc' = [pc EXCEPT ![w] = "scan"]
        /\ idx' = [idx EXCEPT ![w] = @ + 1]
        /\ UNCHANGED <<backlog, conn, turn, fresh, list, copy>>
    BY <1>5 DEF PollNothing, InRound, Advance, Goto, kernel, acceptor
  <2> QED BY <2>1, MoveInv
<1>6. CASE RecvLength(w)
  <2>1. /\ pc[w] = "scan" /\ copy[w][idx[w]] # Gone /\ idx[w] <= Len(copy[w])
        /\ UNCHANGED <<backlog, conn, turn, fresh, list, copy>>
        /\ \/ pc' = [pc EXCEPT ![w] = "payload"] /\ idx' = idx
           \/ pc' = [pc EXCEPT ![w] = "scan"] /\ idx' = [idx EXCEPT ![w] = @ + 1]
    BY <1>6 DEF RecvLength, InRound, Fdesc, Advance, Goto, acceptor
  <2>2. idx[w] \in DOMAIN copy[w]
    BY <2>1 DEF Inv, TypeOK
  <2> QED BY <2>1, <2>2, MoveInv
<1>7. CASE RecvPayload(w)
  <2>1. /\ pc[w] = "payload"
        /\ UNCHANGED <<backlog, conn, turn, fresh, list, copy>>
        /\ \/ pc' = [pc EXCEPT ![w] = "process"] /\ idx' = idx
           \/ pc' = [pc EXCEPT ![w] = "scan"] /\ idx' = [idx EXCEPT ![w] = @ + 1]
    BY <1>7 DEF RecvPayload, Advance, Goto, acceptor
  <2>2. idx[w] \in DOMAIN copy[w] /\ copy[w][idx[w]] # Gone
    BY <2>1 DEF Inv, Busy
  <2> QED BY <2>1, <2>2, MoveInv
<1>8. CASE Update(w)
  <2>1. /\ pc[w] = "process"
        /\ UNCHANGED <<backlog, conn, turn, fresh, list, copy>>
        /\ \/ UNCHANGED <<idx, pc>>
           \/ pc' = [pc EXCEPT ![w] = "scan"] /\ idx' = [idx EXCEPT ![w] = @ + 1]
    BY <1>8 DEF Update, Advance, Goto, kernel, acceptor
  <2> QED BY <2>1, MoveInv, StutterInv DEF shared
<1>9. CASE Snapshot(w)
  <2>1. /\ pc[w] = "process" /\ pc' = [pc EXCEPT ![w] = "reply"]
        /\ UNCHANGED <<backlog, conn, turn, fresh, list, copy, idx>>
    BY <1>9 DEF Snapshot, Goto, kernel, acceptor
  <2>2. idx[w] \in DOMAIN copy[w] /\ copy[w][idx[w]] # Gone
    BY <2>1 DEF Inv, Busy
  <2> QED BY <2>1, <2>2, MoveInv
<1> QED BY <1>1, <1>2, <1>3, <1>4, <1>5, <1>6, <1>7, <1>8, <1>9 DEF server

\* Every step
LEMMA NextInv == ASSUME Inv, [Next]_vars PROVE Inv'
<1>1. CASE Accept
  BY <1>1, AcceptInv
<1>2. CASE HandOver
  BY <1>2, HandOverInv
<1>3. CASE Kill
  BY <1>3, StutterInv DEF Kill, shared, acceptor, workers
<1>4. ASSUME NEW w \in Worker, server(w) PROVE Inv'
  BY <1>4, ServerInv
<1>5. ASSUME NEW c \in Client, client(c) PROVE Inv'
  <2>1. CASE Connect(c)
    BY <2>1, ConnectInv
  <2>2. CASE SendLength(c)
    BY <2>2, StutterInv DEF SendLength, shared, acceptor, workers
  <2>3. CASE SendPayload(c)
    BY <2>3, StutterInv DEF SendPayload, shared, acceptor, workers
  <2>4. CASE Receive(c)
    BY <2>4, StutterInv DEF Receive, shared, acceptor, workers
  <2> QED BY <1>5, <2>1, <2>2, <2>3, <2>4 DEF client
<1>6. CASE UNCHANGED vars
  BY <1>6, StutterInv DEF vars, shared, kernel, acceptor, workers
<1> QED BY <1>1, <1>2, <1>3, <1>4, <1>5, <1>6 DEF Next

\* server.cc: whatever numbers the kernel gives out again between a close and the
\* mark in the list, every open connection is served by exactly one worker or is
\* on its way to one, and no closed one is served.
THEOREM EveryConnectionHasOneOwner == Spec => []OneOwner
<1>1. Inv => OneOwner
  BY DEF Inv
<1> QED BY <1>1, InitInv, NextInv, PTL DEF Spec

\* server.cc: the positions in a worker's copy of its list stay valid until it has
\* visited them, however many connections the main thread pushes meanwhile.
THEOREM PositionsStayValid == Spec => []CopyAligned
<1>1. Inv => CopyAligned
  BY DEF Inv
<1> QED BY <1>1, InitInv, NextInv, PTL DEF Spec

-----------------------------------------------------------------------------
(* The refinement of AtomicCounter *)

\* The requests as they are sent, and what may be left of one
Request == {<<2, 3>>, <<-2>>, <<Term>>}
Rest == (Seq(Int) \ {<<>>}) \cup {<<Term>>}

\* The stages of a client after its termination request
Over == {"await", "done", "killed"}

Typed ==
  /\ number \in Int
  /\ wire \in [Client -> Seq(Rest)]
  /\ snapshot \in [Client -> Int \cup {None}]
  /\ stage \in [Client -> {"start", "send", "payload"} \cup Over]
  /\ out \in [Client -> Seq(Int \cup {Term})]
  /\ \A c \in Client : stage[c] = "payload" => out[c] \in Request
  /\ ops \in [Worker -> Seq(Int \cup {Term})]
  /\ \A w \in Worker : pc[w] = "process" => ops[w] \in Rest

\* A client has one connection at most, in the backlog or accepted.
Single ==
  /\ \A i, j \in DOMAIN backlog : backlog[i] = backlog[j] => i = j
  /\ \A f, g \in Fd : conn[f] = conn[g] /\ conn[f] # None => f = g
  /\ \A i \in DOMAIN backlog : \A f \in Fd : conn[f] # backlog[i]
  /\ \A c \in Client : stage[c] = "start" =>
       /\ \A i \in DOMAIN backlog : backlog[i] # c
       /\ \A f \in Fd : conn[f] # c

\* Nothing follows the termination request of a client, whose requests not yet
\* finished are u, and once it is answered nothing is left of them.
Closes(u, answered, at) ==
  /\ \A i \in DOMAIN u : u[i] = <<Term>> => i = Len(u) /\ at \in Over
  /\ answered # None => u = <<>> /\ at \in Over
Closing == \A c \in Client : Closes(Unread(c), snapshot[c], stage[c])

CounterInv == Inv /\ Typed /\ Single /\ Closing

Serves(w, c) == pc[w] = "process" /\ Peer(w) = c

LEMMA Distinct == /\ <<2, 3>> \in Rest /\ <<-2>> \in Rest /\ <<Term>> \in Rest
                  /\ <<2, 3>> # <<Term>> /\ <<-2>> # <<Term>>
                  /\ \A r \in Rest : r \in Seq(Int \cup {Term}) /\ r # <<>>
                  /\ \A r \in Rest : Head(r) = Term <=> r = <<Term>>
                  /\ \A r \in Rest : r # <<Term>> => r \in Seq(Int) /\ Head(r) \in Int
<1>1. <<2, 3>> \in Rest /\ <<-2>> \in Rest /\ <<Term>> \in Rest
  BY DEF Rest
<1>2. <<2, 3>> # <<Term>>
  <2>1. Len(<<2, 3>>) = 2 /\ Len(<<Term>>) = 1
    OBVIOUS
  <2> QED BY <2>1
<1>3. <<-2>> # <<Term>>
  <2>1. <<-2>>[1] \in Int /\ <<Term>>[1] = Term
    OBVIOUS
  <2> QED BY <2>1, TermAssumption
<1>4. ASSUME NEW r \in Rest
      PROVE  /\ r \in Seq(Int \cup {Term}) /\ r # <<>>
             /\ Head(r) = Term <=> r = <<Term>>
             /\ r # <<Term>> => r \in Seq(Int) /\ Head(r) \in Int
  <2>1. CASE r = <<Term>>
    BY <2>1
  <2>2. CASE r # <<Term>>
    <3>1. r \in Seq(Int) /\ r # <<>>
      BY <2>2 DEF Rest
    <3>2. Head(r) \in Int
      BY <3>1
    <3> QED BY <3>1, <3>2, <2>2, TermAssumption
  <2> QED BY <2>1, <2>2
<1> QED BY <1>1, <1>2, <1>3, <1>4

\* What is left of a request after its first amount
LEMMA Tails == ASSUME NEW r \in Rest, r # <<Term>>, Len(r) # 1
               PROVE  Tail(r) \in Rest /\ Tail(r) # <<Term>>
<1>1. r \in Seq(Int) /\ r # <<>>
  BY Distinct
<1>2. Tail(r) \in Seq(Int) /\ Len(Tail(r)) # 0 /\ Len(<<>>) = 0
  BY <1>1
<1>3. Tail(r) # <<>>
  BY <1>2
<1>4. PICK t \in Seq(Int) : t = Tail(r) /\ Len(t) # 0
  BY <1>2
<1>5. t # <<Term>>
  <2>1. Len(t) \in Nat /\ DOMAIN t = 1 .. Len(t)
    OBVIOUS
  <2>2. 1 \in DOMAIN t
    <3>1. PICK n \in Nat : n = Len(t) /\ n # 0
      BY <1>4, <2>1
    <3>2. 1 \in 1 .. n
      BY <3>1
    <3> QED BY <2>1, <3>1, <3>2
  <2>3. t[1] \in Int
    BY <2>2
  <2>4. <<Term>>[1] = Term
    OBVIOUS
  <2> QED BY <2>3, <2>4, TermAssumption
<1> QED BY <1>2, <1>3, <1>4, <1>5 DEF Rest

\* A request in front of others
LEMMA Pushed ==
  ASSUME NEW S, NEW x \in S, NEW s \in Seq(S)
  PROVE  /\ <<x>> \o s \in Seq(S) /\ <<x>> \o s # <<>>
         /\ Head(<<x>> \o s) = x /\ Tail(<<x>> \o s) = s
         /\ Len(<<x>> \o s) = Len(s) + 1
         /\ DOMAIN (<<x>> \o s) = 1 .. Len(s) + 1
         /\ (<<x>> \o s)[1] = x
         /\ \A i \in 1 .. Len(s) : (<<x>> \o s)[i + 1] = s[i]
<1> DEFINE u == <<x>> \o s
<1>1. /\ u \in Seq(S) /\ Len(u) = Len(s) + 1 /\ u[1] = x
      /\ \A i \in 1 .. Len(s) : u[i + 1] = s[i]
  OBVIOUS
<1>2. u # <<>> /\ Head(u) = x /\ DOMAIN u = 1 .. Len(s) + 1
  BY <1>1
<1>3. Tail(u) = s
  BY <1>1
<1> QED BY <1>1, <1>2, <1>3

\* The oldest request and the others
LEMMA Popped ==
  ASSUME NEW S, NEW s \in Seq(S), s # <<>>
  PROVE  <<Head(s)>> \o Tail(s) = s
<1>1. Head(s) \in S /\ Tail(s) \in Seq(S) /\ Len(Tail(s)) + 1 = Len(s) /\ s[1] = Head(s)
  OBVIOUS
<1>2. \A i \in 1 .. Len(Tail(s)) : Tail(s)[i] = s[i + 1]
  OBVIOUS
<1>3. PICK x \in S, t \in Seq(S) : x = Head(s) /\ t = Tail(s)
  BY <1>1
<1>4. <<x>> \o t \in Seq(S) /\ Len(<<x>> \o t) = Len(s)
  BY <1>1, <1>3
<1>5. ASSUME NEW i \in 1 .. Len(s) PROVE (<<x>> \o t)[i] = s[i]
  <2>1. CASE i = 1
    BY <2>1, <1>1, <1>3
  <2>2. CASE i # 1
    <3>1. i - 1 \in 1 .. Len(t) /\ (i - 1) + 1 = i
      BY <2>2, <1>1, <1>3
    <3>2. t[i - 1] = s[i]
      BY <3>1, <1>2, <1>3
    <3>3. (<<x>> \o t)[i] = t[i - 1]
      BY <3>1
    <3> QED BY <3>2, <3>3
  <2> QED BY <2>1, <2>2
<1>6. <<x>> \o t = s
  BY <1>4, <1>5
<1> QED BY <1>3, <1>6

\* What the oldest request leaves when it is finished, or in part
LEMMA ClosesRest ==
  ASSUME NEW x \in Rest, NEW s \in Seq(Rest), NEW answered, NEW at, Closes(<<x>> \o s, answered, at)
  PROVE  /\ answered = None
         /\ Closes(s, None, at)
         /\ \A y \in Rest : y # <<Term>> => Closes(<<y>> \o s, None, at)
         /\ x = <<Term>> => s = <<>> /\ at \in Over
<1> DEFINE P(y) == /\ <<y>> \o s # <<>>
                   /\ DOMAIN (<<y>> \o s) = 1 .. Len(s) + 1 /\ Len(<<y>> \o s) = Len(s) + 1
                   /\ (<<y>> \o s)[1] = y
                   /\ \A i \in 1 .. Len(s) : (<<y>> \o s)[i + 1] = s[i]
<1>1. ASSUME NEW y \in Rest PROVE P(y)
  BY Pushed
<1>2. P(x)
  BY <1>1
<1>3. Len(s) \in Nat /\ DOMAIN s = 1 .. Len(s)
  OBVIOUS
<1>4. answered = None /\ \A i \in 1 .. Len(s) + 1 :
        (<<x>> \o s)[i] = <<Term>> => i = Len(s) + 1 /\ at \in Over
  BY <1>2 DEF Closes
<1>5. ASSUME NEW i \in 1 .. Len(s), s[i] = <<Term>> PROVE i = Len(s) /\ at \in Over
  <2>1. i + 1 \in 1 .. Len(s) + 1 /\ (<<x>> \o s)[i + 1] = <<Term>>
    BY <1>2, <1>3, <1>5
  <2>2. i + 1 = Len(s) + 1 /\ at \in Over
    BY <1>4, <2>1
  <2>3. i = Len(s)
    <3>1. i \in Int /\ Len(s) \in Int /\ i + 1 = Len(s) + 1
      BY <1>3, <2>2
    <3> QED BY <3>1
  <2> QED BY <2>2, <2>3
<1>6. Closes(s, None, at)
  BY <1>3, <1>5 DEF Closes
<1>7. ASSUME NEW y \in Rest, y # <<Term>> PROVE Closes(<<y>> \o s, None, at)
  <2>1. P(y)
    BY <1>1
  <2>2. ASSUME NEW i \in 1 .. Len(s) + 1, (<<y>> \o s)[i] = <<Term>> PROVE i = Len(s) + 1 /\ at \in Over
    <3>1. i # 1
      BY <2>1, <2>2, <1>7
    <3>2. PICK j \in 1 .. Len(s) : i = j + 1
      <4>1. i - 1 \in 1 .. Len(s) /\ i = (i - 1) + 1
        BY <3>1, <1>3
      <4> QED BY <4>1
    <3>3. s[j] = <<Term>>
      BY <2>1, <2>2, <3>2
    <3> QED BY <1>5, <3>2, <3>3
  <2> QED BY <2>1, <2>2 DEF Closes
<1>8. ASSUME x = <<Term>> PROVE s = <<>> /\ at \in Over
  <2>1. 1 = Len(s) + 1 /\ at \in Over
    BY <1>2, <1>3, <1>4, <1>8
  <2>2. Len(s) = 0
    BY <2>1, <1>3
  <2> QED BY <2>1, <2>2
<1> QED BY <1>4, <1>6, <1>7, <1>8

\* The connection a worker handles is open, and no other worker handles it or
\* another connection of the same client.
LEMMA Peers ==
  ASSUME Inv, Single, NEW w \in Worker, pc[w] \in {"payload", "process", "reply"}
  PROVE  /\ Peer(w) \in Client /\ Fdesc(w) \in Fd
         /\ \A v \in Worker :
              /\ pc[v] \in {"payload", "process", "reply"}
              /\ Peer(v) = Peer(w) \/ Fdesc(v) = Fdesc(w)
              => v = w
<1>1. ASSUME NEW v \in Worker, pc[v] \in {"payload", "process", "reply"}
      PROVE  Fdesc(v) \in Fd /\ Owns(v, idx[v], Fdesc(v)) /\ conn[Fdesc(v)] \in Client
  <2>1. idx[v] \in DOMAIN list[v] /\ list[v][idx[v]] = Fdesc(v) /\ Fdesc(v) \in Fd
    BY <1>1, Handled
  <2>2. Owns(v, idx[v], Fdesc(v))
    BY <1>1, <2>1 DEF Owns
  <2>3. conn[Fdesc(v)] # None
    BY <2>1, <2>2, Owners DEF OwnedAlone, Inv
  <2> QED BY <2>1, <2>2, <2>3 DEF Inv, TypeOK
<1>2. ASSUME NEW v \in Worker, pc[v] \in {"payload", "process", "reply"},
             Peer(v) = Peer(w) \/ Fdesc(v) = Fdesc(w)
      PROVE  v = w
  <2>1. Fdesc(v) = Fdesc(w)
    <3>1. conn[Fdesc(v)] # None
      BY <1>1, <1>2, NoneAssumption
    <3> QED BY <3>1, <1>1, <1>2 DEF Peer, Single
  <2> QED BY <1>1, <1>2, <2>1, Owners DEF OwnedAlone, Inv
<1> QED BY <1>1, <1>2 DEF Peer

\* What the refinement mapping is, without CHOOSE
LEMMA UnreadIs ==
  (Inv /\ Single) =>
    \A c \in Client :
      /\ \A w \in Worker : Serves(w, c) => Unread(c) = <<ops[w]>> \o wire[c]
      /\ (\A w \in Worker : ~ Serves(w, c)) => Unread(c) = wire[c]
<1> SUFFICES ASSUME Inv, Single, NEW c \in Client
             PROVE  /\ \A w \in Worker : Serves(w, c) => Unread(c) = <<ops[w]>> \o wire[c]
                    /\ (\A w \in Worker : ~ Serves(w, c)) => Unread(c) = wire[c]
  OBVIOUS
<1> DEFINE serving == {w \in Worker : pc[w] = "process" /\ Peer(w) = c}
<1>1. Unread(c) = IF serving = {} THEN wire[c]
                  ELSE <<ops[CHOOSE w \in serving : TRUE]>> \o wire[c]
  BY DEF Unread
<1>2. ASSUME NEW w \in Worker, Serves(w, c) PROVE Unread(c) = <<ops[w]>> \o wire[c]
  <2>1. w \in serving /\ \A v \in serving : v = w
    BY <1>2, Peers DEF Serves
  <2> HIDE DEF serving
  <2>2. (CHOOSE v \in serving : TRUE) = w
    BY <2>1
  <2> QED BY <1>1, <2>1, <2>2
<1>3. ASSUME \A w \in Worker : ~ Serves(w, c) PROVE Unread(c) = wire[c]
  BY <1>1, <1>3 DEF Serves
<1> QED BY <1>2, <1>3

LEMMA UnreadIsNext ==
  ASSUME Inv', Single'
  PROVE  \A c \in Client :
           /\ \A w \in Worker : Serves(w, c)' => Unread(c)' = <<ops'[w]>> \o wire'[c]
           /\ (\A w \in Worker : ~ Serves(w, c)') => Unread(c)' = wire'[c]
<1>1. ((Inv /\ Single) =>
         \A c \in Client :
           /\ \A w \in Worker : Serves(w, c) => Unread(c) = <<ops[w]>> \o wire[c]
           /\ (\A w \in Worker : ~ Serves(w, c)) => Unread(c) = wire[c])'
  BY UnreadIs, PTL
<1> QED BY <1>1

LEMMA InitCounter == Init => CounterInv
<1> SUFFICES ASSUME Init PROVE CounterInv
  OBVIOUS
<1>1. Inv
  BY InitInv
<1>2. Typed
  BY DEF Init, Typed, Over
<1>3. Single
  <2>1. DOMAIN backlog = {}
    BY DEF Init
  <2>2. \A f \in Fd : conn[f] = None
    BY DEF Init
  <2> QED BY <2>1, <2>2, NoneAssumption DEF Single
<1>4. ASSUME NEW c \in Client PROVE Closes(Unread(c), snapshot[c], stage[c])
  <2>1. \A w \in Worker : ~ Serves(w, c)
    BY DEF Init, Serves
  <2>2. Unread(c) = <<>>
    BY <1>1, <1>3, <2>1, UnreadIs DEF Init
  <2>3. snapshot[c] = None
    BY DEF Init
  <2> QED BY <2>2, <2>3 DEF Closes
<1> QED BY <1>1, <1>2, <1>3, <1>4 DEF CounterInv, Closing

\* A client queues once, accept moves it from the backlog to a descriptor.
LEMMA SingleNext == ASSUME CounterInv, [Next]_vars PROVE Single'
<1> USE DEF CounterInv, Single
<1>1. ASSUME UNCHANGED <<backlog, conn>>, \A c \in Client : stage'[c] = "start" => stage[c] = "start"
      PROVE  Single'
  BY <1>1
<1>2. ASSUME NEW c \in Client, Connect(c) PROVE Single'
  <2>1. /\ stage[c] = "start" /\ backlog' = Append(backlog, c)
        /\ stage' = [stage EXCEPT ![c] = "send"] /\ UNCHANGED conn
    BY <1>2 DEF Connect
  <2>2. backlog \in Seq(Client)
    BY DEF Inv, TypeOK
  <2>3. /\ Len(backlog') = Len(backlog) + 1 /\ DOMAIN backlog' = 1 .. Len(backlog')
        /\ \A i \in DOMAIN backlog' :
             \/ i \in DOMAIN backlog /\ backlog'[i] = backlog[i]
             \/ i = Len(backlog) + 1 /\ backlog'[i] = c
    BY <2>1, <2>2
  <2>4. \A d \in Client : stage'[d] = "start" => d # c /\ stage[d] = "start"
    BY <2>1 DEF Typed
  <2> QED BY <2>1, <2>3, <2>4
<1>3. CASE Accept
  <2>1. PICK fd \in Fd : /\ backlog # <<>> /\ conn[fd] = None
                         /\ conn' = [conn EXCEPT ![fd] = Head(backlog)]
                         /\ backlog' = Tail(backlog) /\ stage' = stage
    BY <1>3 DEF Accept, clients
  <2>2. backlog \in Seq(Client) /\ conn \in [Fd -> Client \cup {None}]
    BY DEF Inv, TypeOK
  <2>3. /\ DOMAIN backlog = 1 .. Len(backlog) /\ Len(backlog) \in Nat \ {0}
        /\ DOMAIN backlog' = 1 .. Len(backlog) - 1
        /\ \A i \in DOMAIN backlog' : i + 1 \in DOMAIN backlog /\ backlog'[i] = backlog[i + 1]
        /\ Head(backlog) = backlog[1] /\ 1 \in DOMAIN backlog
    BY <2>1, <2>2
  <2>4. \A f \in Fd : conn'[f] = IF f = fd THEN backlog[1] ELSE conn[f]
    BY <2>1, <2>2, <2>3
  <2>5. \A i \in DOMAIN backlog' : backlog'[i] # backlog[1]
    BY <2>3
  <2>6. \A i, j \in DOMAIN backlog' : backlog'[i] = backlog'[j] => i = j
    BY <2>3
  <2>7. \A f, g \in Fd : conn'[f] = conn'[g] /\ conn'[f] # None => f = g
    BY <2>3, <2>4
  <2>8. \A i \in DOMAIN backlog' : \A f \in Fd : conn'[f] # backlog'[i]
    BY <2>3, <2>4, <2>5
  <2>9. \A c \in Client : stage'[c] = "start" =>
          /\ \A i \in DOMAIN backlog' : backlog'[i] # c
          /\ \A f \in Fd : conn'[f] # c
    BY <2>1, <2>3, <2>4
  <2> QED BY <2>6, <2>7, <2>8, <2>9
<1>4. ASSUME NEW w \in Worker, ReplyAndClose(w) PROVE Single'
  <2>1. pc[w] = "reply" /\ conn' = [conn EXCEPT ![Fdesc(w)] = None] /\ UNCHANGED <<backlog, stage>>
    BY <1>4 DEF ReplyAndClose
  <2>2. conn \in [Fd -> Client \cup {None}] /\ backlog \in Seq(Client)
    BY DEF Inv, TypeOK
  <2>3. \A f \in Fd : conn'[f] = conn[f] \/ conn'[f] = None
    BY <2>1, <2>2
  <2>4. \A i \in DOMAIN backlog : backlog[i] # None
    BY <2>2, NoneAssumption
  <2> QED BY <2>1, <2>3, <2>4, NoneAssumption
<1>5. CASE HandOver
  BY <1>1, <1>5 DEF HandOver, kernel, clients
<1>6. CASE Kill
  <2>1. \A c \in Client : stage'[c] = "start" => stage[c] = "start"
    BY <1>6 DEF Kill
  <2> QED BY <1>1, <1>6, <2>1 DEF Kill
<1>7. ASSUME NEW c \in Client, SendLength(c) \/ SendPayload(c) \/ Receive(c) PROVE Single'
  <2>1. \A d \in Client : stage'[d] = "start" => stage[d] = "start"
    BY <1>7 DEF SendLength, SendPayload, Receive, Typed
  <2> QED BY <1>1, <1>7, <2>1 DEF SendLength, SendPayload, Receive
<1>8. ASSUME NEW w \in Worker, server(w), ~ ReplyAndClose(w) PROVE Single'
  <2>1. UNCHANGED <<backlog, conn, stage>>
    BY <1>8 DEF server, CopyList, PollNothing, RecvLength, RecvPayload, Update, Snapshot, Mark,
                Erase, kernel, clients
  <2> QED BY <1>1, <2>1
<1>9. CASE UNCHANGED vars
  BY <1>1, <1>9 DEF vars, kernel, clients
<1> QED BY <1>2, <1>3, <1>4, <1>5, <1>6, <1>7, <1>8, <1>9 DEF Next, client

LEMMA TypedNext == ASSUME CounterInv, [Next]_vars, Inv' PROVE Typed'
<1> USE DEF CounterInv, Typed, Over
<1>1. ASSUME UNCHANGED <<number, wire, snapshot, stage, out, ops>>,
             \A w \in Worker : pc'[w] = "process" => pc[w] = "process"
      PROVE  Typed'
  BY <1>1
<1>2. ASSUME NEW c \in Client, client(c) PROVE Typed'
  <2>1. UNCHANGED <<number, snapshot, ops, pc>>
    BY <1>2 DEF client, Connect, SendLength, SendPayload, Receive, workers
  <2>2. CASE Connect(c)
    BY <2>1, <2>2 DEF Connect
  <2>3. CASE SendLength(c)
    <3>1. PICK r \in Request : out' = [out EXCEPT ![c] = r]
      BY <2>3 DEF SendLength, get_operation, Request
    <3>2. r \in Seq(Int \cup {Term})
      BY Distinct DEF Request
    <3> QED BY <2>1, <2>3, <3>1, <3>2 DEF SendLength
  <2>4. CASE SendPayload(c)
    <3>1. out[c] \in Rest
      BY <2>4, Distinct DEF SendPayload, Request
    <3>2. Append(wire[c], out[c]) \in Seq(Rest)
      BY <3>1
    <3> QED BY <2>1, <2>4, <3>2 DEF SendPayload
  <2>5. CASE Receive(c)
    BY <2>1, <2>5 DEF Receive
  <2> QED BY <1>2, <2>2, <2>3, <2>4, <2>5 DEF client
<1>3. CASE Kill
  BY <1>3 DEF Kill, workers
<1>4. CASE Accept \/ HandOver
  BY <1>1, <1>4 DEF Accept, HandOver, kernel, workers, clients
<1>5. ASSUME NEW w \in Worker, RecvPayload(w) PROVE Typed'
  <2>1. UNCHANGED <<number, snapshot, stage, out>>
    BY <1>5 DEF RecvPayload, clients
  <2>2. CASE wire[Peer(w)] # <<>> /\ ops' = [ops EXCEPT ![w] = Head(wire[Peer(w)])]
               /\ wire' = [wire EXCEPT ![Peer(w)] = Tail(@)] /\ pc' = [pc EXCEPT ![w] = "process"]
    <3>1. Peer(w) \in Client
      BY <1>5, Peers DEF RecvPayload
    <3>2. Head(wire[Peer(w)]) \in Rest /\ Tail(wire[Peer(w)]) \in Seq(Rest)
      BY <2>2, <3>1
    <3> QED BY <2>1, <2>2, <3>1, <3>2, Distinct DEF Inv, TypeOK
  <2>3. CASE UNCHANGED <<ops, wire>> /\ pc' = [pc EXCEPT ![w] = "scan"]
    BY <2>1, <2>3 DEF Inv, TypeOK
  <2> QED BY <1>5, <2>2, <2>3 DEF RecvPayload, Advance, Goto
<1>6. ASSUME NEW w \in Worker, Update(w) PROVE Typed'
  <2>1. /\ pc[w] = "process" /\ Head(ops[w]) # Term
        /\ number' = number + Head(ops[w]) /\ ops' = [ops EXCEPT ![w] = Tail(@)]
        /\ UNCHANGED <<wire, snapshot, stage, out>>
        /\ \/ Len(ops[w]) = 1 /\ pc' = [pc EXCEPT ![w] = "scan"]
           \/ Len(ops[w]) # 1 /\ pc' = pc
    BY <1>6 DEF Update, Advance, Goto, kernel, clients
  <2>2. ops[w] \in Seq(Int) /\ Head(ops[w]) \in Int /\ ops[w] # <<>>
    BY <2>1, Distinct
  <2>3. Tail(ops[w]) \in Seq(Int) /\ Tail(ops[w]) \in Seq(Int \cup {Term})
    BY <2>2
  <2>4. ASSUME Len(ops[w]) # 1 PROVE Tail(ops[w]) \in Rest
    <3>1. PICK r \in Rest : r = ops[w]
      BY <2>1
    <3>2. r # <<Term>>
      BY <2>1, <3>1
    <3> QED BY <2>4, <3>1, <3>2, Tails
  <2>5. number' \in Int /\ ops' \in [Worker -> Seq(Int \cup {Term})]
    BY <2>1, <2>2, <2>3
  <2>6. ASSUME NEW v \in Worker, pc'[v] = "process" PROVE ops'[v] \in Rest
    <3>1. CASE v = w
      BY <2>1, <2>4, <2>6, <3>1 DEF Inv, TypeOK
    <3>2. CASE v # w
      BY <2>1, <2>6, <3>2 DEF Inv, TypeOK
    <3> QED BY <3>1, <3>2
  <2> QED BY <2>1, <2>5, <2>6
<1>7. ASSUME NEW w \in Worker, Snapshot(w) PROVE Typed'
  <2>1. Peer(w) \in Client
    BY <1>7, Peers DEF Snapshot
  <2>2. /\ snapshot' = [snapshot EXCEPT ![Peer(w)] = number] /\ ops' = [ops EXCEPT ![w] = <<>>]
        /\ pc' = [pc EXCEPT ![w] = "reply"] /\ UNCHANGED <<number, wire, stage, out>>
    BY <1>7 DEF Snapshot, Goto, kernel, clients
  <2>3. snapshot' \in [Client -> Int \cup {None}] /\ ops' \in [Worker -> Seq(Int \cup {Term})]
    BY <2>1, <2>2
  <2>4. \A v \in Worker : pc'[v] = "process" => v # w /\ pc[v] = "process" /\ ops'[v] = ops[v]
    BY <2>2 DEF Inv, TypeOK
  <2> QED BY <2>2, <2>3, <2>4
<1>8. ASSUME NEW w \in Worker, server(w), ~ RecvPayload(w), ~ Update(w), ~ Snapshot(w) PROVE Typed'
  <2>1. /\ UNCHANGED <<number, wire, snapshot, stage, out, ops>>
        /\ \E to \in {"scan", "payload", "mark", "wait"} : pc' = [pc EXCEPT ![w] = to]
    BY <1>8 DEF server, CopyList, PollNothing, RecvLength, ReplyAndClose, Mark, Erase, Advance, Goto,
                kernel, clients
  <2> QED BY <1>1, <2>1 DEF Inv, TypeOK
<1>9. CASE UNCHANGED vars
  BY <1>1, <1>9 DEF vars, kernel, workers, clients
<1> QED BY <1>2, <1>3, <1>4, <1>5, <1>6, <1>7, <1>8, <1>9 DEF Next

\* A step that leaves the requests, the counter and the answers alone
LEMMA Quiet ==
  ASSUME CounterInv, Inv', Single', UNCHANGED <<number, snapshot, wire, ops>>,
         \A w \in Worker, c \in Client : Serves(w, c)' <=> Serves(w, c),
         \A c \in Client : stage[c] \in Over => stage'[c] \in Over
  PROVE  Closing' /\ UNCHANGED Counter!vars
<1>1. ASSUME NEW c \in Client PROVE Unread(c)' = Unread(c)
  <2>1. CASE \E w \in Worker : Serves(w, c)
    <3>1. PICK w \in Worker : Serves(w, c)
      BY <2>1
    <3>2. Unread(c) = <<ops[w]>> \o wire[c]
      BY <3>1, UnreadIs DEF CounterInv
    <3>3. Unread(c)' = <<ops'[w]>> \o wire'[c]
      BY <3>1, UnreadIsNext
    <3> QED BY <3>2, <3>3
  <2>2. CASE \A w \in Worker : ~ Serves(w, c)
    BY <2>2, UnreadIs, UnreadIsNext DEF CounterInv
  <2> QED BY <2>1, <2>2
<1>2. Closing'
  BY <1>1 DEF CounterInv, Closing, Closes
<1>3. UNCHANGED Counter!vars
  BY <1>1 DEF Counter!vars
<1> QED BY <1>2, <1>3

\* Steps in which nothing is asked, applied or answered
LEMMA QuietSteps ==
  ASSUME CounterInv, Inv', Single',
         \/ Accept \/ HandOver \/ Kill \/ UNCHANGED vars
         \/ \E c \in Client : Connect(c) \/ SendLength(c) \/ Receive(c)
         \/ \E w \in Worker : \/ CopyList(w) \/ PollNothing(w) \/ RecvLength(w)
                              \/ ReplyAndClose(w) \/ Mark(w) \/ Erase(w)
  PROVE  Closing' /\ UNCHANGED Counter!vars
<1> USE DEF Serves, Peer, Fdesc
<1>1. ASSUME UNCHANGED <<conn, copy, idx, pc>>
      PROVE  \A w \in Worker, c \in Client : Serves(w, c)' <=> Serves(w, c)
  BY <1>1
<1>2. CASE Accept
  <2>1. PICK fd \in Fd : conn[fd] = None /\ conn' = [conn EXCEPT ![fd] = Head(backlog)]
    BY <1>2 DEF Accept
  <2>2. UNCHANGED <<number, snapshot, wire, ops, copy, idx, pc, stage>>
    BY <1>2 DEF Accept, workers, clients
  <2>3. ASSUME NEW w \in Worker, pc[w] = "process" PROVE conn'[Fdesc(w)] = conn[Fdesc(w)]
    <3>1. conn[Fdesc(w)] \in Client /\ Fdesc(w) \in Fd
      BY <2>3, Peers DEF CounterInv
    <3>2. Fdesc(w) # fd
      BY <2>1, <3>1, NoneAssumption
    <3> QED BY <2>1, <3>1, <3>2 DEF CounterInv, Inv, TypeOK
  <2>4. \A w \in Worker, c \in Client : Serves(w, c)' <=> Serves(w, c)
    BY <2>2, <2>3
  <2> QED BY <2>2, <2>4, Quiet
<1>3. CASE HandOver \/ UNCHANGED vars
  <2>1. UNCHANGED <<number, snapshot, wire, ops, conn, copy, idx, pc, stage>>
    BY <1>3 DEF HandOver, vars, kernel, workers, clients
  <2> QED BY <1>1, <2>1, Quiet
<1>4. CASE Kill
  <2>1. UNCHANGED <<number, snapshot, wire, ops, conn, copy, idx, pc>>
    BY <1>4 DEF Kill, workers
  <2>2. \A c \in Client : stage[c] \in Over => stage'[c] \in Over
    BY <1>4 DEF Kill, Over
  <2> QED BY <1>1, <2>1, <2>2, Quiet
<1>5. ASSUME NEW c \in Client, Connect(c) \/ SendLength(c) \/ Receive(c)
      PROVE  Closing' /\ UNCHANGED Counter!vars
  <2>1. UNCHANGED <<number, snapshot, wire, ops, conn, copy, idx, pc>>
    BY <1>5 DEF Connect, SendLength, Receive, workers
  <2>2. \A d \in Client : stage[d] \in Over => stage'[d] \in Over
    BY <1>5 DEF Connect, SendLength, Receive, Over, CounterInv, Typed
  <2> QED BY <1>1, <2>1, <2>2, Quiet
<1>6. ASSUME NEW w \in Worker, CopyList(w) \/ PollNothing(w) \/ RecvLength(w) \/ Mark(w) \/ Erase(w)
      PROVE  Closing' /\ UNCHANGED Counter!vars
  <2>1. UNCHANGED <<number, snapshot, wire, ops, conn, stage>>
    BY <1>6 DEF CopyList, PollNothing, RecvLength, Mark, Erase, kernel, clients
  <2>2. /\ pc[w] # "process" /\ \E to \in {"scan", "payload", "wait"} : pc' = [pc EXCEPT ![w] = to]
        /\ copy' = copy \/ \E s : copy' = [copy EXCEPT ![w] = s]
        /\ idx' = idx \/ \E i : idx' = [idx EXCEPT ![w] = i]
    <3>1. CASE CopyList(w) \/ Erase(w)
      BY <3>1 DEF CopyList, Erase, Goto
    <3>2. CASE PollNothing(w) \/ Mark(w)
      BY <3>2 DEF PollNothing, InRound, Mark, Advance, Goto
    <3>3. CASE RecvLength(w)
      <4>1. pc[w] # "process" /\ copy' = copy
        BY <3>3 DEF RecvLength, InRound
      <4>2. \/ pc' = [pc EXCEPT ![w] = "payload"] /\ idx' = idx
            \/ pc' = [pc EXCEPT ![w] = "scan"] /\ idx' = [idx EXCEPT ![w] = @ + 1]
        BY <3>3 DEF RecvLength, Advance, Goto
      <4> QED BY <4>1, <4>2
    <3> QED BY <1>6, <3>1, <3>2, <3>3
  <2>3. /\ pc'[w] # "process"
        /\ \A v \in Worker \ {w} : pc'[v] = pc[v] /\ copy'[v] = copy[v] /\ idx'[v] = idx[v]
    BY <2>2 DEF CounterInv, Inv, TypeOK
  <2>4. \A v \in Worker, c \in Client : Serves(v, c)' <=> Serves(v, c)
    BY <2>1, <2>2, <2>3
  <2> QED BY <2>1, <2>4, Quiet
<1>7. ASSUME NEW w \in Worker, ReplyAndClose(w) PROVE Closing' /\ UNCHANGED Counter!vars
  <2>1. /\ pc[w] = "reply" /\ pc' = [pc EXCEPT ![w] = "mark"]
        /\ conn' = [conn EXCEPT ![Fdesc(w)] = None]
        /\ UNCHANGED <<number, snapshot, wire, ops, copy, idx, stage>>
    BY <1>7 DEF ReplyAndClose, Goto
  <2>2. ASSUME NEW v \in Worker, pc[v] = "process" PROVE conn'[Fdesc(v)] = conn[Fdesc(v)]
    <3>1. Fdesc(v) \in Fd /\ Fdesc(w) \in Fd /\ Fdesc(v) # Fdesc(w)
      BY <2>1, <2>2, Peers DEF CounterInv
    <3> QED BY <2>1, <3>1 DEF CounterInv, Inv, TypeOK
  <2>3. \A v \in Worker : pc'[v] = "process" <=> pc[v] = "process"
    BY <2>1 DEF CounterInv, Inv, TypeOK
  <2>4. \A v \in Worker, c \in Client : Serves(v, c)' <=> Serves(v, c)
    BY <2>1, <2>2, <2>3
  <2> QED BY <2>1, <2>4, Quiet
<1> QED BY <1>2, <1>3, <1>4, <1>5, <1>6, <1>7

\* SendPayload puts a request behind the others.
LEMMA AskStep ==
  ASSUME CounterInv, Inv', Single', NEW c \in Client, SendPayload(c)
  PROVE  Closing' /\ Counter!Ask(c, out[c]) /\ out[c] \in Counter!Request
<1>1. /\ stage[c] = "payload" /\ wire' = [wire EXCEPT ![c] = Append(@, out[c])]
      /\ stage' = [stage EXCEPT ![c] = IF out[c] = <<Term>> THEN "await" ELSE "send"]
      /\ UNCHANGED <<number, conn, copy, idx, pc, ops, snapshot>>
  BY DEF SendPayload, workers
<1>2. out[c] \in Request /\ out[c] \in Rest
  BY <1>1, Distinct DEF CounterInv, Typed, Request
<1>3. \A w \in Worker, d \in Client : Serves(w, d)' <=> Serves(w, d)
  BY <1>1 DEF Serves, Peer, Fdesc
<1>4. \A d \in Client : wire[d] \in Seq(Rest) /\ wire'[d] = IF d = c THEN Append(wire[c], out[c]) ELSE wire[d]
  BY <1>1 DEF CounterInv, Typed
<1>5. ASSUME NEW d \in Client
      PROVE  /\ Unread(d) \in Seq(Rest)
             /\ Unread(d)' = IF d = c THEN Append(Unread(c), out[c]) ELSE Unread(d)
  <2>1. CASE \E w \in Worker : Serves(w, d)
    <3>1. PICK w \in Worker : Serves(w, d)
      BY <2>1
    <3>2. ops[w] \in Rest
      BY <3>1 DEF Serves, CounterInv, Typed
    <3>3. Unread(d) = <<ops[w]>> \o wire[d] /\ Unread(d)' = <<ops[w]>> \o wire'[d]
      BY <1>1, <1>3, <3>1, UnreadIs, UnreadIsNext DEF CounterInv
    <3>4. PICK x \in Rest, s \in Seq(Rest), y \in Rest : x = ops[w] /\ s = wire[d] /\ y = out[c]
      BY <1>2, <1>4, <3>2
    <3>5. <<x>> \o s \in Seq(Rest)
      OBVIOUS
    <3>6. Append(<<x>> \o s, y) = <<x>> \o Append(s, y)
      OBVIOUS
    <3> QED BY <1>4, <3>3, <3>4, <3>5, <3>6
  <2>2. CASE \A w \in Worker : ~ Serves(w, d)
    BY <1>3, <1>4, <2>2, UnreadIs, UnreadIsNext DEF CounterInv
  <2> QED BY <2>1, <2>2
<1>6. snapshot[c] = None /\ \A i \in DOMAIN Unread(c) : Unread(c)[i] # <<Term>>
  BY <1>1 DEF CounterInv, Closing, Closes, Over
<1>7. Counter!Ask(c, out[c])
  <2>1. [d \in Client |-> Unread(d)]' = [[d \in Client |-> Unread(d)] EXCEPT ![c] = Append(@, out[c])]
    BY <1>5
  <2> QED BY <1>1, <1>6, <2>1 DEF Counter!Ask, Counter!Ended
<1>8. ASSUME NEW d \in Client PROVE Closes(Unread(d), snapshot[d], stage[d])'
  <2>1. CASE d # c
    <3>1. stage'[d] = stage[d]
      BY <1>1, <2>1 DEF CounterInv, Typed
    <3> QED BY <1>1, <1>5, <2>1, <3>1 DEF CounterInv, Closing, Closes
  <2>2. CASE d = c
    <3>1. PICK u : u = Unread(c)
      OBVIOUS
    <3>2. u \in Seq(Rest) /\ Unread(c)' = Append(u, out[c]) /\ \A i \in DOMAIN u : u[i] # <<Term>>
      BY <1>5, <1>6, <3>1
    <3>3. /\ Len(Append(u, out[c])) = Len(u) + 1
          /\ \A i \in DOMAIN Append(u, out[c]) :
               \/ i \in DOMAIN u /\ Append(u, out[c])[i] = u[i]
               \/ i = Len(u) + 1 /\ Append(u, out[c])[i] = out[c]
      BY <1>2, <3>2
    <3>4. out[c] = <<Term>> => stage'[c] \in Over
      BY <1>1 DEF CounterInv, Typed, Over
    <3> QED BY <1>1, <1>6, <2>2, <3>2, <3>3, <3>4 DEF Closes
  <2> QED BY <2>1, <2>2
<1> QED BY <1>2, <1>7, <1>8 DEF Closing, Request, Counter!Request

\* The steps of a worker that handles a request: those of the other clients are
\* left alone.
LEMMA OthersUnread ==
  ASSUME CounterInv, Inv', Single', NEW w \in Worker, pc[w] \in {"payload", "process"},
         NEW to, pc' = [pc EXCEPT ![w] = to],
         to = "process" => idx'[w] = idx[w],
         \A v \in Worker \ {w} : idx'[v] = idx[v] /\ ops'[v] = ops[v],
         UNCHANGED <<conn, copy>>,
         NEW c \in Client, c = Peer(w),
         \A d \in Client \ {c} : wire'[d] = wire[d]
  PROVE  /\ \A d \in Client \ {c} : Unread(d)' = Unread(d)
         /\ \A v \in Worker : Serves(v, c) <=> v = w /\ pc[w] = "process"
         /\ \A v \in Worker : Serves(v, c)' <=> v = w /\ to = "process"
<1>1. \A v \in Worker : pc[v] = "process" /\ Peer(v) = c => v = w
  BY Peers DEF CounterInv
<1>2. \A v \in Worker \ {w} : pc'[v] = pc[v] /\ Peer(v)' = Peer(v)
  BY DEF Peer, Fdesc, CounterInv, Inv, TypeOK
<1>3. \A v \in Worker \ {w}, d \in Client : Serves(v, d)' <=> Serves(v, d)
  BY <1>2 DEF Serves
<1>4. pc'[w] = to
  BY DEF CounterInv, Inv, TypeOK
<1>5. to = "process" => Peer(w)' = c
  BY DEF Peer, Fdesc
<1>6. \A v \in Worker : Serves(v, c) <=> v = w /\ pc[w] = "process"
  BY <1>1 DEF Serves
<1>7. \A v \in Worker : Serves(v, c)' <=> v = w /\ to = "process"
  <2>1. Serves(w, c)' <=> to = "process"
    BY <1>4, <1>5 DEF Serves
  <2> QED BY <1>3, <1>6, <2>1
<1>8. ASSUME NEW d \in Client \ {c} PROVE Unread(d)' = Unread(d)
  <2>1. ~ Serves(w, d) /\ ~ Serves(w, d)'
    BY <1>4, <1>5 DEF Serves
  <2>2. CASE \E v \in Worker : Serves(v, d)
    <3>1. PICK v \in Worker : Serves(v, d)
      BY <2>2
    <3>2. v # w /\ Serves(v, d)'
      BY <3>1, <2>1, <1>3
    <3>3. Unread(d) = <<ops[v]>> \o wire[d] /\ Unread(d)' = <<ops'[v]>> \o wire'[d]
      BY <3>1, <3>2, UnreadIs, UnreadIsNext DEF CounterInv
    <3>4. ops'[v] = ops[v] /\ wire'[d] = wire[d]
      BY <3>2
    <3> QED BY <3>3, <3>4
  <2>3. CASE \A v \in Worker : ~ Serves(v, d)
    <3>1. \A v \in Worker : ~ Serves(v, d)'
      BY <2>1, <2>3, <1>3
    <3>2. Unread(d) = wire[d] /\ Unread(d)' = wire'[d]
      BY <2>3, <3>1, UnreadIs, UnreadIsNext DEF CounterInv
    <3> QED BY <3>2
  <2> QED BY <2>2, <2>3
<1> QED BY <1>6, <1>7, <1>8

\* Receiving a request moves it from the wire to the worker.
LEMMA ReceiveStep ==
  ASSUME CounterInv, Inv', Single', NEW w \in Worker, RecvPayload(w)
  PROVE  Closing' /\ UNCHANGED Counter!vars
<1>1. /\ pc[w] = "payload"
      /\ UNCHANGED <<number, conn, copy, snapshot, stage>>
  BY DEF RecvPayload, clients
<1>2. PICK c \in Client : c = Peer(w)
  BY <1>1, Peers DEF CounterInv
<1>3. ASSUME \A d \in Client : Unread(d)' = Unread(d) PROVE Closing' /\ UNCHANGED Counter!vars
  BY <1>1, <1>3 DEF CounterInv, Closing, Closes, Counter!vars
<1>4. CASE /\ wire[c] # <<>> /\ ops' = [ops EXCEPT ![w] = Head(wire[c])]
           /\ wire' = [wire EXCEPT ![c] = Tail(@)] /\ pc' = [pc EXCEPT ![w] = "process"]
           /\ UNCHANGED idx
  <2>1. /\ \A d \in Client \ {c} : wire'[d] = wire[d]
        /\ \A v \in Worker \ {w} : idx'[v] = idx[v] /\ ops'[v] = ops[v]
        /\ ops'[w] = Head(wire[c]) /\ wire'[c] = Tail(wire[c])
    BY <1>4 DEF CounterInv, Typed
  <2>2. /\ \A d \in Client \ {c} : Unread(d)' = Unread(d)
        /\ \A v \in Worker : ~ Serves(v, c)
        /\ Serves(w, c)'
    <3>1. PICK to : to = "process"
      OBVIOUS
    <3>2. /\ pc[w] \in {"payload", "process"} /\ pc' = [pc EXCEPT ![w] = to]
          /\ to = "process" => idx'[w] = idx[w]
          /\ UNCHANGED <<conn, copy>> /\ c = Peer(w)
      BY <1>1, <1>2, <1>4, <3>1
    <3>3. /\ \A d \in Client \ {c} : Unread(d)' = Unread(d)
          /\ \A v \in Worker : Serves(v, c) <=> v = w /\ pc[w] = "process"
          /\ \A v \in Worker : Serves(v, c)' <=> v = w /\ to = "process"
      BY <2>1, <3>2, OthersUnread
    <3> QED BY <1>1, <3>1, <3>3
  <2>3. Unread(c) = wire[c] /\ Unread(c)' = <<Head(wire[c])>> \o Tail(wire[c])
    BY <2>1, <2>2, UnreadIs, UnreadIsNext DEF CounterInv
  <2>4. PICK s \in Seq(Rest) : s = wire[c] /\ s # <<>>
    BY <1>4 DEF CounterInv, Typed
  <2>5. <<Head(s)>> \o Tail(s) = s
    BY <2>4, Popped
  <2> QED BY <1>3, <2>2, <2>3, <2>4, <2>5
<1>5. CASE UNCHANGED <<ops, wire>> /\ idx' = [idx EXCEPT ![w] = @ + 1] /\ pc' = [pc EXCEPT ![w] = "scan"]
  <2>1. \A v \in Worker \ {w} : idx'[v] = idx[v] /\ ops'[v] = ops[v]
    BY <1>5 DEF CounterInv, Inv, TypeOK
  <2>2. /\ \A d \in Client \ {c} : Unread(d)' = Unread(d)
        /\ \A v \in Worker : ~ Serves(v, c)
        /\ \A v \in Worker : ~ Serves(v, c)'
    <3>1. PICK to : to = "scan"
      OBVIOUS
    <3>2. /\ pc[w] \in {"payload", "process"} /\ pc' = [pc EXCEPT ![w] = to]
          /\ to = "process" => idx'[w] = idx[w]
          /\ UNCHANGED <<conn, copy>> /\ c = Peer(w)
          /\ \A d \in Client \ {c} : wire'[d] = wire[d]
      BY <1>1, <1>2, <1>5, <3>1
    <3>3. /\ \A d \in Client \ {c} : Unread(d)' = Unread(d)
          /\ \A v \in Worker : Serves(v, c) <=> v = w /\ pc[w] = "process"
          /\ \A v \in Worker : Serves(v, c)' <=> v = w /\ to = "process"
      BY <2>1, <3>2, OthersUnread
    <3> QED BY <1>1, <3>1, <3>3
  <2>3. Unread(c) = wire[c] /\ Unread(c)' = wire[c]
    BY <1>5, <2>2, UnreadIs, UnreadIsNext DEF CounterInv
  <2> QED BY <1>3, <2>2, <2>3
<1> QED BY <1>2, <1>4, <1>5 DEF RecvPayload, Advance, Goto

\* One update adds one amount of the oldest request of the client.
LEMMA ApplyStep ==
  ASSUME CounterInv, Inv', Single', NEW w \in Worker, Update(w)
  PROVE  Closing' /\ \E c \in Client : Counter!Apply(c)
<1>1. /\ pc[w] = "process" /\ Head(ops[w]) # Term
      /\ number' = number + Head(ops[w])
      /\ ops' = [ops EXCEPT ![w] = Tail(@)]
      /\ \/ Len(ops[w]) = 1 /\ pc' = [pc EXCEPT ![w] = "scan"] /\ idx' = [idx EXCEPT ![w] = @ + 1]
         \/ Len(ops[w]) # 1 /\ pc' = pc /\ idx' = idx
      /\ UNCHANGED <<conn, copy, wire, snapshot, stage>>
  BY DEF Update, Advance, Goto, kernel, clients
<1>2. PICK c \in Client : c = Peer(w)
  BY <1>1, Peers DEF CounterInv
<1>3. PICK x \in Rest, s \in Seq(Rest) : x = ops[w] /\ s = wire[c]
  BY <1>1 DEF CounterInv, Typed
<1>4. PICK to : /\ pc' = [pc EXCEPT ![w] = to]
                /\ to = "process" => idx'[w] = idx[w]
                /\ to = "process" <=> Len(x) # 1
  <2>1. CASE Len(ops[w]) = 1
    BY <1>1, <1>3, <2>1
  <2>2. CASE Len(ops[w]) # 1
    <3>1. pc' = [pc EXCEPT ![w] = "process"]
      BY <1>1, <2>2 DEF CounterInv, Inv, TypeOK
    <3> QED BY <1>1, <1>3, <2>2, <3>1
  <2> QED BY <2>1, <2>2
<1>5. /\ \A v \in Worker \ {w} : idx'[v] = idx[v] /\ ops'[v] = ops[v]
      /\ \A d \in Client \ {c} : wire'[d] = wire[d]
      /\ ops'[w] = Tail(x)
  BY <1>1, <1>3 DEF CounterInv, Typed, Inv, TypeOK
<1>6. /\ \A d \in Client \ {c} : Unread(d)' = Unread(d)
      /\ \A v \in Worker : Serves(v, c) <=> v = w /\ pc[w] = "process"
      /\ \A v \in Worker : Serves(v, c)' <=> v = w /\ to = "process"
  <2>1. /\ pc[w] \in {"payload", "process"} /\ pc' = [pc EXCEPT ![w] = to]
        /\ to = "process" => idx'[w] = idx[w]
        /\ UNCHANGED <<conn, copy>> /\ c = Peer(w)
    BY <1>1, <1>2, <1>4
  <2>2. /\ \A v \in Worker \ {w} : idx'[v] = idx[v] /\ ops'[v] = ops[v]
        /\ \A d \in Client \ {c} : wire'[d] = wire[d]
    BY <1>5
  <2> QED BY <2>1, <2>2, OthersUnread
<1>7. Unread(c) = <<x>> \o s
  BY <1>1, <1>3, <1>6, UnreadIs DEF CounterInv
<1>8. Unread(c)' = IF Len(x) = 1 THEN s ELSE <<Tail(x)>> \o s
  BY <1>1, <1>3, <1>4, <1>5, <1>6, UnreadIsNext
<1>9. /\ <<x>> \o s # <<>> /\ Head(<<x>> \o s) = x /\ Tail(<<x>> \o s) = s
      /\ Len(<<x>> \o s) = Len(s) + 1 /\ (<<x>> \o s)[1] = x
      /\ \A i \in 1 .. Len(s) : (<<x>> \o s)[i + 1] = s[i]
  OBVIOUS
<1>10. x # <<Term>>
  BY <1>1, <1>3, Distinct
<1>11. Counter!Apply(c)
  <2> DEFINE q == [d \in Client |-> Unread(d)]
  <2>1. q[c] = <<x>> \o s
    BY <1>7
  <2>2. q' = [q EXCEPT ![c] = IF Len(x) = 1 THEN s ELSE <<Tail(x)>> \o s]
    BY <1>6, <1>8
  <2>3. q' = [q EXCEPT ![c] = IF Len(Head(q[c])) = 1 THEN Tail(q[c]) ELSE <<Tail(Head(q[c]))>> \o Tail(q[c])]
    BY <1>9, <2>1, <2>2
  <2> QED BY <1>1, <1>3, <1>9, <1>10, <2>1, <2>3 DEF Counter!Apply
<1>12. ASSUME NEW d \in Client PROVE Closes(Unread(d), snapshot[d], stage[d])'
  <2>1. CASE d # c
    BY <1>1, <1>6, <2>1 DEF CounterInv, Closing, Closes
  <2>2. CASE d = c
    <3>1. Closes(<<x>> \o s, snapshot[c], stage[c])
      BY <1>7 DEF CounterInv, Closing
    <3>2. PICK at : at = stage[c] /\ Closes(<<x>> \o s, snapshot[c], at)
      BY <3>1
    <3>3. /\ snapshot[c] = None
          /\ Closes(s, None, at)
          /\ \A y \in Rest : y # <<Term>> => Closes(<<y>> \o s, None, at)
          /\ x = <<Term>> => s = <<>> /\ at \in Over
      BY <3>2, ClosesRest
    <3>4. CASE Len(x) = 1
      BY <1>1, <1>8, <2>2, <3>2, <3>3, <3>4
    <3>5. CASE Len(x) # 1
      <4>1. Tail(x) \in Rest /\ Tail(x) # <<Term>>
        BY <1>10, <3>5, Tails
      <4> QED BY <1>1, <1>8, <2>2, <3>2, <3>3, <3>5, <4>1
    <3> QED BY <3>4, <3>5
  <2> QED BY <2>1, <2>2
<1> QED BY <1>11, <1>12 DEF Closing

\* The answer to the termination request is the counter.
LEMMA AnswerStep ==
  ASSUME CounterInv, Inv', Single', NEW w \in Worker, Snapshot(w)
  PROVE  Closing' /\ \E c \in Client : c = Peer(w) /\ Counter!Answer(c)
<1>1. /\ pc[w] = "process" /\ Head(ops[w]) = Term
      /\ ops' = [ops EXCEPT ![w] = <<>>] /\ pc' = [pc EXCEPT ![w] = "reply"]
      /\ snapshot' = [snapshot EXCEPT ![Peer(w)] = number]
      /\ UNCHANGED <<number, conn, copy, idx, wire, stage>>
  BY DEF Snapshot, Goto, kernel, clients
<1>2. PICK c \in Client : c = Peer(w)
  BY <1>1, Peers DEF CounterInv
<1>3. PICK x \in Rest, s \in Seq(Rest) : x = ops[w] /\ s = wire[c]
  BY <1>1 DEF CounterInv, Typed
<1>4. PICK to : to = "reply"
  OBVIOUS
<1>5. /\ \A v \in Worker \ {w} : idx'[v] = idx[v] /\ ops'[v] = ops[v]
      /\ \A d \in Client \ {c} : wire'[d] = wire[d]
  BY <1>1, <1>3 DEF CounterInv, Typed, Inv, TypeOK
<1>6. /\ \A d \in Client \ {c} : Unread(d)' = Unread(d)
      /\ \A v \in Worker : Serves(v, c) <=> v = w /\ pc[w] = "process"
      /\ \A v \in Worker : Serves(v, c)' <=> v = w /\ to = "process"
  <2>1. /\ pc[w] \in {"payload", "process"} /\ pc' = [pc EXCEPT ![w] = to]
        /\ to = "process" => idx'[w] = idx[w]
        /\ UNCHANGED <<conn, copy>> /\ c = Peer(w)
    BY <1>1, <1>2, <1>4
  <2> QED BY <1>5, <2>1, OthersUnread
<1>7. Unread(c) = <<x>> \o s /\ Unread(c)' = s
  BY <1>1, <1>3, <1>4, <1>6, UnreadIs, UnreadIsNext DEF CounterInv
<1>8. <<x>> \o s # <<>> /\ Head(<<x>> \o s) = x /\ Tail(<<x>> \o s) = s
  OBVIOUS
<1>9. x = <<Term>>
  BY <1>1, <1>3, Distinct
<1>10. Counter!Answer(c)
  <2> DEFINE q == [d \in Client |-> Unread(d)]
  <2>1. q[c] = <<x>> \o s
    BY <1>7
  <2>2. q' = [q EXCEPT ![c] = Tail(@)]
    BY <1>6, <1>7, <1>8, <2>1
  <2> QED BY <1>1, <1>2, <1>8, <1>9, <2>1, <2>2 DEF Counter!Answer
<1>11. ASSUME NEW d \in Client PROVE Closes(Unread(d), snapshot[d], stage[d])'
  <2>1. CASE d # c
    <3>1. snapshot'[d] = snapshot[d]
      BY <1>1, <1>2, <2>1 DEF CounterInv, Typed
    <3> QED BY <1>1, <1>6, <2>1, <3>1 DEF CounterInv, Closing, Closes
  <2>2. CASE d = c
    <3>1. Closes(<<x>> \o s, snapshot[c], stage[c])
      BY <1>7 DEF CounterInv, Closing
    <3>2. PICK at : at = stage[c] /\ Closes(<<x>> \o s, snapshot[c], at)
      BY <3>1
    <3>3. /\ snapshot[c] = None
          /\ Closes(s, None, at)
          /\ \A y \in Rest : y # <<Term>> => Closes(<<y>> \o s, None, at)
          /\ x = <<Term>> => s = <<>> /\ at \in Over
      BY <3>2, ClosesRest
    <3>4. Unread(c)' = <<>> /\ stage'[c] \in Over
      BY <1>1, <1>7, <1>9, <3>2, <3>3
    <3> QED BY <2>2, <3>4 DEF Closes
  <2> QED BY <2>1, <2>2
<1> QED BY <1>2, <1>10, <1>11 DEF Closing

LEMMA CounterStep ==
  ASSUME CounterInv, [Next]_vars PROVE CounterInv' /\ [Counter!Next]_Counter!vars
<1>1. Inv'
  BY NextInv DEF CounterInv
<1>2. Single' /\ Typed'
  BY <1>1, SingleNext, TypedNext
<1>3. ASSUME NEW c \in Client, SendPayload(c) PROVE Closing' /\ Counter!Next
  BY <1>1, <1>2, <1>3, AskStep DEF Counter!Next
<1>4. ASSUME NEW w \in Worker, RecvPayload(w) PROVE Closing' /\ UNCHANGED Counter!vars
  BY <1>1, <1>2, <1>4, ReceiveStep
<1>5. ASSUME NEW w \in Worker, Update(w) PROVE Closing' /\ Counter!Next
  BY <1>1, <1>2, <1>5, ApplyStep DEF Counter!Next
<1>6. ASSUME NEW w \in Worker, Snapshot(w) PROVE Closing' /\ Counter!Next
  BY <1>1, <1>2, <1>6, AnswerStep DEF Counter!Next
<1>7. ASSUME \/ Accept \/ HandOver \/ Kill \/ UNCHANGED vars
             \/ \E c \in Client : Connect(c) \/ SendLength(c) \/ Receive(c)
             \/ \E w \in Worker : \/ CopyList(w) \/ PollNothing(w) \/ RecvLength(w)
                                  \/ ReplyAndClose(w) \/ Mark(w) \/ Erase(w)
      PROVE  Closing' /\ UNCHANGED Counter!vars
  BY <1>1, <1>2, <1>7, QuietSteps
<1>8. Closing' /\ [Counter!Next]_Counter!vars
  BY <1>3, <1>4, <1>5, <1>6, <1>7 DEF Next, server, client
<1> QED BY <1>1, <1>2, <1>8 DEF CounterInv

\* The server implements the atomic counter: whatever workers and clients do at
\* the same time and whenever a client program dies, every request that arrives is
\* applied exactly once, in its client's order, and an answer is the counter after
\* all requests of its client (server.cc:53-89, 106-124).
THEOREM ImplementsTheCounter == Spec => ImplementsCounter
<1>1. Init => Counter!Init
  <2> SUFFICES ASSUME Init PROVE Counter!Init
    OBVIOUS
  <2>1. \A c \in Client : Unread(c) = <<>>
    BY InitCounter, UnreadIs DEF CounterInv, Init, Serves
  <2> QED BY <2>1 DEF Init, Counter!Init
<1> QED BY <1>1, InitCounter, CounterStep, PTL DEF Spec, ImplementsCounter, Counter!Spec

-----------------------------------------------------------------------------
(* TotalReported *)

\* The requests as they are sent, or without their first amount
Parts == {<<2, 3>>, <<3>>, <<-2>>, <<Term>>}

\* The requests client c has made that are not finished, the one it is sending
\* included.
Asked(c) == IF stage[c] = "payload" THEN Append(Unread(c), out[c]) ELSE Unread(c)

\* Requests are numbered downwards, the one made last is number left.
\* At(u, l, r, k): number k is among the requests u not finished, and r is left of
\* it, if l are still to be made.  The termination request has no number.
EndsIn(u) == IF u # <<>> /\ u[Len(u)] = <<Term>> THEN 1 ELSE 0
At(u, l, r, k) == \E i \in DOMAIN u : u[i] = r /\ k = l + (Len(u) - i) - EndsIn(u)

\* All requests of which r is left, and the requests made by some threads
Open(r) == {x \in Client \X Int : At(Asked(x[1]), left[x[1]], r, x[2])}
Made(threads) == {x \in threads \X Nat : left[x[1]] < x[2] /\ x[2] <= Requests[x[1]]}

\* Total without division, for what follows
LEMMA Totals ==
  ASSUME NEW n \in Nat
  PROVE  /\ Total(n) \in Int /\ Total(0) = 0
         /\ n % 2 = 0 => Total(n + 1) = Total(n) + 5 /\ (n + 1) % 2 = 1
         /\ n % 2 # 0 => n % 2 = 1 /\ Total(n + 1) = Total(n) - 2 /\ (n + 1) % 2 = 0
BY DEF Total

\* A request is made.
LEMMA AtAsked ==
  ASSUME NEW u \in Seq(Rest), \A i \in DOMAIN u : u[i] # <<Term>>,
         NEW r \in Rest, r # <<Term>>, NEW l \in Nat
  PROVE  /\ \A q, k : At(Append(u, r), l - 1, q, k) <=> At(u, l, q, k) \/ (q = r /\ k = l - 1)
         /\ \A q : ~ At(u, l, q, l - 1)
<1>1. Len(u) \in Nat /\ DOMAIN u = 1 .. Len(u)
  OBVIOUS
<1>2. EndsIn(u) = 0
  <2>1. u # <<>> => Len(u) \in DOMAIN u
    OBVIOUS
  <2> QED BY <2>1 DEF EndsIn
<1>3. PICK n \in Nat, v \in Seq(Rest) : n = Len(u) /\ v = Append(u, r)
  <2>1. Append(u, r) \in Seq(Rest)
    OBVIOUS
  <2> QED BY <1>1, <2>1
<1>4. /\ Len(v) = n + 1 /\ DOMAIN v = 1 .. n + 1 /\ v[n + 1] = r
      /\ \A i \in 1 .. n : v[i] = u[i]
  BY <1>3
<1>5. EndsIn(v) = 0
  BY <1>4 DEF EndsIn
<1>6. ASSUME NEW q, NEW k PROVE At(v, l - 1, q, k) <=> At(u, l, q, k) \/ (q = r /\ k = l - 1)
  <2>1. At(v, l - 1, q, k) <=> \E i \in 1 .. n + 1 : v[i] = q /\ k = (l - 1) + ((n + 1) - i) - 0
    BY <1>4, <1>5, Zenon DEF At
  <2>2. At(u, l, q, k) <=> \E i \in 1 .. n : u[i] = q /\ k = l + (n - i) - 0
    BY <1>1, <1>2, <1>3, Zenon DEF At
  <2>3. ASSUME NEW i \in 1 .. n + 1, v[i] = q, k = (l - 1) + ((n + 1) - i) - 0
        PROVE  At(u, l, q, k) \/ (q = r /\ k = l - 1)
    <3>1. CASE i = n + 1
      BY <1>4, <2>3, <3>1
    <3>2. CASE i # n + 1
      <4>1. i \in 1 .. n /\ k = l + (n - i) - 0
        BY <2>3, <3>2
      <4> QED BY <1>4, <2>2, <2>3, <4>1
    <3> QED BY <3>1, <3>2
  <2>4. ASSUME NEW i \in 1 .. n, u[i] = q, k = l + (n - i) - 0 PROVE At(v, l - 1, q, k)
    <3>1. i \in 1 .. n + 1 /\ k = (l - 1) + ((n + 1) - i) - 0 /\ v[i] = q
      BY <1>4, <2>4
    <3> QED BY <2>1, <3>1
  <2>5. ASSUME q = r, k = l - 1 PROVE At(v, l - 1, q, k)
    <3>1. n + 1 \in 1 .. n + 1 /\ k = (l - 1) + ((n + 1) - (n + 1)) - 0 /\ v[n + 1] = q
      BY <1>4, <2>5
    <3> QED BY <2>1, <3>1
  <2> QED BY <2>1, <2>2, <2>3, <2>4, <2>5
<1>7. ASSUME NEW q, At(u, l, q, l - 1) PROVE FALSE
  <2>1. PICK i \in 1 .. n : l - 1 = l + (n - i) - 0
    BY <1>1, <1>2, <1>3, <1>7, Zenon DEF At
  <2> QED BY <2>1
<1> QED BY <1>3, <1>6, <1>7

\* The termination request is made.
LEMMA AtEnded ==
  ASSUME NEW u \in Seq(Rest), \A i \in DOMAIN u : u[i] # <<Term>>, NEW l \in Nat
  PROVE  \A q, k : q # <<Term>> => (At(Append(u, <<Term>>), l, q, k) <=> At(u, l, q, k))
<1>1. Len(u) \in Nat /\ DOMAIN u = 1 .. Len(u)
  OBVIOUS
<1>2. EndsIn(u) = 0
  <2>1. u # <<>> => Len(u) \in DOMAIN u
    OBVIOUS
  <2> QED BY <2>1 DEF EndsIn
<1>3. PICK n \in Nat, v \in Seq(Rest) : n = Len(u) /\ v = Append(u, <<Term>>)
  <2>1. <<Term>> \in Rest
    BY Distinct
  <2>2. Append(u, <<Term>>) \in Seq(Rest)
    BY <2>1
  <2> QED BY <1>1, <2>2
<1>4. /\ Len(v) = n + 1 /\ DOMAIN v = 1 .. n + 1 /\ v[n + 1] = <<Term>>
      /\ \A i \in 1 .. n : v[i] = u[i]
  BY <1>3
<1>5. EndsIn(v) = 1
  BY <1>4 DEF EndsIn
<1>6. ASSUME NEW q, NEW k, q # <<Term>> PROVE At(v, l, q, k) <=> At(u, l, q, k)
  <2>1. At(v, l, q, k) <=> \E i \in 1 .. n + 1 : v[i] = q /\ k = l + ((n + 1) - i) - 1
    BY <1>4, <1>5, Zenon DEF At
  <2>2. At(u, l, q, k) <=> \E i \in 1 .. n : u[i] = q /\ k = l + (n - i) - 0
    BY <1>1, <1>2, <1>3, Zenon DEF At
  <2>3. ASSUME NEW i \in 1 .. n + 1, v[i] = q, k = l + ((n + 1) - i) - 1 PROVE At(u, l, q, k)
    <3>1. i # n + 1
      BY <1>4, <1>6, <2>3
    <3>2. i \in 1 .. n /\ k = l + (n - i) - 0
      BY <1>3, <2>3, <3>1
    <3> QED BY <1>4, <2>2, <2>3, <3>2
  <2>4. ASSUME NEW i \in 1 .. n, u[i] = q, k = l + (n - i) - 0 PROVE At(v, l, q, k)
    <3>1. i \in 1 .. n + 1 /\ k = l + ((n + 1) - i) - 1 /\ v[i] = q
      BY <1>4, <2>4
    <3> QED BY <2>1, <3>1
  <2> QED BY <2>1, <2>2, <2>3, <2>4
<1> QED BY <1>3, <1>6

\* The oldest request has the largest number.
LEMMA AtFirst ==
  ASSUME NEW x \in Rest, x # <<Term>>, NEW s \in Seq(Rest), NEW l \in Nat
  PROVE  LET top == l + Len(s) - EndsIn(s) IN
         /\ top \in Int
         /\ \A q, k : At(<<x>> \o s, l, q, k) <=> At(s, l, q, k) \/ (q = x /\ k = top)
         /\ \A q : ~ At(s, l, q, top)
<1>1. PICK n \in Nat, v \in Seq(Rest), e \in {0, 1} :
         n = Len(s) /\ v = <<x>> \o s /\ e = EndsIn(s)
  <2>1. EndsIn(s) \in {0, 1}
    BY DEF EndsIn
  <2>2. <<x>> \o s \in Seq(Rest) /\ Len(s) \in Nat
    BY Pushed
  <2> QED BY <2>1, <2>2
<1>2. /\ Len(v) = n + 1 /\ DOMAIN v = 1 .. n + 1 /\ v[1] = x
      /\ \A i \in 1 .. n : v[i + 1] = s[i]
      /\ DOMAIN s = 1 .. n
  BY <1>1, Pushed
<1>3. EndsIn(v) = e
  <2>1. CASE n = 0
    BY <1>1, <1>2, <2>1 DEF EndsIn
  <2>2. CASE n # 0
    <3>1. v # <<>> /\ s # <<>> /\ v[n + 1] = s[n]
      BY <1>1, <1>2, <2>2
    <3> QED BY <1>1, <1>2, <3>1 DEF EndsIn
  <2> QED BY <2>1, <2>2
<1>4. ASSUME NEW q, NEW k PROVE At(v, l, q, k) <=> At(s, l, q, k) \/ (q = x /\ k = l + n - e)
  <2>1. At(v, l, q, k) <=> \E i \in 1 .. n + 1 : v[i] = q /\ k = l + ((n + 1) - i) - e
    BY <1>2, <1>3, Zenon DEF At
  <2>2. At(s, l, q, k) <=> \E i \in 1 .. n : s[i] = q /\ k = l + (n - i) - e
    BY <1>1, <1>2, Zenon DEF At
  <2>3. ASSUME NEW i \in 1 .. n + 1, v[i] = q, k = l + ((n + 1) - i) - e
        PROVE  At(s, l, q, k) \/ (q = x /\ k = l + n - e)
    <3>1. CASE i = 1
      BY <1>2, <2>3, <3>1
    <3>2. CASE i # 1
      <4>1. PICK j \in 1 .. n : i = j + 1
        <5>1. i - 1 \in 1 .. n /\ i = (i - 1) + 1
          BY <3>2
        <5> QED BY <5>1
      <4>2. s[j] = q /\ k = l + (n - j) - e
        BY <1>2, <2>3, <4>1
      <4> QED BY <2>2, <4>2
    <3> QED BY <3>1, <3>2
  <2>4. ASSUME NEW j \in 1 .. n, s[j] = q, k = l + (n - j) - e PROVE At(v, l, q, k)
    <3>1. j + 1 \in 1 .. n + 1 /\ k = l + ((n + 1) - (j + 1)) - e /\ v[j + 1] = q
      BY <1>2, <2>4
    <3> QED BY <2>1, <3>1
  <2>5. ASSUME q = x, k = l + n - e PROVE At(v, l, q, k)
    <3>1. 1 \in 1 .. n + 1 /\ k = l + ((n + 1) - 1) - e /\ v[1] = q
      BY <1>2, <2>5
    <3> QED BY <2>1, <3>1
  <2> QED BY <2>1, <2>2, <2>3, <2>4, <2>5
<1>5. ASSUME NEW q, At(s, l, q, l + n - e) PROVE FALSE
  <2>1. PICK i \in 1 .. n : l + n - e = l + (n - i) - e
    BY <1>1, <1>2, <1>5, Zenon DEF At
  <2> QED BY <2>1
<1>6. l + n - e \in Int
  OBVIOUS
<1> QED BY <1>1, <1>4, <1>5, <1>6

-----------------------------------------------------------------------------
\* The bookkeeping of the clients
ClientOK ==
  /\ left \in [Client -> Nat] /\ \A c \in Client : left[c] <= Requests[c]
  /\ opNo \in [{"flaky", "steady"} -> {0, 1}]
  /\ DOMAIN result = Client
  /\ \A c \in Client :
       stage[c] \in {"await", "done"} \/ (stage[c] = "payload" /\ out[c] = <<Term>>) => left[c] = 0

Pieces == \A c \in Client : Unread(c) \in Seq(Parts)

\* Somebody is still to be told, or somebody was told what the counter is now.  An
\* answer that was received is the one that was given.
Told ==
  /\ (\E c \in Client : snapshot[c] = None) \/ (\E c \in Client : snapshot[c] = number)
  /\ \A c \in Client : result[c] # None \/ stage[c] = "done" =>
       snapshot[c] # None /\ result[c] = AsReply(snapshot[c])
  /\ \A w \in Worker : pc[w] = "reply" => snapshot[Peer(w)] # None

\* While no client is killed, the counter and the amounts that are open make up the
\* amounts of the requests made.
Ledger ==
  /\ IsFiniteSet(Open(<<2, 3>>)) /\ IsFiniteSet(Open(<<3>>)) /\ IsFiniteSet(Open(<<-2>>))
  /\ IsFiniteSet(Made(Flaky)) /\ IsFiniteSet(Made(Client \ Flaky))
  /\ number + 5 * Cardinality(Open(<<2, 3>>)) + 3 * Cardinality(Open(<<3>>))
            - 2 * Cardinality(Open(<<-2>>))
       = Total(Cardinality(Made(Flaky))) + Total(Cardinality(Made(Client \ Flaky)))
  /\ opNo["flaky"] = Cardinality(Made(Flaky)) % 2
  /\ opNo["steady"] = Cardinality(Made(Client \ Flaky)) % 2
Books == (\A c \in Client : stage[c] # "killed") => Ledger

TotalInv == CounterInv /\ ClientOK /\ Pieces /\ Told /\ Books

LEMMA UnreadType == ASSUME CounterInv PROVE \A c \in Client : Unread(c) \in Seq(Rest)
<1> SUFFICES ASSUME NEW c \in Client PROVE Unread(c) \in Seq(Rest)
  OBVIOUS
<1>1. wire[c] \in Seq(Rest)
  BY DEF CounterInv, Typed
<1>2. CASE \E w \in Worker : Serves(w, c)
  <2>1. PICK w \in Worker : Serves(w, c)
    BY <1>2
  <2>2. ops[w] \in Rest
    BY <2>1 DEF CounterInv, Typed, Serves
  <2>3. Unread(c) = <<ops[w]>> \o wire[c]
    BY <2>1, UnreadIs DEF CounterInv
  <2> QED BY <1>1, <2>2, <2>3, Pushed
<1>3. CASE \A w \in Worker : ~ Serves(w, c)
  BY <1>1, <1>3, UnreadIs DEF CounterInv
<1> QED BY <1>2, <1>3

LEMMA InitTotal == Init => TotalInv
<1> SUFFICES ASSUME Init PROVE TotalInv
  OBVIOUS
<1>1. CounterInv
  BY InitCounter
<1>2. ClientOK
  BY ClientAssumption DEF Init, ClientOK
<1>3. \A c \in Client : Unread(c) = <<>>
  BY <1>1, UnreadIs DEF CounterInv, Init, Serves
<1>4. Pieces
  <2>1. <<>> \in Seq(Parts)
    OBVIOUS
  <2> QED BY <1>3, <2>1 DEF Pieces
<1>5. Told
  BY ClientAssumption DEF Init, Told
<1>6. \A r : Open(r) = {}
  <2>1. \A c \in Client : Asked(c) = <<>>
    BY <1>3 DEF Asked, Init
  <2>2. \A l, r, k : ~ At(<<>>, l, r, k)
    BY DEF At
  <2>3. ASSUME NEW r, NEW x \in Client \X Int PROVE ~ At(Asked(x[1]), left[x[1]], r, x[2])
    <3>1. Asked(x[1]) = <<>>
      BY <2>1
    <3> QED BY <2>2, <3>1
  <2> QED BY <2>3 DEF Open
<1>7. Made(Flaky) = {} /\ Made(Client \ Flaky) = {}
  <2>1. ASSUME NEW T \in SUBSET Client PROVE Made(T) = {}
    <3>1. \A c \in Client : left[c] \in Nat /\ Requests[c] \in Nat /\ left[c] = Requests[c]
      BY ClientAssumption DEF Init
    <3>2. ASSUME NEW x \in T \X Nat PROVE ~ (left[x[1]] < x[2] /\ x[2] <= Requests[x[1]])
      BY <3>1
    <3> QED BY <3>2 DEF Made
  <2> QED BY <2>1, ClientAssumption
<1>8. Ledger
  <2>1. IsFiniteSet({}) /\ Cardinality({}) = 0 /\ Total(0) = 0 /\ 0 % 2 = 0
    BY FS_EmptySet, Totals
  <2>2. number = 0 /\ opNo["flaky"] = 0 /\ opNo["steady"] = 0
    BY DEF Init
  <2>3. \A r : IsFiniteSet(Open(r)) /\ Cardinality(Open(r)) = 0
    BY <1>6, <2>1
  <2>4. /\ IsFiniteSet(Made(Flaky)) /\ IsFiniteSet(Made(Client \ Flaky))
        /\ Cardinality(Made(Flaky)) = 0 /\ Cardinality(Made(Client \ Flaky)) = 0
    BY <1>7, <2>1
  <2> QED BY <2>1, <2>2, <2>3, <2>4 DEF Ledger
<1> QED BY <1>1, <1>2, <1>4, <1>5, <1>8 DEF TotalInv, Books

LEMMA ClientNext == ASSUME CounterInv, ClientOK, [Next]_vars PROVE ClientOK'
<1> USE DEF ClientOK
<1>1. stage \in [Client -> {"start", "send", "payload"} \cup Over] /\ DOMAIN out = Client
  BY DEF CounterInv, Typed
<1>2. ASSUME UNCHANGED <<opNo, left>>, DOMAIN result' = Client,
             \A c \in Client :
               stage'[c] \in {"await", "done"} \/ (stage'[c] = "payload" /\ out'[c] = <<Term>>) =>
               stage[c] \in {"await", "done"} \/ (stage[c] = "payload" /\ out[c] = <<Term>>)
      PROVE  ClientOK'
  BY <1>2
<1>3. ASSUME NEW c \in Client, Connect(c) \/ Receive(c) PROVE ClientOK'
  BY <1>1, <1>2, <1>3 DEF Connect, Receive
<1>4. ASSUME NEW c \in Client, SendPayload(c) PROVE ClientOK'
  BY <1>1, <1>2, <1>4 DEF SendPayload
<1>5. ASSUME NEW c \in Client, SendLength(c) PROVE ClientOK'
  <2>1. stage' = [stage EXCEPT ![c] = "payload"] /\ stage[c] = "send" /\ result' = result
    BY <1>5 DEF SendLength
  <2>2. CASE left[c] > 0
    <3>1. /\ out' = [out EXCEPT ![c] = get_operation(c)]
          /\ opNo' = [opNo EXCEPT ![Program(c)] = (@ + 1) % 2]
          /\ left' = [left EXCEPT ![c] = @ - 1]
      BY <1>5, <2>2 DEF SendLength
    <3>2. opNo' \in [{"flaky", "steady"} -> {0, 1}]
      <4>1. Program(c) \in {"flaky", "steady"}
        BY DEF Program
      <4>2. \A n \in {0, 1} : (n + 1) % 2 \in {0, 1}
        OBVIOUS
      <4> QED BY <3>1, <4>1, <4>2
    <3>3. get_operation(c) # <<Term>>
      BY Distinct DEF get_operation
    <3>4. left' \in [Client -> Nat] /\ \A d \in Client : left'[d] <= Requests[d] /\ (d # c => left'[d] = left[d])
      <4>1. left[c] \in Nat /\ left[c] - 1 \in Nat /\ Requests[c] \in Nat /\ left[c] <= Requests[c]
        BY <2>2, ClientAssumption
      <4>2. left[c] - 1 <= Requests[c]
        BY <4>1
      <4>3. \A d \in Client : left'[d] = IF d = c THEN left[c] - 1 ELSE left[d]
        BY <3>1
      <4>4. left' \in [Client -> Nat]
        BY <3>1, <4>1
      <4> QED BY <4>2, <4>3, <4>4
    <3>5. out'[c] # <<Term>> /\ \A d \in Client \ {c} : out'[d] = out[d]
      BY <1>1, <3>1, <3>3
    <3> QED BY <1>1, <2>1, <3>2, <3>4, <3>5
  <2>3. CASE ~ left[c] > 0
    <3>1. out' = [out EXCEPT ![c] = <<Term>>] /\ UNCHANGED <<opNo, left>> /\ left[c] = 0
      BY <1>5, <2>3 DEF SendLength
    <3> QED BY <1>1, <2>1, <3>1
  <2> QED BY <2>2, <2>3
<1>6. CASE Kill
  BY <1>1, <1>2, <1>6 DEF Kill
<1>7. ASSUME UNCHANGED <<opNo, left, stage, out>>, DOMAIN result' = Client PROVE ClientOK'
  BY <1>2, <1>7
<1>8. CASE Accept \/ HandOver \/ UNCHANGED vars
  BY <1>7, <1>8 DEF Accept, HandOver, vars, clients
<1>9. ASSUME NEW w \in Worker, server(w) PROVE ClientOK'
  <2>1. UNCHANGED <<opNo, left, stage, out>> /\ DOMAIN result' = Client
    BY <1>9 DEF server, CopyList, PollNothing, RecvLength, RecvPayload, Update, Snapshot, ReplyAndClose,
                Mark, Erase, clients
  <2> QED BY <1>7, <2>1
<1> QED BY <1>3, <1>4, <1>5, <1>6, <1>8, <1>9 DEF Next, client

\* What becomes of a request when its first amount is added
LEMMA PartsOf ==
  /\ Parts \subseteq Rest
  /\ \A x \in Parts : x # <<Term>> =>
       \/ x = <<2, 3>> /\ Len(x) # 1 /\ Tail(x) = <<3>> /\ Head(x) = 2
       \/ x = <<3>> /\ Len(x) = 1 /\ Head(x) = 3
       \/ x = <<-2>> /\ Len(x) = 1 /\ Head(x) = -2
  /\ <<2, 3>> # <<3>> /\ <<2, 3>> # <<-2>> /\ <<3>> # <<-2>>
  /\ <<2, 3>> # <<Term>> /\ <<3>> # <<Term>> /\ <<-2>> # <<Term>>
  /\ <<3>> \in Parts /\ <<2, 3>> \in Parts /\ <<-2>> \in Parts /\ <<Term>> \in Parts
<1>1. /\ <<3>> \in Rest
      /\ <<3>> \in Parts /\ <<2, 3>> \in Parts /\ <<-2>> \in Parts /\ <<Term>> \in Parts
  BY DEF Rest, Parts
<1>2. /\ Len(<<2, 3>>) = 2 /\ Len(<<3>>) = 1 /\ Len(<<-2>>) = 1
      /\ Head(<<2, 3>>) = 2 /\ Head(<<3>>) = 3 /\ Head(<<-2>>) = -2 /\ Tail(<<2, 3>>) = <<3>>
  OBVIOUS
<1>3. <<2, 3>> # <<3>> /\ <<2, 3>> # <<-2>> /\ <<3>> # <<-2>>
  BY <1>2
<1>4. Head(<<Term>>) = Term
  OBVIOUS
<1>5. <<2, 3>> # <<Term>> /\ <<3>> # <<Term>> /\ <<-2>> # <<Term>>
  BY <1>2, <1>4, TermAssumption
<1>6. Parts \subseteq Rest
  BY <1>1, Distinct DEF Parts
<1>7. ASSUME NEW x \in Parts, x # <<Term>>
      PROVE  \/ x = <<2, 3>> /\ Len(x) # 1 /\ Tail(x) = <<3>> /\ Head(x) = 2
             \/ x = <<3>> /\ Len(x) = 1 /\ Head(x) = 3
             \/ x = <<-2>> /\ Len(x) = 1 /\ Head(x) = -2
  <2>1. CASE x = <<2, 3>>
    BY <1>2, <2>1
  <2>2. CASE x = <<3>>
    BY <1>2, <2>2
  <2>3. CASE x = <<-2>>
    BY <1>2, <2>3
  <2> QED BY <1>7, <2>1, <2>2, <2>3 DEF Parts
<1> QED BY <1>1, <1>3, <1>5, <1>6, <1>7

LEMMA PiecesNext == ASSUME Pieces, [Counter!Next]_Counter!vars PROVE Pieces'
<1> DEFINE q == [c \in Client |-> Unread(c)]
<1>1. \A c \in Client : q[c] = Unread(c) /\ q'[c] = Unread(c)' /\ q[c] \in Seq(Parts)
  BY DEF Pieces
<1>2. ASSUME NEW c \in Client, NEW u \in Seq(Parts), q' = [q EXCEPT ![c] = u] PROVE Pieces'
  BY <1>1, <1>2 DEF Pieces
<1>3. ASSUME NEW c \in Client, NEW request \in Counter!Request, Counter!Ask(c, request)
      PROVE  Pieces'
  <2>1. request \in Parts
    BY PartsOf DEF Counter!Request
  <2>2. Append(q[c], request) \in Seq(Parts)
    BY <1>1, <2>1
  <2>3. q' = [q EXCEPT ![c] = Append(q[c], request)]
    BY <1>3 DEF Counter!Ask
  <2> QED BY <1>2, <2>2, <2>3
<1>4. ASSUME NEW c \in Client, Counter!Apply(c) PROVE Pieces'
  <2>1. /\ q[c] # <<>> /\ Head(q[c]) # <<Term>>
        /\ q' = [q EXCEPT ![c] = IF Len(Head(q[c])) = 1 THEN Tail(q[c]) ELSE <<Tail(Head(q[c]))>> \o Tail(q[c])]
    BY <1>4 DEF Counter!Apply
  <2>2. Head(q[c]) \in Parts /\ Tail(q[c]) \in Seq(Parts)
    BY <1>1, <2>1
  <2>3. CASE Len(Head(q[c])) = 1
    <3>1. q' = [q EXCEPT ![c] = Tail(q[c])]
      BY <2>1, <2>3
    <3> QED BY <1>2, <2>2, <3>1
  <2>4. CASE Len(Head(q[c])) # 1
    <3>1. Tail(Head(q[c])) \in Parts
      BY <2>1, <2>2, <2>4, PartsOf
    <3>2. <<Tail(Head(q[c]))>> \o Tail(q[c]) \in Seq(Parts)
      BY <2>2, <3>1, Pushed
    <3>3. q' = [q EXCEPT ![c] = <<Tail(Head(q[c]))>> \o Tail(q[c])]
      BY <2>1, <2>4
    <3> QED BY <1>2, <3>2, <3>3
  <2> QED BY <2>3, <2>4
<1>5. ASSUME NEW c \in Client, Counter!Answer(c) PROVE Pieces'
  <2>1. q[c] # <<>> /\ q' = [q EXCEPT ![c] = Tail(q[c])]
    BY <1>5 DEF Counter!Answer
  <2>2. Tail(q[c]) \in Seq(Parts)
    BY <1>1, <2>1
  <2> QED BY <1>2, <2>1, <2>2
<1>6. CASE UNCHANGED Counter!vars
  <2>1. q' = q
    BY <1>6 DEF Counter!vars
  <2> QED BY <1>1, <2>1 DEF Pieces
<1> QED BY <1>3, <1>4, <1>5, <1>6 DEF Counter!Next

\* A worker that has still to reply keeps its connection.
LEMMA Replying ==
  ASSUME CounterInv, [Next]_vars, NEW w \in Worker, pc'[w] = "reply"
  PROVE  Snapshot(w) \/ (pc[w] = "reply" /\ Peer(w)' = Peer(w))
<1> USE DEF Peer, Fdesc
<1>1. pc \in [Worker -> {"wait", "scan", "payload", "process", "reply", "mark"}]
  BY DEF CounterInv, Inv, TypeOK
<1>2. CASE UNCHANGED <<conn, copy, idx, pc>>
  BY <1>2
<1>3. CASE Accept
  <2>1. PICK fd \in Fd : conn[fd] = None /\ conn' = [conn EXCEPT ![fd] = Head(backlog)]
    BY <1>3 DEF Accept
  <2>2. UNCHANGED <<copy, idx, pc>>
    BY <1>3 DEF Accept, workers
  <2>3. Fdesc(w) \in Fd /\ Fdesc(w) # fd
    <3>1. conn[Fdesc(w)] \in Client /\ Fdesc(w) \in Fd
      BY <2>2, Peers DEF CounterInv
    <3> QED BY <2>1, <3>1, NoneAssumption
  <2> QED BY <2>1, <2>2, <2>3 DEF CounterInv, Inv, TypeOK
<1>4. ASSUME NEW v \in Worker, server(v) PROVE Snapshot(w) \/ (pc[w] = "reply" /\ Peer(w)' = Peer(w))
  <2>1. CASE Snapshot(v)
    <3>1. pc' = [pc EXCEPT ![v] = "reply"] /\ UNCHANGED <<conn, copy, idx>>
      BY <2>1 DEF Snapshot, Goto, kernel
    <3> QED BY <1>1, <2>1, <3>1
  <2>2. CASE Update(v)
    <3>1. /\ UNCHANGED <<conn, copy>>
          /\ \/ pc' = pc /\ idx' = idx
             \/ pc' = [pc EXCEPT ![v] = "scan"] /\ idx' = [idx EXCEPT ![v] = @ + 1]
      BY <2>2 DEF Update, Advance, Goto, kernel
    <3> QED BY <1>1, <3>1 DEF CounterInv, Inv, TypeOK
  <2>3. CASE ReplyAndClose(v)
    <3>1. /\ pc[v] = "reply" /\ pc' = [pc EXCEPT ![v] = "mark"] /\ UNCHANGED <<copy, idx>>
          /\ conn' = [conn EXCEPT ![Fdesc(v)] = None]
      BY <2>3 DEF ReplyAndClose, Goto
    <3>2. v # w /\ pc[w] = "reply"
      BY <1>1, <3>1
    <3>3. Fdesc(w) \in Fd /\ Fdesc(v) \in Fd /\ Fdesc(w) # Fdesc(v)
      BY <3>1, <3>2, Peers DEF CounterInv
    <3> QED BY <3>1, <3>2, <3>3 DEF CounterInv, Inv, TypeOK
  <2>4. CASE ~ Snapshot(v) /\ ~ Update(v) /\ ~ ReplyAndClose(v)
    <3>1. /\ conn' = conn
          /\ \E to \in {"scan", "payload", "process", "wait"} : pc' = [pc EXCEPT ![v] = to]
          /\ copy' = copy \/ \E s : copy' = [copy EXCEPT ![v] = s]
          /\ idx' = idx \/ \E i : idx' = [idx EXCEPT ![v] = i]
      <4>1. CASE CopyList(v) \/ Erase(v)
        BY <4>1 DEF CopyList, Erase, Goto, kernel
      <4>2. CASE PollNothing(v) \/ Mark(v)
        BY <4>2 DEF PollNothing, Mark, Advance, Goto, kernel
      <4>3. CASE RecvLength(v)
        BY <4>3 DEF RecvLength, Advance, Goto
      <4>4. CASE RecvPayload(v)
        BY <4>4 DEF RecvPayload, Advance, Goto
      <4> QED BY <1>4, <2>4, <4>1, <4>2, <4>3, <4>4 DEF server
    <3>2. v # w
      BY <1>1, <3>1
    <3>3. pc'[w] = pc[w] /\ copy'[w] = copy[w] /\ idx'[w] = idx[w]
      BY <3>1, <3>2 DEF CounterInv, Inv, TypeOK
    <3> QED BY <3>1, <3>3
  <2> QED BY <2>1, <2>2, <2>3, <2>4
<1>5. CASE HandOver \/ Kill \/ UNCHANGED vars
  BY <1>2, <1>5 DEF HandOver, Kill, vars, kernel, workers
<1>6. ASSUME NEW c \in Client, client(c) PROVE pc[w] = "reply" /\ Peer(w)' = Peer(w)
  BY <1>2, <1>6 DEF client, Connect, SendLength, SendPayload, Receive, workers
<1> QED BY <1>3, <1>4, <1>5, <1>6 DEF Next

LEMMA ToldNext == ASSUME CounterInv, ClientOK, Told, [Next]_vars, Inv', Single' PROVE Told'
<1>1. /\ snapshot \in [Client -> Int \cup {None}] /\ number \in Int
      /\ stage \in [Client -> {"start", "send", "payload"} \cup Over] /\ DOMAIN result = Client
  BY DEF CounterInv, Typed, ClientOK
<1>2. /\ (\E c \in Client : snapshot[c] = None) \/ (\E c \in Client : snapshot[c] = number)
      /\ \A c \in Client : result[c] # None \/ stage[c] = "done" =>
           snapshot[c] # None /\ result[c] = AsReply(snapshot[c])
      /\ \A w \in Worker : pc[w] = "reply" => snapshot[Peer(w)] # None
  BY DEF Told
<1>3. ASSUME NEW w \in Worker, pc'[w] = "reply", pc[w] # "process" PROVE snapshot[Peer(w)'] # None
  <2>1. pc[w] = "reply" /\ Peer(w)' = Peer(w)
    BY <1>3, Replying DEF Snapshot
  <2> QED BY <1>2, <2>1
<1>4. ASSUME UNCHANGED <<number, snapshot, result>>,
             \A w \in Worker : pc'[w] = "reply" => pc[w] # "process",
             \A c \in Client : stage'[c] = "done" => stage[c] = "done" \/ result[c] # None
      PROVE  Told'
  <2>1. \A w \in Worker : pc'[w] = "reply" => snapshot'[Peer(w)'] # None
    BY <1>3, <1>4
  <2> QED BY <1>2, <1>4, <2>1 DEF Told
<1>5. ASSUME NEW w \in Worker, Snapshot(w) PROVE Told'
  <2>1. /\ pc[w] = "process" /\ pc' = [pc EXCEPT ![w] = "reply"]
        /\ snapshot' = [snapshot EXCEPT ![Peer(w)] = number]
        /\ UNCHANGED <<number, conn, copy, idx, stage, result>>
    BY <1>5 DEF Snapshot, Goto, kernel, clients
  <2>2. PICK c \in Client : c = Peer(w) /\ Counter!Answer(c)
    BY <1>5, AnswerStep
  <2>3. Unread(c) # <<>>
    BY <2>2 DEF Counter!Answer
  <2>4. snapshot[c] = None
    BY <2>3 DEF CounterInv, Closing, Closes
  <2>5. snapshot'[c] = number /\ \A d \in Client \ {c} : snapshot'[d] = snapshot[d]
    BY <1>1, <2>1, <2>2
  <2>6. number # None
    BY <1>1, NoneAssumption
  <2>7. ASSUME NEW v \in Worker, pc'[v] = "reply" PROVE snapshot'[Peer(v)'] # None
    <3>1. CASE v = w
      BY <2>1, <2>2, <2>5, <2>6, <3>1 DEF Peer, Fdesc
    <3>2. CASE v # w
      <4>1. pc[v] = "reply" /\ Peer(v)' = Peer(v)
        BY <2>1, <2>7, <3>2 DEF Peer, Fdesc, CounterInv, Inv, TypeOK
      <4>2. Peer(v) \in Client /\ snapshot[Peer(v)] # None
        BY <1>2, <4>1, Peers DEF CounterInv
      <4>3. Peer(v) # c
        BY <2>4, <4>2
      <4> QED BY <2>5, <4>1, <4>2, <4>3
    <3> QED BY <3>1, <3>2
  <2>8. ASSUME NEW d \in Client, result'[d] # None \/ stage'[d] = "done"
        PROVE  snapshot'[d] # None /\ result'[d] = AsReply(snapshot'[d])
    <3>1. snapshot[d] # None /\ result[d] = AsReply(snapshot[d])
      BY <1>2, <2>1, <2>8
    <3>2. d # c
      BY <2>4, <3>1
    <3> QED BY <2>1, <2>5, <3>1, <3>2
  <2>9. snapshot'[c] = number'
    BY <2>1, <2>5
  <2> QED BY <2>7, <2>8, <2>9 DEF Told
<1>6. ASSUME NEW w \in Worker, Update(w) PROVE Told'
  <2>1. UNCHANGED <<snapshot, stage, result>>
    BY <1>6 DEF Update, clients
  <2>2. PICK c \in Client : Counter!Apply(c)
    BY <1>6, ApplyStep
  <2>3. Unread(c) # <<>>
    BY <2>2 DEF Counter!Apply
  <2>4. snapshot'[c] = None
    BY <2>1, <2>3 DEF CounterInv, Closing, Closes
  <2>5. ASSUME NEW v \in Worker, pc'[v] = "reply" PROVE snapshot'[Peer(v)'] # None
    <3>1. pc' = pc \/ pc' = [pc EXCEPT ![w] = "scan"]
      BY <1>6 DEF Update, Advance, Goto
    <3>2. pc[v] # "process"
      BY <2>5, <3>1 DEF CounterInv, Inv, TypeOK
    <3> QED BY <1>3, <2>1, <2>5, <3>2
  <2>6. \A d \in Client : result'[d] # None \/ stage'[d] = "done" =>
          snapshot'[d] # None /\ result'[d] = AsReply(snapshot'[d])
    BY <1>2, <2>1
  <2> QED BY <2>4, <2>5, <2>6 DEF Told
<1>7. ASSUME NEW w \in Worker, ReplyAndClose(w) PROVE Told'
  <2>1. /\ pc[w] = "reply" /\ pc' = [pc EXCEPT ![w] = "mark"]
        /\ result' = [result EXCEPT ![Peer(w)] = AsReply(snapshot[Peer(w)])]
        /\ UNCHANGED <<number, snapshot, stage>>
    BY <1>7 DEF ReplyAndClose, Goto
  <2>2. Peer(w) \in Client /\ snapshot[Peer(w)] # None
    BY <1>2, <2>1, Peers DEF CounterInv
  <2>3. ASSUME NEW v \in Worker, pc'[v] = "reply" PROVE snapshot'[Peer(v)'] # None
    <3>1. pc[v] # "process"
      BY <2>1, <2>3 DEF CounterInv, Inv, TypeOK
    <3> QED BY <1>3, <2>1, <2>3, <3>1
  <2>4. ASSUME NEW d \in Client, result'[d] # None \/ stage'[d] = "done"
        PROVE  snapshot'[d] # None /\ result'[d] = AsReply(snapshot'[d])
    <3>1. CASE d = Peer(w)
      BY <1>1, <2>1, <2>2, <3>1
    <3>2. CASE d # Peer(w)
      <4>1. result'[d] = result[d]
        BY <1>1, <2>1, <3>2
      <4> QED BY <1>2, <2>1, <2>4, <4>1
    <3> QED BY <3>1, <3>2
  <2> QED BY <1>2, <2>1, <2>3, <2>4 DEF Told
<1>8. ASSUME NEW w \in Worker, \/ CopyList(w) \/ PollNothing(w) \/ RecvLength(w)
                               \/ RecvPayload(w) \/ Mark(w) \/ Erase(w)
      PROVE  Told'
  <2>1. /\ UNCHANGED <<number, snapshot, result, stage>>
        /\ \E to \in {"scan", "payload", "process", "wait"} : pc' = [pc EXCEPT ![w] = to]
    BY <1>8 DEF CopyList, PollNothing, RecvLength, RecvPayload, Mark, Erase, Advance, Goto, clients
  <2>2. \A v \in Worker : pc'[v] = "reply" => pc[v] # "process"
    BY <2>1 DEF CounterInv, Inv, TypeOK
  <2> QED BY <1>4, <2>1, <2>2
<1>9. ASSUME NEW c \in Client, client(c) PROVE Told'
  <2>1. UNCHANGED <<number, snapshot, result, pc>>
    BY <1>9 DEF client, Connect, SendLength, SendPayload, Receive, workers
  <2>2. \A d \in Client : stage'[d] = "done" => stage[d] = "done" \/ result[d] # None
    BY <1>1, <1>9 DEF client, Connect, SendLength, SendPayload, Receive
  <2> QED BY <1>4, <2>1, <2>2
<1>10. CASE Kill
  <2>1. UNCHANGED <<number, snapshot, result, pc>>
    BY <1>10 DEF Kill, workers
  <2>2. \A d \in Client : stage'[d] = "done" => stage[d] = "done"
    BY <1>10 DEF Kill
  <2> QED BY <1>4, <2>1, <2>2
<1>11. CASE Accept \/ HandOver \/ UNCHANGED vars
  <2>1. UNCHANGED <<number, snapshot, result, pc, stage>>
    BY <1>11 DEF Accept, HandOver, vars, workers, clients
  <2> QED BY <1>4, <2>1
<1> QED BY <1>5, <1>6, <1>7, <1>8, <1>9, <1>10, <1>11 DEF Next, server

\* How the number of the open requests of one kind changes with those of one client
LEMMA OpenStep ==
  ASSUME NEW c \in Client, \A d \in Client \ {c} : Asked(d)' = Asked(d) /\ left'[d] = left[d],
         NEW r, IsFiniteSet(Open(r))
  PROVE  LET Was(k) == At(Asked(c), left[c], r, k)
             Is(k)  == At(Asked(c)', left'[c], r, k)
             n  == Cardinality(Open(r))
             n1 == Cardinality(Open(r)')
         IN  /\ n \in Nat
             /\ (\A k : Is(k) <=> Was(k)) => IsFiniteSet(Open(r)') /\ n1 = n
             /\ \A m \in Int : (\A k : Is(k) <=> Was(k) \/ k = m) /\ ~ Was(m) =>
                  IsFiniteSet(Open(r)') /\ n1 = n + 1
             /\ \A m \in Int : (\A k : Was(k) <=> Is(k) \/ k = m) /\ ~ Is(m) =>
                  IsFiniteSet(Open(r)') /\ n1 = n - 1
<1> DEFINE Was(k) == At(Asked(c), left[c], r, k)
           Is(k)  == At(Asked(c)', left'[c], r, k)
<1>1. \A d \in Client, k \in Int : <<d, k>> \in Open(r) <=> At(Asked(d), left[d], r, k)
  BY DEF Open
<1>2. \A d \in Client, k \in Int : <<d, k>> \in Open(r)' <=> At(Asked(d)', left'[d], r, k)
  BY DEF Open
<1>3. Open(r) \subseteq Client \X Int /\ Open(r)' \subseteq Client \X Int
  BY DEF Open
<1>4. \A d \in Client \ {c}, k \in Int : <<d, k>> \in Open(r)' <=> <<d, k>> \in Open(r)
  BY <1>1, <1>2
<1>5. \A k \in Int : /\ <<c, k>> \in Open(r) <=> Was(k)
                     /\ <<c, k>> \in Open(r)' <=> Is(k)
  BY <1>1, <1>2
<1> HIDE DEF Was, Is
<1>6. ASSUME \A k : Is(k) <=> Was(k) PROVE Open(r)' = Open(r)
  <2>1. \A d \in Client, k \in Int : <<d, k>> \in Open(r)' <=> <<d, k>> \in Open(r)
    BY <1>4, <1>5, <1>6
  <2> QED BY <1>3, <2>1
<1>7. ASSUME NEW m \in Int, \A k : Is(k) <=> Was(k) \/ k = m PROVE Open(r)' = Open(r) \cup {<<c, m>>}
  <2>1. \A d \in Client, k \in Int :
          <<d, k>> \in Open(r)' <=> <<d, k>> \in Open(r) \/ (d = c /\ k = m)
    BY <1>4, <1>5, <1>7
  <2> QED BY <1>3, <2>1
<1>8. ASSUME NEW m \in Int, \A k : Was(k) <=> Is(k) \/ k = m, ~ Is(m)
      PROVE  Open(r)' = Open(r) \ {<<c, m>>}
  <2>1. \A d \in Client, k \in Int :
          <<d, k>> \in Open(r)' <=> <<d, k>> \in Open(r) /\ ~ (d = c /\ k = m)
    BY <1>4, <1>5, <1>8
  <2> QED BY <1>3, <2>1
<1>9. Cardinality(Open(r)) \in Nat
  BY FS_CardinalityType
<1>10. ASSUME NEW m \in Int, \A k : Is(k) <=> Was(k) \/ k = m, ~ Was(m)
       PROVE  IsFiniteSet(Open(r)') /\ Cardinality(Open(r)') = Cardinality(Open(r)) + 1
  <2>1. <<c, m>> \notin Open(r)
    BY <1>5, <1>10
  <2> QED BY <1>7, <1>10, <2>1, FS_AddElement
<1>11. ASSUME NEW m \in Int, \A k : Was(k) <=> Is(k) \/ k = m, ~ Is(m)
       PROVE  IsFiniteSet(Open(r)') /\ Cardinality(Open(r)') = Cardinality(Open(r)) - 1
  <2>1. <<c, m>> \in Open(r)
    BY <1>5, <1>11
  <2> QED BY <1>8, <1>11, <2>1, FS_RemoveElement
<1> QED BY <1>6, <1>9, <1>10, <1>11 DEF Was, Is

\* The requests that are open stay if no client asks and no request is worked on.
LEMMA OpenSame ==
  ASSUME \A c \in Client : Asked(c)' = Asked(c) /\ left'[c] = left[c]
  PROVE  /\ \A r : Open(r)' = Open(r)
         /\ \A T \in SUBSET Client : Made(T)' = Made(T)
<1>1. ASSUME NEW r PROVE Open(r)' = Open(r)
  BY DEF Open
<1>2. ASSUME NEW T \in SUBSET Client PROVE Made(T)' = Made(T)
  BY DEF Made
<1> QED BY <1>1, <1>2

\* A client makes a request.
LEMMA MadeStep ==
  ASSUME NEW c \in Client, NEW T \in SUBSET Client, IsFiniteSet(Made(T)), ClientOK, left[c] > 0,
         left' = [left EXCEPT ![c] = @ - 1]
  PROVE  /\ Cardinality(Made(T)) \in Nat
         /\ c \in T => IsFiniteSet(Made(T)') /\ Cardinality(Made(T)') = Cardinality(Made(T)) + 1
         /\ c \notin T => Made(T)' = Made(T)
<1>1. \A d \in Client : /\ left[d] \in Nat /\ Requests[d] \in Nat /\ left[d] <= Requests[d]
                        /\ left'[d] = IF d = c THEN left[c] - 1 ELSE left[d]
  BY ClientAssumption DEF ClientOK
<1>2. Made(T) \subseteq T \X Nat /\ Made(T)' \subseteq T \X Nat
  BY DEF Made
<1>3. \A d \in T, k \in Nat : /\ <<d, k>> \in Made(T) <=> left[d] < k /\ k <= Requests[d]
                              /\ <<d, k>> \in Made(T)' <=> left'[d] < k /\ k <= Requests[d]
  BY DEF Made
<1>4. \A d \in T, k \in Nat : d # c => (<<d, k>> \in Made(T)' <=> <<d, k>> \in Made(T))
  BY <1>1, <1>3
<1>5. ASSUME c \in T PROVE IsFiniteSet(Made(T)') /\ Cardinality(Made(T)') = Cardinality(Made(T)) + 1
  <2>1. PICK l \in Nat : l = left[c] /\ l > 0 /\ l <= Requests[c] /\ left'[c] = l - 1
    BY <1>1
  <2>2. \A k \in Nat : <<c, k>> \in Made(T)' <=> <<c, k>> \in Made(T) \/ k = l
    <3>1. ASSUME NEW k \in Nat PROVE (l - 1 < k /\ k <= Requests[c]) <=> (l < k /\ k <= Requests[c]) \/ k = l
      <4>1. PICK q \in Nat : q = Requests[c] /\ l <= q
        BY <1>1, <2>1
      <4> QED BY <4>1
    <3> QED BY <1>3, <1>5, <2>1, <3>1
  <2>3. <<c, l>> \notin Made(T)
    BY <1>3, <1>5, <2>1
  <2>4. \A d \in T, k \in Nat : <<d, k>> \in Made(T)' <=> <<d, k>> \in Made(T) \/ (d = c /\ k = l)
    BY <1>4, <2>2
  <2>5. Made(T)' = Made(T) \cup {<<c, l>>}
    BY <1>2, <1>5, <2>4
  <2>6. /\ IsFiniteSet(Made(T) \cup {<<c, l>>})
        /\ Cardinality(Made(T) \cup {<<c, l>>}) = Cardinality(Made(T)) + 1
    BY <2>3, FS_AddElement
  <2> QED BY <2>5, <2>6
<1>6. ASSUME c \notin T PROVE Made(T)' = Made(T)
  BY <1>2, <1>4, <1>6
<1> QED BY <1>5, <1>6, FS_CardinalityType

LEMMA UnreadSame == ASSUME UNCHANGED Counter!vars PROVE \A c \in Client : Unread(c)' = Unread(c)
<1> DEFINE q == [c \in Client |-> Unread(c)]
<1>1. q' = q
  BY DEF Counter!vars
<1>2. \A c \in Client : q[c] = Unread(c) /\ q'[c] = Unread(c)'
  OBVIOUS
<1> QED BY <1>1, <1>2

LEMMA LedgerSame ==
  ASSUME Ledger, \A c \in Client : Asked(c)' = Asked(c) /\ left'[c] = left[c], UNCHANGED <<number, opNo>>
  PROVE  Ledger'
<1>1. \A r : Open(r)' = Open(r)
  BY OpenSame
<1>2. Made(Flaky)' = Made(Flaky) /\ Made(Client \ Flaky)' = Made(Client \ Flaky)
  BY OpenSame, ClientAssumption
<1> QED BY <1>1, <1>2 DEF Ledger

\* A client sends the length of a request, or of its termination request.
LEMMA LedgerSendLength ==
  ASSUME CounterInv, ClientOK, Pieces, Ledger, Inv', Single', NEW c \in Client, SendLength(c)
  PROVE  Ledger'
<1>1. /\ stage[c] = "send" /\ stage' = [stage EXCEPT ![c] = "payload"] /\ number' = number
      /\ stage \in [Client -> {"start", "send", "payload"} \cup Over] /\ DOMAIN out = Client
  BY DEF SendLength, CounterInv, Typed
<1>2. \A d \in Client : Unread(d)' = Unread(d)
  BY QuietSteps, UnreadSame
<1>3. PICK u \in Seq(Rest), l \in Nat : u = Unread(c) /\ l = left[c]
  BY UnreadType DEF ClientOK
<1>4. \A i \in DOMAIN u : u[i] # <<Term>>
  BY <1>1, <1>3 DEF CounterInv, Closing, Closes, Over
<1>5. Asked(c) = u
  BY <1>1, <1>3 DEF Asked
<1>6. ASSUME NEW r, out' = [out EXCEPT ![c] = r]
      PROVE  Asked(c)' = Append(u, r) /\ \A d \in Client \ {c} : Asked(d)' = Asked(d)
  BY <1>1, <1>2, <1>3, <1>6 DEF Asked
<1>7. PICK a \in Nat, b \in Nat, d \in Nat :
        /\ a = Cardinality(Open(<<2, 3>>)) /\ b = Cardinality(Open(<<3>>)) /\ d = Cardinality(Open(<<-2>>))
  BY FS_CardinalityType DEF Ledger
<1>8. PICK f \in Nat, g \in Nat : f = Cardinality(Made(Flaky)) /\ g = Cardinality(Made(Client \ Flaky))
  BY FS_CardinalityType DEF Ledger
<1>9. CASE left[c] > 0
  <2>1. PICK r \in Rest : r = get_operation(c)
    BY Distinct DEF get_operation
  <2>2. /\ out' = [out EXCEPT ![c] = r]
        /\ opNo' = [opNo EXCEPT ![Program(c)] = (@ + 1) % 2]
        /\ left' = [left EXCEPT ![c] = @ - 1]
    BY <1>9, <2>1 DEF SendLength
  <2>3. r # <<Term>> /\ r # <<3>> /\ r = IF opNo[Program(c)] = 0 THEN <<2, 3>> ELSE <<-2>>
    BY <2>1, Distinct, PartsOf DEF get_operation
  <2>4. Asked(c)' = Append(u, r) /\ \A e \in Client \ {c} : Asked(e)' = Asked(e) /\ left'[e] = left[e]
    BY <1>6, <2>2 DEF ClientOK
  <2>5. left'[c] = l - 1
    BY <1>3, <2>2 DEF ClientOK
  <2>6. /\ \A q, k : At(Append(u, r), l - 1, q, k) <=> At(u, l, q, k) \/ (q = r /\ k = l - 1)
        /\ \A q : ~ At(u, l, q, l - 1)
    <3>1. r # <<Term>> /\ \A i \in DOMAIN u : u[i] # <<Term>>
      BY <1>4, <2>3
    <3> QED BY <3>1, AtAsked
  <2>7. ASSUME NEW q, IsFiniteSet(Open(q))
        PROVE  /\ IsFiniteSet(Open(q)')
               /\ Cardinality(Open(q)') = IF q = r THEN Cardinality(Open(q)) + 1 ELSE Cardinality(Open(q))
    <3>1. \A k : At(Asked(c)', left'[c], q, k) <=> At(Asked(c), left[c], q, k) \/ (q = r /\ k = l - 1)
      BY <1>3, <1>5, <2>4, <2>5, <2>6
    <3>2. ~ At(Asked(c), left[c], q, l - 1) /\ l - 1 \in Int
      BY <1>3, <1>5, <2>6
    <3>3. CASE q = r
      BY <2>4, <2>7, <3>1, <3>2, <3>3, OpenStep
    <3>4. CASE q # r
      BY <2>4, <2>7, <3>1, <3>4, OpenStep
    <3> QED BY <3>3, <3>4
  <2>8. /\ IsFiniteSet(Open(<<2, 3>>)') /\ IsFiniteSet(Open(<<3>>)') /\ IsFiniteSet(Open(<<-2>>)')
        /\ Cardinality(Open(<<2, 3>>)') = IF <<2, 3>> = r THEN a + 1 ELSE a
        /\ Cardinality(Open(<<3>>)') = b
        /\ Cardinality(Open(<<-2>>)') = IF <<-2>> = r THEN d + 1 ELSE d
    BY <1>7, <2>3, <2>7 DEF Ledger
  <2>9. \A n \in Nat, m \in {0, 1} : m = n % 2 =>
          /\ (m + 1) % 2 = (n + 1) % 2
          /\ Total(n) \in Int
          /\ m = 0 => Total(n + 1) = Total(n) + 5
          /\ m # 0 => Total(n + 1) = Total(n) - 2
    <3> SUFFICES ASSUME NEW n \in Nat, NEW m \in {0, 1}, m = n % 2
                 PROVE  /\ (m + 1) % 2 = (n + 1) % 2
                        /\ Total(n) \in Int
                        /\ m = 0 => Total(n + 1) = Total(n) + 5
                        /\ m # 0 => Total(n + 1) = Total(n) - 2
      OBVIOUS
    <3>1. (0 + 1) % 2 = 1 /\ (1 + 1) % 2 = 0
      OBVIOUS
    <3>2. CASE m = 0
      BY <3>1, <3>2, Totals
    <3>3. CASE m = 1
      BY <3>1, <3>3, Totals
    <3> QED BY <3>2, <3>3
  <2>10. <<2, 3>> # <<-2>>
    BY PartsOf
  <2>11. /\ number \in Int
         /\ number + 5 * a + 3 * b - 2 * d = Total(f) + Total(g)
         /\ opNo["flaky"] = f % 2 /\ opNo["steady"] = g % 2
         /\ opNo["flaky"] \in {0, 1} /\ opNo["steady"] \in {0, 1}
    BY <1>7, <1>8 DEF Ledger, CounterInv, Typed, ClientOK
  <2>12. CASE c \in Flaky
    <3>1. Program(c) = "flaky" /\ c \notin Client \ Flaky
      BY <2>12 DEF Program
    <3>2. opNo'["flaky"] = (opNo["flaky"] + 1) % 2 /\ opNo'["steady"] = opNo["steady"]
      BY <2>2, <3>1 DEF ClientOK
    <3>3. /\ IsFiniteSet(Made(Flaky)') /\ Cardinality(Made(Flaky)') = f + 1
          /\ IsFiniteSet(Made(Client \ Flaky)') /\ Cardinality(Made(Client \ Flaky)') = g
      BY <1>8, <1>9, <2>2, <2>12, <3>1, MadeStep, ClientAssumption DEF Ledger
    <3>4. /\ opNo'["flaky"] = (f + 1) % 2
          /\ Total(f) \in Int /\ Total(g) \in Int
          /\ opNo["flaky"] = 0 => Total(f + 1) = Total(f) + 5
          /\ opNo["flaky"] # 0 => Total(f + 1) = Total(f) - 2
      BY <2>9, <2>11, <3>2, Totals
    <3>5. CASE opNo["flaky"] = 0
      <4>1. r = <<2, 3>>
        BY <2>3, <3>1, <3>5
      <4>2. Cardinality(Open(<<2, 3>>)') = a + 1 /\ Cardinality(Open(<<-2>>)') = d
        BY <2>8, <2>10, <4>1
      <4>3. number + 5 * (a + 1) + 3 * b - 2 * d = Total(f + 1) + Total(g)
        BY <2>11, <3>4, <3>5
      <4> QED BY <1>1, <2>8, <2>11, <3>2, <3>3, <3>4, <4>2, <4>3 DEF Ledger
    <3>6. CASE opNo["flaky"] # 0
      <4>1. r = <<-2>>
        BY <2>3, <3>1, <3>6
      <4>2. Cardinality(Open(<<2, 3>>)') = a /\ Cardinality(Open(<<-2>>)') = d + 1
        BY <2>8, <2>10, <4>1
      <4>3. number + 5 * a + 3 * b - 2 * (d + 1) = Total(f + 1) + Total(g)
        <5>1. PICK i \in Int, j \in Int : i = Total(f) /\ j = Total(g)
          BY <3>4
        <5>2. Total(f + 1) = i - 2 /\ number + 5 * a + 3 * b - 2 * d = i + j /\ number \in Int
          BY <2>11, <3>4, <3>6, <5>1
        <5> QED BY <5>1, <5>2
      <4> QED BY <1>1, <2>8, <2>11, <3>2, <3>3, <3>4, <4>2, <4>3 DEF Ledger
    <3> QED BY <3>5, <3>6
  <2>13. CASE c \notin Flaky
    <3>1. Program(c) = "steady" /\ c \in Client \ Flaky
      BY <2>13 DEF Program
    <3>2. opNo'["steady"] = (opNo["steady"] + 1) % 2 /\ opNo'["flaky"] = opNo["flaky"]
      BY <2>2, <3>1 DEF ClientOK
    <3>3. /\ IsFiniteSet(Made(Flaky)') /\ Cardinality(Made(Flaky)') = f
          /\ IsFiniteSet(Made(Client \ Flaky)') /\ Cardinality(Made(Client \ Flaky)') = g + 1
      BY <1>8, <1>9, <2>2, <2>13, <3>1, MadeStep, ClientAssumption DEF Ledger
    <3>4. /\ opNo'["steady"] = (g + 1) % 2
          /\ Total(f) \in Int /\ Total(g) \in Int
          /\ opNo["steady"] = 0 => Total(g + 1) = Total(g) + 5
          /\ opNo["steady"] # 0 => Total(g + 1) = Total(g) - 2
      BY <2>9, <2>11, <3>2, Totals
    <3>5. CASE opNo["steady"] = 0
      <4>1. r = <<2, 3>>
        BY <2>3, <3>1, <3>5
      <4>2. Cardinality(Open(<<2, 3>>)') = a + 1 /\ Cardinality(Open(<<-2>>)') = d
        BY <2>8, <2>10, <4>1
      <4>3. number + 5 * (a + 1) + 3 * b - 2 * d = Total(f) + Total(g + 1)
        BY <2>11, <3>4, <3>5
      <4> QED BY <1>1, <2>8, <2>11, <3>2, <3>3, <3>4, <4>2, <4>3 DEF Ledger
    <3>6. CASE opNo["steady"] # 0
      <4>1. r = <<-2>>
        BY <2>3, <3>1, <3>6
      <4>2. Cardinality(Open(<<2, 3>>)') = a /\ Cardinality(Open(<<-2>>)') = d + 1
        BY <2>8, <2>10, <4>1
      <4>3. number + 5 * a + 3 * b - 2 * (d + 1) = Total(f) + Total(g + 1)
        <5>1. PICK i \in Int, j \in Int : i = Total(f) /\ j = Total(g)
          BY <3>4
        <5>2. Total(g + 1) = j - 2 /\ number + 5 * a + 3 * b - 2 * d = i + j /\ number \in Int
          BY <2>11, <3>4, <3>6, <5>1
        <5> QED BY <5>1, <5>2
      <4> QED BY <1>1, <2>8, <2>11, <3>2, <3>3, <3>4, <4>2, <4>3 DEF Ledger
    <3> QED BY <3>5, <3>6
  <2> QED BY <2>12, <2>13
<1>10. CASE ~ left[c] > 0
  <2>1. out' = [out EXCEPT ![c] = <<Term>>] /\ UNCHANGED <<opNo, left>>
    BY <1>10 DEF SendLength
  <2>2. Asked(c)' = Append(u, <<Term>>) /\ \A e \in Client \ {c} : Asked(e)' = Asked(e) /\ left'[e] = left[e]
    BY <1>6, <2>1
  <2>3. \A q, k : q # <<Term>> => (At(Append(u, <<Term>>), l, q, k) <=> At(u, l, q, k))
    BY <1>4, AtEnded
  <2>4. ASSUME NEW q, q # <<Term>>, IsFiniteSet(Open(q))
        PROVE  IsFiniteSet(Open(q)') /\ Cardinality(Open(q)') = Cardinality(Open(q))
    <3>1. \A k : At(Asked(c)', left'[c], q, k) <=> At(Asked(c), left[c], q, k)
      BY <1>3, <1>5, <2>1, <2>2, <2>3, <2>4
    <3> QED BY <2>2, <2>4, <3>1, OpenStep
  <2>5. Made(Flaky)' = Made(Flaky) /\ Made(Client \ Flaky)' = Made(Client \ Flaky)
    BY <2>1 DEF Made
  <2>6. /\ IsFiniteSet(Open(<<2, 3>>)') /\ IsFiniteSet(Open(<<3>>)') /\ IsFiniteSet(Open(<<-2>>)')
        /\ Cardinality(Open(<<2, 3>>)') = a /\ Cardinality(Open(<<3>>)') = b
        /\ Cardinality(Open(<<-2>>)') = d
    BY <1>7, <2>4, PartsOf DEF Ledger
  <2> QED BY <1>1, <1>7, <2>1, <2>5, <2>6 DEF Ledger
<1> QED BY <1>9, <1>10

\* The rest of the request arrives.
LEMMA LedgerSendPayload ==
  ASSUME CounterInv, Ledger, Inv', Single', NEW c \in Client, SendPayload(c)
  PROVE  Ledger'
<1>1. /\ stage[c] = "payload" /\ out' = [out EXCEPT ![c] = <<>>]
      /\ stage' = [stage EXCEPT ![c] = IF out[c] = <<Term>> THEN "await" ELSE "send"]
      /\ UNCHANGED <<number, opNo, left>>
      /\ stage \in [Client -> {"start", "send", "payload"} \cup Over] /\ DOMAIN out = Client
  BY DEF SendPayload, CounterInv, Typed
<1> DEFINE q == [d \in Client |-> Unread(d)]
<1>2. q' = [q EXCEPT ![c] = Append(q[c], out[c])]
  BY AskStep DEF Counter!Ask
<1>3. \A d \in Client : Unread(d)' = IF d = c THEN Append(Unread(c), out[c]) ELSE Unread(d)
  <2>1. \A d \in Client : q[d] = Unread(d) /\ q'[d] = Unread(d)'
    OBVIOUS
  <2>2. \A d \in Client : q'[d] = IF d = c THEN Append(q[c], out[c]) ELSE q[d]
    BY <1>2
  <2> QED BY <2>1, <2>2
<1>4. Asked(c)' = Asked(c)
  <2>1. stage'[c] # "payload"
    BY <1>1
  <2> QED BY <1>1, <1>3, <2>1 DEF Asked
<1>5. \A d \in Client \ {c} : Asked(d)' = Asked(d)
  BY <1>1, <1>3 DEF Asked
<1> QED BY <1>1, <1>4, <1>5, LedgerSame

LEMMA PushAppend ==
  ASSUME NEW S, NEW x \in S, NEW t \in Seq(S), NEW o \in S
  PROVE  Append(<<x>> \o t, o) = <<x>> \o Append(t, o)
<1>1. Append(t, o) \in Seq(S) /\ Len(Append(t, o)) = Len(t) + 1
  OBVIOUS
<1>2. PICK v \in Seq(S), y \in Seq(S) : v = <<x>> \o t /\ y = Append(t, o)
  BY <1>1, Pushed
<1>3. PICK n \in Nat : n = Len(t)
  OBVIOUS
<1>4. /\ Len(v) = n + 1 /\ v[1] = x /\ \A i \in 1 .. n : v[i + 1] = t[i]
  BY <1>2, <1>3, Pushed
<1>5. /\ Len(y) = n + 1 /\ y[n + 1] = o /\ \A i \in 1 .. n : y[i] = t[i]
  BY <1>2, <1>3
<1>6. PICK l \in Seq(S), r \in Seq(S) : l = Append(v, o) /\ r = <<x>> \o y
  <2>1. Append(v, o) \in Seq(S)
    OBVIOUS
  <2>2. <<x>> \o y \in Seq(S)
    BY Pushed
  <2> QED BY <2>1, <2>2
<1>7. /\ Len(l) = n + 2 /\ l[n + 2] = o /\ \A i \in 1 .. n + 1 : l[i] = v[i]
  BY <1>4, <1>6
<1>8. /\ Len(r) = n + 2 /\ r[1] = x /\ \A i \in 1 .. n + 1 : r[i + 1] = y[i]
  BY <1>5, <1>6, Pushed
<1>9. ASSUME NEW i \in 1 .. n + 2 PROVE l[i] = r[i]
  <2>1. CASE i = 1
    BY <1>4, <1>7, <1>8, <2>1
  <2>2. CASE i = n + 2
    <3>1. n + 1 \in 1 .. n + 1 /\ i = (n + 1) + 1
      BY <2>2
    <3> QED BY <1>5, <1>7, <1>8, <2>2, <3>1
  <2>3. CASE i # 1 /\ i # n + 2
    <3>1. PICK j \in 1 .. n : i = j + 1
      <4>1. i - 1 \in 1 .. n /\ i = (i - 1) + 1
        BY <2>3
      <4> QED BY <4>1
    <3>2. j \in 1 .. n + 1 /\ i \in 1 .. n + 1
      BY <3>1
    <3>3. l[i] = t[j] /\ r[i] = t[j]
      BY <1>4, <1>5, <1>7, <1>8, <3>1, <3>2
    <3> QED BY <3>3
  <2> QED BY <2>1, <2>2, <2>3
<1>10. l = r
  BY <1>7, <1>8, <1>9
<1> QED BY <1>2, <1>6, <1>10

\* One amount is added.
LEMMA LedgerUpdate ==
  ASSUME CounterInv, ClientOK, Pieces, Ledger, Inv', Single', NEW w \in Worker, Update(w)
  PROVE  Ledger'
<1>1. UNCHANGED <<stage, out, opNo, left>>
  BY DEF Update, clients
<1>2. PICK c \in Client : Counter!Apply(c)
  BY ApplyStep
<1> DEFINE q == [d \in Client |-> Unread(d)]
<1>3. /\ q[c] # <<>> /\ Head(q[c]) # <<Term>> /\ number' = number + Head(Head(q[c]))
      /\ q' = [q EXCEPT ![c] = IF Len(Head(q[c])) = 1 THEN Tail(q[c]) ELSE <<Tail(Head(q[c]))>> \o Tail(q[c])]
  BY <1>2 DEF Counter!Apply
<1>4. \A d \in Client : q[d] = Unread(d) /\ q'[d] = Unread(d)' /\ q[d] \in Seq(Parts)
  BY DEF Pieces
<1>5. PICK x \in Parts, t \in Seq(Parts) : x = Head(q[c]) /\ t = Tail(q[c])
  <2>1. PICK u \in Seq(Parts) : u = q[c] /\ u # <<>>
    BY <1>3, <1>4
  <2>2. Head(u) \in Parts /\ Tail(u) \in Seq(Parts)
    BY <2>1
  <2> QED BY <2>1, <2>2
<1>6. Unread(c) = <<x>> \o t
  BY <1>3, <1>4, <1>5, Popped
<1>7. /\ Unread(c)' = IF Len(x) = 1 THEN t ELSE <<Tail(x)>> \o t
      /\ \A d \in Client \ {c} : Unread(d)' = Unread(d)
      /\ number' = number + Head(x) /\ x # <<Term>>
  BY <1>3, <1>4, <1>5
<1>8. PICK s \in Seq(Rest) : /\ \A y \in Parts : stage[c] = "payload" => Append(<<y>> \o t, out[c]) = <<y>> \o s
                             /\ stage[c] = "payload" => s = Append(t, out[c])
                             /\ stage[c] # "payload" => s = t
  <2>1. CASE stage[c] = "payload"
    <3>1. out[c] \in Parts
      BY <2>1, PartsOf DEF CounterInv, Typed, Request
    <3>2. \A y \in Parts : Append(<<y>> \o t, out[c]) = <<y>> \o Append(t, out[c])
      BY <3>1, PushAppend
    <3>3. Append(t, out[c]) \in Seq(Parts)
      BY <3>1
    <3>4. Append(t, out[c]) \in Seq(Rest)
      BY <3>3, PartsOf
    <3> QED BY <2>1, <3>2, <3>4
  <2>2. CASE stage[c] # "payload"
    <3>1. t \in Seq(Rest)
      BY PartsOf
    <3> QED BY <2>2, <3>1
  <2> QED BY <2>1, <2>2
<1>9. Asked(c) = <<x>> \o s
  BY <1>6, <1>8 DEF Asked
<1>10. /\ Len(x) = 1 => Asked(c)' = s
       /\ x = <<2, 3>> => Asked(c)' = <<<<3>>>> \o s
       /\ \A d \in Client \ {c} : Asked(d)' = Asked(d) /\ left'[d] = left[d]
  <2>1. ASSUME Len(x) = 1 PROVE Asked(c)' = s
    <3>1. Unread(c)' = t
      BY <1>7, <2>1
    <3> QED BY <1>1, <1>8, <3>1 DEF Asked
  <2>2. ASSUME x = <<2, 3>> PROVE Asked(c)' = <<<<3>>>> \o s
    <3>1. Len(x) # 1 /\ Tail(x) = <<3>> /\ <<3>> \in Parts
      BY <2>2, PartsOf
    <3>2. Unread(c)' = <<<<3>>>> \o t
      BY <1>7, <3>1
    <3> QED BY <1>1, <1>8, <3>1, <3>2 DEF Asked
  <2>3. \A d \in Client \ {c} : Asked(d)' = Asked(d) /\ left'[d] = left[d]
    BY <1>1, <1>7 DEF Asked
  <2> QED BY <2>1, <2>2, <2>3
<1>11. PICK l \in Nat : l = left[c] /\ l = left'[c]
  BY <1>1 DEF ClientOK
<1>12. PICK top \in Int :
         \A y \in Parts : y # <<Term>> =>
           /\ \A r, k : At(<<y>> \o s, l, r, k) <=> At(s, l, r, k) \/ (r = y /\ k = top)
           /\ \A r : ~ At(s, l, r, top)
  <2>1. \A y \in Parts : y # <<Term>> =>
          /\ l + Len(s) - EndsIn(s) \in Int
          /\ \A r, k : At(<<y>> \o s, l, r, k) <=> At(s, l, r, k) \/ (r = y /\ k = l + Len(s) - EndsIn(s))
          /\ \A r : ~ At(s, l, r, l + Len(s) - EndsIn(s))
    <3> SUFFICES ASSUME NEW y \in Rest, y # <<Term>>
                 PROVE  /\ l + Len(s) - EndsIn(s) \in Int
                        /\ \A r, k : At(<<y>> \o s, l, r, k) <=>
                                     At(s, l, r, k) \/ (r = y /\ k = l + Len(s) - EndsIn(s))
                        /\ \A r : ~ At(s, l, r, l + Len(s) - EndsIn(s))
      BY PartsOf
    <3> QED BY AtFirst
  <2>2. l + Len(s) - EndsIn(s) \in Int
    BY <2>1, <1>7
  <2> QED BY <2>1, <2>2
<1>13. PICK a \in Nat, b \in Nat, d \in Nat :
         /\ a = Cardinality(Open(<<2, 3>>)) /\ b = Cardinality(Open(<<3>>)) /\ d = Cardinality(Open(<<-2>>))
  BY FS_CardinalityType DEF Ledger
<1>14. Made(Flaky)' = Made(Flaky) /\ Made(Client \ Flaky)' = Made(Client \ Flaky)
  BY <1>1 DEF Made
<1>15. PICK total \in Int :
         /\ total = Total(Cardinality(Made(Flaky))) + Total(Cardinality(Made(Client \ Flaky)))
         /\ number \in Int /\ number + 5 * a + 3 * b - 2 * d = total
  <2>1. /\ Cardinality(Made(Flaky)) \in Nat /\ Cardinality(Made(Client \ Flaky)) \in Nat
    BY FS_CardinalityType DEF Ledger
  <2>2. Total(Cardinality(Made(Flaky))) + Total(Cardinality(Made(Client \ Flaky))) \in Int
    <3>1. \A n \in Nat : Total(n) \in Int
      BY Totals
    <3> QED BY <2>1, <3>1
  <2> QED BY <1>13, <2>2 DEF Ledger, CounterInv, Typed
\* What the request itself and the others of its kind, or of another kind, count
<1>16. ASSUME NEW r, IsFiniteSet(Open(r)), r # x, Len(x) = 1 \/ r # << 3 >>
       PROVE  IsFiniteSet(Open(r)') /\ Cardinality(Open(r)') = Cardinality(Open(r))
  <2>1. \A k : At(Asked(c)', left'[c], r, k) <=> At(Asked(c), left[c], r, k)
    <3>1. \A k : At(Asked(c), left[c], r, k) <=> At(s, l, r, k)
      BY <1>7, <1>9, <1>11, <1>12, <1>16
    <3>2. CASE Len(x) = 1
      BY <1>10, <1>11, <3>1, <3>2
    <3>3. CASE Len(x) # 1
      <4>1. Asked(c)' = <<<<3>>>> \o s /\ r # <<3>>
        BY <1>7, <1>10, <1>16, <3>3, PartsOf
      <4>2. \A k : At(<<<<3>>>> \o s, l, r, k) <=> At(s, l, r, k)
        BY <1>12, <4>1, PartsOf
      <4> QED BY <1>11, <3>1, <4>1, <4>2
    <3> QED BY <3>2, <3>3
  <2> QED BY <1>10, <1>16, <2>1, OpenStep
<1>17. ASSUME IsFiniteSet(Open(x)) PROVE IsFiniteSet(Open(x)') /\ Cardinality(Open(x)') = Cardinality(Open(x)) - 1
  <2>1. \A k : At(Asked(c)', left'[c], x, k) <=> At(s, l, x, k)
    <3>1. CASE Len(x) = 1
      BY <1>10, <1>11, <3>1
    <3>2. CASE Len(x) # 1
      <4>1. Asked(c)' = <<<<3>>>> \o s /\ x # <<3>>
        BY <1>7, <1>10, <3>2, PartsOf
      <4>2. \A k : At(<<<<3>>>> \o s, l, x, k) <=> At(s, l, x, k)
        BY <1>12, <4>1, PartsOf
      <4> QED BY <1>11, <4>1, <4>2
    <3> QED BY <3>1, <3>2
  <2>2. /\ \A k : At(Asked(c), left[c], x, k) <=> At(Asked(c)', left'[c], x, k) \/ k = top
        /\ ~ At(Asked(c)', left'[c], x, top)
    BY <1>7, <1>9, <1>11, <1>12, <2>1
  <2> QED BY <1>10, <1>17, <2>2, OpenStep
<1>18. ASSUME x = <<2, 3>>, IsFiniteSet(Open(<< 3 >>))
       PROVE  IsFiniteSet(Open(<<3>>)') /\ Cardinality(Open(<<3>>)') = Cardinality(Open(<<3>>)) + 1
  <2>1. PICK r \in Parts : r = <<3>> /\ r # x /\ r # <<Term>>
    BY <1>18, PartsOf
  <2>2. \A k : At(Asked(c), left[c], <<3>>, k) <=> At(s, l, <<3>>, k)
    <3>1. \A k : At(<<x>> \o s, l, r, k) <=> At(s, l, r, k)
      BY <1>7, <1>12, <2>1
    <3> QED BY <1>9, <1>11, <2>1, <3>1
  <2>3. \A k : At(Asked(c)', left'[c], <<3>>, k) <=> At(s, l, <<3>>, k) \/ k = top
    <3>1. Asked(c)' = <<r>> \o s
      BY <1>10, <1>18, <2>1
    <3>2. \A k : At(<<r>> \o s, l, r, k) <=> At(s, l, r, k) \/ k = top
      BY <1>12, <2>1
    <3> QED BY <1>11, <2>1, <3>1, <3>2
  <2>4. /\ \A k : At(Asked(c)', left'[c], <<3>>, k) <=> At(Asked(c), left[c], <<3>>, k) \/ k = top
        /\ ~ At(Asked(c), left[c], <<3>>, top)
    BY <1>7, <1>12, <2>2, <2>3
  <2> QED BY <1>10, <1>18, <2>4, OpenStep
<1>19. IsFiniteSet(Open(<<2, 3>>)) /\ IsFiniteSet(Open(<<3>>)) /\ IsFiniteSet(Open(<<-2>>))
  BY DEF Ledger
<1>20. ASSUME NEW a1, NEW b1, NEW d1,
              IsFiniteSet(Open(<<2, 3>>)'), IsFiniteSet(Open(<< 3 >>)'), IsFiniteSet(Open(<<-2>>)'),
              a1 = Cardinality(Open(<<2, 3>>)'), b1 = Cardinality(Open(<< 3 >>)'),
              d1 = Cardinality(Open(<<-2>>)'),
              number' + 5 * a1 + 3 * b1 - 2 * d1 = total
       PROVE  Ledger'
  BY <1>1, <1>14, <1>15, <1>20 DEF Ledger
<1>21. CASE x = <<2, 3>>
  <2>1. /\ IsFiniteSet(Open(<<2, 3>>)') /\ Cardinality(Open(<<2, 3>>)') = a - 1
    BY <1>13, <1>17, <1>19, <1>21
  <2>2. IsFiniteSet(Open(<<3>>)') /\ Cardinality(Open(<<3>>)') = b + 1
    BY <1>13, <1>18, <1>19, <1>21
  <2>3. IsFiniteSet(Open(<<-2>>)') /\ Cardinality(Open(<<-2>>)') = d
    BY <1>13, <1>16, <1>19, <1>21, PartsOf
  <2>4. number' = number + 2
    BY <1>7, <1>21
  <2>5. number' + 5 * (a - 1) + 3 * (b + 1) - 2 * d = total
    BY <1>15, <2>4
  <2> QED BY <1>20, <2>1, <2>2, <2>3, <2>5
<1>22. CASE x = <<3>>
  <2>1. IsFiniteSet(Open(<<2, 3>>)') /\ Cardinality(Open(<<2, 3>>)') = a
    BY <1>13, <1>16, <1>19, <1>22, PartsOf
  <2>2. IsFiniteSet(Open(<<3>>)') /\ Cardinality(Open(<<3>>)') = b - 1
    BY <1>13, <1>17, <1>19, <1>22
  <2>3. IsFiniteSet(Open(<<-2>>)') /\ Cardinality(Open(<<-2>>)') = d
    BY <1>13, <1>16, <1>19, <1>22, PartsOf
  <2>4. number' = number + 3
    BY <1>7, <1>22
  <2>5. number' + 5 * a + 3 * (b - 1) - 2 * d = total
    BY <1>15, <2>4
  <2> QED BY <1>20, <2>1, <2>2, <2>3, <2>5
<1>23. CASE x = <<-2>>
  <2>1. IsFiniteSet(Open(<<2, 3>>)') /\ Cardinality(Open(<<2, 3>>)') = a
    BY <1>13, <1>16, <1>19, <1>23, PartsOf
  <2>2. IsFiniteSet(Open(<<3>>)') /\ Cardinality(Open(<<3>>)') = b
    BY <1>13, <1>16, <1>19, <1>23, PartsOf
  <2>3. IsFiniteSet(Open(<<-2>>)') /\ Cardinality(Open(<<-2>>)') = d - 1
    BY <1>13, <1>17, <1>19, <1>23
  <2>4. number' = number - 2
    BY <1>7, <1>15, <1>23
  <2>5. number' + 5 * a + 3 * b - 2 * (d - 1) = total
    BY <1>15, <2>4
  <2> QED BY <1>20, <2>1, <2>2, <2>3, <2>5
<1> QED BY <1>7, <1>21, <1>22, <1>23, PartsOf

\* The termination request of a client is the last of its requests.
LEMMA LedgerSnapshot ==
  ASSUME CounterInv, ClientOK, Ledger, Inv', Single', NEW w \in Worker, Snapshot(w)
  PROVE  Ledger'
<1>1. UNCHANGED <<number, stage, out, opNo, left>>
  BY DEF Snapshot, clients
<1>2. PICK c \in Client : Counter!Answer(c)
  BY AnswerStep
<1> DEFINE q == [d \in Client |-> Unread(d)]
<1>3. q[c] # <<>> /\ Head(q[c]) = <<Term>> /\ q' = [q EXCEPT ![c] = Tail(q[c])]
  BY <1>2 DEF Counter!Answer
<1>4. \A d \in Client : q[d] = Unread(d) /\ q'[d] = Unread(d)' /\ q[d] \in Seq(Rest)
  BY UnreadType
<1>5. PICK u \in Seq(Rest) : u = Unread(c) /\ u # <<>> /\ Head(u) = <<Term>> /\ Unread(c)' = Tail(u)
  BY <1>3, <1>4
<1>6. \A d \in Client \ {c} : Unread(d)' = Unread(d)
  BY <1>3, <1>4
<1>7. 1 \in DOMAIN u /\ u[1] = <<Term>> /\ Len(u) \in Nat /\ DOMAIN u = 1 .. Len(u)
  BY <1>5
<1>8. Len(u) = 1 /\ stage[c] \in Over
  BY <1>5, <1>7 DEF CounterInv, Closing, Closes
<1>9. Tail(u) = <<>>
  BY <1>5, <1>8
<1>10. Asked(c) = u /\ Asked(c)' = <<>> /\ \A d \in Client \ {c} : Asked(d)' = Asked(d) /\ left'[d] = left[d]
  BY <1>1, <1>5, <1>6, <1>8, <1>9 DEF Asked, Over
<1>11. ASSUME NEW r, r # <<Term>>, IsFiniteSet(Open(r))
       PROVE  IsFiniteSet(Open(r)') /\ Cardinality(Open(r)') = Cardinality(Open(r))
  <2>1. \A l, k : ~ At(u, l, r, k)
    <3>1. \A i \in DOMAIN u : u[i] = <<Term>>
      BY <1>7, <1>8
    <3> QED BY <1>11, <3>1 DEF At
  <2>2. \A l, k : ~ At(<<>>, l, r, k)
    BY DEF At
  <2>3. \A k : At(Asked(c)', left'[c], r, k) <=> At(Asked(c), left[c], r, k)
    BY <1>10, <2>1, <2>2
  <2> QED BY <1>10, <1>11, <2>3, OpenStep
<1>12. Made(Flaky)' = Made(Flaky) /\ Made(Client \ Flaky)' = Made(Client \ Flaky)
  BY <1>1 DEF Made
<1>13. IsFiniteSet(Open(<<2, 3>>)) /\ IsFiniteSet(Open(<<3>>)) /\ IsFiniteSet(Open(<<-2>>))
  BY DEF Ledger
<1>14. /\ IsFiniteSet(Open(<<2, 3>>)') /\ IsFiniteSet(Open(<<3>>)') /\ IsFiniteSet(Open(<<-2>>)')
       /\ Cardinality(Open(<<2, 3>>)') = Cardinality(Open(<<2, 3>>))
       /\ Cardinality(Open(<<3>>)') = Cardinality(Open(<<3>>))
       /\ Cardinality(Open(<<-2>>)') = Cardinality(Open(<<-2>>))
  BY <1>11, <1>13, PartsOf
<1> QED BY <1>1, <1>12, <1>14 DEF Ledger

LEMMA BooksNext == ASSUME TotalInv, [Next]_vars, Inv', Single' PROVE Books'
<1> USE DEF TotalInv
<1>1. stage \in [Client -> {"start", "send", "payload"} \cup Over]
  BY DEF CounterInv, Typed
<1>2. CASE Kill
  <2>1. PICK c \in Flaky : stage[c] \in {"send", "payload", "await"}
    BY <1>2 DEF Kill
  <2>2. c \in Client /\ stage'[c] = "killed"
    BY <1>2, <2>1, ClientAssumption DEF Kill
  <2> QED BY <2>2 DEF Books
<1>3. ASSUME ~ Kill, \A c \in Client : stage'[c] # "killed" PROVE \A c \in Client : stage[c] # "killed"
  <2>1. UNCHANGED stage \/ \E c \in Client : client(c)
    BY <1>3 DEF Next, Accept, HandOver, server, CopyList, PollNothing, RecvLength, RecvPayload, Update,
                Snapshot, ReplyAndClose, Mark, Erase, vars, clients
  <2>2. ASSUME NEW c \in Client, client(c) PROVE \A d \in Client : stage[d] # "killed"
    <3>1. /\ stage[c] # "killed"
          /\ \A d \in Client \ {c} : stage'[d] = stage[d]
      BY <1>1, <2>2 DEF client, Connect, SendLength, SendPayload, Receive
    <3> QED BY <1>3, <3>1
  <2> QED BY <1>3, <2>1, <2>2
<1>4. ASSUME Ledger, UNCHANGED Counter!vars, UNCHANGED <<number, opNo, left, out>>,
             \A c \in Client : stage'[c] = "payload" <=> stage[c] = "payload"
      PROVE  Ledger'
  <2>1. \A c \in Client : Unread(c)' = Unread(c)
    BY <1>4, UnreadSame
  <2>2. \A c \in Client : Asked(c)' = Asked(c)
    BY <1>4, <2>1 DEF Asked
  <2> QED BY <1>4, <2>2, LedgerSame
<1>5. ASSUME Ledger, ~ Kill PROVE Ledger'
  <2>1. ASSUME NEW c \in Client, client(c) PROVE Ledger'
    <3>1. CASE Connect(c) \/ Receive(c)
      <4>1. UNCHANGED Counter!vars
        BY <3>1, QuietSteps
      <4>2. /\ UNCHANGED <<number, opNo, left, out>>
            /\ \A d \in Client : stage'[d] = "payload" <=> stage[d] = "payload"
        BY <1>1, <3>1 DEF Connect, Receive
      <4> QED BY <1>4, <1>5, <4>1, <4>2
    <3> QED BY <1>5, <2>1, <3>1, LedgerSendLength, LedgerSendPayload DEF client
  <2>2. ASSUME NEW w \in Worker, server(w) PROVE Ledger'
    <3>1. CASE Update(w) \/ Snapshot(w)
      BY <1>5, <3>1, LedgerUpdate, LedgerSnapshot
    <3>2. CASE RecvPayload(w)
      <4>1. UNCHANGED Counter!vars
        BY <3>2, ReceiveStep
      <4>2. UNCHANGED <<number, opNo, left, out, stage>>
        BY <3>2 DEF RecvPayload, clients
      <4> QED BY <1>4, <1>5, <4>1, <4>2
    <3>3. CASE \/ CopyList(w) \/ PollNothing(w) \/ RecvLength(w) \/ ReplyAndClose(w) \/ Mark(w) \/ Erase(w)
      <4>1. UNCHANGED Counter!vars
        BY <3>3, QuietSteps
      <4>2. UNCHANGED <<number, opNo, left, out, stage>>
        BY <3>3 DEF CopyList, PollNothing, RecvLength, ReplyAndClose, Mark, Erase, clients
      <4> QED BY <1>4, <1>5, <4>1, <4>2
    <3> QED BY <2>2, <3>1, <3>2, <3>3 DEF server
  <2>3. CASE Accept \/ HandOver \/ UNCHANGED vars
    <3>1. UNCHANGED Counter!vars
      BY <2>3, QuietSteps
    <3>2. UNCHANGED <<number, opNo, left, out, stage>>
      BY <2>3 DEF Accept, HandOver, vars, clients
    <3> QED BY <1>4, <1>5, <3>1, <3>2
  <2> QED BY <1>5, <2>1, <2>2, <2>3 DEF Next
<1> QED BY <1>2, <1>3, <1>5 DEF Books

LEMMA TotalStep == ASSUME TotalInv, [Next]_vars PROVE TotalInv'
<1>1. CounterInv' /\ [Counter!Next]_Counter!vars
  BY CounterStep DEF TotalInv
<1>2. Inv' /\ Single'
  BY <1>1 DEF CounterInv
<1> QED BY <1>1, <1>2, ClientNext, PiecesNext, ToldNext, BooksNext DEF TotalInv

\* When everybody has been served, all requests have been made and none is open.
LEMMA Reported == TotalInv => TotalReported
<1> SUFFICES ASSUME TotalInv, \A c \in Client : stage[c] = "done"
             PROVE  /\ number = Total(RequestsOf(Flaky)) + Total(RequestsOf(Client \ Flaky))
                    /\ \E c \in Client : snapshot[c] = number
                    /\ \A c \in Client : result[c] = AsReply(snapshot[c])
  BY DEF TotalReported
<1>1. \A c \in Client : snapshot[c] # None /\ result[c] = AsReply(snapshot[c])
  BY DEF TotalInv, Told
<1>2. \E c \in Client : snapshot[c] = number
  BY <1>1 DEF TotalInv, Told
<1>3. \A c \in Client : Unread(c) = <<>> /\ Asked(c) = <<>> /\ left[c] = 0
  BY <1>1 DEF TotalInv, CounterInv, Closing, Closes, ClientOK, Asked
<1>4. \A r : Open(r) = {}
  <2>1. \A l, r, k : ~ At(<<>>, l, r, k)
    BY DEF At
  <2>2. ASSUME NEW r, NEW x \in Client \X Int PROVE ~ At(Asked(x[1]), left[x[1]], r, x[2])
    <3>1. Asked(x[1]) = <<>>
      BY <1>3
    <3> QED BY <2>1, <3>1
  <2> QED BY <2>2 DEF Open
<1>5. ASSUME NEW T \in SUBSET Client PROVE Cardinality(Made(T)) = RequestsOf(T)
  <2> DEFINE all == UNION {{c} \X (1 .. Requests[c]) : c \in T}
  <2>1. \A c \in T : Requests[c] \in Nat /\ left[c] = 0
    BY <1>3, ClientAssumption
  <2>2. all \subseteq T \X Nat /\ Made(T) \subseteq T \X Nat
    BY <2>1 DEF Made
  <2>3. \A c \in T, k \in Nat : <<c, k>> \in Made(T) <=> 0 < k /\ k <= Requests[c]
    BY <2>1 DEF Made
  <2>4. \A c \in T, k \in Nat : <<c, k>> \in all <=> 1 <= k /\ k <= Requests[c]
    <3> SUFFICES ASSUME NEW c \in T, NEW k \in Nat PROVE <<c, k>> \in all <=> k \in 1 .. Requests[c]
      BY <2>1
    <3>1. <<c, k>> \in all => k \in 1 .. Requests[c]
      OBVIOUS
    <3>2. k \in 1 .. Requests[c] => <<c, k>> \in all
      <4>1. ASSUME k \in 1 .. Requests[c] PROVE <<c, k>> \in {c} \X (1 .. Requests[c])
        BY <4>1
      <4> QED BY <4>1
    <3> QED BY <3>1, <3>2
  <2> HIDE DEF all
  <2>5. \A c \in T, k \in Nat : <<c, k>> \in all <=> <<c, k>> \in Made(T)
    <3>1. \A k \in Nat : 0 < k <=> 1 <= k
      OBVIOUS
    <3> QED BY <2>3, <2>4, <3>1, Zenon
  <2>6. all = Made(T)
    BY <2>2, <2>5
  <2> QED BY <2>6 DEF RequestsOf, all
<1>6. Ledger
  BY DEF TotalInv, Books
<1>7. \A r : Cardinality(Open(r)) = 0
  BY <1>4, FS_EmptySet
<1>8. number \in Int
  BY DEF TotalInv, CounterInv, Typed
<1>9. number = Total(Cardinality(Made(Flaky))) + Total(Cardinality(Made(Client \ Flaky)))
  <2>1. number + 5 * 0 + 3 * 0 - 2 * 0 = Total(Cardinality(Made(Flaky))) + Total(Cardinality(Made(Client \ Flaky)))
    BY <1>6, <1>7 DEF Ledger
  <2>2. number + 5 * 0 + 3 * 0 - 2 * 0 = number
    BY <1>8
  <2> QED BY <2>1, <2>2
<1>10. number = Total(RequestsOf(Flaky)) + Total(RequestsOf(Client \ Flaky))
  BY <1>5, <1>9, ClientAssumption
<1> QED BY <1>1, <1>2, <1>10

\* When every client has got its answer the counter is the sum of all requests,
\* however the threads of a program shared them, somebody was told that sum, and
\* every client was told the value printed for it (server.cc:53-89, client.cc).
THEOREM TheTotalIsReported == Spec => []TotalReported
BY InitTotal, TotalStep, Reported, PTL DEF Spec
=============================================================================
