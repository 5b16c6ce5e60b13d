--------------------------- MODULE TcpServerProofs ---------------------------
(***************************************************************************)
(* Theorems about TcpServer with its Acceptor and its pool, for any number *)
(* of descriptors, clients and threads: every connection leaves            *)
(* connections_ once and is destroyed once, in its own loop, before the    *)
(* loop ends, and the Acceptor refuses with its reserve descriptor the     *)
(* client it cannot take, and gets it back.                                *)
(***************************************************************************)
EXTENDS TcpServer, FiniteSetTheorems, TLAPS

-----------------------------------------------------------------------------
(* The inductive invariant.                                                *)

Ops == {"connectEstablished", "connectDestroyed", "removeConnectionInLoop"}
Functors == [op : Ops, conn : Conns]
States == {"none", "kConnecting", "kConnected", "kDisconnected"}
ConnType == [Conns -> [state : States, chan : {"new", "added", "removed"}, loop : Loops]]
Steps == {"none", "accept", "emfile", "refuse", "drop", "reopen"}

TypeInv ==
  /\ numThreads_ \in 0 .. MaxThreads
  /\ next_ \in Nat /\ (next_ < numThreads_ \/ next_ = 0)
  /\ arrived \in Nat /\ taken \in Nat /\ nextConnId_ \in Nat \ {0}
  /\ nextConnId_ - 1 <= taken /\ taken <= arrived /\ arrived <= MaxClients
  /\ connections_ \subseteq 1 .. nextConnId_ - 1
  /\ conn \in ConnType
  /\ functors \in [Loops -> Seq(Functors)]
  /\ batch \in [PoolLoops -> Nat]
  /\ phase \in [PoolLoops -> {"starting", "poll", "functors", "ended"}]
  /\ \A l \in PoolLoops : phase[l] = "functors" => batch[l] <= Len(functors[l])
  /\ step \in Steps /\ idleFd_ \in {"null", "client", "none"} /\ others \in Nat
  /\ server \in {"idle", "started", "release", "gone"}

\* f is in the queue of loop l.
At(q, f, l) == \E i \in DOMAIN q[l] : q[l][i] = f

\* No functor is queued twice.
Once(q) ==
  \A l, m \in Loops : \A i \in DOMAIN q[l], j \in DOMAIN q[m] :
    q[l][i] = q[m][j] => l = m /\ i = j

\* A connection is established before it is destroyed.
UpBeforeDown(q) ==
  \A l \in Loops : \A i, j \in DOMAIN q[l] :
    q[l][i].op = "connectEstablished" /\ q[l][j] = Functor("connectDestroyed", q[l][i].conn)
      => i < j

InOrder(q) == Once(q) /\ UpBeforeDown(q)

\* What a queued functor says about its connection.
QueuedInv(c) ==
  \A l \in Loops :
    /\ At(functors, Functor("connectEstablished", c), l) =>
         /\ c < nextConnId_ /\ l = conn[c].loop /\ l # 0
         /\ conn[c].state = "kConnecting" /\ conn[c].chan = "new"
    /\ At(functors, Functor("connectDestroyed", c), l) =>
         /\ c < nextConnId_ /\ l = conn[c].loop
         /\ c \notin connections_ /\ conn[c].chan # "removed"
    /\ At(functors, Functor("removeConnectionInLoop", c), l) =>
         /\ c < nextConnId_ /\ l = 0 /\ conn[c].loop # 0
         /\ conn[c].state = "kDisconnected"
         /\ server \in {"idle", "started"} => c \in connections_

\* Which functor a connection waits for.
WaitInv(c) ==
  /\ conn[c].state # "none"
  /\ conn[c].state = "kConnecting" =>
       At(functors, Functor("connectEstablished", c), conn[c].loop) /\ conn[c].chan = "new"
  /\ conn[c].chan = "removed" => conn[c].state = "kDisconnected" /\ c \notin connections_
  /\ c \notin connections_ /\ conn[c].chan # "removed" =>
       At(functors, Functor("connectDestroyed", c), conn[c].loop)
  /\ c \notin connections_ /\ (server \in {"idle", "started"} \/ conn[c].loop = 0) =>
       conn[c].state = "kDisconnected"
  /\ server \in {"idle", "started"} /\ c \in connections_ /\ conn[c].state = "kDisconnected" =>
       At(functors, Functor("removeConnectionInLoop", c), 0)

Tracked(c) == QueuedInv(c) /\ (c < nextConnId_ => WaitInv(c))

TrackInv == InOrder(functors) /\ \A c \in Conns : Tracked(c)

\* Descriptors: no more than there are, and one left for the reserve while
\* handleRead() has given it up.
FdsOf(live) ==
  /\ Used(live) <= MaxFds
  /\ server # "gone" /\ ~stolen =>
       /\ step \in {"none", "accept", "emfile"} => idleFd_ = "null"
       /\ step \in {"refuse", "drop", "reopen"} => live + others < MaxFds
       /\ step \in {"refuse", "reopen"} => idleFd_ = "none"

FdInv == \E live \in Nat : live = Live /\ FdsOf(live)

IInv == TypeInv /\ TrackInv /\ FdInv

-----------------------------------------------------------------------------
(* Queues: what a push and a pop do to the functors and to their order.    *)

Queues == [Loops -> Seq(Functors)]
Push(q, l, f) == [q EXCEPT ![l] = Append(@, f)]
Pop(q, l) == [q EXCEPT ![l] = Tail(@)]

\* A functor of a connection is one of Functors.
LEMMA FunctorType ==
  ASSUME NEW op \in Ops, NEW c \in Conns
  PROVE  /\ Functor(op, c) \in Functors
         /\ Functor(op, c).op = op /\ Functor(op, c).conn = c
BY Zenon DEF Functor, Functors

\* Each functor is its operation on its connection.
LEMMA FunctorParts ==
  ASSUME NEW f \in Functors
  PROVE  /\ f.op \in Ops /\ f.conn \in Conns
         /\ f = Functor(f.op, f.conn)
BY Zenon DEF Functor, Functors

\* The places of a queue after Append.
LEMMA AppendPlaces ==
  ASSUME NEW S, NEW s \in Seq(S), NEW f \in S
  PROVE  /\ Append(s, f) \in Seq(S)
         /\ Len(s) \in Nat
         /\ DOMAIN s = 1 .. Len(s)
         /\ DOMAIN Append(s, f) = 1 .. Len(s) + 1
         /\ Len(Append(s, f)) = Len(s) + 1
         /\ \A i \in 1 .. Len(s) : Append(s, f)[i] = s[i]
         /\ Append(s, f)[Len(s) + 1] = f
OBVIOUS

\* The places of a queue after Tail.
LEMMA TailPlaces ==
  ASSUME NEW S, NEW s \in Seq(S), s # <<>>
  PROVE  /\ Tail(s) \in Seq(S) /\ Head(s) \in S
         /\ Len(s) \in Nat \ {0}
         /\ Head(s) = s[1]
         /\ DOMAIN s = 1 .. Len(s)
         /\ Len(Tail(s)) = Len(s) - 1
         /\ DOMAIN Tail(s) = 1 .. Len(s) - 1
         /\ \A i \in 1 .. Len(s) - 1 : Tail(s)[i] = s[i + 1]
OBVIOUS

\* A push adds its functor at its loop and nothing else.
LEMMA PushAt ==
  ASSUME NEW q \in Queues, NEW l \in Loops, NEW f \in Functors
  PROVE  /\ Push(q, l, f) \in Queues
         /\ \A g, m : m \in Loops =>
              (At(Push(q, l, f), g, m) <=> At(q, g, m) \/ (m = l /\ g = f))
         /\ \A m \in Loops : Len(Push(q, l, f)[m]) >= Len(q[m])
<1> DEFINE r == Push(q, l, f)
<1>1. /\ r \in [Loops -> Seq(Functors)] /\ r[l] = Append(q[l], f)
      /\ \A m \in Loops : m # l => r[m] = q[m]
  BY AppendPlaces, Zenon DEF Push, Queues
<1>2. q[l] \in Seq(Functors)
  BY Zenon DEF Queues
<1> HIDE DEF r
<1>3. ASSUME NEW g, NEW m \in Loops PROVE At(r, g, m) <=> At(q, g, m) \/ (m = l /\ g = f)
  <2>1. CASE m = l
    <3>1. \A i \in 1 .. Len(q[l]) + 1 : i \in 1 .. Len(q[l]) \/ i = Len(q[l]) + 1
      BY <1>2
    <3>2. \A i \in 1 .. Len(q[l]) : i \in 1 .. Len(q[l]) + 1
      BY <1>2
    <3>3. Len(q[l]) + 1 \in 1 .. Len(q[l]) + 1
      BY <1>2
    <3>4. /\ DOMAIN q[l] = 1 .. Len(q[l])
          /\ DOMAIN r[l] = 1 .. Len(q[l]) + 1
          /\ \A i \in 1 .. Len(q[l]) : r[l][i] = q[l][i]
          /\ r[l][Len(q[l]) + 1] = f
      BY <1>1, <1>2, AppendPlaces
    <3>5. At(r, g, l) => At(q, g, l) \/ g = f
      BY <3>1, <3>4, Zenon DEF At
    <3>6. At(q, g, l) \/ g = f => At(r, g, l)
      BY <3>2, <3>3, <3>4, Zenon DEF At
    <3> QED
      BY <2>1, <3>5, <3>6, Zenon
  <2>2. CASE m # l
    BY <1>1, <2>2, Zenon DEF At
  <2> QED
    BY <2>1, <2>2, Zenon
<1>4. \A m \in Loops : Len(r[m]) >= Len(q[m])
  BY <1>1, AppendPlaces DEF Queues
<1> QED
  BY <1>1, <1>3, <1>4, Zenon DEF r, Queues

\* A push keeps the order, of a functor that is not queued and, for
\* connectEstablished(), not late.
LEMMA PushInOrder ==
  ASSUME NEW q \in Queues, NEW l \in Loops, NEW f \in Functors, InOrder(q),
         \A m \in Loops : ~At(q, f, m),
         f.op = "connectEstablished" =>
           ~At(q, Functor("connectDestroyed", f.conn), l)
  PROVE  InOrder(Push(q, l, f))
<1> DEFINE r == Push(q, l, f)
<1>1. /\ r \in [Loops -> Seq(Functors)] /\ r[l] = Append(q[l], f)
      /\ \A m \in Loops : m # l => r[m] = q[m]
  BY AppendPlaces, Zenon DEF Push, Queues
<1>2. \A m \in Loops : q[m] \in Seq(Functors) /\ Len(q[m]) \in Nat /\ DOMAIN q[m] = 1 .. Len(q[m])
  BY DEF Queues
<1>3. \A m \in Loops : \A i \in DOMAIN q[m] : q[m][i] # f
  BY Zenon DEF At
<1>4. /\ DOMAIN r[l] = 1 .. Len(q[l]) + 1
      /\ \A i \in 1 .. Len(q[l]) : r[l][i] = q[l][i]
      /\ r[l][Len(q[l]) + 1] = f
  BY <1>1, <1>2, AppendPlaces
<1> HIDE DEF r
<1>7. \A m \in Loops : \A i \in DOMAIN r[m] :
        \/ i \in DOMAIN q[m] /\ r[m][i] = q[m][i]
        \/ m = l /\ i = Len(q[l]) + 1 /\ r[m][i] = f
  <2> SUFFICES ASSUME NEW m \in Loops, NEW i \in DOMAIN r[m]
               PROVE  \/ i \in DOMAIN q[m] /\ r[m][i] = q[m][i]
                      \/ m = l /\ i = Len(q[l]) + 1 /\ r[m][i] = f
    OBVIOUS
  <2>1. CASE m # l
    BY <1>1, <2>1, Zenon
  <2>2. CASE m = l
    BY <1>2, <1>4, <2>2
  <2> QED
    BY <2>1, <2>2, Zenon
<1>5. ASSUME NEW m \in Loops, NEW n \in Loops, NEW i \in DOMAIN r[m], NEW j \in DOMAIN r[n],
             r[m][i] = r[n][j]
      PROVE  m = n /\ i = j
  <2>1. CASE r[m][i] = f
    <3>1. m = l /\ i = Len(q[l]) + 1
      BY <1>3, <1>7, <2>1, Zenon
    <3>2. n = l /\ j = Len(q[l]) + 1
      BY <1>3, <1>5, <1>7, <2>1, Zenon
    <3> QED
      BY <3>1, <3>2, Zenon
  <2>2. CASE r[m][i] # f
    <3>1. /\ i \in DOMAIN q[m] /\ r[m][i] = q[m][i]
          /\ j \in DOMAIN q[n] /\ r[n][j] = q[n][j]
      BY <1>5, <1>7, <2>2, Zenon
    <3>2. q[m][i] = q[n][j]
      BY <1>5, <3>1, Zenon
    <3> QED
      BY <3>1, <3>2 DEF InOrder, Once
  <2> QED
    BY <2>1, <2>2, Zenon
<1>6. ASSUME NEW m \in Loops, NEW i \in DOMAIN r[m], NEW j \in DOMAIN r[m],
             r[m][i].op = "connectEstablished",
             r[m][j] = Functor("connectDestroyed", r[m][i].conn)
      PROVE  i < j
  <2>1. CASE m # l
    BY <1>1, <1>6, <2>1, Zenon DEF InOrder, UpBeforeDown
  <2>2. CASE m = l /\ i \in DOMAIN q[l]
    <3>1. CASE j \in DOMAIN q[l]
      BY <1>2, <1>4, <1>6, <2>2, <3>1, Zenon DEF InOrder, UpBeforeDown
    <3>2. CASE j \notin DOMAIN q[l]
      BY <1>2, <1>4, <2>2, <3>2
    <3> QED
      BY <3>1, <3>2, Zenon
  <2>3. CASE m = l /\ i \notin DOMAIN q[l]
    <3>1. i = Len(q[l]) + 1 /\ r[l][i] = f
      BY <1>2, <1>4, <2>3
    <3>2. j \notin DOMAIN q[l]
      BY <1>2, <1>4, <1>6, <2>3, <3>1, Zenon DEF At
    <3>3. r[l][j] = f
      BY <1>2, <1>4, <2>3, <3>2
    <3> QED
      BY <1>6, <2>3, <3>1, <3>3, FunctorParts, FunctorType DEF Ops
  <2> QED
    BY <2>1, <2>2, <2>3, Zenon
<1> QED
  BY <1>5, <1>6, Zenon DEF InOrder, Once, UpBeforeDown, r

\* A pop takes the head of its loop and nothing else, and keeps the order.
LEMMA PopAt ==
  ASSUME NEW q \in Queues, NEW l \in Loops, q[l] # <<>>, InOrder(q)
  PROVE  /\ Pop(q, l) \in Queues /\ InOrder(Pop(q, l))
         /\ Head(q[l]) \in Functors /\ At(q, Head(q[l]), l)
         /\ \A g, m : m \in Loops =>
              (At(Pop(q, l), g, m) <=> At(q, g, m) /\ ~(m = l /\ g = Head(q[l])))
         /\ Len(Pop(q, l)[l]) = Len(q[l]) - 1
         /\ \A m \in Loops : m # l => Pop(q, l)[m] = q[m]
<1> DEFINE r == Pop(q, l)
<1>1. /\ q[l] \in Seq(Functors) /\ Tail(q[l]) \in Seq(Functors)
      /\ Head(q[l]) \in Functors /\ Head(q[l]) = q[l][1]
  BY TailPlaces, Zenon DEF Queues
<1>2. /\ r \in [Loops -> Seq(Functors)] /\ r[l] = Tail(q[l])
      /\ \A m \in Loops : m # l => r[m] = q[m]
  BY <1>1, Zenon DEF Pop, Queues
<1>3. /\ Len(q[l]) \in Nat \ {0} /\ DOMAIN q[l] = 1 .. Len(q[l])
      /\ DOMAIN r[l] = 1 .. Len(q[l]) - 1 /\ Len(r[l]) = Len(q[l]) - 1
      /\ \A i \in 1 .. Len(q[l]) - 1 : r[l][i] = q[l][i + 1]
  BY <1>1, <1>2, TailPlaces, Zenon
<1> HIDE DEF r
<1> DEFINE Was(m, i) == IF m = l THEN i + 1 ELSE i
<1>4. \A m \in Loops : \A i \in DOMAIN r[m] :
        Was(m, i) \in DOMAIN q[m] /\ r[m][i] = q[m][Was(m, i)]
  <2> SUFFICES ASSUME NEW m \in Loops, NEW i \in DOMAIN r[m]
               PROVE  Was(m, i) \in DOMAIN q[m] /\ r[m][i] = q[m][Was(m, i)]
    OBVIOUS
  <2>1. CASE m = l
    BY <1>3, <2>1, SMTT(30)
  <2>2. CASE m # l
    BY <1>2, <2>2, Zenon
  <2> QED
    BY <2>1, <2>2, Zenon
<1>5. Once(r)
  <2> SUFFICES ASSUME NEW m \in Loops, NEW n \in Loops,
                      NEW i \in DOMAIN r[m], NEW j \in DOMAIN r[n], r[m][i] = r[n][j]
               PROVE  m = n /\ i = j
    BY Zenon DEF Once
  <2> HIDE DEF Was
  <2>1. m = n /\ Was(m, i) = Was(n, j)
    BY <1>4 DEF InOrder, Once
  <2>2. CASE m = l
    BY <1>3, <2>1, <2>2 DEF Was
  <2>3. CASE m # l
    BY <2>1, <2>3, Zenon DEF Was
  <2> QED
    BY <2>2, <2>3, Zenon
<1>6. UpBeforeDown(r)
  <2> SUFFICES ASSUME NEW m \in Loops, NEW i \in DOMAIN r[m], NEW j \in DOMAIN r[m],
                      r[m][i].op = "connectEstablished",
                      r[m][j] = Functor("connectDestroyed", r[m][i].conn)
               PROVE  i < j
    BY Zenon DEF UpBeforeDown
  <2> HIDE DEF Was
  <2>1. Was(m, i) < Was(m, j)
    BY <1>4 DEF InOrder, UpBeforeDown
  <2>2. CASE m = l
    BY <1>3, <2>1, <2>2 DEF Was
  <2>3. CASE m # l
    BY <2>1, <2>3, Zenon DEF Was
  <2> QED
    BY <2>2, <2>3, Zenon
<1>7. At(q, Head(q[l]), l)
  BY <1>1, <1>3 DEF At
<1>8. ASSUME NEW g, NEW m \in Loops
      PROVE  At(r, g, m) <=> At(q, g, m) /\ ~(m = l /\ g = Head(q[l]))
  <2>1. CASE m # l
    BY <1>2, <2>1, Zenon DEF At
  <2>2. CASE m = l
    <3>1. ASSUME At(r, g, l) PROVE At(q, g, l) /\ g # Head(q[l])
      <4>1. PICK i \in DOMAIN r[l] : r[l][i] = g
        BY <3>1, Zenon DEF At
      <4>2. i + 1 \in DOMAIN q[l] /\ q[l][i + 1] = g /\ i + 1 # 1 /\ 1 \in DOMAIN q[l]
        BY <1>3, <4>1
      <4> QED
        BY <1>1, <4>2, Zenon DEF At, InOrder, Once
    <3>2. ASSUME At(q, g, l), g # Head(q[l]) PROVE At(r, g, l)
      <4>1. PICK i \in DOMAIN q[l] : q[l][i] = g
        BY <3>2, Zenon DEF At
      <4>2. i # 1
        BY <1>1, <3>2, <4>1, Zenon
      <4>3. i - 1 \in DOMAIN r[l] /\ r[l][i - 1] = g
        BY <1>3, <4>1, <4>2
      <4> QED
        BY <4>3, Zenon DEF At
    <3> QED
      BY <2>2, <3>1, <3>2, Zenon
  <2> QED
    BY <2>1, <2>2, Zenon
<1> QED
  BY <1>1, <1>2, <1>3, <1>5, <1>6, <1>7, <1>8, Zenon DEF r, InOrder, Queues

\* When connectDestroyed() is next, connectEstablished() is not waiting behind it.
LEMMA DestroyedIsLast ==
  ASSUME NEW q \in Queues, NEW l \in Loops, q[l] # <<>>, InOrder(q), NEW c \in Conns,
         Head(q[l]) = Functor("connectDestroyed", c)
  PROVE  ~At(q, Functor("connectEstablished", c), l)
<1>1. Head(q[l]) = q[l][1] /\ DOMAIN q[l] = 1 .. Len(q[l]) /\ Len(q[l]) \in Nat \ {0}
  BY TailPlaces, Zenon DEF Queues
<1>2. ASSUME NEW i \in DOMAIN q[l], q[l][i] = Functor("connectEstablished", c) PROVE FALSE
  <2>1. q[l][i].op = "connectEstablished" /\ q[l][i].conn = c /\ 1 \in DOMAIN q[l]
    BY <1>1, <1>2, FunctorType DEF Ops
  <2>2. i < 1
    BY <1>1, <2>1, Zenon DEF InOrder, UpBeforeDown
  <2> QED
    BY <1>1, <2>2
<1> QED
  BY <1>2, Zenon DEF At

-----------------------------------------------------------------------------
(* Connections.                                                            *)

\* The assignments of SetConn().
LEMMA SetConnEffect ==
  ASSUME TypeInv, NEW c \in Conns, NEW s \in States, NEW ch \in {"new", "added", "removed"},
         SetConn(c, s, ch)
  PROVE  /\ conn' \in ConnType
         /\ conn'[c].state = s /\ conn'[c].chan = ch /\ conn'[c].loop = conn[c].loop
         /\ \A d \in Conns : d # c => conn'[d] = conn[d]
BY Zenon DEF SetConn, TypeInv, ConnType

\* A queue has something of c: Queued() in terms of At.
LEMMA QueuedAt ==
  ASSUME NEW q \in Queues, NEW c \in Conns
  PROVE  (\E l \in Loops : \E i \in DOMAIN q[l] : q[l][i].conn = c)
           <=> (\E op \in Ops, l \in Loops : At(q, Functor(op, c), l))
<1>1. ASSUME NEW l \in Loops, NEW i \in DOMAIN q[l], q[l][i].conn = c
      PROVE  q[l][i].op \in Ops /\ At(q, Functor(q[l][i].op, c), l)
  <2>1. q[l][i] \in Functors
    BY DEF Queues
  <2> QED
    BY <1>1, <2>1, FunctorParts, Zenon DEF At
<1>2. ASSUME NEW op \in Ops, NEW l \in Loops, At(q, Functor(op, c), l)
      PROVE  \E i \in DOMAIN q[l] : q[l][i].conn = c
  BY <1>2, FunctorType DEF At
<1> QED
  BY <1>1, <1>2, Zenon

\* Who waits in a queue or in connections_ was given a number.
LEMMA AliveKnown ==
  ASSUME TypeInv, TrackInv, NEW c \in Conns, Alive(c)
  PROVE  c \in 1 .. nextConnId_ - 1 /\ WaitInv(c)
<1>1. CASE c \in connections_
  BY <1>1 DEF TypeInv, ConnType, TrackInv, Tracked
<1>2. CASE Queued(c)
  <2>0. PICK l \in Loops : \E i \in DOMAIN functors[l] : functors[l][i].conn = c
    BY <1>2, Zenon DEF Queued
  <2>1. PICK i \in DOMAIN functors[l] : functors[l][i].conn = c
    BY <2>0, Zenon
  <2>2. functors[l][i] \in Functors
    BY <2>1 DEF TypeInv, ConnType
  <2>3. At(functors, Functor(functors[l][i].op, c), l) /\ functors[l][i].op \in Ops
    BY <2>1, <2>2, FunctorParts, Zenon DEF At
  <2>4. c < nextConnId_
    BY <2>3, Zenon DEF TrackInv, Tracked, QueuedInv, Ops
  <2> QED
    BY <2>4 DEF TypeInv, ConnType, Conns, TrackInv, Tracked
<1> QED
  BY <1>1, <1>2, Zenon DEF Alive

\* A connection that a step does not touch.
LEMMA OtherTracked ==
  ASSUME NEW d \in Conns, Tracked(d), conn'[d] = conn[d],
         d \in connections_' <=> d \in connections_,
         d < nextConnId_' <=> d < nextConnId_,
         server' \in {"idle", "started"} => server \in {"idle", "started"},
         0 \in Loops, conn[d].loop \in Loops,
         \A op \in Ops, m \in Loops :
           At(functors', Functor(op, d), m) <=> At(functors, Functor(op, d), m)
  PROVE  Tracked(d)'
<1>1. /\ \A m \in Loops : At(functors', Functor("connectEstablished", d), m)
                            <=> At(functors, Functor("connectEstablished", d), m)
      /\ \A m \in Loops : At(functors', Functor("connectDestroyed", d), m)
                            <=> At(functors, Functor("connectDestroyed", d), m)
      /\ \A m \in Loops : At(functors', Functor("removeConnectionInLoop", d), m)
                            <=> At(functors, Functor("removeConnectionInLoop", d), m)
  BY Zenon DEF Ops
<1>2. QueuedInv(d)'
  BY <1>1, Zenon DEF Tracked, QueuedInv
<1>3. ASSUME d < nextConnId_' PROVE WaitInv(d)'
  BY <1>1, <1>3, Zenon DEF Tracked, WaitInv
<1> QED
  BY <1>2, <1>3, Zenon DEF Tracked

\* A step that moves neither functors nor connections.
LEMMA TrackSame ==
  ASSUME TypeInv, TrackInv, UNCHANGED <<conn, functors, connections_, nextConnId_>>,
         server' \in {"idle", "started"} => server \in {"idle", "started"}
  PROVE  TrackInv'
<1>1. \A d \in Conns : conn[d].loop \in Loops /\ 0 \in Loops
  BY ServerAssumption DEF TypeInv, ConnType, Loops
<1>2. \A d \in Conns : Tracked(d)'
  BY <1>1, OtherTracked, Zenon DEF TrackInv
<1> QED
  BY <1>2, Zenon DEF TrackInv

\* A step that touches the connection c only.
LEMMA TouchTracks ==
  ASSUME TypeInv, TrackInv, NEW c \in Conns, functors' \in Queues, InOrder(functors'), Tracked(c)',
         server' \in {"idle", "started"} => server \in {"idle", "started"},
         \A d \in Conns : d # c =>
           /\ conn'[d] = conn[d]
           /\ d \in connections_' <=> d \in connections_
           /\ d < nextConnId_' <=> d < nextConnId_
           /\ \A op \in Ops, m \in Loops :
                At(functors', Functor(op, d), m) <=> At(functors, Functor(op, d), m)
  PROVE  TrackInv' /\ \A d \in Conns : d # c /\ Alive(d)' => Alive(d)
<1>1. \A d \in Conns : conn[d].loop \in Loops /\ 0 \in Loops
  BY ServerAssumption DEF TypeInv, ConnType, Loops
<1>2. ASSUME NEW d \in Conns, d # c PROVE Tracked(d)'
  BY <1>1, <1>2, OtherTracked, Zenon DEF TrackInv
<1>3. ASSUME NEW d \in Conns, d # c, Alive(d)' PROVE Alive(d)
  <2>1. CASE d \in connections_'
    BY <1>3, <2>1, Zenon DEF Alive
  <2>2. CASE Queued(d)'
    <3>1. \E op \in Ops, l \in Loops : At(functors', Functor(op, d), l)
      BY <2>2, QueuedAt, Zenon DEF Queued
    <3>2. \E op \in Ops, l \in Loops : At(functors, Functor(op, d), l)
      BY <1>3, <3>1, Zenon
    <3> QED
      BY <3>2, QueuedAt, Zenon DEF Queued, Alive, TypeInv, Queues
  <2> QED
    BY <1>3, <2>1, <2>2, Zenon DEF Alive
<1> QED
  BY <1>2, <1>3, Zenon DEF TrackInv

LEMMA FunctorsDiffer ==
  \A op1, op2, c, d : Functor(op1, c) = Functor(op2, d) <=> op1 = op2 /\ c = d
BY Zenon DEF Functor

\* The functors of c, and of the others, when one of c is pushed.
LEMMA PushOf ==
  ASSUME functors \in Queues, NEW l \in Loops, NEW op \in Ops, NEW c \in Conns,
         functors' = Push(functors, l, Functor(op, c))
  PROVE  /\ \A op2 \in Ops, m \in Loops :
              At(functors', Functor(op2, c), m)
                <=> At(functors, Functor(op2, c), m) \/ (m = l /\ op2 = op)
         /\ \A d \in Conns : d # c =>
              \A op2 \in Ops, m \in Loops :
                At(functors', Functor(op2, d), m) <=> At(functors, Functor(op2, d), m)
         /\ functors' \in Queues
         /\ \A m \in Loops : Len(functors'[m]) >= Len(functors[m])
<1>1. Functor(op, c) \in Functors
  BY FunctorType, Zenon
<1>2. /\ functors' \in Queues
      /\ \A g, m : m \in Loops =>
           (At(functors', g, m) <=> At(functors, g, m) \/ (m = l /\ g = Functor(op, c)))
      /\ \A m \in Loops : Len(functors'[m]) >= Len(functors[m])
  BY <1>1, PushAt, Zenon
<1> QED
  BY <1>2, FunctorsDiffer

\* The functors of c, and of the others, when one of c is popped.
LEMMA PopOf ==
  ASSUME functors \in Queues, InOrder(functors), NEW l \in Loops, functors[l] # <<>>,
         NEW op \in Ops, NEW c \in Conns, Head(functors[l]) = Functor(op, c),
         NEW q, q = Pop(functors, l)
  PROVE  /\ \A op2 \in Ops, m \in Loops :
              At(q, Functor(op2, c), m)
                <=> At(functors, Functor(op2, c), m) /\ ~(m = l /\ op2 = op)
         /\ \A d \in Conns : d # c =>
              \A op2 \in Ops, m \in Loops :
                At(q, Functor(op2, d), m) <=> At(functors, Functor(op2, d), m)
         /\ At(functors, Functor(op, c), l)
         /\ q \in Queues /\ InOrder(q) /\ Len(q[l]) = Len(functors[l]) - 1
         /\ \A m \in Loops : m # l => q[m] = functors[m]
BY PopAt, FunctorsDiffer

\* handleClose(): the connection is open, so no functor for its removal waits.
LEMMA CloseTracks ==
  ASSUME TypeInv, TrackInv, NEW c \in Conns, HandleClose(c)
  PROVE  /\ TrackInv' /\ functors' \in Queues
         /\ \A l \in Loops : Len(functors'[l]) >= Len(functors[l])
         /\ \A d \in Conns : Alive(d)' => Alive(d)
<1> DEFINE D == Functor("connectDestroyed", c)
           R == Functor("removeConnectionInLoop", c)
           l == conn[c].loop
<1>1. /\ c \in 1 .. nextConnId_ - 1 /\ c < nextConnId_ /\ Tracked(c) /\ WaitInv(c)
      /\ conn[c].state = "kConnected" /\ l \in Loops
  BY AliveKnown DEF HandleClose, TrackInv, TypeInv, ConnType
<1>2. /\ conn'[c].state = "kDisconnected" /\ conn'[c].chan = conn[c].chan /\ conn'[c].loop = l
      /\ \A d \in Conns : d # c => conn'[d] = conn[d]
  BY SetConnEffect, Zenon DEF HandleClose, TypeInv, ConnType, States
<1>3. functors \in Queues /\ D \in Functors /\ R \in Functors /\ 0 \in Loops
  BY FunctorType, ServerAssumption DEF TypeInv, ConnType, Queues, Ops, Loops
<1>4. /\ \A m \in Loops : ~At(functors, R, m)
      /\ \A m \in Loops : ~At(functors, Functor("connectEstablished", c), m)
      /\ c \in connections_ => \A m \in Loops : ~At(functors, D, m)
      /\ conn[c].chan # "removed"
  BY <1>1, Zenon DEF Tracked, QueuedInv, WaitInv
<1>5. D.op # "connectEstablished" /\ R.op # "connectEstablished"
  BY FunctorType, Zenon DEF Ops
<1>6. server' = server /\ nextConnId_' = nextConnId_
  BY Zenon DEF HandleClose
<1>7. CASE l = 0
  <2>1. functors' = Push(functors, 0, D) /\ connections_' = connections_ \ {c}
    BY <1>7, Zenon DEF HandleClose, RemoveConnection, RemoveConnectionInLoop, Push
  <2>2. c \in connections_
    BY <1>1, <1>7, Zenon DEF WaitInv
  <2>3. InOrder(functors')
    BY <1>3, <1>4, <1>5, <2>1, <2>2, PushInOrder, Zenon DEF TrackInv
  <2>4. /\ \A m \in Loops : ~At(functors', R, m)
        /\ \A m \in Loops : ~At(functors', Functor("connectEstablished", c), m)
        /\ \A m \in Loops : At(functors', D, m) <=> m = 0
    BY <1>3, <1>4, <2>1, <2>2, PushOf DEF Ops
  <2>5. Tracked(c)'
    BY <1>1, <1>2, <1>3, <1>4, <1>6, <1>7, <2>1, <2>4, Zenon DEF Tracked, QueuedInv, WaitInv
  <2>6. functors' \in Queues /\ \A m \in Loops : Len(functors'[m]) >= Len(functors[m])
    BY <1>3, <2>1, PushAt, Zenon
  <2>7. TrackInv' /\ \A d \in Conns : d # c /\ Alive(d)' => Alive(d)
    BY <1>2, <1>3, <1>6, <2>1, <2>3, <2>5, <2>6, TouchTracks, PushOf, Zenon DEF Ops
  <2> QED
    BY <2>6, <2>7, Zenon DEF HandleClose
<1>8. CASE l # 0
  <2>1. functors' = Push(functors, 0, R) /\ connections_' = connections_
    BY <1>8, Zenon DEF HandleClose, RemoveConnection, Queue, Push
  <2>2. server \in {"idle", "started"} => c \in connections_
    BY <1>1, Zenon DEF WaitInv
  <2>3. InOrder(functors')
    BY <1>3, <1>4, <1>5, <2>1, PushInOrder, Zenon DEF TrackInv
  <2>4. /\ \A m \in Loops : At(functors', R, m) <=> m = 0
        /\ \A m \in Loops : ~At(functors', Functor("connectEstablished", c), m)
        /\ \A m \in Loops : At(functors', D, m) <=> At(functors, D, m)
    BY <1>3, <1>4, <2>1, PushOf DEF Ops
  <2>5. QueuedInv(c)'
    BY <1>1, <1>2, <1>3, <1>4, <1>6, <1>8, <2>1, <2>2, <2>4, Zenon DEF Tracked, QueuedInv
  <2>6. WaitInv(c)'
    BY <1>1, <1>2, <1>3, <1>4, <1>6, <1>8, <2>1, <2>2, <2>4, Zenon DEF WaitInv
  <2>7. functors' \in Queues /\ \A m \in Loops : Len(functors'[m]) >= Len(functors[m])
    BY <1>3, <2>1, PushAt, Zenon
  <2>8. TrackInv' /\ \A d \in Conns : d # c /\ Alive(d)' => Alive(d)
    BY <1>2, <1>3, <1>6, <2>1, <2>3, <2>5, <2>6, <2>7, TouchTracks, PushOf, Zenon DEF Ops, Tracked
  <2> QED
    BY <2>7, <2>8, Zenon DEF HandleClose
<1> QED
  BY <1>7, <1>8, Zenon

\* getNextLoop() returns a loop of the pool, or the server's if it has none.
LEMMA NextLoopRange ==
  ASSUME TypeInv
  PROVE  /\ NextLoop \in Loops /\ (numThreads_ # 0 => NextLoop \in PoolLoops)
         /\ AfterNext \in Nat /\ (AfterNext < numThreads_ \/ AfterNext = 0)
BY ServerAssumption DEF TypeInv, ConnType, NextLoop, AfterNext, Loops, PoolLoops

\* The number of a new connection is new, and there is a client for it.
LEMMA FreshConnection ==
  ASSUME TypeInv, TrackInv, HandleAccept
  PROVE  /\ nextConnId_ \in Conns /\ nextConnId_ \notin connections_
         /\ \A op \in Ops, l \in Loops : ~At(functors, Functor(op, nextConnId_), l)
         /\ nextConnId_ <= taken'
<1>1. nextConnId_ \in Conns /\ nextConnId_ \notin connections_ /\ nextConnId_ <= taken'
  BY AcceptorAssumption DEF TypeInv, ConnType, HandleAccept, Accept, Waiting, Conns
<1>2. Tracked(nextConnId_)
  BY <1>1, Zenon DEF TrackInv
<1>3. ~(nextConnId_ < nextConnId_)
  BY DEF TypeInv, ConnType
<1> QED
  BY <1>1, <1>2, <1>3, Zenon DEF Tracked, QueuedInv, Ops

\* newConnection()
LEMMA AcceptTracks ==
  ASSUME TypeInv, TrackInv, HandleAccept
  PROVE  /\ TrackInv' /\ functors' \in Queues
         /\ conn' \in ConnType
         /\ \A l \in Loops : Len(functors'[l]) >= Len(functors[l])
         /\ \A d \in Conns : Alive(d)' => Alive(d) \/ d = nextConnId_
<1>c. PICK c \in Conns : c = nextConnId_
  BY FreshConnection, Zenon
<1>l. PICK l \in Loops : l = NextLoop
  BY NextLoopRange, Zenon
<1> DEFINE E == Functor("connectEstablished", c)
<1>1. /\ c \in Conns /\ c \notin connections_ /\ c < nextConnId_'
      /\ \A op \in Ops, m \in Loops : ~At(functors, Functor(op, c), m)
      /\ \A d \in Conns : d # c => (d < nextConnId_' <=> d < nextConnId_)
  BY <1>c, FreshConnection DEF HandleAccept, NewConnection, TypeInv, ConnType, Conns
<1>2. /\ functors \in Queues /\ E \in Functors /\ l \in Loops
      /\ E.op = "connectEstablished" /\ E.conn = c
  BY <1>1, FunctorType, NextLoopRange, Zenon DEF TypeInv, ConnType, Queues, Ops
<1>3. server' = server /\ connections_' = connections_ \cup {c}
  BY <1>c, Zenon DEF HandleAccept, NewConnection
<1>4. CASE l = 0
  <2>1. /\ conn' = [conn EXCEPT ![c] = [state |-> "kConnected", chan |-> "added", loop |-> 0]]
        /\ functors' = functors
    BY <1>c, <1>l, <1>4, Zenon DEF HandleAccept, NewConnection
  <2>2. /\ conn' \in ConnType
        /\ conn'[c].state = "kConnected" /\ conn'[c].chan = "added" /\ conn'[c].loop = 0
        /\ \A d \in Conns : d # c => conn'[d] = conn[d]
    BY <1>1, <1>2, <1>4, <2>1, Zenon DEF TypeInv, ConnType, States
  <2>3. Tracked(c)'
    BY <1>1, <1>3, <2>1, <2>2, Zenon DEF Tracked, QueuedInv, WaitInv, Ops
  <2>4. TrackInv' /\ \A d \in Conns : d # c /\ Alive(d)' => Alive(d)
    BY <1>1, <1>2, <1>3, <2>1, <2>2, <2>3, TouchTracks, Zenon DEF TrackInv
  <2> QED
    BY <1>c, <1>2, <2>1, <2>2, <2>4 DEF Queues
<1>5. CASE l # 0
  <2>1. /\ conn' = [conn EXCEPT ![c] = [state |-> "kConnecting", chan |-> "new", loop |-> l]]
        /\ functors' = Push(functors, l, E)
    BY <1>c, <1>l, <1>5, Zenon DEF HandleAccept, NewConnection, Queue, Push
  <2>2. /\ conn' \in ConnType
        /\ conn'[c].state = "kConnecting" /\ conn'[c].chan = "new" /\ conn'[c].loop = l
        /\ \A d \in Conns : d # c => conn'[d] = conn[d]
    BY <1>1, <1>2, <2>1, Zenon DEF TypeInv, ConnType, States
  <2>3. InOrder(functors')
    BY <1>1, <1>2, <2>1, PushInOrder, Zenon DEF TrackInv, Ops
  <2>4. /\ \A m \in Loops : At(functors', E, m) <=> m = l
        /\ \A m \in Loops : ~At(functors', Functor("connectDestroyed", c), m)
        /\ \A m \in Loops : ~At(functors', Functor("removeConnectionInLoop", c), m)
    BY <1>1, <1>2, <2>1, PushOf DEF Ops
  <2>5. Tracked(c)'
    BY <1>1, <1>2, <1>3, <1>5, <2>2, <2>4, Zenon DEF Tracked, QueuedInv, WaitInv
  <2>6. functors' \in Queues /\ \A m \in Loops : Len(functors'[m]) >= Len(functors[m])
    BY <1>2, <2>1, PushAt, Zenon
  <2>7. TrackInv' /\ \A d \in Conns : d # c /\ Alive(d)' => Alive(d)
    BY <1>1, <1>2, <1>3, <2>1, <2>2, <2>3, <2>5, <2>6, TouchTracks, PushOf DEF Ops
  <2> QED
    BY <1>c, <2>2, <2>6, <2>7, Zenon
<1> QED
  BY <1>4, <1>5, Zenon

\* ~TcpServer() lets a connection go.
LEMMA ReleaseTracks ==
  ASSUME TypeInv, TrackInv, NEW c \in Conns, ReleaseConnection(c)
  PROVE  /\ TrackInv' /\ functors' \in Queues
         /\ conn' \in ConnType
         /\ \A l \in Loops : Len(functors'[l]) >= Len(functors[l])
         /\ \A d \in Conns : Alive(d)' => Alive(d)
<1> DEFINE l == conn[c].loop
           D == Functor("connectDestroyed", c)
<1>1. /\ c \in connections_ /\ c < nextConnId_ /\ Tracked(c) /\ WaitInv(c)
      /\ conn[c].chan # "removed" /\ l \in Loops
      /\ \A m \in Loops : ~At(functors, D, m)
  BY DEF ReleaseConnection, TypeInv, ConnType, TrackInv, Tracked, WaitInv, QueuedInv
<1>2. /\ functors \in Queues /\ D \in Functors /\ D.op = "connectDestroyed" /\ 0 \in Loops
  BY FunctorType, ServerAssumption DEF TypeInv, ConnType, Queues, Ops, Loops
<1>3. /\ server' \notin {"idle", "started"} /\ nextConnId_' = nextConnId_
      /\ c \notin connections_'
      /\ \A d \in Conns : d # c => (d \in connections_' <=> d \in connections_)
  BY Zenon DEF ReleaseConnection
<1>4. CASE l = 0
  <2>1. ConnectDestroyed(c) /\ functors' = functors
    BY <1>4, Zenon DEF ReleaseConnection
  <2>2. conn[c].state \in {"kConnected", "kDisconnected"}
    BY <1>1, <1>4, Zenon DEF Tracked, QueuedInv, WaitInv, TypeInv, ConnType, States
  <2>3. SetConn(c, "kDisconnected", "removed")
    BY <2>1, <2>2, Zenon DEF ConnectDestroyed
  <2>4. /\ conn' \in ConnType
        /\ conn'[c].state = "kDisconnected" /\ conn'[c].chan = "removed" /\ conn'[c].loop = l
        /\ \A d \in Conns : d # c => conn'[d] = conn[d]
    BY <2>3, SetConnEffect, Zenon DEF States
  <2>5. Tracked(c)'
    <3>1. QueuedInv(c)'
      BY <1>1, <1>3, <1>4, <2>1, <2>2, <2>4, Zenon DEF Tracked, QueuedInv
    <3>2. WaitInv(c)'
      BY <1>3, <2>4, Zenon DEF WaitInv
    <3> QED
      BY <3>1, <3>2, Zenon DEF Tracked
  <2>6. TrackInv' /\ \A d \in Conns : d # c /\ Alive(d)' => Alive(d)
    BY <1>2, <1>3, <2>1, <2>4, <2>5, TouchTracks, Zenon DEF TrackInv
  <2> QED
    BY <1>1, <1>2, <2>1, <2>4, <2>6 DEF Queues, Alive
<1>5. CASE l # 0
  <2>1. functors' = Push(functors, l, D) /\ conn' = conn
    BY <1>5, Zenon DEF ReleaseConnection, Queue, Push
  <2>2. InOrder(functors')
    BY <1>1, <1>2, <2>1, PushInOrder, Zenon DEF TrackInv
  <2>3. /\ \A m \in Loops : At(functors', D, m) <=> m = l
        /\ \A m \in Loops : At(functors', Functor("connectEstablished", c), m)
                              <=> At(functors, Functor("connectEstablished", c), m)
        /\ \A m \in Loops : At(functors', Functor("removeConnectionInLoop", c), m)
                              <=> At(functors, Functor("removeConnectionInLoop", c), m)
    BY <1>1, <1>2, <2>1, PushOf DEF Ops
  <2>4. Tracked(c)'
    <3>1. QueuedInv(c)'
      BY <1>1, <1>3, <1>5, <2>1, <2>3, Zenon DEF Tracked, QueuedInv
    <3>2. WaitInv(c)'
      BY <1>1, <1>3, <1>5, <2>1, <2>3, Zenon DEF WaitInv
    <3> QED
      BY <3>1, <3>2, Zenon DEF Tracked
  <2>5. functors' \in Queues /\ \A m \in Loops : Len(functors'[m]) >= Len(functors[m])
    BY <1>1, <1>2, <2>1, PushAt, Zenon
  <2>6. TrackInv' /\ \A d \in Conns : d # c /\ Alive(d)' => Alive(d)
    BY <1>1, <1>2, <1>3, <2>1, <2>2, <2>4, <2>5, TouchTracks, PushOf, Zenon DEF Ops
  <2> QED
    BY <1>1, <2>1, <2>5, <2>6, Zenon DEF TypeInv, Alive
<1> QED
  BY <1>4, <1>5, Zenon

\* A functor runs.
RunsOf(l) ==
  /\ TrackInv' /\ functors' \in Queues /\ conn' \in ConnType
  /\ connections_' \subseteq connections_
  /\ \A d \in Conns : Alive(d)' => Alive(d)
  /\ \A m \in Loops : m # l => Len(functors'[m]) >= Len(functors[m])
  /\ Len(functors'[l]) >= Len(functors[l]) - 1

\* connectEstablished()
LEMMA EstablishedTracks ==
  ASSUME TypeInv, TrackInv, NEW l \in Loops, functors[l] # <<>>, NEW c \in Conns,
         Head(functors[l]) = Functor("connectEstablished", c),
         functors' = Pop(functors, l), SetConn(c, "kConnected", "added"),
         UNCHANGED <<connections_, nextConnId_, server>>
  PROVE  RunsOf(l)
<1>1. functors \in Queues /\ InOrder(functors)
  BY Zenon DEF TypeInv, ConnType, TrackInv, Queues
<1>2. /\ \A m \in Loops : At(functors', Functor("connectEstablished", c), m)
                            <=> At(functors, Functor("connectEstablished", c), m) /\ m # l
      /\ \A m \in Loops : At(functors', Functor("connectDestroyed", c), m)
                            <=> At(functors, Functor("connectDestroyed", c), m)
      /\ \A m \in Loops : At(functors', Functor("removeConnectionInLoop", c), m)
                            <=> At(functors, Functor("removeConnectionInLoop", c), m)
      /\ At(functors, Functor("connectEstablished", c), l)
  BY <1>1, PopOf DEF Ops
<1>3. /\ functors' \in Queues /\ InOrder(functors') /\ Len(functors'[l]) = Len(functors[l]) - 1
      /\ \A m \in Loops : m # l => functors'[m] = functors[m]
      /\ \A d \in Conns : d # c =>
           \A op2 \in Ops, m \in Loops :
             At(functors', Functor(op2, d), m) <=> At(functors, Functor(op2, d), m)
  BY <1>1, PopOf DEF Ops
<1>4. /\ conn' \in ConnType
      /\ conn'[c].state = "kConnected" /\ conn'[c].chan = "added" /\ conn'[c].loop = conn[c].loop
      /\ \A d \in Conns : d # c => conn'[d] = conn[d]
  BY SetConnEffect, Zenon DEF States
<1>5. /\ Tracked(c) /\ c < nextConnId_ /\ WaitInv(c)
      /\ l = conn[c].loop /\ l # 0 /\ conn[c].state = "kConnecting" /\ conn[c].chan = "new"
  BY <1>2, Zenon DEF TrackInv, Tracked, QueuedInv
<1>6. /\ \A m \in Loops : ~At(functors', Functor("connectEstablished", c), m)
      /\ \A m \in Loops : ~At(functors', Functor("removeConnectionInLoop", c), m)
  BY <1>2, <1>5, Zenon DEF Tracked, QueuedInv
<1>7. QueuedInv(c)'
  BY <1>2, <1>4, <1>5, <1>6, Zenon DEF Tracked, QueuedInv
<1>8. WaitInv(c)'
  BY <1>2, <1>4, <1>5, <1>6, Zenon DEF WaitInv
<1>9. TrackInv' /\ \A d \in Conns : d # c /\ Alive(d)' => Alive(d)
  BY <1>3, <1>4, <1>7, <1>8, TouchTracks, Zenon DEF Tracked
<1>10. Alive(c)
  BY <1>1, <1>2, QueuedAt, Zenon DEF Ops, Queued, Alive
<1> QED
  BY <1>3, <1>4, <1>9, <1>10 DEF RunsOf, Queues

\* connectDestroyed()
LEMMA DestroyedTracks ==
  ASSUME TypeInv, TrackInv, NEW l \in Loops, functors[l] # <<>>, NEW c \in Conns,
         Head(functors[l]) = Functor("connectDestroyed", c),
         functors' = Pop(functors, l), ConnectDestroyed(c),
         UNCHANGED <<connections_, nextConnId_, server>>
  PROVE  RunsOf(l)
<1>1. functors \in Queues /\ InOrder(functors)
  BY Zenon DEF TypeInv, ConnType, TrackInv, Queues
<1>2. /\ \A m \in Loops : At(functors', Functor("connectEstablished", c), m)
                            <=> At(functors, Functor("connectEstablished", c), m)
      /\ \A m \in Loops : At(functors', Functor("connectDestroyed", c), m)
                            <=> At(functors, Functor("connectDestroyed", c), m) /\ m # l
      /\ \A m \in Loops : At(functors', Functor("removeConnectionInLoop", c), m)
                            <=> At(functors, Functor("removeConnectionInLoop", c), m)
      /\ At(functors, Functor("connectDestroyed", c), l)
  BY <1>1, PopOf DEF Ops
<1>3. /\ functors' \in Queues /\ InOrder(functors') /\ Len(functors'[l]) = Len(functors[l]) - 1
      /\ \A m \in Loops : m # l => functors'[m] = functors[m]
      /\ \A d \in Conns : d # c =>
           \A op2 \in Ops, m \in Loops :
             At(functors', Functor(op2, d), m) <=> At(functors, Functor(op2, d), m)
  BY <1>1, PopOf DEF Ops
<1>4. /\ Tracked(c) /\ c < nextConnId_ /\ WaitInv(c)
      /\ l = conn[c].loop /\ c \notin connections_ /\ conn[c].chan # "removed"
  BY <1>2, Zenon DEF TrackInv, Tracked, QueuedInv
<1>5. \A m \in Loops : ~At(functors, Functor("connectEstablished", c), m)
  <2>1. ~At(functors, Functor("connectEstablished", c), l)
    BY <1>1, DestroyedIsLast, Zenon
  <2> QED
    BY <1>4, <2>1, Zenon DEF Tracked, QueuedInv
<1>6. conn[c].state \in {"kConnected", "kDisconnected"}
  BY <1>4, <1>5, Zenon DEF WaitInv, TypeInv, ConnType, States
<1>7. SetConn(c, "kDisconnected", "removed")
  BY <1>6, Zenon DEF ConnectDestroyed
<1>8. /\ conn' \in ConnType
      /\ conn'[c].state = "kDisconnected" /\ conn'[c].chan = "removed"
      /\ conn'[c].loop = conn[c].loop
      /\ \A d \in Conns : d # c => conn'[d] = conn[d]
  BY <1>7, SetConnEffect, Zenon DEF States
<1>9. \A m \in Loops : ~At(functors', Functor("connectDestroyed", c), m)
  BY <1>2, <1>4, Zenon DEF Tracked, QueuedInv
<1>10. QueuedInv(c)'
  BY <1>2, <1>4, <1>5, <1>8, <1>9, Zenon DEF Tracked, QueuedInv
<1>11. WaitInv(c)'
  BY <1>4, <1>8, Zenon DEF WaitInv
<1>12. TrackInv' /\ \A d \in Conns : d # c /\ Alive(d)' => Alive(d)
  BY <1>3, <1>8, <1>10, <1>11, TouchTracks, Zenon DEF Tracked
<1>13. Alive(c)
  BY <1>1, <1>2, QueuedAt, Zenon DEF Ops, Queued, Alive
<1> QED
  BY <1>3, <1>8, <1>12, <1>13 DEF RunsOf, Queues

\* removeConnectionInLoop()
LEMMA RemoveTracks ==
  ASSUME TypeInv, TrackInv, NEW l \in Loops, functors[l] # <<>>, NEW c \in Conns,
         Head(functors[l]) = Functor("removeConnectionInLoop", c),
         RemoveConnectionInLoop(c, Pop(functors, l)), server \in {"idle", "started"},
         UNCHANGED <<conn, nextConnId_, server>>
  PROVE  RunsOf(l)
<1>q. PICK q : q = Pop(functors, l)
  OBVIOUS
<1> DEFINE D == Functor("connectDestroyed", c)
<1>1. functors \in Queues /\ InOrder(functors) /\ D \in Functors /\ D.op = "connectDestroyed"
  BY FunctorType, Zenon DEF TypeInv, ConnType, TrackInv, Queues, Ops
<1>2. /\ \A op2 \in Ops, m \in Loops :
           At(q, Functor(op2, c), m)
             <=> At(functors, Functor(op2, c), m) /\ ~(m = l /\ op2 = "removeConnectionInLoop")
      /\ \A d \in Conns : d # c =>
           \A op2 \in Ops, m \in Loops :
             At(q, Functor(op2, d), m) <=> At(functors, Functor(op2, d), m)
      /\ At(functors, Functor("removeConnectionInLoop", c), l)
      /\ q \in Queues /\ InOrder(q) /\ Len(q[l]) = Len(functors[l]) - 1
      /\ \A m \in Loops : m # l => q[m] = functors[m]
  BY <1>1, <1>q, PopOf DEF Ops
<1>3. /\ Tracked(c) /\ c < nextConnId_ /\ WaitInv(c)
      /\ l = 0 /\ conn[c].loop # 0 /\ conn[c].state = "kDisconnected" /\ c \in connections_
      /\ conn[c].loop \in Loops /\ conn[c].chan # "removed"
  BY <1>2, Zenon DEF TrackInv, Tracked, QueuedInv, WaitInv, TypeInv, ConnType
<1>4. functors' = Push(q, conn[c].loop, D) /\ connections_' = connections_ \ {c}
  BY <1>q, Zenon DEF RemoveConnectionInLoop, Push
<1>5. \A m \in Loops : ~At(q, D, m)
  BY <1>2, <1>3, Zenon DEF Tracked, QueuedInv, Ops
<1>6. InOrder(functors')
  BY <1>1, <1>2, <1>3, <1>4, <1>5, PushInOrder, Zenon
<1>7. /\ functors' \in Queues
      /\ \A g, m : m \in Loops => (At(functors', g, m) <=> At(q, g, m) \/ (m = conn[c].loop /\ g = D))
      /\ \A m \in Loops : Len(functors'[m]) >= Len(q[m])
  BY <1>1, <1>2, <1>3, <1>4, PushAt, Zenon
<1>8. \A d \in Conns : d # c =>
           \A op2 \in Ops, m \in Loops :
             At(functors', Functor(op2, d), m) <=> At(functors, Functor(op2, d), m)
  BY <1>2, <1>7, FunctorsDiffer
<1>9. /\ \A m \in Loops : ~At(functors', Functor("connectEstablished", c), m)
      /\ \A m \in Loops : At(functors', D, m) <=> m = conn[c].loop
      /\ \A m \in Loops : ~At(functors', Functor("removeConnectionInLoop", c), m)
  BY <1>2, <1>3, <1>5, <1>7, FunctorsDiffer DEF Tracked, QueuedInv, Ops
<1>10. QueuedInv(c)'
  BY <1>3, <1>4, <1>9, Zenon DEF QueuedInv
<1>11. WaitInv(c)'
  BY <1>3, <1>4, <1>9, Zenon DEF WaitInv
<1>12. TrackInv' /\ \A d \in Conns : d # c /\ Alive(d)' => Alive(d)
  BY <1>4, <1>6, <1>7, <1>8, <1>10, <1>11, TouchTracks, Zenon DEF Tracked
<1>13. \A m \in Loops : Len(functors'[m]) \in Nat /\ Len(q[m]) \in Nat /\ Len(functors[m]) \in Nat
  BY <1>1, <1>2, <1>7 DEF Queues
<1>14. Alive(c)
  BY <1>3, Zenon DEF Alive
<1> QED
  BY <1>2, <1>4, <1>7, <1>12, <1>13, <1>14, Zenon DEF RunsOf, TypeInv

\* Run(): only the server's loop, while the server exists, removes connections.
LEMMA RunTracks ==
  ASSUME TypeInv, TrackInv, NEW l \in Loops, functors[l] # <<>>, Run(l),
         l = 0 => BaseIdle, UNCHANGED <<nextConnId_, server>>
  PROVE  RunsOf(l)
<1>1. functors \in Queues /\ InOrder(functors) /\ Head(functors[l]) \in Functors
  BY TailPlaces, Zenon DEF TypeInv, TrackInv, Queues
<1>2. PICK op \in Ops, c \in Conns : Head(functors[l]) = Functor(op, c)
  BY <1>1, FunctorParts, Zenon
<1>3. Head(functors[l]).op = op /\ Head(functors[l]).conn = c
  BY <1>2, FunctorType
<1>4. [functors EXCEPT ![l] = Tail(@)] = Pop(functors, l)
  BY Zenon DEF Pop
<1>5. CASE op = "connectEstablished"
  BY <1>2, <1>3, <1>4, <1>5, EstablishedTracks, Zenon DEF Run
<1>6. CASE op = "connectDestroyed"
  BY <1>2, <1>3, <1>4, <1>6, DestroyedTracks, Zenon DEF Run
<1>7. CASE op = "removeConnectionInLoop"
  <2>1. l = 0
    <3>1. At(functors, Functor("removeConnectionInLoop", c), l)
      BY <1>1, <1>2, <1>7, PopAt
    <3> QED
      BY <3>1, Zenon DEF TrackInv, Tracked, QueuedInv
  <2>2. CASE server # "gone"
    BY <1>2, <1>3, <1>4, <1>7, <2>1, <2>2, RemoveTracks, Zenon DEF Run, BaseIdle
  <2>3. CASE server = "gone"
    <3>1. UNCHANGED <<connections_, conn, functors>>
      BY <1>3, <1>7, <2>3, Zenon DEF Run
    <3>2. \A m \in Loops : Len(functors[m]) \in Nat
      BY DEF TypeInv
    <3>3. TrackInv' /\ \A d \in Conns : Alive(d)' => Alive(d)
      BY <3>1, TrackSame, Zenon DEF Alive, Queued
    <3>4. functors' \in Queues /\ conn' \in ConnType
      BY <3>1, Zenon DEF TypeInv, Queues
    <3> QED
      BY <3>1, <3>2, <3>3, <3>4 DEF RunsOf
  <2> QED
    BY <2>2, <2>3, Zenon
<1> QED
  BY <1>5, <1>6, <1>7, Zenon DEF Ops

-----------------------------------------------------------------------------
(* Every step keeps types and tracking.                                    *)

LEMMA InitTracks == Init => TypeInv /\ TrackInv
<1> SUFFICES ASSUME Init PROVE TypeInv /\ TrackInv
  OBVIOUS
<1>1. \A l \in Loops : functors[l] = <<>>
  BY Zenon DEF Init
<1>2. TypeInv
  BY <1>1, AcceptorAssumption, ServerAssumption
     DEF Init, AcceptorInit, TypeInv, ConnType, States, Steps, NoConn, Loops
<1>3. \A f, l : l \in Loops => ~At(functors, f, l)
  BY <1>1 DEF At
<1>4. InOrder(functors)
  BY <1>1 DEF InOrder, Once, UpBeforeDown
<1>5. ASSUME NEW c \in Conns PROVE Tracked(c)
  BY <1>3 DEF Init, Tracked, QueuedInv, Conns
<1> QED
  BY <1>2, <1>4, <1>5, Zenon DEF TrackInv

\* The Acceptor alone, and the world outside.
LEMMA AcceptorTracks ==
  ASSUME TypeInv, TrackInv, AcceptorStep \/ Outside
  PROVE  TypeInv' /\ TrackInv'
<1>1. UNCHANGED <<pool, nextConnId_, connections_, conn, functors, loopvars, server, races>>
  BY Zenon DEF AcceptorStep, Outside
<1>2. /\ step' \in Steps /\ idleFd_' \in {"null", "client", "none"} /\ others' \in Nat
      /\ arrived' \in Nat /\ taken' \in Nat /\ taken <= taken' /\ taken' <= arrived' /\ arrived' <= MaxClients
  <2>1. CASE AcceptorStep
    BY <2>1, AcceptorAssumption
       DEF AcceptorStep, RefuseClient, AcceptReadable, AcceptFails, CloseIdleFd, AcceptIdleFd, CloseRefused,
           ReopenIdleFd, Waiting, TypeInv, Steps
  <2>2. CASE Outside
    BY <2>2, AcceptorAssumption
       DEF Outside, ClientArrives, ClientLeaves, OtherOpens, OtherCloses, Waiting, TypeInv
  <2> QED
    BY <2>1, <2>2, Zenon
<1>3. TypeInv'
  BY <1>1, <1>2 DEF TypeInv, pool, loopvars, ConnType
<1> QED
  BY <1>1, <1>3, TrackSame, Zenon

\* A step that takes nothing out of the pool's queues keeps the types.
LEMMA QueuesGrow ==
  ASSUME TypeInv, functors' \in Queues, conn' \in ConnType, connections_' \subseteq connections_,
         \A l \in Loops : l # 0 => Len(functors'[l]) >= Len(functors[l]),
         UNCHANGED <<acceptor, pool, nextConnId_, loopvars, server>>
  PROVE  TypeInv'
<1>1. functors \in Queues /\ \A q \in Queues, l \in Loops : Len(q[l]) \in Nat
  BY DEF TypeInv, Queues
<1>2. ASSUME NEW l \in PoolLoops, phase[l] = "functors" PROVE batch[l] <= Len(functors'[l])
  <2>1. l \in Loops /\ l # 0
    BY DEF PoolLoops, Loops
  <2>2. /\ batch[l] \in Nat /\ batch[l] <= Len(functors[l]) /\ Len(functors'[l]) >= Len(functors[l])
        /\ Len(functors[l]) \in Nat /\ Len(functors'[l]) \in Nat
    BY <1>1, <1>2, <2>1, Zenon DEF TypeInv
  <2> QED
    BY <2>2
<1> QED
  BY <1>2, Zenon DEF TypeInv, acceptor, pool, loopvars, Queues

\* The steps of the connections and of their loops.
LEMMA LoopTracks ==
  ASSUME TypeInv, TrackInv,
         \/ RunBase
         \/ \E c \in Conns : HandleClose(c) \/ ReleaseConnection(c)
         \/ \E l \in PoolLoops : LoopStep(l)
  PROVE  TypeInv' /\ TrackInv' /\ \A d \in Conns : Alive(d)' => Alive(d)
<1>1. ASSUME NEW c \in Conns, HandleClose(c) PROVE TypeInv' /\ TrackInv' /\ \A d \in Conns : Alive(d)' => Alive(d)
  <2>1. conn' \in ConnType /\ connections_' \subseteq connections_
    <3>1. conn' \in ConnType
      BY <1>1, SetConnEffect, Zenon DEF HandleClose, TypeInv, ConnType, States
    <3>2. connections_' \subseteq connections_
      BY <1>1, Zenon DEF HandleClose, RemoveConnection, RemoveConnectionInLoop
    <3> QED
      BY <3>1, <3>2, Zenon
  <2>2. UNCHANGED <<acceptor, pool, nextConnId_, loopvars, server>>
    BY <1>1, Zenon DEF HandleClose
  <2>3. TypeInv'
    BY <1>1, <2>1, <2>2, CloseTracks, QueuesGrow, Zenon
  <2> QED
    BY <1>1, <2>3, CloseTracks, Zenon
<1>2. ASSUME NEW c \in Conns, ReleaseConnection(c) PROVE TypeInv' /\ TrackInv' /\ \A d \in Conns : Alive(d)' => Alive(d)
  <2>2. UNCHANGED <<acceptor, pool, nextConnId_, loopvars, server>> /\ connections_' \subseteq connections_
    BY <1>2, Zenon DEF ReleaseConnection
  <2>3. TypeInv'
    BY <1>2, <2>2, ReleaseTracks, QueuesGrow, Zenon
  <2> QED
    BY <1>2, <2>3, ReleaseTracks, Zenon
<1>3. ASSUME RunBase PROVE TypeInv' /\ TrackInv' /\ \A d \in Conns : Alive(d)' => Alive(d)
  <2>1. RunsOf(0)
    BY <1>3, RunTracks, ServerAssumption DEF RunBase, Loops
  <2>2. UNCHANGED <<acceptor, pool, nextConnId_, loopvars, server>>
    BY <1>3, Zenon DEF RunBase
  <2>3. TypeInv'
    BY <2>1, <2>2, QueuesGrow, Zenon DEF RunsOf
  <2> QED
    BY <2>1, <2>3, Zenon DEF RunsOf
<1>4. ASSUME NEW l \in PoolLoops, RunFunctor(l) PROVE TypeInv' /\ TrackInv' /\ \A d \in Conns : Alive(d)' => Alive(d)
  <2>1. functors[l] # <<>> /\ l \in Loops /\ l # 0
    BY <1>4 DEF RunFunctor, TypeInv, PoolLoops, Loops
  <2>2. RunsOf(l)
    BY <1>4, <2>1, RunTracks, Zenon DEF RunFunctor
  <2>3. /\ \A m \in PoolLoops : m # l => Len(functors'[m]) >= Len(functors[m])
        /\ \A m \in PoolLoops : Len(functors[m]) \in Nat /\ Len(functors'[m]) \in Nat
        /\ Len(functors'[l]) >= Len(functors[l]) - 1
    BY <2>2 DEF TypeInv, RunsOf, Queues, PoolLoops, Loops
  <2>4. /\ batch' \in [PoolLoops -> Nat]
        /\ \A m \in PoolLoops : phase'[m] = "functors" => batch'[m] <= Len(functors'[m])
    <3>1. /\ batch \in [PoolLoops -> Nat] /\ batch[l] > 0 /\ phase' = phase
          /\ batch' = [batch EXCEPT ![l] = batch[l] - 1]
          /\ \A m \in PoolLoops : phase[m] = "functors" => batch[m] <= Len(functors[m])
      BY <1>4, Zenon DEF RunFunctor, TypeInv
    <3>2. /\ batch' \in [PoolLoops -> Nat] /\ batch'[l] = batch[l] - 1
          /\ \A m \in PoolLoops : m # l => batch'[m] = batch[m]
      BY <3>1
    <3> QED
      BY <2>3, <3>1, <3>2
  <2>5. TypeInv'
    BY <1>4, <2>2, <2>4, Zenon DEF RunFunctor, RunsOf, acceptor, pool, TypeInv, Queues
  <2> QED
    BY <2>2, <2>5, Zenon DEF RunsOf
<1>5. ASSUME NEW l \in PoolLoops, EnterLoop(l) \/ Wake(l) \/ TestQuit(l)
      PROVE  TypeInv' /\ TrackInv' /\ \A d \in Conns : Alive(d)' => Alive(d)
  <2>1. UNCHANGED <<acceptor, pool, nextConnId_, connections_, conn, functors, server>>
    BY <1>5, Zenon DEF EnterLoop, Wake, TestQuit
  <2>2. \A m \in PoolLoops : Len(functors[m]) \in Nat
    BY DEF TypeInv, PoolLoops, Loops
  <2>3. /\ batch' \in [PoolLoops -> Nat] /\ phase' \in [PoolLoops -> {"starting", "poll", "functors", "ended"}]
        /\ \A m \in PoolLoops : phase'[m] = "functors" => batch'[m] <= Len(functors'[m])
    <3>1. /\ batch \in [PoolLoops -> Nat] /\ phase \in [PoolLoops -> {"starting", "poll", "functors", "ended"}]
          /\ \A m \in PoolLoops : phase[m] = "functors" => batch[m] <= Len(functors[m])
      BY Zenon DEF TypeInv
    <3>2. CASE Wake(l)
      BY <2>1, <2>2, <3>1, <3>2 DEF Wake
    <3>3. CASE TestQuit(l)
      <4>1. /\ phase' \in [PoolLoops -> {"starting", "poll", "functors", "ended"}] /\ batch' = batch
            /\ phase'[l] # "functors" /\ \A m \in PoolLoops : m # l => phase'[m] = phase[m]
        BY <3>1, <3>3, Zenon DEF TestQuit
      <4> QED
        BY <2>1, <3>1, <4>1, Zenon
    <3>4. CASE EnterLoop(l)
      BY <2>1, <2>2, <3>1, <3>4 DEF EnterLoop
    <3> QED
      BY <1>5, <3>2, <3>3, <3>4, Zenon
  <2>4. TypeInv'
    BY <2>1, <2>3, Zenon DEF acceptor, pool, TypeInv, ConnType
  <2> QED
    BY <2>1, <2>4, TrackSame, Zenon DEF Alive, Queued
<1> QED
  BY <1>1, <1>2, <1>3, <1>4, <1>5, Zenon DEF LoopStep

\* The rest: start(), an accepted client, the steps of the destructor.
LEMMA ServerTracks ==
  ASSUME TypeInv, TrackInv,
         Start \/ HandleAccept \/ DestroyServer \/ DtorEnds \/ \E l \in PoolLoops : QuitLoop(l)
  PROVE  TypeInv' /\ TrackInv'
<1>1. CASE HandleAccept
  <2>1. \A l \in PoolLoops : Len(functors'[l]) >= Len(functors[l]) /\ Len(functors[l]) \in Nat /\ Len(functors'[l]) \in Nat
    BY <1>1, AcceptTracks DEF TypeInv, Queues, PoolLoops, Loops
  <2>2. /\ step' \in Steps /\ taken' = taken + 1 /\ taken < arrived
        /\ UNCHANGED <<listenning_, idleFd_, arrived, others, stolen>>
    BY <1>1, Zenon DEF HandleAccept, Accept, Waiting, Steps
  <2>3. next_' = AfterNext /\ nextConnId_' = nextConnId_ + 1 /\ connections_' = connections_ \cup {nextConnId_}
    BY <1>1, Zenon DEF HandleAccept, NewConnection
  <2>4. UNCHANGED <<numThreads_, loopvars, server, races>>
    BY <1>1, Zenon DEF HandleAccept
  <2>5. connections_' \subseteq 1 .. nextConnId_' - 1
    BY <2>3 DEF TypeInv
  <2>6. nextConnId_' - 1 <= taken' /\ taken' <= arrived'
    BY <2>2, <2>3 DEF TypeInv
  <2>7. TypeInv'
    BY <1>1, <2>1, <2>2, <2>3, <2>4, <2>5, <2>6, AcceptTracks, NextLoopRange DEF TypeInv, loopvars, Queues
  <2> QED
    BY <1>1, <2>7, AcceptTracks, Zenon
<1>2. CASE Start
  <2>1. /\ UNCHANGED <<pool, nextConnId_, connections_, conn, functors, batch, quit, races>>
        /\ UNCHANGED <<idleFd_, step, arrived, taken, others, stolen>>
        /\ phase' \in [PoolLoops -> {"starting", "poll", "functors", "ended"}]
        /\ \A l \in PoolLoops : phase'[l] # "functors"
        /\ server = "idle" /\ server' = "started"
    BY <1>2, Zenon DEF Start, Listen
  <2>2. TypeInv'
    BY <2>1, Zenon DEF TypeInv, ConnType, pool
  <2> QED
    BY <2>1, <2>2, TrackSame, Zenon
<1>3. CASE DestroyServer \/ DtorEnds \/ \E l \in PoolLoops : QuitLoop(l)
  <2>1. /\ UNCHANGED <<pool, nextConnId_, connections_, conn, functors, batch, phase>>
        /\ UNCHANGED <<step, arrived, others>>
        /\ taken' \in {taken, arrived} /\ idleFd_' \in {idleFd_, "none"}
        /\ server' \in {"release", "gone"}
    BY <1>3, Zenon DEF DestroyServer, DtorEnds, QuitLoop, AcceptorDtor, acceptor, loopvars
  <2>2. TypeInv'
    BY <2>1 DEF TypeInv, ConnType, pool
  <2> QED
    BY <2>1, <2>2, TrackSame, Zenon
<1> QED
  BY <1>1, <1>2, <1>3, Zenon

LEMMA NextTracks == TypeInv /\ TrackInv /\ [Next]_vars => TypeInv' /\ TrackInv'
<1> SUFFICES ASSUME TypeInv, TrackInv, [Next]_vars PROVE TypeInv' /\ TrackInv'
  OBVIOUS
<1>1. CASE UNCHANGED vars
  <2>1. TypeInv'
    BY <1>1, Zenon DEF vars, acceptor, pool, loopvars, TypeInv, ConnType
  <2> QED
    BY <1>1, <2>1, TrackSame, Zenon DEF vars
<1>2. CASE Start \/ HandleAccept \/ DestroyServer \/ DtorEnds \/ \E l \in PoolLoops : QuitLoop(l)
  BY <1>2, ServerTracks, Zenon
<1>3. CASE \/ RunBase
           \/ \E c \in Conns : HandleClose(c) \/ ReleaseConnection(c)
           \/ \E l \in PoolLoops : LoopStep(l)
  BY <1>3, LoopTracks, Zenon
<1>4. CASE AcceptorStep \/ Outside
  BY <1>4, AcceptorTracks, Zenon
<1> QED
  BY <1>1, <1>2, <1>3, <1>4, Zenon DEF Next, Dtor

\* What TrackInv says, as ConnectionsTracked counts it.
LEMMA CountOnce ==
  ASSUME TypeInv, TrackInv, NEW op \in Ops, NEW c \in Conns
  PROVE  Pending(op, c) = IF \E l \in Loops : At(functors, Functor(op, c), l) THEN 1 ELSE 0
<1> DEFINE P == {p \in QueuePlaces : functors[p[1]][p[2]] = Functor(op, c)}
<1>1. \A p : p \in QueuePlaces <=> \E l \in Loops : \E i \in DOMAIN functors[l] : p = <<l, i>>
  BY DEF QueuePlaces
<1>2. CASE \E l \in Loops : At(functors, Functor(op, c), l)
  <2>1. PICK l \in Loops : At(functors, Functor(op, c), l)
    BY <1>2, Zenon
  <2>2. PICK i \in DOMAIN functors[l] : functors[l][i] = Functor(op, c)
    BY <2>1, Zenon DEF At
  <2>3. P = {<<l, i>>}
    <3>1. <<l, i>> \in P
      BY <1>1, <2>2, Zenon
    <3>2. ASSUME NEW p \in P PROVE p = <<l, i>>
      <4>1. PICK m \in Loops : \E j \in DOMAIN functors[m] : p = <<m, j>>
        BY <1>1, Zenon
      <4>2. PICK j \in DOMAIN functors[m] : p = <<m, j>>
        BY <4>1, Zenon
      <4>3. functors[m][j] = functors[l][i]
        BY <2>2, <4>2, Zenon
      <4> QED
        BY <4>2, <4>3 DEF TrackInv, InOrder, Once
    <3> QED
      BY <3>1, <3>2, Zenon
  <2> QED
    BY <1>2, <2>3, FS_Singleton, Zenon DEF Pending
<1>3. CASE ~ \E l \in Loops : At(functors, Functor(op, c), l)
  <2>1. P = {}
    BY <1>1, <1>3 DEF At
  <2> QED
    BY <1>3, <2>1, FS_EmptySet, Zenon DEF Pending
<1> QED
  BY <1>2, <1>3, Zenon

LEMMA TrackedCounts == TypeInv /\ TrackInv => ConnectionsTracked
<1> SUFFICES ASSUME TypeInv, TrackInv, NEW c \in 1 .. nextConnId_ - 1
             PROVE  /\ Destructions(c) = IF c \in connections_ THEN 0 ELSE 1
                    /\ server \in {"idle", "started"} =>
                         Pending("removeConnectionInLoop", c)
                           = IF c \in connections_ /\ conn[c].state = "kDisconnected" THEN 1 ELSE 0
                    /\ ~Alive(c) => conn[c].state = "kDisconnected" /\ conn[c].chan = "removed"
  BY Zenon DEF ConnectionsTracked
<1>1. c \in Conns /\ c < nextConnId_
  BY AcceptorAssumption DEF TypeInv, Conns
<1>2. Tracked(c) /\ WaitInv(c) /\ conn[c].loop \in Loops /\ 0 \in Loops
  BY <1>1, ServerAssumption DEF TrackInv, Tracked, TypeInv, ConnType, Loops
<1>3. /\ Pending("connectDestroyed", c)
           = IF \E l \in Loops : At(functors, Functor("connectDestroyed", c), l) THEN 1 ELSE 0
      /\ Pending("removeConnectionInLoop", c)
           = IF \E l \in Loops : At(functors, Functor("removeConnectionInLoop", c), l) THEN 1 ELSE 0
  BY <1>1, CountOnce, Zenon DEF Ops
<1>4. Destructions(c) = IF c \in connections_ THEN 0 ELSE 1
  BY <1>2, <1>3 DEF Destructions, Tracked, QueuedInv, WaitInv
<1>6. ASSUME server \in {"idle", "started"}
      PROVE  Pending("removeConnectionInLoop", c)
               = IF c \in connections_ /\ conn[c].state = "kDisconnected" THEN 1 ELSE 0
  BY <1>2, <1>3, <1>6, Zenon DEF Tracked, QueuedInv, WaitInv
<1>7. ASSUME ~Alive(c) PROVE conn[c].state = "kDisconnected" /\ conn[c].chan = "removed"
  <2>1. c \notin connections_ /\ ~ \E op \in Ops, l \in Loops : At(functors, Functor(op, c), l)
    BY <1>1, <1>7, QueuedAt, Zenon DEF Alive, Queued, TypeInv, Queues
  <2> QED
    BY <1>2, <2>1, Zenon DEF WaitInv, Ops
<1> QED
  BY <1>4, <1>6, <1>7, Zenon

-----------------------------------------------------------------------------
(* Descriptors.                                                            *)

\* The number of connections with a descriptor is a number, and a step that makes
\* none alive does not raise it.
LEMMA LiveCounts ==
  ASSUME NEW S \in SUBSET Conns, NEW T \in SUBSET Conns, T \subseteq S
  PROVE  Cardinality(S) \in Nat /\ Cardinality(T) \in Nat /\ Cardinality(T) <= Cardinality(S)
<1>1. IsFiniteSet(Conns)
  BY AcceptorAssumption, FS_Interval DEF Conns
<1>2. IsFiniteSet(S) /\ IsFiniteSet(T)
  BY <1>1, FS_Subset, Zenon
<1> QED
  BY <1>2, FS_Subset, FS_CardinalityType, Zenon

LEMMA LiveKept ==
  ASSUME \A d \in Conns : Alive(d)' => Alive(d)
  PROVE  Live' <= Live /\ Live \in Nat /\ Live' \in Nat
<1> DEFINE S == {c \in Conns : Alive(c)}
           T == {c \in Conns : Alive(c)'}
<1>1. T \subseteq S /\ S \in SUBSET Conns /\ T \in SUBSET Conns
  OBVIOUS
<1>2. Live = Cardinality(S) /\ Live' = Cardinality(T)
  BY Zenon DEF Live
<1> QED
  BY <1>1, <1>2, LiveCounts, Zenon

LEMMA LiveGrows ==
  ASSUME NEW e, \A d \in Conns : Alive(d)' => Alive(d) \/ d = e
  PROVE  Live' <= Live + 1 /\ Live \in Nat /\ Live' \in Nat
<1> DEFINE S == {c \in Conns : Alive(c)}
           T == {c \in Conns : Alive(c)'}
<1>1. T \ {e} \subseteq S /\ S \in SUBSET Conns /\ T \in SUBSET Conns /\ T \ {e} \in SUBSET Conns
  OBVIOUS
<1>2. Live = Cardinality(S) /\ Live' = Cardinality(T)
  BY Zenon DEF Live
<1>3. IsFiniteSet(Conns)
  BY AcceptorAssumption, FS_Interval DEF Conns
<1>4. IsFiniteSet(T) /\ Cardinality(T) \in Nat
  BY <1>1, <1>3, FS_Subset, FS_CardinalityType, Zenon
<1> HIDE DEF S, T
<1>5. Cardinality(T \ {e}) \in {Cardinality(T), Cardinality(T) - 1}
  BY <1>4, FS_RemoveElement, Zenon
<1>6. Cardinality(T \ {e}) <= Cardinality(S) /\ Cardinality(S) \in Nat
  BY <1>1, LiveCounts, Zenon
<1> QED
  BY <1>2, <1>4, <1>5, <1>6

\* A step that opens no descriptor leaves the reserve as it was.
LEMMA FdSame ==
  ASSUME TypeInv, NEW n \in Nat, NEW m \in Nat, m <= n, FdsOf(n),
         UNCHANGED <<idleFd_, step, others>>, stolen => stolen', server = "gone" => server' = "gone"
  PROVE  FdsOf(m)'
<1>1. others \in Nat /\ MaxFds \in Nat
  BY AcceptorAssumption, Zenon DEF TypeInv
<1>2. Used(m)' <= MaxFds
  BY <1>1 DEF FdsOf, Used
<1>3. ASSUME server' # "gone", ~stolen'
      PROVE  /\ step' \in {"none", "accept", "emfile"} => idleFd_' = "null"
             /\ step' \in {"refuse", "drop", "reopen"} => m + others' < MaxFds
             /\ step' \in {"refuse", "reopen"} => idleFd_' = "none"
  BY <1>1, <1>3 DEF FdsOf
<1> QED
  BY <1>2, <1>3, Zenon DEF FdsOf

\* The steps of the Acceptor, and of the threads that open other descriptors.
LEMMA AcceptorFds ==
  ASSUME TypeInv, NEW n \in Nat, FdsOf(n), server' = server,
         \/ AcceptReadable \/ AcceptFails(n) \/ CloseIdleFd \/ AcceptIdleFd(n) \/ CloseRefused
         \/ ReopenIdleFd(n) \/ ClientArrives \/ ClientLeaves \/ OtherOpens(n) \/ OtherCloses
  PROVE  FdsOf(n)'
<1>2. others \in Nat /\ MaxFds \in Nat /\ step \in Steps
  BY AcceptorAssumption, Zenon DEF TypeInv
<1>3. CASE AcceptReadable \/ AcceptFails(n)
  BY <1>2, <1>3, Zenon DEF AcceptReadable, AcceptFails, FdsOf, Used, Steps
<1>4. CASE CloseIdleFd
  BY <1>2, <1>4 DEF CloseIdleFd, FdsOf, Used, Steps
<1>5. CASE AcceptIdleFd(n)
  BY <1>2, <1>5 DEF AcceptIdleFd, FdsOf, Used, Free, Steps
<1>6. CASE CloseRefused
  BY <1>2, <1>6 DEF CloseRefused, FdsOf, Used, Steps
<1>7. CASE ReopenIdleFd(n)
  BY <1>2, <1>7 DEF ReopenIdleFd, FdsOf, Used, Free, Steps
<1>8. CASE ClientArrives \/ ClientLeaves
  BY <1>2, <1>8, Zenon DEF ClientArrives, ClientLeaves, FdsOf, Used
<1>9. CASE OtherOpens(n)
  <2>1. others' = others + 1 /\ UNCHANGED <<idleFd_, step>> /\ Used(n) < MaxFds
    BY <1>9, Zenon DEF OtherOpens, Free
  <2>2. Used(n)' <= MaxFds
    BY <1>2, <2>1 DEF Used
  <2>3. ASSUME server' # "gone", ~stolen', step \in {"refuse", "drop", "reopen"}
        PROVE  n + others' < MaxFds
    <3>1. ~stolen /\ ~(step # "none" /\ idleFd_ = "none" /\ Used(n) + 1 = MaxFds)
      BY <1>9, <2>3, Zenon DEF OtherOpens
    <3> QED
      BY <1>2, <2>1, <2>3, <3>1 DEF Used
  <2>4. ~stolen' => ~stolen
    BY <1>9, Zenon DEF OtherOpens
  <2> QED
    BY <2>1, <2>2, <2>3, <2>4, Zenon DEF FdsOf
<1>10. CASE OtherCloses
  BY <1>2, <1>10 DEF OtherCloses, FdsOf, Used, Steps
<1> QED
  BY <1>3, <1>4, <1>5, <1>6, <1>7, <1>8, <1>9, <1>10, Zenon

LEMMA NextFds == TypeInv /\ TrackInv /\ FdInv /\ [Next]_vars => FdInv'
<1> SUFFICES ASSUME TypeInv, TrackInv, FdInv, [Next]_vars PROVE FdInv'
  OBVIOUS
<1>n. PICK n \in Nat : n = Live /\ FdsOf(n)
  BY Zenon DEF FdInv
<1>1. CASE HandleAccept
  <2>1. Live' <= Live + 1 /\ Live' \in Nat
    <3>1. PICK e : e = nextConnId_
      OBVIOUS
    <3>2. \A d \in Conns : Alive(d)' => Alive(d) \/ d = e
      BY <1>1, <3>1, AcceptTracks, Zenon
    <3> QED
      BY <3>2, LiveGrows, Zenon
  <2>2. PICK m \in Nat : m = Live' /\ m <= n + 1
    BY <1>n, <2>1, Zenon
  <2>3. /\ Free(n) /\ step = "accept" /\ step' = "none"
        /\ UNCHANGED <<idleFd_, others, server>> /\ (stolen => stolen')
    BY <1>n, <1>1, Zenon DEF HandleAccept, Accept
  <2>4. others \in Nat /\ MaxFds \in Nat
    BY AcceptorAssumption, Zenon DEF TypeInv
  <2>5. Used(m)' <= MaxFds
    <3>1. m <= n + 1
      BY <2>2, Zenon
    <3> QED
      BY <2>3, <2>4, <3>1 DEF Free, Used
  <2>6. FdsOf(m)'
    BY <1>n, <2>3, <2>5, Zenon DEF FdsOf
  <2> QED
    BY <2>2, <2>6, Zenon DEF FdInv
<1>2. CASE \/ RunBase
           \/ \E c \in Conns : HandleClose(c) \/ ReleaseConnection(c)
           \/ \E l \in PoolLoops : LoopStep(l)
  <2>1. Live' <= Live /\ Live' \in Nat
    BY <1>2, LoopTracks, LiveKept, Zenon
  <2>2. PICK m \in Nat : m = Live' /\ m <= n
    BY <1>n, <2>1, Zenon
  <2>3. UNCHANGED <<acceptor, server>>
    BY <1>2, Zenon DEF RunBase, HandleClose, ReleaseConnection, LoopStep, EnterLoop, Wake, RunFunctor, TestQuit
  <2>4. FdsOf(m)'
    BY <1>n, <2>2, <2>3, FdSame, Zenon DEF acceptor
  <2> QED
    BY <2>2, <2>4, Zenon DEF FdInv
<1>3. CASE \/ Start \/ DestroyServer \/ DtorEnds \/ AcceptorStep \/ Outside
           \/ \E l \in PoolLoops : QuitLoop(l)
           \/ UNCHANGED vars
  <2>1. UNCHANGED <<connections_, functors>>
    BY <1>3, Zenon DEF Start, DestroyServer, DtorEnds, AcceptorStep, Outside, QuitLoop, vars
  <2>2. Live' = Live
    BY <2>1, Zenon DEF Live, Alive, Queued
  <2>3. n = Live'
    BY <1>n, <2>2, Zenon
  <2>4. FdsOf(n)'
    <3>1. CASE AcceptorStep \/ Outside
      <4>1. /\ server' = server
            /\ \/ AcceptReadable \/ AcceptFails(n) \/ CloseIdleFd \/ AcceptIdleFd(n) \/ CloseRefused
               \/ ReopenIdleFd(n) \/ ClientArrives \/ ClientLeaves \/ OtherOpens(n) \/ OtherCloses
        BY <1>n, <3>1, Zenon DEF AcceptorStep, RefuseClient, Outside
      <4> QED
        BY <1>n, <4>1, AcceptorFds, Zenon
    <3>2. CASE Start \/ DestroyServer \/ (\E l \in PoolLoops : QuitLoop(l)) \/ UNCHANGED vars
      <4>1. /\ UNCHANGED <<idleFd_, step, others>> /\ (stolen => stolen')
            /\ server = "gone" => server' = "gone"
        BY <3>2 DEF Start, Listen, DestroyServer, QuitLoop, vars, acceptor
      <4> QED
        BY <1>n, <4>1, FdSame
    <3>3. CASE DtorEnds
      <4>1. server' = "gone" /\ idleFd_' = "none" /\ others' = others /\ others \in Nat /\ MaxFds \in Nat
        BY <3>3, AcceptorAssumption, Zenon DEF DtorEnds, AcceptorDtor, TypeInv
      <4> QED
        BY <1>n, <4>1 DEF FdsOf, Used
    <3> QED
      BY <1>3, <3>1, <3>2, <3>3, Zenon
  <2> QED
    BY <2>3, <2>4, Zenon DEF FdInv
<1> QED
  BY <1>1, <1>2, <1>3, Zenon DEF Next, Dtor

LEMMA InitFds == Init => FdInv
<1> SUFFICES ASSUME Init PROVE FdInv
  OBVIOUS
<1>1. \A c \in Conns : ~Alive(c)
  BY DEF Init, Alive, Queued
<1>2. {c \in Conns : Alive(c)} = {}
  BY <1>1, Zenon
<1>3. Live = 0
  BY <1>2, FS_EmptySet, Zenon DEF Live
<1>4. FdsOf(0)
  BY AcceptorAssumption DEF Init, AcceptorInit, FdsOf, Used
<1> QED
  BY <1>3, <1>4, Zenon DEF FdInv

-----------------------------------------------------------------------------
LEMMA Invariant == Spec => []IInv
<1>1. Init => IInv
  BY InitTracks, InitFds, Zenon DEF IInv
<1>2. IInv /\ [Next]_vars => IInv'
  BY NextTracks, NextFds, Zenon DEF IInv
<1> QED
  BY <1>1, <1>2, PTL DEF Spec

\* However closes, the server's loop, the pool's loops and ~TcpServer() interleave, a
\* connection leaves connections_ once and is destroyed once, and what the last
\* shared_ptr leaves is closed and out of its loop.
THEOREM ConnectionsOnce == Spec => []ConnectionsTracked
<1>1. IInv => ConnectionsTracked
  BY TrackedCounts, Zenon DEF IInv
<1> QED
  BY <1>1, Invariant, PTL

\* Outside handleRead() the Acceptor has its descriptor in reserve, unless another
\* thread opened one in the moment the reserve was closed: what handleRead() closed
\* and opened again it could open, for nothing else in it took a descriptor.
THEOREM ReserveComesBack == Spec => []ReserveHeld
<1>1. IInv => ReserveHeld
  BY Zenon DEF IInv, FdInv, FdsOf, ReserveHeld
<1> QED
  BY <1>1, Invariant, PTL

-----------------------------------------------------------------------------
(* The part of ClientAnswered and of TornDown that needs no fairness.      *)

\* handleRead() runs in the loop of a server that started and is not being
\* destroyed, and only such a server listens.
Serving ==
  /\ step # "none" => server = "started"
  /\ listenning_ => server \in {"started", "release"}

\* The second accept() of handleRead(), after it gave up the reserve.
RefusalReachesClient ==
  step = "refuse" /\ step' = "drop" /\ ~stolen /\ Waiting => taken' = taken + 1

LEMMA ServingKept == Serving /\ [Next]_vars => Serving'
<1> SUFFICES ASSUME Serving, [Next]_vars PROVE Serving'
  OBVIOUS
<1>1. CASE Start
  BY <1>1, Zenon DEF Serving, Start, Listen, BaseIdle
<1>2. CASE HandleAccept
  BY <1>2, Zenon DEF Serving, HandleAccept, Accept
<1>3. CASE AcceptorStep
  <2>1. /\ UNCHANGED <<server, listenning_>>
        /\ step # "none" \/ (listenning_ /\ server \in {"idle", "started", "gone"})
    BY <1>3, Zenon DEF AcceptorStep, RefuseClient, BaseIdle, AcceptReadable, AcceptFails, CloseIdleFd,
                       AcceptIdleFd, CloseRefused, ReopenIdleFd
  <2> QED
    BY <2>1 DEF Serving
<1>4. CASE DestroyServer
  BY <1>4, Zenon DEF Serving, DestroyServer, BaseIdle, acceptor
<1>5. CASE DtorEnds
  BY <1>5 DEF Serving, DtorEnds, AcceptorDtor
<1>6. CASE \/ RunBase \/ Outside \/ UNCHANGED vars
           \/ \E c \in Conns : HandleClose(c) \/ ReleaseConnection(c)
           \/ \E l \in PoolLoops : LoopStep(l) \/ QuitLoop(l)
  <2>1. UNCHANGED <<server, listenning_, step>>
    BY <1>6, Zenon DEF RunBase, Outside, ClientArrives, ClientLeaves, OtherOpens, OtherCloses, vars,
                       HandleClose, ReleaseConnection, LoopStep, EnterLoop, Wake, RunFunctor, TestQuit, QuitLoop, acceptor
  <2> QED
    BY <2>1, Zenon DEF Serving
<1> QED
  BY <1>1, <1>2, <1>3, <1>4, <1>5, <1>6, Zenon DEF Next, Dtor

LEMMA ServingAlways == Spec => []Serving
<1>1. Init => Serving
  BY Zenon DEF Init, AcceptorInit, Serving
<1> QED
  BY <1>1, ServingKept, PTL DEF Spec

\* A client that accept() could not take for want of a descriptor is taken by the
\* second accept() of the same handleRead(), and closed: giving up the reserve always
\* makes room for it, unless another thread opened a descriptor in that moment.  So
\* the listening socket does not stay readable for it.
THEOREM RefusalNotLost == Spec => [][RefusalReachesClient]_vars
<1>1. IInv /\ Serving /\ [Next]_vars => [RefusalReachesClient]_vars
  <2> SUFFICES ASSUME IInv, Serving, Next, step = "refuse", step' = "drop", ~stolen, Waiting
               PROVE  taken' = taken + 1
    BY Zenon DEF RefusalReachesClient
  <2>1. PICK n \in Nat : n = Live /\ FdsOf(n)
    BY Zenon DEF IInv, FdInv
  <2>2. n + others < MaxFds /\ idleFd_ = "none"
    BY <2>1 DEF FdsOf, Serving
  <2>3. Free(n)
    BY <2>1, <2>2, AcceptorAssumption DEF Free, Used, IInv, TypeInv
  <2>4. CASE AcceptorStep
    <3>1. AcceptIdleFd(Live)
      BY <2>4, Zenon DEF AcceptorStep, RefuseClient, AcceptReadable, AcceptFails, CloseIdleFd,
                         CloseRefused, ReopenIdleFd
    <3> QED
      BY <2>1, <2>3, <3>1, Zenon DEF AcceptIdleFd
  <2>5. CASE ~AcceptorStep
    <3>1. UNCHANGED step \/ HandleAccept
      BY <2>5, Zenon DEF Next, Dtor, Start, Listen, RunBase, DestroyServer, DtorEnds, AcceptorDtor,
           Outside, ClientArrives, ClientLeaves, OtherOpens, OtherCloses, HandleClose, ReleaseConnection,
           LoopStep, EnterLoop, Wake, RunFunctor, TestQuit, QuitLoop, acceptor
    <3> QED
      BY <3>1, Zenon DEF HandleAccept, Accept
  <2> QED
    BY <2>4, <2>5, Zenon
<1> QED
  BY <1>1, Invariant, ServingAlways, PTL DEF Spec

\* No loop of the pool ends before ~TcpServer() has handed out every connection, and
\* none ends with functors left.
EndInv ==
  /\ server \in {"idle", "gone"} => connections_ = {} /\ \A l \in PoolLoops : phase[l] = "ended"
  /\ connections_ # {} \/ server = "started" =>
       \A l \in PoolLoops : l <= numThreads_ => phase[l] # "ended"
  /\ quit # {} => connections_ = {} /\ server \in {"release", "gone"}
  /\ \A l \in PoolLoops : phase[l] = "ended" => functors[l] = <<>>
  /\ \A c \in Conns : conn[c].loop <= numThreads_

LoopsEndEmpty == Running => EndInv

\* What ~TcpServer() leaves of the connections that a thread of the pool had.
PoolTornDown ==
  Running /\ server = "gone" =>
    \A c \in 1 .. nextConnId_ - 1 :
      conn[c].loop # 0 => conn[c].state = "kDisconnected" /\ conn[c].chan = "removed"

\* A step that neither starts nor ends a loop and queues nothing in an ended one.
LEMMA NoLoopEnds ==
  ASSUME EndInv, UNCHANGED <<server, quit, numThreads_, phase>>,
         connections_' \subseteq connections_,
         \A c \in Conns : conn'[c].loop = conn[c].loop,
         \A l \in PoolLoops : phase[l] = "ended" => functors'[l] = functors[l]
  PROVE  EndInv'
BY Zenon DEF EndInv

\* A functor in the queue of a connection's loop, for a loop that has not ended.
LEMMA QueuedWhereRuns ==
  ASSUME EndInv, NEW q, q \in Queues, NEW k \in Loops, NEW f,
         functors' = [q EXCEPT ![k] = Append(@, f)],
         \A l \in PoolLoops : q[l] = functors[l],
         k \in PoolLoops => phase[k] # "ended"
  PROVE  \A l \in PoolLoops : phase[l] = "ended" => functors'[l] = functors[l]
<1> SUFFICES ASSUME NEW l \in PoolLoops, phase[l] = "ended" PROVE functors'[l] = functors[l]
  BY Zenon
<1>1. l \in Loops /\ l # k
  BY DEF PoolLoops, Loops
<1> QED
  BY <1>1, Zenon DEF Queues

\* Every connection's loop is the server's or one of the pool's.
LEMMA LoopOfConn ==
  ASSUME TypeInv, EndInv, NEW c \in Conns
  PROVE  /\ conn[c].loop \in Loops /\ conn[c].loop <= numThreads_
         /\ conn[c].loop # 0 => conn[c].loop \in PoolLoops
BY DEF TypeInv, ConnType, EndInv, PoolLoops, Loops

LEMMA CloseEnds ==
  ASSUME TypeInv, EndInv, NEW c \in Conns, HandleClose(c)
  PROVE  EndInv'
<1>1. \A d \in Conns : conn'[d].loop = conn[d].loop
  BY SetConnEffect, Zenon DEF HandleClose, TypeInv, ConnType, States
<1>2. /\ UNCHANGED <<server, quit, numThreads_, phase>> /\ connections_' \subseteq connections_
      /\ \E op : functors' = [functors EXCEPT ![0] = Append(@, Functor(op, c))]
  BY Zenon DEF HandleClose, RemoveConnection, RemoveConnectionInLoop, Queue, pool, loopvars
<1>3. 0 \in Loops /\ 0 \notin PoolLoops /\ functors \in Queues
  BY ServerAssumption DEF TypeInv, Queues, Loops, PoolLoops
<1>4. \A l \in PoolLoops : phase[l] = "ended" => functors'[l] = functors[l]
  BY <1>2, <1>3, QueuedWhereRuns, Zenon
<1> QED
  BY <1>1, <1>2, <1>4, NoLoopEnds, Zenon

LEMMA ReleaseEnds ==
  ASSUME TypeInv, EndInv, NEW c \in Conns, ReleaseConnection(c)
  PROVE  EndInv'
<1>1. \A d \in Conns : conn'[d].loop = conn[d].loop
  <2>1. CASE conn[c].loop = 0
    <3>1. \E s \in States : SetConn(c, s, "removed")
      BY <2>1, Zenon DEF ReleaseConnection, ConnectDestroyed, TypeInv, ConnType, States
    <3> QED
      BY <3>1, SetConnEffect, Zenon
  <2>2. CASE conn[c].loop # 0
    BY <2>2, Zenon DEF ReleaseConnection
  <2> QED
    BY <2>1, <2>2, Zenon
<1>2. UNCHANGED <<server, quit, numThreads_, phase>> /\ connections_' \subseteq connections_
  BY Zenon DEF ReleaseConnection, pool, loopvars
<1>3. \A l \in PoolLoops : phase[l] = "ended" => functors'[l] = functors[l]
  <2>1. CASE conn[c].loop = 0
    BY <2>1, Zenon DEF ReleaseConnection
  <2>2. CASE conn[c].loop # 0
    <3>1. functors' = [functors EXCEPT ![conn[c].loop] = Append(@, Functor("connectDestroyed", c))]
      BY <2>2, Zenon DEF ReleaseConnection, Queue
    <3>2. connections_ # {}
      BY Zenon DEF ReleaseConnection
    <3>3. conn[c].loop \in PoolLoops /\ conn[c].loop \in Loops /\ phase[conn[c].loop] # "ended"
      BY <2>2, <3>2, LoopOfConn, Zenon DEF EndInv
    <3> QED
      BY <3>1, <3>3, QueuedWhereRuns, Zenon DEF TypeInv, Queues
  <2> QED
    BY <2>1, <2>2, Zenon
<1> QED
  BY <1>1, <1>2, <1>3, NoLoopEnds, Zenon

\* A functor of loop l runs, where l is the server's or one that has not ended.
LEMMA RunEnds ==
  ASSUME TypeInv, TrackInv, EndInv, NEW l \in Loops, functors[l] # <<>>, Run(l),
         l = 0 => BaseIdle, l # 0 => phase[l] # "ended",
         UNCHANGED <<server, quit, numThreads_, phase>>
  PROVE  EndInv'
<1>1. functors \in Queues /\ Head(functors[l]) \in Functors
  BY TailPlaces, Zenon DEF TypeInv, Queues
<1>2. PICK op \in Ops, c \in Conns : Head(functors[l]) = Functor(op, c)
  BY <1>1, FunctorParts, Zenon
<1>3. Head(functors[l]).op = op /\ Head(functors[l]).conn = c
  BY <1>2, FunctorType
<1>4. PICK q : q = Pop(functors, l)
  OBVIOUS
<1>q. q \in Queues /\ \A m \in Loops : m # l => q[m] = functors[m]
  <2>1. functors[l] \in Seq(Functors) /\ Tail(functors[l]) \in Seq(Functors)
    BY <1>1, TailPlaces, Zenon DEF Queues
  <2> QED
    BY <1>1, <1>4, <2>1, Zenon DEF Pop, Queues
<1>5. \A m \in PoolLoops : phase[m] = "ended" => q[m] = functors[m]
  <2>1. \A m \in PoolLoops : m \in Loops /\ m # 0
    BY DEF PoolLoops, Loops
  <2> QED
    BY <1>q, <2>1, Zenon
<1>6. CASE op \in {"connectEstablished", "connectDestroyed"}
  <2>1. functors' = q /\ connections_' = connections_
    BY <1>3, <1>4, <1>6, Zenon DEF Run, Pop
  <2>2. \E s \in States, ch \in {"new", "added", "removed"} : SetConn(c, s, ch)
    BY <1>3, <1>6, Zenon DEF Run, ConnectDestroyed, States, TypeInv, ConnType
  <2>3. \A d \in Conns : conn'[d].loop = conn[d].loop
    BY <2>2, SetConnEffect, Zenon
  <2> QED
    BY <1>5, <2>1, <2>3, NoLoopEnds, Zenon
<1>7. CASE op = "removeConnectionInLoop"
  <2>1. l = 0 /\ (server \in {"idle", "started"} => c \in connections_)
    <3>1. At(functors, Functor("removeConnectionInLoop", c), l)
      BY <1>1, <1>2, <1>7, PopOf, Zenon DEF TrackInv
    <3> QED
      BY <3>1, Zenon DEF TrackInv, Tracked, QueuedInv
  <2>2. conn' = conn /\ connections_' \subseteq connections_
    BY <1>3, <1>7, Zenon DEF Run, RemoveConnectionInLoop
  <2>3. CASE server = "gone"
    <3>1. functors' = functors
      BY <1>3, <1>7, <2>3, Zenon DEF Run
    <3> QED
      BY <2>2, <3>1, NoLoopEnds, Zenon
  <2>4. CASE server # "gone"
    <3>1. connections_ # {}
      BY <2>1, <2>4, Zenon DEF BaseIdle
    <3>2. functors' = [q EXCEPT ![conn[c].loop] = Append(@, Functor("connectDestroyed", c))]
      BY <1>3, <1>4, <1>7, <2>4, Zenon DEF Run, RemoveConnectionInLoop, Pop
    <3>3. conn[c].loop \in Loops /\ (conn[c].loop \in PoolLoops => phase[conn[c].loop] # "ended")
      BY <3>1, LoopOfConn, Zenon DEF EndInv
    <3>4. \A m \in PoolLoops : q[m] = functors[m]
      BY <1>q, <2>1 DEF PoolLoops, Loops
    <3> QED
      BY <1>q, <2>2, <3>2, <3>3, <3>4, QueuedWhereRuns, NoLoopEnds, Zenon
  <2> QED
    BY <2>3, <2>4, Zenon
<1> QED
  BY <1>6, <1>7, Zenon DEF Ops

\* newConnection(), while the loops of the pool run.
LEMMA AcceptEnds ==
  ASSUME TypeInv, TrackInv, Serving, EndInv, HandleAccept
  PROVE  EndInv'
<1>1. /\ server = "started" /\ UNCHANGED <<server, quit, numThreads_, phase>>
  BY Zenon DEF Serving, HandleAccept, Accept, loopvars
<1>2. NextLoop \in Loops /\ NextLoop <= numThreads_ /\ nextConnId_ \in Conns
  BY NextLoopRange, FreshConnection DEF TypeInv, NextLoop
<1>3. \A c \in Conns : conn'[c].loop = conn[c].loop \/ conn'[c].loop = NextLoop
  <2>1. CASE NextLoop = 0
    <3>1. conn' = [conn EXCEPT ![nextConnId_] = [state |-> "kConnected", chan |-> "added", loop |-> 0]]
      BY <2>1, Zenon DEF HandleAccept, NewConnection
    <3> QED
      BY <1>2, <2>1, <3>1, Zenon DEF TypeInv, ConnType
  <2>2. CASE NextLoop # 0
    <3>1. conn' = [conn EXCEPT ![nextConnId_] = [state |-> "kConnecting", chan |-> "new", loop |-> NextLoop]]
      BY <2>2, Zenon DEF HandleAccept, NewConnection
    <3> QED
      BY <1>2, <3>1, Zenon DEF TypeInv, ConnType
  <2> QED
    BY <2>1, <2>2, Zenon
<1>4. \A l \in PoolLoops : phase[l] = "ended" => functors'[l] = functors[l]
  <2>1. CASE NextLoop = 0
    BY <2>1, Zenon DEF HandleAccept, NewConnection
  <2>2. CASE NextLoop # 0
    <3>1. functors' = [functors EXCEPT ![NextLoop] = Append(@, Functor("connectEstablished", nextConnId_))]
      BY <2>2, Zenon DEF HandleAccept, NewConnection, Queue
    <3>2. NextLoop \in PoolLoops => phase[NextLoop] # "ended"
      BY <1>1, <1>2, Zenon DEF EndInv
    <3> QED
      BY <1>2, <3>1, <3>2, QueuedWhereRuns, Zenon DEF TypeInv, Queues
  <2> QED
    BY <2>1, <2>2, Zenon
<1>5. quit = {} /\ \A l \in PoolLoops : l <= numThreads_ => phase[l] # "ended"
  BY <1>1 DEF EndInv
<1> QED
  BY <1>1, <1>2, <1>3, <1>4, <1>5 DEF EndInv

\* Start(), the destructor, and the rounds of a loop.
LEMMA PhaseEnds ==
  ASSUME TypeInv, EndInv, Running',
         \/ Start \/ DestroyServer \/ DtorEnds
         \/ \E l \in PoolLoops : QuitLoop(l) \/ EnterLoop(l) \/ Wake(l) \/ TestQuit(l)
  PROVE  EndInv'
<1>1. UNCHANGED <<connections_, conn, functors, numThreads_>>
  BY Zenon DEF Start, DestroyServer, DtorEnds, QuitLoop, EnterLoop, Wake, TestQuit, pool
<1>2. CASE Start
  <2>1. /\ server = "idle" /\ server' = "started" /\ quit' = quit
        /\ \A l \in PoolLoops : phase'[l] = IF l <= numThreads_ THEN "starting" ELSE "ended"
    BY <1>2, Zenon DEF Start
  <2>2. connections_ = {} /\ quit = {} /\ \A l \in PoolLoops : phase[l] = "ended"
    BY <2>1, SMTT(30) DEF EndInv
  <2> QED
    BY <1>1, <2>1, <2>2, Zenon DEF EndInv
<1>3. CASE DestroyServer
  <2>1. server' = "release" /\ UNCHANGED <<phase, quit>>
    BY <1>3, Zenon DEF DestroyServer, loopvars
  <2> QED
    BY <1>1, <2>1 DEF EndInv
<1>4. CASE DtorEnds
  <2>1. /\ server' = "gone" /\ connections_ = {} /\ UNCHANGED <<phase, quit>>
        /\ \A l \in PoolLoops : phase[l] = "ended"
    BY <1>4, Zenon DEF DtorEnds, loopvars
  <2> QED
    BY <1>1, <2>1 DEF EndInv
<1>5. ASSUME NEW l \in PoolLoops, QuitLoop(l) PROVE EndInv'
  <2>1. server = "release" /\ server' = server /\ connections_ = {} /\ phase' = phase
    BY <1>5, Zenon DEF QuitLoop
  <2> QED
    BY <1>1, <2>1 DEF EndInv
<1>6. ASSUME NEW l \in PoolLoops, EnterLoop(l) \/ Wake(l) \/ TestQuit(l) PROVE EndInv'
  <2>0. quit' = quit
    <3>1. CASE EnterLoop(l)
      BY <3>1 DEF EnterLoop, Running
    <3> QED
      BY <1>6, <3>1, Zenon DEF Wake, TestQuit
  <2>1. /\ UNCHANGED <<server, quit>> /\ phase[l] # "ended"
        /\ \A m \in PoolLoops : m # l => phase'[m] = phase[m]
    BY <1>6, <2>0, Zenon DEF EnterLoop, Wake, TestQuit, TypeInv
  <2>2. phase'[l] = "ended" => l \in quit /\ functors[l] = <<>>
    <3>1. CASE Wake(l)
      BY <3>1, Zenon DEF Wake, TypeInv
    <3>2. CASE TestQuit(l)
      <4>1. phase'[l] = IF l \in quit THEN "ended" ELSE "poll"
        BY <3>2, Zenon DEF TestQuit, TypeInv
      <4>2. ~(l \in quit /\ functors[l] # <<>>)
        BY <3>2 DEF TestQuit, Running
      <4> QED
        BY <4>1, <4>2
    <3>3. CASE EnterLoop(l)
      BY <3>3, Zenon DEF EnterLoop, TypeInv
    <3> QED
      BY <1>6, <3>1, <3>2, <3>3, Zenon
  <2>3. server \notin {"idle", "gone"}
    BY <2>1, Zenon DEF EndInv
  <2>4. ASSUME connections_ # {} \/ server = "started", NEW m \in PoolLoops, m <= numThreads_
        PROVE  phase'[m] # "ended"
    <3>1. quit = {} /\ phase[m] # "ended"
      BY <2>4 DEF EndInv
    <3> QED
      BY <2>1, <2>2, <3>1, Zenon
  <2>5. \A m \in PoolLoops : phase'[m] = "ended" => functors[m] = <<>>
    BY <2>1, <2>2, Zenon DEF EndInv
  <2> QED
    BY <1>1, <2>1, <2>3, <2>4, <2>5, Zenon DEF EndInv
<1> QED
  BY <1>2, <1>3, <1>4, <1>5, <1>6, Zenon

LEMMA NextEnds == TypeInv /\ TrackInv /\ Serving /\ LoopsEndEmpty /\ [Next]_vars => LoopsEndEmpty'
<1> SUFFICES ASSUME TypeInv, TrackInv, Serving, LoopsEndEmpty, [Next]_vars, Running' PROVE EndInv'
  BY Zenon DEF LoopsEndEmpty
<1>1. CASE UNCHANGED vars
  <2>1. EndInv
    BY <1>1, Zenon DEF LoopsEndEmpty, Running, vars
  <2> QED
    BY <1>1, <2>1, NoLoopEnds, Zenon DEF vars, pool, loopvars
<1>2. CASE Next
  <2>1. Running
    BY <1>2, Zenon DEF Next, Dtor, Start, HandleAccept, AcceptorStep, RefuseClient, RunBase, DestroyServer,
         DtorEnds, ReleaseConnection, QuitLoop, Outside, HandleClose, CanHandle, LoopStep, EnterLoop, Wake,
         RunFunctor, TestQuit, BaseIdle
  <2>2. EndInv
    BY <2>1, Zenon DEF LoopsEndEmpty
  <2>3. CASE AcceptorStep \/ Outside
    <3>1. UNCHANGED <<server, quit, numThreads_, phase, connections_, conn, functors>>
      BY <2>3, Zenon DEF AcceptorStep, Outside, pool, loopvars
    <3> QED
      BY <2>2, <3>1, NoLoopEnds, Zenon
  <2>4. CASE RunBase
    <3>1. UNCHANGED <<server, quit, numThreads_, phase>> /\ functors[0] # <<>> /\ BaseIdle /\ Run(0)
      BY <2>4, Zenon DEF RunBase, pool, loopvars
    <3>2. 0 \in Loops
      BY ServerAssumption DEF Loops
    <3> QED
      BY <2>2, <3>1, <3>2, RunEnds, Zenon
  <2>5. ASSUME NEW l \in PoolLoops, RunFunctor(l) PROVE EndInv'
    <3>1. UNCHANGED <<server, quit, numThreads_, phase>> /\ phase[l] # "ended" /\ Run(l)
      BY <2>5, Zenon DEF RunFunctor, pool
    <3>2. l \in Loops /\ l # 0 /\ functors[l] # <<>>
      BY <2>5 DEF RunFunctor, TypeInv, Loops, PoolLoops
    <3> QED
      BY <2>2, <3>1, <3>2, RunEnds, Zenon
  <2> QED
    BY <1>2, <2>2, <2>3, <2>4, <2>5, AcceptEnds, CloseEnds, ReleaseEnds, PhaseEnds, Zenon
       DEF Next, Dtor, LoopStep
<1> QED
  BY <1>1, <1>2, Zenon

\* The destructor of the server leaves nothing behind in the pool: when it returns,
\* each connection that a thread of the pool had was closed and taken out of its loop
\* there, before that loop ended, unless one of Races happened.  Nothing is queued in
\* a loop that has ended.
THEOREM DtorDestroysPool == Spec => []PoolTornDown
<1>1. Init => LoopsEndEmpty
  <2> SUFFICES ASSUME Init PROVE EndInv
    BY Zenon DEF LoopsEndEmpty
  <2>1. 0 <= numThreads_
    BY ServerAssumption DEF Init
  <2>2. \A c \in Conns : conn[c].loop <= numThreads_
    BY <2>1, Zenon DEF Init, NoConn
  <2>3. \A l \in PoolLoops : functors[l] = <<>> /\ phase[l] = "ended"
    BY DEF Init, PoolLoops, Loops
  <2> QED
    BY <2>2, <2>3, Zenon DEF Init, EndInv
<1>2. IInv /\ Serving /\ LoopsEndEmpty /\ [Next]_vars => LoopsEndEmpty'
  BY NextEnds, Zenon DEF IInv
<1>3. IInv /\ LoopsEndEmpty => PoolTornDown
  <2> SUFFICES ASSUME IInv, LoopsEndEmpty, Running, server = "gone",
                      NEW c \in 1 .. nextConnId_ - 1, conn[c].loop # 0
               PROVE  conn[c].state = "kDisconnected" /\ conn[c].chan = "removed"
    BY Zenon DEF PoolTornDown
  <2>1. c \in Conns /\ c < nextConnId_
    BY AcceptorAssumption DEF IInv, TypeInv, Conns
  <2>2. WaitInv(c) /\ TypeInv /\ EndInv
    BY <2>1, Zenon DEF IInv, TrackInv, Tracked, LoopsEndEmpty
  <2>3. c \notin connections_ /\ functors[conn[c].loop] = <<>>
    <3>1. conn[c].loop \in PoolLoops
      BY <2>1, <2>2, LoopOfConn, Zenon
    <3> QED
      BY <2>2, <3>1 DEF EndInv
  <2>4. ~At(functors, Functor("connectDestroyed", c), conn[c].loop)
    BY <2>3 DEF At
  <2> QED
    BY <2>2, <2>3, <2>4, Zenon DEF WaitInv
<1> QED
  BY <1>1, <1>2, <1>3, Invariant, ServingAlways, PTL DEF Spec
=============================================================================
