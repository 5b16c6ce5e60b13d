--------------------------- MODULE TcpClientProofs ---------------------------
(***************************************************************************)
(* Theorems about TcpClient and its Connector, for any descriptors, calls  *)
(* and bounds: no socket leaks, outside the named races no assertion fails *)
(* and nothing dangles, stop() is final, and no connect() is forgotten.    *)
(***************************************************************************)
EXTENDS TcpClient, WellFoundedInduction, TLAPS

-----------------------------------------------------------------------------
(* The inductive invariant.                                                *)

ConnOps == {"connectDestroyed", "setCloseCallback", "forceCloseInLoop"}
Functors ==
  {f \in [op : Raw \cup ConnOps \cup {"addRemoveTimer"}, conn : Fds \cup {0}] :
     f.op \in ConnOps <=> f.conn \in Fds}
Events ==
  {<<"connector", 0>>, <<"retry", 0>>, <<"removeConnector", 0>>} \cup ({"conn"} \X Fds)

TypeInv ==
  /\ connect_ \in BOOLEAN /\ wanted_ \in BOOLEAN /\ retry_ \in BOOLEAN
  /\ clientAlive \in BOOLEAN /\ removeTimer \in BOOLEAN
  /\ inLoop \in BOOLEAN /\ unique \in BOOLEAN /\ stopped \in BOOLEAN
  /\ state_ \in {"kDisconnected", "kConnecting", "kConnected"}
  /\ channel_ \in {"null", "added", "removed"} /\ retries \in Nat
  /\ fd \in Fds \cup {0} /\ socks \subseteq Fds
  /\ conn \in [Fds -> {"none", "kConnected", "kDisconnecting", "kDisconnected", "destroyed"}]
  /\ closeCallback_ \in [Fds -> {"client", "detail"}]
  /\ connection_ \in Fds \cup {0} /\ uconn \in Fds \cup {0} /\ nextFd \in Fds \cup {0}
  /\ userRef \subseteq Fds
  /\ functors \in Seq(Functors) /\ batch \in Nat
  /\ phase \in {"poll", "handle", "functors"} /\ active \subseteq Events
  /\ next \in {"none", "newConnection", "restart", "user"}
  /\ upc \in {"idle", "start1", "start2", "stop1", "stop2", "shutdown", "destroy1",
              "destroy2", "gone"}

\* Functors in a queue.
Has(q, op) == \E i \in 1 .. Len(q) : q[i].op = op
HasFor(q, op, c) == \E i \in 1 .. Len(q) : q[i].op = op /\ q[i].conn = c
About(q, c) == \E i \in 1 .. Len(q) : q[i].conn = c
Once(q, op) == \A i, j \in 1 .. Len(q) : q[i].op = op /\ q[j].op = op => i = j
Soon(q, n, op) == \E i \in 1 .. Len(q) : i <= n /\ q[i].op = op
AnyRaw(q) == Has(q, "startInLoop") \/ Has(q, "stopInLoop") \/ Has(q, "resetChannel")

\* The loop's round.
LoopInv ==
  /\ phase # "handle" => active = {}
  /\ phase = "functors" => batch <= Len(functors)
  /\ next \in {"newConnection", "restart"} => phase = "handle"
  /\ phase = "poll" => next = "none"
  /\ next = "newConnection" <=> nextFd # 0
  /\ next = "user" <=> inLoop /\ upc \notin {"idle", "gone"}

\* The Connector has nothing under way.
Idle ==
  /\ state_ = "kDisconnected" /\ channel_ = "null" /\ retries = 0
  /\ next \notin {"restart", "newConnection"}

\* One attempt at a time: it is queued, or waits for a timer, or has the channel, or
\* led to the connection.
AttemptInv ==
  /\ state_ = "kConnecting" <=> channel_ = "added"
  /\ channel_ = "removed" <=> Has(functors, "resetChannel")
  /\ Once(functors, "resetChannel") /\ Once(functors, "startInLoop")
  /\ retries > 0 => state_ = "kDisconnected" /\ retries = 1
  /\ upc \in {"start1", "start2"} => Idle /\ ~AnyRaw(functors) /\ ~stopped
  /\ Has(functors, "startInLoop") => Idle
  /\ next = "newConnection" => state_ = "kConnected" /\ connection_ = 0
  /\ next = "restart" => state_ = "kConnected" /\ channel_ = "null" /\ connection_ = 0
  /\ connection_ # 0 => state_ = "kConnected"

\* A channel that was removed is reset before the next attempt may begin.
ResetInv ==
  channel_ = "removed" =>
    \/ ~connect_ /\ state_ = "kDisconnected" /\ retries = 0
    \/ phase = "handle" /\ <<"retry", 0>> \notin active /\ <<"conn", connection_>> \notin active
    \/ phase = "functors" /\ Soon(functors, batch, "resetChannel")

\* What the poll reported and is not handled yet is still there.
ActiveInv ==
  /\ <<"connector", 0>> \in active => channel_ = "added"
  /\ <<"retry", 0>> \in active => retries = 1
  /\ \A c \in Fds : <<"conn", c>> \in active => conn[c] \in Open

StopInv ==
  /\ Has(functors, "stopInLoop") => ~connect_ /\ (~wanted_ \/ ~clientAlive)
  /\ upc \in {"stop1", "stop2"} => ~wanted_
  /\ upc = "stop2" => ~connect_
  /\ stopped => ~connect_ /\ ~wanted_
  /\ stopped /\ state_ = "kConnecting" => Has(functors, "stopInLoop")

DestroyInv ==
  /\ ~clientAlive <=> upc = "gone"
  /\ uconn # 0 => upc \in {"destroy1", "destroy2"} /\ state_ = "kConnected"
  /\ upc \in {"destroy1", "destroy2"} => connection_ \in {0, uconn}
  /\ upc = "destroy2" /\ uconn = 0 => ~connect_
  /\ ~clientAlive => connection_ = 0 /\ (~connect_ \/ state_ = "kConnected")
  /\ ~clientAlive /\ (AnyRaw(functors) \/ channel_ # "null") =>
       removeTimer \/ Has(functors, "addRemoveTimer")

Unreferenced(c) ==
  connection_ # c /\ uconn # c /\ c \notin userRef /\ ~About(functors, c)

\* A descriptor and the TcpConnection that has or had it.
ConnInv(c) ==
  /\ conn[c] = "none" => Unreferenced(c)
  /\ c \in socks => conn[c] \in {"none", "destroyed"} /\ Unreferenced(c)
  /\ conn[c] = "kDisconnected" => HasFor(functors, "connectDestroyed", c)
  /\ HasFor(functors, "connectDestroyed", c) => conn[c] \in {"kDisconnected", "destroyed"}
  /\ HasFor(functors, "forceCloseInLoop", c) => ~clientAlive
  /\ conn[c] \in Open =>
       connection_ = c \/ uconn = c \/ c \in userRef \/ HasFor(functors, "forceCloseInLoop", c)
  /\ conn[c] \in Open /\ closeCallback_[c] = "client" /\ ~ClientGoing => connection_ = c

IInv ==
  /\ failed = "none" /\ TypeInv /\ LoopInv /\ AttemptInv /\ ResetInv /\ ActiveInv
  /\ StopInv /\ DestroyInv /\ \A c \in Fds : ConnInv(c)

Good == SocketsAccounted /\ (races = {} => IInv)

-----------------------------------------------------------------------------
(* The queue of functors.                                                  *)

LEMMA Appended ==
  ASSUME NEW q \in Seq(Functors), NEW f \in Functors
  PROVE  /\ Append(q, f) \in Seq(Functors) /\ Len(Append(q, f)) = Len(q) + 1
         /\ \A op : Has(Append(q, f), op) <=> Has(q, op) \/ f.op = op
         /\ \A op, c : HasFor(Append(q, f), op, c) <=> HasFor(q, op, c) \/ (f.op = op /\ f.conn = c)
         /\ \A c : About(Append(q, f), c) <=> About(q, c) \/ f.conn = c
         /\ \A op : Once(q, op) /\ (f.op = op => ~Has(q, op)) => Once(Append(q, f), op)
         /\ \A op : \A n \in Nat : Soon(q, n, op) => Soon(Append(q, f), n, op)
<1> DEFINE r == Append(q, f)
           n == Len(q)
<1>1. /\ r \in Seq(Functors) /\ n \in Nat /\ Len(r) = n + 1
      /\ r[n + 1] = f /\ \A i \in 1 .. n : r[i] = q[i]
  OBVIOUS
<1>2. 1 .. n + 1 = 1 .. n \cup {n + 1} /\ n + 1 \notin 1 .. n
  BY <1>1
<1> HIDE DEF r, n
<1>3. \A op : Has(r, op) <=> Has(q, op) \/ f.op = op
  BY <1>1, <1>2 DEF Has, n
<1>4. \A op, c : HasFor(r, op, c) <=> HasFor(q, op, c) \/ (f.op = op /\ f.conn = c)
  BY <1>1, <1>2, Zenon DEF HasFor, n
<1>5. \A c : About(r, c) <=> About(q, c) \/ f.conn = c
  BY <1>1, <1>2 DEF About, n
<1>6. ASSUME NEW op, Once(q, op), f.op = op => ~Has(q, op) PROVE Once(r, op)
  <2>1. SUFFICES ASSUME NEW i \in 1 .. n + 1, NEW j \in 1 .. n + 1, r[i].op = op, r[j].op = op
                 PROVE  i = j
    BY <1>1, Zenon DEF Once
  <2>2. CASE i \in 1 .. n /\ j \in 1 .. n
    BY <1>1, <1>6, <2>1, <2>2, Zenon DEF Once, n
  <2>3. CASE i = n + 1 /\ j = n + 1
    BY <2>3, Zenon
  <2>4. CASE i = n + 1 /\ j \in 1 .. n
    BY <1>1, <1>6, <2>1, <2>4, Zenon DEF Has, n
  <2>5. CASE i \in 1 .. n /\ j = n + 1
    BY <1>1, <1>6, <2>1, <2>5, Zenon DEF Has, n
  <2> QED
    BY <1>2, <2>2, <2>3, <2>4, <2>5, Zenon
<1>7. \A op : \A m \in Nat : Soon(q, m, op) => Soon(r, m, op)
  BY <1>1, <1>2, Zenon DEF Soon, n
<1> QED
  BY <1>1, <1>3, <1>4, <1>5, <1>6, <1>7, Zenon DEF r, n

LEMMA Taken ==
  ASSUME NEW q \in Seq(Functors), q # <<>>
  PROVE  /\ Head(q) \in Functors /\ Tail(q) \in Seq(Functors) /\ Len(Tail(q)) = Len(q) - 1
         /\ \A op : Has(q, op) <=> Has(Tail(q), op) \/ Head(q).op = op
         /\ \A op, c : HasFor(q, op, c) <=> HasFor(Tail(q), op, c)
                                              \/ (Head(q).op = op /\ Head(q).conn = c)
         /\ \A c : About(q, c) <=> About(Tail(q), c) \/ Head(q).conn = c
         /\ \A op : Once(q, op) => Once(Tail(q), op) /\ (Head(q).op = op => ~Has(Tail(q), op))
         /\ \A op : \A n \in Nat : Soon(q, n, op) /\ Head(q).op # op => Soon(Tail(q), n - 1, op)
<1> DEFINE r == Tail(q)
           n == Len(q)
           h == Head(q)
<1>1. /\ r \in Seq(Functors) /\ n \in Nat \ {0} /\ Len(r) = n - 1 /\ h \in Functors
      /\ q[1] = h /\ \A i \in 1 .. n - 1 : r[i] = q[i + 1]
  OBVIOUS
<1>2. /\ \A i \in 1 .. n - 1 : i + 1 \in 1 .. n /\ i + 1 # 1
      /\ \A i \in 1 .. n : i = 1 \/ (i - 1 \in 1 .. n - 1 /\ q[i] = r[i - 1])
      /\ 1 \in 1 .. n
  BY <1>1
<1> HIDE DEF r, n, h
<1>3. \A op : Has(q, op) <=> Has(r, op) \/ h.op = op
  BY <1>1, <1>2, Zenon DEF Has, n
<1>4. \A op, c : HasFor(q, op, c) <=> HasFor(r, op, c) \/ (h.op = op /\ h.conn = c)
  BY <1>1, <1>2 DEF HasFor, n
<1>5. \A c : About(q, c) <=> About(r, c) \/ h.conn = c
  BY <1>1, <1>2, Zenon DEF About, n
<1>6. ASSUME NEW op, Once(q, op) PROVE Once(r, op) /\ (h.op = op => ~Has(r, op))
  <2>1. ASSUME NEW i \in 1 .. n - 1, NEW j \in 1 .. n - 1, r[i].op = op, r[j].op = op
        PROVE  i = j
    <3>1. i + 1 = j + 1
      BY <1>1, <1>2, <1>6, <2>1, Zenon DEF Once, n
    <3> QED
      BY <3>1
  <2>2. ASSUME NEW i \in 1 .. n - 1, r[i].op = op, h.op = op PROVE FALSE
    <3>1. i + 1 = 1
      BY <1>1, <1>2, <1>6, <2>2 DEF Once, n
    <3> QED
      BY <3>1
  <2> QED
    BY <1>1, <2>1, <2>2, Zenon DEF Once, Has
<1>7. ASSUME NEW m \in Nat, NEW op, Soon(q, m, op), h.op # op PROVE Soon(r, m - 1, op)
  <2>1. PICK i \in 1 .. n : i <= m /\ q[i].op = op
    BY <1>7, Zenon DEF Soon, n
  <2>2. i - 1 \in 1 .. n - 1 /\ r[i - 1].op = op /\ i - 1 <= m - 1
    BY <1>1, <1>2, <1>7, <2>1
  <2> QED
    BY <1>1, <2>2, Zenon DEF Soon
<1> QED
  BY <1>1, <1>3, <1>4, <1>5, <1>6, <1>7, Zenon DEF r, n, h

\* doPendingFunctors() swaps the whole queue.
LEMMA SwappedOut ==
  ASSUME NEW q \in Seq(Functors), NEW op, Has(q, op) PROVE Soon(q, Len(q), op)
  BY DEF Has, Soon

LEMMA QueueWords ==
  ASSUME functors \in Seq(Functors)
  PROVE  /\ RawQueued(functors) <=> AnyRaw(functors)
         /\ \A c : InFunctor(c) <=> About(functors, c)
         /\ \A c : Functor("forceCloseInLoop", c) \in Range(functors)
                     <=> HasFor(functors, "forceCloseInLoop", c)
         /\ (\E i \in DOMAIN functors : functors[i].op = "addRemoveTimer")
              <=> Has(functors, "addRemoveTimer")
         /\ (\A i \in DOMAIN functors : functors[i].op # "stopInLoop")
              <=> ~Has(functors, "stopInLoop")
<1>1. /\ DOMAIN functors = 1 .. Len(functors)
      /\ \A i \in 1 .. Len(functors) : functors[i] \in Functors
  OBVIOUS
<1>2. \A c : \A f \in Functors : f = Functor("forceCloseInLoop", c) <=> f.op = "forceCloseInLoop" /\ f.conn = c
  BY DEF Functors, Functor
<1>3. \A c : Functor("forceCloseInLoop", c) \in Range(functors) <=> HasFor(functors, "forceCloseInLoop", c)
  BY <1>1, <1>2 DEF Range, HasFor
<1> QED
  BY <1>1, <1>3, Zenon DEF RawQueued, Raw, AnyRaw, Has, InFunctor, About

LEMMA QueueAppends ==
  ASSUME functors \in Seq(Functors), NEW op, NEW c, Functor(op, c) \in Functors,
         functors' = Append(functors, Functor(op, c))
  PROVE  /\ functors' \in Seq(Functors) /\ Len(functors') = Len(functors) + 1
         /\ \A o : Has(functors', o) <=> Has(functors, o) \/ o = op
         /\ \A o, d : HasFor(functors', o, d) <=> HasFor(functors, o, d) \/ (o = op /\ d = c)
         /\ \A d : About(functors', d) <=> About(functors, d) \/ d = c
         /\ \A o : Once(functors, o) /\ (o = op => ~Has(functors, o)) => Once(functors', o)
         /\ \A o : \A n \in Nat : Soon(functors, n, o) => Soon(functors', n, o)
<1> DEFINE f == Functor(op, c)
<1>1. f.op = op /\ f.conn = c
  BY Zenon DEF Functor
<1>2. f \in Functors /\ functors' = Append(functors, f)
  OBVIOUS
<1> HIDE DEF f
<1> QED
  BY <1>1, <1>2, Appended

\* The functors that are bound to the Connector have no connection.
LEMMA FunctorsAre ==
  /\ \A op \in Raw \cup {"addRemoveTimer"} : Functor(op, 0) \in Functors
  /\ \A op \in ConnOps, c \in Fds : Functor(op, c) \in Functors
  BY ConnectorAssumption, Zenon DEF Functor, Functors, Raw, ConnOps

-----------------------------------------------------------------------------
(* A step that leaves a connection alone.                                  *)

LEMMA NoFdZero == 0 \notin Fds
  BY ConnectorAssumption, Zenon

LEMMA ConnKept ==
  ASSUME NEW c \in Fds, ConnInv(c), conn'[c] = conn[c], closeCallback_'[c] = closeCallback_[c],
         UNCHANGED <<connection_, uconn, clientAlive>>, ClientGoing => ClientGoing',
         c \in userRef' <=> c \in userRef, c \in socks' => c \in socks,
         About(functors', c) <=> About(functors, c),
         HasFor(functors', "connectDestroyed", c) <=> HasFor(functors, "connectDestroyed", c),
         HasFor(functors', "forceCloseInLoop", c) <=> HasFor(functors, "forceCloseInLoop", c)
  PROVE  ConnInv(c)'
<1>1. Unreferenced(c) => Unreferenced(c)'
  BY Zenon DEF Unreferenced
<1> QED
  BY <1>1, Zenon DEF ConnInv

\* The loop polls.
LEMMA PollKeeps ==
  ASSUME SocketsAccounted, IInv, races = {}, NEW ready \in SUBSET Sources, Poll(ready)
  PROVE  Good'
<1> USE DEF IInv
<1>1. /\ phase = "poll" /\ phase' = "handle" /\ active' = ready
      /\ UNCHANGED <<connector, functors, failed, client, batch, next, nextFd, user, races>>
  BY Zenon DEF Poll
<1>2. UNCHANGED <<connect_, state_, channel_, fd, socks, retries, wanted_, retry_, connection_,
                  conn, closeCallback_, clientAlive, removeTimer, inLoop, upc, uconn, unique,
                  userRef, stopped, functors, failed, batch, next, nextFd, races>>
  BY <1>1, Zenon DEF connector, client, user
<1>3. /\ ready \subseteq Events
      /\ <<"connector", 0>> \in ready => channel_ = "added"
      /\ <<"retry", 0>> \in ready => retries > 0
      /\ \A c \in Fds : <<"conn", c>> \in ready => conn[c] \in Open
  BY DEF Sources, Events
<1>4. TypeInv'
  BY <1>1, <1>2, <1>3 DEF TypeInv
<1>5. LoopInv'
  BY <1>1, <1>2, Zenon DEF LoopInv
<1>6. AttemptInv'
  BY <1>2, Zenon DEF AttemptInv, Idle
<1>7. ResetInv'
  BY <1>1, <1>2, Zenon DEF ResetInv
<1>8. ActiveInv'
  BY <1>1, <1>2, <1>3, Zenon DEF ActiveInv, AttemptInv, Open
<1>9. StopInv' /\ DestroyInv'
  BY <1>2, Zenon DEF StopInv, DestroyInv
<1>10. \A c \in Fds : ConnInv(c)'
  BY <1>2, ConnKept, Zenon DEF ClientGoing
<1>11. SocketsAccounted'
  BY <1>2, Zenon DEF SocketsAccounted
<1> QED
  BY <1>2, <1>4, <1>5, <1>6, <1>7, <1>8, <1>9, <1>10, <1>11, Zenon DEF Good

\* The handlers are done: the loop swaps out the functors.
LEMMA EndHandlingKeeps ==
  ASSUME SocketsAccounted, IInv, races = {}, EndHandling PROVE Good'
<1> USE DEF IInv
<1>1. /\ phase = "handle" /\ phase' = "functors" /\ active = {} /\ batch' = Len(functors)
      /\ next = "none"
  BY Zenon DEF EndHandling
<1>2. UNCHANGED <<connect_, state_, channel_, fd, socks, retries, wanted_, retry_, connection_,
                  conn, closeCallback_, clientAlive, removeTimer, inLoop, upc, uconn, unique,
                  userRef, stopped, functors, failed, active, next, nextFd, races>>
  BY Zenon DEF EndHandling, connector, client, user
<1>3. functors \in Seq(Functors) /\ Len(functors) \in Nat
  BY DEF TypeInv
<1>4. TypeInv'
  BY <1>1, <1>2, <1>3 DEF TypeInv
<1>5. LoopInv'
  BY <1>1, <1>2, <1>3 DEF LoopInv
<1>6. AttemptInv'
  BY <1>2, Zenon DEF AttemptInv, Idle
<1>7. ResetInv'
  BY <1>1, <1>2, <1>3, SwappedOut, Zenon DEF ResetInv, AttemptInv
<1>8. ActiveInv'
  BY <1>1, <1>2, Zenon DEF ActiveInv
<1>9. StopInv' /\ DestroyInv'
  BY <1>2, Zenon DEF StopInv, DestroyInv
<1>10. \A c \in Fds : ConnInv(c)'
  BY <1>2, ConnKept, Zenon DEF ClientGoing
<1>11. SocketsAccounted'
  BY <1>2, Zenon DEF SocketsAccounted
<1> QED
  BY <1>2, <1>4, <1>5, <1>6, <1>7, <1>8, <1>9, <1>10, <1>11, Zenon DEF Good

LEMMA EndFunctorsKeeps ==
  ASSUME SocketsAccounted, IInv, races = {}, EndFunctors PROVE Good'
<1> USE DEF IInv
<1>1. /\ phase = "functors" /\ phase' = "poll" /\ batch = 0 /\ next = "none"
  BY Zenon DEF EndFunctors
<1>2. UNCHANGED <<connect_, state_, channel_, fd, socks, retries, wanted_, retry_, connection_,
                  conn, closeCallback_, clientAlive, removeTimer, inLoop, upc, uconn, unique,
                  userRef, stopped, functors, failed, active, batch, next, nextFd, races>>
  BY Zenon DEF EndFunctors, connector, client, user
<1>3. ~Soon(functors, batch, "resetChannel")
  BY <1>1 DEF Soon
<1>4. TypeInv'
  BY <1>1, <1>2 DEF TypeInv
<1>5. LoopInv'
  BY <1>1, <1>2, Zenon DEF LoopInv
<1>6. AttemptInv'
  BY <1>2, Zenon DEF AttemptInv, Idle
<1>7. ResetInv'
  BY <1>1, <1>2, <1>3, Zenon DEF ResetInv
<1>8. ActiveInv'
  BY <1>2, Zenon DEF ActiveInv
<1>9. StopInv' /\ DestroyInv'
  BY <1>2, Zenon DEF StopInv, DestroyInv
<1>10. \A c \in Fds : ConnInv(c)'
  BY <1>2, ConnKept, Zenon DEF ClientGoing
<1>11. SocketsAccounted'
  BY <1>2, Zenon DEF SocketsAccounted
<1> QED
  BY <1>2, <1>4, <1>5, <1>6, <1>7, <1>8, <1>9, <1>10, <1>11, Zenon DEF Good

\* The timer of the destructor fires: without a race nothing of the Connector is left.
LEMMA RemoveConnectorTimerKeeps ==
  ASSUME SocketsAccounted, IInv, races = {}, RemoveConnectorTimer PROVE Good'
<1> USE DEF IInv
<1>1. /\ phase = "handle" /\ next = "none" /\ active' \subseteq active /\ removeTimer' \in BOOLEAN
      /\ races' = {} => ~RawQueued(functors) /\ channel_ = "null"
  BY Zenon DEF RemoveConnectorTimer, Handling, RaceIf
<1>2. UNCHANGED <<connect_, state_, channel_, fd, socks, retries, wanted_, retry_, connection_,
                  conn, closeCallback_, clientAlive, inLoop, upc, uconn, unique,
                  userRef, stopped, functors, failed, phase, batch, next, nextFd>>
  BY Zenon DEF RemoveConnectorTimer, connector, user
<1>3. races' = {} => ~AnyRaw(functors) /\ channel_ = "null"
  BY <1>1, QueueWords, Zenon DEF TypeInv
<1>4. TypeInv'
  BY <1>1, <1>2 DEF TypeInv
<1>5. LoopInv'
  BY <1>1, <1>2, Zenon DEF LoopInv
<1>6. AttemptInv'
  BY <1>2, Zenon DEF AttemptInv, Idle
<1>7. ResetInv'
  BY <1>1, <1>2, Zenon DEF ResetInv
<1>8. ActiveInv'
  BY <1>1, <1>2, Zenon DEF ActiveInv
<1>9. StopInv' /\ (races' = {} => DestroyInv')
  BY <1>1, <1>2, <1>3, Zenon DEF StopInv, DestroyInv
<1>10. \A c \in Fds : ConnInv(c)'
  BY <1>2, ConnKept, Zenon DEF ClientGoing
<1>11. SocketsAccounted'
  BY <1>2, Zenon DEF SocketsAccounted
<1> QED
  BY <1>2, <1>4, <1>5, <1>6, <1>7, <1>8, <1>9, <1>10, <1>11, Zenon DEF Good

-----------------------------------------------------------------------------
(* The Connector.                                                          *)

\* A nonempty set of naturals has a least element.
LEMMA Least ==
  ASSUME NEW T, T \subseteq Nat, T # {}
  PROVE  \E x \in T : \A y \in T : x <= y
<1> DEFINE R == {p \in Nat \X Nat : p[1] < p[2]}
<1>1. IsWellFoundedOn(R, Nat)
  BY NatLessThanWellFounded, Zenon DEF OpToRel
<1>2. PICK x \in T : \A y \in T : ~ (<<y, x>> \in R)
  <2> HIDE DEF R
  <2> QED
    BY <1>1, WFMin, Zenon
<1>3. x \in Nat
  OBVIOUS
<1>4. \A y \in T : ~ (y < x)
  BY <1>2, <1>3, Zenon
<1> QED
  BY <1>3, <1>4

\* A free descriptor is no socket's, and nothing refers to a connection that had it.
LEMMA FreeFd ==
  ASSUME IInv, NEW f \in Free
  PROVE  f \in Fds /\ f \notin socks /\ conn[f] \in {"none", "destroyed"} /\ Unreferenced(f)
<1>1. f \in Fds /\ f \notin socks /\ (conn[f] = "none" \/ ~Held(f))
  BY Zenon DEF Free
<1>2. ConnInv(f) /\ functors \in Seq(Functors)
  BY <1>1, Zenon DEF IInv, TypeInv
<1>3. CASE conn[f] = "none"
  BY <1>1, <1>2, <1>3, Zenon DEF ConnInv
<1>4. CASE ~Held(f)
  <2>1. Unreferenced(f)
    BY <1>2, <1>4, QueueWords, Zenon DEF Held, Unreferenced
  <2>2. ~HasFor(functors, "connectDestroyed", f) /\ ~HasFor(functors, "forceCloseInLoop", f)
    BY <2>1, Zenon DEF Unreferenced, About, HasFor
  <2>3. conn[f] \in {"none", "kConnected", "kDisconnecting", "kDisconnected", "destroyed"}
    BY <1>1, Zenon DEF IInv, TypeInv
  <2> QED
    BY <1>1, <1>2, <2>1, <2>2, <2>3, Zenon DEF ConnInv, Unreferenced, Open
<1> QED
  BY <1>1, <1>3, <1>4, Zenon

\* What startInLoop() does when its assertions hold.
Attempted(want, timers) ==
  /\ failed' = failed
  /\ \/ /\ want /\ state_' = "kConnecting" /\ channel_' = "added" /\ retries' = timers
        /\ fd' \in Free /\ socks' = socks \cup {fd'}
     \/ /\ state_' = "kDisconnected" /\ UNCHANGED <<channel_, fd, socks>>
        /\ retries' = timers \/ (want /\ retries' = timers + 1)

LEMMA Starts ==
  ASSUME NEW want, NEW timers \in Nat, channel_ = "null",
         StartInLoop("kDisconnected", want, timers, Free)
  PROVE  Attempted(want, timers)
<1> DEFINE sockfd == CHOOSE f \in Free : \A g \in Free : f <= g
<1>1. CASE want /\ Connect(want, timers, Free)
  <2>1. sockfd \in Free
    <3>1. Free # {} /\ Free \subseteq Nat
      BY <1>1, ConnectorAssumption, Zenon DEF Connect, Free
    <3>2. \E f \in Free : \A g \in Free : f <= g
      BY <3>1, Least, Zenon
    <3> QED
      BY <3>2, Zenon
  <2>2. socks \ {sockfd} = socks
    BY <2>1, Zenon DEF Free
  <2>3. \/ Connecting(sockfd) /\ retries' = timers
        \/ Retry(sockfd, want, timers) /\ UNCHANGED <<channel_, fd, failed>>
        \/ /\ state_' = "kDisconnected" /\ retries' = timers
           /\ UNCHANGED <<channel_, fd, socks, failed>>
    BY <1>1, Zenon DEF Connect
  <2> HIDE DEF sockfd
  <2> QED
    BY <1>1, <2>1, <2>2, <2>3, Zenon DEF Connecting, Retry, Assert, Attempted
<1>2. CASE ~want
  BY <1>2, Zenon DEF StartInLoop, Attempted, Connect
<1> QED
  BY <1>1, <1>2, Zenon DEF StartInLoop, Attempted

LEMMA AttemptConn ==
  ASSUME IInv, NEW c \in Fds, NEW want, NEW timers, Attempted(want, timers),
         UNCHANGED <<conn, closeCallback_, connection_, uconn, clientAlive, userRef>>,
         ClientGoing => ClientGoing',
         About(functors', c) <=> About(functors, c),
         HasFor(functors', "connectDestroyed", c) <=> HasFor(functors, "connectDestroyed", c),
         HasFor(functors', "forceCloseInLoop", c) <=> HasFor(functors, "forceCloseInLoop", c)
  PROVE  ConnInv(c)'
<1>1. CASE c \in socks' => c \in socks
  BY <1>1, ConnKept, Zenon DEF IInv
<1>2. CASE c \in socks' /\ c \notin socks
  <2>1. c \in Free
    BY <1>2, Zenon DEF Attempted
  <2>2. conn[c] \in {"none", "destroyed"} /\ Unreferenced(c) /\ ConnInv(c)
    BY <2>1, FreeFd, Zenon DEF IInv
  <2>3. Unreferenced(c)'
    BY <2>2, Zenon DEF Unreferenced
  <2> QED
    BY <2>2, <2>3, Zenon DEF ConnInv, Open
<1> QED
  BY <1>1, <1>2, Zenon

\* A timer of retry() fires.
LEMMA RetryTimerKeeps ==
  ASSUME SocketsAccounted, IInv, races = {}, RetryTimer PROVE Good'
<1> USE DEF IInv
<1>1. /\ phase = "handle" /\ next = "none" /\ <<"retry", 0>> \in active
      /\ active' = active \ {<<"retry", 0>>}
      /\ StartInLoop(state_, connect_, retries - 1, Free)
  BY Zenon DEF RetryTimer, Handling
<1>2. UNCHANGED <<connect_, wanted_, retry_, connection_,
                  conn, closeCallback_, clientAlive, removeTimer, inLoop, upc, uconn, unique,
                  userRef, stopped, functors, phase, batch, next, nextFd, races>>
  BY Zenon DEF RetryTimer, client, user
<1>3. /\ retries = 1 /\ state_ = "kDisconnected" /\ channel_ = "null"
  BY <1>1 DEF ActiveInv, AttemptInv, ResetInv, TypeInv
<1>4. /\ connection_ = 0 /\ uconn = 0 /\ ~Has(functors, "startInLoop")
      /\ upc \notin {"start1", "start2"} /\ (~clientAlive => ~connect_)
  BY <1>3 DEF AttemptInv, Idle, DestroyInv
<1>5. Attempted(connect_, 0)
  BY <1>1, <1>3, Starts
<1>6. /\ failed' = "none" /\ state_' \in {"kConnecting", "kDisconnected"}
      /\ channel_' \in {"null", "added"} /\ (state_' = "kConnecting" <=> channel_' = "added")
      /\ retries' \in {0, 1} /\ (state_' = "kConnecting" => retries' = 0)
      /\ (state_' = "kConnecting" => connect_)
      /\ fd' \in Fds \cup {0}
      /\ socks' = IF channel_' = "added" THEN {fd'} ELSE {}
  BY <1>1, <1>3, <1>5 DEF Attempted, SocketsAccounted, TypeInv, Free
<1>7. TypeInv'
  <2>1. socks' \subseteq Fds
    BY <1>5, Zenon DEF Attempted, TypeInv, Free
  <2> QED
    BY <1>1, <1>2, <1>6, <2>1 DEF TypeInv
<1>8. LoopInv'
  BY <1>1, <1>2, Zenon DEF LoopInv
<1>9. AttemptInv'
  BY <1>1, <1>2, <1>3, <1>4, <1>6 DEF AttemptInv, Idle
<1>10. ResetInv' /\ ActiveInv'
  BY <1>1, <1>2, <1>3, <1>6, Zenon DEF ResetInv, ActiveInv
<1>11. StopInv'
  BY <1>2, <1>6, Zenon DEF StopInv
<1>12. DestroyInv'
  BY <1>2, <1>3, <1>4, <1>6, Zenon DEF DestroyInv
<1>13. \A c \in Fds : ConnInv(c)'
  BY <1>2, <1>5, AttemptConn, Zenon DEF ClientGoing
<1>14. SocketsAccounted'
  BY <1>1, <1>2, <1>6, Zenon DEF SocketsAccounted
<1> QED
  BY <1>2, <1>6, <1>7, <1>8, <1>9, <1>10, <1>11, <1>12, <1>13, <1>14, Zenon DEF Good

\* restart(), after a connection ended.
LEMMA RestartKeeps ==
  ASSUME SocketsAccounted, IInv, races = {}, Restart PROVE Good'
<1> USE DEF IInv
<1>1. /\ next = "restart" /\ next' = "none" /\ connect_' = TRUE
      /\ StartInLoop("kDisconnected", TRUE, retries, Free)
      /\ races' = {} => wanted_ /\ ~ClientGoing
  BY Zenon DEF Restart
<1>2. UNCHANGED <<wanted_, retry_, connection_,
                  conn, closeCallback_, clientAlive, removeTimer, inLoop, upc, uconn, unique,
                  userRef, stopped, functors, phase, active, batch, nextFd>>
  BY Zenon DEF Restart, client, user
<1>3. /\ retries = 0 /\ state_ = "kConnected" /\ channel_ = "null" /\ connection_ = 0
      /\ phase = "handle" /\ ~Has(functors, "startInLoop") /\ upc \notin {"start1", "start2"}
      /\ <<"retry", 0>> \notin active /\ <<"connector", 0>> \notin active
  BY <1>1 DEF AttemptInv, Idle, TypeInv, LoopInv, ActiveInv
<1>4. Attempted(TRUE, 0)
  BY <1>1, <1>3, Starts, Zenon
<1>5. /\ failed' = "none" /\ state_' \in {"kConnecting", "kDisconnected"}
      /\ channel_' \in {"null", "added"} /\ (state_' = "kConnecting" <=> channel_' = "added")
      /\ retries' \in {0, 1} /\ (state_' = "kConnecting" => retries' = 0)
      /\ fd' \in Fds \cup {0}
      /\ socks' = IF channel_' = "added" THEN {fd'} ELSE {}
  BY <1>1, <1>3, <1>4 DEF Attempted, SocketsAccounted, TypeInv, Free
<1>6. SocketsAccounted'
  BY <1>1, <1>2, <1>5, Zenon DEF SocketsAccounted
<1>7. ASSUME races' = {} PROVE IInv'
  <2>1. wanted_ /\ clientAlive /\ upc \notin {"destroy1", "destroy2"} /\ uconn = 0
    BY <1>1, <1>7, Zenon DEF ClientGoing, DestroyInv
  <2>2. TypeInv'
    <3>1. socks' \subseteq Fds
      BY <1>4, Zenon DEF Attempted, TypeInv, Free
    <3> QED
      BY <1>1, <1>2, <1>5, <3>1 DEF TypeInv
  <2>3. LoopInv'
    BY <1>1, <1>2, <1>3, Zenon DEF LoopInv
  <2>4. AttemptInv'
    BY <1>1, <1>2, <1>3, <1>5, Zenon DEF AttemptInv, Idle
  <2>5. ResetInv' /\ ActiveInv'
    BY <1>1, <1>2, <1>3, <1>5, Zenon DEF ResetInv, ActiveInv
  <2>6. StopInv'
    BY <1>1, <1>2, <1>5, <2>1, Zenon DEF StopInv
  <2>7. DestroyInv'
    BY <1>2, <1>3, <1>5, <2>1, Zenon DEF DestroyInv
  <2>8. \A c \in Fds : ConnInv(c)'
    BY <1>2, <1>4, AttemptConn, Zenon DEF ClientGoing
  <2> QED
    BY <1>5, <2>2, <2>3, <2>4, <2>5, <2>6, <2>7, <2>8, Zenon
<1> QED
  BY <1>6, <1>7, Zenon DEF Good

\* The event of the connecting socket: the attempt failed, or the socket is closed
\* because stop() came first, or it is on its way to newConnection().
LEMMA HandleConnectorKeeps ==
  ASSUME SocketsAccounted, IInv, races = {}, HandleConnector PROVE Good'
<1> USE DEF IInv
<1>1. /\ phase = "handle" /\ next = "none" /\ <<"connector", 0>> \in active
      /\ active' = active \ {<<"connector", 0>>}
      /\ channel_' = "removed" /\ functors' = Append(functors, Functor("resetChannel", 0))
      /\ fd' = fd
  BY Zenon DEF HandleConnector, Handling, HandleFailure, HandleWrite, RemoveAndResetChannel
<1>2. UNCHANGED <<connect_, failed, wanted_, retry_, connection_,
                  conn, closeCallback_, clientAlive, removeTimer, inLoop, upc, uconn, unique,
                  userRef, stopped, phase, batch, races>>
  BY Zenon DEF HandleConnector, client, user
<1>3. /\ channel_ = "added" /\ state_ = "kConnecting" /\ retries = 0 /\ connection_ = 0
      /\ uconn = 0 /\ ~Has(functors, "startInLoop") /\ ~Has(functors, "resetChannel")
      /\ upc \notin {"start1", "start2"} /\ (~clientAlive => ~connect_)
      /\ <<"retry", 0>> \notin active
  BY <1>1 DEF ActiveInv, AttemptInv, Idle, DestroyInv, TypeInv
<1>4. nextFd = 0 /\ socks = {fd} /\ fd \in Fds
  BY <1>1, <1>3, Zenon DEF SocketsAccounted, LoopInv, TypeInv
<1>5. \/ state_' = "kDisconnected" /\ socks' = {} /\ retries' \in {0, 1} /\ next' = "none" /\ nextFd' = 0
      \/ state_' = "kConnected" /\ socks' = {} /\ retries' = 0 /\ next' = "none" /\ nextFd' = 0
      \/ state_' = "kConnected" /\ socks' = {fd} /\ retries' = 0 /\ next' = "newConnection" /\ nextFd' = fd
  <2>1. CASE HandleFailure /\ UNCHANGED <<next, nextFd>>
    BY <1>1, <1>3, <1>4, <2>1 DEF HandleFailure, Retry
  <2>2. CASE HandleWrite(FALSE) /\ UNCHANGED <<next, nextFd>>
    BY <1>1, <1>3, <1>4, <2>2, Zenon DEF HandleWrite
  <2>3. CASE HandleWrite(TRUE) /\ next' = "newConnection" /\ nextFd' = fd
    BY <1>1, <1>3, <1>4, <2>3, Zenon DEF HandleWrite
  <2> QED
    BY <2>1, <2>2, <2>3, Zenon DEF HandleConnector
<1>6. functors \in Seq(Functors) /\ Functor("resetChannel", 0) \in Functors
  BY FunctorsAre, Zenon DEF TypeInv, Raw
<1>7. /\ functors' \in Seq(Functors) /\ Has(functors', "resetChannel")
      /\ \A o : o # "resetChannel" => (Has(functors', o) <=> Has(functors, o))
      /\ \A o, c : c # 0 => (HasFor(functors', o, c) <=> HasFor(functors, o, c))
      /\ \A c : c # 0 => (About(functors', c) <=> About(functors, c))
      /\ Once(functors', "resetChannel")
      /\ Once(functors, "startInLoop") => Once(functors', "startInLoop")
  BY <1>1, <1>3, <1>6, QueueAppends DEF AttemptInv
<1>8. TypeInv'
  BY <1>1, <1>2, <1>4, <1>5, <1>7 DEF TypeInv
<1>9. LoopInv'
  BY <1>1, <1>2, <1>4, <1>5, NoFdZero, Zenon DEF LoopInv
<1>10. AttemptInv'
  BY <1>1, <1>2, <1>3, <1>5, <1>7, Zenon DEF AttemptInv
<1>11. ResetInv' /\ ActiveInv'
  <2>1. <<"conn", 0>> \notin active
    BY NoFdZero, Zenon DEF TypeInv, Events
  <2> QED
    BY <1>1, <1>2, <1>3, <2>1, Zenon DEF ResetInv, ActiveInv
<1>12. StopInv'
  BY <1>2, <1>5, <1>7, Zenon DEF StopInv
<1>13. DestroyInv'
  BY <1>2, <1>3, <1>7, Zenon DEF DestroyInv
<1>14. \A c \in Fds : ConnInv(c)'
  BY <1>2, <1>4, <1>5, <1>7, NoFdZero, ConnKept, Zenon DEF ClientGoing
<1>15. SocketsAccounted'
  BY <1>1, <1>5, Zenon DEF SocketsAccounted
<1> QED
  BY <1>2, <1>8, <1>9, <1>10, <1>11, <1>12, <1>13, <1>14, <1>15, Zenon DEF Good

-----------------------------------------------------------------------------
(* Connections.                                                            *)

LEMMA NewConnectionKeeps ==
  ASSUME SocketsAccounted, IInv, races = {}, NewConnection PROVE Good'
<1> USE DEF IInv
<1>1. /\ next = "newConnection" /\ next' = "none" /\ nextFd' = 0 /\ connection_' = nextFd
      /\ conn' = [conn EXCEPT ![nextFd] = "kConnected"]
      /\ closeCallback_' = [closeCallback_ EXCEPT ![nextFd] = "client"]
      /\ socks' = socks \ {nextFd}
      /\ userRef' = userRef \/ (userRef = {} /\ userRef' = {nextFd})
      /\ races' = {} => ~ClientGoing
  BY Zenon DEF NewConnection, RaceIf
<1>2. UNCHANGED <<connect_, state_, channel_, fd, retries, functors, failed,
                  wanted_, retry_, clientAlive, removeTimer, phase, active, batch,
                  inLoop, upc, uconn, unique, stopped>>
  BY Zenon DEF NewConnection
<1>3. /\ nextFd \in Fds /\ nextFd \in socks /\ state_ = "kConnected" /\ connection_ = 0
      /\ phase = "handle" /\ channel_ # "added"
  BY <1>1, Zenon DEF TypeInv, LoopInv, AttemptInv, SocketsAccounted
<1>4. conn[nextFd] \in {"none", "destroyed"} /\ Unreferenced(nextFd) /\ <<"conn", nextFd>> \notin active
  BY <1>3, Zenon DEF ConnInv, ActiveInv, Open
<1>5. SocketsAccounted'
  BY <1>1, <1>2, <1>3, Zenon DEF SocketsAccounted
<1>6. ASSUME races' = {} PROVE IInv'
  <2>1. clientAlive /\ upc \notin {"destroy1", "destroy2"} /\ uconn = 0
    BY <1>1, <1>6, Zenon DEF ClientGoing, DestroyInv
  <2>2. TypeInv'
    <3>1. /\ conn' \in [Fds -> {"none", "kConnected", "kDisconnecting", "kDisconnected", "destroyed"}]
          /\ closeCallback_' \in [Fds -> {"client", "detail"}]
      BY <1>1, <1>3, Zenon DEF TypeInv
    <3>2. userRef' \subseteq Fds /\ socks' \subseteq Fds
      BY <1>1, <1>3, Zenon DEF TypeInv
    <3> QED
      BY <1>1, <1>2, <1>3, <3>1, <3>2 DEF TypeInv
  <2>3. LoopInv'
    BY <1>1, <1>2, <1>3, Zenon DEF LoopInv
  <2>4. AttemptInv'
    BY <1>1, <1>2, <1>3, Zenon DEF AttemptInv, Idle
  <2>5. ResetInv'
    BY <1>1, <1>2, <1>3, <1>4, Zenon DEF ResetInv
  <2>6. ActiveInv'
    BY <1>1, <1>2, <1>3, <1>4, Zenon DEF ActiveInv, TypeInv
  <2>7. StopInv' /\ DestroyInv'
    BY <1>2, <2>1, Zenon DEF StopInv, DestroyInv
  <2>8. ASSUME NEW c \in Fds PROVE ConnInv(c)'
    <3>1. CASE c = nextFd
      <4>1. /\ conn'[c] = "kConnected" /\ connection_' = c /\ c \notin socks'
            /\ ~HasFor(functors, "connectDestroyed", c) /\ ~HasFor(functors, "forceCloseInLoop", c)
        BY <1>1, <1>3, <1>4, <3>1, Zenon DEF TypeInv, Unreferenced, About, HasFor
      <4> QED
        BY <1>2, <4>1, Zenon DEF ConnInv
    <3>2. CASE c # nextFd
      <4>1. /\ conn'[c] = conn[c] /\ closeCallback_'[c] = closeCallback_[c]
            /\ (c \in userRef' <=> c \in userRef) /\ (c \in socks' <=> c \in socks)
            /\ connection_' # c /\ connection_ # c
        BY <1>1, <1>3, <3>2, NoFdZero, Zenon DEF TypeInv
      <4>2. ConnInv(c) /\ (Unreferenced(c) => Unreferenced(c)')
        BY <1>2, <4>1, Zenon DEF Unreferenced
      <4> QED
        BY <1>2, <4>1, <4>2, Zenon DEF ConnInv, ClientGoing
    <3> QED
      BY <3>1, <3>2, Zenon
  <2> QED
    BY <1>2, <2>2, <2>3, <2>4, <2>5, <2>6, <2>7, <2>8, Zenon
<1> QED
  BY <1>5, <1>6, Zenon DEF Good

\* The peer closed a connection: its close callback is the client's or, once the
\* client is going, detail::removeConnection.
LEMMA ConnectionClosesKeeps ==
  ASSUME SocketsAccounted, IInv, races = {}, NEW c \in Fds, ConnectionCloses(c) PROVE Good'
<1> USE DEF IInv
<1>1. /\ phase = "handle" /\ next = "none" /\ <<"conn", c>> \in active
      /\ active' = active \ {<<"conn", c>>}
      /\ conn' = [conn EXCEPT ![c] = "kDisconnected"]
      /\ functors' = Append(functors, Functor("connectDestroyed", c))
  BY Zenon DEF ConnectionCloses, Handling, HandleClose, RemoveConnection
<1>2. UNCHANGED <<connect_, state_, channel_, fd, socks, retries, wanted_, retry_,
                  closeCallback_, clientAlive, removeTimer, inLoop, upc, uconn, unique,
                  userRef, stopped, phase, batch, nextFd>>
  BY Zenon DEF ConnectionCloses, connector, user
<1>3. \/ /\ closeCallback_[c] = "client" /\ Assert(connection_ = c, "removeConnection")
         /\ connection_' = 0 /\ next' \in {"none", "restart"}
         /\ races' = {} => ~ClientGoing
      \/ UNCHANGED <<connection_, next, races, failed>>
  BY Zenon DEF ConnectionCloses, HandleClose, RemoveConnection, RaceIf
<1>4. SocketsAccounted'
  BY <1>1, <1>2, <1>3, Zenon DEF SocketsAccounted
<1>5. functors \in Seq(Functors) /\ Functor("connectDestroyed", c) \in Functors
  BY FunctorsAre, Zenon DEF TypeInv, ConnOps
<1>6. /\ functors' \in Seq(Functors) /\ HasFor(functors', "connectDestroyed", c)
      /\ \A o : o # "connectDestroyed" => (Has(functors', o) <=> Has(functors, o))
      /\ \A o, d : d # c \/ o # "connectDestroyed" => (HasFor(functors', o, d) <=> HasFor(functors, o, d))
      /\ \A d : d # c => (About(functors', d) <=> About(functors, d))
      /\ Once(functors', "resetChannel") /\ Once(functors', "startInLoop")
  BY <1>1, <1>5, QueueAppends DEF AttemptInv
<1>7. conn[c] \in Open /\ c \notin socks
  BY <1>1, Zenon DEF ActiveInv, ConnInv, Open
<1>8. ASSUME races' = {} PROVE IInv'
  <2>1. failed' = "none" /\ (connection_' = connection_ \/ (connection_ = c /\ connection_' = 0 /\ ~ClientGoing))
    BY <1>3, <1>7, <1>8, Zenon DEF ConnInv, Assert
  <2>2. next' = "none" \/ (next' = "restart" /\ connection_ = c /\ connection_' = 0)
    BY <1>1, <1>3, <1>7, <1>8, Zenon DEF ConnInv
  <2>3. connection_ = c => state_ = "kConnected" /\ channel_ = "null" /\ ~Has(functors, "startInLoop")
                            /\ upc \notin {"start1", "start2"}
    BY <1>1, NoFdZero, Zenon DEF AttemptInv, Idle, ResetInv, TypeInv, LoopInv
  <2>4. TypeInv'
    BY <1>1, <1>2, <1>6, <2>1, <2>2 DEF TypeInv
  <2>5. LoopInv'
    BY <1>1, <1>2, <2>2, Zenon DEF LoopInv
  <2>6. AttemptInv'
    BY <1>1, <1>2, <1>6, <2>1, <2>2, <2>3, Zenon DEF AttemptInv, Idle, AnyRaw
  <2>7. ResetInv'
    <3>1. <<"conn", 0>> \notin active
      BY NoFdZero, Zenon DEF TypeInv, Events
    <3> QED
      BY <1>1, <1>2, <2>1, <3>1, Zenon DEF ResetInv
  <2>8. ActiveInv'
    BY <1>1, <1>2, Zenon DEF ActiveInv, TypeInv
  <2>9. StopInv'
    BY <1>2, <1>6, Zenon DEF StopInv
  <2>10. DestroyInv'
    BY <1>2, <1>6, <2>1, Zenon DEF DestroyInv, AnyRaw
  <2>11. ASSUME NEW d \in Fds PROVE ConnInv(d)'
    <3>1. CASE d = c
      <4>1. conn'[c] = "kDisconnected"
        BY <1>1, Zenon DEF TypeInv
      <4> QED
        BY <1>2, <1>6, <1>7, <3>1, <4>1, Zenon DEF ConnInv, Open
    <3>2. CASE d # c
      <4>1. conn'[d] = conn[d] /\ (connection_' = d <=> connection_ = d)
        BY <1>1, <2>1, <3>2, NoFdZero, Zenon DEF TypeInv
      <4>2. ConnInv(d) /\ (Unreferenced(d) => Unreferenced(d)')
        BY <1>2, <1>6, <3>2, <4>1, Zenon DEF Unreferenced
      <4> QED
        BY <1>2, <1>6, <3>2, <4>1, <4>2, Zenon DEF ConnInv, ClientGoing
    <3> QED
      BY <3>1, <3>2, Zenon
  <2> QED
    BY <2>1, <2>4, <2>5, <2>6, <2>7, <2>8, <2>9, <2>10, <2>11, Zenon
<1> QED
  BY <1>4, <1>8, Zenon DEF Good

-----------------------------------------------------------------------------
(* The functors.                                                           *)

\* doPendingFunctors() takes the first functor.
Taking(f, q) ==
  /\ phase = "functors" /\ phase' = "functors" /\ next = "none" /\ active = {} /\ active' = {}
  /\ batch \in Nat /\ batch' \in Nat /\ batch' = batch - 1 /\ batch <= Len(functors)
  /\ f \in Functors /\ q \in Seq(Functors) /\ Len(q) = Len(functors) - 1
  /\ \A o : Has(functors, o) <=> Has(q, o) \/ f.op = o
  /\ \A o, c : HasFor(functors, o, c) <=> HasFor(q, o, c) \/ (f.op = o /\ f.conn = c)
  /\ \A c : About(functors, c) <=> About(q, c) \/ f.conn = c
  /\ \A o : Once(functors, o) => Once(q, o) /\ (f.op = o => ~Has(q, o))
  /\ \A o : Soon(functors, batch, o) /\ f.op # o => Soon(q, batch', o)
  /\ UNCHANGED <<nextFd, inLoop, upc, uconn, unique, userRef, stopped>>

LEMMA RunTakes ==
  ASSUME IInv, RunFunctor PROVE Taking(Head(functors), Tail(functors))
<1>1. /\ phase = "functors" /\ batch > 0 /\ next = "none" /\ batch' = batch - 1
      /\ UNCHANGED <<phase, active, nextFd, user>>
  BY Zenon DEF RunFunctor
<1>2. functors \in Seq(Functors) /\ batch \in Nat /\ batch <= Len(functors) /\ active = {}
  BY <1>1, Zenon DEF IInv, TypeInv, LoopInv
<1>3. functors # <<>> /\ batch - 1 \in Nat
  BY <1>1, <1>2
<1> QED
  BY <1>1, <1>2, <1>3, Taken, Zenon DEF Taking, user

\* A functor that is not a connection's leaves the connections alone.
LEMMA RawTaken ==
  ASSUME NEW f, NEW q, Taking(f, q), f.op \notin ConnOps, NEW c \in Fds
  PROVE  /\ \A o : HasFor(q, o, c) <=> HasFor(functors, o, c)
         /\ About(q, c) <=> About(functors, c)
<1>1. f.conn # c
  BY Zenon DEF Taking, Functors
<1> QED
  BY <1>1, Zenon DEF Taking

LEMMA RunStartKeeps ==
  ASSUME SocketsAccounted, IInv, races = {}, NEW f, NEW q, Taking(f, q), RunStart(f, q)
  PROVE  Good'
<1> USE DEF IInv
<1>1. /\ f.op = "startInLoop" /\ functors' = q
      /\ StartInLoop(state_, connect_, retries, Free)
      /\ UNCHANGED <<connect_, wanted_, retry_, connection_, conn, closeCallback_, clientAlive,
                     removeTimer, next, races>>
  BY Zenon DEF RunStart, client
<1>2. UNCHANGED <<phase, active, nextFd, inLoop, upc, uconn, unique, userRef, stopped>>
  BY Zenon DEF Taking
<1>3. /\ state_ = "kDisconnected" /\ channel_ = "null" /\ retries = 0 /\ next = "none"
      /\ ~Has(q, "startInLoop") /\ upc \notin {"start1", "start2"} /\ connection_ = 0 /\ uconn = 0
      /\ (~clientAlive => ~connect_)
  BY <1>1, Zenon DEF Taking, AttemptInv, Idle, AnyRaw, DestroyInv
<1>4. Attempted(connect_, 0)
  BY <1>1, <1>3, Starts, Zenon
<1>5. /\ failed' = "none" /\ state_' \in {"kConnecting", "kDisconnected"}
      /\ channel_' \in {"null", "added"} /\ (state_' = "kConnecting" <=> channel_' = "added")
      /\ retries' \in {0, 1} /\ (state_' = "kConnecting" => retries' = 0)
      /\ (state_' = "kConnecting" => connect_)
      /\ fd' \in Fds \cup {0}
      /\ socks' = IF channel_' = "added" THEN {fd'} ELSE {}
  BY <1>3, <1>4 DEF Attempted, SocketsAccounted, TypeInv, Free
<1>6. TypeInv'
  <2>1. socks' \subseteq Fds
    BY <1>4, Zenon DEF Attempted, TypeInv, Free
  <2> QED
    BY <1>1, <1>2, <1>5, <2>1 DEF TypeInv, Taking
<1>7. LoopInv'
  BY <1>1, <1>2 DEF LoopInv, Taking
<1>8. AttemptInv'
  <2>1. Has(q, "resetChannel") <=> Has(functors, "resetChannel")
    BY <1>1, Zenon DEF Taking
  <2>2. Once(q, "resetChannel") /\ Once(q, "startInLoop")
    BY Zenon DEF Taking, AttemptInv
  <2> QED
    BY <1>1, <1>2, <1>3, <1>5, <2>1, <2>2 DEF AttemptInv
<1>9. ResetInv' /\ ActiveInv'
  BY <1>1, <1>2, <1>5, Zenon DEF ResetInv, ActiveInv, Taking
<1>10. StopInv'
  BY <1>1, <1>2, <1>5 DEF StopInv, Taking
<1>11. DestroyInv'
  <2>1. Has(q, "addRemoveTimer") <=> Has(functors, "addRemoveTimer")
    BY <1>1, Zenon DEF Taking
  <2>2. AnyRaw(q) => AnyRaw(functors)
    BY Zenon DEF Taking, AnyRaw
  <2> QED
    BY <1>1, <1>2, <1>3, <1>5, <2>1, <2>2, Zenon DEF DestroyInv
<1>12. \A c \in Fds : ConnInv(c)'
  <2>1. ASSUME NEW c \in Fds PROVE ConnInv(c)'
    <3>1. /\ \A o : HasFor(q, o, c) <=> HasFor(functors, o, c)
          /\ About(q, c) <=> About(functors, c)
      BY <1>1, RawTaken, Zenon DEF ConnOps
    <3> QED
      BY <1>1, <1>2, <1>4, <3>1, AttemptConn, Zenon DEF ClientGoing
  <2> QED
    BY <2>1, Zenon
<1>13. SocketsAccounted'
  BY <1>1, <1>3, <1>5, Zenon DEF SocketsAccounted
<1> QED
  BY <1>1, <1>5, <1>6, <1>7, <1>8, <1>9, <1>10, <1>11, <1>12, <1>13, Zenon DEF Good

LEMMA RunStopKeeps ==
  ASSUME SocketsAccounted, IInv, races = {}, NEW f, NEW q, Taking(f, q), RunStop(f, q)
  PROVE  Good'
<1> USE DEF IInv
<1>1. /\ f.op = "stopInLoop" /\ StopInLoop(q)
      /\ UNCHANGED <<connect_, wanted_, retry_, connection_, conn, closeCallback_, clientAlive,
                     removeTimer, next, races, failed>>
  BY Zenon DEF RunStop, client
<1>2. UNCHANGED <<phase, active, nextFd, inLoop, upc, uconn, unique, userRef, stopped>>
  BY Zenon DEF Taking
<1>3. /\ ~connect_ /\ next = "none" /\ AnyRaw(functors) /\ nextFd = 0
      /\ upc \notin {"start1", "start2"}
  BY <1>1, Zenon DEF Taking, StopInv, AttemptInv, AnyRaw, LoopInv
<1>4. /\ \A o : o # "stopInLoop" => (Has(functors, o) <=> Has(q, o))
      /\ Has(q, "stopInLoop") => Has(functors, "stopInLoop")
      /\ Once(q, "resetChannel") /\ Once(q, "startInLoop")
      /\ Soon(functors, batch, "resetChannel") => Soon(q, batch', "resetChannel")
      /\ q \in Seq(Functors)
  BY <1>1, Zenon DEF Taking, AttemptInv
<1>5. CASE state_ = "kConnecting"
  <2>1. /\ channel_' = "removed" /\ fd' = fd /\ state_' = "kDisconnected"
        /\ functors' = Append(q, Functor("resetChannel", 0))
        /\ socks' = socks \ {fd} /\ retries' = retries
    BY <1>1, <1>3, <1>5, Zenon DEF StopInLoop, RemoveAndResetChannel, Retry
  <2>2. /\ channel_ = "added" /\ retries = 0 /\ connection_ = 0 /\ uconn = 0
        /\ ~Has(functors, "startInLoop") /\ ~Has(q, "resetChannel") /\ socks = {fd}
    BY <1>3, <1>4, <1>5 DEF AttemptInv, Idle, DestroyInv, SocketsAccounted, TypeInv
  <2>3. Functor("resetChannel", 0) \in Functors /\ Functor("resetChannel", 0).op = "resetChannel"
        /\ Functor("resetChannel", 0).conn = 0
    BY FunctorsAre, Zenon DEF Raw, Functor
  <2>4. /\ functors' \in Seq(Functors) /\ Len(functors') = Len(q) + 1 /\ Has(functors', "resetChannel")
        /\ \A o : o # "resetChannel" => (Has(functors', o) <=> Has(q, o))
        /\ \A o, c : c # 0 => (HasFor(functors', o, c) <=> HasFor(q, o, c))
        /\ \A c : c # 0 => (About(functors', c) <=> About(q, c))
        /\ Once(functors', "resetChannel") /\ Once(functors', "startInLoop")
    BY <1>4, <2>1, <2>2, <2>3, Appended, SMTT(30)
  <2>5. TypeInv'
    BY <1>1, <1>2, <2>1, <2>2, <2>4 DEF TypeInv, Taking
  <2>6. LoopInv'
    BY <1>1, <1>2, <2>4 DEF LoopInv, Taking
  <2>7. AttemptInv'
    BY <1>1, <1>2, <1>3, <1>4, <2>1, <2>2, <2>4, Zenon DEF AttemptInv
  <2>8. ResetInv' /\ ActiveInv'
    BY <1>1, <1>2, <1>3, <2>1, <2>2, Zenon DEF ResetInv, ActiveInv, Taking
  <2>9. StopInv'
    BY <1>1, <1>2, <1>4, <2>1, <2>4, Zenon DEF StopInv
  <2>10. DestroyInv'
    BY <1>1, <1>2, <1>3, <1>4, <2>1, <2>2, <2>4, Zenon DEF DestroyInv
  <2>11. ASSUME NEW c \in Fds PROVE ConnInv(c)'
    <3>1. /\ \A o : HasFor(functors', o, c) <=> HasFor(functors, o, c)
          /\ About(functors', c) <=> About(functors, c)
      BY <1>1, <2>4, RawTaken, NoFdZero, Zenon DEF ConnOps
    <3> QED
      BY <1>1, <1>2, <2>1, <3>1, ConnKept, Zenon DEF ClientGoing
  <2>12. SocketsAccounted'
    BY <1>1, <1>3, <2>1, <2>2, Zenon DEF SocketsAccounted
  <2> QED
    BY <1>1, <2>5, <2>6, <2>7, <2>8, <2>9, <2>10, <2>11, <2>12, Zenon DEF Good
<1>6. CASE state_ # "kConnecting"
  <2>1. functors' = q /\ UNCHANGED <<state_, channel_, fd, socks, retries>>
    BY <1>1, <1>6, Zenon DEF StopInLoop
  <2>2. TypeInv'
    BY <1>1, <1>2, <1>4, <2>1 DEF TypeInv, Taking
  <2>3. LoopInv'
    BY <1>1, <1>2, <2>1 DEF LoopInv, Taking
  <2>4. AttemptInv'
    BY <1>1, <1>2, <1>3, <1>4, <2>1, Zenon DEF AttemptInv, Idle
  <2>5. ResetInv' /\ ActiveInv'
    BY <1>1, <1>2, <1>4, <2>1, Zenon DEF ResetInv, ActiveInv, Taking
  <2>6. StopInv'
    BY <1>1, <1>2, <1>4, <1>6, <2>1, Zenon DEF StopInv
  <2>7. DestroyInv'
    BY <1>1, <1>2, <1>3, <1>4, <2>1, Zenon DEF DestroyInv
  <2>8. ASSUME NEW c \in Fds PROVE ConnInv(c)'
    <3>1. /\ \A o : HasFor(functors', o, c) <=> HasFor(functors, o, c)
          /\ About(functors', c) <=> About(functors, c)
      BY <1>1, <2>1, RawTaken, Zenon DEF ConnOps
    <3> QED
      BY <1>1, <1>2, <2>1, <3>1, ConnKept, Zenon DEF ClientGoing
  <2>9. SocketsAccounted'
    BY <1>1, <1>2, <2>1, Zenon DEF SocketsAccounted
  <2> QED
    BY <1>1, <2>2, <2>3, <2>4, <2>5, <2>6, <2>7, <2>8, <2>9, Zenon DEF Good
<1> QED
  BY <1>5, <1>6, Zenon

LEMMA RunResetKeeps ==
  ASSUME SocketsAccounted, IInv, races = {}, NEW f, NEW q, Taking(f, q), RunReset(f, q)
  PROVE  Good'
<1> USE DEF IInv
<1>1. /\ f.op = "resetChannel" /\ channel_' = "null" /\ fd' = 0 /\ functors' = q
      /\ UNCHANGED <<connect_, state_, socks, retries, wanted_, retry_, connection_, conn,
                     closeCallback_, clientAlive, removeTimer, next, races, failed>>
  BY Zenon DEF RunReset, ResetChannel, client
<1>2. UNCHANGED <<phase, active, nextFd, inLoop, upc, uconn, unique, userRef, stopped>>
  BY Zenon DEF Taking
<1>3. /\ channel_ = "removed" /\ state_ # "kConnecting" /\ ~Has(functors, "startInLoop")
      /\ upc \notin {"start1", "start2"} /\ next = "none"
  BY <1>1, Zenon DEF Taking, AttemptInv, Idle
<1>4. /\ \A o : o # "resetChannel" => (Has(functors, o) <=> Has(q, o))
      /\ ~Has(q, "resetChannel") /\ q \in Seq(Functors)
      /\ Once(q, "resetChannel") /\ Once(q, "startInLoop")
  BY <1>1, Zenon DEF Taking, AttemptInv
<1>5. TypeInv'
  BY <1>1, <1>2, <1>4 DEF TypeInv, Taking
<1>6. LoopInv'
  BY <1>1, <1>2 DEF LoopInv, Taking
<1>7. AttemptInv'
  BY <1>1, <1>2, <1>3, <1>4, Zenon DEF AttemptInv
<1>8. ResetInv' /\ ActiveInv'
  BY <1>1, <1>2, Zenon DEF ResetInv, ActiveInv, Taking
<1>9. StopInv'
  BY <1>1, <1>2, <1>4, Zenon DEF StopInv
<1>10. DestroyInv'
  BY <1>1, <1>2, <1>3, <1>4, Zenon DEF DestroyInv, AnyRaw
<1>11. ASSUME NEW c \in Fds PROVE ConnInv(c)'
  <2>1. /\ \A o : HasFor(functors', o, c) <=> HasFor(functors, o, c)
        /\ About(functors', c) <=> About(functors, c)
    BY <1>1, RawTaken, Zenon DEF ConnOps
  <2> QED
    BY <1>1, <1>2, <2>1, ConnKept, Zenon DEF ClientGoing
<1>12. SocketsAccounted'
  BY <1>1, <1>2, <1>3, Zenon DEF SocketsAccounted
<1> QED
  BY <1>1, <1>5, <1>6, <1>7, <1>8, <1>9, <1>10, <1>11, <1>12, Zenon DEF Good

LEMMA RunAddRemoveTimerKeeps ==
  ASSUME SocketsAccounted, IInv, races = {}, NEW f, NEW q, Taking(f, q), RunAddRemoveTimer(f, q)
  PROVE  Good'
<1> USE DEF IInv
<1>1. /\ f.op = "addRemoveTimer" /\ functors' = q /\ removeTimer' /\ removeTimer' \in BOOLEAN
      /\ UNCHANGED <<connect_, state_, channel_, fd, socks, retries, wanted_, retry_, connection_,
                     conn, closeCallback_, clientAlive, next, races, failed>>
  BY Zenon DEF RunAddRemoveTimer, connector
<1>2. UNCHANGED <<phase, active, nextFd, inLoop, upc, uconn, unique, userRef, stopped>>
  BY Zenon DEF Taking
<1>3. /\ \A o : o # "addRemoveTimer" => (Has(functors, o) <=> Has(q, o))
      /\ q \in Seq(Functors)
      /\ Once(q, "resetChannel") /\ Once(q, "startInLoop")
      /\ Soon(functors, batch, "resetChannel") => Soon(q, batch', "resetChannel")
  BY <1>1, Zenon DEF Taking, AttemptInv
<1>4. TypeInv'
  BY <1>1, <1>2, <1>3 DEF TypeInv, Taking
<1>5. LoopInv'
  BY <1>1, <1>2 DEF LoopInv, Taking
<1>6. AttemptInv'
  BY <1>1, <1>2, <1>3, Zenon DEF AttemptInv, Idle, AnyRaw
<1>7. ResetInv' /\ ActiveInv'
  BY <1>1, <1>2, <1>3, Zenon DEF ResetInv, ActiveInv, Taking
<1>8. StopInv'
  BY <1>1, <1>2, <1>3, Zenon DEF StopInv
<1>9. DestroyInv'
  BY <1>1, <1>2, Zenon DEF DestroyInv
<1>10. ASSUME NEW c \in Fds PROVE ConnInv(c)'
  <2>1. /\ \A o : HasFor(functors', o, c) <=> HasFor(functors, o, c)
        /\ About(functors', c) <=> About(functors, c)
    BY <1>1, RawTaken, Zenon DEF ConnOps
  <2> QED
    BY <1>1, <1>2, <2>1, ConnKept, Zenon DEF ClientGoing
<1>11. SocketsAccounted'
  BY <1>1, <1>2, Zenon DEF SocketsAccounted
<1> QED
  BY <1>1, <1>4, <1>5, <1>6, <1>7, <1>8, <1>9, <1>10, <1>11, Zenon DEF Good

\* A functor of a connection leaves the Connector, the loop and the client alone.
LEMMA ConnFunctorKeeps ==
  ASSUME SocketsAccounted, IInv, races = {}, NEW f, NEW q, Taking(f, q), f.op \in ConnOps,
         UNCHANGED <<connect_, state_, channel_, fd, socks, retries, wanted_, retry_,
                     connection_, clientAlive, removeTimer, next, races, failed>>,
         functors' = q \/ \E c \in Fds : functors' = Append(q, Functor("connectDestroyed", c)),
         conn' \in [Fds -> {"none", "kConnected", "kDisconnecting", "kDisconnected", "destroyed"}],
         closeCallback_' \in [Fds -> {"client", "detail"}],
         \A c \in Fds : ConnInv(c)'
  PROVE  Good'
<1> USE DEF IInv
<1>1. UNCHANGED <<phase, active, nextFd, inLoop, upc, uconn, unique, userRef, stopped>>
  BY Zenon DEF Taking
<1>2. /\ functors' \in Seq(Functors) /\ Len(functors') >= Len(q)
      /\ \A o \in Raw \cup {"addRemoveTimer"} : Has(functors', o) <=> Has(functors, o)
      /\ Once(functors', "resetChannel") /\ Once(functors', "startInLoop")
      /\ Soon(functors, batch, "resetChannel") => Soon(functors', batch', "resetChannel")
  <2>1. /\ \A o \in Raw \cup {"addRemoveTimer"} : Has(q, o) <=> Has(functors, o)
        /\ Once(q, "resetChannel") /\ Once(q, "startInLoop")
        /\ Soon(functors, batch, "resetChannel") => Soon(q, batch', "resetChannel")
        /\ q \in Seq(Functors) /\ batch' \in Nat
    BY Zenon DEF Taking, Raw, ConnOps, AttemptInv
  <2>2. ASSUME NEW c \in Fds, functors' = Append(q, Functor("connectDestroyed", c)) PROVE <1>2!:
    <3>1. Functor("connectDestroyed", c) \in Functors /\ Functor("connectDestroyed", c).op = "connectDestroyed"
      BY FunctorsAre, Zenon DEF ConnOps, Functor
    <3>2. Len(q) \in Nat
      BY <2>1
    <3> QED
      BY <2>1, <2>2, <3>1, <3>2, Appended DEF Raw
  <2>3. CASE functors' = q
    BY <2>1, <2>3
  <2> QED
    BY <2>2, <2>3, Zenon
<1>3. /\ Has(functors', "startInLoop") <=> Has(functors, "startInLoop")
      /\ Has(functors', "stopInLoop") <=> Has(functors, "stopInLoop")
      /\ Has(functors', "resetChannel") <=> Has(functors, "resetChannel")
      /\ Has(functors', "addRemoveTimer") <=> Has(functors, "addRemoveTimer")
  BY <1>2, Zenon DEF Raw
<1>4. TypeInv'
  BY <1>1, <1>2 DEF TypeInv, Taking
<1>5. LoopInv'
  <2>1. phase' = "functors" => batch' <= Len(functors')
    <3>1. Len(functors') \in Nat /\ Len(q) \in Nat
      BY <1>2 DEF Taking
    <3> QED
      BY <1>2, <3>1 DEF Taking
  <2> QED
    BY <1>1, <2>1, Zenon DEF LoopInv
<1>6. AttemptInv'
  BY <1>1, <1>2, <1>3, Zenon DEF AttemptInv, Idle, AnyRaw
<1>7. ResetInv' /\ ActiveInv'
  BY <1>1, <1>2, Zenon DEF ResetInv, ActiveInv, Taking
<1>8. StopInv'
  BY <1>1, <1>3, Zenon DEF StopInv
<1>9. DestroyInv'
  BY <1>1, <1>3, Zenon DEF DestroyInv, AnyRaw
<1>10. SocketsAccounted'
  BY <1>1, Zenon DEF SocketsAccounted
<1> QED
  BY <1>4, <1>5, <1>6, <1>7, <1>8, <1>9, <1>10, Zenon DEF Good

LEMMA RunConnectDestroyedKeeps ==
  ASSUME SocketsAccounted, IInv, races = {}, NEW f, NEW q, Taking(f, q), RunConnectDestroyed(f, q)
  PROVE  Good'
<1> USE DEF IInv
<1>1. /\ f.op = "connectDestroyed" /\ functors' = q
      /\ conn' = [conn EXCEPT ![f.conn] = "destroyed"]
      /\ UNCHANGED <<connect_, state_, channel_, fd, socks, retries, wanted_, retry_, connection_,
                     closeCallback_, clientAlive, removeTimer, next, races, failed>>
  BY Zenon DEF RunConnectDestroyed, connector
<1>2. UNCHANGED <<uconn, upc, userRef>>
  BY Zenon DEF Taking
<1>3. f.conn \in Fds /\ f.op \in ConnOps /\ About(functors, f.conn)
  BY <1>1, Zenon DEF Taking, Functors, ConnOps
<1>4. ASSUME NEW c \in Fds PROVE ConnInv(c)'
  <2>1. /\ HasFor(q, "forceCloseInLoop", c) <=> HasFor(functors, "forceCloseInLoop", c)
        /\ About(q, c) => About(functors, c)
    BY <1>1 DEF Taking
  <2>2. CASE c = f.conn
    <3>1. conn'[c] = "destroyed" /\ c \notin socks
      BY <1>1, <1>3, <2>2, Zenon DEF TypeInv, ConnInv, Unreferenced
    <3>2. HasFor(functors', "forceCloseInLoop", c) => ~clientAlive'
      BY <1>1, <2>1, Zenon DEF ConnInv
    <3>3. c \notin socks' /\ conn'[c] \notin Open \cup {"none", "kDisconnected"}
      BY <1>1, <3>1, Zenon DEF Open
    <3> QED
      BY <3>1, <3>2, <3>3, Zenon DEF ConnInv
  <2>3. CASE c # f.conn
    <3>1. /\ HasFor(q, "connectDestroyed", c) <=> HasFor(functors, "connectDestroyed", c)
          /\ About(q, c) <=> About(functors, c)
          /\ conn'[c] = conn[c]
      BY <1>1, <1>3, <2>3, Zenon DEF Taking, TypeInv
    <3> QED
      BY <1>1, <1>2, <2>1, <3>1, ConnKept, Zenon DEF ClientGoing
  <2> QED
    BY <2>2, <2>3, Zenon
<1>5. conn' \in [Fds -> {"none", "kConnected", "kDisconnecting", "kDisconnected", "destroyed"}]
  BY <1>1, Zenon DEF TypeInv
<1>6. closeCallback_' \in [Fds -> {"client", "detail"}]
  BY <1>1, Zenon DEF TypeInv
<1> QED
  BY <1>1, <1>3, <1>4, <1>5, <1>6, ConnFunctorKeeps, Zenon

LEMMA RunSetCloseCallbackKeeps ==
  ASSUME SocketsAccounted, IInv, races = {}, NEW f, NEW q, Taking(f, q), RunSetCloseCallback(f, q)
  PROVE  Good'
<1> USE DEF IInv
<1>1. /\ f.op = "setCloseCallback" /\ functors' = q
      /\ closeCallback_' = [closeCallback_ EXCEPT ![f.conn] = "detail"]
      /\ UNCHANGED <<connect_, state_, channel_, fd, socks, retries, wanted_, retry_, connection_,
                     conn, clientAlive, removeTimer, next, races, failed>>
  BY Zenon DEF RunSetCloseCallback, connector
<1>2. UNCHANGED <<uconn, upc, userRef>>
  BY Zenon DEF Taking
<1>3. f.conn \in Fds /\ f.op \in ConnOps
  BY <1>1, Zenon DEF Taking, Functors, ConnOps
<1>4. ASSUME NEW c \in Fds PROVE ConnInv(c)'
  <2>1. /\ HasFor(q, "forceCloseInLoop", c) <=> HasFor(functors, "forceCloseInLoop", c)
        /\ HasFor(q, "connectDestroyed", c) <=> HasFor(functors, "connectDestroyed", c)
        /\ About(q, c) => About(functors, c)
    BY <1>1 DEF Taking
  <2>2. closeCallback_'[c] = "client" => closeCallback_[c] = "client"
    BY <1>1, <1>3, Zenon DEF TypeInv
  <2>3. ConnInv(c) /\ (Unreferenced(c) => Unreferenced(c)')
    BY <1>1, <1>2, <2>1, Zenon DEF Unreferenced
  <2> QED
    BY <1>1, <1>2, <2>1, <2>2, <2>3, Zenon DEF ConnInv, ClientGoing
<1>5. closeCallback_' \in [Fds -> {"client", "detail"}]
  BY <1>1, Zenon DEF TypeInv
<1>6. conn' \in [Fds -> {"none", "kConnected", "kDisconnecting", "kDisconnected", "destroyed"}]
  BY <1>1, Zenon DEF TypeInv
<1> QED
  BY <1>1, <1>3, <1>4, <1>5, <1>6, ConnFunctorKeeps, Zenon

LEMMA RunForceCloseKeeps ==
  ASSUME SocketsAccounted, IInv, races = {}, NEW f, NEW q, Taking(f, q), RunForceClose(f, q)
  PROVE  Good'
<1> USE DEF IInv
<1> DEFINE c == f.conn
<1>1. /\ f.op = "forceCloseInLoop"
      /\ UNCHANGED <<connect_, state_, channel_, fd, socks, retries, wanted_, retry_,
                     closeCallback_, clientAlive, removeTimer>>
      /\ \/ conn[c] \in Open /\ HandleClose(c, q)
         \/ /\ conn[c] \notin Open /\ functors' = q
            /\ UNCHANGED <<conn, connection_, next, races, failed>>
  BY Zenon DEF RunForceClose, connector
<1>2. UNCHANGED <<uconn, upc, userRef, nextFd>> /\ next = "none"
  BY Zenon DEF Taking
<1>3. c \in Fds /\ f.op \in ConnOps /\ HasFor(functors, "forceCloseInLoop", c) /\ About(functors, c)
  BY <1>1, Zenon DEF Taking, Functors, ConnOps
<1> HIDE DEF c
<1>4. ~clientAlive /\ ClientGoing
  BY <1>3, Zenon DEF ConnInv, ClientGoing
<1>5. CASE conn[c] \in Open /\ HandleClose(c, q) /\ races' # {}
  <2>1. next' # "newConnection"
    BY <1>2, <1>5, Zenon DEF HandleClose, RemoveConnection
  <2> QED
    BY <1>1, <1>2, <1>5, <2>1, Zenon DEF Good, SocketsAccounted
<1>6. CASE conn[c] \in Open /\ HandleClose(c, q) /\ races' = {}
  <2>1. /\ conn' = [conn EXCEPT ![c] = "kDisconnected"]
        /\ functors' = Append(q, Functor("connectDestroyed", c))
        /\ UNCHANGED <<connection_, next, races, failed>>
    BY <1>4, <1>6, Zenon DEF HandleClose, RemoveConnection, RaceIf
  <2>2. /\ Functor("connectDestroyed", c) \in Functors
        /\ Functor("connectDestroyed", c).op = "connectDestroyed" /\ Functor("connectDestroyed", c).conn = c
    BY <1>3, FunctorsAre, Zenon DEF ConnOps, Functor
  <2>3. q \in Seq(Functors)
    BY Zenon DEF Taking
  <2>4. /\ \A o, d : HasFor(functors', o, d) <=> HasFor(q, o, d) \/ (o = "connectDestroyed" /\ d = c)
        /\ \A d : About(functors', d) <=> About(q, d) \/ d = c
    BY <2>1, <2>2, <2>3, Appended, Zenon
  <2>5. ASSUME NEW d \in Fds PROVE ConnInv(d)'
    <3>1. CASE d = c
      <4>1. /\ conn'[d] = "kDisconnected" /\ d \notin socks /\ HasFor(functors', "connectDestroyed", d)
        BY <1>3, <2>1, <2>4, <3>1, Zenon DEF TypeInv, ConnInv, Unreferenced
      <4> QED
        BY <1>1, <1>4, <4>1, Zenon DEF ConnInv, Open
    <3>2. CASE d # c
      <4>1. /\ \A o : HasFor(functors', o, d) <=> HasFor(functors, o, d)
            /\ About(functors', d) <=> About(functors, d)
            /\ conn'[d] = conn[d]
        BY <1>3, <2>1, <2>4, <3>2, Zenon DEF Taking, TypeInv, c
      <4> QED
        BY <1>1, <1>2, <2>1, <4>1, ConnKept, Zenon DEF ClientGoing
    <3> QED
      BY <3>1, <3>2, Zenon
  <2>6. conn' \in [Fds -> {"none", "kConnected", "kDisconnecting", "kDisconnected", "destroyed"}]
    BY <2>1, Zenon DEF TypeInv
  <2>7. closeCallback_' \in [Fds -> {"client", "detail"}]
    BY <1>1, Zenon DEF TypeInv
  <2> QED
    BY <1>1, <1>3, <2>1, <2>5, <2>6, <2>7, ConnFunctorKeeps, Zenon
<1>7. CASE conn[c] \notin Open /\ functors' = q /\ UNCHANGED <<conn, connection_, next, races, failed>>
  <2>1. ASSUME NEW d \in Fds PROVE ConnInv(d)'
    <3>1. /\ HasFor(q, "connectDestroyed", d) <=> HasFor(functors, "connectDestroyed", d)
          /\ HasFor(q, "forceCloseInLoop", d) => HasFor(functors, "forceCloseInLoop", d)
          /\ d # c /\ HasFor(functors, "forceCloseInLoop", d) => HasFor(q, "forceCloseInLoop", d)
          /\ About(q, d) => About(functors, d)
      BY <1>1, Zenon DEF Taking, c
    <3>2. ConnInv(d) /\ (Unreferenced(d) => Unreferenced(d)')
      BY <1>2, <1>7, <3>1, Zenon DEF Unreferenced
    <3> QED
      BY <1>1, <1>2, <1>7, <3>1, <3>2, Zenon DEF ConnInv, ClientGoing
  <2>2. conn' \in [Fds -> {"none", "kConnected", "kDisconnecting", "kDisconnected", "destroyed"}]
    BY <1>7, Zenon DEF TypeInv
  <2>3. closeCallback_' \in [Fds -> {"client", "detail"}]
    BY <1>1, Zenon DEF TypeInv
  <2> QED
    BY <1>1, <1>3, <1>7, <2>1, <2>2, <2>3, ConnFunctorKeeps, Zenon
<1> QED
  BY <1>1, <1>5, <1>6, <1>7, Zenon

LEMMA RunFunctorKeeps ==
  ASSUME SocketsAccounted, IInv, races = {}, RunFunctor PROVE Good'
<1> DEFINE f == Head(functors)
           q == Tail(functors)
<1>1. Taking(f, q)
  BY RunTakes, Zenon
<1>2. \/ RunStart(f, q) \/ RunStop(f, q) \/ RunReset(f, q)
      \/ RunConnectDestroyed(f, q) \/ RunSetCloseCallback(f, q)
      \/ RunForceClose(f, q) \/ RunAddRemoveTimer(f, q)
  BY Zenon DEF RunFunctor
<1>3. PICK g, p : /\ Taking(g, p)
                  /\ \/ RunStart(g, p) \/ RunStop(g, p) \/ RunReset(g, p)
                     \/ RunConnectDestroyed(g, p) \/ RunSetCloseCallback(g, p)
                     \/ RunForceClose(g, p) \/ RunAddRemoveTimer(g, p)
  <2> HIDE DEF f, q
  <2> QED
    BY <1>1, <1>2, Zenon
<1> QED
  BY <1>3, RunStartKeeps, RunStopKeeps, RunResetKeeps, RunConnectDestroyedKeeps,
     RunSetCloseCallbackKeeps, RunForceCloseKeeps, RunAddRemoveTimerKeeps, Zenon

-----------------------------------------------------------------------------
(* The user's calls.                                                       *)

\* A call of the user begins, in the loop's thread or not, and the round of the loop.
LEMMA BeginRound ==
  ASSUME IInv, NEW op, NEW to, to \notin {"idle", "gone"}, Begin(op, to),
         UNCHANGED rest, Len(functors') \in Nat, Len(functors') >= Len(functors)
  PROVE  /\ LoopInv' /\ upc' = to /\ next' \in {"none", "newConnection", "restart", "user"}
         /\ next' = "newConnection" <=> next = "newConnection"
         /\ next' = "restart" <=> next = "restart"
         /\ UNCHANGED <<phase, active, batch, nextFd, inLoop>>
<1>1. UNCHANGED <<phase, active, batch, nextFd, inLoop>> /\ upc' = to
  BY Zenon DEF rest, Begin
<1>2. LoopInv /\ next \in {"none", "newConnection", "restart", "user"} /\ batch \in Nat
      /\ Len(functors) \in Nat /\ inLoop \in BOOLEAN
  BY DEF IInv, TypeInv
<1>3. phase' = "functors" => batch' <= Len(functors')
  BY <1>1, <1>2 DEF LoopInv
<1>4. /\ upc = "idle"
      /\ \/ inLoop /\ phase # "poll" /\ next = "none" /\ next' = "user"
         \/ ~inLoop /\ next' = next
  BY Zenon DEF Begin, UserIsIdle
<1> QED
  BY <1>1, <1>2, <1>3, <1>4, Zenon DEF LoopInv

\* A further step of the call.
LEMMA StepRound ==
  ASSUME IInv, NEW from, NEW to, from \notin {"idle", "gone"}, Step(from, to),
         UNCHANGED rest, Len(functors') \in Nat, Len(functors') >= Len(functors)
  PROVE  /\ LoopInv' /\ upc' = to /\ next' \in {"none", "newConnection", "restart", "user"}
         /\ next' = "newConnection" <=> next = "newConnection"
         /\ next' = "restart" <=> next = "restart"
         /\ UNCHANGED <<phase, active, batch, nextFd, inLoop>>
<1>1. UNCHANGED <<phase, active, batch, nextFd, inLoop>> /\ upc' = to
  BY Zenon DEF rest, Step
<1>2. LoopInv /\ next \in {"none", "newConnection", "restart", "user"} /\ batch \in Nat
      /\ Len(functors) \in Nat /\ inLoop \in BOOLEAN
  BY DEF IInv, TypeInv
<1>3. phase' = "functors" => batch' <= Len(functors')
  BY <1>1, <1>2 DEF LoopInv
<1>4. upc = from /\ next' = IF inLoop /\ to \in {"idle", "gone"} THEN "none" ELSE next
  BY Zenon DEF Step
<1> QED
  BY <1>1, <1>2, <1>3, <1>4, Zenon DEF LoopInv

LEMMA ConnectBeginsKeeps ==
  ASSUME SocketsAccounted, IInv, races = {}, ConnectBegins PROVE Good'
<1> USE DEF IInv
<1>1. /\ Begin("connect", "start1") /\ UNCHANGED rest
      /\ wanted_' = TRUE /\ stopped' = FALSE /\ upc = "idle" /\ clientAlive
      /\ races' = {} => AtRest
  BY Zenon DEF ConnectBegins, RaceIf, Begin, UserIsIdle
<1>2. UNCHANGED <<connect_, state_, channel_, fd, socks, retries, retry_, connection_,
                  conn, closeCallback_, clientAlive, removeTimer, uconn, unique,
                  userRef, functors, failed>>
  BY Zenon DEF ConnectBegins, connector
<1>3. functors \in Seq(Functors) /\ Len(functors) \in Nat
  BY DEF TypeInv
<1>4. /\ LoopInv' /\ upc' = "start1" /\ next' \in {"none", "newConnection", "restart", "user"}
      /\ next' = "newConnection" <=> next = "newConnection"
      /\ next' = "restart" <=> next = "restart"
      /\ UNCHANGED <<phase, active, batch, nextFd, inLoop>>
  BY <1>1, <1>2, <1>3, BeginRound
<1>5. SocketsAccounted'
  BY <1>2, <1>4, Zenon DEF SocketsAccounted
<1>6. ASSUME races' = {} PROVE IInv'
  <2>1. /\ state_ = "kDisconnected" /\ channel_ = "null" /\ retries = 0
        /\ ~AnyRaw(functors) /\ next \notin {"restart", "newConnection"}
    BY <1>1, <1>3, <1>6, QueueWords, Zenon DEF AtRest, AttemptInv
  <2>2. TypeInv'
    <3>1. wanted_' \in BOOLEAN /\ stopped' \in BOOLEAN
      BY <1>1, Zenon
    <3> QED
      BY <1>2, <1>4, <3>1 DEF TypeInv
  <2>3. AttemptInv'
    BY <1>1, <1>2, <1>4, <2>1, Zenon DEF AttemptInv, Idle
  <2>4. ResetInv' /\ ActiveInv'
    BY <1>2, <1>4, Zenon DEF ResetInv, ActiveInv
  <2>5. StopInv'
    BY <1>1, <1>2, <1>4, <2>1, Zenon DEF StopInv, AnyRaw
  <2>6. DestroyInv'
    BY <1>1, <1>2, <1>4, Zenon DEF DestroyInv
  <2>7. \A c \in Fds : ConnInv(c)'
    BY <1>1, <1>2, ConnKept, Zenon DEF ClientGoing
  <2> QED
    BY <1>2, <1>4, <2>2, <2>3, <2>4, <2>5, <2>6, <2>7, Zenon
<1> QED
  BY <1>5, <1>6, Zenon DEF Good

LEMMA StartSetsKeeps ==
  ASSUME SocketsAccounted, IInv, races = {}, StartSets PROVE Good'
<1> USE DEF IInv
<1>1. Step("start1", "start2") /\ UNCHANGED rest /\ connect_' \in BOOLEAN /\ upc = "start1"
  BY Zenon DEF StartSets, Step
<1>2. UNCHANGED <<state_, channel_, fd, socks, retries, wanted_, retry_, connection_,
                  conn, closeCallback_, clientAlive, removeTimer, uconn, unique,
                  userRef, stopped, functors, failed, races>>
  BY Zenon DEF StartSets, client
<1>3. functors \in Seq(Functors) /\ Len(functors) \in Nat
  BY DEF TypeInv
<1>4. /\ LoopInv' /\ upc' = "start2" /\ next' \in {"none", "newConnection", "restart", "user"}
      /\ next' = "newConnection" <=> next = "newConnection"
      /\ next' = "restart" <=> next = "restart"
      /\ UNCHANGED <<phase, active, batch, nextFd, inLoop>>
  BY <1>1, <1>2, <1>3, StepRound
<1>5. Idle /\ ~AnyRaw(functors) /\ ~stopped /\ clientAlive
  BY <1>1, Zenon DEF AttemptInv, DestroyInv
<1>6. TypeInv'
  BY <1>1, <1>2, <1>4 DEF TypeInv
<1>7. AttemptInv'
  BY <1>1, <1>2, <1>4, <1>5, Zenon DEF AttemptInv, Idle
<1>8. ResetInv' /\ ActiveInv'
  BY <1>2, <1>4, <1>5, Zenon DEF ResetInv, ActiveInv, Idle
<1>9. StopInv'
  BY <1>2, <1>4, <1>5, Zenon DEF StopInv, AnyRaw
<1>10. DestroyInv'
  BY <1>1, <1>2, <1>4, <1>5, Zenon DEF DestroyInv
<1>11. \A c \in Fds : ConnInv(c)'
  BY <1>1, <1>2, <1>4, <1>5, ConnKept, Zenon DEF ClientGoing
<1>12. SocketsAccounted'
  BY <1>2, <1>4, Zenon DEF SocketsAccounted
<1> QED
  BY <1>2, <1>4, <1>6, <1>7, <1>8, <1>9, <1>10, <1>11, <1>12, Zenon DEF Good

\* start() ends: startInLoop() runs at once, or is queued.
LEMMA StartRunsKeeps ==
  ASSUME SocketsAccounted, IInv, races = {}, StartRuns PROVE Good'
<1> USE DEF IInv
<1>1. /\ Step("start2", "idle") /\ UNCHANGED rest /\ upc = "start2"
      /\ \/ inLoop /\ StartInLoop(state_, connect_, retries, Free) /\ functors' = functors
         \/ /\ ~inLoop /\ functors' = Append(functors, Functor("startInLoop", 0))
            /\ UNCHANGED <<state_, channel_, fd, socks, retries, failed>>
  BY Zenon DEF StartRuns, Step
<1>2. UNCHANGED <<connect_, wanted_, retry_, connection_, conn, closeCallback_, clientAlive,
                  removeTimer, uconn, unique, userRef, stopped, races>>
  BY Zenon DEF StartRuns, client
<1>3. /\ Idle /\ ~AnyRaw(functors) /\ ~stopped /\ clientAlive /\ connection_ = 0 /\ uconn = 0
  BY <1>1, Zenon DEF AttemptInv, DestroyInv, Idle
<1>4. functors \in Seq(Functors) /\ Len(functors) \in Nat
  BY DEF TypeInv
<1>5. CASE inLoop /\ StartInLoop(state_, connect_, retries, Free) /\ functors' = functors
  <2>1. /\ LoopInv' /\ upc' = "idle" /\ next' \in {"none", "newConnection", "restart", "user"}
        /\ next' = "newConnection" <=> next = "newConnection"
        /\ next' = "restart" <=> next = "restart"
        /\ UNCHANGED <<phase, active, batch, nextFd, inLoop>>
    <3>1. Len(functors') \in Nat /\ Len(functors') >= Len(functors)
      BY <1>4, <1>5
    <3> QED
      BY <1>1, <3>1, StepRound, Zenon
  <2>2. Attempted(connect_, 0)
    BY <1>3, <1>5, Starts, Zenon DEF Idle
  <2>3. /\ failed' = "none" /\ state_' \in {"kConnecting", "kDisconnected"}
        /\ channel_' \in {"null", "added"} /\ (state_' = "kConnecting" <=> channel_' = "added")
        /\ retries' \in {0, 1} /\ (state_' = "kConnecting" => retries' = 0)
        /\ fd' \in Fds \cup {0}
        /\ socks' = IF channel_' = "added" THEN {fd'} ELSE {}
    BY <1>3, <2>2 DEF Attempted, SocketsAccounted, TypeInv, Free, Idle
  <2>4. TypeInv'
    <3>1. socks' \subseteq Fds
      BY <2>2, Zenon DEF Attempted, TypeInv, Free
    <3> QED
      BY <1>2, <1>5, <2>1, <2>3, <3>1, SMTT(30) DEF TypeInv
  <2>5. AttemptInv'
    BY <1>2, <1>3, <1>5, <2>1, <2>3 DEF AttemptInv, Idle, AnyRaw
  <2>6. ResetInv' /\ ActiveInv'
    BY <1>2, <1>3, <2>1, <2>3, Zenon DEF ResetInv, ActiveInv, Idle
  <2>7. StopInv'
    BY <1>2, <1>3, <1>5, <2>1, Zenon DEF StopInv
  <2>8. DestroyInv'
    BY <1>1, <1>2, <1>3, <2>1, Zenon DEF DestroyInv
  <2>9. \A c \in Fds : ConnInv(c)'
    BY <1>1, <1>2, <1>5, <2>1, <2>2, AttemptConn, Zenon DEF ClientGoing
  <2>10. SocketsAccounted'
    BY <1>3, <2>1, <2>3, Zenon DEF SocketsAccounted, Idle
  <2> QED
    BY <1>2, <2>1, <2>3, <2>4, <2>5, <2>6, <2>7, <2>8, <2>9, <2>10, Zenon DEF Good
<1>6. CASE /\ functors' = Append(functors, Functor("startInLoop", 0))
           /\ UNCHANGED <<state_, channel_, fd, socks, retries, failed>>
  <2>1. Functor("startInLoop", 0) \in Functors
    BY FunctorsAre, Zenon DEF Raw
  <2>2. /\ functors' \in Seq(Functors) /\ Len(functors') \in Nat /\ Len(functors') >= Len(functors)
        /\ \A o : o # "startInLoop" => (Has(functors', o) <=> Has(functors, o))
        /\ \A o, c : c # 0 => (HasFor(functors', o, c) <=> HasFor(functors, o, c))
        /\ \A c : c # 0 => (About(functors', c) <=> About(functors, c))
        /\ Once(functors', "resetChannel") /\ Once(functors', "startInLoop")
    BY <1>3, <1>4, <1>6, <2>1, QueueAppends DEF AttemptInv, AnyRaw
  <2>3. /\ LoopInv' /\ upc' = "idle" /\ next' \in {"none", "newConnection", "restart", "user"}
        /\ next' = "newConnection" <=> next = "newConnection"
        /\ next' = "restart" <=> next = "restart"
        /\ UNCHANGED <<phase, active, batch, nextFd, inLoop>>
    BY <1>1, <2>2, StepRound, Zenon
  <2>4. TypeInv'
    BY <1>2, <1>6, <2>2, <2>3 DEF TypeInv
  <2>5. AttemptInv'
    BY <1>2, <1>3, <1>6, <2>2, <2>3, Zenon DEF AttemptInv, Idle
  <2>6. ResetInv' /\ ActiveInv'
    BY <1>2, <1>3, <1>6, <2>3, Zenon DEF ResetInv, ActiveInv, Idle
  <2>7. StopInv'
    BY <1>2, <1>3, <1>6, <2>2, <2>3, Zenon DEF StopInv
  <2>8. DestroyInv'
    BY <1>1, <1>2, <1>3, <2>3, Zenon DEF DestroyInv
  <2>9. \A c \in Fds : ConnInv(c)'
    BY <1>1, <1>2, <1>6, <2>2, <2>3, NoFdZero, ConnKept, Zenon DEF ClientGoing
  <2>10. SocketsAccounted'
    BY <1>6, <2>3, Zenon DEF SocketsAccounted
  <2> QED
    BY <1>2, <1>6, <2>3, <2>4, <2>5, <2>6, <2>7, <2>8, <2>9, <2>10, Zenon DEF Good
<1> QED
  BY <1>1, <1>5, <1>6, Zenon

LEMMA CallOffKeeps ==
  ASSUME SocketsAccounted, IInv, races = {}, CallOff PROVE Good'
<1> USE DEF IInv
<1>1. PICK to \in {"stop1", "shutdown"} : \E op : Begin(op, to)
  BY Zenon DEF CallOff
<1>2. /\ UNCHANGED rest /\ wanted_' = FALSE /\ upc = "idle" /\ clientAlive
      /\ UNCHANGED <<connect_, state_, channel_, fd, socks, retries, retry_, connection_,
                     conn, closeCallback_, clientAlive, removeTimer, uconn, unique,
                     userRef, stopped, functors, failed, races>>
  BY Zenon DEF CallOff, connector, Begin, UserIsIdle
<1>3. functors \in Seq(Functors) /\ Len(functors) \in Nat
  BY DEF TypeInv
<1>4. /\ LoopInv' /\ upc' = to /\ next' \in {"none", "newConnection", "restart", "user"}
      /\ next' = "newConnection" <=> next = "newConnection"
      /\ next' = "restart" <=> next = "restart"
      /\ UNCHANGED <<phase, active, batch, nextFd, inLoop>>
  BY <1>1, <1>2, <1>3, BeginRound
<1>5. TypeInv'
  <2>1. wanted_' \in BOOLEAN
    BY <1>2, Zenon
  <2> QED
    BY <1>2, <1>4, <2>1 DEF TypeInv
<1>6. AttemptInv'
  BY <1>2, <1>4, Zenon DEF AttemptInv, Idle
<1>7. ResetInv' /\ ActiveInv'
  BY <1>2, <1>4, Zenon DEF ResetInv, ActiveInv
<1>8. StopInv'
  BY <1>2, <1>4, Zenon DEF StopInv
<1>9. DestroyInv'
  BY <1>2, <1>4, Zenon DEF DestroyInv
<1>10. \A c \in Fds : ConnInv(c)'
  BY <1>2, <1>4, ConnKept, Zenon DEF ClientGoing
<1>11. SocketsAccounted'
  BY <1>2, <1>4, Zenon DEF SocketsAccounted
<1> QED
  BY <1>2, <1>4, <1>5, <1>6, <1>7, <1>8, <1>9, <1>10, <1>11, Zenon DEF Good

LEMMA StopSetsKeeps ==
  ASSUME SocketsAccounted, IInv, races = {}, StopSets PROVE Good'
<1> USE DEF IInv
<1>1. Step("stop1", "stop2") /\ UNCHANGED rest /\ connect_' = FALSE /\ upc = "stop1"
  BY Zenon DEF StopSets, Step
<1>2. UNCHANGED <<state_, channel_, fd, socks, retries, wanted_, retry_, connection_,
                  conn, closeCallback_, clientAlive, removeTimer, uconn, unique,
                  userRef, stopped, functors, failed, races>>
  BY Zenon DEF StopSets, client
<1>3. functors \in Seq(Functors) /\ Len(functors) \in Nat
  BY DEF TypeInv
<1>4. /\ LoopInv' /\ upc' = "stop2" /\ next' \in {"none", "newConnection", "restart", "user"}
      /\ next' = "newConnection" <=> next = "newConnection"
      /\ next' = "restart" <=> next = "restart"
      /\ UNCHANGED <<phase, active, batch, nextFd, inLoop>>
  BY <1>1, <1>2, <1>3, StepRound
<1>5. TypeInv'
  <2>1. connect_' \in BOOLEAN
    BY <1>1, Zenon
  <2> QED
    BY <1>2, <1>4, <2>1 DEF TypeInv
<1>6. AttemptInv'
  BY <1>2, <1>4, Zenon DEF AttemptInv, Idle
<1>7. ResetInv' /\ ActiveInv'
  BY <1>1, <1>2, <1>4, Zenon DEF ResetInv, ActiveInv
<1>8. StopInv'
  BY <1>1, <1>2, <1>4, Zenon DEF StopInv
<1>9. DestroyInv'
  BY <1>1, <1>2, <1>4, Zenon DEF DestroyInv
<1>10. \A c \in Fds : ConnInv(c)'
  BY <1>1, <1>2, <1>4, ConnKept, Zenon DEF ClientGoing
<1>11. SocketsAccounted'
  BY <1>2, <1>4, Zenon DEF SocketsAccounted
<1> QED
  BY <1>2, <1>4, <1>5, <1>6, <1>7, <1>8, <1>9, <1>10, <1>11, Zenon DEF Good

LEMMA StopQueuesKeeps ==
  ASSUME SocketsAccounted, IInv, races = {}, StopQueues PROVE Good'
<1> USE DEF IInv
<1>1. /\ Step("stop2", "idle") /\ UNCHANGED rest /\ upc = "stop2" /\ stopped' \in BOOLEAN
      /\ functors' = Append(functors, Functor("stopInLoop", 0))
  BY Zenon DEF StopQueues, Step
<1>2. UNCHANGED <<connect_, state_, channel_, fd, socks, retries, wanted_, retry_, connection_,
                  conn, closeCallback_, clientAlive, removeTimer, uconn, unique,
                  userRef, failed, races>>
  BY Zenon DEF StopQueues, client, connector
<1>3. functors \in Seq(Functors) /\ Len(functors) \in Nat /\ Functor("stopInLoop", 0) \in Functors
  BY FunctorsAre DEF TypeInv, Raw
<1>4. /\ functors' \in Seq(Functors) /\ Len(functors') \in Nat /\ Len(functors') >= Len(functors)
      /\ Has(functors', "stopInLoop")
      /\ \A o : o # "stopInLoop" => (Has(functors', o) <=> Has(functors, o))
      /\ \A o, c : c # 0 => (HasFor(functors', o, c) <=> HasFor(functors, o, c))
      /\ \A c : c # 0 => (About(functors', c) <=> About(functors, c))
      /\ Once(functors', "resetChannel") /\ Once(functors', "startInLoop")
      /\ batch \in Nat /\ (Soon(functors, batch, "resetChannel") => Soon(functors', batch, "resetChannel"))
  BY <1>1, <1>3, QueueAppends DEF AttemptInv, TypeInv
<1>5. /\ LoopInv' /\ upc' = "idle" /\ next' \in {"none", "newConnection", "restart", "user"}
      /\ next' = "newConnection" <=> next = "newConnection"
      /\ next' = "restart" <=> next = "restart"
      /\ UNCHANGED <<phase, active, batch, nextFd, inLoop>>
  BY <1>1, <1>4, StepRound, Zenon
<1>6. TypeInv'
  BY <1>1, <1>2, <1>4, <1>5 DEF TypeInv
<1>7. AttemptInv'
  BY <1>2, <1>4, <1>5, Zenon DEF AttemptInv, Idle
<1>8. ResetInv' /\ ActiveInv'
  BY <1>2, <1>4, <1>5, Zenon DEF ResetInv, ActiveInv
<1>9. StopInv'
  BY <1>1, <1>2, <1>4, <1>5, Zenon DEF StopInv
<1>10. DestroyInv'
  BY <1>1, <1>2, <1>4, <1>5, Zenon DEF DestroyInv
<1>11. \A c \in Fds : ConnInv(c)'
  BY <1>1, <1>2, <1>4, <1>5, NoFdZero, ConnKept, Zenon DEF ClientGoing
<1>12. SocketsAccounted'
  BY <1>2, <1>5, Zenon DEF SocketsAccounted
<1> QED
  BY <1>2, <1>5, <1>6, <1>7, <1>8, <1>9, <1>10, <1>11, <1>12, Zenon DEF Good

LEMMA DisconnectShutsKeeps ==
  ASSUME SocketsAccounted, IInv, races = {}, DisconnectShuts PROVE Good'
<1> USE DEF IInv
<1>1. /\ Step("shutdown", "idle") /\ UNCHANGED rest /\ upc = "shutdown"
      /\ conn' = [c \in Fds |-> IF c = connection_ /\ conn[c] = "kConnected"
                                  THEN "kDisconnecting" ELSE conn[c]]
  BY Zenon DEF DisconnectShuts, Step
<1>2. UNCHANGED <<connect_, state_, channel_, fd, socks, retries, wanted_, retry_, connection_,
                  closeCallback_, clientAlive, removeTimer, uconn, unique,
                  userRef, stopped, functors, failed, races>>
  BY Zenon DEF DisconnectShuts, connector
<1>3. functors \in Seq(Functors) /\ Len(functors) \in Nat
  BY DEF TypeInv
<1>4. /\ LoopInv' /\ upc' = "idle" /\ next' \in {"none", "newConnection", "restart", "user"}
      /\ next' = "newConnection" <=> next = "newConnection"
      /\ next' = "restart" <=> next = "restart"
      /\ UNCHANGED <<phase, active, batch, nextFd, inLoop>>
  BY <1>1, <1>2, <1>3, StepRound
<1>5. /\ conn' \in [Fds -> {"none", "kConnected", "kDisconnecting", "kDisconnected", "destroyed"}]
      /\ \A c \in Fds : conn'[c] = conn[c] \/ (conn[c] = "kConnected" /\ conn'[c] = "kDisconnecting")
  BY <1>1, Zenon DEF TypeInv
<1>6. TypeInv'
  BY <1>2, <1>4, <1>5 DEF TypeInv
<1>7. AttemptInv'
  BY <1>2, <1>4, Zenon DEF AttemptInv, Idle
<1>8. ResetInv' /\ ActiveInv'
  BY <1>2, <1>4, <1>5, Zenon DEF ResetInv, ActiveInv, Open
<1>9. StopInv'
  BY <1>2, <1>4, Zenon DEF StopInv
<1>10. DestroyInv'
  BY <1>1, <1>2, <1>4, Zenon DEF DestroyInv
<1>11. ASSUME NEW c \in Fds PROVE ConnInv(c)'
  <2>1. CASE conn'[c] = conn[c]
    BY <1>1, <1>2, <1>4, <2>1, ConnKept, Zenon DEF ClientGoing
  <2>2. CASE conn[c] = "kConnected" /\ conn'[c] = "kDisconnecting"
    BY <1>1, <1>2, <1>4, <2>2, Zenon DEF ConnInv, Open, ClientGoing
  <2> QED
    BY <1>5, <2>1, <2>2, Zenon
<1>12. SocketsAccounted'
  BY <1>2, <1>4, Zenon DEF SocketsAccounted
<1> QED
  BY <1>2, <1>4, <1>6, <1>7, <1>8, <1>9, <1>10, <1>11, <1>12, Zenon DEF Good

\* The destructor copies connection_.
LEMMA DestroyReadsKeeps ==
  ASSUME SocketsAccounted, IInv, races = {}, DestroyReads PROVE Good'
<1> USE DEF IInv
<1>1. /\ Begin("destroy", "destroy1") /\ UNCHANGED rest /\ upc = "idle" /\ clientAlive
      /\ uconn' = connection_ /\ unique' \in BOOLEAN
  BY Zenon DEF DestroyReads, Begin, UserIsIdle
<1>2. UNCHANGED <<connect_, state_, channel_, fd, socks, retries, wanted_, retry_, connection_,
                  conn, closeCallback_, clientAlive, removeTimer,
                  userRef, stopped, functors, failed, races>>
  BY Zenon DEF DestroyReads, connector, client
<1>3. functors \in Seq(Functors) /\ Len(functors) \in Nat /\ uconn = 0
  BY <1>1 DEF TypeInv, DestroyInv
<1>4. /\ LoopInv' /\ upc' = "destroy1" /\ next' \in {"none", "newConnection", "restart", "user"}
      /\ next' = "newConnection" <=> next = "newConnection"
      /\ next' = "restart" <=> next = "restart"
      /\ UNCHANGED <<phase, active, batch, nextFd, inLoop>>
  BY <1>1, <1>2, <1>3, BeginRound
<1>5. TypeInv'
  BY <1>1, <1>2, <1>4 DEF TypeInv
<1>6. AttemptInv'
  BY <1>2, <1>4, Zenon DEF AttemptInv, Idle
<1>7. ResetInv' /\ ActiveInv'
  BY <1>2, <1>4, Zenon DEF ResetInv, ActiveInv
<1>8. StopInv'
  BY <1>2, <1>4, Zenon DEF StopInv
<1>9. DestroyInv'
  BY <1>1, <1>2, <1>4, Zenon DEF DestroyInv, AttemptInv
<1>10. ASSUME NEW c \in Fds PROVE ConnInv(c)'
  <2>1. ConnInv(c) /\ (Unreferenced(c) => Unreferenced(c)') /\ uconn # c
    BY <1>1, <1>2, <1>3, NoFdZero, Zenon DEF Unreferenced
  <2> QED
    BY <1>2, <1>4, <2>1, Zenon DEF ConnInv, ClientGoing
<1>11. SocketsAccounted'
  BY <1>2, <1>4, Zenon DEF SocketsAccounted
<1> QED
  BY <1>2, <1>4, <1>5, <1>6, <1>7, <1>8, <1>9, <1>10, <1>11, Zenon DEF Good

\* The destructor replaces the close callback, at once or with a functor, or
\* begins to stop the Connector.
LEMMA DestroyDetachesKeeps ==
  ASSUME SocketsAccounted, IInv, races = {}, DestroyDetaches PROVE Good'
<1> USE DEF IInv
<1>1. /\ Step("destroy1", "destroy2") /\ UNCHANGED rest /\ upc = "destroy1"
      /\ UNCHANGED <<state_, channel_, fd, socks, retries, failed, wanted_, retry_, connection_,
                     conn, clientAlive, removeTimer, uconn, unique, userRef, stopped, races>>
  BY Zenon DEF DestroyDetaches, Step
<1>2. \/ /\ uconn # 0 /\ closeCallback_' = [closeCallback_ EXCEPT ![uconn] = "detail"]
         /\ UNCHANGED <<connect_, functors>>
      \/ /\ uconn # 0 /\ functors' = Append(functors, Functor("setCloseCallback", uconn))
         /\ UNCHANGED <<connect_, closeCallback_>>
      \/ uconn = 0 /\ connect_' = FALSE /\ UNCHANGED <<functors, closeCallback_>>
  BY Zenon DEF DestroyDetaches
<1>3. /\ connect_' \in BOOLEAN /\ closeCallback_' \in [Fds -> {"client", "detail"}]
      /\ connect_' => connect_
  <2>1. closeCallback_' \in [Fds -> {"client", "detail"}]
    BY <1>2, Zenon DEF TypeInv
  <2>2. connect_' = connect_ \/ connect_' = FALSE
    BY <1>2, Zenon
  <2>3. connect_ \in BOOLEAN
    BY Zenon DEF TypeInv
  <2>4. connect_' \in BOOLEAN
    BY <2>2, <2>3, Zenon
  <2>5. connect_' => connect_
    BY <2>2, Zenon
  <2> QED
    BY <2>1, <2>4, <2>5, Zenon
<1>4. functors \in Seq(Functors) /\ Len(functors) \in Nat /\ batch \in Nat
  BY DEF TypeInv
<1>5. /\ functors' \in Seq(Functors) /\ Len(functors') \in Nat /\ Len(functors') >= Len(functors)
      /\ \A o : o # "setCloseCallback" => (Has(functors', o) <=> Has(functors, o))
      /\ \A o, c : o # "setCloseCallback" => (HasFor(functors', o, c) <=> HasFor(functors, o, c))
      /\ \A c \in Fds : About(functors', c) => About(functors, c) \/ c = uconn
      /\ Once(functors', "resetChannel") /\ Once(functors', "startInLoop")
      /\ Soon(functors, batch, "resetChannel") => Soon(functors', batch, "resetChannel")
  <2>1. CASE functors' = functors
    BY <1>4, <2>1 DEF AttemptInv
  <2>2. CASE uconn # 0 /\ functors' = Append(functors, Functor("setCloseCallback", uconn))
    <3>1. Functor("setCloseCallback", uconn) \in Functors
      BY <2>2, FunctorsAre, Zenon DEF TypeInv, ConnOps
    <3> QED
      BY <1>4, <2>2, <3>1, QueueAppends DEF AttemptInv
  <2> QED
    BY <1>2, <2>1, <2>2, Zenon
<1>6. /\ LoopInv' /\ upc' = "destroy2" /\ next' \in {"none", "newConnection", "restart", "user"}
      /\ next' = "newConnection" <=> next = "newConnection"
      /\ next' = "restart" <=> next = "restart"
      /\ UNCHANGED <<phase, active, batch, nextFd, inLoop>>
  BY <1>1, <1>5, StepRound, Zenon
<1>7. TypeInv'
  BY <1>1, <1>3, <1>5, <1>6 DEF TypeInv
<1>8. AttemptInv'
  BY <1>1, <1>5, <1>6, Zenon DEF AttemptInv, Idle
<1>9. ResetInv' /\ ActiveInv'
  BY <1>1, <1>3, <1>5, <1>6, Zenon DEF ResetInv, ActiveInv
<1>10. StopInv'
  BY <1>1, <1>3, <1>5, <1>6, Zenon DEF StopInv
<1>11. DestroyInv'
  BY <1>1, <1>2, <1>5, <1>6, Zenon DEF DestroyInv
<1>12. ASSUME NEW c \in Fds PROVE ConnInv(c)'
  <2>1. ConnInv(c) /\ (Unreferenced(c) => Unreferenced(c)')
    BY <1>1, <1>5, Zenon DEF Unreferenced
  <2> QED
    BY <1>1, <1>5, <1>6, <2>1, Zenon DEF ConnInv, ClientGoing
<1>13. SocketsAccounted'
  BY <1>1, <1>6, Zenon DEF SocketsAccounted
<1> QED
  BY <1>1, <1>6, <1>7, <1>8, <1>9, <1>10, <1>11, <1>12, <1>13, Zenon DEF Good

\* The destructor ends with a connection: forceClose(), or the user keeps it.
LEMMA DestroyEndsConn ==
  ASSUME SocketsAccounted, IInv, races = {}, DestroyEnds, uconn # 0 PROVE Good'
<1> USE DEF IInv
<1>1. /\ Step("destroy2", "gone") /\ UNCHANGED rest /\ upc = "destroy2" /\ ForceClose
      /\ races' = {} => /\ ~RawQueued(functors) /\ channel_ = "null"
                        /\ unique \/ ~Abandoned(uconn) \/ uconn \in userRef
      /\ clientAlive' = FALSE /\ connection_' = 0 /\ uconn' = 0
      /\ UNCHANGED <<connect_, state_, channel_, fd, socks, retries, failed, wanted_, retry_,
                     closeCallback_, removeTimer, unique, userRef, stopped>>
  BY Zenon DEF DestroyEnds, Step, connector
<1>2. /\ functors \in Seq(Functors) /\ Len(functors) \in Nat /\ uconn \in Fds /\ batch \in Nat
      /\ Functor("forceCloseInLoop", uconn) \in Functors
  BY FunctorsAre DEF TypeInv, ConnOps
<1>3. /\ functors' \in Seq(Functors) /\ Len(functors') \in Nat /\ Len(functors') >= Len(functors)
      /\ \A o : o # "forceCloseInLoop" => (Has(functors', o) <=> Has(functors, o))
      /\ \A o, c : c # uconn \/ o # "forceCloseInLoop" => (HasFor(functors', o, c) <=> HasFor(functors, o, c))
      /\ \A c : HasFor(functors, "forceCloseInLoop", c) => HasFor(functors', "forceCloseInLoop", c)
      /\ unique /\ conn[uconn] \in Open => HasFor(functors', "forceCloseInLoop", uconn)
      /\ \A c : About(functors', c) => About(functors, c) \/ c = uconn
      /\ Once(functors', "resetChannel") /\ Once(functors', "startInLoop")
      /\ Soon(functors, batch, "resetChannel") => Soon(functors', batch, "resetChannel")
  <2>1. CASE unique /\ conn[uconn] \in Open
    <3>1. functors' = Append(functors, Functor("forceCloseInLoop", uconn))
      BY <1>1, <2>1, Zenon DEF ForceClose
    <3> QED
      BY <1>2, <3>1, QueueAppends DEF AttemptInv
  <2>2. CASE ~(unique /\ conn[uconn] \in Open)
    BY <1>1, <1>2, <2>2 DEF ForceClose, AttemptInv
  <2> QED
    BY <2>1, <2>2, Zenon
<1>4. /\ LoopInv' /\ upc' = "gone" /\ next' \in {"none", "newConnection", "restart", "user"}
      /\ next' = "newConnection" <=> next = "newConnection"
      /\ next' = "restart" <=> next = "restart"
      /\ UNCHANGED <<phase, active, batch, nextFd, inLoop>>
  BY <1>1, <1>3, StepRound, Zenon
<1>5. SocketsAccounted'
  BY <1>1, <1>4, Zenon DEF SocketsAccounted
<1>6. /\ conn' \in [Fds -> {"none", "kConnected", "kDisconnecting", "kDisconnected", "destroyed"}]
      /\ \A c \in Fds : conn'[c] = conn[c] \/ (c = uconn /\ conn[c] \in Open /\ conn'[c] \in Open)
  BY <1>1, <1>2, Zenon DEF ForceClose, TypeInv, Open
<1>7. ASSUME races' = {} PROVE IInv'
  <2>1. /\ ~AnyRaw(functors) /\ channel_ = "null" /\ state_ = "kConnected"
        /\ unique \/ uconn \in userRef \/ conn[uconn] \notin Open \/ HasFor(functors, "forceCloseInLoop", uconn)
    BY <1>1, <1>2, <1>7, QueueWords, Zenon DEF Abandoned, DestroyInv
  <2>2. TypeInv'
    <3>1. clientAlive' \in BOOLEAN
      BY <1>1, Zenon
    <3> QED
      BY <1>1, <1>3, <1>4, <1>6, <3>1 DEF TypeInv
  <2>3. AttemptInv'
    BY <1>1, <1>3, <1>4, Zenon DEF AttemptInv, Idle
  <2>4. ResetInv' /\ ActiveInv'
    BY <1>1, <1>4, <1>6, <2>1, Zenon DEF ResetInv, ActiveInv
  <2>5. StopInv'
    BY <1>1, <1>3, <1>4, Zenon DEF StopInv
  <2>6. DestroyInv'
    BY <1>1, <1>3, <1>4, <2>1, Zenon DEF DestroyInv, AnyRaw
  <2>7. ASSUME NEW c \in Fds PROVE ConnInv(c)'
    <3>1. ConnInv(c) /\ (Unreferenced(c) => Unreferenced(c)')
      BY <1>1, <1>2, <1>3, NoFdZero, Zenon DEF Unreferenced
    <3>2. conn'[c] \in Open => c \in userRef \/ HasFor(functors', "forceCloseInLoop", c)
      <4>1. SUFFICES ASSUME conn'[c] \in Open, c \notin userRef, ~HasFor(functors, "forceCloseInLoop", c)
                     PROVE  HasFor(functors', "forceCloseInLoop", c)
        BY <1>3, Zenon
      <4>2. conn[c] \in Open /\ (connection_ = c \/ uconn = c)
        BY <1>6, <3>1, <4>1, Zenon DEF ConnInv
      <4>3. c = uconn
        BY <1>1, <4>2, NoFdZero, Zenon DEF DestroyInv
      <4> QED
        BY <1>3, <2>1, <4>1, <4>2, <4>3, Zenon
    <3>3. conn'[c] \in Open <=> conn[c] \in Open
      BY <1>6, Zenon
    <3>4. \A s \in {"none", "kDisconnected", "destroyed"} : conn'[c] = s <=> conn[c] = s
      BY <1>6, Zenon DEF Open
    <3> QED
      BY <1>1, <1>3, <3>1, <3>2, <3>3, <3>4, Zenon DEF ConnInv, ClientGoing
  <2> QED
    BY <1>1, <1>4, <2>2, <2>3, <2>4, <2>5, <2>6, <2>7, Zenon
<1> QED
  BY <1>5, <1>7, Zenon DEF Good

\* It ends without one: the Connector is stopped, and kept by a timer.
LEMMA DestroyEndsStop ==
  ASSUME SocketsAccounted, IInv, races = {}, DestroyEnds, uconn = 0 PROVE Good'
<1> USE DEF IInv
<1>1. /\ Step("destroy2", "gone") /\ UNCHANGED rest /\ upc = "destroy2" /\ StopAndHold
      /\ clientAlive' = FALSE /\ connection_' = 0 /\ uconn' = 0
      /\ UNCHANGED <<connect_, state_, channel_, fd, socks, retries, failed, wanted_, retry_,
                     closeCallback_, conn, unique, userRef, stopped, races>>
  BY Zenon DEF DestroyEnds, Step, connector
<1>2. /\ functors \in Seq(Functors) /\ Len(functors) \in Nat /\ batch \in Nat
      /\ connection_ = 0 /\ ~connect_
  BY <1>1 DEF TypeInv, DestroyInv
<1> DEFINE q == Append(functors, Functor("stopInLoop", 0))
<1>3. /\ Functor("stopInLoop", 0) \in Functors /\ Functor("addRemoveTimer", 0) \in Functors
      /\ Functor("stopInLoop", 0).op = "stopInLoop" /\ Functor("stopInLoop", 0).conn = 0
      /\ Functor("addRemoveTimer", 0).op = "addRemoveTimer" /\ Functor("addRemoveTimer", 0).conn = 0
  BY FunctorsAre, Zenon DEF Raw, Functor
<1>4. /\ q \in Seq(Functors) /\ Len(q) \in Nat /\ Len(q) >= Len(functors) /\ Has(q, "stopInLoop")
      /\ \A o : o # "stopInLoop" => (Has(q, o) <=> Has(functors, o))
      /\ \A o, c : c # 0 => (HasFor(q, o, c) <=> HasFor(functors, o, c))
      /\ \A c : c # 0 => (About(q, c) <=> About(functors, c))
      /\ Once(q, "resetChannel") /\ Once(q, "startInLoop")
      /\ Soon(functors, batch, "resetChannel") => Soon(q, batch, "resetChannel")
  BY <1>2, <1>3, Appended DEF AttemptInv
<1>5. \/ functors' = q /\ removeTimer' = TRUE
      \/ functors' = Append(q, Functor("addRemoveTimer", 0)) /\ removeTimer' = removeTimer
  BY <1>1, Zenon DEF StopAndHold
<1> HIDE DEF q
<1>6. /\ functors' \in Seq(Functors) /\ Len(functors') \in Nat /\ Len(functors') >= Len(functors)
      /\ Has(functors', "stopInLoop") /\ (removeTimer' \/ Has(functors', "addRemoveTimer"))
      /\ \A o : o \notin {"stopInLoop", "addRemoveTimer"} => (Has(functors', o) <=> Has(functors, o))
      /\ \A o, c : c # 0 => (HasFor(functors', o, c) <=> HasFor(functors, o, c))
      /\ \A c : c # 0 => (About(functors', c) <=> About(functors, c))
      /\ Once(functors', "resetChannel") /\ Once(functors', "startInLoop")
      /\ Soon(functors, batch, "resetChannel") => Soon(functors', batch, "resetChannel")
  <2>1. CASE functors' = q /\ removeTimer' = TRUE
    BY <1>4, <2>1, Zenon
  <2>2. CASE functors' = Append(q, Functor("addRemoveTimer", 0))
    BY <1>2, <1>3, <1>4, <2>2, Appended
  <2> QED
    BY <1>5, <2>1, <2>2, Zenon
<1>7. /\ LoopInv' /\ upc' = "gone" /\ next' \in {"none", "newConnection", "restart", "user"}
      /\ next' = "newConnection" <=> next = "newConnection"
      /\ next' = "restart" <=> next = "restart"
      /\ UNCHANGED <<phase, active, batch, nextFd, inLoop>>
  BY <1>1, <1>6, StepRound, Zenon
<1>8. TypeInv'
  <2>1. clientAlive' \in BOOLEAN /\ removeTimer' \in BOOLEAN
    BY <1>1, <1>5, Zenon DEF TypeInv
  <2> QED
    BY <1>1, <1>6, <1>7, <2>1 DEF TypeInv
<1>9. AttemptInv'
  BY <1>1, <1>6, <1>7, Zenon DEF AttemptInv, Idle
<1>10. ResetInv' /\ ActiveInv'
  BY <1>1, <1>2, <1>6, <1>7, Zenon DEF ResetInv, ActiveInv
<1>11. StopInv'
  BY <1>1, <1>2, <1>6, <1>7, Zenon DEF StopInv
<1>12. DestroyInv'
  BY <1>1, <1>2, <1>6, <1>7, Zenon DEF DestroyInv
<1>13. ASSUME NEW c \in Fds PROVE ConnInv(c)'
  <2>1. ConnInv(c) /\ (Unreferenced(c) => Unreferenced(c)') /\ connection_ # c
    BY <1>1, <1>2, <1>6, NoFdZero, Zenon DEF Unreferenced
  <2>2. \A o : HasFor(functors', o, c) <=> HasFor(functors, o, c)
    BY <1>6, NoFdZero, Zenon
  <2> QED
    BY <1>1, <2>1, <2>2, NoFdZero, Zenon DEF ConnInv, ClientGoing
<1>14. SocketsAccounted'
  BY <1>1, <1>7, Zenon DEF SocketsAccounted
<1> QED
  BY <1>1, <1>7, <1>8, <1>9, <1>10, <1>11, <1>12, <1>13, <1>14, Zenon DEF Good

LEMMA UserDropsKeeps ==
  ASSUME SocketsAccounted, IInv, races = {}, NEW c \in Fds, UserDrops(c) PROVE Good'
<1> USE DEF IInv
<1>1. /\ userRef' = userRef \ {c}
      /\ races' = {} => ~Abandoned(c) \/ connection_ = c \/ uconn = c
      /\ UNCHANGED <<connect_, state_, channel_, fd, socks, retries, functors, failed, wanted_,
                     retry_, connection_, conn, closeCallback_, clientAlive, removeTimer, phase,
                     active, batch, next, nextFd, inLoop, upc, uconn, unique, stopped>>
  BY Zenon DEF UserDrops, RaceIf, connector, client, loopvars
<1>2. SocketsAccounted'
  BY <1>1, Zenon DEF SocketsAccounted
<1>3. ASSUME races' = {} PROVE IInv'
  <2>1. TypeInv' /\ LoopInv'
    BY <1>1 DEF TypeInv, LoopInv
  <2>2. AttemptInv'
    BY <1>1, Zenon DEF AttemptInv, Idle
  <2>3. ResetInv' /\ ActiveInv'
    BY <1>1, Zenon DEF ResetInv, ActiveInv
  <2>4. StopInv' /\ DestroyInv'
    BY <1>1, Zenon DEF StopInv, DestroyInv
  <2>5. ASSUME NEW d \in Fds PROVE ConnInv(d)'
    <3>1. CASE d # c
      BY <1>1, <3>1, ConnKept, Zenon DEF ClientGoing
    <3>2. CASE d = c
      <4>1. ConnInv(c) /\ (Unreferenced(c) => Unreferenced(c)')
        BY <1>1, Zenon DEF Unreferenced
      <4>2. conn[c] \in Open => connection_ = c \/ uconn = c \/ HasFor(functors, "forceCloseInLoop", c)
        BY <1>1, <1>3, QueueWords, Zenon DEF Abandoned, TypeInv
      <4> QED
        BY <1>1, <3>2, <4>1, <4>2, Zenon DEF ConnInv, ClientGoing
    <3> QED
      BY <3>1, <3>2, Zenon
  <2> QED
    BY <1>1, <2>1, <2>2, <2>3, <2>4, <2>5, Zenon
<1> QED
  BY <1>2, <1>3, Zenon DEF Good

-----------------------------------------------------------------------------
(* The theorems.                                                           *)

LEMMA InitGood == Init => Good
<1> SUFFICES ASSUME Init PROVE Good
  OBVIOUS
<1> USE DEF Init, ConnectorInit
<1>1. /\ functors = <<>> /\ Len(functors) = 0 /\ functors \in Seq(Functors)
      /\ \A op : ~Has(functors, op) /\ Once(functors, op)
      /\ \A op, c : ~HasFor(functors, op, c) /\ ~About(functors, c)
  BY DEF Has, HasFor, About, Once
<1>2. inLoop \in BOOLEAN /\ retry_ \in BOOLEAN
  BY ClientAssumption, Zenon
<1>3. TypeInv
  BY <1>1, <1>2, Zenon DEF TypeInv
<1>4. LoopInv /\ Idle
  BY Zenon DEF LoopInv, Idle
<1>5. AttemptInv /\ ResetInv /\ ActiveInv
  BY <1>1 DEF AttemptInv, ResetInv, ActiveInv
<1>6. StopInv /\ DestroyInv
  BY <1>1, Zenon DEF StopInv, DestroyInv, AnyRaw
<1>7. \A c \in Fds : ConnInv(c)
  BY <1>1, NoFdZero, Zenon DEF ConnInv, Unreferenced, Open
<1> QED
  BY <1>3, <1>4, <1>5, <1>6, <1>7, Zenon DEF Good, IInv, SocketsAccounted

\* Nothing happens after the first race, and until then every step keeps IInv.
LEMMA NextGood == Good /\ [Next]_vars => Good'
<1> SUFFICES ASSUME Good, [Next]_vars PROVE Good'
  OBVIOUS
<1>1. CASE UNCHANGED vars
  <2>1. UNCHANGED <<connect_, state_, channel_, fd, socks, retries, functors, failed, wanted_,
                    retry_, connection_, conn, closeCallback_, clientAlive, removeTimer, phase,
                    active, batch, next, nextFd, inLoop, upc, uconn, unique, userRef, stopped, races>>
    BY <1>1, Zenon DEF vars, connector, client, loopvars, user
  <2>2. SocketsAccounted'
    BY <2>1, Zenon DEF Good, SocketsAccounted
  <2>3. ASSUME races = {} PROVE IInv'
    <3> IInv
      BY <2>3, Zenon DEF Good
    <3> USE DEF IInv
    <3>1. TypeInv' /\ LoopInv'
      BY <2>1 DEF TypeInv, LoopInv
    <3>2. AttemptInv' /\ ResetInv' /\ ActiveInv'
      BY <2>1, Zenon DEF AttemptInv, ResetInv, ActiveInv, Idle
    <3>3. StopInv' /\ DestroyInv'
      BY <2>1, Zenon DEF StopInv, DestroyInv
    <3>4. \A c \in Fds : ConnInv(c)'
      BY <2>1, ConnKept, Zenon DEF ClientGoing
    <3> QED
      BY <2>1, <3>1, <3>2, <3>3, <3>4, Zenon
  <2> QED
    BY <2>1, <2>2, <2>3, Zenon DEF Good
<1>2. CASE Next
  <2>1. races = {}
    BY <1>2, Zenon DEF Next, LoopSteps, UserSteps, Poll, HandleConnector, NewConnection, RetryTimer,
       RemoveConnectorTimer, ConnectionCloses, Restart, EndHandling, EndFunctors, RunFunctor,
       ConnectBegins, CallOff, DestroyReads, StartSets, StartRuns, StopSets, StopQueues,
       DisconnectShuts, DestroyDetaches, DestroyEnds, UserDrops, Begin, Step, Handling, Running
  <2>2. SocketsAccounted /\ IInv
    BY <2>1, Zenon DEF Good
  <2>3. ASSUME NEW ready \in SUBSET Sources, Poll(ready) PROVE Good'
    BY <2>1, <2>2, <2>3, PollKeeps, Zenon
  <2>4. CASE LoopSteps
    <3>1. CASE HandleConnector \/ NewConnection \/ RetryTimer \/ RemoveConnectorTimer
      BY <2>1, <2>2, <3>1, HandleConnectorKeeps, NewConnectionKeeps, RetryTimerKeeps,
         RemoveConnectorTimerKeeps, Zenon
    <3>2. ASSUME NEW c \in Fds, ConnectionCloses(c) PROVE Good'
      BY <2>1, <2>2, <3>2, ConnectionClosesKeeps, Zenon
    <3>3. CASE Restart \/ EndHandling \/ EndFunctors \/ RunFunctor
      BY <2>1, <2>2, <3>3, RestartKeeps, EndHandlingKeeps, EndFunctorsKeeps, RunFunctorKeeps, Zenon
    <3> QED
      BY <2>4, <3>1, <3>2, <3>3, Zenon DEF LoopSteps
  <2>5. CASE ConnectBegins \/ CallOff \/ DestroyReads
    BY <2>1, <2>2, <2>5, ConnectBeginsKeeps, CallOffKeeps, DestroyReadsKeeps, Zenon
  <2>6. CASE UserSteps
    <3>1. CASE StartSets \/ StartRuns \/ StopSets \/ StopQueues
      BY <2>1, <2>2, <3>1, StartSetsKeeps, StartRunsKeeps, StopSetsKeeps, StopQueuesKeeps, Zenon
    <3>2. CASE DisconnectShuts \/ DestroyDetaches
      BY <2>1, <2>2, <3>2, DisconnectShutsKeeps, DestroyDetachesKeeps, Zenon
    <3>3. CASE DestroyEnds
      BY <2>1, <2>2, <3>3, DestroyEndsConn, DestroyEndsStop, Zenon
    <3> QED
      BY <2>6, <3>1, <3>2, <3>3, Zenon DEF UserSteps
  <2>7. ASSUME NEW c \in Fds, UserDrops(c) PROVE Good'
    BY <2>1, <2>2, <2>7, UserDropsKeeps, Zenon
  <2> QED
    BY <1>2, <2>3, <2>4, <2>5, <2>6, <2>7, Zenon DEF Next
<1> QED
  BY <1>1, <1>2, Zenon

LEMMA AlwaysGood == Spec => []Good
  BY InitGood, NextGood, PTL DEF Spec

\* SocketsAccounted, for any descriptors, calls and failures: a socket that
\* connect() created is channel_'s or on its way to newConnection() until it is
\* closed or a TcpConnection's, in the step of a race as well.
THEOREM SocketsNeverLeak == Spec => []SocketsAccounted
<1>1. Good => SocketsAccounted
  BY Zenon DEF Good
<1> QED
  BY <1>1, AlwaysGood, PTL

\* NoDangling, for any descriptors, calls and failures: until one of the races the
\* assertions of Connector.cc and TcpClient.cc hold, and the functors, the channel
\* and the close callbacks the loop has refer to live objects.
THEOREM NothingDangles == Spec => []NoDangling
<1>1. Good => NoDangling
  <2> SUFFICES ASSUME IInv PROVE NoDangling
    BY Zenon DEF Good, NoDangling
  <2> USE DEF IInv
  <2>1. functors \in Seq(Functors) /\ retries \in Nat
    BY Zenon DEF TypeInv
  <2>2. RawQueued(functors) \/ channel_ # "null" => ConnectorAlive
    BY <2>1, QueueWords, Zenon DEF DestroyInv, ConnectorAlive
  <2>3. ASSUME NEW c \in Fds, conn[c] \in Open \cup {"kDisconnected"} PROVE Held(c)
    <3>1. HasFor(functors, "connectDestroyed", c) \/ HasFor(functors, "forceCloseInLoop", c)
            => About(functors, c)
      BY Zenon DEF HasFor, About
    <3> QED
      BY <2>1, <2>3, <3>1, QueueWords, Zenon DEF ConnInv, Held
  <2> QED
    BY <2>2, <2>3, Zenon DEF NoDangling, ConnInv
<1> QED
  BY <1>1, AlwaysGood, PTL

\* StopIsFinal, for any descriptors, calls and failures: once stop() has returned
\* and stopInLoop() has run, the Connector is not connecting and does not begin to.
THEOREM StopStaysFinal == Spec => []StopIsFinal
<1>1. Good => StopIsFinal
  BY QueueWords, Zenon DEF Good, IInv, TypeInv, StopInv, StopIsFinal
<1> QED
  BY <1>1, AlwaysGood, PTL

-----------------------------------------------------------------------------
(* An attempt is not forgotten, whatever the scheduling: the part of       *)
(* Connects that needs no fairness.                                        *)

Trying ==
  channel_ = "added" \/ retries > 0 \/ upc = "start2" \/ Has(functors, "startInLoop")

\* While the Connector is to connect and has not, and the last attempt did not end in an
\* error that is not retried, the next step towards a connection is prepared: a socket is
\* connecting, a timer of retry() is set, or startInLoop() is queued or about to be called.
AttemptUnderway == Running /\ connect_ /\ state_ # "kConnected" /\ ~gaveUp => Trying

\* startInLoop() of a Connector that is to connect.
LEMMA StartTries ==
  ASSUME NEW st, NEW want, NEW timers \in Nat, NEW free, want,
         StartInLoop(st, want, timers, free), failed' = "none", ~gaveUp'
  PROVE  channel_' = "added" \/ retries' > 0
<1>1. st = "kDisconnected"
  BY Zenon DEF StartInLoop, Assert
<1>2. PICK sockfd : \/ Connecting(sockfd)
                    \/ Retry(sockfd, want, timers)
  BY <1>1, Zenon DEF StartInLoop, Connect
<1>3. CASE Connecting(sockfd)
  BY <1>3, Zenon DEF Connecting
<1>4. CASE Retry(sockfd, want, timers)
  BY <1>4 DEF Retry
<1> QED
  BY <1>2, <1>3, <1>4, Zenon

\* A queue that only grows.
Grows(q) ==
  \/ functors' = q
  \/ \E f \in Functors : functors' = Append(q, f)
  \/ \E f, g \in Functors : functors' = Append(Append(q, f), g)

LEMMA GrowsKeeps ==
  ASSUME NEW q \in Seq(Functors), Grows(q), NEW op, Has(q, op) PROVE Has(functors', op)
<1>1. \A f \in Functors : Append(q, f) \in Seq(Functors) /\ Has(Append(q, f), op)
  BY Appended, Zenon
<1>2. \A f, g \in Functors : Has(Append(Append(q, f), g), op)
  BY <1>1, Appended, Zenon
<1> QED
  BY <1>1, <1>2, Zenon DEF Grows

\* A step that takes nothing from the attempt.
LEMMA StillTrying ==
  ASSUME IInv, AttemptUnderway, Running, Grows(functors),
         connect_' = connect_ \/ connect_' = FALSE, UNCHANGED <<state_, channel_, retries, gaveUp>>,
         upc = "start2" => upc' = "start2"
  PROVE  AttemptUnderway'
<1>1. Has(functors, "startInLoop") => Has(functors', "startInLoop")
  BY GrowsKeeps, Zenon DEF IInv, TypeInv
<1>2. connect_' => connect_
  BY Zenon
<1> QED
  BY <1>1, <1>2, Zenon DEF AttemptUnderway, Trying

\* The loop's steps that leave the Connector alone.
LEMMA LoopQuiet ==
  ASSUME IInv, AttemptUnderway,
         \/ \E ready \in SUBSET Sources : Poll(ready)
         \/ NewConnection \/ RemoveConnectorTimer \/ EndHandling \/ EndFunctors
         \/ \E c \in Fds : ConnectionCloses(c)
  PROVE  AttemptUnderway'
<1>1. Running /\ UNCHANGED <<connect_, state_, channel_, retries, gaveUp, upc>>
  BY Zenon DEF Poll, NewConnection, RemoveConnectorTimer, EndHandling, EndFunctors, ConnectionCloses,
     Handling, connector, user
<1>2. Grows(functors)
  <2>1. ASSUME NEW c \in Fds, ConnectionCloses(c) PROVE Grows(functors)
    <3>1. functors' = Append(functors, Functor("connectDestroyed", c))
      BY <2>1, Zenon DEF ConnectionCloses, HandleClose, RemoveConnection
    <3> QED
      BY <3>1, FunctorsAre, Zenon DEF Grows, ConnOps
  <2>2. CASE functors' = functors
    BY <2>2, Zenon DEF Grows
  <2> QED
    BY <2>1, <2>2, Zenon DEF Poll, NewConnection, RemoveConnectorTimer, EndHandling, EndFunctors
<1> QED
  BY <1>1, <1>2, StillTrying, Zenon

\* The user's steps that leave the Connector alone, or call it off.
LEMMA UserQuiet ==
  ASSUME IInv, AttemptUnderway,
         \/ ConnectBegins \/ CallOff \/ DestroyReads \/ StopSets \/ StopQueues
         \/ DisconnectShuts \/ DestroyDetaches \/ DestroyEnds
         \/ \E c \in Fds : UserDrops(c)
  PROVE  AttemptUnderway'
<1>1. /\ Running /\ UNCHANGED <<state_, channel_, retries, gaveUp>>
      /\ connect_' = connect_ \/ connect_' = FALSE
  BY Zenon DEF ConnectBegins, CallOff, DestroyReads, StopSets, StopQueues, DisconnectShuts,
     DestroyDetaches, DestroyEnds, UserDrops, Begin, Step, connector
<1>2. upc = "start2" => upc' = "start2"
  BY Zenon DEF ConnectBegins, CallOff, DestroyReads, StopSets, StopQueues, DisconnectShuts,
     DestroyDetaches, DestroyEnds, UserDrops, Begin, Step, UserIsIdle
<1>3. Grows(functors)
  <2>1. CASE functors' = functors
    BY <2>1, Zenon DEF Grows
  <2>2. CASE StopQueues
    BY <2>2, FunctorsAre, Zenon DEF StopQueues, Grows, Raw
  <2>3. CASE DestroyDetaches
    <3>1. uconn \in Fds \cup {0}
      BY Zenon DEF IInv, TypeInv
    <3> QED
      BY <2>3, <3>1, FunctorsAre, Zenon DEF DestroyDetaches, Grows, ConnOps
  <2>4. CASE DestroyEnds
    <3>1. uconn \in Fds \cup {0}
      BY Zenon DEF IInv, TypeInv
    <3>2. CASE uconn # 0 /\ ForceClose
      BY <3>1, <3>2, FunctorsAre, Zenon DEF ForceClose, Grows, ConnOps
    <3>3. CASE StopAndHold
      BY <3>3, FunctorsAre, Zenon DEF StopAndHold, Grows, Raw
    <3> QED
      BY <2>4, <3>2, <3>3, Zenon DEF DestroyEnds
  <2> QED
    BY <2>1, <2>2, <2>3, <2>4, Zenon DEF ConnectBegins, CallOff, DestroyReads, StopSets,
       DisconnectShuts, UserDrops
<1> QED
  BY <1>1, <1>2, <1>3, StillTrying, Zenon

\* The loop ends an attempt, or begins one.
LEMMA LoopTries ==
  ASSUME IInv, AttemptUnderway, HandleConnector \/ RetryTimer \/ Restart PROVE AttemptUnderway'
<1> SUFFICES ASSUME Running', connect_', state_' # "kConnected", ~gaveUp' PROVE Trying'
  BY Zenon DEF AttemptUnderway
<1>1. failed' = "none" /\ retries \in Nat
  BY Zenon DEF Running, IInv, TypeInv
<1>2. CASE HandleConnector
  <2>1. HandleFailure /\ connect_
    BY <1>2, Zenon DEF HandleConnector, HandleWrite
  <2>2. retries' = retries + 1
    BY <2>1, Zenon DEF HandleFailure, Retry
  <2> QED
    BY <1>1, <2>2 DEF Trying
<1>3. CASE RetryTimer
  <2>1. <<"retry", 0>> \in active /\ connect_ /\ StartInLoop(state_, connect_, retries - 1, Free)
    BY <1>3, Zenon DEF RetryTimer, Handling
  <2>2. retries = 1
    BY <2>1, Zenon DEF IInv, ActiveInv
  <2>3. retries - 1 \in Nat
    BY <2>2
  <2> QED
    BY <1>1, <2>1, <2>3, StartTries, Zenon DEF Trying
<1>4. CASE Restart
  BY <1>1, <1>4, StartTries, Zenon DEF Restart, Trying
<1> QED
  BY <1>2, <1>3, <1>4, Zenon

\* connect() of the user.
LEMMA UserTries ==
  ASSUME IInv, AttemptUnderway, StartSets \/ StartRuns PROVE AttemptUnderway'
<1> SUFFICES ASSUME Running', connect_', ~gaveUp' PROVE Trying'
  BY Zenon DEF AttemptUnderway
<1>1. failed' = "none" /\ retries \in Nat /\ functors \in Seq(Functors)
  BY Zenon DEF Running, IInv, TypeInv
<1>2. CASE StartSets
  BY <1>2, Zenon DEF StartSets, Step, Trying
<1>3. CASE StartRuns
  <2>1. connect_ /\ connect_' = connect_
    BY <1>3, Zenon DEF StartRuns
  <2>2. CASE StartInLoop(state_, connect_, retries, Free)
    BY <1>1, <2>1, <2>2, StartTries, Zenon DEF Trying
  <2>3. CASE functors' = Append(functors, Functor("startInLoop", 0))
    BY <1>1, <2>3, FunctorsAre, QueueAppends, Zenon DEF Trying, Raw
  <2> QED
    BY <1>3, <2>2, <2>3, Zenon DEF StartRuns
<1> QED
  BY <1>2, <1>3, Zenon

\* doPendingFunctors().
LEMMA FunctorTries ==
  ASSUME IInv, AttemptUnderway, RunFunctor PROVE AttemptUnderway'
<1> DEFINE f == Head(functors)
           q == Tail(functors)
<1>1. Taking(f, q) /\ Running
  BY RunTakes, Zenon DEF RunFunctor
<1>2. \/ RunStart(f, q) \/ RunStop(f, q) \/ RunReset(f, q) \/ RunConnectDestroyed(f, q)
      \/ RunSetCloseCallback(f, q) \/ RunForceClose(f, q) \/ RunAddRemoveTimer(f, q)
  BY Zenon DEF RunFunctor
<1> HIDE DEF f, q
<1>3. f \in Functors /\ q \in Seq(Functors) /\ upc' = upc /\ retries \in Nat
  BY <1>1, Zenon DEF Taking, IInv, TypeInv
<1>4. CASE RunStart(f, q)
  <2> SUFFICES ASSUME Running', connect_', ~gaveUp' PROVE Trying'
    BY Zenon DEF AttemptUnderway
  <2>1. connect_ /\ failed' = "none" /\ StartInLoop(state_, connect_, retries, Free)
    BY <1>4, Zenon DEF RunStart, Running
  <2> QED
    BY <1>3, <2>1, StartTries, Zenon DEF Trying
<1>5. ASSUME f.op # "startInLoop", Grows(q), UNCHANGED <<connect_, state_, retries, gaveUp>>,
             channel_ = "added" => channel_' = "added"
      PROVE  AttemptUnderway'
  <2>1. Has(functors, "startInLoop") => Has(functors', "startInLoop")
    BY <1>1, <1>3, <1>5, GrowsKeeps, Zenon DEF Taking
  <2> QED
    BY <1>1, <1>3, <1>5, <2>1, Zenon DEF AttemptUnderway, Trying
<1>6. CASE RunStop(f, q)
  <2>1. CASE state_ = "kConnecting" /\ Retry(fd, connect_, retries)
    <3>1. connect_' = connect_ /\ (connect_ => retries' = retries + 1)
      BY <1>6, <2>1, Zenon DEF RunStop, Retry
    <3>2. connect_' => retries' > 0
      BY <1>3, <3>1
    <3> QED
      BY <3>2, Zenon DEF AttemptUnderway, Trying
  <2>2. CASE functors' = q /\ UNCHANGED <<state_, channel_, fd, socks, retries>>
    BY <1>5, <1>6, <2>2, Zenon DEF RunStop, Grows
  <2> QED
    BY <1>6, <2>1, <2>2, Zenon DEF RunStop, StopInLoop
<1>7. CASE RunReset(f, q)
  <2>1. channel_ = "removed"
    BY <1>1, <1>7, Zenon DEF RunReset, Taking, IInv, AttemptInv
  <2> QED
    BY <1>5, <1>7, <2>1, Zenon DEF RunReset, ResetChannel, Grows
<1>8. CASE RunConnectDestroyed(f, q) \/ RunSetCloseCallback(f, q) \/ RunAddRemoveTimer(f, q)
  BY <1>5, <1>8, Zenon DEF RunConnectDestroyed, RunSetCloseCallback, RunAddRemoveTimer, connector, Grows
<1>9. CASE RunForceClose(f, q)
  <2>1. f.conn \in Fds
    BY <1>3, <1>9, Zenon DEF RunForceClose, Functors, ConnOps
  <2>2. functors' = q \/ functors' = Append(q, Functor("connectDestroyed", f.conn))
    BY <1>9, Zenon DEF RunForceClose, HandleClose, RemoveConnection
  <2>3. Grows(q)
    BY <2>1, <2>2, FunctorsAre, Zenon DEF Grows, ConnOps
  <2> QED
    BY <1>5, <1>9, <2>3, Zenon DEF RunForceClose, connector
<1> QED
  BY <1>2, <1>4, <1>6, <1>7, <1>8, <1>9, Zenon

\* connect() and retry() are never forgotten, for any descriptors, calls and failures:
\* until one of the races, a Connector that is to connect has its next step prepared,
\* through failed attempts, retries, restarts and calls to stop() in between.
THEOREM AttemptNotForgotten == Spec => []AttemptUnderway
<1>1. Init => AttemptUnderway
  BY Zenon DEF Init, ConnectorInit, AttemptUnderway
<1>2. Good /\ AttemptUnderway /\ [Next]_vars => AttemptUnderway'
  <2> SUFFICES ASSUME Good, AttemptUnderway, [Next]_vars PROVE AttemptUnderway'
    OBVIOUS
  <2>1. CASE UNCHANGED vars
    BY <2>1, Zenon DEF vars, connector, user, AttemptUnderway, Trying, Running
  <2>2. CASE Next
    <3>1. races = {}
      BY <2>2, Zenon DEF Next, LoopSteps, UserSteps, Poll, HandleConnector, NewConnection, RetryTimer,
         RemoveConnectorTimer, ConnectionCloses, Restart, EndHandling, EndFunctors, RunFunctor,
         ConnectBegins, CallOff, DestroyReads, StartSets, StartRuns, StopSets, StopQueues,
         DisconnectShuts, DestroyDetaches, DestroyEnds, UserDrops, Begin, Step, Handling, Running
    <3>2. IInv
      BY <3>1, Zenon DEF Good
    <3>3. CASE LoopSteps
      BY <3>2, <3>3, LoopQuiet, LoopTries, FunctorTries, Zenon DEF LoopSteps
    <3>4. CASE UserSteps
      BY <3>2, <3>4, UserQuiet, UserTries, Zenon DEF UserSteps
    <3> QED
      BY <2>2, <3>2, <3>3, <3>4, LoopQuiet, UserQuiet, Zenon DEF Next
  <2> QED
    BY <2>1, <2>2, Zenon
<1> QED
  BY <1>1, <1>2, AlwaysGood, PTL DEF Spec
==============================================================================
