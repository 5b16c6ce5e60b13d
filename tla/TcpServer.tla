------------------------------ MODULE TcpServer ------------------------------
(***************************************************************************)
(* muduo::net::TcpServer (muduo/net/TcpServer.cc) with its Acceptor, its   *)
(* EventLoopThreadPool and the loops of both: loop 0 is the server's own,  *)
(* loops 1 .. numThreads_ those of the pool.  A TcpConnection is its       *)
(* state_, its channel and its loop; module TcpConnection has the rest.    *)
(* It lives as long as a shared_ptr to it does, which Alive computes, and  *)
(* has its descriptor open as long as it lives.                            *)
(***************************************************************************)
EXTENDS Acceptor, Sequences, FiniteSets

CONSTANT MaxThreads    \* bound on numThreads_

ASSUME ServerAssumption == MaxThreads \in Nat

VARIABLES
  numThreads_, next_,   \* EventLoopThreadPool
  nextConnId_,
  connections_,         \* names, that is, numbers, of connections
  conn,                 \* the connections, by number
  functors,             \* pendingFunctors_ of every loop
  batch, phase, quit,   \* the pool's loops: functors swapped out, where they are, quit_
  server,               \* "idle", "started", then the steps of the destructor
  races                 \* history: which of Races happened

pool == <<numThreads_, next_>>
loopvars == <<batch, phase, quit>>
vars == <<acceptor, pool, nextConnId_, connections_, conn, functors, loopvars, server, races>>

\* The uses the code does not protect itself against; the model follows a
\* behaviour up to the first of them.
\*   unsafe:  a connection was closing in its loop when the server was destroyed,
\*            and removeConnectionInLoop() is then called on it ("FIXME: unsafe");
\*   dropped: ~TcpServer() queued connectDestroyed() after the loop had swapped
\*            its functors out, or before its first round, and quit() stopped that
\*            loop before the next round;
\*   erased:  the pool's destructor called quit() before the loop, which start()
\*            does not wait for, stored quit_ = false: join() never returns.
Races == {"unsafe", "dropped", "erased"}
Running == races = {}

Conns == 1 .. MaxClients
Loops == 0 .. MaxThreads
PoolLoops == 1 .. MaxThreads
NoConn == [state |-> "none", chan |-> "new", loop |-> 0]
Functor(op, c) == [op |-> op, conn |-> c]

Init ==
  /\ AcceptorInit
  /\ numThreads_ \in 0 .. MaxThreads /\ next_ = 0 /\ nextConnId_ = 1 /\ connections_ = {}
  /\ conn = [c \in Conns |-> NoConn]
  /\ functors = [l \in Loops |-> <<>>]
  /\ batch = [l \in PoolLoops |-> 0] /\ phase = [l \in PoolLoops |-> "ended"] /\ quit = {}
  /\ server = "idle" /\ races = {}

Queued(c) == \E l \in Loops : \E i \in DOMAIN functors[l] : functors[l][i].conn = c
Alive(c) == c \in connections_ \/ Queued(c)
Live == Cardinality({c \in Conns : Alive(c)})

Queue(l, f) == functors' = [functors EXCEPT ![l] = Append(@, f)]
SetConn(c, state, chan) == conn' = [conn EXCEPT ![c].state = state, ![c].chan = chan]

-----------------------------------------------------------------------------
(* The server's loop.  It is busy while the Acceptor's handler or the      *)
(* destructor of the server runs.                                          *)

BaseIdle == Running /\ step = "none" /\ server \in {"idle", "started", "gone"}

\* start(): the pool's loops exist when it returns, for startLoop() waits for
\* loop_, but need not have entered loop(); and listen() was called.  A second
\* call does nothing.
Start ==
  /\ BaseIdle /\ server = "idle"
  /\ server' = "started"
  /\ phase' = [l \in PoolLoops |-> IF l <= numThreads_ THEN "starting" ELSE "ended"]
  /\ Listen
  /\ UNCHANGED <<pool, nextConnId_, connections_, conn, functors, batch, quit, races>>

\* getNextLoop(): the loop and the new value of next_.
AfterNext == IF next_ + 1 >= numThreads_ THEN 0 ELSE next_ + 1
NextLoop == IF numThreads_ = 0 THEN 0 ELSE next_ + 1

\* newConnection(): connectEstablished() is run in the connection's loop, at once
\* if that is the server's.
NewConnection ==
  LET c == nextConnId_
      l == NextLoop
  IN  /\ nextConnId_' = nextConnId_ + 1
      /\ next_' = AfterNext
      /\ connections_' = connections_ \cup {c}
      /\ IF l = 0
         THEN /\ conn' = [conn EXCEPT ![c] = [state |-> "kConnected", chan |-> "added", loop |-> 0]]
              /\ UNCHANGED functors
         ELSE /\ conn' = [conn EXCEPT ![c] = [state |-> "kConnecting", chan |-> "new", loop |-> l]]
              /\ Queue(l, Functor("connectEstablished", c))

HandleAccept ==
  /\ Running /\ Accept(Live) /\ NewConnection
  /\ UNCHANGED <<numThreads_, loopvars, server, races>>

\* The part of handleRead() for EMFILE.
RefuseClient ==
  /\ Running
  /\ CloseIdleFd \/ AcceptIdleFd(Live) \/ CloseRefused \/ ReopenIdleFd(Live)

AcceptorStep ==
  /\ \/ BaseIdle /\ AcceptReadable
     \/ Running /\ AcceptFails(Live)
     \/ RefuseClient
  /\ UNCHANGED <<pool, nextConnId_, connections_, conn, functors, loopvars, server, races>>

RemoveConnectionInLoop_NoDestroy(c, q) ==
  connections_' = connections_ \ {c} /\ functors' = q

\* removeConnectionInLoop(), where q are the queues without the running functor.
RemoveConnectionInLoop(c, q) ==
  /\ connections_' = connections_ \ {c}
  /\ functors' = [q EXCEPT ![conn[c].loop] = Append(@, Functor("connectDestroyed", c))]

-----------------------------------------------------------------------------
(* TcpConnection in its loop.                                              *)

\* connectDestroyed()
ConnectDestroyed(c) ==
  SetConn(c, IF conn[c].state = "kConnected" THEN "kDisconnected" ELSE conn[c].state, "removed")

\* closeCallback_ is removeConnection(), run in the server's loop.
RemoveConnection(c) ==
  IF conn[c].loop = 0
  THEN RemoveConnectionInLoop(c, functors)
  ELSE Queue(0, Functor("removeConnectionInLoop", c)) /\ UNCHANGED connections_

CanHandle(l) == IF l = 0 THEN BaseIdle ELSE Running /\ phase[l] = "poll"

\* handleClose(): the peer closed, or forceClose() was called.
HandleClose(c) ==
  /\ Alive(c) /\ conn[c].state = "kConnected" /\ CanHandle(conn[c].loop)
  /\ SetConn(c, "kDisconnected", conn[c].chan)
  /\ RemoveConnection(c)
  /\ UNCHANGED <<acceptor, pool, nextConnId_, loopvars, server, races>>

\* A functor of loop l runs.
Run(l) ==
  LET f == Head(functors[l])
      q == [functors EXCEPT ![l] = Tail(@)]
  IN  \/ /\ f.op = "connectEstablished" /\ functors' = q
         /\ SetConn(f.conn, "kConnected", "added")
         /\ UNCHANGED <<connections_, races>>
      \/ /\ f.op = "connectDestroyed" /\ functors' = q
         /\ ConnectDestroyed(f.conn)
         /\ UNCHANGED <<connections_, races>>
      \/ /\ f.op = "removeConnectionInLoop" /\ server # "gone"
         /\ RemoveConnectionInLoop(f.conn, q)
         /\ UNCHANGED <<conn, races>>
      \/ /\ f.op = "removeConnectionInLoop" /\ server = "gone"
         /\ races' = {"unsafe"}
         /\ UNCHANGED <<connections_, conn, functors>>

RunBase ==
  /\ BaseIdle /\ functors[0] # <<>>
  /\ Run(0)
  /\ UNCHANGED <<acceptor, pool, nextConnId_, loopvars, server>>

\* loop() is entered: quit_ is stored, and then tested as after a round.
EnterLoop(l) ==
  /\ Running /\ phase[l] = "starting"
  /\ phase' = [phase EXCEPT ![l] = "functors"]
  /\ batch' = [batch EXCEPT ![l] = 0]
  /\ quit' = quit \ {l}
  /\ races' = IF l \in quit THEN {"erased"} ELSE races
  /\ UNCHANGED <<acceptor, pool, nextConnId_, connections_, conn, functors, server>>

\* A round of a pool's loop: it is woken, swaps its functors out and runs them,
\* and then tests quit_.
Wake(l) ==
  /\ Running /\ phase[l] = "poll" /\ (functors[l] # <<>> \/ l \in quit)
  /\ phase' = [phase EXCEPT ![l] = "functors"]
  /\ batch' = [batch EXCEPT ![l] = Len(functors[l])]
  /\ UNCHANGED <<acceptor, pool, nextConnId_, connections_, conn, functors, quit, server, races>>

RunFunctor(l) ==
  /\ Running /\ phase[l] = "functors" /\ batch[l] > 0
  /\ batch' = [batch EXCEPT ![l] = @ - 1]
  /\ Run(l)
  /\ UNCHANGED <<acceptor, pool, nextConnId_, phase, quit, server>>

TestQuit(l) ==
  /\ Running /\ phase[l] = "functors" /\ batch[l] = 0
  /\ phase' = [phase EXCEPT ![l] = IF l \in quit THEN "ended" ELSE "poll"]
  /\ races' = IF l \in quit /\ functors[l] # <<>> THEN {"dropped"} ELSE races
  /\ UNCHANGED <<acceptor, pool, nextConnId_, connections_, conn, functors, batch, quit, server>>

-----------------------------------------------------------------------------
(* ~TcpServer(), in the server's loop: the connections, then the pool with *)
(* its threads one after the other, then the Acceptor.                     *)

DestroyServer ==
  /\ BaseIdle /\ server \in {"idle", "started"}
  /\ server' = "release"
  /\ UNCHANGED <<acceptor, pool, nextConnId_, connections_, conn, functors, loopvars, races>>

ReleaseConnection(c) ==
  /\ Running /\ server = "release" /\ c \in connections_
  /\ connections_' = connections_ \ {c}
  /\ IF conn[c].loop = 0
     THEN ConnectDestroyed(c) /\ UNCHANGED functors
     ELSE Queue(conn[c].loop, Functor("connectDestroyed", c)) /\ UNCHANGED conn
  /\ UNCHANGED <<acceptor, pool, nextConnId_, loopvars, server, races>>

QuitLoop_Not(l) ==
  /\ Running /\ server = "release" /\ connections_ = {}
  /\ phase[l] # "ended" /\ \A m \in 1 .. l - 1 : phase[m] = "ended"
  /\ UNCHANGED vars

\* ~EventLoopThread(): quit(); join() is the wait for phase[l] = "ended".
QuitLoop(l) ==
  /\ Running /\ server = "release" /\ connections_ = {}
  /\ l \notin quit /\ phase[l] # "ended" /\ \A m \in 1 .. l - 1 : phase[m] = "ended"
  /\ quit' = quit \cup {l}
  /\ UNCHANGED <<acceptor, pool, nextConnId_, connections_, conn, functors, batch, phase,
                 server, races>>

DtorEnds ==
  /\ Running /\ server = "release" /\ connections_ = {}
  /\ \A l \in PoolLoops : phase[l] = "ended"
  /\ server' = "gone"
  /\ AcceptorDtor
  /\ UNCHANGED <<pool, nextConnId_, connections_, conn, functors, loopvars, races>>

-----------------------------------------------------------------------------
Outside ==
  /\ Running
  /\ ClientArrives \/ ClientLeaves \/ OtherOpens(Live) \/ OtherCloses
  /\ UNCHANGED <<pool, nextConnId_, connections_, conn, functors, loopvars, server, races>>

Dtor == DtorEnds \/ (\E c \in Conns : ReleaseConnection(c)) \/ (\E l \in PoolLoops : QuitLoop(l))
LoopStep(l) == EnterLoop(l) \/ Wake(l) \/ RunFunctor(l) \/ TestQuit(l)

Next ==
  \/ Start \/ HandleAccept \/ AcceptorStep \/ RunBase \/ DestroyServer \/ Dtor \/ Outside
  \/ \E c \in Conns : HandleClose(c)
  \/ \E l \in PoolLoops : LoopStep(l)

Spec == Init /\ [][Next]_vars

\* Every loop goes round: the server's loop runs its functors after the events of
\* each round, however often the listening socket is readable.
FairSpec ==
  /\ Spec
  /\ WF_vars(HandleAccept \/ AcceptorStep) /\ SF_vars(AcceptorStep /\ step = "none")
  /\ SF_vars(RunBase) /\ WF_vars(Dtor)
  /\ \A l \in PoolLoops : WF_vars(LoopStep(l))

-----------------------------------------------------------------------------
(* Properties.                                                             *)

QueuePlaces == UNION {{l} \X DOMAIN functors[l] : l \in Loops}
Pending(op, c) ==
  Cardinality({p \in QueuePlaces : functors[p[1]][p[2]] = Functor(op, c)})
Destructions(c) == Pending("connectDestroyed", c) + (IF conn[c].chan = "removed" THEN 1 ELSE 0)

\* However closes and the server's loop interleave, a connection leaves
\* connections_ once, and for connectDestroyed(): the assertion n == 1 of
\* removeConnectionInLoop() holds, channel_->remove() is called once, and what
\* the last shared_ptr leaves behind is closed and out of its loop.
ConnectionsTracked ==
  \A c \in 1 .. nextConnId_ - 1 :
    /\ Destructions(c) = IF c \in connections_ THEN 0 ELSE 1
    /\ server \in {"idle", "started"} =>
         Pending("removeConnectionInLoop", c)
           = IF c \in connections_ /\ conn[c].state = "kDisconnected" THEN 1 ELSE 0
    /\ ~Alive(c) => conn[c].state = "kDisconnected" /\ conn[c].chan = "removed"

\* Outside handleRead() the Acceptor has its descriptor in reserve, unless another
\* thread opened one in the moment the reserve was closed.
ReserveHeld == step = "none" /\ server # "gone" /\ ~stolen => idleFd_ = "null"

\* Every client that connects is accepted or refused, even when no descriptor is
\* left: none waits in the kernel's queue while the loop spins on it.
ClientAnswered ==
  \A k \in 1 .. MaxClients : arrived >= k ~> taken >= k \/ stolen \/ ~Running

\* A connection that closes gives its descriptor back, and the destructor of the
\* server returns and destroys every connection in its own loop.
TornDown ==
  /\ \A c \in Conns : conn[c].state = "kDisconnected" ~> ~Alive(c) \/ ~Running
  /\ server = "release" ~> (server = "gone" /\ Live = 0) \/ ~Running
==============================================================================
