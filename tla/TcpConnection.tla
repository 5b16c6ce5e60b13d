---------------------------- MODULE TcpConnection ----------------------------
(***************************************************************************)
(* muduo::net::TcpConnection (muduo/net/TcpConnection.cc) from its         *)
(* construction by TcpServer::newConnection() to its destruction: the I/O  *)
(* loop's handlers and functors, the server's loop that removes it, calls  *)
(* by user code in the I/O loop and by other threads.  functors is the     *)
(* FIFO that EventLoop implements (module Executor).  The object lives as  *)
(* long as a shared_ptr to it does, which Alive computes.                  *)
(***************************************************************************)
EXTENDS Naturals, Sequences, FiniteSets

CONSTANTS
  Threads,        \* threads other than the loops'
  OwnCalls,       \* what user code in the I/O loop calls
  ForeignCalls,   \* what other threads call; "drop" gives up the shared_ptr
  ServerCalls,    \* "destroy" if the TcpServer may be destroyed
  SameLoops,      \* may the server's loop be the I/O loop (no thread pool)
  MsgLen,         \* bytes of a message
  HighWaterMark,
  MaxSend,        \* bound on send() calls
  MaxFunctors,    \* bound on functors in the I/O loop when a caller adds one
  MaxCloses       \* bound on closes after which users stop calling

Calls == {"send", "shutdown", "forceClose", "forceCloseWithDelay", "startRead", "stopRead",
          "drop"}

ASSUME ConnectionAssumption ==
  /\ OwnCalls \subseteq Calls /\ ForeignCalls \subseteq Calls
  /\ ServerCalls \subseteq {"destroy"}
  /\ SameLoops \subseteq BOOLEAN
  /\ MsgLen \in Nat \ {0} /\ HighWaterMark \in Nat
  /\ MaxSend \in Nat /\ MaxFunctors \in Nat /\ MaxCloses \in Nat

VARIABLES
  state_, reading_,
  events,          \* channel_->events()
  chan,            \* channel_: "new", "added" to the loop, "removed"
  outputBuffer_,   \* bytes, each named by its message
  wire,            \* bytes given to the socket
  accepted,        \* history: bytes sendInLoop() took responsibility for
  fin,             \* socket_->shutdownWrite() was called
  peerClosed,      \* the peer closed or reset the connection
  functors, batch, \* the I/O loop's queue; how many of it are swapped out
  phase, revents,  \* where the I/O loop is; events not handled yet
  turn,            \* channel_ in this round: "listed" in activeChannels_, "reading"
                   \* when messageCallback_ may be running, or "none" of these
  inMap, removals, \* TcpServer: in connections_; removeConnectionInLoop queued
  serverAlive,
  sameLoop,        \* the server's loop is the I/O loop
  fpc, held,       \* other threads: where they are; whether they hold a shared_ptr
  ownRef,          \* user code in the I/O loop holds a shared_ptr
  delayed,         \* the timer of forceCloseWithDelay() is set
  sent,            \* messages so far
  ups, downs, ends,\* history: callbacks up, callbacks down, connectDestroyed()
  races            \* history: which of Races happened

chanvars == <<events, chan, reading_>>
stream   == <<outputBuffer_, wire, accepted>>
loopvars == <<functors, batch, phase, revents, turn>>
server   == <<inMap, removals, serverAlive>>
users    == <<fpc, held, ownRef, delayed, sent>>
counts   == <<ups, downs, ends>>
vars == <<state_, chanvars, stream, fin, peerClosed, loopvars, server, users, counts,
          sameLoop, races>>

\* The uses the code does not protect itself against.
\*   late:     a call took effect after the connection was closed: another
\*             thread's test of state_ was stale when it stored kDisconnecting or
\*             queued its functor ("FIXME: use compare and swap"), or startRead()
\*             or stopRead() ran, which do not test state_;
\*   teardown: ~TcpServer() destroyed the connection between shutdown() or
\*             forceClose() and its close, or with calls still queued;
\*   round:    ~TcpServer() removed the channel from its own loop in a handler of
\*             another channel, in a round that has the channel in activeChannels_:
\*             the assertion of EventLoop::removeChannel() fails;
\*   unsafe:   removeConnection() or removeConnectionInLoop() ran on a destroyed
\*             server ("FIXME: unsafe"), as handleClose() always brings about once
\*             the server is destroyed, also by its connectionCallback_.
\* What the model does after a race is what a build with NDEBUG does if the memory
\* of the destroyed objects is still there.
Races == {"late", "teardown", "round", "unsafe"}
Closed == state_ = "kDisconnected"
LateIf(cond) == races' = IF cond THEN races \cup {"late"} ELSE races
UnsafeIf(cond) == races' = IF cond THEN races \cup {"unsafe"} ELSE races

\* TcpServer::newConnection(): the object, its entry in connections_ and the
\* connectEstablished functor.  The callbacks may hand out shared_ptrs.
Init ==
  /\ state_ = "kConnecting" /\ reading_ = TRUE /\ events = {} /\ chan = "new"
  /\ outputBuffer_ = <<>> /\ wire = <<>> /\ accepted = <<>>
  /\ fin = FALSE /\ peerClosed = FALSE
  /\ functors = <<[op |-> "established", msg |-> 0]>> /\ batch = 0
  /\ phase = "poll" /\ revents = {} /\ turn = "none"
  /\ inMap = TRUE /\ removals = 0 /\ serverAlive = TRUE
  /\ fpc = [t \in Threads |-> "idle"] /\ held = [t \in Threads |-> TRUE]
  /\ ownRef = TRUE /\ delayed = FALSE /\ sent = 0
  /\ ups = 0 /\ downs = 0 /\ ends = 0
  /\ sameLoop \in SameLoops /\ races = {}

Functor(op) == [op |-> op, msg |-> 0]

Raw_AlsoDestroyed == {"send", "shutdown", "startRead", "stopRead", "destroyed"}

\* Functors bound to this instead of shared_from_this().
Raw == {"send", "shutdown", "startRead", "stopRead"}
HoldsConnection(f) == f.op \notin Raw
CallsQueued(q) == \E i \in DOMAIN q : ~HoldsConnection(q[i])

Alive ==
  \/ inMap \/ removals > 0 \/ ownRef
  \/ \E t \in Threads : held[t]
  \/ \E i \in DOMAIN functors : HoldsConnection(functors[i])

\* channel_->enableXXX() and disableXXX(), with Channel::update().
SetEvents(evs) == events' = evs /\ chan' = "added"

-----------------------------------------------------------------------------
(* The functions that run in the I/O loop.  q is the loop's queue without  *)
(* the functor that is running, if one is.                                 *)

Bytes(k, n) == [i \in 1 .. n |-> k]

\* highWaterMarkCallback_ is queued when the buffer grows past the mark.
Crosses(more) ==
  LET old == Len(outputBuffer_)
  IN  old + more >= HighWaterMark /\ old < HighWaterMark

BufferOutput_NoEnable(k, n, q) ==
  /\ outputBuffer_' = outputBuffer_ \o Bytes(k, n)
  /\ functors' = IF Crosses(n) THEN Append(q, Functor("callback")) ELSE q
  /\ UNCHANGED <<events, chan>>

\* The end of sendInLoop(): n bytes go to outputBuffer_, watched for writing.
BufferOutput(k, n, q) ==
  /\ outputBuffer_' = outputBuffer_ \o Bytes(k, n)
  /\ functors' = IF Crosses(n) THEN Append(q, Functor("callback")) ELSE q
  /\ IF "write" \in events THEN UNCHANGED <<events, chan>>
                           ELSE SetEvents(events \cup {"write"})

\* sendInLoop() of a disconnected connection.
GiveUpWriting(q) == functors' = q /\ UNCHANGED <<events, chan, stream>>

\* sendInLoop() with nothing queued: write n bytes at once, then the rest is
\* buffered or writeCompleteCallback_ is queued.
WriteDirectly(k, q) ==
  /\ ~fin
  /\ \E n \in 0 .. MsgLen :
       /\ wire' = wire \o Bytes(k, n)
       /\ accepted' = accepted \o Bytes(k, MsgLen)
       /\ \/ /\ n < MsgLen
             /\ BufferOutput(k, MsgLen - n, q)
          \/ /\ n = MsgLen
             /\ functors' = Append(q, Functor("callback"))
             /\ UNCHANGED <<events, chan, outputBuffer_>>

\* sendInLoop(): write() fails with EPIPE or ECONNRESET, the message is dropped.
WriteFault(q) ==
  /\ fin \/ peerClosed
  /\ functors' = q /\ UNCHANGED <<events, chan, stream>>

SendInLoop_JumpsQueue(k, q) ==
  \/ state_ = "kDisconnected" /\ GiveUpWriting(q)
  \/ state_ # "kDisconnected" /\ (WriteDirectly(k, q) \/ WriteFault(q))

SendInLoop(k, q) ==
  LET direct == "write" \notin events /\ outputBuffer_ = <<>>
  IN  \/ state_ = "kDisconnected" /\ GiveUpWriting(q)
      \/ /\ state_ # "kDisconnected" /\ direct
         /\ WriteDirectly(k, q) \/ WriteFault(q)
      \/ /\ state_ # "kDisconnected" /\ ~direct
         /\ accepted' = accepted \o Bytes(k, MsgLen)
         /\ BufferOutput(k, MsgLen, q)
         /\ UNCHANGED wire

ShutdownInLoop_Always == fin' = TRUE

ShutdownInLoop == fin' = (fin \/ "write" \notin events)

StartReadInLoop ==
  IF ~reading_ \/ "read" \notin events
  THEN SetEvents(events \cup {"read"}) /\ reading_' = TRUE
  ELSE UNCHANGED chanvars

StopReadInLoop ==
  IF reading_ \/ "read" \in events
  THEN SetEvents(events \ {"read"}) /\ reading_' = FALSE
  ELSE UNCHANGED chanvars

CloseCallback_Nothing(q) == functors' = q /\ UNCHANGED <<inMap, removals>>

\* closeCallback_ is TcpServer::removeConnection(), on the server alive or not: the
\* server's loop erases the connection and queues connectDestroyed().
CloseCallback(q) ==
  \/ /\ sameLoop
     /\ inMap' = FALSE /\ functors' = Append(q, Functor("destroyed"))
     /\ UNCHANGED removals
  \/ /\ ~sameLoop
     /\ removals' = removals + 1 /\ functors' = q
     /\ UNCHANGED inMap

\* handleClose().
HandleClose(q) ==
  /\ state_' = "kDisconnected" /\ SetEvents({})
  /\ downs' = downs + 1
  /\ CloseCallback(q) /\ UnsafeIf(sameLoop /\ ~serverAlive)
  /\ UNCHANGED <<reading_, serverAlive, ups, ends>>

ForceCloseInLoop_NoTest(q) == HandleClose(q)

\* forceCloseInLoop().
ForceCloseInLoop(q) ==
  IF state_ \in {"kConnected", "kDisconnecting"}
  THEN HandleClose(q)
  ELSE functors' = q /\ UNCHANGED <<state_, chanvars, server, counts, races>>

\* connectEstablished().
ConnectEstablished(q) ==
  /\ state_' = "kConnected" /\ SetEvents({"read"})
  /\ ups' = ups + 1 /\ functors' = q
  /\ UNCHANGED <<reading_, downs, ends>>

ConnectDestroyed_NoRemove(q) ==
  /\ functors' = q
  /\ IF state_ = "kConnected"
     THEN state_' = "kDisconnected" /\ SetEvents({}) /\ downs' = downs + 1
     ELSE UNCHANGED <<state_, events, chan, downs>>
  /\ ends' = ends + 1
  /\ UNCHANGED <<reading_, ups>>

\* connectDestroyed(); channel_->remove() ends it.
ConnectDestroyed(q) ==
  /\ functors' = q
  /\ IF state_ = "kConnected"
     THEN state_' = "kDisconnected" /\ events' = {} /\ downs' = downs + 1
     ELSE UNCHANGED <<state_, events, downs>>
  /\ chan' = "removed" /\ ends' = ends + 1
  /\ UNCHANGED <<reading_, ups>>

\* The race of a connectDestroyed() that ~TcpServer() calls too early.
Torn(q) == IF state_ = "kDisconnecting" \/ CallsQueued(q) THEN {"teardown"} ELSE {}

-----------------------------------------------------------------------------
(* The I/O loop.                                                           *)

\* poll() returns, for this channel or another one.  The poller watches the channel
\* while it has events; a peer that closed makes the socket readable.
Poll ==
  /\ phase = "poll"
  /\ \E r \in SUBSET {"in", "out", "hup"} :
       /\ r # {} => chan = "added" /\ events # {}
       /\ "in" \in r => "read" \in events
       /\ chan = "added" /\ "read" \in events /\ peerClosed => "in" \in r
       /\ "out" \in r => "write" \in events
       /\ "hup" \in r => peerClosed
       /\ revents' = r /\ turn' = IF r = {} THEN "none" ELSE "listed"
  /\ phase' = "handle"
  /\ UNCHANGED <<state_, chanvars, stream, fin, peerClosed, functors, batch, server, users,
                 counts, sameLoop, races>>

\* handleEvent(): POLLHUP without POLLIN is given to closeCallback_.
HangUp ==
  /\ phase = "handle" /\ "hup" \in revents
  /\ revents' = revents \ {"hup"}
  /\ IF "in" \in revents
     THEN UNCHANGED <<state_, chanvars, functors, server, counts, races>>
     ELSE HandleClose(functors)
  /\ UNCHANGED <<stream, fin, peerClosed, batch, phase, turn, users, sameLoop>>

\* handleRead(): n > 0 calls messageCallback_, n = 0 handleClose(), n < 0
\* handleError(), which only logs.
HandleRead ==
  /\ phase = "handle" /\ "in" \in revents /\ "hup" \notin revents
  /\ revents' = revents \ {"in"}
  /\ \/ turn' = "reading" /\ UNCHANGED <<state_, chanvars, functors, server, counts, races>>
     \/ peerClosed /\ HandleClose(functors) /\ UNCHANGED turn
  /\ UNCHANGED <<stream, fin, peerClosed, batch, phase, users, sameLoop>>

HandleWrite_NoShutdown ==
  /\ phase = "handle" /\ revents = {"out"}
  /\ revents' = {} /\ turn' = "listed"
  /\ \/ /\ "write" \in events
        /\ \E n \in 1 .. Len(outputBuffer_) :
             /\ wire' = wire \o SubSeq(outputBuffer_, 1, n)
             /\ outputBuffer_' = SubSeq(outputBuffer_, n + 1, Len(outputBuffer_))
             /\ IF n = Len(outputBuffer_)
                THEN /\ SetEvents(events \ {"write"})
                     /\ functors' = Append(functors, Functor("callback"))
                ELSE UNCHANGED <<events, chan, functors>>
     \/ /\ "write" \notin events \/ peerClosed
        /\ UNCHANGED <<events, chan, functors, outputBuffer_, wire>>
  /\ UNCHANGED <<state_, reading_, accepted, fin, peerClosed, batch, phase, server, users,
                 counts, sameLoop, races>>

\* handleWrite(), after handleRead() in the same handleEvent(): n bytes are
\* written, or write() fails; when the buffer is empty the channel stops writing,
\* writeCompleteCallback_ is queued and a pending shutdown() is done.
HandleWrite ==
  /\ phase = "handle" /\ revents = {"out"}
  /\ revents' = {} /\ turn' = "listed"
  /\ \/ /\ "write" \in events
        /\ \E n \in 1 .. Len(outputBuffer_) :
             /\ wire' = wire \o SubSeq(outputBuffer_, 1, n)
             /\ outputBuffer_' = SubSeq(outputBuffer_, n + 1, Len(outputBuffer_))
             /\ IF n = Len(outputBuffer_)
                THEN /\ SetEvents(events \ {"write"})
                     /\ functors' = Append(functors, Functor("callback"))
                     /\ fin' = (fin \/ state_ = "kDisconnecting")
                ELSE UNCHANGED <<events, chan, functors, fin>>
     \/ /\ "write" \notin events \/ peerClosed
        /\ UNCHANGED <<events, chan, functors, fin, outputBuffer_, wire>>
  /\ UNCHANGED <<state_, reading_, accepted, peerClosed, batch, phase, server, users,
                 counts, sameLoop, races>>

\* doPendingFunctors() swaps the queue out; it runs only what was there.
SwapFunctors ==
  /\ phase = "handle" /\ revents = {}
  /\ phase' = "functors" /\ batch' = Len(functors) /\ turn' = "none"
  /\ UNCHANGED <<state_, chanvars, stream, fin, peerClosed, functors, revents, server,
                 users, counts, sameLoop, races>>

\* One functor of the batch runs.
RunFunctor ==
  /\ phase = "functors" /\ batch > 0
  /\ batch' = batch - 1
  /\ LET f == Head(functors)
         q == Tail(functors)
     IN  \/ /\ f.op = "established"
            /\ ConnectEstablished(q)
            /\ UNCHANGED <<stream, fin, server, races>>
         \/ /\ f.op = "destroyed"
            /\ ConnectDestroyed(q) /\ races' = races \cup Torn(q)
            /\ UNCHANGED <<stream, fin, server>>
         \/ /\ f.op = "send"
            /\ SendInLoop(f.msg, q)
            /\ UNCHANGED <<state_, reading_, fin, server, counts, races>>
         \/ /\ f.op = "shutdown" /\ functors' = q
            /\ ShutdownInLoop
            /\ UNCHANGED <<state_, chanvars, stream, server, counts, races>>
         \/ /\ f.op = "forceClose"
            /\ ForceCloseInLoop(q)
            /\ UNCHANGED <<stream, fin>>
         \/ /\ f.op = "startRead" /\ functors' = q
            /\ StartReadInLoop /\ LateIf(Closed)
            /\ UNCHANGED <<state_, stream, fin, server, counts>>
         \/ /\ f.op = "stopRead" /\ functors' = q
            /\ StopReadInLoop /\ LateIf(Closed)
            /\ UNCHANGED <<state_, stream, fin, server, counts>>
         \/ /\ f.op = "callback" /\ functors' = q
            /\ UNCHANGED <<state_, chanvars, stream, fin, server, counts, races>>
  /\ UNCHANGED <<peerClosed, phase, revents, turn, users, sameLoop>>

FunctorsDone ==
  /\ phase = "functors" /\ batch = 0
  /\ phase' = "poll"
  /\ UNCHANGED <<state_, chanvars, stream, fin, peerClosed, functors, batch, revents,
                 turn, server, users, counts, sameLoop, races>>

-----------------------------------------------------------------------------
(* User code in the I/O loop: callbacks of this connection, or of another  *)
(* channel, timer or functor.                                              *)

UserCode == phase \in {"handle", "functors"} /\ ownRef
MayQueue == Len(functors) < MaxFunctors

OwnSend ==
  /\ "send" \in OwnCalls /\ UserCode /\ sent < MaxSend
  /\ sent' = sent + 1
  /\ IF state_ = "kConnected" THEN SendInLoop(sent', functors) ELSE GiveUpWriting(functors)
  /\ UNCHANGED <<state_, reading_, fin, peerClosed, batch, phase, revents, turn, server, fpc,
                 held, ownRef, delayed, counts, sameLoop, races>>

OwnShutdown ==
  /\ "shutdown" \in OwnCalls /\ UserCode /\ state_ = "kConnected"
  /\ state_' = "kDisconnecting"
  /\ ShutdownInLoop
  /\ UNCHANGED <<chanvars, stream, peerClosed, loopvars, server, users, counts, sameLoop,
                 races>>

OwnForceClose ==
  /\ UserCode /\ MayQueue /\ state_ \in {"kConnected", "kDisconnecting"}
  /\ state_' = "kDisconnecting"
  /\ \/ /\ "forceClose" \in OwnCalls
        /\ functors' = Append(functors, Functor("forceClose"))
        /\ UNCHANGED delayed
     \/ /\ "forceCloseWithDelay" \in OwnCalls
        /\ delayed' = TRUE /\ UNCHANGED functors
  /\ UNCHANGED <<chanvars, stream, fin, peerClosed, batch, phase, revents, turn, server, fpc,
                 held, ownRef, sent, counts, sameLoop, races>>

\* The timer of forceCloseWithDelay() holds a weak_ptr and calls forceClose().
DelayedForceClose ==
  /\ delayed /\ phase = "handle" /\ MayQueue
  /\ delayed' = FALSE
  /\ IF Alive /\ state_ \in {"kConnected", "kDisconnecting"}
     THEN /\ state_' = "kDisconnecting"
          /\ functors' = Append(functors, Functor("forceClose"))
     ELSE UNCHANGED <<state_, functors>>
  /\ UNCHANGED <<chanvars, stream, fin, peerClosed, batch, phase, revents, turn, server, fpc,
                 held, ownRef, sent, counts, sameLoop, races>>

OwnRead ==
  /\ UserCode /\ chan # "new" /\ downs < MaxCloses
  /\ \/ "startRead" \in OwnCalls /\ StartReadInLoop
     \/ "stopRead" \in OwnCalls /\ StopReadInLoop
  /\ LateIf(Closed)
  /\ UNCHANGED <<state_, stream, fin, peerClosed, loopvars, server, users, counts,
                 sameLoop>>

OwnDrop ==
  /\ "drop" \in OwnCalls /\ UserCode
  /\ ownRef' = FALSE
  /\ UNCHANGED <<state_, chanvars, stream, fin, peerClosed, loopvars, server, fpc, held,
                 delayed, sent, counts, sameLoop, races>>

-----------------------------------------------------------------------------
(* Other threads: the test of state_, the store to it and the queueing are *)
(* steps of their own.                                                     *)

\* What a call requires of state_ when it is tested.
Allows(call) ==
  CASE call \in {"send", "shutdown"} -> state_ = "kConnected"
    [] call = "forceClose" -> state_ \in {"kConnected", "kDisconnecting"}
    [] OTHER -> TRUE

ForeignTest(t, call) ==
  /\ fpc[t] = "idle" /\ held[t]
  /\ call \in ForeignCalls \cap {"send", "shutdown", "forceClose", "startRead", "stopRead"}
  /\ chan # "new" /\ Allows(call) /\ downs < MaxCloses
  /\ fpc' = [fpc EXCEPT ![t] = call]
  /\ UNCHANGED <<state_, chanvars, stream, fin, peerClosed, loopvars, server, held, ownRef,
                 delayed, sent, counts, sameLoop, races>>

\* setState(kDisconnecting) in shutdown() and forceClose().
ForeignSet(t) ==
  /\ fpc[t] \in {"shutdown", "forceClose"}
  /\ state_' = "kDisconnecting" /\ LateIf(Closed)
  /\ fpc' = [fpc EXCEPT ![t] = IF fpc[t] = "shutdown" THEN "queue shutdown"
                               ELSE "queue forceClose"]
  /\ UNCHANGED <<chanvars, stream, fin, peerClosed, loopvars, server, held, ownRef, delayed,
                 sent, counts, sameLoop>>

Queued(t) ==
  CASE fpc[t] = "queue shutdown" -> "shutdown"
    [] fpc[t] = "queue forceClose" -> "forceClose"
    [] OTHER -> fpc[t]

\* runInLoop() or queueInLoop() in another thread.
ForeignQueue(t) ==
  /\ fpc[t] \notin {"idle", "shutdown", "forceClose"} /\ MayQueue
  /\ fpc[t] = "send" => sent < MaxSend
  /\ sent' = IF fpc[t] = "send" THEN sent + 1 ELSE sent
  /\ functors' = Append(functors, [op |-> Queued(t),
                                   msg |-> IF fpc[t] = "send" THEN sent' ELSE 0])
  /\ fpc' = [fpc EXCEPT ![t] = "idle"] /\ LateIf(Closed)
  /\ UNCHANGED <<state_, chanvars, stream, fin, peerClosed, batch, phase, revents, turn, server,
                 held, ownRef, delayed, counts, sameLoop>>

ForeignDrop(t) ==
  /\ "drop" \in ForeignCalls /\ fpc[t] = "idle" /\ held[t]
  /\ held' = [held EXCEPT ![t] = FALSE]
  /\ UNCHANGED <<state_, chanvars, stream, fin, peerClosed, loopvars, server, fpc, ownRef,
                 delayed, sent, counts, sameLoop, races>>

-----------------------------------------------------------------------------
(* The server's loop, and the peer.                                        *)

\* removeConnectionInLoop(), queued with a pointer to the server.
RemoveConnection ==
  /\ removals > 0
  /\ removals' = removals - 1 /\ inMap' = FALSE
  /\ functors' = Append(functors, Functor("destroyed")) /\ UnsafeIf(~serverAlive)
  /\ UNCHANGED <<state_, chanvars, stream, fin, peerClosed, batch, phase, revents, turn,
                 serverAlive, users, counts, sameLoop>>

\* ~TcpServer(): connectDestroyed() is run in the I/O loop, at once if that is
\* the server's own, where connectEstablished() was run at once too.  The caller is
\* then messageCallback_ of the connection, or any other code in that loop.
DestroyServer ==
  /\ "destroy" \in ServerCalls /\ serverAlive
  /\ serverAlive' = FALSE /\ inMap' = FALSE
  /\ \/ ~inMap /\ UNCHANGED <<state_, chanvars, functors, counts, races>>
     \/ /\ inMap /\ ~sameLoop
        /\ functors' = Append(functors, Functor("destroyed"))
        /\ UNCHANGED <<state_, chanvars, counts, races>>
     \/ /\ inMap /\ sameLoop /\ phase # "poll" /\ chan = "added"
        /\ ConnectDestroyed(functors)
        /\ \/ turn \in {"none", "reading"} /\ races' = races \cup Torn(functors)
           \/ /\ turn = "listed" \/ (turn = "reading" /\ revents = {})
              /\ races' = races \cup Torn(functors) \cup {"round"}
  /\ UNCHANGED <<stream, fin, peerClosed, batch, phase, revents, turn, removals, users, sameLoop>>

PeerCloses ==
  /\ ~peerClosed
  /\ peerClosed' = TRUE
  /\ UNCHANGED <<state_, chanvars, stream, fin, loopvars, server, users, counts, sameLoop,
                 races>>

-----------------------------------------------------------------------------
LoopStep == Poll \/ HangUp \/ HandleRead \/ HandleWrite \/ SwapFunctors \/ RunFunctor \/ FunctorsDone

OwnCall ==
  OwnSend \/ OwnShutdown \/ OwnForceClose \/ DelayedForceClose \/ OwnRead \/ OwnDrop

Next ==
  \/ LoopStep \/ OwnCall \/ RemoveConnection \/ DestroyServer \/ PeerCloses
  \/ \E t \in Threads :
       \/ \E call \in ForeignCalls : ForeignTest(t, call)
       \/ ForeignSet(t) \/ ForeignQueue(t) \/ ForeignDrop(t)

Spec == Init /\ [][Next]_vars

\* Both loops and the other threads keep running, a socket with data to write
\* becomes writable again and again, and reading what a closed peer had sent
\* comes to its end.  A timer that is set expires (TimerQueue).
FairSpec ==
  /\ Spec
  /\ WF_vars(LoopStep) /\ WF_vars(RemoveConnection)
  /\ SF_vars(Poll /\ "out" \in revents')
  /\ SF_vars(HandleRead /\ state_' = "kDisconnected")
  /\ SF_vars(DelayedForceClose)
  /\ \A t \in Threads : WF_vars(ForeignSet(t) \/ ForeignQueue(t))

-----------------------------------------------------------------------------
(* Properties.                                                             *)

\* What went to the socket, followed by outputBuffer_, is what sendInLoop()
\* accepted, in the order it ran: direct writes never overtake buffered bytes.
StreamInOrder == wire \o outputBuffer_ = accepted

\* None of the races happened.
Orderly == races = {}

\* While the connection is open, it watches for writability exactly when it has
\* bytes to write: none wait unwatched, and no loop spins on a writable socket.
WritingIffPending ==
  Orderly /\ state_ \in {"kConnected", "kDisconnecting"} =>
    ("write" \in events <=> outputBuffer_ # <<>>)

\* shutdownWrite() never cuts off bytes accepted before or after it.
ShutdownAfterData ==
  Orderly /\ fin /\ state_ # "kDisconnected" => outputBuffer_ = <<>>

\* connectionCallback_ reports down at most once, after up, and
\* connectDestroyed() runs at most once, unless one of the races happened.
ClosedOnce == Orderly => downs <= ups /\ ends <= 1

\* The destructor runs on a closed connection whose channel the loop has
\* forgotten, no functor bound to this is left in the loop, and the channel was
\* removed with no events: the assertions of ~TcpConnection(), ~Channel() and
\* Channel::remove().
DestroyedClosed ==
  Orderly =>
    /\ ~Alive => state_ = "kDisconnected" /\ chan = "removed" /\ functors = <<>>
    /\ chan = "removed" => events = {}

\* Once the peer has closed, a connection that reads is closed, removed from the
\* server and from its loop; and shutdown() is followed by the half-close of the
\* socket, however much was still buffered, unless the connection is closed first.
ClosingCompletes ==
  /\ peerClosed /\ "read" \in events ~> chan = "removed"
  /\ state_ = "kDisconnecting" ~> fin \/ state_ = "kDisconnected"
=============================================================================
