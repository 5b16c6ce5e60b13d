------------------------------ MODULE TcpClient ------------------------------
(***************************************************************************)
(* muduo::net::TcpClient (muduo/net/TcpClient.cc) with its Connector, the  *)
(* loop both run in, and a user who calls the client from the loop or from *)
(* another thread.  A TcpConnection is its state_ and its close callback:  *)
(* module TcpConnection has the rest.  An object lives as long as a        *)
(* shared_ptr to it does, which Held and ConnectorAlive compute.           *)
(***************************************************************************)
EXTENDS Connector, Functions

CONSTANTS
  UserCalls,    \* subset of {"connect", "disconnect", "stop", "destroy"}
  UserInLoop,   \* may the user be in the loop's thread, in another one
  RetryModes,   \* was enableRetry() called
  MaxCalls      \* bound on the user's calls

ASSUME ClientAssumption ==
  /\ UserCalls \subseteq {"connect", "disconnect", "stop", "destroy"}
  /\ UserInLoop \subseteq BOOLEAN /\ RetryModes \subseteq BOOLEAN /\ MaxCalls \in Nat

VARIABLES
  wanted_,          \* TcpClient::connect_
  retry_,
  connection_,      \* its descriptor, 0 for none
  conn,             \* state of the TcpConnection that has or had a descriptor
  closeCallback_,   \* of that connection: "client" or "detail"
  clientAlive,
  removeTimer,      \* the timer of the destructor is set
  phase, active, batch,   \* the loop's round: events not handled, functors swapped out
  next, nextFd,     \* what the loop's current handler does next, and with which connection
  inLoop,           \* the user is in the loop's thread
  upc, uconn, unique,     \* where the user is; locals of the destructor
  userRef,          \* connections the user holds
  calls,            \* the user's calls so far
  stopped,          \* history: stop() returned, and no connect() since
  races             \* history: which of Races happened

loopvars == <<phase, active, batch, next, nextFd>>
user     == <<inLoop, upc, uconn, unique, userRef, calls, stopped>>
client   == <<wanted_, retry_, connection_, conn, closeCallback_, clientAlive, removeTimer>>
vars == <<connector, functors, failed, client, loopvars, user, races>>

\* The uses the code does not protect itself against; the model follows a
\* behaviour up to the first of them.
\*   reuse:   connect() while the Connector is not at rest in kDisconnected, where
\*            it is not after a connection that ended ("FIXME: check state");
\*   late:    the loop entered the client while another thread destroyed it
\*            ("FIXME: not 100% safe, if we are in different thread");
\*   restart: removeConnection() found connect_ set and restarted the Connector
\*            after a stop() or disconnect() of another thread;
\*   pending: the client was destroyed with a connection while functors bound to
\*            the bare Connector were queued ("FIXME: unsafe");
\*   slow:    the timer of the destructor fired before such functors had run;
\*   dropped: the user gave up the last shared_ptr to an open connection, or gave
\*            up its own after the destructor had seen it (unique = FALSE).
Races == {"reuse", "late", "restart", "pending", "slow", "dropped"}
RaceIf(cond, r) == races' = IF cond THEN races \cup {r} ELSE races
Open == {"kConnected", "kDisconnecting"}
Running == failed = "none" /\ races = {}
ClientGoing == ~clientAlive \/ upc \in {"destroy1", "destroy2"}

Init ==
  /\ ConnectorInit
  /\ wanted_ = TRUE /\ retry_ \in RetryModes /\ connection_ = 0
  /\ conn = [f \in Fds |-> "none"] /\ closeCallback_ = [f \in Fds |-> "client"]
  /\ clientAlive = TRUE /\ removeTimer = FALSE
  /\ phase = "poll" /\ active = {} /\ batch = 0 /\ next = "none" /\ nextFd = 0
  /\ inLoop \in UserInLoop /\ upc = "idle" /\ uconn = 0 /\ unique = FALSE
  /\ userRef = {} /\ calls = 0 /\ stopped = FALSE /\ races = {}

InFunctor(c) == \E i \in DOMAIN functors : functors[i].conn = c
Held(c) == connection_ = c \/ uconn = c \/ c \in userRef \/ nextFd = c \/ InFunctor(c)

\* An open connection that nothing is going to close.
Abandoned(c) == conn[c] \in Open /\ Functor("forceCloseInLoop", c) \notin Range(functors)

ConnectorAlive ==
  \/ clientAlive \/ retries > 0 \/ removeTimer
  \/ \E i \in DOMAIN functors : functors[i].op = "addRemoveTimer"

\* Descriptors that are not open: a destroyed TcpConnection has closed its own.
Free == {f \in Fds \ socks : conn[f] = "none" \/ ~Held(f)}

-----------------------------------------------------------------------------
(* The loop.                                                               *)

\* What a poll can report: the connecting socket, timers, open connections.
Sources ==
  (IF channel_ = "added" THEN {<<"connector", 0>>} ELSE {})
  \cup (IF retries > 0 THEN {<<"retry", 0>>} ELSE {})
  \cup (IF removeTimer THEN {<<"removeConnector", 0>>} ELSE {})
  \cup {<<"conn", c>> : c \in {f \in Fds : conn[f] \in Open /\ Held(f)}}

UserIsIdle == upc = "idle" /\ clientAlive /\ calls < MaxCalls

\* Some of the ready events, or none when the loop was woken for functors or for
\* an event of the user's.
Poll(ready) ==
  /\ Running /\ phase = "poll"
  /\ ready = {} => functors # <<>> \/ (inLoop /\ UserIsIdle)
  /\ active' = ready /\ phase' = "handle"
  /\ UNCHANGED <<connector, functors, failed, client, batch, next, nextFd, user, races>>

Handling(s) == Running /\ phase = "handle" /\ next = "none" /\ s \in active /\ active' = active \ {s}

HandleConnector ==
  /\ Handling(<<"connector", 0>>)
  /\ \/ HandleFailure /\ UNCHANGED <<next, nextFd>>
     \/ HandleWrite(FALSE) /\ UNCHANGED <<next, nextFd>>
     \/ HandleWrite(TRUE) /\ next' = "newConnection" /\ nextFd' = fd
  /\ UNCHANGED <<connect_, gaveUp, failed, client, phase, batch, user, races>>

\* newConnection(), in the callback of handleWrite(); user code may keep the
\* connection that connectionCallback_ shows it.
NewConnection ==
  /\ Running /\ next = "newConnection"
  /\ conn' = [conn EXCEPT ![nextFd] = "kConnected"]
  /\ closeCallback_' = [closeCallback_ EXCEPT ![nextFd] = "client"]
  /\ connection_' = nextFd /\ socks' = socks \ {nextFd}
  /\ \/ userRef' = userRef
     \/ userRef = {} /\ userRef' = {nextFd}
  /\ RaceIf(ClientGoing, "late")
  /\ next' = "none" /\ nextFd' = 0
  /\ UNCHANGED <<connect_, state_, channel_, fd, retries, fails, gaveUp, functors, failed,
                 wanted_, retry_, clientAlive, removeTimer, phase, active, batch,
                 inLoop, upc, uconn, unique, calls, stopped>>

RetryTimer ==
  /\ Handling(<<"retry", 0>>)
  /\ StartInLoop(state_, connect_, retries - 1, Free)
  /\ UNCHANGED <<connect_, functors, client, phase, batch, next, nextFd, user, races>>

RemoveConnectorTimer_Repeats ==
  /\ Handling(<<"removeConnector", 0>>)
  /\ RaceIf(RawQueued(functors) \/ channel_ # "null", "slow")
  /\ UNCHANGED <<connector, functors, failed, client, phase, batch, next, nextFd, user>>

RemoveConnectorTimer ==
  /\ Handling(<<"removeConnector", 0>>)
  /\ removeTimer' = FALSE
  /\ RaceIf(RawQueued(functors) \/ channel_ # "null", "slow")
  /\ UNCHANGED <<connector, functors, failed, wanted_, retry_, connection_, conn,
                 closeCallback_, clientAlive, phase, batch, next, nextFd, user>>

\* removeConnection(conn) of the client, up to its test of retry_ and connect_.
RemoveConnection(c, q) ==
  /\ Assert(connection_ = c, "removeConnection")
  /\ connection_' = 0
  /\ functors' = Append(q, Functor("connectDestroyed", c))
  /\ next' = IF retry_ /\ wanted_ THEN "restart" ELSE "none"
  /\ RaceIf(ClientGoing, "late")

\* TcpConnection::handleClose(): the close callback is the client's, or
\* detail::removeConnection once the destructor has replaced it.
HandleClose(c, q) ==
  /\ conn' = [conn EXCEPT ![c] = "kDisconnected"]
  /\ \/ closeCallback_[c] = "client" /\ RemoveConnection(c, q)
     \/ /\ closeCallback_[c] = "detail"
        /\ functors' = Append(q, Functor("connectDestroyed", c))
        /\ UNCHANGED <<connection_, next, races, failed>>

\* The peer closed the connection.
ConnectionCloses(c) ==
  /\ Handling(<<"conn", c>>)
  /\ HandleClose(c, functors)
  /\ UNCHANGED <<connector, wanted_, retry_, closeCallback_, clientAlive, removeTimer,
                 phase, batch, nextFd, user>>

\* Connector::restart()
Restart ==
  /\ Running /\ next = "restart"
  /\ connect_' = TRUE
  /\ StartInLoop("kDisconnected", TRUE, retries, Free)
  /\ races' = races \cup {r \in {"restart"} : ~wanted_} \cup {r \in {"late"} : ClientGoing}
  /\ next' = "none"
  /\ UNCHANGED <<functors, client, phase, active, batch, nextFd, user>>

EndHandling ==
  /\ Running /\ phase = "handle" /\ active = {} /\ next = "none"
  /\ phase' = "functors" /\ batch' = Len(functors)
  /\ UNCHANGED <<connector, functors, failed, client, active, next, nextFd, user, races>>

EndFunctors ==
  /\ Running /\ phase = "functors" /\ batch = 0 /\ next = "none"
  /\ phase' = "poll"
  /\ UNCHANGED <<connector, functors, failed, client, active, batch, next, nextFd, user, races>>

RunStart(f, q) ==
  /\ f.op = "startInLoop" /\ StartInLoop(state_, connect_, retries, Free)
  /\ functors' = q
  /\ UNCHANGED <<connect_, client, next, races>>

RunStop(f, q) ==
  /\ f.op = "stopInLoop" /\ StopInLoop(q)
  /\ UNCHANGED <<connect_, fails, gaveUp, failed, client, next, races>>

RunReset(f, q) ==
  /\ f.op = "resetChannel" /\ ResetChannel(q)
  /\ UNCHANGED <<connect_, state_, socks, retries, fails, gaveUp, failed, client, next, races>>

\* TcpConnection::connectDestroyed(); the channel is removed from the loop.
RunConnectDestroyed(f, q) ==
  /\ f.op = "connectDestroyed"
  /\ conn' = [conn EXCEPT ![f.conn] = "destroyed"]
  /\ functors' = q
  /\ UNCHANGED <<connector, failed, wanted_, retry_, connection_, closeCallback_,
                 clientAlive, removeTimer, next, races>>

RunSetCloseCallback(f, q) ==
  /\ f.op = "setCloseCallback"
  /\ closeCallback_' = [closeCallback_ EXCEPT ![f.conn] = "detail"]
  /\ functors' = q
  /\ UNCHANGED <<connector, failed, wanted_, retry_, connection_, conn, clientAlive,
                 removeTimer, next, races>>

\* TcpConnection::forceCloseInLoop()
RunForceClose(f, q) ==
  /\ f.op = "forceCloseInLoop"
  /\ \/ conn[f.conn] \in Open /\ HandleClose(f.conn, q)
     \/ /\ conn[f.conn] \notin Open /\ functors' = q
        /\ UNCHANGED <<conn, connection_, next, races, failed>>
  /\ UNCHANGED <<connector, wanted_, retry_, closeCallback_, clientAlive, removeTimer>>

RunAddRemoveTimer(f, q) ==
  /\ f.op = "addRemoveTimer"
  /\ removeTimer' = TRUE /\ functors' = q
  /\ UNCHANGED <<connector, failed, wanted_, retry_, connection_, conn, closeCallback_,
                 clientAlive, next, races>>

RunFunctor ==
  /\ Running /\ phase = "functors" /\ batch > 0 /\ next = "none"
  /\ batch' = batch - 1
  /\ LET f == Head(functors)
         q == Tail(functors)
     IN  \/ RunStart(f, q) \/ RunStop(f, q) \/ RunReset(f, q)
         \/ RunConnectDestroyed(f, q) \/ RunSetCloseCallback(f, q)
         \/ RunForceClose(f, q) \/ RunAddRemoveTimer(f, q)
  /\ UNCHANGED <<phase, active, nextFd, user>>

LoopSteps ==
  \/ HandleConnector \/ NewConnection \/ RetryTimer \/ RemoveConnectorTimer
  \/ \E c \in Fds : ConnectionCloses(c)
  \/ Restart \/ EndHandling \/ EndFunctors \/ RunFunctor

-----------------------------------------------------------------------------
(* The user's calls, step by step.  In the loop's thread they keep the     *)
(* loop in the handler they come from, next = "user", and runInLoop() runs *)
(* its functor at once; in another thread it queues it.                    *)

Begin(op, to) ==
  /\ Running /\ UserIsIdle /\ op \in UserCalls
  /\ calls' = calls + 1 /\ upc' = to
  /\ \/ inLoop /\ phase # "poll" /\ next = "none" /\ next' = "user"
     \/ ~inLoop /\ UNCHANGED next

Step(from, to) ==
  /\ Running /\ upc = from /\ upc' = to
  /\ next' = IF inLoop /\ to \in {"idle", "gone"} THEN "none" ELSE next

rest == <<phase, active, batch, nextFd, inLoop>>

AtRest ==
  /\ state_ = "kDisconnected" /\ channel_ = "null" /\ retries = 0
  /\ ~RawQueued(functors) /\ next # "restart"

\* connect()
ConnectBegins ==
  /\ Begin("connect", "start1") /\ wanted_' = TRUE /\ stopped' = FALSE
  /\ RaceIf(~AtRest, "reuse")
  /\ UNCHANGED <<connector, functors, failed, retry_, connection_, conn, closeCallback_,
                 clientAlive, removeTimer, uconn, unique, userRef, rest>>

\* Connector::start()
StartSets ==
  /\ Step("start1", "start2") /\ connect_' = TRUE
  /\ UNCHANGED <<state_, channel_, fd, socks, retries, fails, gaveUp, functors, failed,
                 client, uconn, unique, userRef, calls, stopped, rest, races>>

StartRuns ==
  /\ Step("start2", "idle")
  /\ \/ inLoop /\ StartInLoop(state_, connect_, retries, Free) /\ UNCHANGED functors
     \/ /\ ~inLoop /\ functors' = Append(functors, Functor("startInLoop", 0))
        /\ UNCHANGED <<state_, channel_, fd, socks, retries, fails, gaveUp, failed>>
  /\ UNCHANGED <<connect_, client, uconn, unique, userRef, calls, stopped, rest, races>>

\* stop() and disconnect()
CallOff ==
  /\ Begin("stop", "stop1") \/ Begin("disconnect", "shutdown")
  /\ wanted_' = FALSE
  /\ UNCHANGED <<connector, functors, failed, retry_, connection_, conn, closeCallback_,
                 clientAlive, removeTimer, uconn, unique, userRef, stopped, rest, races>>

\* Connector::stop()
StopSets ==
  /\ Step("stop1", "stop2") /\ connect_' = FALSE
  /\ UNCHANGED <<state_, channel_, fd, socks, retries, fails, gaveUp, functors, failed,
                 client, uconn, unique, userRef, calls, stopped, rest, races>>

StopQueues ==
  /\ Step("stop2", "idle") /\ functors' = Append(functors, Functor("stopInLoop", 0))
  /\ stopped' = TRUE
  /\ UNCHANGED <<connector, failed, client, uconn, unique, userRef, calls, rest, races>>

\* connection_->shutdown() under mutex_.
DisconnectShuts ==
  /\ Step("shutdown", "idle")
  /\ conn' = [c \in Fds |-> IF c = connection_ /\ conn[c] = "kConnected"
                              THEN "kDisconnecting" ELSE conn[c]]
  /\ UNCHANGED <<connector, functors, failed, wanted_, retry_, connection_, closeCallback_,
                 clientAlive, removeTimer, uconn, unique, userRef, calls, stopped, rest, races>>

\* ~TcpClient(): connection_ is copied and its use count read under mutex_.
DestroyReads ==
  /\ Begin("destroy", "destroy1")
  /\ uconn' = connection_
  /\ unique' = (connection_ # 0 /\ connection_ \notin userRef /\ ~InFunctor(connection_))
  /\ UNCHANGED <<connector, functors, failed, client, userRef, stopped, rest, races>>

\* setCloseCallback, or the store of Connector::stop().
DestroyDetaches ==
  /\ Step("destroy1", "destroy2")
  /\ \/ /\ uconn # 0 /\ inLoop
        /\ closeCallback_' = [closeCallback_ EXCEPT ![uconn] = "detail"]
        /\ UNCHANGED <<connect_, functors>>
     \/ /\ uconn # 0 /\ ~inLoop
        /\ functors' = Append(functors, Functor("setCloseCallback", uconn))
        /\ UNCHANGED <<connect_, closeCallback_>>
     \/ uconn = 0 /\ connect_' = FALSE /\ UNCHANGED <<functors, closeCallback_>>
  /\ UNCHANGED <<state_, channel_, fd, socks, retries, fails, gaveUp, failed,
                 wanted_, retry_, connection_, conn, clientAlive, removeTimer, uconn, unique,
                 userRef, calls, stopped, rest, races>>

\* forceClose(), if the connection is the client's alone.
ForceClose ==
  IF unique /\ conn[uconn] \in Open
    THEN /\ conn' = [conn EXCEPT ![uconn] = "kDisconnecting"]
         /\ functors' = Append(functors, Functor("forceCloseInLoop", uconn))
    ELSE UNCHANGED <<conn, functors>>

StopAndHold_NoTimer ==
  functors' = Append(functors, Functor("stopInLoop", 0)) /\ UNCHANGED removeTimer

\* The rest of Connector::stop(), and the timer that keeps the Connector.
StopAndHold ==
  LET q == Append(functors, Functor("stopInLoop", 0))
  IN  \/ inLoop /\ functors' = q /\ removeTimer' = TRUE
      \/ ~inLoop /\ functors' = Append(q, Functor("addRemoveTimer", 0)) /\ UNCHANGED removeTimer

\* The end of the destructor, and of the members connection_ and connector_.
DestroyEnds ==
  /\ Step("destroy2", "gone")
  /\ \/ /\ uconn # 0 /\ ForceClose /\ UNCHANGED removeTimer
        /\ races' = races \cup {r \in {"pending"} : RawQueued(functors) \/ channel_ # "null"}
                          \cup {r \in {"dropped"} : ~unique /\ Abandoned(uconn) /\ uconn \notin userRef}
     \/ uconn = 0 /\ StopAndHold /\ UNCHANGED <<conn, races>>
  /\ clientAlive' = FALSE /\ connection_' = 0 /\ uconn' = 0
  /\ UNCHANGED <<connector, failed, wanted_, retry_, closeCallback_, unique, userRef, calls,
                 stopped, rest>>

UserDrops(c) ==
  /\ Running /\ c \in userRef /\ userRef' = userRef \ {c}
  /\ RaceIf(Abandoned(c) /\ connection_ # c /\ uconn # c, "dropped")
  /\ UNCHANGED <<connector, functors, failed, client, loopvars, inLoop, upc, uconn, unique,
                 calls, stopped>>

UserSteps ==
  \/ StartSets \/ StartRuns \/ StopSets \/ StopQueues
  \/ DisconnectShuts \/ DestroyDetaches \/ DestroyEnds

Next ==
  \/ \E ready \in SUBSET Sources : Poll(ready)
  \/ LoopSteps
  \/ ConnectBegins \/ CallOff \/ DestroyReads
  \/ UserSteps
  \/ \E c \in Fds : UserDrops(c)

\* The loop's thread and the user's run; a timer fires and an attempt ends when
\* they are due, because poll() reports a ready descriptor until it is handled.
Reported(s) == \E ready \in SUBSET Sources : s \in ready /\ Poll(ready)
Fairness ==
  /\ WF_vars(LoopSteps) /\ WF_vars(UserSteps)
  /\ WF_vars(\E ready \in SUBSET Sources : Poll(ready))
  /\ \A s \in {"connector", "retry", "removeConnector"} : SF_vars(Reported(<<s, 0>>))

Spec == Init /\ [][Next]_vars /\ Fairness

-----------------------------------------------------------------------------
\* A socket that connect() created is the one of channel_, or on its way to
\* newConnection(), until it is closed or owned by a TcpConnection: no path of
\* connect(), retry(), stopInLoop() and handleWrite() leaks one.
SocketsAccounted ==
  socks = (IF channel_ = "added" THEN {fd} ELSE {})
          \cup (IF next = "newConnection" THEN {nextFd} ELSE {})

\* While none of the races happens, the assertions of Connector.cc and TcpClient.cc
\* hold (startInLoop() finds kDisconnected, connecting() no channel,
\* removeConnection() its own connection), and what the loop still has of the
\* Connector, the client and the connections refers to live objects: functors
\* bound to the bare Connector and its channel (resetChannel() is queued by
\* stopInLoop() after the client is gone), the client's close callback, and
\* connections that are not removed from the loop.
NoDangling ==
  races = {} =>
    /\ failed = "none"
    /\ RawQueued(functors) \/ channel_ # "null" => ConnectorAlive
    /\ \A c \in Fds : conn[c] \in Open /\ closeCallback_[c] = "client" /\ ~ClientGoing
                        => connection_ = c
    /\ \A c \in Fds : conn[c] \in Open \cup {"kDisconnected"} => Held(c)

\* Once stop() has returned and stopInLoop() has run, no attempt is under way
\* and none starts, whatever timers retry() has left behind.
StopIsFinal ==
  /\ stopped /\ races = {} /\ \A i \in DOMAIN functors : functors[i].op # "stopInLoop"
  => state_ # "kConnecting"

\* connect(), and with enableRetry() the loss of a connection, lead to a
\* connection, however often attempts fail (handleError(), retry() and restart()),
\* unless the user calls it off or an error is not retried.
Connects ==
  (connect_ /\ (state_ # "kConnected" \/ (retry_ /\ wanted_)))
    ~> (connection_ # 0 \/ ~connect_ \/ ~wanted_ \/ ~clientAlive \/ gaveUp \/ races # {})

\* After ~TcpClient() nothing is left but connections the user holds: the
\* Connector is freed with its channel reset, and the connections are closed,
\* removed from the loop and freed.
CleanedUp ==
  ~clientAlive ~>
    \/ races # {}
    \/ /\ ~ConnectorAlive /\ channel_ = "null" /\ socks = {}
       /\ \A c \in Fds : conn[c] \in {"none", "destroyed"} \/ c \in userRef
==============================================================================
