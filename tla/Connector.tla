------------------------------ MODULE Connector ------------------------------
(***************************************************************************)
(* muduo::net::Connector (muduo/net/Connector.cc): the functions that run  *)
(* in the loop, as operators that module TcpClient puts into its actions.  *)
(* start(), stop() and restart() are called by TcpClient and modelled      *)
(* there.  The retry delay is left out: a timer fires at any time.         *)
(***************************************************************************)
EXTENDS Naturals, Sequences, FiniteSets

CONSTANTS
  Fds,       \* file descriptors, numbered
  MaxFail    \* bound on failed attempts

ASSUME ConnectorAssumption == Fds \subseteq Nat \ {0} /\ Fds # {} /\ MaxFail \in Nat

VARIABLES
  connect_, state_,
  channel_,        \* "null", "added" to the loop, "removed" and not reset yet
  fd,              \* channel_->fd()
  socks,           \* sockets connect() created that are open and no TcpConnection's
  retries,         \* timers of retry() that have not fired
  fails,           \* failed attempts so far
  gaveUp,          \* the last attempt ended in an error that is not retried
  functors,        \* the loop's pendingFunctors_
  failed           \* the assertion that failed; the process is then aborted

connector == <<connect_, state_, channel_, fd, socks, retries, fails, gaveUp>>

ConnectorInit ==
  /\ connect_ = FALSE /\ state_ = "kDisconnected" /\ channel_ = "null" /\ fd = 0
  /\ socks = {} /\ retries = 0 /\ fails = 0 /\ gaveUp = FALSE
  /\ functors = <<>> /\ failed = "none"

Functor(op, c) == [op |-> op, conn |-> c]

\* Functors bound to the Connector without a shared_ptr to it.
Raw == {"startInLoop", "stopInLoop", "resetChannel"}
RawQueued(q) == \E i \in DOMAIN q : q[i].op \in Raw

Assert(cond, name) == failed' = IF cond THEN failed ELSE name

Retry_NoTimer(sockfd, want, timers) ==
  /\ socks' = socks \ {sockfd}
  /\ state_' = "kDisconnected"
  /\ retries' = timers

Retry_NoClose(sockfd, want, timers) ==
  /\ socks' = socks \cup {sockfd}
  /\ state_' = "kDisconnected"
  /\ retries' = IF want THEN timers + 1 ELSE timers

\* retry(sockfd), where want is the value of connect_ and timers that of retries.
Retry(sockfd, want, timers) ==
  /\ socks' = socks \ {sockfd}
  /\ state_' = "kDisconnected"
  /\ retries' = IF want THEN timers + 1 ELSE timers

\* connecting(sockfd)
Connecting(sockfd) ==
  /\ state_' = "kConnecting"
  /\ Assert(channel_ = "null", "connecting")
  /\ channel_' = "added" /\ fd' = sockfd
  /\ socks' = socks \cup {sockfd}

\* connect(): the kernel gives the lowest free descriptor, and without one
\* createNonblockingOrDie() ends the process; the attempt is under way, or failed
\* in a way that is retried, or in a way that is not.
Connect(want, timers, free) ==
  LET sockfd == CHOOSE f \in free : \A g \in free : f <= g
  IN  /\ free # {}
      /\ \/ /\ Connecting(sockfd)
            /\ gaveUp' = FALSE /\ retries' = timers /\ UNCHANGED fails
         \/ /\ fails < MaxFail /\ fails' = fails + 1
            /\ Retry(sockfd, want, timers) /\ gaveUp' = FALSE
            /\ UNCHANGED <<channel_, fd, failed>>
         \/ /\ fails < MaxFail /\ fails' = fails + 1
            /\ gaveUp' = TRUE /\ state_' = "kDisconnected" /\ retries' = timers
            /\ UNCHANGED <<channel_, fd, socks, failed>>

StartInLoop_Always(st, want, timers, free) ==
  \/ /\ st # "kDisconnected" /\ Assert(FALSE, "startInLoop") /\ retries' = timers
     /\ UNCHANGED <<state_, channel_, fd, socks, fails, gaveUp>>
  \/ st = "kDisconnected" /\ Connect(want, timers, free)

\* startInLoop(), where st, want and timers are the values of state_, connect_
\* and retries.
StartInLoop(st, want, timers, free) ==
  \/ /\ st # "kDisconnected" /\ Assert(FALSE, "startInLoop") /\ retries' = timers
     /\ UNCHANGED <<state_, channel_, fd, socks, fails, gaveUp>>
  \/ st = "kDisconnected" /\ want /\ Connect(want, timers, free)
  \/ /\ st = "kDisconnected" /\ ~want /\ state_' = st /\ retries' = timers
     /\ UNCHANGED <<channel_, fd, socks, fails, gaveUp, failed>>

RemoveAndResetChannel_NoReset(q) == channel_' = "removed" /\ functors' = q /\ UNCHANGED fd

\* removeAndResetChannel(): the reset is left to a functor.
RemoveAndResetChannel(q) ==
  /\ channel_' = "removed"
  /\ functors' = Append(q, Functor("resetChannel", 0))
  /\ UNCHANGED fd

\* stopInLoop()
StopInLoop(q) ==
  \/ state_ = "kConnecting" /\ RemoveAndResetChannel(q) /\ Retry(fd, connect_, retries)
  \/ /\ state_ # "kConnecting" /\ functors' = q
     /\ UNCHANGED <<state_, channel_, fd, socks, retries>>

\* resetChannel()
ResetChannel(q) == channel_' = "null" /\ fd' = 0 /\ functors' = q

\* handleError(), or handleWrite() that finds SO_ERROR or a self-connect.  (After
\* handleError() the same event runs handleWrite(), which finds kDisconnected.)
HandleFailure ==
  /\ fails < MaxFail /\ fails' = fails + 1
  /\ RemoveAndResetChannel(functors) /\ Retry(fd, connect_, retries)

\* The rest of handleWrite(): the socket is connected.  TRUE when
\* newConnectionCallback_ is called with it, and closed otherwise.
HandleWrite(callback) ==
  /\ callback = connect_
  /\ RemoveAndResetChannel(functors)
  /\ state_' = "kConnected"
  /\ socks' = IF connect_ THEN socks ELSE socks \ {fd}
  /\ UNCHANGED <<retries, fails>>
==============================================================================
