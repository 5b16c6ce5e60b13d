----------------------------- MODULE EPollPoller -----------------------------
(***************************************************************************)
(* muduo::net::EPollPoller (muduo/net/poller/EPollPoller.cc): channels_,   *)
(* the state machine kNew, kAdded, kDeleted kept in Channel::index_, and   *)
(* the epoll set of the kernel that it mirrors.                            *)
(***************************************************************************)
EXTENDS Channel

CONSTANTS
  InitEventListSize,   \* kInitEventListSize
  MaxEventListSize     \* bound on events_.size()

ASSUME EventListAssumption ==
  InitEventListSize \in Nat \ {0} /\ MaxEventListSize \in Nat

VARIABLES
  epoll,       \* the kernel's epoll set: per fd the events and data.ptr
  ctlFailed,   \* an epoll_ctl() failed
  size         \* events_.size()

evars == <<chanvars, epoll, ctlFailed, size>>

kNew == -1
kAdded == 1
kDeleted == 2
Unwatched == [ptr |-> NoChannel, events |-> {}]
Watched(f) == epoll[f] # Unwatched

EInit ==
  /\ ChannelInit
  /\ epoll = [f \in Fds |-> Unwatched] /\ ctlFailed = FALSE
  /\ size = InitEventListSize

\* epoll_ctl(): ADD fails with EEXIST, MOD and DEL with ENOENT.
EpollCtl(op, c, evs) ==
  LET ok == (op = "ADD") <=> ~Watched(Fd[c])
  IN  /\ ctlFailed' = (ctlFailed \/ ~ok)
      /\ epoll' = CASE ~ok       -> epoll
                    [] op = "DEL" -> [epoll EXCEPT ![Fd[c]] = Unwatched]
                    [] OTHER      -> [epoll EXCEPT ![Fd[c]] = [ptr |-> c, events |-> evs]]

\* updateChannel(): a new or a deleted channel is added, an added one that has
\* no events left is deleted, otherwise modified.
UpdateChannel(c, evs) ==
  \/ /\ index_[c] \in {kNew, kDeleted}
     /\ channels_' = [channels_ EXCEPT ![Fd[c]] = c]
     /\ index_' = [index_ EXCEPT ![c] = kAdded]
     /\ EpollCtl("ADD", c, evs)
  \/ /\ index_[c] = kAdded /\ evs = {}
     /\ EpollCtl("DEL", c, evs)
     /\ index_' = [index_ EXCEPT ![c] = kDeleted]
     /\ UNCHANGED channels_
  \/ /\ index_[c] = kAdded /\ evs # {}
     /\ EpollCtl("MOD", c, evs)
     /\ UNCHANGED <<index_, channels_>>

RemoveChannel_NoDel(c) ==
  /\ index_' = [index_ EXCEPT ![c] = kNew]
  /\ UNCHANGED <<epoll, ctlFailed>>

\* removeChannel() after channels_.erase().
RemoveChannel(c) ==
  /\ index_' = [index_ EXCEPT ![c] = kNew]
  /\ IF index_[c] = kAdded THEN EpollCtl("DEL", c, {}) ELSE UNCHANGED <<epoll, ctlFailed>>

\* What epoll_wait() may return: any channels in the epoll set, as many as fit;
\* one watched for nothing can still report an error or a hang-up.
Reportable == {epoll[f].ptr : f \in {g \in Fds : Watched(g)}}

\* poll(): fillActiveChannels(), then events_ is doubled when it was full.
Poll ==
  \E active \in SUBSET Reportable :
    /\ Cardinality(active) <= size
    /\ BeginHandling(active)
    /\ size' = IF Cardinality(active) = size /\ 2 * size <= MaxEventListSize
               THEN 2 * size ELSE size
    /\ UNCHANGED <<epoll, ctlFailed>>

ENext ==
  \/ \E c \in Channels : \E evs \in NewEvents(c) :
       Update(c, evs) /\ UpdateChannel(c, evs) /\ UNCHANGED size
  \/ \E c \in Channels : Remove(c) /\ RemoveChannel(c) /\ UNCHANGED size
  \/ Dispatch /\ UNCHANGED <<epoll, ctlFailed, size>>
  \/ Poll

-----------------------------------------------------------------------------
\* The kernel watches, for each fd, exactly the channel registered for it with
\* index kAdded, with the channel's own events; so every event that epoll_wait()
\* reports carries a pointer to a registered channel.  And no epoll_ctl() fails,
\* whatever the order of enabling, disabling, removing and reuse of fds: a failed
\* ADD or MOD would abort the process.
EpollMirrorsChannels ==
  /\ ~ctlFailed
  /\ \A c \in Channels :
       /\ index_[c] = kAdded => epoll[Fd[c]] = [ptr |-> c, events |-> events_[c]]
       /\ index_[c] # kAdded => epoll[Fd[c]].ptr # c
       /\ index_[c] = kDeleted => events_[c] = {} /\ ~Watched(Fd[c])

\* The events the kernel watches for a channel.
EWatch(c) == IF epoll[Fd[c]].ptr = c THEN epoll[Fd[c]].events ELSE {}
=============================================================================
