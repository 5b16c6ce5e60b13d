------------------------------- MODULE Channel -------------------------------
(***************************************************************************)
(* muduo::net::Channel (muduo/net/Channel.h, Channel.cc) and what EventLoop *)
(* does with channels: the events a channel is interested in, its          *)
(* registration, and one round of dispatching.  EPollPoller and PollPoller *)
(* extend it with the two implementations of Poller.  All of it runs in    *)
(* the loop's thread.                                                      *)
(***************************************************************************)
EXTENDS Integers, FiniteSets

CONSTANTS
  Channels,    \* Channel objects
  Fd,          \* the fd_ of each; a closed fd is reused by another object
  NoChannel

ASSUME ChannelAssumption ==
  /\ Fd \in [Channels -> Nat]
  /\ NoChannel \notin Channels

VARIABLES
  events_,                 \* per channel: subset of Events
  index_,                  \* per channel: the poller's note
  added,                   \* the channels with addedToLoop_
  channels_,               \* Poller: the channel registered for each fd
  eventHandling_,          \* EventLoop: dispatching
  activeChannels_,         \* EventLoop: what the last poll() reported
  unhandled,               \* EventLoop: the part not yet dispatched
  currentActiveChannel_

dispatch == <<eventHandling_, activeChannels_, unhandled, currentActiveChannel_>>
chanvars == <<events_, index_, added, channels_, dispatch>>

Events == {"read", "write"}
Fds == {Fd[c] : c \in Channels}

\* Channel::Channel() for every object, an empty poller.
ChannelInit ==
  /\ events_ = [c \in Channels |-> {}]
  /\ index_ = [c \in Channels |-> -1]
  /\ added = {}
  /\ channels_ = [f \in Fds |-> NoChannel]
  /\ eventHandling_ = FALSE /\ activeChannels_ = {} /\ unhandled = {}
  /\ currentActiveChannel_ = NoChannel

Registered(c) == channels_[Fd[c]] = c

\* The program's duty towards the poller, as its assertions on index() and
\* channels_.find() state it: a channel that is not registered is new to the
\* poller, and no other object is registered for its fd.
MayUpdate(c) == Registered(c) \/ (channels_[Fd[c]] = NoChannel /\ index_[c] = -1)

\* enableReading(), enableWriting(), disableReading(), disableWriting() and
\* disableAll() up to update(): the new value of events_.
NewEvents(c) ==
  {events_[c] \cup {e} : e \in Events} \cup {events_[c] \ {e} : e \in Events} \cup {{}}

\* update(): addedToLoop_ is set; the poller does the rest.
Update(c, evs) ==
  /\ MayUpdate(c)
  /\ events_' = [events_ EXCEPT ![c] = evs]
  /\ added' = added \cup {c}
  /\ UNCHANGED dispatch

MayRemove_Unguarded(c) ==
  /\ c \in added /\ Registered(c) /\ events_[c] = {}

MayRemove_WithEvents(c) ==
  /\ c \in added /\ Registered(c)
  /\ eventHandling_ => currentActiveChannel_ = c \/ c \notin activeChannels_

\* The assertions of Channel::remove(), EventLoop::removeChannel() and
\* Poller::removeChannel(): a channel that waits to be dispatched, or was
\* dispatched in this round, is removed by its own handler only.
MayRemove(c) ==
  /\ c \in added /\ Registered(c) /\ events_[c] = {}
  /\ eventHandling_ => currentActiveChannel_ = c \/ c \notin activeChannels_

\* remove(): the poller's removeChannel() erases the channel from channels_.
Remove(c) ==
  /\ MayRemove(c)
  /\ added' = added \ {c}
  /\ channels_' = [channels_ EXCEPT ![Fd[c]] = NoChannel]
  /\ UNCHANGED <<events_, dispatch>>

\* ~Channel() of a channel that was removed, and Channel() of the next one.
Renew(c) ==
  /\ c \notin added /\ index_[c] # -1 /\ currentActiveChannel_ # c
  /\ index_' = [index_ EXCEPT ![c] = -1]
  /\ UNCHANGED <<events_, added, channels_, dispatch>>

\* loop(): poll() returned, dispatching begins.
BeginHandling(active) ==
  /\ ~eventHandling_
  /\ eventHandling_' = TRUE
  /\ activeChannels_' = active /\ unhandled' = active
  /\ UNCHANGED <<events_, index_, added, channels_, currentActiveChannel_>>

\* loop(): the next channel's handleEvent() is called.
HandleEvent(c) ==
  /\ eventHandling_ /\ c \in unhandled
  /\ currentActiveChannel_' = c
  /\ unhandled' = unhandled \ {c}
  /\ UNCHANGED <<events_, index_, added, channels_, eventHandling_, activeChannels_>>

\* loop(): the last handler returned.
EndHandling ==
  /\ eventHandling_ /\ unhandled = {}
  /\ eventHandling_' = FALSE /\ currentActiveChannel_' = NoChannel
  /\ UNCHANGED <<events_, index_, added, channels_, activeChannels_, unhandled>>

Dispatch == EndHandling \/ \E c \in Channels : HandleEvent(c)

-----------------------------------------------------------------------------
\* loop() never dispatches to a channel that was removed, and possibly
\* destroyed, by an earlier handler of the round.
DispatchToAdded == unhandled \subseteq added
=============================================================================
