--------------------------- MODULE DefaultPoller ---------------------------
(***************************************************************************)
(* Poller::newDefaultPoller() (muduo/net/poller/DefaultPoller.cc): the     *)
(* environment chooses PollPoller or EPollPoller when the loop is made,    *)
(* and the loop uses either through the same interface, PollerSpec.        *)
(***************************************************************************)
EXTENDS EPollPoller, Sequences

VARIABLES
  pollfds_, silent, aborted,   \* of the PollPoller
  usePoll                      \* MUDUO_USE_POLL is set

P == INSTANCE PollPoller

pollvars == <<pollfds_, silent, aborted>>
vars == <<evars, pollvars, usePoll>>

\* newDefaultPoller(), for every channel's constructor.
Init == EInit /\ P!PPInit /\ usePoll \in BOOLEAN

Next ==
  \/ ~usePoll /\ ENext /\ UNCHANGED <<pollvars, usePoll>>
  \/ usePoll /\ P!PPNext /\ UNCHANGED <<epoll, ctlFailed, size, usePoll>>

Spec == Init /\ [][Next]_vars

\* The poller knows the added channels, and what the kernel is asked to watch is
\* what they want: the epoll set of EPollPoller through Channel::index_ as a
\* state, the array of PollPoller through index_ as a position.
KernelMirrorsChannels ==
  /\ \A c \in Channels : c \in added <=> Registered(c)
  /\ IF usePoll THEN P!IndexFindsPollfd ELSE EpollMirrorsChannels

\* Either poller does what a Poller promises.
Watch(c) == IF usePoll THEN P!PPWatch(c) ELSE EWatch(c)
Abstract == INSTANCE PollerSpec WITH
  members <- added, wanted <- events_,
  watch <- [c \in Channels |-> Watch(c)],
  reported <- activeChannels_
ImplementsPoller == Abstract!PSpec
=============================================================================
