---------------------------- MODULE PollerProofs ----------------------------
(***************************************************************************)
(* Theorems about the two pollers, for any channels and any descriptors    *)
(* they share: the kernel is asked to watch what the channels want, a      *)
(* removed channel is never dispatched to, and PollerSpec is implemented.  *)
(***************************************************************************)
EXTENDS DefaultPoller, SequenceTheorems, TLAPS

-----------------------------------------------------------------------------
(* The inductive invariant.                                                *)

\* Channels, their registration, and that a channel wants nothing unless added.
ChannelInv ==
  /\ events_ \in [Channels -> SUBSET Events] /\ index_ \in [Channels -> Int]
  /\ added \subseteq Channels
  /\ channels_ \in [Fds -> Channels \cup {NoChannel}]
  /\ \A c \in Channels : c \in added <=> Registered(c)
  /\ \A c \in Channels \ added : events_[c] = {}

\* A round of dispatching.
DispatchInv ==
  /\ unhandled \subseteq added /\ unhandled \subseteq activeChannels_
  /\ currentActiveChannel_ \notin unhandled
  /\ ~eventHandling_ => unhandled = {} /\ currentActiveChannel_ = NoChannel

\* EPollPoller: index_ says whether a channel is added, and every entry of the
\* epoll set is that of an added channel, with its events.
EpollInv ==
  /\ ~ctlFailed
  /\ epoll \in [Fds -> [ptr : Channels \cup {NoChannel}, events : SUBSET Events]]
  /\ \A c \in Channels :
       /\ c \in added <=> index_[c] \in {kAdded, kDeleted}
       /\ c \notin added <=> index_[c] = kNew
       /\ index_[c] = kAdded => epoll[Fd[c]] = [ptr |-> c, events |-> events_[c]]
       /\ index_[c] = kDeleted => events_[c] = {} /\ epoll[Fd[c]] = Unwatched
  /\ \A f \in Fds :
       epoll[f] # Unwatched =>
         \E c \in Channels : Fd[c] = f /\ epoll[f].ptr = c /\ index_[c] = kAdded

\* PollPoller: the positions idx of the channels add, with the events evs, and the
\* pollfds s correspond; a pollfd is ignored if its channel has no events and is
\* not one of sil.
Pollfd == [fd : Int, events : SUBSET Events]
StandsFor(pf) == IF pf.fd < 0 THEN -pf.fd - 1 ELSE pf.fd
Own(c, evs, sil) ==
  [fd |-> IF evs = {} /\ c \notin sil THEN -Fd[c] - 1 ELSE Fd[c], events |-> evs]
Correspond(s, idx, add, evs, sil) ==
  /\ s \in Seq(Pollfd)
  /\ \A c \in add :
       /\ idx[c] + 1 \in 1 .. Len(s)
       /\ s[idx[c] + 1] = Own(c, evs[c], sil)
  /\ \A i \in 1 .. Len(s) : \E c \in add : idx[c] + 1 = i
PollInv == Correspond(pollfds_, index_, added, events_, silent)

\* The one removal whose assertion fails.
AbortInv == aborted => \E c \in added \cap silent : events_[c] = {}

IInv ==
  /\ ChannelInv /\ DispatchInv /\ usePoll \in BOOLEAN
  /\ ~usePoll => EpollInv
  /\ usePoll => PollInv /\ AbortInv

-----------------------------------------------------------------------------
(* What both pollers do to channels and dispatching.                       *)

\* Channel::update() with the poller's registration of the channel.
LEMMA UpdateKeeps ==
  ASSUME NEW c \in Channels, NEW evs \in SUBSET Events,
         ChannelInv, DispatchInv, MayUpdate(c),
         events_' = [events_ EXCEPT ![c] = evs], added' = added \cup {c},
         channels_' = [channels_ EXCEPT ![Fd[c]] = c],
         index_' \in [Channels -> Int], UNCHANGED dispatch
  PROVE  ChannelInv' /\ DispatchInv'
<1>1. Fd[c] \in Fds /\ \A d \in Channels : Fd[d] \in Fds
  BY DEF Fds
<1>2. DispatchInv'
  BY DEF DispatchInv, dispatch
<1>3. \A d \in Channels : channels_'[Fd[d]] = IF Fd[d] = Fd[c] THEN c ELSE channels_[Fd[d]]
  BY <1>1 DEF ChannelInv
<1>4. \A d \in Channels : d \in added' <=> channels_'[Fd[d]] = d
  BY <1>3, ChannelAssumption DEF ChannelInv, MayUpdate, Registered
<1>5. \A d \in Channels \ added' : events_'[d] = {}
  BY DEF ChannelInv
<1>6. channels_' \in [Fds -> Channels \cup {NoChannel}]
  BY Zenon DEF ChannelInv
<1>7. events_' \in [Channels -> SUBSET Events] /\ added' \subseteq Channels
  BY DEF ChannelInv
<1> QED
  BY <1>2, <1>4, <1>5, <1>6, <1>7 DEF ChannelInv, Registered

\* Channel::remove() with the poller's erase of the channel.
LEMMA RemoveKeeps ==
  ASSUME NEW c \in Channels, ChannelInv, DispatchInv, Remove(c),
         index_' \in [Channels -> Int]
  PROVE  ChannelInv' /\ DispatchInv'
<1>1. Fd[c] \in Fds /\ \A d \in Channels : Fd[d] \in Fds
  BY DEF Fds
<1>2. c \notin unhandled
  BY DEF Remove, MayRemove, DispatchInv
<1>3. DispatchInv'
  BY <1>2 DEF DispatchInv, dispatch, Remove
<1>4. \A d \in Channels :
        channels_'[Fd[d]] = IF Fd[d] = Fd[c] THEN NoChannel ELSE channels_[Fd[d]]
  BY <1>1 DEF ChannelInv, Remove
<1>5. \A d \in Channels : d \in added' <=> channels_'[Fd[d]] = d
  BY <1>4, ChannelAssumption DEF ChannelInv, Remove, MayRemove, Registered
<1>6. \A d \in Channels \ added' : events_'[d] = {}
  BY DEF ChannelInv, Remove, MayRemove
<1>7. channels_' \in [Fds -> Channels \cup {NoChannel}]
  BY Zenon DEF ChannelInv, Remove
<1>8. events_' \in [Channels -> SUBSET Events] /\ added' \subseteq Channels
  BY DEF ChannelInv, Remove
<1> QED
  BY <1>3, <1>5, <1>6, <1>7, <1>8 DEF ChannelInv, Registered

\* One dispatch step, or the end of a round.
LEMMA DispatchKeeps ==
  ASSUME ChannelInv, DispatchInv, Dispatch
  PROVE  /\ ChannelInv' /\ DispatchInv'
         /\ UNCHANGED <<events_, index_, added, channels_, activeChannels_>>
<1>1. UNCHANGED <<events_, index_, added, channels_, activeChannels_>>
  BY DEF Dispatch, EndHandling, HandleEvent
<1>2. ChannelInv'
  BY <1>1 DEF ChannelInv, Registered
<1>3. CASE EndHandling
  BY <1>1, <1>3, <1>2 DEF EndHandling, DispatchInv
<1>4. ASSUME NEW c \in Channels, HandleEvent(c) PROVE DispatchInv'
  BY <1>4 DEF HandleEvent, DispatchInv
<1> QED
  BY <1>1, <1>2, <1>3, <1>4 DEF Dispatch

\* poll() that reports added channels.
LEMMA PollKeeps ==
  ASSUME NEW active, active \subseteq added, ChannelInv, DispatchInv, BeginHandling(active)
  PROVE  ChannelInv' /\ DispatchInv'
  BY ChannelAssumption DEF BeginHandling, ChannelInv, DispatchInv, Registered

\* What enableReading() and its like ask for are events.
LEMMA NewEventsAreEvents ==
  ASSUME NEW c \in Channels, ChannelInv PROVE NewEvents(c) \subseteq SUBSET Events
  BY DEF NewEvents, ChannelInv

-----------------------------------------------------------------------------
(* EPollPoller.                                                            *)

\* epoll_ctl() succeeds where updateChannel() and removeChannel() call it, and
\* has its effect on the one descriptor.
LEMMA EpollCtlSucceeds ==
  ASSUME NEW op \in {"ADD", "MOD", "DEL"}, NEW c \in Channels, NEW evs \in SUBSET Events,
         ChannelInv, EpollInv, EpollCtl(op, c, evs), op = "ADD" <=> ~Watched(Fd[c])
  PROVE  /\ ~ctlFailed'
         /\ epoll' = [epoll EXCEPT ![Fd[c]] =
                        IF op = "DEL" THEN Unwatched ELSE [ptr |-> c, events |-> evs]]
  BY Zenon DEF EpollInv, EpollCtl

\* A channel that is not in the epoll set leaves its descriptor unwatched, as
\* nobody else is registered for it.
LEMMA WatchedIfAdded ==
  ASSUME NEW c \in Channels, ChannelInv, EpollInv, MayUpdate(c)
  PROVE  Watched(Fd[c]) <=> index_[c] = kAdded
<1>1. Fd[c] \in Fds
  BY DEF Fds
<1>2. ASSUME Watched(Fd[c]) PROVE index_[c] = kAdded
  <2>1. PICK d \in Channels : Fd[d] = Fd[c] /\ index_[d] = kAdded
    BY <1>1, <1>2 DEF EpollInv, Watched
  <2>2. d \in added
    BY <2>1, Zenon DEF EpollInv
  <2>3. channels_[Fd[c]] = d
    BY <2>1, <2>2 DEF ChannelInv, Registered
  <2>4. d = c
    BY <2>3, ChannelAssumption DEF MayUpdate, Registered
  <2> QED
    BY <2>1, <2>4
<1>3. ASSUME index_[c] = kAdded PROVE Watched(Fd[c])
  <2>1. epoll[Fd[c]] = [ptr |-> c, events |-> events_[c]]
    BY <1>3 DEF EpollInv
  <2> QED
    BY <2>1, ChannelAssumption DEF Watched, Unwatched
<1> QED
  BY <1>2, <1>3

\* An entry of the epoll set points to a channel with index kAdded.
LEMMA EntryOfAdded ==
  ASSUME NEW c \in Channels, EpollInv, index_[c] # kAdded
  PROVE  epoll[Fd[c]].ptr # c
<1>1. SUFFICES ASSUME epoll[Fd[c]].ptr = c PROVE FALSE
  OBVIOUS
<1>2. epoll[Fd[c]] # Unwatched /\ Fd[c] \in Fds
  BY <1>1, ChannelAssumption DEF Unwatched, Fds
<1> QED
  BY <1>1, <1>2 DEF EpollInv

\* The distinct values of index_.
LEMMA Indices == kNew # kAdded /\ kNew # kDeleted /\ kAdded # kDeleted
  BY DEF kNew, kAdded, kDeleted

\* updateChannel() in each of its three cases.
LEMMA EpollUpdateKeeps ==
  ASSUME NEW c \in Channels, NEW evs \in NewEvents(c), ChannelInv, DispatchInv, EpollInv,
         Update(c, evs), UpdateChannel(c, evs)
  PROVE  ChannelInv' /\ DispatchInv' /\ EpollInv'
<1>1. evs \in SUBSET Events
  BY NewEventsAreEvents
<1>2. MayUpdate(c) /\ Fd[c] \in Fds /\ \A d \in Channels : Fd[d] \in Fds
  BY DEF Update, Fds
<1>3. index_[c] = kAdded \/ index_[c] = kDeleted => Registered(c)
  BY Zenon DEF EpollInv, ChannelInv
<1>4. channels_' = [channels_ EXCEPT ![Fd[c]] = c]
  BY <1>2, <1>3 DEF UpdateChannel, Registered, ChannelInv
<1>5. index_' = [index_ EXCEPT ![c] = IF index_[c] = kAdded /\ evs = {} THEN kDeleted ELSE kAdded]
  BY Indices DEF UpdateChannel, ChannelInv
<1>6. index_' \in [Channels -> Int]
  BY <1>5 DEF ChannelInv, kAdded, kDeleted
<1>7. ChannelInv' /\ DispatchInv'
  BY <1>1, <1>2, <1>4, <1>6, UpdateKeeps, Zenon DEF Update
<1>8. /\ ~ctlFailed'
      /\ epoll' = [epoll EXCEPT ![Fd[c]] =
                     IF index_[c] = kAdded /\ evs = {} THEN Unwatched
                     ELSE [ptr |-> c, events |-> evs]]
  <2>1. Watched(Fd[c]) <=> index_[c] = kAdded
    BY <1>2, WatchedIfAdded
  <2>2. CASE index_[c] \in {kNew, kDeleted}
    <3>1. EpollCtl("ADD", c, evs)
      BY <2>2, Indices DEF UpdateChannel
    <3> QED
      BY <1>1, <2>1, <2>2, <3>1, EpollCtlSucceeds, Indices
  <2>3. CASE index_[c] = kAdded /\ evs = {}
    <3>1. EpollCtl("DEL", c, evs)
      BY <2>3, Indices DEF UpdateChannel
    <3> QED
      BY <1>1, <2>1, <2>3, <3>1, EpollCtlSucceeds
  <2>4. CASE index_[c] = kAdded /\ evs # {}
    <3>1. EpollCtl("MOD", c, evs)
      BY <2>4, Indices DEF UpdateChannel
    <3> QED
      BY <1>1, <2>1, <2>4, <3>1, EpollCtlSucceeds
  <2> QED
    BY <2>2, <2>3, <2>4, Zenon DEF EpollInv
<1>9. EpollInv'
  <2>1. epoll' \in [Fds -> [ptr : Channels \cup {NoChannel}, events : SUBSET Events]]
    BY <1>1, <1>8, Zenon DEF EpollInv, Unwatched
  <2>2. \A d \in Channels : index_'[d] = IF d = c THEN index_'[c] ELSE index_[d]
    BY <1>5 DEF ChannelInv
  <2>3. \A f \in Fds : epoll'[f] = IF f = Fd[c] THEN epoll'[Fd[c]] ELSE epoll[f]
    BY <1>8 DEF EpollInv
  <2>4. \A d \in Channels : events_'[d] = IF d = c THEN evs ELSE events_[d]
    BY DEF Update, ChannelInv
  <2>5. ASSUME NEW d \in Channels, d # c, d \in added PROVE Fd[d] # Fd[c]
    BY <2>5, <1>2, ChannelAssumption DEF ChannelInv, Registered, MayUpdate
  <2>6. index_'[c] \in {kAdded, kDeleted} /\ added' = added \cup {c}
    BY <1>5 DEF ChannelInv, Update
  <2>7. /\ index_'[c] = kAdded => epoll'[Fd[c]] = [ptr |-> c, events |-> evs]
        /\ index_'[c] = kDeleted => evs = {} /\ epoll'[Fd[c]] = Unwatched
    BY <1>2, <1>5, <1>8, Indices DEF EpollInv, ChannelInv
  <2>8. \A d \in Channels :
          /\ d \in added' <=> index_'[d] \in {kAdded, kDeleted}
          /\ d \notin added' <=> index_'[d] = kNew
          /\ index_'[d] = kAdded => epoll'[Fd[d]] = [ptr |-> d, events |-> events_'[d]]
          /\ index_'[d] = kDeleted => events_'[d] = {} /\ epoll'[Fd[d]] = Unwatched
    BY <1>2, <2>2, <2>3, <2>4, <2>5, <2>6, <2>7, Indices DEF EpollInv
  <2>9. ASSUME NEW f \in Fds, epoll'[f] # Unwatched
        PROVE  \E d \in Channels : Fd[d] = f /\ epoll'[f].ptr = d /\ index_'[d] = kAdded
    <3>1. CASE f = Fd[c]
      BY <2>6, <2>7, <2>9, <3>1
    <3>2. CASE f # Fd[c]
      BY <2>2, <2>3, <2>9, <3>2 DEF EpollInv
    <3> QED
      BY <3>1, <3>2
  <2> QED
    BY <1>8, <2>1, <2>8, <2>9, Zenon DEF EpollInv, kAdded, kDeleted, kNew, Unwatched
<1> QED
  BY <1>7, <1>9

\* removeChannel().
LEMMA EpollRemoveKeeps ==
  ASSUME NEW c \in Channels, ChannelInv, DispatchInv, EpollInv, Remove(c), RemoveChannel(c)
  PROVE  ChannelInv' /\ DispatchInv' /\ EpollInv'
<1>1. Fd[c] \in Fds /\ \A d \in Channels : Fd[d] \in Fds
  BY DEF Fds
<1>2. index_' = [index_ EXCEPT ![c] = kNew] /\ added' = added \ {c} /\ events_' = events_
  BY DEF Remove, RemoveChannel
<1>3. index_' \in [Channels -> Int]
  BY <1>2 DEF ChannelInv, kNew
<1>4. ChannelInv' /\ DispatchInv'
  BY <1>3, RemoveKeeps
<1>5. c \in added /\ Registered(c) /\ MayUpdate(c)
  BY DEF Remove, MayRemove, MayUpdate
<1>6. ~ctlFailed' /\ epoll' = [epoll EXCEPT ![Fd[c]] = Unwatched]
  <2>1. Watched(Fd[c]) <=> index_[c] = kAdded
    BY <1>5, WatchedIfAdded
  <2>2. CASE index_[c] = kAdded
    <3>1. EpollCtl("DEL", c, {})
      BY <2>2 DEF RemoveChannel
    <3> QED
      BY <2>1, <2>2, <3>1, EpollCtlSucceeds
  <2>3. CASE index_[c] # kAdded
    <3>1. ~ctlFailed' /\ epoll' = epoll
      BY <2>3 DEF RemoveChannel, EpollInv
    <3>2. epoll[Fd[c]] = Unwatched
      BY <2>1, <2>3 DEF Watched
    <3> QED
      BY <1>1, <3>1, <3>2 DEF EpollInv
  <2> QED
    BY <2>2, <2>3
<1>7. epoll' \in [Fds -> [ptr : Channels \cup {NoChannel}, events : SUBSET Events]]
  BY <1>6, Zenon DEF EpollInv, Unwatched
<1>8. \A d \in Channels : index_'[d] = IF d = c THEN kNew ELSE index_[d]
  BY <1>2 DEF ChannelInv
<1>9. \A f \in Fds : epoll'[f] = IF f = Fd[c] THEN Unwatched ELSE epoll[f]
  BY <1>6 DEF EpollInv
<1>10. ASSUME NEW d \in Channels, d # c, d \in added PROVE Fd[d] # Fd[c]
  BY <1>5, <1>10 DEF ChannelInv, Registered
<1>11. \A d \in Channels :
         /\ d \in added' <=> index_'[d] \in {kAdded, kDeleted}
         /\ d \notin added' <=> index_'[d] = kNew
         /\ index_'[d] = kAdded => epoll'[Fd[d]] = [ptr |-> d, events |-> events_'[d]]
         /\ index_'[d] = kDeleted => events_'[d] = {} /\ epoll'[Fd[d]] = Unwatched
  BY <1>1, <1>2, <1>8, <1>9, <1>10, Indices DEF EpollInv
<1>12. ASSUME NEW f \in Fds, epoll'[f] # Unwatched
       PROVE  \E d \in Channels : Fd[d] = f /\ epoll'[f].ptr = d /\ index_'[d] = kAdded
  <2>1. f # Fd[c] /\ epoll'[f] = epoll[f]
    BY <1>9, <1>12
  <2> QED
    BY <1>8, <1>12, <2>1 DEF EpollInv
<1> QED
  BY <1>4, <1>6, <1>7, <1>11, <1>12, Zenon DEF EpollInv, kAdded, kDeleted, kNew, Unwatched

\* epoll_wait() reports added channels only.
LEMMA EpollReportsAdded ==
  ASSUME ChannelInv, EpollInv PROVE Reportable \subseteq added
<1> SUFFICES ASSUME NEW f \in Fds, Watched(f) PROVE epoll[f].ptr \in added
  BY DEF Reportable
<1>1. PICK c \in Channels : epoll[f].ptr = c /\ index_[c] = kAdded
  BY DEF EpollInv, Watched
<1> QED
  BY <1>1, Zenon DEF EpollInv

\* A step that touches neither the epoll set nor what it is to hold.
LEMMA EpollSame ==
  ASSUME EpollInv, UNCHANGED <<epoll, ctlFailed, index_, added, events_>>
  PROVE  EpollInv'
<1>1. epoll' = epoll /\ ctlFailed' = ctlFailed /\ index_' = index_ /\ added' = added
      /\ events_' = events_
  OBVIOUS
<1>2. ~ctlFailed' /\ epoll' \in [Fds -> [ptr : Channels \cup {NoChannel}, events : SUBSET Events]]
  BY <1>1 DEF EpollInv
<1>3. \A c \in Channels :
        /\ c \in added' <=> index_'[c] \in {kAdded, kDeleted}
        /\ c \notin added' <=> index_'[c] = kNew
        /\ index_'[c] = kAdded => epoll'[Fd[c]] = [ptr |-> c, events |-> events_'[c]]
        /\ index_'[c] = kDeleted => events_'[c] = {} /\ epoll'[Fd[c]] = Unwatched
  BY <1>1 DEF EpollInv
<1>4. \A f \in Fds :
        epoll'[f] # Unwatched =>
          \E c \in Channels : Fd[c] = f /\ epoll'[f].ptr = c /\ index_'[c] = kAdded
  BY <1>1 DEF EpollInv
<1> QED
  BY <1>2, <1>3, <1>4 DEF EpollInv

\* Every step of a loop with an EPollPoller keeps the invariant.
LEMMA EpollKeeps ==
  ASSUME ChannelInv, DispatchInv, EpollInv, ENext
  PROVE  ChannelInv' /\ DispatchInv' /\ EpollInv'
<1>1. ASSUME NEW c \in Channels, NEW evs \in NewEvents(c), Update(c, evs), UpdateChannel(c, evs)
      PROVE  ChannelInv' /\ DispatchInv' /\ EpollInv'
  BY <1>1, EpollUpdateKeeps
<1>2. ASSUME NEW c \in Channels, Remove(c), RemoveChannel(c)
      PROVE  ChannelInv' /\ DispatchInv' /\ EpollInv'
  BY <1>2, EpollRemoveKeeps
<1>3. ASSUME UNCHANGED <<epoll, ctlFailed, index_, added, events_>> PROVE EpollInv'
  BY <1>3, EpollSame
<1>4. CASE Dispatch /\ UNCHANGED <<epoll, ctlFailed, size>>
  BY <1>3, <1>4, DispatchKeeps
<1>5. CASE Poll
  <2>1. PICK active \in SUBSET Reportable :
          BeginHandling(active) /\ UNCHANGED <<epoll, ctlFailed>>
    BY <1>5 DEF Poll
  <2>2. active \subseteq added
    BY EpollReportsAdded
  <2>3. ChannelInv' /\ DispatchInv'
    BY <2>1, <2>2, PollKeeps
  <2> QED
    BY <1>3, <2>1, <2>3 DEF BeginHandling
<1> QED
  BY <1>1, <1>2, <1>4, <1>5 DEF ENext

-----------------------------------------------------------------------------
(* PollPoller.                                                             *)

\* The position of an added channel, and what is there.
LEMMA PositionOfAdded ==
  ASSUME NEW c \in added, ChannelInv, PollInv
  PROVE  /\ c \in Channels /\ Fd[c] \in Nat /\ index_[c] \in 0 .. Len(pollfds_) - 1
         /\ pollfds_[index_[c] + 1] = Own(c, events_[c], silent)
         /\ StandsFor(pollfds_[index_[c] + 1]) = Fd[c]
         /\ pollfds_[index_[c] + 1].events = events_[c]
<1>1. c \in Channels /\ index_[c] \in Int /\ Fd[c] \in Nat
  BY ChannelAssumption DEF ChannelInv
<1>2. index_[c] + 1 \in 1 .. Len(pollfds_) /\ Len(pollfds_) \in Nat
  BY DEF PollInv, Correspond
<1>3. index_[c] \in 0 .. Len(pollfds_) - 1
  BY <1>1, <1>2
<1>4. pollfds_[index_[c] + 1] = Own(c, events_[c], silent)
  BY DEF PollInv, Correspond
<1>5. StandsFor(Own(c, events_[c], silent)) = Fd[c] /\ Own(c, events_[c], silent).events = events_[c]
  BY <1>1 DEF StandsFor, Own
<1> QED
  BY <1>1, <1>3, <1>4, <1>5

\* Added channels have positions and descriptors of their own.
LEMMA PositionsDiffer ==
  ASSUME NEW c \in added, NEW d \in added, c # d, ChannelInv, PollInv
  PROVE  Fd[c] # Fd[d] /\ index_[c] # index_[d]
<1>1. channels_[Fd[c]] = c /\ channels_[Fd[d]] = d
  BY DEF ChannelInv, Registered
<1>2. StandsFor(pollfds_[index_[c] + 1]) = Fd[c] /\ StandsFor(pollfds_[index_[d] + 1]) = Fd[d]
  BY PositionOfAdded
<1> QED
  BY <1>1, <1>2

\* A sequence without its last element.
LEMMA FrontOfSequence ==
  ASSUME NEW S, NEW s \in Seq(S), Len(s) > 0
  PROVE  LET front == SubSeq(s, 1, Len(s) - 1) IN
         /\ front \in Seq(S) /\ Len(front) = Len(s) - 1
         /\ \A i \in 1 .. Len(s) - 1 : front[i] = s[i]
<1> DEFINE n == Len(s) - 1
<1>1. n \in Nat /\ \A i \in 1 .. n : s[i] \in S
  BY LenProperties
<1> HIDE DEF n
<1>2. /\ SubSeq(s, 1, n) \in Seq(S)
      /\ Len(SubSeq(s, 1, n)) = IF 1 <= n THEN n - 1 + 1 ELSE 0
      /\ \A i \in 1 .. n - 1 + 1 : SubSeq(s, 1, n)[i] = s[1 + i - 1]
  BY <1>1, SubSeqProperties
<1>3. Len(SubSeq(s, 1, n)) = n /\ \A i \in 1 .. n : SubSeq(s, 1, n)[i] = s[i]
  BY <1>1, <1>2
<1> QED
  BY <1>2, <1>3 DEF n

\* updateChannel() of a new channel: its pollfd is appended.
LEMMA PollAppendKeeps ==
  ASSUME NEW c \in Channels, NEW evs \in SUBSET Events, ChannelInv, PollInv,
         index_[c] < 0,
         pollfds_' = Append(pollfds_, [fd |-> Fd[c], events |-> evs]),
         index_' = [index_ EXCEPT ![c] = Len(pollfds_)],
         silent' = IF evs = {} THEN silent \cup {c} ELSE silent,
         events_' = [events_ EXCEPT ![c] = evs], added' = added \cup {c}
  PROVE  PollInv'
<1> DEFINE pf == [fd |-> Fd[c], events |-> evs]
<1>1. Fd[c] \in Nat /\ pf \in Pollfd
  BY ChannelAssumption DEF Pollfd
<1>2. pollfds_ \in Seq(Pollfd) /\ Len(pollfds_) \in Nat
  BY DEF PollInv, Correspond
<1>3. pollfds_' \in Seq(Pollfd) /\ Len(pollfds_') = Len(pollfds_) + 1
  BY <1>1, <1>2
<1>4. /\ \A i \in 1 .. Len(pollfds_) : pollfds_'[i] = pollfds_[i]
      /\ pollfds_'[Len(pollfds_) + 1] = pf
  BY <1>1, <1>2
<1>5. c \notin added
  BY PositionOfAdded
<1>6. /\ \A d \in added : index_'[d] = index_[d] /\ events_'[d] = events_[d]
      /\ index_'[c] = Len(pollfds_) /\ events_'[c] = evs
  BY <1>5 DEF ChannelInv
<1>7. ASSUME NEW d \in added'
      PROVE  /\ index_'[d] + 1 \in 1 .. Len(pollfds_')
             /\ pollfds_'[index_'[d] + 1] = Own(d, events_'[d], silent')
  <2>1. CASE d = c
    <3>1. pf = Own(c, evs, silent')
      BY DEF Own
    <3> HIDE DEF pf
    <3> QED
      BY <1>2, <1>3, <1>4, <1>6, <2>1, <3>1
  <2>2. CASE d \in added
    <3>1. index_[d] \in 0 .. Len(pollfds_) - 1
      BY <2>2, PositionOfAdded
    <3>2. pollfds_'[index_'[d] + 1] = pollfds_[index_[d] + 1] /\ index_'[d] = index_[d]
      BY <1>2, <1>4, <1>6, <2>2, <3>1
    <3>3. index_'[d] + 1 \in 1 .. Len(pollfds_')
      BY <1>2, <1>3, <3>1, <3>2
    <3>4. Own(d, events_[d], silent') = Own(d, events_[d], silent)
      BY <1>5, <2>2 DEF Own
    <3> QED
      BY <1>6, <2>2, <3>2, <3>3, <3>4, PositionOfAdded
  <2> QED
    BY <2>1, <2>2
<1>8. ASSUME NEW i \in 1 .. Len(pollfds_') PROVE \E d \in added' : index_'[d] + 1 = i
  <2>1. CASE i = Len(pollfds_) + 1
    BY <1>2, <1>6, <2>1
  <2>2. CASE i \in 1 .. Len(pollfds_)
    <3>1. PICK d \in added : index_[d] + 1 = i
      BY <2>2 DEF PollInv, Correspond
    <3> QED
      BY <1>6, <3>1
  <2> QED
    BY <1>2, <1>3, <2>1, <2>2
<1> QED
  BY <1>3, <1>7, <1>8 DEF PollInv, Correspond

\* updateChannel() of an added channel: its pollfd is rewritten.
LEMMA PollRewriteKeeps ==
  ASSUME NEW c \in added, NEW evs \in SUBSET Events, ChannelInv, PollInv,
         pollfds_' = [pollfds_ EXCEPT ![index_[c] + 1] =
                        [fd |-> IF evs = {} THEN -Fd[c] - 1 ELSE Fd[c], events |-> evs]],
         silent' = silent \ {c},
         index_' = index_, events_' = [events_ EXCEPT ![c] = evs], added' = added
  PROVE  PollInv'
<1> DEFINE pf == [fd |-> IF evs = {} THEN -Fd[c] - 1 ELSE Fd[c], events |-> evs]
<1>1. Fd[c] \in Nat /\ pf \in Pollfd
  BY PositionOfAdded DEF Pollfd
<1>2. pollfds_ \in Seq(Pollfd) /\ Len(pollfds_) \in Nat
  BY DEF PollInv, Correspond
<1>3. index_[c] + 1 \in 1 .. Len(pollfds_)
  BY <1>2, PositionOfAdded
<1>4. pollfds_' \in Seq(Pollfd) /\ Len(pollfds_') = Len(pollfds_)
  BY <1>1, <1>2, <1>3
<1>5. \A i \in 1 .. Len(pollfds_) :
        pollfds_'[i] = IF i = index_[c] + 1 THEN pf ELSE pollfds_[i]
  BY <1>2, <1>3
<1>6. ASSUME NEW d \in added
      PROVE  /\ index_[d] + 1 \in 1 .. Len(pollfds_')
             /\ pollfds_'[index_[d] + 1] = Own(d, events_'[d], silent')
  <2>1. CASE d = c
    <3>1. pollfds_'[index_[c] + 1] = pf /\ events_'[c] = evs
      BY <1>3, <1>5, PositionOfAdded DEF ChannelInv
    <3>2. pf = Own(c, evs, silent')
      BY DEF Own
    <3> HIDE DEF pf
    <3> QED
      BY <1>3, <1>4, <2>1, <3>1, <3>2
  <2>2. CASE d # c
    <3>1. index_[d] \in 0 .. Len(pollfds_) - 1 /\ index_[c] \in Int /\ index_[d] # index_[c]
      BY <2>2, PositionOfAdded, PositionsDiffer
    <3>2. index_[d] + 1 \in 1 .. Len(pollfds_) /\ index_[d] + 1 # index_[c] + 1
      BY <1>2, <3>1
    <3>3. pollfds_'[index_[d] + 1] = pollfds_[index_[d] + 1]
      BY <1>5, <3>2
    <3>4. events_'[d] = events_[d]
      BY <2>2, PositionOfAdded DEF ChannelInv
    <3>5. Own(d, events_[d], silent') = Own(d, events_[d], silent)
      BY <2>2 DEF Own
    <3> QED
      BY <1>4, <3>2, <3>3, <3>4, <3>5, PositionOfAdded
  <2> QED
    BY <2>1, <2>2
<1>7. \A i \in 1 .. Len(pollfds_') : \E d \in added : index_[d] + 1 = i
  BY <1>4 DEF PollInv, Correspond
<1> QED
  BY <1>4, <1>6, <1>7 DEF PollInv, Correspond

\* updateChannel() as a whole.
LEMMA PollUpdateKeeps ==
  ASSUME NEW c \in Channels, NEW evs \in SUBSET Events, ChannelInv, DispatchInv, PollInv,
         Update(c, evs), P!UpdateChannel(c, evs)
  PROVE  ChannelInv' /\ DispatchInv' /\ PollInv'
<1>1. /\ MayUpdate(c) /\ UNCHANGED dispatch
      /\ events_' = [events_ EXCEPT ![c] = evs] /\ added' = added \cup {c}
  BY DEF Update
<1>2. CASE index_[c] < 0
  <2> index_[c] \in Int
    BY DEF ChannelInv
  <2>1. /\ pollfds_' = Append(pollfds_, [fd |-> Fd[c], events |-> evs])
        /\ index_' = [index_ EXCEPT ![c] = Len(pollfds_)]
        /\ channels_' = [channels_ EXCEPT ![Fd[c]] = c]
        /\ silent' = IF evs = {} THEN silent \cup {c} ELSE silent
    BY <1>2, SMT DEF P!UpdateChannel
  <2>2. Len(pollfds_) \in Int
    BY DEF PollInv, Correspond
  <2>3. index_' \in [Channels -> Int]
    BY <2>1, <2>2 DEF ChannelInv
  <2>4. ChannelInv' /\ DispatchInv'
    BY <1>1, <2>1, <2>3, UpdateKeeps, Zenon
  <2>5. PollInv'
    BY <1>1, <1>2, <2>1, PollAppendKeeps, Zenon
  <2> QED
    BY <2>4, <2>5
<1>3. CASE ~(index_[c] < 0)
  <2>1. /\ pollfds_' = [pollfds_ EXCEPT ![index_[c] + 1] =
                          [fd |-> IF evs = {} THEN -Fd[c] - 1 ELSE Fd[c], events |-> evs]]
        /\ index_' = index_ /\ channels_' = channels_ /\ silent' = silent \ {c}
    BY <1>3 DEF P!UpdateChannel, P!Ignored
  <2>2. Registered(c) /\ c \in added
    BY <1>1, <1>3 DEF MayUpdate, ChannelInv
  <2>3. channels_' = [channels_ EXCEPT ![Fd[c]] = c]
    BY <2>1, <2>2 DEF ChannelInv, Registered
  <2>4. index_' \in [Channels -> Int] /\ added' = added
    BY <1>1, <2>1, <2>2 DEF ChannelInv
  <2>5. ChannelInv' /\ DispatchInv'
    BY <1>1, <2>3, <2>4, UpdateKeeps, Zenon
  <2>6. PollInv'
    BY <1>1, <2>1, <2>2, <2>4, PollRewriteKeeps, Zenon
  <2> QED
    BY <2>5, <2>6
<1> QED
  BY <1>2, <1>3

\* removeChannel() of the channel whose pollfd is the last: it is popped.
LEMMA PollPopKeeps ==
  ASSUME NEW c \in added, ChannelInv, PollInv, index_[c] = Len(pollfds_) - 1,
         pollfds_' = SubSeq(pollfds_, 1, Len(pollfds_) - 1),
         index_' = index_, events_' = events_, added' = added \ {c}, silent' = silent
  PROVE  PollInv'
<1>1. pollfds_ \in Seq(Pollfd) /\ Len(pollfds_) \in Nat /\ Len(pollfds_) > 0
  BY PositionOfAdded DEF PollInv, Correspond
<1>2. pollfds_' \in Seq(Pollfd) /\ Len(pollfds_') = Len(pollfds_) - 1
  BY <1>1, FrontOfSequence
<1>3. \A i \in 1 .. Len(pollfds_) - 1 : pollfds_'[i] = pollfds_[i]
  BY <1>1, FrontOfSequence
<1>4. ASSUME NEW d \in added'
      PROVE  /\ index_[d] + 1 \in 1 .. Len(pollfds_')
             /\ pollfds_'[index_[d] + 1] = Own(d, events_[d], silent)
  <2>1. index_[d] \in 0 .. Len(pollfds_) - 1 /\ index_[d] # Len(pollfds_) - 1
    BY PositionOfAdded, PositionsDiffer
  <2>2. index_[d] + 1 \in 1 .. Len(pollfds_) - 1
    BY <1>1, <2>1
  <2> QED
    BY <1>2, <1>3, <2>2, PositionOfAdded
<1>5. ASSUME NEW i \in 1 .. Len(pollfds_') PROVE \E d \in added' : index_[d] + 1 = i
  <2>1. i \in 1 .. Len(pollfds_) /\ i # Len(pollfds_)
    BY <1>1, <1>2
  <2>2. PICK d \in added : index_[d] + 1 = i
    BY <2>1 DEF PollInv, Correspond
  <2>3. d # c
    BY <1>1, <2>1, <2>2
  <2> QED
    BY <2>2, <2>3
<1> QED
  BY <1>2, <1>4, <1>5 DEF PollInv, Correspond

\* removeChannel() of another one: the last pollfd, that of e, takes its place.
LEMMA PollSwapKeeps ==
  ASSUME NEW c \in added, NEW e \in added, c # e, ChannelInv, PollInv,
         index_[e] = Len(pollfds_) - 1,
         pollfds_' = [SubSeq(pollfds_, 1, Len(pollfds_) - 1) EXCEPT
                        ![index_[c] + 1] = pollfds_[Len(pollfds_)]],
         index_' = [index_ EXCEPT ![e] = index_[c]],
         events_' = events_, added' = added \ {c}, silent' = silent
  PROVE  PollInv'
<1> DEFINE n == Len(pollfds_)
           k == index_[c]
           front == SubSeq(pollfds_, 1, n - 1)
<1>1. pollfds_ \in Seq(Pollfd) /\ n \in Nat /\ n > 0
  BY PositionOfAdded DEF PollInv, Correspond
<1>2. k \in 0 .. n - 2
  BY <1>1, PositionOfAdded, PositionsDiffer
<1>3. /\ front \in Seq(Pollfd) /\ Len(front) = n - 1
      /\ \A i \in 1 .. n - 1 : front[i] = pollfds_[i]
  BY <1>1, FrontOfSequence
<1>4. pollfds_[n] \in Pollfd
  BY <1>1
<1>5. pollfds_' \in Seq(Pollfd) /\ Len(pollfds_') = n - 1
  <2> HIDE DEF front
  <2>1. pollfds_' = [front EXCEPT ![k + 1] = pollfds_[n]]
    BY DEF front
  <2> QED
    BY <1>1, <1>2, <1>3, <1>4, <2>1
<1>6. \A i \in 1 .. n - 1 : pollfds_'[i] = IF i = k + 1 THEN pollfds_[n] ELSE pollfds_[i]
  <2> HIDE DEF front
  <2>1. pollfds_' = [front EXCEPT ![k + 1] = pollfds_[n]]
    BY DEF front
  <2> QED
    BY <1>1, <1>2, <1>3, <1>4, <2>1
<1>7. \A d \in added : index_'[d] = IF d = e THEN k ELSE index_[d]
  BY DEF ChannelInv
<1>8. ASSUME NEW d \in added'
      PROVE  /\ index_'[d] + 1 \in 1 .. n - 1
             /\ pollfds_'[index_'[d] + 1] = Own(d, events_[d], silent)
  <2>1. CASE d = e
    <3>1. index_'[e] + 1 \in 1 .. n - 1 /\ index_'[e] = k
      BY <1>1, <1>2, <1>7
    <3>2. pollfds_'[index_'[e] + 1] = pollfds_[n] /\ index_[e] + 1 = n
      BY <1>1, <1>6, <3>1
    <3> QED
      BY <2>1, <3>1, <3>2, PositionOfAdded
  <2>2. CASE d # e
    <3>1. index_[d] \in 0 .. n - 1 /\ index_[d] # n - 1 /\ index_[d] # k /\ index_'[d] = index_[d]
      BY <1>7, <2>2, PositionOfAdded, PositionsDiffer
    <3>2. index_[d] + 1 \in 1 .. n - 1 /\ index_[d] + 1 # k + 1
      BY <1>1, <1>2, <3>1
    <3> QED
      BY <1>6, <3>1, <3>2, PositionOfAdded
  <2> QED
    BY <2>1, <2>2
<1>9. ASSUME NEW i \in 1 .. n - 1 PROVE \E d \in added' : index_'[d] + 1 = i
  <2>1. CASE i = k + 1
    BY <1>7, <2>1
  <2>2. CASE i # k + 1
    <3>1. i \in 1 .. n /\ i # n
      BY <1>1
    <3>2. PICK d \in added : index_[d] + 1 = i
      BY <3>1 DEF PollInv, Correspond
    <3>3. d # c /\ d # e
      BY <1>1, <2>2, <3>1, <3>2
    <3> QED
      BY <1>7, <3>2, <3>3
  <2> QED
    BY <2>1, <2>2
<1> HIDE DEF n, k, front
<1> QED
  BY <1>5, <1>8, <1>9 DEF PollInv, Correspond

\* removeChannel() as a whole.
LEMMA PollRemoveKeeps ==
  ASSUME NEW c \in Channels, ChannelInv, DispatchInv, PollInv, Remove(c), P!RemoveChannel(c),
         silent' = silent
  PROVE  ChannelInv' /\ DispatchInv' /\ PollInv'
<1>1. c \in added /\ added' = added \ {c} /\ events_' = events_
  BY DEF Remove, MayRemove
<1>2. CASE index_[c] = Len(pollfds_) - 1
  <2>1. index_' = index_ /\ pollfds_' = SubSeq(pollfds_, 1, Len(pollfds_) - 1)
    BY <1>2 DEF P!RemoveChannel, P!Front
  <2>2. ChannelInv' /\ DispatchInv'
    <3>1. index_' \in [Channels -> Int]
      BY <2>1 DEF ChannelInv
    <3> QED
      BY <3>1, RemoveKeeps
  <2> QED
    BY <1>1, <1>2, <2>1, <2>2, PollPopKeeps
<1>3. CASE index_[c] # Len(pollfds_) - 1
  <2>1. /\ index_' = [index_ EXCEPT ![P!ChannelAtEnd] = index_[c]]
        /\ pollfds_' = [SubSeq(pollfds_, 1, Len(pollfds_) - 1) EXCEPT
                          ![index_[c] + 1] = pollfds_[Len(pollfds_)]]
    BY <1>3 DEF P!RemoveChannel, P!Front, P!Last
  <2>2. Len(pollfds_) \in 1 .. Len(pollfds_)
    <3>1. Len(pollfds_) \in Nat /\ Len(pollfds_) > 0
      BY <1>1, PositionOfAdded DEF PollInv, Correspond
    <3> QED
      BY <3>1
  <2>3. PICK e \in added : index_[e] + 1 = Len(pollfds_)
    BY <2>2 DEF PollInv, Correspond
  <2>4. index_[e] = Len(pollfds_) - 1 /\ e # c /\ e \in Channels
    BY <1>3, <2>2, <2>3, PositionOfAdded
  <2>5. P!ChannelAtEnd = e
    <3>1. StandsFor(pollfds_[Len(pollfds_)]) = Fd[e]
      BY <2>3, PositionOfAdded
    <3>2. channels_[Fd[e]] = e
      BY <2>4 DEF ChannelInv, Registered
    <3> QED
      BY <3>1, <3>2 DEF P!ChannelAtEnd, P!Last, P!Ignored, StandsFor
  <2>6. index_' \in [Channels -> Int]
    BY <2>1, <2>4, <2>5 DEF ChannelInv
  <2>7. ChannelInv' /\ DispatchInv'
    BY <2>6, RemoveKeeps
  <2> QED
    BY <1>1, <2>1, <2>4, <2>5, <2>7, PollSwapKeeps, Zenon
<1> QED
  BY <1>2, <1>3

\* What poll() may report is added.
LEMMA PollReportsAdded ==
  ASSUME ChannelInv, PollInv PROVE P!Reportable \subseteq added
<1>1. SUFFICES ASSUME NEW i \in DOMAIN pollfds_, pollfds_[i].fd >= 0
               PROVE  channels_[pollfds_[i].fd] \in added
  BY <1>1 DEF P!Reportable
<1>2. i \in 1 .. Len(pollfds_) /\ pollfds_[i].fd \in Int
  <2>1. pollfds_ \in Seq(Pollfd)
    BY DEF PollInv, Correspond
  <2>2. i \in 1 .. Len(pollfds_) /\ pollfds_[i] \in Pollfd
    BY <2>1
  <2> QED
    BY <2>2 DEF Pollfd
<1>3. PICK c \in added : index_[c] + 1 = i
  BY <1>2 DEF PollInv, Correspond
<1>4. StandsFor(pollfds_[i]) = Fd[c]
  BY <1>3, PositionOfAdded
<1>5. pollfds_[i].fd = Fd[c]
  BY <1>1, <1>2, <1>4 DEF StandsFor
<1> QED
  BY <1>3, <1>5 DEF ChannelInv, Registered

\* The steps of a loop with a PollPoller, in terms of the channels it shares with
\* the other poller.
LEMMA PollSteps ==
  ASSUME P!PPNext
  PROVE  /\ ~aborted
         /\ \/ \E c \in Channels : \E evs \in NewEvents(c) :
                 Update(c, evs) /\ P!UpdateChannel(c, evs) /\ aborted' = aborted
            \/ \E c \in Channels :
                 Remove(c) /\ P!RemoveChannel(c) /\ UNCHANGED <<silent, aborted>>
            \/ \E c \in Channels :
                 /\ MayRemove(c) /\ ~P!Asserted(c)
                 /\ UNCHANGED <<chanvars, pollfds_, silent>>
            \/ Dispatch /\ UNCHANGED pollvars
            \/ \E c \in Channels : Renew(c) /\ UNCHANGED pollvars
            \/ \E active \in SUBSET P!Reportable : BeginHandling(active) /\ UNCHANGED pollvars
<1>1. \A c : P!NewEvents(c) = NewEvents(c)
  BY DEF P!NewEvents, NewEvents, P!Events, Events
<1>2. \A c, evs : P!Update(c, evs) <=> Update(c, evs)
  BY DEF P!Update, Update, P!MayUpdate, MayUpdate, P!Registered, Registered, P!dispatch, dispatch
<1>3. \A c : P!Remove(c) <=> Remove(c)
  BY DEF P!Remove, Remove, P!MayRemove, MayRemove, P!Registered, Registered, P!dispatch, dispatch
<1>4. P!Dispatch <=> Dispatch
  BY DEF P!Dispatch, Dispatch, P!EndHandling, EndHandling, P!HandleEvent, HandleEvent
<1>5. \A c : P!Renew(c) <=> Renew(c)
  BY DEF P!Renew, Renew, P!dispatch, dispatch
<1>6. \A active : P!BeginHandling(active) <=> BeginHandling(active)
  BY DEF P!BeginHandling, BeginHandling
<1>7. \A c : P!MayRemove(c) <=> MayRemove(c)
  BY DEF P!MayRemove, MayRemove, P!Registered, Registered
<1>8. /\ UNCHANGED <<P!chanvars, pollfds_, silent>> <=> UNCHANGED <<chanvars, pollfds_, silent>>
      /\ UNCHANGED P!ppvars <=> UNCHANGED pollvars
  BY DEF P!chanvars, chanvars, P!dispatch, dispatch, P!ppvars, pollvars
<1>9. ASSUME NEW c \in Channels, NEW evs \in P!NewEvents(c),
             P!Update(c, evs), P!UpdateChannel(c, evs), aborted' = aborted
      PROVE  \E d \in Channels : \E e \in NewEvents(d) :
               Update(d, e) /\ P!UpdateChannel(d, e) /\ aborted' = aborted
  BY <1>1, <1>2, <1>9, Zenon
<1>10. ASSUME NEW c \in Channels, P!Remove(c), P!RemoveChannel(c), UNCHANGED <<silent, aborted>>
       PROVE  \E d \in Channels : Remove(d) /\ P!RemoveChannel(d) /\ UNCHANGED <<silent, aborted>>
  BY <1>3, <1>10, Zenon
<1>11. ASSUME NEW c \in Channels, P!Abort(c)
       PROVE  \E d \in Channels :
                /\ MayRemove(d) /\ ~P!Asserted(d)
                /\ UNCHANGED <<chanvars, pollfds_, silent>>
  BY <1>7, <1>8, <1>11, Zenon DEF P!Abort
<1>12. ASSUME NEW c \in Channels, P!Renew(c), UNCHANGED P!ppvars
       PROVE  \E d \in Channels : Renew(d) /\ UNCHANGED pollvars
  BY <1>5, <1>8, <1>12, Zenon
<1>13. ASSUME P!Poll
       PROVE  \E active \in SUBSET P!Reportable : BeginHandling(active) /\ UNCHANGED pollvars
  BY <1>6, <1>8, <1>13, Zenon DEF P!Poll
<1>14. CASE P!Dispatch /\ UNCHANGED P!ppvars
  BY <1>4, <1>8, <1>14, Zenon DEF P!PPNext
<1>15. ~aborted
  BY Zenon DEF P!PPNext
<1> QED
  BY <1>9, <1>10, <1>11, <1>12, <1>13, <1>14, <1>15, Zenon DEF P!PPNext

\* ~Channel() of a removed channel and Channel() of the next one.
LEMMA RenewKeeps ==
  ASSUME NEW c \in Channels, Renew(c), UNCHANGED pollvars, ChannelInv, DispatchInv, PollInv
  PROVE  ChannelInv' /\ DispatchInv' /\ PollInv'
<1>1. /\ UNCHANGED <<events_, added, channels_, dispatch, pollfds_, silent>> /\ c \notin added
      /\ index_' = [index_ EXCEPT ![c] = -1]
  BY DEF Renew, pollvars
<1>2. index_' \in [Channels -> Int] /\ \A d \in added : index_'[d] = index_[d]
  BY <1>1 DEF ChannelInv
<1>3. ChannelInv' /\ DispatchInv'
  BY <1>1, <1>2 DEF ChannelInv, DispatchInv, dispatch, Registered
<1>4. PollInv'
  BY <1>1, <1>2 DEF PollInv, Correspond
<1> QED
  BY <1>3, <1>4

\* A removal whose assertion fails is that of a channel that never had events.
LEMMA AbortIs ==
  ASSUME NEW c \in Channels, ChannelInv, PollInv, MayRemove(c), ~P!Asserted(c)
  PROVE  c \in added \cap silent /\ events_[c] = {}
<1>1. c \in added /\ events_[c] = {}
  BY DEF MayRemove
<1>2. pollfds_[index_[c] + 1] = Own(c, events_[c], silent)
  BY <1>1, PositionOfAdded
<1> QED
  BY <1>1, <1>2 DEF Own, P!Asserted, P!Ignored

\* Every step of a loop with a PollPoller keeps the invariant.
LEMMA PollPollerKeeps ==
  ASSUME ChannelInv, DispatchInv, PollInv, P!PPNext
  PROVE  ChannelInv' /\ DispatchInv' /\ PollInv' /\ AbortInv'
<1>0. ~aborted
  BY PollSteps
<1>1. ASSUME NEW c \in Channels, NEW evs \in NewEvents(c),
             Update(c, evs), P!UpdateChannel(c, evs), aborted' = aborted
      PROVE  ChannelInv' /\ DispatchInv' /\ PollInv' /\ AbortInv'
  BY <1>0, <1>1, NewEventsAreEvents, PollUpdateKeeps DEF AbortInv
<1>2. ASSUME NEW c \in Channels, Remove(c), P!RemoveChannel(c), UNCHANGED <<silent, aborted>>
      PROVE  ChannelInv' /\ DispatchInv' /\ PollInv' /\ AbortInv'
  BY <1>0, <1>2, PollRemoveKeeps DEF AbortInv
<1>3. ASSUME NEW c \in Channels, MayRemove(c), ~P!Asserted(c),
             UNCHANGED <<chanvars, pollfds_, silent>>
      PROVE  ChannelInv' /\ DispatchInv' /\ PollInv' /\ AbortInv'
  <2>1. UNCHANGED <<events_, index_, added, channels_, eventHandling_, activeChannels_, unhandled,
                    currentActiveChannel_, pollfds_, silent>>
    BY <1>3 DEF chanvars, dispatch
  <2>2. ChannelInv' /\ DispatchInv' /\ PollInv'
    BY <2>1 DEF ChannelInv, DispatchInv, Registered, PollInv
  <2> QED
    BY <1>3, <2>1, <2>2, AbortIs DEF AbortInv
<1>4. CASE Dispatch /\ UNCHANGED pollvars
  BY <1>0, <1>4, DispatchKeeps DEF PollInv, AbortInv, pollvars
<1>5. ASSUME NEW c \in Channels, Renew(c) /\ UNCHANGED pollvars
      PROVE  ChannelInv' /\ DispatchInv' /\ PollInv' /\ AbortInv'
  BY <1>0, <1>5, RenewKeeps DEF AbortInv, pollvars
<1>6. ASSUME NEW active \in SUBSET P!Reportable, BeginHandling(active) /\ UNCHANGED pollvars
      PROVE  ChannelInv' /\ DispatchInv' /\ PollInv' /\ AbortInv'
  <2>1. ChannelInv' /\ DispatchInv'
    BY <1>6, PollReportsAdded, PollKeeps
  <2>2. PollInv' /\ AbortInv'
    BY <1>0, <1>6 DEF PollInv, AbortInv, BeginHandling, pollvars
  <2> QED
    BY <2>1, <2>2
<1> QED
  BY <1>1, <1>2, <1>3, <1>4, <1>5, <1>6, PollSteps

-----------------------------------------------------------------------------
(* The invariant, and what follows from it.                                *)

\* The loop's constructor establishes the invariant.
LEMMA InitInv == Init => IInv
<1> SUFFICES ASSUME Init PROVE IInv
  OBVIOUS
<1> USE DEF Init, EInit, ChannelInit
<1>1. \A f \in Fds : channels_[f] = NoChannel
  OBVIOUS
<1>2. \A c \in Channels : Fd[c] \in Fds
  BY DEF Fds
<1>3. ChannelInv
  BY <1>1, <1>2, ChannelAssumption DEF ChannelInv, Registered
<1>4. DispatchInv
  BY ChannelAssumption DEF DispatchInv
<1>5. EpollInv
  BY <1>2 DEF EpollInv, kNew, kAdded, kDeleted, Unwatched
<1>6. pollfds_ = <<>> /\ added = {} /\ aborted = FALSE
  BY DEF P!PPInit
<1>7. PollInv /\ AbortInv
  BY <1>6 DEF PollInv, Correspond, AbortInv
<1> QED
  BY <1>3, <1>4, <1>5, <1>7 DEF IInv

\* Every step of the loop keeps it.
LEMMA NextInv == IInv /\ [Next]_vars => IInv'
<1> SUFFICES ASSUME IInv, [Next]_vars PROVE IInv'
  OBVIOUS
<1>1. CASE ~usePoll /\ ENext /\ UNCHANGED <<pollvars, usePoll>>
  BY <1>1, EpollKeeps DEF IInv
<1>2. CASE usePoll /\ P!PPNext /\ UNCHANGED <<epoll, ctlFailed, size, usePoll>>
  BY <1>2, PollPollerKeeps DEF IInv
<1>3. CASE UNCHANGED vars
  <2>1. /\ UNCHANGED <<events_, index_, added, channels_, epoll, ctlFailed, usePoll>>
        /\ UNCHANGED <<pollfds_, silent, aborted>>
        /\ UNCHANGED <<eventHandling_, activeChannels_, unhandled, currentActiveChannel_>>
    BY <1>3 DEF vars, evars, pollvars, chanvars, dispatch
  <2>2. ChannelInv' /\ DispatchInv'
    BY <2>1 DEF IInv, ChannelInv, DispatchInv, Registered
  <2>3. EpollInv => EpollInv'
    BY <2>1, EpollSame
  <2>4. (PollInv => PollInv') /\ (AbortInv => AbortInv')
    BY <2>1 DEF PollInv, AbortInv
  <2> QED
    BY <2>1, <2>2, <2>3, <2>4 DEF IInv
<1> QED
  BY <1>1, <1>2, <1>3 DEF Next

\* What the kernel watches for a channel is what the channel wants.
Wanted == [c \in Channels |-> Watch(c)] = events_
LEMMA WatchIsWanted == IInv => Wanted
<1> SUFFICES ASSUME IInv PROVE Wanted
  OBVIOUS
<1>1. ASSUME NEW c \in Channels, usePoll PROVE P!PPWatch(c) = events_[c]
  <2>1. CASE c \in added
    BY <1>1, <2>1, PositionOfAdded DEF IInv, P!PPWatch
  <2>2. CASE c \notin added
    BY <1>1, <2>2 DEF IInv, ChannelInv, P!PPWatch
  <2> QED
    BY <2>1, <2>2
<1>2. ASSUME NEW c \in Channels, ~usePoll PROVE EWatch(c) = events_[c]
  <2>1. CASE index_[c] = kAdded
    <3>1. epoll[Fd[c]] = [ptr |-> c, events |-> events_[c]]
      BY <1>2, <2>1 DEF IInv, EpollInv
    <3> QED
      BY <3>1 DEF EWatch
  <2>2. CASE index_[c] # kAdded
    <3>1. events_[c] = {}
      BY <1>2, <2>2, Zenon DEF IInv, EpollInv, ChannelInv
    <3>2. epoll[Fd[c]].ptr # c
      BY <1>2, <2>2, EntryOfAdded DEF IInv
    <3> QED
      BY <3>1, <3>2 DEF EWatch
  <2> QED
    BY <2>1, <2>2
<1>3. \A c \in Channels : Watch(c) = events_[c]
  BY <1>1, <1>2 DEF Watch
<1> QED
  BY <1>3 DEF IInv, ChannelInv, Wanted

\* The invariant says that the kernel mirrors the channels.
LEMMA InvMirrors == IInv => KernelMirrorsChannels
<1> SUFFICES ASSUME IInv PROVE KernelMirrorsChannels
  OBVIOUS
<1>1. \A c \in Channels : c \in added <=> Registered(c)
  BY DEF IInv, ChannelInv
<1>2. ASSUME usePoll PROVE P!IndexFindsPollfd
  <2>1. DOMAIN pollfds_ = 1 .. Len(pollfds_)
    BY <1>2 DEF IInv, PollInv, Correspond
  <2>2. \A c : P!OwnPollfd(c) = Own(c, events_[c], silent)
    BY DEF P!OwnPollfd, P!Ignored, Own
  <2> QED
    BY <1>2, <2>1, <2>2 DEF IInv, PollInv, Correspond, AbortInv, P!IndexFindsPollfd
<1>3. ASSUME ~usePoll PROVE EpollMirrorsChannels
  <2>1. \A c \in Channels : index_[c] # kAdded => epoll[Fd[c]].ptr # c
    BY <1>3, EntryOfAdded DEF IInv
  <2> QED
    BY <1>3, <2>1 DEF IInv, EpollInv, EpollMirrorsChannels, Watched
<1> QED
  BY <1>1, <1>2, <1>3 DEF KernelMirrorsChannels

\* loop() never calls handleEvent() of a channel that an earlier handler of the
\* round removed, with either poller.
THEOREM DispatchesToAdded == Spec => []DispatchToAdded
<1>1. IInv => DispatchToAdded
  BY DEF IInv, DispatchInv, DispatchToAdded
<1> QED
  BY <1>1, InitInv, NextInv, PTL DEF Spec

\* The poller knows exactly the added channels, and the epoll set or the array of
\* pollfds holds what they want, whatever the order of enabling, disabling,
\* removing and reuse of descriptors; no epoll_ctl() fails, and the assertion of
\* PollPoller::removeChannel() fails only for a channel that was updated once, to
\* have no events.
THEOREM MirrorsChannels == Spec => []KernelMirrorsChannels
<1> QED
  BY InvMirrors, InitInv, NextInv, PTL DEF Spec

\* Both pollers do what Poller promises EventLoop.
THEOREM PollerImplemented == Spec => ImplementsPoller
<1>1. Init => Abstract!PInit
  <2> SUFFICES ASSUME Init PROVE Abstract!PInit
    OBVIOUS
  <2>1. [c \in Channels |-> Watch(c)] = events_
    BY InitInv, WatchIsWanted DEF Wanted
  <2> QED
    BY <2>1 DEF Init, EInit, ChannelInit, Abstract!PInit
<1>2. IInv /\ Wanted /\ Wanted' /\ [Next]_vars => [Abstract!PNext]_(Abstract!pvars)
  <2> SUFFICES ASSUME IInv, Wanted, Wanted', [Next]_vars
               PROVE  [Abstract!PNext]_(Abstract!pvars)
    OBVIOUS
  <2>1. ASSUME NEW c \in Channels, NEW evs \in NewEvents(c), Update(c, evs)
        PROVE  Abstract!PNext
    <3>1. evs \in SUBSET Events
      BY NewEventsAreEvents DEF IInv
    <3>2. Abstract!PUpdate(c, evs)
      BY <2>1 DEF Update, dispatch, Abstract!PUpdate, Wanted
    <3> QED
      BY <3>1, <3>2 DEF Abstract!PNext
  <2>2. ASSUME NEW c \in Channels, Remove(c) PROVE Abstract!PNext
    <3>1. Abstract!PRemove(c)
      BY <2>2 DEF Remove, MayRemove, dispatch, Abstract!PRemove, Wanted
    <3> QED
      BY <3>1 DEF Abstract!PNext
  <2>3. ASSUME NEW active, active \subseteq added, BeginHandling(active) PROVE Abstract!PNext
    <3>1. Abstract!PPoll(active)
      BY <2>3 DEF BeginHandling, Abstract!PPoll, Wanted
    <3>2. active \in SUBSET Channels
      BY <2>3 DEF IInv, ChannelInv
    <3> QED
      BY <3>1, <3>2 DEF Abstract!PNext
  <2>4. ASSUME UNCHANGED <<events_, added, activeChannels_>>
        PROVE  UNCHANGED Abstract!pvars
    BY <2>4 DEF Abstract!pvars, Wanted
  <2>5. CASE Dispatch
    BY <2>4, <2>5, DispatchKeeps DEF IInv
  <2>6. ASSUME NEW c \in Channels, Renew(c) PROVE UNCHANGED Abstract!pvars
    BY <2>4, <2>6 DEF Renew, dispatch
  <2>7. CASE UNCHANGED vars
    BY <2>4, <2>7 DEF vars, evars, chanvars, dispatch
  <2>8. CASE ~usePoll /\ ENext
    <3>1. CASE Poll
      <4>1. PICK active \in SUBSET Reportable : BeginHandling(active)
        BY <3>1 DEF Poll
      <4> QED
        BY <2>3, <2>8, <4>1, EpollReportsAdded DEF IInv
    <3> QED
      BY <2>1, <2>2, <2>5, <2>8, <3>1 DEF ENext
  <2>9. ASSUME UNCHANGED chanvars PROVE UNCHANGED Abstract!pvars
    BY <2>4, <2>9 DEF chanvars, dispatch
  <2>10. CASE usePoll /\ P!PPNext
    <3>1. ASSUME NEW active \in SUBSET P!Reportable, BeginHandling(active)
          PROVE  Abstract!PNext
      BY <2>3, <2>10, <3>1, PollReportsAdded DEF IInv
    <3> QED
      BY <2>1, <2>2, <2>5, <2>6, <2>10, <2>9, <3>1, PollSteps
  <2> QED
    BY <2>7, <2>8, <2>10 DEF Next
<1> QED
  BY <1>1, <1>2, InitInv, NextInv, WatchIsWanted, PTL DEF Spec, ImplementsPoller, Abstract!PSpec
=============================================================================
