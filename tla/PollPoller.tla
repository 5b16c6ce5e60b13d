----------------------------- MODULE PollPoller -----------------------------
(***************************************************************************)
(* muduo::net::PollPoller (muduo/net/poller/PollPoller.cc): the vector of  *)
(* pollfds given to poll(2), with each channel's position in it kept in    *)
(* Channel::index_ (counted from 0; pollfds_ is a sequence, from 1).       *)
(***************************************************************************)
EXTENDS Channel, Sequences

VARIABLES
  pollfds_,   \* sequence of [fd, events]
  silent,     \* history: channels updated once since they were added, with no events
  aborted     \* the assertion of removeChannel() on the pollfd failed

ppvars == <<pollfds_, silent, aborted>>

Ignored(fd) == -fd - 1

PPInit == ChannelInit /\ pollfds_ = <<>> /\ silent = {} /\ aborted = FALSE

UpdateChannel_NotIgnored(c, evs) ==
  \/ /\ index_[c] < 0
     /\ pollfds_' = Append(pollfds_, [fd |-> Fd[c], events |-> evs])
     /\ index_' = [index_ EXCEPT ![c] = Len(pollfds_)]
     /\ channels_' = [channels_ EXCEPT ![Fd[c]] = c]
     /\ silent' = IF evs = {} THEN silent \cup {c} ELSE silent
  \/ /\ index_[c] >= 0
     /\ pollfds_' = [pollfds_ EXCEPT ![index_[c] + 1] = [fd |-> Fd[c], events |-> evs]]
     /\ silent' = silent \ {c}
     /\ UNCHANGED <<index_, channels_>>

\* updateChannel(): append, or rewrite the channel's pollfd; poll(2) ignores a
\* negative fd.  Only the rewriting makes the fd of a channel without events
\* negative.
UpdateChannel(c, evs) ==
  \/ /\ index_[c] < 0
     /\ pollfds_' = Append(pollfds_, [fd |-> Fd[c], events |-> evs])
     /\ index_' = [index_ EXCEPT ![c] = Len(pollfds_)]
     /\ channels_' = [channels_ EXCEPT ![Fd[c]] = c]
     /\ silent' = IF evs = {} THEN silent \cup {c} ELSE silent
  \/ /\ index_[c] >= 0
     /\ pollfds_' = [pollfds_ EXCEPT ![index_[c] + 1] =
                       [fd |-> IF evs = {} THEN Ignored(Fd[c]) ELSE Fd[c],
                        events |-> evs]]
     /\ silent' = silent \ {c}
     /\ UNCHANGED <<index_, channels_>>

Last == pollfds_[Len(pollfds_)]
Front == SubSeq(pollfds_, 1, Len(pollfds_) - 1)

\* The channel whose pollfd is the last one: channelAtEnd.
ChannelAtEnd == channels_[IF Last.fd < 0 THEN Ignored(Last.fd) ELSE Last.fd]

\* removeChannel() asserts that the pollfd at the channel's index is its own, is
\* ignored, and has the channel's events.
Asserted(c) == pollfds_[index_[c] + 1] = [fd |-> Ignored(Fd[c]), events |-> events_[c]]

RemoveChannel_NoSwap(c) ==
  /\ Asserted(c)
  /\ pollfds_' = Front
  /\ index_' = [index_ EXCEPT ![ChannelAtEnd] = index_[c]]

\* removeChannel(): the last pollfd is popped, after it was swapped with the
\* channel's own.  The index_ of the removed channel stays as it is.
RemoveChannel(c) ==
  /\ Asserted(c)
  /\ \/ /\ index_[c] = Len(pollfds_) - 1
        /\ pollfds_' = Front
        /\ UNCHANGED index_
     \/ /\ index_[c] # Len(pollfds_) - 1
        /\ pollfds_' = [Front EXCEPT ![index_[c] + 1] = Last]
        /\ index_' = [index_ EXCEPT ![ChannelAtEnd] = index_[c]]

\* removeChannel() whose assertion fails ends the process.
Abort(c) ==
  /\ MayRemove(c) /\ ~Asserted(c)
  /\ aborted' = TRUE
  /\ UNCHANGED <<chanvars, pollfds_, silent>>

\* What poll(2) may report: the pollfds with an fd that is not negative; one
\* with no events can still report an error or a hang-up.
Reportable == {channels_[pollfds_[i].fd] : i \in {j \in DOMAIN pollfds_ : pollfds_[j].fd >= 0}}

\* poll() with fillActiveChannels().
Poll == \E active \in SUBSET Reportable : BeginHandling(active) /\ UNCHANGED ppvars

PPNext ==
  /\ ~aborted
  /\ \/ \E c \in Channels : \E evs \in NewEvents(c) :
          Update(c, evs) /\ UpdateChannel(c, evs) /\ UNCHANGED aborted
     \/ \E c \in Channels : Remove(c) /\ RemoveChannel(c) /\ UNCHANGED <<silent, aborted>>
     \/ \E c \in Channels : Abort(c)
     \/ (Dispatch \/ \E c \in Channels : Renew(c)) /\ UNCHANGED ppvars
     \/ Poll

-----------------------------------------------------------------------------

\* What the pollfd of an added channel is to be: ignored while the channel has no
\* events, unless it never had any and was updated only once.
OwnPollfd(c) ==
  [fd |-> IF events_[c] = {} /\ c \notin silent THEN Ignored(Fd[c]) ELSE Fd[c],
   events |-> events_[c]]

\* Every registered channel finds its own pollfd, with its events, at index_,
\* through any swaps, and every pollfd is that of a registered channel: what the
\* assertions of updateChannel(), removeChannel() and fillActiveChannels() check
\* one channel at a time.  So the process is aborted only by the removal of a
\* channel that was updated once, to have no events, as ~Acceptor() does when
\* listen() was never called.
IndexFindsPollfd ==
  /\ \A c \in added :
       /\ index_[c] + 1 \in DOMAIN pollfds_
       /\ pollfds_[index_[c] + 1] = OwnPollfd(c)
  /\ \A i \in DOMAIN pollfds_ : \E c \in added : index_[c] + 1 = i
  /\ aborted => \E c \in added \cap silent : events_[c] = {}

\* The events the kernel watches for a channel.
PPWatch(c) == IF c \in added THEN pollfds_[index_[c] + 1].events ELSE {}
=============================================================================
