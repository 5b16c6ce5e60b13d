----------------------------- MODULE PollerSpec -----------------------------
(***************************************************************************)
(* What a Poller promises EventLoop (muduo/net/Poller.h): the kernel is    *)
(* asked for exactly the events each added channel wants, and a channel    *)
(* that is not added is never reported.                                    *)
(***************************************************************************)
CONSTANTS Channels, Events

VARIABLES
  members,    \* the channels added
  wanted,     \* the events each channel wants
  watch,      \* the events the kernel watches for each channel
  reported    \* the channels the last poll reported

pvars == <<members, wanted, watch, reported>>

PInit ==
  /\ members = {} /\ reported = {}
  /\ wanted = [c \in Channels |-> {}] /\ watch = wanted

PUpdate(c, evs) ==
  /\ members' = members \cup {c}
  /\ wanted' = [wanted EXCEPT ![c] = evs]
  /\ watch' = [watch EXCEPT ![c] = evs]
  /\ UNCHANGED reported

PRemove(c) ==
  /\ c \in members /\ watch[c] = {}
  /\ members' = members \ {c}
  /\ UNCHANGED <<wanted, watch, reported>>

PPoll(active) ==
  /\ active \subseteq members
  /\ reported' = active
  /\ UNCHANGED <<members, wanted, watch>>

PNext ==
  \/ \E c \in Channels : PRemove(c) \/ \E evs \in SUBSET Events : PUpdate(c, evs)
  \/ \E active \in SUBSET Channels : PPoll(active)

PSpec == PInit /\ [][PNext]_pvars
=============================================================================
