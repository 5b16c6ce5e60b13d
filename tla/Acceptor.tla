------------------------------ MODULE Acceptor ------------------------------
(***************************************************************************)
(* muduo::net::Acceptor (muduo/net/Acceptor.cc) in the server's loop: one  *)
(* accept() for every poll(), and the descriptor held in reserve for the   *)
(* day none is left.  Clients are counted, as the kernel queues them in    *)
(* order.  live is the number of descriptors that connections have open.   *)
(***************************************************************************)
EXTENDS Naturals

CONSTANTS
  MaxFds,      \* descriptors the process may have, beyond those it always has
  MaxClients,  \* bound on clients
  MaxOthers    \* bound on descriptors opened by the rest of the process

ASSUME AcceptorAssumption ==
  MaxFds \in Nat \ {0} /\ MaxClients \in Nat /\ MaxOthers \in Nat

VARIABLES
  listenning_,
  idleFd_,          \* "null" for /dev/null, "client" for a connection to be closed, "none"
  step,             \* where handleRead() is; "none" outside it
  arrived, taken,   \* clients that connected; those that left the kernel's queue
  others,           \* descriptors of the rest of the process
  stolen            \* history: another thread took the reserve

acceptor == <<listenning_, idleFd_, step, arrived, taken, others, stolen>>

AcceptorInit ==
  /\ listenning_ = FALSE /\ idleFd_ = "null" /\ step = "none"
  /\ arrived = 0 /\ taken = 0 /\ others = 0 /\ stolen = FALSE

Used(live) == live + others + (IF idleFd_ = "none" THEN 0 ELSE 1)
Free(live) == Used(live) < MaxFds
Waiting == arrived > taken

\* listen()
Listen ==
  /\ listenning_' = TRUE
  /\ UNCHANGED <<idleFd_, step, arrived, taken, others, stolen>>

\* poll() finds the listening socket readable.
AcceptReadable ==
  /\ listenning_ /\ step = "none" /\ Waiting
  /\ step' = "accept"
  /\ UNCHANGED <<listenning_, idleFd_, arrived, taken, others, stolen>>

\* handleRead(): accept() succeeds.
Accept(live) ==
  /\ step = "accept" /\ Waiting /\ Free(live)
  /\ taken' = taken + 1 /\ step' = "none"
  /\ UNCHANGED <<listenning_, idleFd_, arrived, others, stolen>>

\* handleRead(): accept() fails, with EMFILE or because the client is gone.
AcceptFails(live) ==
  /\ step = "accept" /\ ~(Waiting /\ Free(live))
  /\ step' = IF Waiting THEN "emfile" ELSE "none"
  /\ UNCHANGED <<listenning_, idleFd_, arrived, taken, others, stolen>>

CloseIdleFd_Not ==
  /\ step = "emfile"
  /\ step' = "refuse"
  /\ UNCHANGED <<listenning_, idleFd_, arrived, taken, others, stolen>>

\* close(idleFd_)
CloseIdleFd ==
  /\ step = "emfile"
  /\ idleFd_' = "none" /\ step' = "refuse"
  /\ UNCHANGED <<listenning_, arrived, taken, others, stolen>>

\* idleFd_ = accept(), which may fail again.
AcceptIdleFd(live) ==
  /\ step = "refuse"
  /\ step' = "drop"
  /\ IF Waiting /\ Free(live) THEN idleFd_' = "client" /\ taken' = taken + 1
                              ELSE idleFd_' = "none" /\ UNCHANGED taken
  /\ UNCHANGED <<listenning_, arrived, others, stolen>>

\* close(idleFd_)
CloseRefused ==
  /\ step = "drop"
  /\ idleFd_' = "none" /\ step' = "reopen"
  /\ UNCHANGED <<listenning_, arrived, taken, others, stolen>>

ReopenIdleFd_Not(live) ==
  /\ step = "reopen"
  /\ step' = "none"
  /\ UNCHANGED <<listenning_, idleFd_, arrived, taken, others, stolen>>

\* idleFd_ = open("/dev/null")
ReopenIdleFd(live) ==
  /\ step = "reopen"
  /\ idleFd_' = IF Free(live) THEN "null" ELSE "none"
  /\ step' = "none"
  /\ UNCHANGED <<listenning_, arrived, taken, others, stolen>>

\* ~Acceptor(): the kernel resets the clients still in its queue.
AcceptorDtor ==
  /\ listenning_' = FALSE /\ idleFd_' = "none" /\ taken' = arrived
  /\ UNCHANGED <<step, arrived, others, stolen>>

-----------------------------------------------------------------------------
(* Clients, and the threads that open and close other descriptors.         *)

ClientArrives ==
  /\ listenning_ /\ arrived < MaxClients
  /\ arrived' = arrived + 1
  /\ UNCHANGED <<listenning_, idleFd_, step, taken, others, stolen>>

ClientLeaves ==
  /\ Waiting
  /\ taken' = taken + 1
  /\ UNCHANGED <<listenning_, idleFd_, step, arrived, others, stolen>>

OtherOpens(live) ==
  /\ others < MaxOthers /\ Free(live)
  /\ others' = others + 1
  /\ stolen' = (stolen \/ (step # "none" /\ idleFd_ = "none" /\ Used(live) + 1 = MaxFds))
  /\ UNCHANGED <<listenning_, idleFd_, step, arrived, taken>>

OtherCloses ==
  /\ others > 0
  /\ others' = others - 1
  /\ UNCHANGED <<listenning_, idleFd_, step, arrived, taken, stolen>>
=============================================================================
