------------------------------ MODULE EventLoop ------------------------------
(***************************************************************************)
(* muduo::net::EventLoop (muduo/net/EventLoop.cc): one loop thread that    *)
(* polls, handles the active channels and then runs the pending functors,  *)
(* and other threads that queue functors and quit the loop.                *)
(*                                                                         *)
(* Atomicity.  The loop thread advances by the statements of loop() and    *)
(* doPendingFunctors() that another thread can observe: reads of quit_,    *)
(* the poll, the swap under mutex_.  A caller's push under mutex_ and its  *)
(* write to the eventfd are two steps, as are the store to quit_ and the   *)
(* write that follows it.  What the loop thread does in one callback       *)
(* between two such points is one step.                                    *)
(*                                                                         *)
(* The eventfd is abstracted to "readable or not", the only thing poll     *)
(* tells apart.  A functor is queued at most once, so its name identifies  *)
(* the call that queued it.                                                *)
(***************************************************************************)
EXTENDS Naturals, Sequences, Functions

CONSTANTS
  Threads,      \* the threads other than the loop thread
  Functors,     \* names of the callbacks passed to queueInLoop/runInLoop
  IOChannels,   \* channels other than the wakeup channel
  WakeupChannel,
  NoChannel     \* currentActiveChannel_ = NULL

ASSUME ChannelAssumption ==
  /\ WakeupChannel \notin IOChannels
  /\ NoChannel \notin IOChannels \cup {WakeupChannel}

VARIABLES
  looping_,
  quit_,                    \* std::atomic<bool>
  callingPendingFunctors_,
  pendingFunctors_,         \* guarded by mutex_
  functors,                 \* the local vector of doPendingFunctors()
  wakeupFd_,                \* TRUE iff the eventfd's counter is positive
  activeChannels_,          \* those poll() returned and loop() has yet to handle
  currentActiveChannel_,
  lpc,                      \* where the loop thread is
  pc,                       \* where each other thread is
  submitted,                \* history: functors in the order they were queued
  executed,                 \* history: queued functors in the order they ran
  direct,                   \* history: functors runInLoop() ran on the spot
  early                     \* history: functors the loop thread queued outside loop()

flags   == <<looping_, quit_, callingPendingFunctors_>>
queue   == <<pendingFunctors_, functors, submitted, executed, direct, early>>
events  == <<wakeupFd_, activeChannels_, currentActiveChannel_>>
vars    == <<looping_, quit_, callingPendingFunctors_, pendingFunctors_, functors,
             wakeupFd_, activeChannels_, currentActiveChannel_, lpc, pc,
             submitted, executed, direct, early>>

Channels == IOChannels \cup {WakeupChannel}
\* A functor is queued or run once in a behaviour: the bound on calls.
Fresh(f) == f \notin Range(submitted) /\ f \notin direct

\* Types, and what each place of the loop thread says of the flags and of the
\* two work lists: looping_ holds exactly inside loop(), callingPendingFunctors_
\* exactly while doPendingFunctors() runs its local vector, and no active
\* channel or swapped functor is left behind when loop() moves on.
TypeOK ==
  /\ looping_ \in BOOLEAN /\ quit_ \in BOOLEAN
  /\ callingPendingFunctors_ \in BOOLEAN
  /\ pendingFunctors_ \in Seq(Functors) /\ functors \in Seq(Functors)
  /\ wakeupFd_ \in BOOLEAN
  /\ activeChannels_ \subseteq Channels
  /\ currentActiveChannel_ \in Channels \cup {NoChannel}
  /\ lpc \in {"outside", "check", "poll", "handle", "swap", "run", "call"}
  /\ pc \in [Threads -> {"idle", "wake"}]
  /\ submitted \in Seq(Functors) /\ executed \in Seq(Functors)
  /\ direct \subseteq Functors /\ early \subseteq Functors
  /\ looping_ <=> lpc # "outside"
  /\ callingPendingFunctors_ <=> lpc \in {"run", "call"}
  /\ functors # <<>> => lpc \in {"run", "call"}
  /\ activeChannels_ # {} => lpc = "handle"

\* EventLoop::EventLoop()
Init ==
  /\ looping_ = FALSE /\ quit_ = FALSE /\ callingPendingFunctors_ = FALSE
  /\ pendingFunctors_ = <<>> /\ functors = <<>>
  /\ wakeupFd_ = FALSE
  /\ activeChannels_ = {} /\ currentActiveChannel_ = NoChannel
  /\ lpc = "outside" /\ pc = [t \in Threads |-> "idle"]
  /\ submitted = <<>> /\ executed = <<>> /\ direct = {} /\ early = {}

-----------------------------------------------------------------------------
(* The loop thread: loop() and doPendingFunctors().                        *)

\* loop(): looping_ = true; quit_ = false; then the while test.
StartLoop ==
  /\ lpc = "outside"
  /\ ~looping_
  /\ looping_' = TRUE /\ quit_' = FALSE
  /\ lpc' = "check"
  /\ UNCHANGED <<callingPendingFunctors_, queue, events, pc>>

\* while (!quit_) { activeChannels_.clear(); ... } looping_ = false;
CheckQuit ==
  /\ lpc = "check"
  /\ \/ /\ quit_
        /\ looping_' = FALSE /\ lpc' = "outside"
        /\ UNCHANGED <<activeChannels_, wakeupFd_, currentActiveChannel_>>
     \/ /\ ~quit_
        /\ activeChannels_' = {} /\ lpc' = "poll"
        /\ UNCHANGED <<looping_, wakeupFd_, currentActiveChannel_>>
  /\ UNCHANGED <<quit_, callingPendingFunctors_, queue, pc>>

\* poller_->poll() returns because at least one channel is ready: the wakeup
\* channel when the eventfd is readable, any I/O channels the kernel reports.
PollReadable(io) ==
  /\ lpc = "poll"
  /\ LET ready == io \cup {c \in {WakeupChannel} : wakeupFd_}
     IN  ready # {} /\ activeChannels_' = ready
  /\ lpc' = "handle"
  /\ UNCHANGED <<wakeupFd_, currentActiveChannel_, flags, queue, pc>>

\* poller_->poll() returns after kPollTimeMs with nothing active.
PollTimeout ==
  /\ lpc = "poll"
  /\ ~wakeupFd_
  /\ lpc' = "handle"
  /\ UNCHANGED <<flags, queue, events, pc>>

HandleEvent_NoAdvance(c) ==
  /\ lpc = "handle"
  /\ c \in activeChannels_
  /\ currentActiveChannel_' = c
  /\ wakeupFd_' = IF c = WakeupChannel THEN FALSE ELSE wakeupFd_
  /\ UNCHANGED <<activeChannels_, flags, queue, lpc, pc>>

\* EventLoop::handleRead(), or the handler of an I/O channel, whose calls on
\* the loop are the In-loop actions below.
HandleEvent(c) ==
  /\ lpc = "handle"
  /\ c \in activeChannels_
  /\ activeChannels_' = activeChannels_ \ {c}
  /\ currentActiveChannel_' = c
  /\ wakeupFd_' = IF c = WakeupChannel THEN FALSE ELSE wakeupFd_
  /\ UNCHANGED <<flags, queue, lpc, pc>>

\* The end of the for over activeChannels_.
EventsHandled ==
  /\ lpc = "handle"
  /\ activeChannels_ = {}
  /\ currentActiveChannel_' = NoChannel
  /\ lpc' = "swap"
  /\ UNCHANGED <<wakeupFd_, activeChannels_, flags, queue, pc>>

SwapFunctors_NoClear ==
  /\ lpc = "swap"
  /\ callingPendingFunctors_' = TRUE
  /\ functors' = pendingFunctors_
  /\ lpc' = "run"
  /\ UNCHANGED <<looping_, quit_, pendingFunctors_, submitted, executed, direct,
                 early, events, pc>>

\* doPendingFunctors(): the flag, then the swap under mutex_.
SwapFunctors ==
  /\ lpc = "swap"
  /\ callingPendingFunctors_' = TRUE
  /\ functors' = pendingFunctors_ /\ pendingFunctors_' = <<>>
  /\ lpc' = "run"
  /\ UNCHANGED <<looping_, quit_, submitted, executed, direct, early, events, pc>>

\* for (const Functor& functor : functors) functor();
RunFunctor ==
  /\ lpc \in {"run", "call"}
  /\ functors # <<>>
  /\ executed' = Append(executed, Head(functors))
  /\ functors' = Tail(functors)
  /\ lpc' = "call"
  /\ UNCHANGED <<pendingFunctors_, submitted, direct, early, flags, events, pc>>

FunctorsDone ==
  /\ lpc \in {"run", "call"}
  /\ functors = <<>>
  /\ callingPendingFunctors_' = FALSE
  /\ lpc' = "check"
  /\ UNCHANGED <<looping_, quit_, queue, events, pc>>

-----------------------------------------------------------------------------
(* Calls on the loop made by its own thread: from the handler of an I/O    *)
(* channel, from a functor, or before and after loop().                    *)

InCallback ==
  \/ lpc = "handle" /\ currentActiveChannel_ \in IOChannels
  \/ lpc = "call"

MayCall == InCallback \/ lpc = "outside"

QueueInOwnLoop_NoWakeup(f) ==
  /\ MayCall /\ Fresh(f)
  /\ pendingFunctors_' = Append(pendingFunctors_, f)
  /\ submitted' = Append(submitted, f)
  /\ early' = IF lpc = "outside" THEN early \cup {f} ELSE early
  /\ UNCHANGED <<functors, executed, direct, events, flags, lpc, pc>>

\* queueInLoop() in the loop thread: wakeup() only if callingPendingFunctors_.
QueueInOwnLoop(f) ==
  /\ MayCall /\ Fresh(f)
  /\ pendingFunctors_' = Append(pendingFunctors_, f)
  /\ submitted' = Append(submitted, f)
  /\ wakeupFd_' = (wakeupFd_ \/ callingPendingFunctors_)
  /\ early' = IF lpc = "outside" THEN early \cup {f} ELSE early
  /\ UNCHANGED <<functors, executed, direct, activeChannels_,
                 currentActiveChannel_, flags, lpc, pc>>

RunInOwnLoop_AlsoQueues(f) ==
  /\ MayCall /\ Fresh(f)
  /\ direct' = direct \cup {f}
  /\ pendingFunctors_' = Append(pendingFunctors_, f)
  /\ submitted' = Append(submitted, f)
  /\ wakeupFd_' = TRUE
  /\ UNCHANGED <<functors, executed, early, activeChannels_, currentActiveChannel_,
                 flags, lpc, pc>>

\* runInLoop() in the loop thread: cb() at once.
RunInOwnLoop(f) ==
  /\ MayCall /\ Fresh(f)
  /\ direct' = direct \cup {f}
  /\ UNCHANGED <<pendingFunctors_, functors, submitted, executed, early,
                 flags, events, lpc, pc>>

\* quit() in the loop thread: no wakeup().
QuitOwnLoop ==
  /\ MayCall
  /\ quit_' = TRUE
  /\ UNCHANGED <<looping_, callingPendingFunctors_, queue, events, lpc, pc>>

-----------------------------------------------------------------------------
(* Calls made by the other threads.                                        *)

\* queueInLoop(), or runInLoop(), which calls it: the push under mutex_.
QueueInLoop(t, f) ==
  /\ pc[t] = "idle" /\ Fresh(f)
  /\ pendingFunctors_' = Append(pendingFunctors_, f)
  /\ submitted' = Append(submitted, f)
  /\ pc' = [pc EXCEPT ![t] = "wake"]
  /\ UNCHANGED <<functors, executed, direct, early, flags, events, lpc>>

Quit_NoWakeup(t) ==
  /\ pc[t] = "idle"
  /\ quit_' = TRUE
  /\ UNCHANGED <<looping_, callingPendingFunctors_, queue, events, lpc, pc>>

\* quit(): the store to quit_.
Quit(t) ==
  /\ pc[t] = "idle"
  /\ quit_' = TRUE
  /\ pc' = [pc EXCEPT ![t] = "wake"]
  /\ UNCHANGED <<looping_, callingPendingFunctors_, queue, events, lpc>>

\* wakeup(): the write that ends queueInLoop() and quit().
Wakeup(t) ==
  /\ pc[t] = "wake"
  /\ wakeupFd_' = TRUE
  /\ pc' = [pc EXCEPT ![t] = "idle"]
  /\ UNCHANGED <<activeChannels_, currentActiveChannel_, flags, queue, lpc>>

-----------------------------------------------------------------------------
LoopStep ==
  \/ CheckQuit
  \/ \E c \in Channels : HandleEvent(c)
  \/ EventsHandled
  \/ SwapFunctors
  \/ RunFunctor
  \/ FunctorsDone

Next ==
  \/ StartLoop
  \/ LoopStep
  \/ \E io \in SUBSET IOChannels : PollReadable(io)
  \/ PollTimeout
  \/ \E f \in Functors : QueueInOwnLoop(f) \/ RunInOwnLoop(f)
  \/ QuitOwnLoop
  \/ \E t \in Threads : (\E f \in Functors : QueueInLoop(t, f)) \/ Quit(t) \/ Wakeup(t)

Spec == Init /\ [][Next]_vars

\* A thread inside loop() keeps taking its steps, callbacks included; a poll
\* whose eventfd is readable returns; a thread that pushed or stored quit_
\* gets to its write.  Nothing is assumed of the poll timeout or of I/O.
Fairness ==
  /\ WF_vars(LoopStep)
  /\ WF_vars(wakeupFd_ /\ \E io \in SUBSET IOChannels : PollReadable(io))
  /\ \A t \in Threads : WF_vars(Wakeup(t))

FairSpec == Spec /\ Fairness

-----------------------------------------------------------------------------
(* Properties.                                                             *)

\* Every queued functor is in exactly one place, and the order of the pushes
\* under mutex_ is the order of execution across batches: what was queued is
\* what ran, then the rest of the swapped vector, then pendingFunctors_.
QueueHistory == submitted = executed \o functors \o pendingFunctors_

\* The wakeup condition of queueInLoop(): the loop never sits in poll() over a
\* functor queued from another thread, or by a callback of the loop, unless
\* the eventfd is readable or a thread is about to make it so.
NoLostWakeup ==
  lpc = "poll" /\ Range(pendingFunctors_) \ early # {}
    => wakeupFd_ \/ \E t \in Threads : pc[t] = "wake"

\* queueInLoop() without the help of the poll timeout: a functor queued from
\* another thread or a callback runs, unless the loop is quit first.
PromptlyRun ==
  \A f \in Functors :
    f \in Range(submitted) \ early ~> f \in Range(executed) \/ lpc = "outside"

\* quit() of a loop that is looping makes loop() return, from whatever thread
\* it is called, without the help of the poll timeout.
QuitStops == quit_ /\ looping_ ~> ~looping_

\* The queue and the swap together behave as one first-in first-out executor.
Executor == INSTANCE Executor
              WITH queue <- functors \o pendingFunctors_, done <- executed

ImplementsExecutor == Executor!Spec
=============================================================================
