--------------------------- MODULE EventLoopThread ---------------------------
(***************************************************************************)
(* muduo::net::EventLoopThread (muduo/net/EventLoopThread.cc): an owner    *)
(* thread starts a thread that runs an EventLoop on its stack, waits for   *)
(* the loop's address, uses the loop, and destroys the EventLoopThread.    *)
(* The loop is EventLoop; Thread::start() and its latch are part of the    *)
(* owner's steps, the condition variable is a place of the owner.          *)
(***************************************************************************)
EXTENDS EventLoop

CONSTANT Owner    \* the thread that owns the EventLoopThread object

ASSUME OwnerAssumption == Owner \in Threads

VARIABLES
  loop_,      \* loop_ != NULL
  alive,      \* the EventLoop object on threadFunc's stack exists
  tpc,        \* where threadFunc is
  opc,        \* where the owner is
  otherQuit   \* history: quit() was called by something else than the dtor

own   == <<loop_, alive, tpc, opc, otherQuit>>
tvars == <<vars, loop_, alive, tpc, opc, otherQuit>>

\* EventLoopThread::EventLoopThread(); the loop's own variables describe the
\* object that threadFunc will construct.
ThreadInit ==
  /\ Init
  /\ loop_ = FALSE /\ alive = FALSE /\ otherQuit = FALSE
  /\ tpc = "none" /\ opc = "new"

-----------------------------------------------------------------------------
(* threadFunc().                                                           *)

\* Thread::start() created the thread: ThreadData::runInThread() counts the
\* latch down and calls threadFunc(), which constructs the loop.
ThreadBegins ==
  /\ tpc = "created"
  /\ tpc' = "callback" /\ alive' = TRUE
  /\ UNCHANGED <<vars, loop_, opc, otherQuit>>

Publish_NoNotify ==
  /\ tpc = "callback"
  /\ tpc' = "published" /\ loop_' = TRUE
  /\ UNCHANGED <<vars, alive, opc, otherQuit>>

\* loop_ = &loop; cond_.notify(); under mutex_.
Publish ==
  /\ tpc = "callback"
  /\ tpc' = "published" /\ loop_' = TRUE
  /\ opc' = IF opc = "cond" THEN "woken" ELSE opc
  /\ UNCHANGED <<vars, alive, otherQuit>>

\* loop.loop()
EnterLoop ==
  /\ tpc = "published"
  /\ StartLoop
  /\ tpc' = "looping"
  /\ UNCHANGED <<loop_, alive, opc, otherQuit>>

InLoop == tpc = "looping" /\ UNCHANGED own

ThreadLoopStep == InLoop /\ LoopStep
ThreadPollReadable == InLoop /\ \E io \in SUBSET IOChannels : PollReadable(io)
ThreadPollTimeout == InLoop /\ PollTimeout

\* Calls of callback_ before loop(), and of functors and handlers inside it.
CallbackRuns == tpc = "callback" \/ (tpc = "looping" /\ InCallback)

CallbackQueues ==
  /\ CallbackRuns
  /\ \E f \in Functors : QueueInOwnLoop(f) \/ RunInOwnLoop(f)
  /\ UNCHANGED own

CallbackQuits ==
  /\ CallbackRuns
  /\ QuitOwnLoop
  /\ otherQuit' = TRUE
  /\ UNCHANGED <<loop_, alive, tpc, opc>>

\* loop() returned: loop_ = NULL under mutex_.
ClearLoop ==
  /\ tpc = "looping" /\ lpc = "outside"
  /\ tpc' = "cleared" /\ loop_' = FALSE
  /\ UNCHANGED <<vars, alive, opc, otherQuit>>

\* The end of threadFunc(): the lock is released, then ~EventLoop() runs.
ThreadEnds ==
  /\ tpc = "cleared"
  /\ tpc' = "finished" /\ alive' = FALSE
  /\ UNCHANGED <<vars, loop_, opc, otherQuit>>

-----------------------------------------------------------------------------
(* The owner.                                                              *)

\* startLoop(): thread_.start(), up to latch_.wait().
StartThread ==
  /\ opc = "new"
  /\ opc' = "latch" /\ tpc' = "created"
  /\ UNCHANGED <<vars, loop_, alive, otherQuit>>

WaitForLoop_NoTest ==
  /\ \/ opc = "latch" /\ tpc # "created"
     \/ opc = "woken"
  /\ opc' = "running"
  /\ UNCHANGED <<vars, loop_, alive, tpc, otherQuit>>

\* The latch opens, or the condition variable was notified: the while test of
\* startLoop() under mutex_.
WaitForLoop ==
  /\ \/ opc = "latch" /\ tpc # "created"
     \/ opc = "woken"
  /\ opc' = IF loop_ THEN "running" ELSE "cond"
  /\ UNCHANGED <<vars, loop_, alive, tpc, otherQuit>>

\* The owner uses the loop that startLoop() returned, while it exists.
OwnerQueues ==
  /\ opc = "running" /\ alive
  /\ \E f \in Functors : QueueInLoop(Owner, f)
  /\ UNCHANGED own

OwnerQuits ==
  /\ opc = "running" /\ alive
  /\ Quit(Owner)
  /\ otherQuit' = TRUE
  /\ UNCHANGED <<loop_, alive, tpc, opc>>

OwnerWakes == opc = "running" /\ Wakeup(Owner) /\ UNCHANGED own

\* ~EventLoopThread(): the test of loop_, read without the mutex.
DtorCheck ==
  /\ opc \in {"new", "running"} /\ pc[Owner] = "idle"
  /\ opc' = IF loop_ THEN "checked" ELSE "destroyed"
  /\ UNCHANGED <<vars, loop_, alive, tpc, otherQuit>>

DtorQuit_Nothing ==
  /\ opc = "checked"
  /\ pc' = [pc EXCEPT ![Owner] = "wake"]
  /\ opc' = "quit"
  /\ UNCHANGED <<flags, queue, events, lpc, loop_, alive, tpc, otherQuit>>

\* loop_->quit(): the store, then the wakeup.
DtorQuit ==
  /\ opc = "checked"
  /\ Quit(Owner)
  /\ opc' = "quit"
  /\ UNCHANGED <<loop_, alive, tpc, otherQuit>>

DtorWake ==
  /\ opc = "quit"
  /\ Wakeup(Owner)
  /\ opc' = "join"
  /\ UNCHANGED <<loop_, alive, tpc, otherQuit>>

\* thread_.join()
DtorJoin ==
  /\ opc = "join" /\ tpc = "finished"
  /\ opc' = "destroyed"
  /\ UNCHANGED <<vars, loop_, alive, tpc, otherQuit>>

-----------------------------------------------------------------------------
ThreadFuncStep == ThreadBegins \/ Publish \/ EnterLoop \/ ThreadLoopStep \/ ClearLoop \/ ThreadEnds

OwnerStep == WaitForLoop \/ OwnerWakes \/ DtorQuit \/ DtorWake \/ DtorJoin

ThreadNext ==
  \/ ThreadFuncStep \/ OwnerStep
  \/ ThreadPollReadable \/ ThreadPollTimeout
  \/ CallbackQueues \/ CallbackQuits
  \/ StartThread \/ OwnerQueues \/ OwnerQuits \/ DtorCheck

ThreadSpec == ThreadInit /\ [][ThreadNext]_tvars

\* Both threads keep running, a poll with a readable eventfd returns, and so
\* does every poll after kPollTimeMs.  Calling the destructor, queueing and
\* quitting are the program's choice.
ThreadFairSpec ==
  /\ ThreadSpec
  /\ WF_tvars(ThreadFuncStep)
  /\ WF_tvars(OwnerStep)
  /\ WF_tvars(wakeupFd_ /\ ThreadPollReadable)
  /\ WF_tvars(ThreadPollTimeout)

-----------------------------------------------------------------------------
(* Properties.                                                             *)

\* startLoop() returned the address of a loop that exists, and the destructor
\* enters quit() on one, unless something else quit the loop first.  It says
\* nothing of the write that ends quit(): the loop may see quit_, return and be
\* destroyed before it, the race the comment in EventLoop::quit() admits.
LoopOutlivesCalls ==
  opc \in {"running", "checked"} /\ ~otherQuit => alive /\ loop_

\* startLoop() returns, unless the loop was quit before the owner saw loop_.
StartLoopReturns == opc \in {"latch", "cond"} ~> opc = "running" \/ otherQuit

\* The destructor of a thread whose loop is already looping quits it, joins
\* and returns.
LateDtorReturns == opc = "checked" /\ looping_ ~> opc = "destroyed"
=============================================================================
