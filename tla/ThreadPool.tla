----------------------------- MODULE ThreadPool -----------------------------
(***************************************************************************)
(* muduo::ThreadPool (muduo/base/ThreadPool.h, ThreadPool.cc): workers     *)
(* that take tasks from a queue, which may be bounded, behind one mutex    *)
(* and the conditions notEmpty_ and notFull_.  A critical section is one   *)
(* step; Condition::wait() ends it, and what follows the wait is another   *)
(* one.  The owner calls start() and stop(), other threads call run().     *)
(***************************************************************************)
EXTENDS Integers, Sequences, FiniteSets

CONSTANTS
  Caller,          \* threads that call run()
  Task,            \* tasks, each given to run() once
  NoTask,
  MaxThreads,      \* bound on the argument of start()
  MaxQueueSizes    \* arguments of setMaxQueueSize(); 0 is no bound

ASSUME ThreadPoolAssumption ==
  NoTask \notin Task /\ MaxThreads \in Nat /\ MaxQueueSizes \subseteq Nat

Worker == 1 .. MaxThreads

VARIABLES
  maxQueueSize,    \* maxQueueSize_
  running,         \* running_
  threads,         \* threads_.size()
  queue,           \* queue_
  owner,           \* "new", "starting", "started", "joining", "stopped"
  toStart,         \* threads start() has yet to create
  wpc,             \* where a worker is in runInThread() and take()
  wtask,           \* the task a worker has taken
  cpc,             \* where a caller is in run()
  ctask,           \* the task a caller has given to run()
  sent, ran        \* history: tasks given to run(), tasks that have run

poolVars == <<maxQueueSize, running, threads, owner, toStart>>
callerVars == <<cpc, ctask, sent>>
vars == <<poolVars, queue, wpc, wtask, callerVars, ran>>

Init ==
  /\ maxQueueSize \in MaxQueueSizes
  /\ running = FALSE /\ threads = 0 /\ owner = "new" /\ toStart = 0
  /\ queue = <<>>
  /\ wpc = [w \in Worker |-> "none"] /\ wtask = [w \in Worker |-> NoTask]
  /\ cpc = [c \in Caller |-> "idle"] /\ ctask = [c \in Caller |-> NoTask]
  /\ sent = {} /\ ran = {}

-----------------------------------------------------------------------------
(* Conditions: pc after notify() or notifyAll() on the threads that wait.  *)

Waiting(pc) == {t \in DOMAIN pc : pc[t] = "waiting"}
Woken(pc) == {t \in DOMAIN pc : pc[t] = "woken"}

Notified(pc) ==
  IF Waiting(pc) = {} THEN {pc} ELSE {[pc EXCEPT ![t] = "woken"] : t \in Waiting(pc)}

NotifiedAll(pc) == [t \in DOMAIN pc |-> IF pc[t] = "waiting" THEN "woken" ELSE pc[t]]

IsFull == maxQueueSize > 0 /\ Len(queue) >= maxQueueSize

-----------------------------------------------------------------------------
(* The owner.                                                              *)

Start(n) ==
  /\ owner = "new"
  /\ running' = TRUE /\ toStart' = n
  /\ owner' = IF n = 0 THEN "started" ELSE "starting"
  /\ UNCHANGED <<maxQueueSize, threads, queue, wpc, wtask, callerVars, ran>>

\* One turn of start()'s loop: Thread::start() returns once the thread runs.
StartThread ==
  /\ owner = "starting"
  /\ threads' = threads + 1 /\ toStart' = toStart - 1
  /\ wpc' = [wpc EXCEPT ![threads + 1] = "loop"]
  /\ owner' = IF toStart = 1 THEN "started" ELSE "starting"
  /\ UNCHANGED <<maxQueueSize, running, queue, wtask, callerVars, ran>>

Stop_NotifiesOne ==
  /\ owner = "started"
  /\ running' = FALSE /\ owner' = "joining"
  /\ wpc' \in Notified(wpc)
  /\ UNCHANGED <<maxQueueSize, threads, toStart, queue, wtask, callerVars, ran>>

\* stop() up to its joins, called by the owner or by ~ThreadPool().
Stop ==
  /\ owner = "started"
  /\ running' = FALSE /\ owner' = "joining"
  /\ wpc' = NotifiedAll(wpc)
  /\ UNCHANGED <<maxQueueSize, threads, toStart, queue, wtask, callerVars, ran>>

Join ==
  /\ owner = "joining" /\ \A w \in 1 .. threads : wpc[w] = "done"
  /\ owner' = "stopped"
  /\ UNCHANGED <<maxQueueSize, running, threads, toStart, queue, wpc, wtask, callerVars, ran>>

-----------------------------------------------------------------------------
(* run().                                                                  *)

\* The critical section of run(), from its start or from a return of wait().
Enqueue_NotifiesIfEmpty(c, t) ==
  \/ /\ IsFull
     /\ cpc' = [cpc EXCEPT ![c] = "waiting"] /\ ctask' = [ctask EXCEPT ![c] = t]
     /\ UNCHANGED <<queue, wpc>>
  \/ /\ ~IsFull
     /\ queue' = Append(queue, t)
     /\ IF queue = <<>> THEN wpc' \in Notified(wpc) ELSE wpc' = wpc
     /\ cpc' = [cpc EXCEPT ![c] = "idle"] /\ ctask' = [ctask EXCEPT ![c] = NoTask]

Enqueue(c, t) ==
  \/ /\ IsFull
     /\ cpc' = [cpc EXCEPT ![c] = "waiting"] /\ ctask' = [ctask EXCEPT ![c] = t]
     /\ UNCHANGED <<queue, wpc>>
  \/ /\ ~IsFull
     /\ queue' = Append(queue, t)
     /\ wpc' \in Notified(wpc)
     /\ cpc' = [cpc EXCEPT ![c] = "idle"] /\ ctask' = [ctask EXCEPT ![c] = NoTask]

\* run() before start(), or without threads: the caller runs the task.
RunInline(c, t) ==
  /\ cpc[c] = "idle" /\ t \notin sent /\ threads = 0 /\ owner # "starting"
  /\ sent' = sent \cup {t} /\ ran' = ran \cup {t}
  /\ UNCHANGED <<poolVars, queue, wpc, wtask, cpc, ctask>>

\* run() of a pool with threads.  A call while start() is still filling
\* threads_ would race with it; the callers know the pool once it is started.
Run(c, t) ==
  /\ cpc[c] = "idle" /\ t \notin sent /\ threads > 0 /\ owner # "starting"
  /\ Enqueue(c, t)
  /\ sent' = sent \cup {t}
  /\ UNCHANGED <<poolVars, wtask, ran>>

RunWoken_NoRecheck(c) ==
  /\ cpc[c] = "woken"
  /\ queue' = Append(queue, ctask[c]) /\ wpc' \in Notified(wpc)
  /\ cpc' = [cpc EXCEPT ![c] = "idle"] /\ ctask' = [ctask EXCEPT ![c] = NoTask]
  /\ UNCHANGED <<poolVars, wtask, sent, ran>>

\* notFull_.wait() returns and the loop tests isFull() again.
RunWoken(c) ==
  /\ cpc[c] = "woken"
  /\ Enqueue(c, ctask[c])
  /\ UNCHANGED <<poolVars, wtask, sent, ran>>

-----------------------------------------------------------------------------
(* A worker: runInThread() and take().                                     *)

\* while (running_), without the mutex.
CheckRunning(w) ==
  /\ wpc[w] = "loop"
  /\ wpc' = [wpc EXCEPT ![w] = IF running THEN "take" ELSE "done"]
  /\ UNCHANGED <<poolVars, queue, wtask, callerVars, ran>>

TakeWaits(w) ==
  /\ queue = <<>> /\ running
  /\ wpc' = [wpc EXCEPT ![w] = "waiting"]
  /\ UNCHANGED <<queue, wtask, cpc>>

TakeNothing(w) ==
  /\ queue = <<>> /\ ~running
  /\ wpc' = [wpc EXCEPT ![w] = "loop"]
  /\ UNCHANGED <<queue, wtask, cpc>>

TakeFront_NotifiesIfFull(w) ==
  /\ queue # <<>>
  /\ wtask' = [wtask EXCEPT ![w] = Head(queue)] /\ queue' = Tail(queue)
  /\ IF IsFull THEN cpc' \in Notified(cpc) ELSE cpc' = cpc
  /\ wpc' = [wpc EXCEPT ![w] = "run"]

TakeFront_NoPop(w) ==
  /\ queue # <<>>
  /\ wtask' = [wtask EXCEPT ![w] = Head(queue)] /\ queue' = queue
  /\ IF maxQueueSize > 0 THEN cpc' \in Notified(cpc) ELSE cpc' = cpc
  /\ wpc' = [wpc EXCEPT ![w] = "run"]

TakeFront(w) ==
  /\ queue # <<>>
  /\ wtask' = [wtask EXCEPT ![w] = Head(queue)] /\ queue' = Tail(queue)
  /\ IF maxQueueSize > 0 THEN cpc' \in Notified(cpc) ELSE cpc' = cpc
  /\ wpc' = [wpc EXCEPT ![w] = "run"]

\* take(), from its start or from a return of notEmpty_.wait().
Take(w) ==
  /\ wpc[w] \in {"take", "woken"}
  /\ TakeWaits(w) \/ TakeNothing(w) \/ TakeFront(w)
  /\ UNCHANGED <<poolVars, ctask, sent, ran>>

RunTask_Leaves(w) ==
  /\ wpc[w] = "run"
  /\ ran' = ran \cup {wtask[w]} /\ wtask' = [wtask EXCEPT ![w] = NoTask]
  /\ wpc' = [wpc EXCEPT ![w] = "done"]
  /\ UNCHANGED <<poolVars, queue, callerVars>>

\* task()
RunTask(w) ==
  /\ wpc[w] = "run"
  /\ ran' = ran \cup {wtask[w]} /\ wtask' = [wtask EXCEPT ![w] = NoTask]
  /\ wpc' = [wpc EXCEPT ![w] = "loop"]
  /\ UNCHANGED <<poolVars, queue, callerVars>>

\* pthread_cond_wait() may return without a signal.
SpuriousWakeup ==
  /\ \/ \E w \in Waiting(wpc) : wpc' = [wpc EXCEPT ![w] = "woken"] /\ cpc' = cpc
     \/ \E c \in Waiting(cpc) : cpc' = [cpc EXCEPT ![c] = "woken"] /\ wpc' = wpc
  /\ UNCHANGED <<poolVars, queue, wtask, ctask, sent, ran>>

-----------------------------------------------------------------------------
WorkerStep(w) == CheckRunning(w) \/ Take(w) \/ RunTask(w)

Next ==
  \/ \E n \in 0 .. MaxThreads : Start(n)
  \/ StartThread \/ Stop \/ Join
  \/ \E c \in Caller : RunWoken(c) \/ \E t \in Task : RunInline(c, t) \/ Run(c, t)
  \/ \E w \in Worker : WorkerStep(w)
  \/ SpuriousWakeup

\* Threads that can run do, and tasks return.  Nobody has to call anything.
Fairness ==
  /\ WF_vars(StartThread) /\ WF_vars(Join)
  /\ \A c \in Caller : WF_vars(RunWoken(c))
  /\ \A w \in Worker : WF_vars(WorkerStep(w))

Spec == Init /\ [][Next]_vars /\ Fairness

-----------------------------------------------------------------------------
(* Properties.                                                             *)

\* A task given to run() is at every moment in one place: with the caller that
\* blocks, in the queue, with one worker, or done.  It is never lost, and never
\* run twice.
OnePlace ==
  \A t \in Task :
    Cardinality({c \in Caller : ctask[c] = t}) + Cardinality({i \in DOMAIN queue : queue[i] = t})
      + Cardinality({w \in Worker : wtask[w] = t}) + (IF t \in ran THEN 1 ELSE 0)
    = IF t \in sent THEN 1 ELSE 0

\* No signal of a condition is lost, and none is trusted: while a worker waits,
\* there is for every queued task a worker that was woken and has not looked yet;
\* while a caller of run() waits, there is for every free place such a caller; and
\* the queue never exceeds maxQueueSize_.
SignalsReach ==
  /\ Waiting(wpc) # {} => Len(queue) <= Cardinality(Woken(wpc))
  /\ Waiting(cpc) # {} => maxQueueSize - Len(queue) <= Cardinality(Woken(cpc))
  /\ maxQueueSize > 0 => Len(queue) <= maxQueueSize

\* A task given to run() is run, also when run() had to block, unless the pool
\* is stopped: no worker and no caller waits for ever while the pool runs.
TasksRun == \A t \in Task : t \in sent ~> (t \in ran \/ ~running)

\* stop() joins all workers, wherever they were.
StopReturns == owner = "joining" ~> owner = "stopped"
=============================================================================
