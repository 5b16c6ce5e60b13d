----------------------------- MODULE TimerQueue -----------------------------
(***************************************************************************)
(* muduo::net::TimerQueue (muduo/net/TimerQueue.cc): the timers of one     *)
(* EventLoop, driven by a timerfd.  addTimer() and cancel() may be called  *)
(* by any thread; they allocate a Timer and hand the rest to the loop with *)
(* runInLoop(), whose FIFO (module Executor, implemented by EventLoop) is  *)
(* the sequence functors.  Timers live at heap addresses that the          *)
(* allocator may reuse.                                                    *)
(***************************************************************************)
EXTENDS Integers, Sequences, FiniteSets

CONSTANTS
  Addrs,        \* heap addresses a Timer may get: positive integers
  Threads,      \* threads other than the loop's
  Whens,        \* expiration times a caller asks for
  Intervals,    \* repeat intervals a caller asks for, 0 for none
  MinDelay,     \* the least delay timerfd_settime() is given (100 us)
  MaxCreated,   \* bound on Timer::s_numCreated_
  MaxNow,       \* bound on the wall clock
  MaxFunctors   \* bound on the functors waiting in the loop

ASSUME TimerAssumption ==
  /\ Addrs \subseteq Nat \ {0} /\ IsFiniteSet(Addrs)
  /\ Whens \subseteq Nat /\ Intervals \subseteq Nat
  /\ MinDelay \in Nat \ {0}
  /\ MaxCreated \in Nat /\ MaxNow \in Nat /\ MaxFunctors \in Nat

VARIABLES
  heap,                  \* the Timer object at each address
  numCreated,            \* Timer::s_numCreated_
  timers_,               \* set of <<expiration, address>>
  activeTimers_,         \* set of <<address, sequence>>
  callingExpiredTimers_,
  cancelingTimers_,      \* set of <<address, sequence>>
  expired,               \* handleRead(): the batch moved out by getExpired()
  todo,                  \* handleRead(): the part of it not yet run
  batchNow,              \* handleRead(): its now
  alarm,                 \* timerfd: ticks until it expires, 0 when disarmed
  ticks,                 \* timerfd: expired and not read
  active,                \* the poll reported the timerfd, handleRead() is due
  now,                   \* the wall clock
  functors,              \* pendingFunctors_: additions and cancellations
  adding,                \* per thread: the Timer whose sequence() it will read
  ids,                   \* TimerIds returned, with the timer they were made for
  cancelled              \* history: timers that cancelInLoop() found

queue   == <<timers_, activeTimers_>>
batch   == <<callingExpiredTimers_, expired, todo, batchNow>>
timerfd == <<alarm, ticks>>
callers == <<adding, ids>>
vars == <<heap, numCreated, queue, batch, cancelingTimers_, timerfd, active, now,
          functors, callers, cancelled>>

Sequences_ == 0 .. MaxCreated
ActiveTimer == Addrs \X Sequences_
NoTimer == [sequence |-> 0, expiration |-> 0, interval |-> 0]
Nobody == [timer |-> 0, made |-> 0]
Allocated == {a \in Addrs : heap[a] # NoTimer}
Addresses(entries) == {e[2] : e \in entries}
Larger(x, y) == IF x < y THEN y ELSE x

\* std::pair's order on entries.
Before(d, e) == d[1] < e[1] \/ (d[1] = e[1] /\ d[2] < e[2])

\* The entry whose callback handleRead() is running.
IsCurrent(e) == e \in todo /\ \A d \in todo \ {e} : Before(e, d)

Init ==
  /\ heap = [a \in Addrs |-> NoTimer] /\ numCreated = 0
  /\ timers_ = {} /\ activeTimers_ = {} /\ cancelingTimers_ = {}
  /\ callingExpiredTimers_ = FALSE /\ expired = {} /\ todo = {} /\ batchNow = 0
  /\ alarm = 0 /\ ticks = FALSE /\ active = FALSE /\ now = 1
  /\ functors = <<>> /\ adding = [t \in Threads |-> Nobody]
  /\ ids = {} /\ cancelled = {}

-----------------------------------------------------------------------------
(* The timerfd and the clock.                                              *)

\* resetTimerfd() with howMuchTimeFromNow(): timerfd_settime() also forgets an
\* expiration that was not read.
ResetTimerfd(when) == alarm' = Larger(when - now, MinDelay) /\ ticks' = FALSE

\* A unit of time passes; at MaxNow only the timerfd's clock moves on.
Tick ==
  /\ now < MaxNow \/ alarm > 0
  /\ now' = IF now < MaxNow THEN now + 1 ELSE now
  /\ alarm' = Larger(alarm - 1, 0)
  /\ ticks' = (ticks \/ alarm = 1)
  /\ UNCHANGED <<heap, numCreated, queue, batch, cancelingTimers_, active, functors,
                 callers, cancelled>>

\* The wall clock is set back; the timerfd runs on CLOCK_MONOTONIC.
ClockSetBack ==
  /\ now > 1 /\ now < MaxNow
  /\ now' = now - 1
  /\ UNCHANGED <<heap, numCreated, queue, batch, cancelingTimers_, timerfd, active,
                 functors, callers, cancelled>>

\* The loop's poll reports the timerfd.
Poll ==
  /\ ticks /\ ~active /\ ~callingExpiredTimers_
  /\ active' = TRUE
  /\ UNCHANGED <<heap, numCreated, queue, batch, cancelingTimers_, timerfd, now,
                 functors, callers, cancelled>>

-----------------------------------------------------------------------------
(* What runs in the loop's thread.                                         *)

\* What insert() returns: timers_ is empty or when is before its begin().
EarliestChanged(when) == \A e \in timers_ : when < e[1]

AddTimerInLoop_NeverResets(a, timer) ==
  /\ timers_' = timers_ \cup {<<timer.expiration, a>>}
  /\ activeTimers_' = activeTimers_ \cup {<<a, timer.sequence>>}
  /\ IF timers_ = {} THEN ResetTimerfd(timer.expiration) ELSE UNCHANGED timerfd

\* addTimerInLoop() with insert().
AddTimerInLoop(a, timer) ==
  /\ timers_' = timers_ \cup {<<timer.expiration, a>>}
  /\ activeTimers_' = activeTimers_ \cup {<<a, timer.sequence>>}
  /\ IF EarliestChanged(timer.expiration)
     THEN ResetTimerfd(timer.expiration)
     ELSE UNCHANGED timerfd

\* cancelInLoop() of a timer in activeTimers_: it is erased and deleted.
CancelActive(id) ==
  /\ id \in activeTimers_
  /\ timers_' = timers_ \ {<<heap[id[1]].expiration, id[1]>>}
  /\ activeTimers_' = activeTimers_ \ {id}
  /\ heap' = [heap EXCEPT ![id[1]] = NoTimer]
  /\ cancelled' = cancelled \cup {id[2]}
  /\ UNCHANGED cancelingTimers_

QueuedAdds == {i \in DOMAIN functors : functors[i].op = "add"}

\* cancelInLoop() from a callback of handleRead(), of a timer not active.
CancelCalled(id) ==
  /\ id \notin activeTimers_ /\ callingExpiredTimers_
  /\ cancelingTimers_' = cancelingTimers_ \cup {id}
  /\ cancelled' = IF id[1] \in Addresses(expired) /\ heap[id[1]].sequence = id[2]
                  THEN cancelled \cup {id[2]} ELSE cancelled
  /\ UNCHANGED <<queue, heap>>

\* cancelInLoop() of a timer that is not there: nothing happens.
CancelNothing(id) ==
  /\ id \notin activeTimers_ /\ ~callingExpiredTimers_
  /\ UNCHANGED <<queue, heap, cancelingTimers_, cancelled>>

CancelInLoop(id) == CancelActive(id) \/ CancelCalled(id) \/ CancelNothing(id)

\* doPendingFunctors() runs a functor queued by another thread.
RunFunctor ==
  /\ functors # <<>> /\ ~active /\ ~callingExpiredTimers_
  /\ functors' = Tail(functors)
  /\ LET f == Head(functors)
     IN  \/ /\ f.op = "add"
            /\ AddTimerInLoop(f.id[1], heap[f.id[1]])
            /\ UNCHANGED <<heap, cancelingTimers_, cancelled>>
         \/ /\ f.op = "cancel"
            /\ CancelInLoop(f.id)
            /\ UNCHANGED timerfd
  /\ UNCHANGED <<numCreated, batch, active, now, callers>>

\* User code runs in the loop's thread: an I/O handler or a functor, or the
\* callback of an expired timer.
InCallback == callingExpiredTimers_ => todo # {}

\* new Timer(cb, when, interval) at a free address.
NewTimer(a, when, interval) ==
  /\ a \notin Allocated /\ numCreated < MaxCreated
  /\ numCreated' = numCreated + 1
  /\ heap' = [heap EXCEPT ![a] = [sequence |-> numCreated', expiration |-> when,
                                  interval |-> interval]]

\* addTimer() in the loop's thread: runInLoop() adds at once.
AddTimerInOwnLoop(a, when, interval) ==
  /\ InCallback
  /\ NewTimer(a, when, interval)
  /\ AddTimerInLoop(a, heap'[a])
  /\ ids' = ids \cup {[id |-> <<a, numCreated'>>, made |-> numCreated']}
  /\ UNCHANGED <<batch, cancelingTimers_, active, now, functors, adding, cancelled>>

\* cancel() in the loop's thread: runInLoop() cancels at once.
CancelInOwnLoop(id) ==
  /\ InCallback
  /\ CancelInLoop(id)
  /\ UNCHANGED <<numCreated, batch, timerfd, active, now, functors, callers>>

HandleRead_KeepsActive ==
  /\ active
  /\ active' = FALSE /\ ticks' = FALSE
  /\ batchNow' = now
  /\ expired' = {e \in timers_ : e[1] <= now}
  /\ todo' = expired'
  /\ timers_' = timers_ \ expired'
  /\ callingExpiredTimers_' = TRUE /\ cancelingTimers_' = {}
  /\ UNCHANGED <<heap, numCreated, activeTimers_, alarm, now, functors, callers, cancelled>>

HandleRead_RunsFirstOnly ==
  /\ active
  /\ active' = FALSE /\ ticks' = FALSE
  /\ batchNow' = now
  /\ expired' = {e \in timers_ : e[1] <= now}
  /\ todo' = {e \in expired' : \A d \in expired' \ {e} : Before(e, d)}
  /\ timers_' = timers_ \ expired'
  /\ activeTimers_' = activeTimers_ \ {<<a, heap[a].sequence>> : a \in Addresses(expired')}
  /\ callingExpiredTimers_' = TRUE /\ cancelingTimers_' = {}
  /\ UNCHANGED <<heap, numCreated, alarm, now, functors, callers, cancelled>>

\* handleRead() up to its loop: readTimerfd(), getExpired(), and the two
\* assignments before the callbacks.
HandleRead ==
  /\ active
  /\ active' = FALSE /\ ticks' = FALSE
  /\ batchNow' = now
  /\ expired' = {e \in timers_ : e[1] <= now}
  /\ todo' = expired'
  /\ timers_' = timers_ \ expired'
  /\ activeTimers_' = activeTimers_ \ {<<a, heap[a].sequence>> : a \in Addresses(expired')}
  /\ callingExpiredTimers_' = TRUE /\ cancelingTimers_' = {}
  /\ UNCHANGED <<heap, numCreated, alarm, now, functors, callers, cancelled>>

\* The callback of the current timer returns.
CallbackReturns ==
  /\ callingExpiredTimers_
  /\ \E e \in todo : IsCurrent(e) /\ todo' = todo \ {e}
  /\ UNCHANGED <<heap, numCreated, queue, callingExpiredTimers_, expired, batchNow,
                 cancelingTimers_, timerfd, active, now, functors, callers, cancelled>>

\* reset(): a repeating timer that no callback cancelled is restarted.
Again(a) == heap[a].interval > 0 /\ <<a, heap[a].sequence>> \notin cancelingTimers_
Restarted == {a \in Addresses(expired) : Again(a)}

Reset_IgnoresCanceling ==
  LET again == {a \in Addresses(expired) : heap[a].interval > 0}
  IN  /\ heap' = [a \in Addrs |->
                    IF a \in again
                    THEN [heap[a] EXCEPT !.expiration = batchNow + heap[a].interval]
                    ELSE IF a \in Addresses(expired) THEN NoTimer ELSE heap[a]]
      /\ timers_' = timers_ \cup {<<heap'[a].expiration, a>> : a \in again}
      /\ activeTimers_' = activeTimers_ \cup {<<a, heap[a].sequence>> : a \in again}

Reset_KeepsTimers ==
  /\ heap' = [a \in Addrs |->
                IF a \in Restarted
                THEN [heap[a] EXCEPT !.expiration = batchNow + heap[a].interval]
                ELSE heap[a]]
  /\ timers_' = timers_ \cup {<<heap'[a].expiration, a>> : a \in Restarted}
  /\ activeTimers_' = activeTimers_ \cup {<<a, heap[a].sequence>> : a \in Restarted}

\* Timer::restart() and insert() for these, delete for the others.
Reset ==
  /\ heap' = [a \in Addrs |->
                IF a \in Restarted
                THEN [heap[a] EXCEPT !.expiration = batchNow + heap[a].interval]
                ELSE IF a \in Addresses(expired) THEN NoTimer ELSE heap[a]]
  /\ timers_' = timers_ \cup {<<heap'[a].expiration, a>> : a \in Restarted}
  /\ activeTimers_' = activeTimers_ \cup {<<a, heap[a].sequence>> : a \in Restarted}

\* reset() ends by setting the timerfd to the first expiration, when valid().
Rearm ==
  LET first == CHOOSE e \in timers_' : \A d \in timers_' \ {e} : Before(e, d)
  IN  IF timers_' # {} /\ first[1] > 0 THEN ResetTimerfd(first[1]) ELSE UNCHANGED timerfd

\* The end of handleRead(): callingExpiredTimers_ = false; reset(expired, now).
HandleReadEnds ==
  /\ callingExpiredTimers_ /\ todo = {}
  /\ callingExpiredTimers_' = FALSE /\ expired' = {} /\ batchNow' = 0
  /\ Reset
  /\ Rearm
  /\ UNCHANGED <<numCreated, todo, cancelingTimers_, active, now, functors, callers,
                 cancelled>>

-----------------------------------------------------------------------------
(* Other threads.                                                          *)

\* addTimer() up to runInLoop().
AddTimer(t, a, when, interval) ==
  /\ adding[t] = Nobody /\ Len(functors) < MaxFunctors
  /\ NewTimer(a, when, interval)
  /\ functors' = Append(functors, [op |-> "add", id |-> <<a, numCreated'>>])
  /\ adding' = [adding EXCEPT ![t] = [timer |-> a, made |-> numCreated']]
  /\ UNCHANGED <<queue, batch, cancelingTimers_, timerfd, active, now, ids, cancelled>>

\* return TimerId(timer, timer->sequence()): the loop may have deleted the
\* timer meanwhile, and then the memory holds anything.
ReturnTimerId(t) ==
  /\ adding[t] # Nobody
  /\ LET a == adding[t].timer
     IN  \E s \in IF a \in Allocated THEN {heap[a].sequence} ELSE Sequences_ :
           ids' = ids \cup {[id |-> <<a, s>>, made |-> adding[t].made]}
  /\ adding' = [adding EXCEPT ![t] = Nobody]
  /\ UNCHANGED <<heap, numCreated, queue, batch, cancelingTimers_, timerfd, active, now,
                 functors, cancelled>>

\* cancel() of any TimerId returned so far.
Cancel(t, id) ==
  /\ adding[t] = Nobody /\ Len(functors) < MaxFunctors
  /\ functors' = Append(functors, [op |-> "cancel", id |-> id])
  /\ UNCHANGED <<heap, numCreated, queue, batch, cancelingTimers_, timerfd, active, now,
                 callers, cancelled>>

-----------------------------------------------------------------------------
LoopStep == Poll \/ RunFunctor \/ HandleRead \/ CallbackReturns \/ HandleReadEnds

Returned == {i.id : i \in ids}

OwnCall ==
  \/ \E a \in Addrs, w \in Whens, i \in Intervals : AddTimerInOwnLoop(a, w, i)
  \/ \E id \in Returned : CancelInOwnLoop(id)

ThreadCall(t) ==
  \/ \E a \in Addrs, w \in Whens, i \in Intervals : AddTimer(t, a, w, i)
  \/ \E id \in Returned : Cancel(t, id)

Next ==
  \/ LoopStep \/ OwnCall \/ Tick \/ ClockSetBack
  \/ \E t \in Threads : ThreadCall(t) \/ ReturnTimerId(t)

Spec == Init /\ [][Next]_vars

\* Time passes and callbacks return; the loop polls again after each batch of
\* functors, however many more are queued meanwhile.  Calls are the program's
\* choice.  The wall clock may be set back, but not for ever.
FairSpec ==
  /\ Spec
  /\ WF_vars(Poll) /\ WF_vars(RunFunctor)
  /\ WF_vars(HandleRead) /\ WF_vars(CallbackReturns) /\ WF_vars(HandleReadEnds)
  /\ WF_vars(Tick) /\ <>[][~ClockSetBack]_vars

-----------------------------------------------------------------------------
(* Properties.                                                             *)

\* timers_ and activeTimers_ hold the same timers, each filed under its
\* expiration, and every Timer on the heap has exactly one owner, timers_, the
\* expired batch or an addTimerInLoop functor: the assertions of insert(),
\* getExpired() and cancelInLoop() hold, and no timer is leaked, deleted twice or
\* used after delete by the loop.
TimersOwned ==
  LET queued == {functors[i].id[1] : i \in QueuedAdds}
  IN  /\ activeTimers_ = {<<e[2], heap[e[2]].sequence>> : e \in timers_}
      /\ \A e \in timers_ : heap[e[2]].expiration = e[1]
      /\ Allocated = Addresses(timers_) \cup Addresses(expired) \cup queued
      /\ Addresses(timers_) \cap (Addresses(expired) \cup queued) = {}
      /\ Addresses(expired) \cap queued = {}
      /\ \A i, j \in QueuedAdds : functors[i].id[1] = functors[j].id[1] => i = j

\* Outside handleRead() the timerfd is armed, or its expiration is about to be
\* handled, whenever a timer is waiting; and it is not armed for later than
\* the first timer needs.
TimerfdArmed ==
  timers_ # {} /\ ~callingExpiredTimers_ =>
    \/ ticks \/ active
    \/ alarm > 0 /\ \A e \in timers_ : alarm <= Larger(e[1] - now, MinDelay)

\* A timer that cancelInLoop() found, waiting or in the batch being called, is
\* gone for good once the batch is done, whatever timer takes its address.
CancelIsFinal ==
  \A s \in cancelled :
    /\ \A id \in activeTimers_ : id[2] # s
    /\ ~callingExpiredTimers_ => \A a \in Allocated : heap[a].sequence # s

IsDue(s) == \E e \in timers_ : heap[e[2]].sequence = s /\ e[1] <= now
Runs(s) == \E e \in todo : IsCurrent(e) /\ heap[e[2]].sequence = s

\* A timer whose expiration has passed runs or is cancelled, however additions,
\* cancellations and a clock set back interfere with the timerfd.
DueTimerRuns ==
  \A s \in 1 .. MaxCreated : IsDue(s) ~> Runs(s) \/ s \in cancelled

\* addTimer() returns the TimerId of the timer it made, in any thread: it "Must
\* be thread safe. Usually be called from other threads."
\* (muduo/net/TimerQueue.h).
IdNamesTimer == \A i \in ids : i.id[2] = i.made
=============================================================================
