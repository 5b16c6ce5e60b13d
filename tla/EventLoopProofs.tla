--------------------------- MODULE EventLoopProofs ---------------------------
(***************************************************************************)
(* Theorems about EventLoop, for any sets of threads, functors and         *)
(* channels: its types, the first-in first-out order of the queue, the     *)
(* absence of lost wakeups and of missed calls of quit(), and that it      *)
(* implements Executor; and about EventLoopThread: the loop it runs is     *)
(* such an EventLoop, outlives the calls of its owner, and announces       *)
(* itself to startLoop().                                                  *)
(***************************************************************************)
EXTENDS EventLoopThread, SequenceTheorems, TLAPS

-----------------------------------------------------------------------------
(* Sequences used as queues: a push at the end, a pop at the head, and     *)
(* queues that are several sequences in a row.                             *)

\* A non-empty queue is its head followed by its tail.
LEMMA HeadThenTail ==
  ASSUME NEW S, NEW b \in Seq(S), b # <<>>
  PROVE  /\ Head(b) \in S /\ Tail(b) \in Seq(S)
         /\ <<Head(b)>> \o Tail(b) = b
<1>1. Head(b) \in S /\ Tail(b) \in Seq(S) /\ Len(Tail(b)) = Len(b) - 1
  BY HeadTailProperties
<1>2. \A i \in 1 .. Len(Tail(b)) : Tail(b)[i] = b[i+1]
  BY HeadTailProperties
<1>3. <<Head(b)>> \in Seq(S) /\ Len(<<Head(b)>>) = 1 /\ <<Head(b)>>[1] = b[1]
  BY <1>1
<1>4. Len(b) \in Nat \ {0}
  BY EmptySeq
<1> DEFINE hb == <<Head(b)>>
<1>5. /\ hb \o Tail(b) \in Seq(S)
      /\ Len(hb \o Tail(b)) = Len(b)
      /\ \A i \in 1 .. Len(b) : (hb \o Tail(b))[i] = IF i <= 1 THEN hb[1] ELSE Tail(b)[i - 1]
  BY <1>1, <1>3, <1>4, ConcatProperties
<1>6. \A i \in 1 .. Len(b) : (hb \o Tail(b))[i] = b[i]
  BY <1>1, <1>2, <1>3, <1>4, <1>5
<1>7. hb \o Tail(b) = b
  BY <1>5, <1>6, SeqEqual
<1> QED
  BY <1>1, <1>7

\* The head of the middle of three sequences moves to the end of the first.
LEMMA MoveHead ==
  ASSUME NEW S, NEW a \in Seq(S), NEW b \in Seq(S), NEW c \in Seq(S), b # <<>>
  PROVE  Append(a, Head(b)) \o Tail(b) \o c = a \o b \o c
<1>1. Head(b) \in S /\ Tail(b) \in Seq(S) /\ <<Head(b)>> \in Seq(S)
  BY HeadThenTail
<1>2. <<Head(b)>> \o Tail(b) = b
  BY HeadThenTail
<1>3. Append(a, Head(b)) = a \o <<Head(b)>>
  BY <1>1, AppendIsConcat
<1>4. (a \o <<Head(b)>>) \o Tail(b) = a \o (<<Head(b)>> \o Tail(b))
  BY <1>1, ConcatAssociative
<1> QED
  BY <1>2, <1>3, <1>4

\* The head of two sequences in a row, the first of them not empty.
LEMMA HeadOfConcat ==
  ASSUME NEW S, NEW b \in Seq(S), NEW c \in Seq(S), b # <<>>
  PROVE  /\ b \o c # <<>>
         /\ Head(b \o c) = Head(b)
         /\ Tail(b \o c) = Tail(b) \o c
<1>1. /\ b \o c \in Seq(S) /\ Len(b \o c) = Len(b) + Len(c)
      /\ \A i \in 1 .. Len(b) + Len(c) :
            (b \o c)[i] = IF i <= Len(b) THEN b[i] ELSE c[i - Len(b)]
  BY ConcatProperties
<1>2. Len(b) \in Nat \ {0} /\ Len(c) \in Nat
  BY EmptySeq, LenProperties
<1>3. b \o c # <<>>
  BY <1>1, <1>2, EmptySeq
<1>4. Head(b \o c) = Head(b)
  BY <1>1, <1>2, <1>3
<1>5. /\ Tail(b) \in Seq(S) /\ Len(Tail(b)) = Len(b) - 1
      /\ \A i \in 1 .. Len(Tail(b)) : Tail(b)[i] = b[i+1]
  BY HeadTailProperties
<1>6. /\ Tail(b \o c) \in Seq(S) /\ Len(Tail(b \o c)) = Len(b) + Len(c) - 1
      /\ \A i \in 1 .. Len(Tail(b \o c)) : Tail(b \o c)[i] = (b \o c)[i+1]
  BY <1>1, <1>3, HeadTailProperties
<1>7. /\ Tail(b) \o c \in Seq(S) /\ Len(Tail(b) \o c) = Len(b) - 1 + Len(c)
      /\ \A i \in 1 .. Len(b) - 1 + Len(c) :
            (Tail(b) \o c)[i] = IF i <= Len(b) - 1 THEN Tail(b)[i] ELSE c[i - (Len(b) - 1)]
  BY <1>5, ConcatProperties
<1>8. \A i \in 1 .. Len(Tail(b \o c)) : Tail(b \o c)[i] = (Tail(b) \o c)[i]
  BY <1>1, <1>2, <1>5, <1>6, <1>7
<1>9. Tail(b \o c) = Tail(b) \o c
  BY <1>2, <1>6, <1>7, <1>8, SeqEqual
<1> QED
  BY <1>3, <1>4, <1>9

\* A push adds exactly the pushed element.
LEMMA RangeOfAppend ==
  ASSUME NEW S, NEW c \in Seq(S), NEW e \in S
  PROVE  Range(Append(c, e)) = Range(c) \cup {e}
<1>1. Append(c, e) = c \o <<e>> /\ <<e>> \in Seq(S)
  BY AppendIsConcat
<1>2. Range(<<e>>) = {e}
  BY DEF Range
<1>3. Range(c \o <<e>>) = Range(c) \cup Range(<<e>>)
  <2> DEFINE t == <<e>>
  <2>1. t \in Seq(S)
    BY <1>1
  <2> HIDE DEF t
  <2>2. Range(c \o t) = Range(c) \cup Range(t)
    BY <2>1, RangeConcatenation
  <2> QED
    BY <2>2 DEF t
<1>4. Range(Append(c, e)) = Range(c \o <<e>>)
  BY <1>1
<1> QED
  BY ONLY <1>2, <1>3, <1>4

-----------------------------------------------------------------------------
(* Types.                                                                  *)

\* The constructor's state has the types and the agreement of flags and
\* places that TypeOK states.
LEMMA InitTypeOK == Init => TypeOK
<1> SUFFICES ASSUME Init PROVE TypeOK
  OBVIOUS
<1>1. looping_ <=> lpc # "outside"
  BY DEF Init
<1>2. callingPendingFunctors_ <=> lpc \in {"run", "call"}
  BY DEF Init
<1>3. pc \in [Threads -> {"idle", "wake"}]
  BY DEF Init
<1>4. /\ looping_ \in BOOLEAN /\ quit_ \in BOOLEAN
      /\ callingPendingFunctors_ \in BOOLEAN /\ wakeupFd_ \in BOOLEAN
  BY Zenon DEF Init
<1>5. /\ activeChannels_ = {} /\ functors = <<>>
      /\ currentActiveChannel_ \in Channels \cup {NoChannel}
      /\ direct \subseteq Functors /\ early \subseteq Functors
  BY DEF Init
<1>6. /\ pendingFunctors_ \in Seq(Functors) /\ functors \in Seq(Functors)
      /\ submitted \in Seq(Functors) /\ executed \in Seq(Functors)
  BY EmptySeq DEF Init
<1>7. lpc = "outside"
  BY SMTT(30) DEF Init
<1> QED
  BY <1>1, <1>2, <1>3, <1>4, <1>5, <1>6, <1>7 DEF TypeOK

\* Every step of the loop thread and of the callers keeps TypeOK.
LEMMA NextTypeOK == TypeOK /\ [Next]_vars => TypeOK'
<1> SUFFICES ASSUME TypeOK, [Next]_vars PROVE TypeOK'
  OBVIOUS
<1> USE DEF TypeOK, flags, queue, events
<1>1. CASE StartLoop
  BY <1>1, Zenon DEF StartLoop
<1>2. CASE CheckQuit
  BY <1>2, Zenon DEF CheckQuit
<1>3. ASSUME NEW c \in Channels, HandleEvent(c) PROVE TypeOK'
  BY <1>3, Zenon DEF HandleEvent
<1>4. CASE EventsHandled
  BY <1>4 DEF EventsHandled
<1>5. CASE SwapFunctors
  BY <1>5 DEF SwapFunctors
<1>6. CASE RunFunctor
  <2>1. Head(functors) \in Functors /\ Tail(functors) \in Seq(Functors)
    BY <1>6, HeadThenTail DEF RunFunctor
  <2> QED
    BY <1>6, <2>1 DEF RunFunctor
<1>7. CASE FunctorsDone
  BY <1>7, Zenon DEF FunctorsDone
<1>8. ASSUME NEW io \in SUBSET IOChannels, PollReadable(io) PROVE TypeOK'
  BY <1>8 DEF PollReadable, Channels
<1>9. CASE PollTimeout
  BY <1>9 DEF PollTimeout
<1>10. ASSUME NEW f \in Functors, QueueInOwnLoop(f) PROVE TypeOK'
  BY <1>10 DEF QueueInOwnLoop, MayCall, InCallback
<1>11. ASSUME NEW f \in Functors, RunInOwnLoop(f) PROVE TypeOK'
  BY <1>11 DEF RunInOwnLoop
<1>12. CASE QuitOwnLoop
  BY <1>12 DEF QuitOwnLoop
<1>13. ASSUME NEW t \in Threads, NEW f \in Functors, QueueInLoop(t, f) PROVE TypeOK'
  BY <1>13 DEF QueueInLoop
<1>14. ASSUME NEW t \in Threads, Quit(t) PROVE TypeOK'
  BY <1>14 DEF Quit
<1>15. ASSUME NEW t \in Threads, Wakeup(t) PROVE TypeOK'
  BY <1>15 DEF Wakeup
<1>16. CASE UNCHANGED vars
  BY <1>16 DEF vars
<1> QED
  BY <1>1, <1>2, <1>3, <1>4, <1>5, <1>6, <1>7, <1>8, <1>9, <1>10, <1>11, <1>12,
     <1>13, <1>14, <1>15, <1>16 DEF Next, LoopStep

\* loop()'s flags, work lists and place agree in every reachable state.
THEOREM TypeCorrect == Spec => []TypeOK
BY InitTypeOK, NextTypeOK, PTL DEF Spec

-----------------------------------------------------------------------------
(* The queue.                                                              *)

\* A push at the end of the second of two sequences in a row.
LEMMA PushFunctor ==
  \A b, c \in Seq(Functors) : \A e \in Functors :
    Append(b \o c, e) = b \o Append(c, e)
<1> SUFFICES ASSUME NEW b \in Seq(Functors), NEW c \in Seq(Functors), NEW e \in Functors
             PROVE  Append(b \o c, e) = b \o Append(c, e)
  BY Zenon
<1>1. b \o c \in Seq(Functors) /\ <<e>> \in Seq(Functors)
  BY ConcatProperties
<1>2. Append(b \o c, e) = (b \o c) \o <<e>>
  BY <1>1, AppendIsConcat
<1>3. Append(c, e) = c \o <<e>>
  BY AppendIsConcat
<1>4. (b \o c) \o <<e>> = b \o (c \o <<e>>)
  BY <1>1, ConcatAssociative
<1> QED
  BY <1>2, <1>3, <1>4

\* The order of the pushes is kept by every step: a push extends the last of
\* the three sequences, the swap shifts the empty middle one, a functor that
\* runs moves from the head of the middle one to the end of the first.
LEMMA NextQueueHistory == TypeOK /\ QueueHistory /\ [Next]_vars => QueueHistory'
<1> SUFFICES ASSUME TypeOK, QueueHistory, [Next]_vars PROVE QueueHistory'
  OBVIOUS
<1> USE DEF QueueHistory
<1> DEFINE same == UNCHANGED <<submitted, executed, functors, pendingFunctors_>>
<1>1. CASE same
  BY <1>1
<1>2. CASE SwapFunctors
  <2>1. functors = <<>> /\ executed \in Seq(Functors) /\ pendingFunctors_ \in Seq(Functors)
    BY <1>2 DEF SwapFunctors, TypeOK
  <2>2. submitted = executed \o pendingFunctors_
    BY <2>1, ConcatEmptySeq
  <2>3. (executed \o pendingFunctors_) \o <<>> = executed \o pendingFunctors_
    BY <2>1, ConcatEmptySeq, ConcatProperties
  <2> QED
    BY <1>2, <2>2, <2>3 DEF SwapFunctors
<1>3. CASE RunFunctor
  <2>1. executed' \o functors' \o pendingFunctors_ = executed \o functors \o pendingFunctors_
    <3>1. /\ executed \in Seq(Functors) /\ functors \in Seq(Functors)
          /\ pendingFunctors_ \in Seq(Functors) /\ functors # <<>>
      BY <1>3 DEF RunFunctor, TypeOK
    <3>2. executed' = Append(executed, Head(functors)) /\ functors' = Tail(functors)
      BY <1>3 DEF RunFunctor
    <3>3. Append(executed, Head(functors)) \o Tail(functors) \o pendingFunctors_
            = executed \o functors \o pendingFunctors_
      BY ONLY <3>1, MoveHead
    <3> QED
      BY ONLY <3>2, <3>3, Zenon
  <2> QED
    BY <1>3, <2>1, SMTT(30) DEF RunFunctor
<1>4. ASSUME NEW f \in Functors,
             /\ pendingFunctors_' = Append(pendingFunctors_, f)
             /\ submitted' = Append(submitted, f)
             /\ UNCHANGED <<executed, functors>>
      PROVE  QueueHistory'
  <2>1. /\ executed \o functors \in Seq(Functors)
        /\ pendingFunctors_ \in Seq(Functors)
    BY ConcatProperties DEF TypeOK
  <2>2. Append((executed \o functors) \o pendingFunctors_, f)
          = (executed \o functors) \o Append(pendingFunctors_, f)
    BY <1>4, <2>1, PushFunctor, Zenon
  <2> QED
    BY <1>4, <2>1, <2>2
<1>5. \/ same \/ SwapFunctors \/ RunFunctor
      \/ \E f \in Functors : /\ pendingFunctors_' = Append(pendingFunctors_, f)
                             /\ submitted' = Append(submitted, f)
                             /\ UNCHANGED <<executed, functors>>
  BY Zenon DEF Next, LoopStep, vars, flags, queue, events, StartLoop, CheckQuit, HandleEvent,
         EventsHandled, FunctorsDone, PollReadable, PollTimeout, QueueInOwnLoop,
         RunInOwnLoop, QuitOwnLoop, QueueInLoop, Quit, Wakeup
<1> QED
  BY <1>1, <1>2, <1>3, <1>4, <1>5, Zenon

\* No functor is lost, duplicated or overtaken between queueInLoop() and
\* doPendingFunctors(), for any number of threads and functors.
THEOREM QueueOrder == Spec => []QueueHistory
<1>1. Init => QueueHistory
  BY ConcatEmptySeq DEF Init, QueueHistory
<1> QED
  BY <1>1, InitTypeOK, NextTypeOK, NextQueueHistory, PTL DEF Spec

-----------------------------------------------------------------------------
(* The wakeup.                                                             *)

\* A write to the eventfd has happened or will, for a queued functor that is
\* not early.  It need not hold between poll() and the swap: handleRead() may
\* just have drained the eventfd, and the swap is still to come.
WakeupDue == wakeupFd_ \/ \E t \in Threads : pc[t] = "wake"
WakeupInv ==
  lpc \notin {"handle", "swap"} /\ Range(pendingFunctors_) \ early # {} => WakeupDue

\* WakeupInv holds after the constructor.
LEMMA InitWakeupInv == Init => WakeupInv
BY DEF Init, WakeupInv, Range

\* Every step keeps WakeupInv: only handleRead() clears the eventfd, and it
\* leads to the swap; every push outside that window comes with a wakeup().
LEMMA NextWakeupInv == TypeOK /\ WakeupInv /\ [Next]_vars => WakeupInv'
<1> SUFFICES ASSUME TypeOK, WakeupInv, [Next]_vars PROVE WakeupInv'
  OBVIOUS
<1> USE DEF WakeupInv, WakeupDue
<1> DEFINE queued == UNCHANGED <<pendingFunctors_, early>>
<1>1. CASE queued /\ lpc' \in {"handle", "swap"}
  BY <1>1
<1>2. CASE /\ queued /\ UNCHANGED <<wakeupFd_, pc>>
           /\ lpc \notin {"handle", "swap"} \/ lpc' = lpc
  BY <1>2
<1>3. CASE SwapFunctors
  BY <1>3 DEF SwapFunctors, Range
<1>4. ASSUME NEW f \in Functors, QueueInOwnLoop(f) PROVE WakeupInv'
  <2>1. CASE lpc = "handle"
    BY <1>4, <2>1 DEF QueueInOwnLoop
  <2>2. CASE lpc = "call"
    BY <1>4, <2>2, Zenon DEF QueueInOwnLoop, TypeOK
  <2>3. CASE lpc = "outside"
    <3>1. Range(pendingFunctors_') \ early' \subseteq Range(pendingFunctors_) \ early
      <4>1. Range(pendingFunctors_') = Range(pendingFunctors_) \cup {f}
        BY <1>4, RangeOfAppend DEF QueueInOwnLoop, TypeOK
      <4> QED
        BY <1>4, <2>3, <4>1 DEF QueueInOwnLoop
    <3> QED
      BY <1>4, <2>3, <3>1, Zenon DEF QueueInOwnLoop
  <2> QED
    BY <1>4, <2>1, <2>2, <2>3 DEF QueueInOwnLoop, MayCall, InCallback
<1>5. ASSUME NEW t \in Threads, NEW f \in Functors, QueueInLoop(t, f) PROVE WakeupInv'
  BY <1>5 DEF QueueInLoop, TypeOK
<1>6. ASSUME NEW t \in Threads, Quit(t) PROVE WakeupInv'
  BY <1>6 DEF Quit, TypeOK
<1>7. ASSUME NEW t \in Threads, Wakeup(t) PROVE WakeupInv'
  BY <1>7 DEF Wakeup
<1>8. ASSUME LoopStep \/ StartLoop \/ QuitOwnLoop \/ PollTimeout \/ UNCHANGED vars
      PROVE  WakeupInv'
  BY <1>1, <1>2, <1>3, <1>8, Zenon
     DEF LoopStep, vars, flags, queue, events, StartLoop, CheckQuit, HandleEvent,
         EventsHandled, RunFunctor, FunctorsDone, QuitOwnLoop, PollTimeout
<1>9. ASSUME NEW io \in SUBSET IOChannels, PollReadable(io) PROVE WakeupInv'
  BY <1>1, <1>9 DEF PollReadable, queue
<1>10. ASSUME NEW f \in Functors, RunInOwnLoop(f) PROVE WakeupInv'
  BY <1>2, <1>10 DEF RunInOwnLoop, events
<1> QED
  BY <1>4, <1>5, <1>6, <1>7, <1>8, <1>9, <1>10 DEF Next

\* queueInLoop()'s condition for calling wakeup() is sufficient: poll() never
\* blocks over work that no write to the eventfd announces.
THEOREM WakeupNotLost == Spec => []NoLostWakeup
<1>1. WakeupInv => NoLostWakeup
  BY DEF WakeupInv, WakeupDue, NoLostWakeup
<1> QED
  BY <1>1, InitTypeOK, NextTypeOK, InitWakeupInv, NextWakeupInv, PTL DEF Spec

\* The loop does not sleep over a quit(): the part of QuitStops that needs no fairness.
QuitNotSlept == lpc = "poll" /\ quit_ => WakeupDue

LEMMA NextQuitNotSlept == TypeOK /\ QuitNotSlept /\ [Next]_vars => QuitNotSlept'
<1> SUFFICES ASSUME TypeOK, QuitNotSlept, [Next]_vars, lpc' = "poll", quit_' PROVE WakeupDue'
  BY Zenon DEF QuitNotSlept
<1>1. ASSUME NEW t \in Threads, Quit(t) \/ \E f \in Functors : QueueInLoop(t, f) PROVE WakeupDue'
  BY <1>1 DEF Quit, QueueInLoop, TypeOK, WakeupDue
<1>2. ASSUME NEW t \in Threads, Wakeup(t) PROVE WakeupDue'
  BY <1>2 DEF Wakeup, WakeupDue
<1>3. \/ \E t \in Threads : Quit(t) \/ Wakeup(t) \/ \E f \in Functors : QueueInLoop(t, f)
      \/ UNCHANGED vars
  <2>1. ~(StartLoop \/ LoopStep \/ PollTimeout \/ QuitOwnLoop)
    BY Zenon DEF StartLoop, LoopStep, CheckQuit, HandleEvent, EventsHandled, SwapFunctors, RunFunctor,
         FunctorsDone, PollTimeout, QuitOwnLoop, MayCall, InCallback
  <2>2. ~(\E io \in SUBSET IOChannels : PollReadable(io))
    BY Zenon DEF PollReadable
  <2>3. ~(\E f \in Functors : QueueInOwnLoop(f) \/ RunInOwnLoop(f))
    BY Zenon DEF QueueInOwnLoop, RunInOwnLoop, MayCall, InCallback
  <2> QED
    BY <2>1, <2>2, <2>3, Zenon DEF Next
<1>4. CASE UNCHANGED vars
  BY <1>4, Zenon DEF vars, flags, events, QuitNotSlept, WakeupDue
<1> QED
  BY <1>1, <1>2, <1>3, <1>4, Zenon

\* A quit() from any thread is not slept over: when the loop sits in poll() with
\* quit_ set, the eventfd is readable or a thread is about to make it so.  quit() in
\* the loop's own thread needs no wakeup(), for the loop tests quit_ before it polls.
THEOREM QuitWakesLoop == Spec => []QuitNotSlept
<1>1. Init => QuitNotSlept
  BY Zenon DEF Init, QuitNotSlept
<1> QED
  BY <1>1, InitTypeOK, NextTypeOK, NextQuitNotSlept, PTL DEF Spec

-----------------------------------------------------------------------------
(* EventLoop implements Executor.                                          *)

\* What Fresh() tells the loop, Unused() tells the executor.
LEMMA FreshIsUnused ==
  ASSUME TypeOK, QueueHistory, NEW f, Fresh(f)
  PROVE  Executor!Unused(f)
<1>1. /\ executed \in Seq(Functors) /\ functors \in Seq(Functors)
      /\ pendingFunctors_ \in Seq(Functors) /\ functors \o pendingFunctors_ \in Seq(Functors)
  BY ConcatProperties DEF TypeOK
<1>2. submitted = executed \o (functors \o pendingFunctors_)
  BY <1>1, ConcatAssociative DEF QueueHistory
<1>3. ASSUME NEW q \in Seq(Functors)
      PROVE  Range(executed \o q) = Range(executed) \cup Range(q)
  BY <1>1, RangeConcatenation
<1>4. Range(submitted) = Range(executed) \cup Range(functors \o pendingFunctors_)
  BY <1>1, <1>2, <1>3, Zenon
<1> QED
  BY <1>4, Zenon DEF Fresh, Executor!Unused, Executor!Range, Range

\* A step of the loop or of a caller is a step of the executor or leaves its
\* queue and history alone; the swap is such a stuttering step.
LEMMA NextExecutor ==
  TypeOK /\ QueueHistory /\ [Next]_vars => [Executor!Next]_(Executor!vars)
<1> SUFFICES ASSUME TypeOK, QueueHistory, [Next]_vars
             PROVE  [Executor!Next]_(Executor!vars)
  OBVIOUS
<1> DEFINE q == functors \o pendingFunctors_
<1>1. CASE UNCHANGED <<executed, functors, pendingFunctors_, direct>>
  BY <1>1 DEF Executor!vars
<1>2. CASE SwapFunctors
  <2>1. functors = <<>> /\ pendingFunctors_ \in Seq(Functors)
    BY <1>2 DEF SwapFunctors, TypeOK
  <2>2. <<>> \o pendingFunctors_ = pendingFunctors_ \o <<>>
    BY <2>1, ConcatEmptySeq
  <2> QED
    BY <1>2, <2>1, <2>2 DEF SwapFunctors, Executor!vars
<1>3. CASE RunFunctor
  <2>1. q # <<>> /\ Head(q) = Head(functors) /\ Tail(q) = Tail(functors) \o pendingFunctors_
    BY <1>3, HeadOfConcat, SMTT(30) DEF RunFunctor, TypeOK
  <2>2. Executor!Execute
    BY <1>3, <2>1 DEF RunFunctor, Executor!Execute
  <2> QED
    BY <2>2 DEF Executor!Next
<1>4. ASSUME NEW f \in Functors, Fresh(f),
             pendingFunctors_' = Append(pendingFunctors_, f),
             UNCHANGED <<executed, functors, direct>>
      PROVE  [Executor!Next]_(Executor!vars)
  <2>1. functors \o Append(pendingFunctors_, f) = Append(q, f)
    BY <1>4, PushFunctor, SMTT(30) DEF TypeOK
  <2>2. Executor!Submit(f)
    BY <1>4, <2>1, FreshIsUnused DEF Executor!Submit
  <2> QED
    BY <2>2 DEF Executor!Next
<1>5. ASSUME NEW f \in Functors, RunInOwnLoop(f)
      PROVE  [Executor!Next]_(Executor!vars)
  <2>1. Executor!RunNow(f)
    BY <1>5, FreshIsUnused DEF RunInOwnLoop, Executor!RunNow
  <2> QED
    BY <2>1 DEF Executor!Next
<1>6. \/ UNCHANGED <<executed, functors, pendingFunctors_, direct>>
      \/ SwapFunctors \/ RunFunctor
      \/ \E f \in Functors :
           \/ /\ Fresh(f)
              /\ pendingFunctors_' = Append(pendingFunctors_, f)
              /\ UNCHANGED <<executed, functors, direct>>
           \/ RunInOwnLoop(f)
  BY Zenon DEF Next, LoopStep, vars, flags, queue, events, StartLoop, CheckQuit, HandleEvent,
         EventsHandled, FunctorsDone, PollReadable, PollTimeout, QueueInOwnLoop,
         QuitOwnLoop, QueueInLoop, Quit, Wakeup
<1> QED
  BY <1>1, <1>2, <1>3, <1>4, <1>5, <1>6

\* The mutex-protected vector that is swapped out and run without the lock
\* gives its users a first-in first-out executor.
THEOREM EventLoopImplementsExecutor == Spec => ImplementsExecutor
<1>1. Init => Executor!Init
  BY ConcatEmptySeq DEF Init, Executor!Init
<1>2. Init => QueueHistory
  BY ConcatEmptySeq DEF Init, QueueHistory
<1> QED
  BY <1>1, <1>2, InitTypeOK, NextTypeOK, NextQueueHistory, NextExecutor, PTL
     DEF Spec, ImplementsExecutor, Executor!Spec

-----------------------------------------------------------------------------
(* The loop in the thread.                                                 *)

\* What another part of the object does is a step of the loop or no step of it.
LEMMA StepIsLoopStep == [ThreadNext]_tvars => [Next]_vars
<1> SUFFICES ASSUME [ThreadNext]_tvars PROVE [Next]_vars
  OBVIOUS
<1>1. CASE ThreadFuncStep
  <2>1. CASE ThreadBegins \/ Publish \/ ClearLoop \/ ThreadEnds
    BY <2>1 DEF ThreadBegins, Publish, ClearLoop, ThreadEnds
  <2>2. CASE EnterLoop \/ ThreadLoopStep
    BY <2>2 DEF EnterLoop, ThreadLoopStep, Next
  <2> QED
    BY <1>1, <2>1, <2>2 DEF ThreadFuncStep
<1>2. CASE OwnerStep
  <2>1. CASE WaitForLoop \/ DtorJoin
    BY <2>1 DEF WaitForLoop, DtorJoin
  <2>2. CASE OwnerWakes \/ DtorQuit \/ DtorWake
    BY <2>2, OwnerAssumption DEF OwnerWakes, DtorQuit, DtorWake, Next
  <2> QED
    BY <1>2, <2>1, <2>2 DEF OwnerStep
<1>3. CASE ThreadPollReadable \/ ThreadPollTimeout
  BY <1>3 DEF ThreadPollReadable, ThreadPollTimeout, Next
<1>4. CASE CallbackQueues \/ CallbackQuits
  BY <1>4 DEF CallbackQueues, CallbackQuits, Next
<1>5. CASE StartThread \/ DtorCheck \/ UNCHANGED tvars
  BY <1>5 DEF StartThread, DtorCheck, tvars
<1>6. CASE OwnerQueues \/ OwnerQuits
  BY <1>6, OwnerAssumption DEF OwnerQueues, OwnerQuits, Next
<1> QED
  BY <1>1, <1>2, <1>3, <1>4, <1>5, <1>6 DEF ThreadNext

\* An EventLoopThread runs an EventLoop: publishing its address, clearing it and the
\* owner's waiting and joining are invisible to the loop.
THEOREM ThreadRunsLoop == ThreadSpec => Spec
<1>1. ThreadInit => Init
  BY DEF ThreadInit
<1> QED
  BY <1>1, StepIsLoopStep, PTL DEF ThreadSpec, Spec

\* The loop of an EventLoopThread never sleeps over a functor that its owner or a
\* callback queued, and runs the queued functors first in, first out.
THEOREM ThreadLosesNoWakeup == ThreadSpec => []NoLostWakeup /\ ImplementsExecutor
  BY ThreadRunsLoop, WakeupNotLost, EventLoopImplementsExecutor

-----------------------------------------------------------------------------
(* The life of the loop.                                                   *)

\* The destructor is past its store to quit_, or done.
Quitting == opc \in {"quit", "join", "destroyed"}

\* loop_ and alive follow threadFunc(); the owner has the address only of a loop that
\* was published; and the loop is left only after a store to quit_, which is the
\* destructor's or is noted in otherQuit.
LifeInv ==
  /\ tpc \in {"none", "created", "callback", "published", "looping", "cleared", "finished"}
  /\ opc \in {"new", "latch", "cond", "woken", "running", "checked", "quit", "join", "destroyed"}
  /\ loop_ \in BOOLEAN /\ (loop_ <=> tpc \in {"published", "looping"})
  /\ tpc \in {"callback", "published", "looping"} => alive
  /\ opc = "new" => tpc = "none"
  /\ opc \in {"running", "checked"} => otherQuit \/ loop_
  /\ quit_ => otherQuit \/ Quitting
  /\ tpc = "looping" /\ lpc = "outside" => otherQuit \/ Quitting
  /\ tpc \in {"cleared", "finished"} => otherQuit \/ Quitting

\* A step of loop() leaves quit_ alone, and leaves the loop only if quit_ is set.
LEMMA LoopReturnsQuit ==
  ASSUME \/ LoopStep \/ PollTimeout
         \/ \E io \in SUBSET IOChannels : PollReadable(io)
  PROVE  quit_' = quit_ /\ (lpc' = "outside" => quit_)
  BY Zenon DEF LoopStep, CheckQuit, HandleEvent, EventsHandled, SwapFunctors, RunFunctor, FunctorsDone,
         PollTimeout, PollReadable, flags

\* threadFunc().
LEMMA ThreadKeepsLife ==
  ASSUME LifeInv, ThreadFuncStep \/ ThreadPollReadable \/ ThreadPollTimeout PROVE LifeInv'
<1> USE DEF LifeInv, Quitting
<1>1. CASE ThreadBegins
  BY <1>1 DEF ThreadBegins, vars
<1>2. CASE Publish
  <2>1. UNCHANGED <<quit_, lpc, alive, otherQuit>> /\ tpc = "callback" /\ tpc' = "published" /\ loop_'
    BY <1>2 DEF Publish, vars
  <2>2. opc' = opc \/ (opc = "cond" /\ opc' = "woken")
    BY <1>2 DEF Publish
  <2>3. loop_' \in BOOLEAN
    BY <1>2 DEF Publish
  <2> QED
    BY <2>1, <2>2, <2>3
<1>3. CASE EnterLoop
  BY <1>3 DEF EnterLoop, StartLoop
<1>4. CASE ThreadLoopStep \/ ThreadPollReadable \/ ThreadPollTimeout
  <2>1. UNCHANGED <<loop_, alive, tpc, opc, otherQuit>>
    BY <1>4 DEF ThreadLoopStep, ThreadPollReadable, ThreadPollTimeout, InLoop, own
  <2>2. quit_' = quit_ /\ (lpc' = "outside" => quit_)
    BY <1>4, LoopReturnsQuit DEF ThreadLoopStep, ThreadPollReadable, ThreadPollTimeout
  <2> QED
    BY <2>1, <2>2
<1>5. CASE ClearLoop
  BY <1>5, Zenon DEF ClearLoop, vars
<1>6. CASE ThreadEnds
  BY <1>6 DEF ThreadEnds, vars
<1> QED
  BY <1>1, <1>3, <1>4, <1>5, <1>6, <1>2 DEF ThreadFuncStep

\* callback_, functors and handlers.
LEMMA CallbackKeepsLife ==
  ASSUME LifeInv, CallbackQueues \/ CallbackQuits PROVE LifeInv'
<1> USE DEF LifeInv, Quitting
<1>1. CASE CallbackQueues
  BY <1>1 DEF CallbackQueues, QueueInOwnLoop, RunInOwnLoop, own, flags
<1>2. CASE CallbackQuits
  BY <1>2 DEF CallbackQuits, QuitOwnLoop
<1> QED
  BY <1>1, <1>2

\* The owner.
LEMMA OwnerKeepsLife ==
  ASSUME LifeInv, OwnerStep \/ StartThread \/ OwnerQueues \/ OwnerQuits \/ DtorCheck PROVE LifeInv'
<1> USE DEF LifeInv, Quitting
<1>1. CASE WaitForLoop \/ DtorJoin \/ DtorCheck
  BY <1>1 DEF WaitForLoop, DtorJoin, DtorCheck, vars
<1>2. CASE StartThread
  BY <1>2 DEF StartThread, vars
<1>3. CASE OwnerWakes \/ DtorWake
  BY <1>3 DEF OwnerWakes, DtorWake, Wakeup, own, flags
<1>4. CASE DtorQuit \/ OwnerQuits
  BY <1>4 DEF DtorQuit, OwnerQuits, Quit
<1>5. CASE OwnerQueues
  BY <1>5 DEF OwnerQueues, QueueInLoop, own, flags
<1> QED
  BY <1>1, <1>2, <1>3, <1>4, <1>5 DEF OwnerStep

\* startLoop() returns, and ~EventLoopThread() enters quit() on, the address of a loop
\* that exists, whatever the interleaving, unless something else quit the loop.
THEOREM LoopOutlives == ThreadSpec => []LoopOutlivesCalls
<1>1. ThreadInit => LifeInv
  BY Zenon DEF ThreadInit, Init, LifeInv, Quitting
<1>2. LifeInv /\ [ThreadNext]_tvars => LifeInv'
  <2>1. LifeInv /\ UNCHANGED tvars => LifeInv'
    BY DEF LifeInv, Quitting, tvars, vars
  <2> QED
    BY <2>1, ThreadKeepsLife, CallbackKeepsLife, OwnerKeepsLife DEF ThreadNext
<1>3. LifeInv => LoopOutlivesCalls
  BY DEF LifeInv, LoopOutlivesCalls
<1> QED
  BY <1>1, <1>2, <1>3, PTL DEF ThreadSpec

-----------------------------------------------------------------------------
(* The condition variable of startLoop(), whatever the scheduling: the     *)
(* part of StartLoopReturns that needs no fairness.                        *)

\* The owner sleeps on cond_ only while threadFunc() has yet to publish the loop, a step
\* that notifies it: the notification cannot come between the test of loop_ and the
\* wait, nor before the wait.  The exception is a loop that was quit and gone before the
\* owner looked, which nothing in startLoop() provides for.
NotifyNotLost == opc = "cond" => tpc = "callback" \/ otherQuit

\* The latch of Thread::start() separates the creation of the thread from the first test.
NotifyInv ==
  /\ opc \in {"cond", "woken", "running", "checked"} => tpc \notin {"none", "created"}
  /\ opc = "latch" => tpc # "none"
  /\ NotifyNotLost

\* threadFunc(), callback_ and the loop move no owner but the one that cond_ holds.
LEMMA ThreadKeepsNotify ==
  ASSUME LifeInv, NotifyInv,
         ThreadFuncStep \/ ThreadPollReadable \/ ThreadPollTimeout \/ CallbackQueues \/ CallbackQuits
  PROVE  NotifyInv'
<1> USE DEF NotifyInv, NotifyNotLost
<1>1. CASE ThreadBegins
  BY <1>1, Zenon DEF ThreadBegins
<1>2. CASE Publish
  BY <1>2 DEF Publish
<1>3. CASE EnterLoop
  BY <1>3, Zenon DEF EnterLoop
<1>4. CASE ThreadLoopStep \/ ThreadPollReadable \/ ThreadPollTimeout \/ CallbackQueues
  BY <1>4, Zenon DEF ThreadLoopStep, ThreadPollReadable, ThreadPollTimeout, CallbackQueues, InLoop, own
<1>5. CASE ClearLoop \/ ThreadEnds
  BY <1>5, Zenon DEF ClearLoop, ThreadEnds
<1>6. CASE CallbackQuits
  BY <1>6, Zenon DEF CallbackQuits
<1> QED
  BY <1>1, <1>2, <1>3, <1>4, <1>5, <1>6, Zenon DEF ThreadFuncStep

\* The owner tests loop_ before every wait.
LEMMA OwnerKeepsNotify ==
  ASSUME LifeInv, NotifyInv, OwnerStep \/ StartThread \/ OwnerQueues \/ OwnerQuits \/ DtorCheck
  PROVE  NotifyInv'
<1> USE DEF NotifyInv, NotifyNotLost
<1>1. CASE WaitForLoop
  <2>1. /\ UNCHANGED <<tpc, otherQuit>> /\ opc' = IF loop_ THEN "running" ELSE "cond"
        /\ tpc \notin {"none", "created"}
    BY <1>1, Zenon DEF WaitForLoop
  <2>2. ~loop_ => tpc = "callback" \/ otherQuit
    BY <1>1, <2>1 DEF WaitForLoop, LifeInv, Quitting
  <2> QED
    BY <2>1, <2>2
<1>2. CASE StartThread
  BY <1>2, Zenon DEF StartThread
<1>3. CASE OwnerWakes \/ OwnerQueues
  BY <1>3, Zenon DEF OwnerWakes, OwnerQueues, own
<1>4. CASE DtorQuit \/ DtorWake \/ DtorJoin \/ OwnerQuits
  BY <1>4, Zenon DEF DtorQuit, DtorWake, DtorJoin, OwnerQuits
<1>5. CASE DtorCheck
  <2>1. UNCHANGED <<tpc, otherQuit>> /\ opc' = IF loop_ THEN "checked" ELSE "destroyed"
    BY <1>5, Zenon DEF DtorCheck
  <2>2. loop_ => tpc \notin {"none", "created"}
    BY DEF LifeInv
  <2> QED
    BY <2>1, <2>2
<1> QED
  BY <1>1, <1>2, <1>3, <1>4, <1>5, Zenon DEF OwnerStep

\* startLoop() never misses the notification that threadFunc() sends once.
THEOREM StartLoopIsNotified == ThreadSpec => []NotifyNotLost
<1>1. ThreadInit => LifeInv /\ NotifyInv
  BY Zenon DEF ThreadInit, Init, LifeInv, Quitting, NotifyInv, NotifyNotLost
<1>2. LifeInv /\ NotifyInv /\ [ThreadNext]_tvars => LifeInv' /\ NotifyInv'
  <2>1. LifeInv /\ NotifyInv /\ UNCHANGED tvars => LifeInv' /\ NotifyInv'
    BY DEF LifeInv, Quitting, NotifyInv, NotifyNotLost, tvars, vars
  <2>2. LifeInv /\ ThreadNext => LifeInv'
    BY ThreadKeepsLife, CallbackKeepsLife, OwnerKeepsLife DEF ThreadNext
  <2>3. LifeInv /\ NotifyInv /\ ThreadNext => NotifyInv'
    BY ThreadKeepsNotify, OwnerKeepsNotify DEF ThreadNext
  <2> QED
    BY <2>1, <2>2, <2>3, Zenon
<1>3. NotifyInv => NotifyNotLost
  BY Zenon DEF NotifyInv
<1> QED
  BY <1>1, <1>2, <1>3, PTL DEF ThreadSpec
=============================================================================
