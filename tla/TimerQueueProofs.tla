-------------------------- MODULE TimerQueueProofs --------------------------
(***************************************************************************)
(* Theorems about TimerQueue, for any addresses, threads, times and        *)
(* bounds: every Timer on the heap has one owner, a cancelled timer does   *)
(* not come back, and the timerfd is armed for the first timer.            *)
(***************************************************************************)
EXTENDS TimerQueue, WellFoundedInduction, TLAPS

-----------------------------------------------------------------------------
(* The inductive invariant.                                                *)

Timer == [sequence : Nat, expiration : Nat, interval : Nat]
Functor == [op : {"add", "cancel"}, id : Addrs \X Nat]
Adding == [timer : Addrs \cup {0}, made : Nat]

TypeInv ==
  /\ heap \in [Addrs -> Timer] /\ numCreated \in Nat /\ now \in Nat /\ batchNow \in Nat
  /\ timers_ \subseteq Nat \X Addrs /\ expired \subseteq Nat \X Addrs
  /\ activeTimers_ \subseteq Addrs \X Nat
  /\ functors \in Seq(Functor) /\ ids \subseteq [id : Addrs \X Nat, made : Nat]
  /\ adding \in [Threads -> Adding]
  /\ \A t \in Threads : adding[t] # Nobody => adding[t].timer \in Addrs
  /\ callingExpiredTimers_ \in BOOLEAN

\* Sequence numbers: a Timer that exists has one of its own, none yet to come.
SequenceInv ==
  /\ \A a \in Addrs : heap[a] # NoTimer => heap[a].sequence \in 1 .. numCreated
  /\ \A a, b \in Addrs :
       heap[a] # NoTimer /\ heap[b] # NoTimer /\ a # b => heap[a].sequence # heap[b].sequence

\* The owners of the Timer at an address: timers_, the batch, a queued functor.
InTimers(a) == <<heap[a].expiration, a>> \in timers_
InBatch(a) == <<heap[a].expiration, a>> \in expired
Adds(fs, i, a) == fs[i].op = "add" /\ fs[i].id[1] = a
InFunctors(a) == \E i \in 1 .. Len(functors) : Adds(functors, i, a)

\* TimersOwned, one address at a time.
OwnerInv ==
  /\ \A x \in Nat, a \in Addrs : <<x, a>> \in timers_ => x = heap[a].expiration
  /\ \A x \in Nat, a \in Addrs : <<x, a>> \in expired => x = heap[a].expiration
  /\ \A a \in Addrs, s \in Nat :
       <<a, s>> \in activeTimers_ <=> s = heap[a].sequence /\ InTimers(a)
  /\ \A a \in Addrs : heap[a] # NoTimer <=> InTimers(a) \/ InBatch(a) \/ InFunctors(a)
  /\ \A a \in Addrs :
       ~(InTimers(a) /\ InBatch(a)) /\ ~(InTimers(a) /\ InFunctors(a)) /\ ~(InBatch(a) /\ InFunctors(a))
  /\ \A i, j \in 1 .. Len(functors), a \in Addrs : Adds(functors, i, a) /\ Adds(functors, j, a) => i = j
  /\ ~callingExpiredTimers_ => expired = {}

\* A cancelled timer exists only in the batch being called, and is marked.
CancelInv ==
  \A s \in cancelled :
    /\ s \in 1 .. numCreated
    /\ \A a \in Addrs :
         heap[a] # NoTimer /\ heap[a].sequence = s =>
           callingExpiredTimers_ /\ InBatch(a) /\ <<a, s>> \in cancelingTimers_

IInv == TypeInv /\ SequenceInv /\ OwnerInv /\ CancelInv

-----------------------------------------------------------------------------
(* The queue of functors.                                                  *)

\* doPendingFunctors() takes the first functor: an addition leaves the queue, and
\* the others stay.
LEMMA FunctorTaken ==
  ASSUME TypeInv, OwnerInv, functors # <<>>, functors' = Tail(functors)
  PROVE  /\ Head(functors) \in Functor /\ functors' \in Seq(Functor)
         /\ \A i, j \in 1 .. Len(functors'), a \in Addrs : Adds(functors', i, a) /\ Adds(functors', j, a) => i = j
         /\ \A a \in Addrs :
              InFunctors(a)' <=>
                InFunctors(a) /\ ~(Head(functors).op = "add" /\ Head(functors).id[1] = a)
         /\ \A a \in Addrs :
              Head(functors).op = "add" /\ Head(functors).id[1] = a => InFunctors(a)
<1> DEFINE n == Len(functors)
<1>1. functors \in Seq(Functor) /\ n \in Nat \ {0}
  BY DEF TypeInv
<1>2. Head(functors) = functors[1] /\ functors[1] \in Functor /\ 1 \in 1 .. n
  BY <1>1
<1>3. functors' \in Seq(Functor) /\ Len(functors') = n - 1
  BY <1>1
<1>4. \A i \in 1 .. Len(functors') : i + 1 \in 1 .. n /\ i + 1 # 1 /\ functors'[i] = functors[i + 1]
  BY <1>1, <1>3
<1>5. \A i \in 1 .. Len(functors'), a \in Addrs : Adds(functors', i, a) <=> Adds(functors, i + 1, a)
  BY <1>4, Zenon DEF Adds
<1>6. ASSUME NEW i \in 1 .. Len(functors'), NEW j \in 1 .. Len(functors'), NEW a \in Addrs,
             Adds(functors', i, a), Adds(functors', j, a)
      PROVE  i = j
  <2>1. i + 1 = j + 1
    BY <1>4, <1>5, <1>6, Zenon DEF OwnerInv
  <2> QED
    BY <2>1
<1>7. ASSUME NEW a \in Addrs
      PROVE  InFunctors(a)' <=> InFunctors(a) /\ ~Adds(functors, 1, a)
  <2>1. ASSUME NEW i \in 1 .. Len(functors'), Adds(functors', i, a) PROVE InFunctors(a) /\ ~Adds(functors, 1, a)
    BY <1>2, <1>4, <1>5, <2>1, Zenon DEF InFunctors, OwnerInv
  <2>2. ASSUME NEW i \in 1 .. n, Adds(functors, i, a), ~Adds(functors, 1, a)
        PROVE  \E j \in 1 .. Len(functors') : Adds(functors', j, a)
    <3>1. i - 1 \in 1 .. Len(functors') /\ (i - 1) + 1 = i
      BY <1>1, <1>3, <2>2
    <3> QED
      BY <1>5, <2>2, <3>1, Zenon
  <2> QED
    BY <2>1, <2>2, Zenon DEF InFunctors
<1> QED
  BY <1>2, <1>3, <1>6, <1>7 DEF Adds, InFunctors

\* runInLoop() of another thread appends a functor.
LEMMA FunctorQueued ==
  ASSUME TypeInv, OwnerInv, NEW f \in Functor, functors' = Append(functors, f),
         \A a \in Addrs : f.op = "add" /\ f.id[1] = a => ~InFunctors(a)
  PROVE  /\ functors' \in Seq(Functor)
         /\ \A i, j \in 1 .. Len(functors'), a \in Addrs : Adds(functors', i, a) /\ Adds(functors', j, a) => i = j
         /\ \A a \in Addrs :
              InFunctors(a)' <=> InFunctors(a) \/ (f.op = "add" /\ f.id[1] = a)
<1> DEFINE n == Len(functors)
<1>1. functors \in Seq(Functor) /\ n \in Nat
  BY DEF TypeInv
<1>2. functors' \in Seq(Functor) /\ Len(functors') = n + 1
  BY <1>1
<1>3. /\ \A i \in 1 .. n : functors'[i] = functors[i] /\ i \in 1 .. n + 1
      /\ functors'[n + 1] = f /\ n + 1 \in 1 .. n + 1
      /\ \A i \in 1 .. n + 1 : i \in 1 .. n \/ i = n + 1
  BY <1>1, <1>2
<1>4. \A i \in 1 .. n, a \in Addrs : Adds(functors', i, a) <=> Adds(functors, i, a)
  BY <1>3, Zenon DEF Adds
<1>5. \A a \in Addrs : Adds(functors', n + 1, a) <=> f.op = "add" /\ f.id[1] = a
  <2> HIDE DEF n
  <2>1. functors'[n + 1] = f
    BY <1>3, Zenon
  <2> QED
    BY <2>1, Zenon DEF Adds
<1>6. ASSUME NEW i \in 1 .. n + 1, NEW j \in 1 .. n + 1, NEW a \in Addrs,
             Adds(functors', i, a), Adds(functors', j, a)
      PROVE  i = j
  <2> HIDE DEF n
  <2>1. \A k \in 1 .. n : Adds(functors, k, a) => InFunctors(a)
    BY Zenon DEF InFunctors, n
  <2>2. \A k, l \in 1 .. n : Adds(functors, k, a) /\ Adds(functors, l, a) => k = l
    BY Zenon DEF OwnerInv, n
  <2> QED
    BY <1>3, <1>4, <1>5, <1>6, <2>1, <2>2, Zenon
<1>7. ASSUME NEW a \in Addrs
      PROVE  InFunctors(a)' <=> InFunctors(a) \/ (f.op = "add" /\ f.id[1] = a)
  <2>1. InFunctors(a)' <=> \E i \in 1 .. n + 1 : Adds(functors', i, a)
    BY <1>2, Zenon DEF InFunctors
  <2>2. InFunctors(a) <=> \E i \in 1 .. n : Adds(functors, i, a)
    BY Zenon DEF InFunctors
  <2> HIDE DEF n
  <2> QED
    BY <1>3, <1>4, <1>5, <2>1, <2>2, Zenon
<1> QED
  BY <1>2, <1>6, <1>7, Zenon

-----------------------------------------------------------------------------
(* The ways a Timer changes hands.                                         *)

\* A free address has no owner, and no entry in any set.
LEMMA FreeAddress ==
  ASSUME OwnerInv, NEW a \in Addrs, heap[a] = NoTimer
  PROVE  /\ ~InTimers(a) /\ ~InBatch(a) /\ ~InFunctors(a)
         /\ \A x \in Nat : <<x, a>> \notin timers_ /\ <<x, a>> \notin expired
         /\ \A s \in Nat : <<a, s>> \notin activeTimers_
  BY Zenon DEF OwnerInv, InTimers, InBatch

\* The Timer a new one is.
LEMMA NewTimerIs ==
  ASSUME TypeInv, NEW a \in Addrs, NEW when \in Nat, NEW interval \in Nat,
         NewTimer(a, when, interval)
  PROVE  /\ heap[a] = NoTimer /\ numCreated' = numCreated + 1 /\ numCreated' \in Nat
         /\ heap' \in [Addrs -> Timer] /\ heap'[a] # NoTimer
         /\ heap'[a].sequence = numCreated + 1 /\ heap'[a].expiration = when
         /\ \A b \in Addrs : b # a => heap'[b] = heap[b]
<1> DEFINE new == [sequence |-> numCreated + 1, expiration |-> when, interval |-> interval]
<1>1. /\ numCreated' = numCreated + 1 /\ numCreated \in Nat /\ heap[a] = NoTimer
      /\ heap' = [heap EXCEPT ![a] = new]
  BY Zenon DEF NewTimer, Allocated, TypeInv
<1>2. new \in Timer /\ new.sequence = numCreated + 1 /\ new.expiration = when
  BY <1>1 DEF Timer
<1>3. new # NoTimer
  BY <1>1 DEF NoTimer
<1> HIDE DEF new
<1>4. heap' \in [Addrs -> Timer] /\ heap'[a] = new /\ \A b \in Addrs : b # a => heap'[b] = heap[b]
  BY <1>1, <1>2, Zenon DEF TypeInv
<1> QED
  BY <1>1, <1>2, <1>3, <1>4

\* Sequence numbers when a Timer is made.
LEMMA NewSequence ==
  ASSUME TypeInv, SequenceInv, CancelInv, NEW a \in Addrs, NEW when \in Nat, NEW interval \in Nat,
         NewTimer(a, when, interval)
  PROVE  SequenceInv' /\ numCreated + 1 \notin cancelled
<1>1. /\ heap[a] = NoTimer /\ numCreated' = numCreated + 1 /\ heap'[a].sequence = numCreated + 1
      /\ \A b \in Addrs : b # a => heap'[b] = heap[b]
  BY NewTimerIs, Zenon
<1>2. numCreated \in Nat
  BY Zenon DEF TypeInv
<1>3. \A b \in Addrs : b # a /\ heap'[b] # NoTimer =>
        heap'[b].sequence \in 1 .. numCreated /\ heap'[b].sequence # numCreated + 1
  BY <1>1, <1>2 DEF SequenceInv
<1>4. \A b \in Addrs : heap'[b] # NoTimer => heap'[b].sequence \in 1 .. numCreated'
  BY <1>1, <1>2, <1>3
<1>5. \A b, d \in Addrs :
        heap'[b] # NoTimer /\ heap'[d] # NoTimer /\ b # d => heap'[b].sequence # heap'[d].sequence
  BY <1>1, <1>3, Zenon DEF SequenceInv
<1>6. numCreated + 1 \notin cancelled
  BY <1>2 DEF CancelInv
<1> QED
  BY <1>4, <1>5, <1>6, Zenon DEF SequenceInv

\* addTimer() in the loop's thread.
LEMMA AddOwnKeeps ==
  ASSUME IInv, NEW a \in Addrs, NEW when \in Whens, NEW interval \in Intervals,
         AddTimerInOwnLoop(a, when, interval)
  PROVE  IInv'
<1> USE DEF IInv
<1>1. when \in Nat /\ interval \in Nat /\ NewTimer(a, when, interval)
  BY TimerAssumption, Zenon DEF AddTimerInOwnLoop
<1>2. /\ heap[a] = NoTimer /\ numCreated' = numCreated + 1 /\ numCreated' \in Nat
      /\ heap' \in [Addrs -> Timer] /\ heap'[a] # NoTimer
      /\ heap'[a].sequence = numCreated + 1 /\ heap'[a].expiration = when
      /\ \A b \in Addrs : b # a => heap'[b] = heap[b]
  BY <1>1, NewTimerIs, Zenon
<1>3. /\ timers_' = timers_ \cup {<<when, a>>}
      /\ activeTimers_' = activeTimers_ \cup {<<a, numCreated + 1>>}
      /\ UNCHANGED <<callingExpiredTimers_, expired, todo, batchNow, cancelingTimers_, now,
                     functors, adding, cancelled>>
      /\ ids' = ids \cup {[id |-> <<a, numCreated + 1>>, made |-> numCreated + 1]}
  BY <1>2, Zenon DEF AddTimerInOwnLoop, AddTimerInLoop, batch
<1>4. TypeInv'
  <2>1. timers_' \subseteq Nat \X Addrs /\ activeTimers_' \subseteq Addrs \X Nat
    BY <1>1, <1>2, <1>3 DEF TypeInv
  <2>2. ids' \subseteq [id : Addrs \X Nat, made : Nat]
    BY <1>2, <1>3 DEF TypeInv
  <2> QED
    BY <1>2, <1>3, <2>1, <2>2, Zenon DEF TypeInv
<1>5. SequenceInv' /\ numCreated + 1 \notin cancelled
  BY <1>1, NewSequence, Zenon
<1>6. /\ ~InTimers(a) /\ ~InBatch(a) /\ ~InFunctors(a)
      /\ \A x \in Nat : <<x, a>> \notin timers_ /\ <<x, a>> \notin expired
      /\ \A s \in Nat : <<a, s>> \notin activeTimers_
  BY <1>2, FreeAddress, Zenon
<1>7. /\ InTimers(a)' /\ ~InBatch(a)' /\ ~InFunctors(a)'
      /\ \A b \in Addrs : b # a =>
           (InTimers(b)' <=> InTimers(b)) /\ (InBatch(b)' <=> InBatch(b))
           /\ (InFunctors(b)' <=> InFunctors(b))
  BY <1>1, <1>2, <1>3, <1>6, Zenon DEF InTimers, InBatch, InFunctors
<1>8. OwnerInv'
  <2>1. \A x \in Nat, b \in Addrs : <<x, b>> \in timers_' => x = heap'[b].expiration
    BY <1>2, <1>3, <1>6 DEF OwnerInv
  <2>2. \A x \in Nat, b \in Addrs : <<x, b>> \in expired' => x = heap'[b].expiration
    BY <1>2, <1>3, <1>6 DEF OwnerInv
  <2>3. \A b \in Addrs, s \in Nat :
          <<b, s>> \in activeTimers_' <=> s = heap'[b].sequence /\ InTimers(b)'
    <3>1. \A s \in Nat : <<a, s>> \in activeTimers_' <=> s = heap'[a].sequence
      BY <1>2, <1>3, <1>6, Zenon
    <3>2. \A b \in Addrs, s \in Nat :
            b # a => (<<b, s>> \in activeTimers_' <=> <<b, s>> \in activeTimers_)
      BY <1>3, Zenon
    <3>3. \A b \in Addrs, s \in Nat :
            <<b, s>> \in activeTimers_ <=> s = heap[b].sequence /\ InTimers(b)
      BY Zenon DEF OwnerInv
    <3>4. ASSUME NEW b \in Addrs, NEW s \in Nat, b # a
          PROVE  <<b, s>> \in activeTimers_' <=> s = heap'[b].sequence /\ InTimers(b)'
      <4>1. heap'[b] = heap[b] /\ (InTimers(b)' <=> InTimers(b))
        BY <1>2, <1>7, <3>4, Zenon
      <4> QED
        BY <3>2, <3>3, <3>4, <4>1, Zenon
    <3> QED
      BY <1>7, <3>1, <3>4, Zenon
  <2>4. \A b \in Addrs : heap'[b] # NoTimer <=> InTimers(b)' \/ InBatch(b)' \/ InFunctors(b)'
    BY <1>2, <1>7, Zenon DEF OwnerInv
  <2>5. \A b \in Addrs :
          ~(InTimers(b)' /\ InBatch(b)') /\ ~(InTimers(b)' /\ InFunctors(b)')
          /\ ~(InBatch(b)' /\ InFunctors(b)')
    BY <1>7, Zenon DEF OwnerInv
  <2> QED
    BY <1>3, <2>1, <2>2, <2>3, <2>4, <2>5, Zenon DEF OwnerInv
<1>9. CancelInv'
  <2>1. SUFFICES ASSUME NEW s \in cancelled
                 PROVE  /\ s \in 1 .. numCreated'
                        /\ \A b \in Addrs :
                             heap'[b] # NoTimer /\ heap'[b].sequence = s =>
                               callingExpiredTimers_ /\ InBatch(b)' /\ <<b, s>> \in cancelingTimers_
    BY <1>3, Zenon DEF CancelInv
  <2>2. s \in 1 .. numCreated'
    BY <1>2 DEF CancelInv, TypeInv
  <2>3. \A b \in Addrs : heap'[b] # NoTimer /\ heap'[b].sequence = s => b # a
    BY <1>2, <1>5, Zenon
  <2> QED
    BY <1>2, <1>7, <2>2, <2>3, Zenon DEF CancelInv
<1> QED
  BY <1>4, <1>5, <1>8, <1>9, Zenon

\* addTimer() of another thread: the Timer is owned by a functor.
LEMMA AddKeeps ==
  ASSUME IInv, NEW t \in Threads, NEW a \in Addrs, NEW when \in Whens, NEW interval \in Intervals,
         AddTimer(t, a, when, interval)
  PROVE  IInv'
<1> USE DEF IInv
<1>1. when \in Nat /\ interval \in Nat /\ NewTimer(a, when, interval)
  BY TimerAssumption, Zenon DEF AddTimer
<1>2. /\ heap[a] = NoTimer /\ numCreated' = numCreated + 1 /\ numCreated' \in Nat
      /\ heap' \in [Addrs -> Timer] /\ heap'[a] # NoTimer
      /\ \A b \in Addrs : b # a => heap'[b] = heap[b]
  BY <1>1, NewTimerIs, Zenon
<1> DEFINE f == [op |-> "add", id |-> <<a, numCreated'>>]
<1>3. /\ functors' = Append(functors, f)
      /\ adding' = [adding EXCEPT ![t] = [timer |-> a, made |-> numCreated']]
      /\ UNCHANGED <<timers_, activeTimers_, callingExpiredTimers_, expired, todo, batchNow,
                     cancelingTimers_, now, ids, cancelled>>
  BY Zenon DEF AddTimer, queue, batch
<1>4. f \in Functor /\ f.op = "add" /\ f.id[1] = a
  BY <1>2, Zenon DEF Functor
<1> HIDE DEF f
<1>5. /\ ~InTimers(a) /\ ~InBatch(a) /\ ~InFunctors(a)
      /\ \A x \in Nat : <<x, a>> \notin timers_ /\ <<x, a>> \notin expired
      /\ \A s \in Nat : <<a, s>> \notin activeTimers_
  BY <1>2, FreeAddress, Zenon
<1>6. /\ functors' \in Seq(Functor)
      /\ \A i, j \in 1 .. Len(functors'), b \in Addrs :
           Adds(functors', i, b) /\ Adds(functors', j, b) => i = j
      /\ \A b \in Addrs : InFunctors(b)' <=> InFunctors(b) \/ b = a
  BY <1>3, <1>4, <1>5, FunctorQueued, Zenon
<1>7. TypeInv'
  <2>1. [timer |-> a, made |-> numCreated'] \in Adding
    BY <1>2, Zenon DEF Adding
  <2>2. adding' \in [Threads -> Adding]
    BY <1>3, <2>1, Zenon DEF TypeInv
  <2>3. \A u \in Threads : adding'[u] # Nobody => adding'[u].timer \in Addrs
    BY <1>3, Zenon DEF TypeInv
  <2> QED
    BY <1>2, <1>3, <1>6, <2>2, <2>3, Zenon DEF TypeInv
<1>8. SequenceInv' /\ heap'[a].sequence \in Nat /\ heap'[a].expiration \in Nat
  BY <1>1, <1>2, NewSequence, Zenon DEF Timer
<1>9. /\ ~InTimers(a)' /\ ~InBatch(a)' /\ InFunctors(a)'
      /\ \A b \in Addrs : b # a =>
           (InTimers(b)' <=> InTimers(b)) /\ (InBatch(b)' <=> InBatch(b))
           /\ (InFunctors(b)' <=> InFunctors(b))
  BY <1>2, <1>3, <1>5, <1>6, <1>8, Zenon DEF InTimers, InBatch
<1>10. OwnerInv'
  <2>1. \A x \in Nat, b \in Addrs : <<x, b>> \in timers_' => x = heap'[b].expiration
    <3>1. \A x \in Nat, b \in Addrs : <<x, b>> \in timers_ => x = heap[b].expiration
      BY Zenon DEF OwnerInv
    <3>2. timers_' = timers_ /\ \A x \in Nat : <<x, a>> \notin timers_
      BY <1>3, <1>5, Zenon
    <3> QED
      BY <1>2, <3>1, <3>2, Zenon
  <2>2. \A x \in Nat, b \in Addrs : <<x, b>> \in expired' => x = heap'[b].expiration
    <3>1. \A x \in Nat, b \in Addrs : <<x, b>> \in expired => x = heap[b].expiration
      BY Zenon DEF OwnerInv
    <3>2. expired' = expired /\ \A x \in Nat : <<x, a>> \notin expired
      BY <1>3, <1>5, Zenon
    <3> QED
      BY <1>2, <3>1, <3>2, Zenon
  <2>3. \A b \in Addrs, s \in Nat :
          <<b, s>> \in activeTimers_' <=> s = heap'[b].sequence /\ InTimers(b)'
    <3>1. \A b \in Addrs, s \in Nat :
            <<b, s>> \in activeTimers_ <=> s = heap[b].sequence /\ InTimers(b)
      BY Zenon DEF OwnerInv
    <3>2. activeTimers_' = activeTimers_
      BY <1>3, Zenon
    <3>3. \A s \in Nat : <<a, s>> \notin activeTimers_
      BY <1>5, Zenon
    <3> QED
      BY <1>2, <1>9, <3>1, <3>2, <3>3, Zenon
  <2>4. \A b \in Addrs : heap'[b] # NoTimer <=> InTimers(b)' \/ InBatch(b)' \/ InFunctors(b)'
    BY <1>2, <1>9, Zenon DEF OwnerInv
  <2>5. \A b \in Addrs :
          ~(InTimers(b)' /\ InBatch(b)') /\ ~(InTimers(b)' /\ InFunctors(b)')
          /\ ~(InBatch(b)' /\ InFunctors(b)')
    BY <1>9, Zenon DEF OwnerInv
  <2> QED
    BY <1>3, <1>6, <2>1, <2>2, <2>3, <2>4, <2>5, Zenon DEF OwnerInv
<1>11. CancelInv'
  <2>1. SUFFICES ASSUME NEW s \in cancelled
                 PROVE  /\ s \in 1 .. numCreated'
                        /\ \A b \in Addrs :
                             heap'[b] # NoTimer /\ heap'[b].sequence = s =>
                               callingExpiredTimers_ /\ InBatch(b)' /\ <<b, s>> \in cancelingTimers_
    BY <1>3, Zenon DEF CancelInv
  <2>2. s \in 1 .. numCreated'
    BY <1>2 DEF CancelInv, TypeInv
  <2>3. heap'[a].sequence = numCreated + 1 /\ numCreated + 1 \notin cancelled
    BY <1>1, NewTimerIs, NewSequence, Zenon
  <2>4. \A b \in Addrs : heap'[b].sequence = s => b # a
    BY <2>3, Zenon
  <2> QED
    BY <1>2, <1>9, <2>2, <2>4, Zenon DEF CancelInv
<1> QED
  BY <1>7, <1>8, <1>10, <1>11, Zenon

\* addTimerInLoop() run as a functor: from the functor to timers_.
LEMMA RunAddKeeps ==
  ASSUME IInv, RunFunctor, Head(functors).op = "add" PROVE IInv'
<1> USE DEF IInv
<1>1. functors # <<>> /\ functors' = Tail(functors) /\ ~callingExpiredTimers_
  BY Zenon DEF RunFunctor
<1>2. PICK a \in Addrs : Head(functors).id[1] = a
  <2>1. Head(functors) \in Functor
    BY <1>1, FunctorTaken, Zenon
  <2> QED
    BY <2>1, Zenon DEF Functor
<1>3. /\ functors' \in Seq(Functor)
      /\ \A i, j \in 1 .. Len(functors'), b \in Addrs :
           Adds(functors', i, b) /\ Adds(functors', j, b) => i = j
      /\ \A b \in Addrs : InFunctors(b)' <=> InFunctors(b) /\ ~(a = b)
      /\ \A b \in Addrs : a = b => InFunctors(b)
  BY <1>1, <1>2, FunctorTaken, Zenon
<1>4. /\ timers_' = timers_ \cup {<<heap[a].expiration, a>>}
      /\ activeTimers_' = activeTimers_ \cup {<<a, heap[a].sequence>>}
      /\ UNCHANGED <<heap, numCreated, callingExpiredTimers_, expired, todo, batchNow,
                     cancelingTimers_, now, adding, ids, cancelled>>
  BY <1>2, Zenon DEF RunFunctor, AddTimerInLoop, batch, callers
<1>5. heap[a] \in Timer /\ heap[a].expiration \in Nat /\ heap[a].sequence \in Nat
  BY <1>2, Zenon DEF TypeInv, Timer
<1>6. ~InTimers(a) /\ ~InBatch(a) /\ InFunctors(a)
  BY <1>3, <1>2, Zenon DEF OwnerInv
<1>7. TypeInv'
  <2>1. timers_' \subseteq Nat \X Addrs /\ activeTimers_' \subseteq Addrs \X Nat
    BY <1>2, <1>4, <1>5 DEF TypeInv
  <2> QED
    BY <1>3, <1>4, <2>1, Zenon DEF TypeInv
<1>8. /\ InTimers(a)' /\ ~InBatch(a)' /\ ~InFunctors(a)'
      /\ \A b \in Addrs : b # a =>
           (InTimers(b)' <=> InTimers(b)) /\ (InBatch(b)' <=> InBatch(b))
           /\ (InFunctors(b)' <=> InFunctors(b))
  BY <1>3, <1>2, <1>4, <1>6, Zenon DEF InTimers, InBatch
<1>9. OwnerInv'
  <2>1. \A x \in Nat, b \in Addrs : <<x, b>> \in timers_' => x = heap'[b].expiration
    BY <1>4, Zenon DEF OwnerInv
  <2>2. \A b \in Addrs, s \in Nat :
          <<b, s>> \in activeTimers_' <=> s = heap'[b].sequence /\ InTimers(b)'
    <3>1. \A s \in Nat : <<a, s>> \in activeTimers_' <=> s = heap[a].sequence
      BY <1>2, <1>4, <1>6, Zenon DEF OwnerInv
    <3>2. \A b \in Addrs, s \in Nat :
            b # a => (<<b, s>> \in activeTimers_' <=> <<b, s>> \in activeTimers_)
      BY <1>4, Zenon
    <3>3. \A b \in Addrs, s \in Nat :
            <<b, s>> \in activeTimers_ <=> s = heap[b].sequence /\ InTimers(b)
      BY Zenon DEF OwnerInv
    <3> QED
      BY <1>4, <1>8, <3>1, <3>2, <3>3, Zenon
  <2>3. \A b \in Addrs : heap'[b] # NoTimer <=> InTimers(b)' \/ InBatch(b)' \/ InFunctors(b)'
    BY <1>2, <1>4, <1>6, <1>8, Zenon DEF OwnerInv
  <2>4. \A b \in Addrs :
          ~(InTimers(b)' /\ InBatch(b)') /\ ~(InTimers(b)' /\ InFunctors(b)')
          /\ ~(InBatch(b)' /\ InFunctors(b)')
    BY <1>8, Zenon DEF OwnerInv
  <2> QED
    BY <1>3, <1>4, <2>1, <2>2, <2>3, <2>4, Zenon DEF OwnerInv
<1>10. SequenceInv' /\ CancelInv'
  BY <1>4, Zenon DEF SequenceInv, CancelInv, InBatch, NoTimer
<1> QED
  BY <1>7, <1>9, <1>10, Zenon

\* A step that leaves the additions in the queue alone.
QueueKept ==
  /\ functors' \in Seq(Functor)
  /\ \A i, j \in 1 .. Len(functors'), a \in Addrs :
       Adds(functors', i, a) /\ Adds(functors', j, a) => i = j
  /\ \A a \in Addrs : InFunctors(a)' <=> InFunctors(a)

CallersTyped ==
  /\ ids' \subseteq [id : Addrs \X Nat, made : Nat] /\ adding' \in [Threads -> Adding]
  /\ \A t \in Threads : adding'[t] # Nobody => adding'[t].timer \in Addrs

\* Nothing happens to the queue of functors or to the callers.
LEMMA NothingQueued ==
  ASSUME IInv PROVE /\ functors' = functors => QueueKept
                    /\ adding' = adding /\ ids' = ids => CallersTyped
  BY DEF IInv, TypeInv, OwnerInv, QueueKept, CallersTyped, InFunctors

\* A step that leaves the timers and their owners alone.
LEMMA OwnersSame ==
  ASSUME IInv, QueueKept, CallersTyped, now' \in Nat,
         UNCHANGED <<heap, numCreated, timers_, activeTimers_, expired, batchNow,
                     callingExpiredTimers_, cancelled>>,
         cancelingTimers_ \subseteq cancelingTimers_'
  PROVE  IInv'
<1> USE DEF IInv
<1>1. TypeInv' /\ SequenceInv'
  BY Zenon DEF TypeInv, SequenceInv, QueueKept, CallersTyped, NoTimer
<1>2. \A a \in Addrs : (InTimers(a)' <=> InTimers(a)) /\ (InBatch(a)' <=> InBatch(a))
  BY Zenon DEF InTimers, InBatch
<1>3. OwnerInv'
  <2>1. \A a \in Addrs, s \in Nat :
          <<a, s>> \in activeTimers_' <=> s = heap'[a].sequence /\ InTimers(a)'
    BY <1>2, Zenon DEF OwnerInv
  <2>2. \A a \in Addrs : heap'[a] # NoTimer <=> InTimers(a)' \/ InBatch(a)' \/ InFunctors(a)'
    BY <1>2, Zenon DEF OwnerInv, QueueKept
  <2>3. \A a \in Addrs :
          ~(InTimers(a)' /\ InBatch(a)') /\ ~(InTimers(a)' /\ InFunctors(a)')
          /\ ~(InBatch(a)' /\ InFunctors(a)')
    BY <1>2, Zenon DEF OwnerInv, QueueKept
  <2> QED
    BY <2>1, <2>2, <2>3, Zenon DEF OwnerInv, QueueKept
<1>4. CancelInv'
  BY <1>2, Zenon DEF CancelInv
<1> QED
  BY <1>1, <1>3, <1>4, Zenon

\* cancelInLoop() of a waiting timer: it is deleted.
LEMMA CancelActiveKeeps ==
  ASSUME IInv, QueueKept, CallersTyped, NEW a \in Addrs, NEW s \in Nat, CancelActive(<<a, s>>),
         UNCHANGED <<numCreated, batch, now>>
  PROVE  IInv'
<1> USE DEF IInv
<1>1. /\ <<a, s>> \in activeTimers_
      /\ timers_' = timers_ \ {<<heap[a].expiration, a>>}
      /\ activeTimers_' = activeTimers_ \ {<<a, s>>}
      /\ heap' = [heap EXCEPT ![a] = NoTimer] /\ cancelled' = cancelled \cup {s}
      /\ UNCHANGED <<cancelingTimers_, numCreated, callingExpiredTimers_, expired, batchNow, now>>
  BY Zenon DEF CancelActive, batch
<1>2. s = heap[a].sequence /\ InTimers(a) /\ heap[a] # NoTimer /\ ~InBatch(a) /\ ~InFunctors(a)
  BY <1>1, Zenon DEF OwnerInv
<1>3. heap'[a] = NoTimer /\ \A b \in Addrs : b # a => heap'[b] = heap[b]
  BY <1>1, Zenon DEF TypeInv
<1>4. NoTimer \in Timer
  BY Zenon DEF NoTimer, Timer
<1>5. TypeInv'
  <2>1. heap' \in [Addrs -> Timer]
    BY <1>1, <1>4, Zenon DEF TypeInv
  <2> QED
    BY <1>1, <2>1, Zenon DEF TypeInv, QueueKept, CallersTyped
<1>6. SequenceInv'
  BY <1>1, <1>3, Zenon DEF SequenceInv
<1>7. /\ \A x \in Nat : <<x, a>> \notin timers_'
      /\ \A x \in Nat : <<x, a>> \notin expired
      /\ \A x \in Nat : <<a, x>> \notin activeTimers_'
  BY <1>1, <1>2, Zenon DEF OwnerInv, InBatch
<1>8. /\ ~InTimers(a)' /\ ~InBatch(a)' /\ ~InFunctors(a)'
      /\ \A b \in Addrs : b # a =>
           (InTimers(b)' <=> InTimers(b)) /\ (InBatch(b)' <=> InBatch(b))
           /\ (InFunctors(b)' <=> InFunctors(b))
  <2>1. heap'[a].expiration \in Nat
    BY <1>5, Zenon DEF TypeInv, Timer
  <2> QED
    BY <1>1, <1>2, <1>3, <1>7, <2>1 DEF InTimers, InBatch, QueueKept
<1>9. OwnerInv'
  <2>1. \A x \in Nat, b \in Addrs : <<x, b>> \in timers_' => x = heap'[b].expiration
    BY <1>1, <1>3, <1>7, Zenon DEF OwnerInv
  <2>2. \A x \in Nat, b \in Addrs : <<x, b>> \in expired' => x = heap'[b].expiration
    BY <1>1, <1>3, <1>7, Zenon DEF OwnerInv
  <2>3. \A b \in Addrs, x \in Nat :
          <<b, x>> \in activeTimers_' <=> x = heap'[b].sequence /\ InTimers(b)'
    <3>1. \A b \in Addrs, x \in Nat :
            b # a => (<<b, x>> \in activeTimers_' <=> <<b, x>> \in activeTimers_)
      BY <1>1, Zenon
    <3>2. \A b \in Addrs, x \in Nat :
            <<b, x>> \in activeTimers_ <=> x = heap[b].sequence /\ InTimers(b)
      BY Zenon DEF OwnerInv
    <3> QED
      BY <1>3, <1>7, <1>8, <3>1, <3>2, Zenon
  <2>4. \A b \in Addrs : heap'[b] # NoTimer <=> InTimers(b)' \/ InBatch(b)' \/ InFunctors(b)'
    BY <1>3, <1>8, Zenon DEF OwnerInv
  <2>5. \A b \in Addrs :
          ~(InTimers(b)' /\ InBatch(b)') /\ ~(InTimers(b)' /\ InFunctors(b)')
          /\ ~(InBatch(b)' /\ InFunctors(b)')
    BY <1>8, Zenon DEF OwnerInv
  <2> QED
    BY <1>1, <2>1, <2>2, <2>3, <2>4, <2>5, Zenon DEF OwnerInv, QueueKept
<1>10. CancelInv'
  <2>1. s \in 1 .. numCreated
    BY <1>2, Zenon DEF SequenceInv
  <2>2. \A b \in Addrs : b # a /\ heap[b] # NoTimer => heap[b].sequence # s
    BY <1>2, Zenon DEF SequenceInv
  <2>3. ASSUME NEW r \in cancelled', NEW b \in Addrs, heap'[b] # NoTimer, heap'[b].sequence = r
        PROVE  callingExpiredTimers_ /\ InBatch(b)' /\ <<b, r>> \in cancelingTimers_
    <3>1. b # a /\ heap[b] # NoTimer /\ heap[b].sequence = r /\ r # s
      BY <1>3, <2>2, <2>3, Zenon
    <3>2. r \in cancelled
      BY <1>1, <3>1, Zenon
    <3> QED
      BY <1>8, <3>1, <3>2, Zenon DEF CancelInv
  <2> QED
    BY <1>1, <2>1, <2>3, Zenon DEF CancelInv
<1> QED
  BY <1>5, <1>6, <1>9, <1>10, Zenon

\* cancelInLoop() in a callback of handleRead(): the timer of the batch is marked.
LEMMA CancelCalledKeeps ==
  ASSUME IInv, QueueKept, CallersTyped, NEW a \in Addrs, NEW s \in Nat, CancelCalled(<<a, s>>),
         UNCHANGED <<numCreated, batch, now>>
  PROVE  IInv'
<1> USE DEF IInv
<1>1. /\ callingExpiredTimers_ /\ cancelingTimers_' = cancelingTimers_ \cup {<<a, s>>}
      /\ cancelled' = IF a \in Addresses(expired) /\ heap[a].sequence = s
                      THEN cancelled \cup {s} ELSE cancelled
      /\ UNCHANGED <<heap, timers_, activeTimers_, numCreated, callingExpiredTimers_, expired,
                     batchNow, now>>
  BY Zenon DEF CancelCalled, batch, queue
<1>2. CASE cancelled' = cancelled
  BY <1>1, <1>2, OwnersSame, Zenon DEF TypeInv
<1>3. CASE cancelled' # cancelled
  <2>1. a \in Addresses(expired) /\ heap[a].sequence = s /\ cancelled' = cancelled \cup {s}
    BY <1>1, <1>3, Zenon
  <2>2. InBatch(a)
    <3>1. PICK e \in expired : e[2] = a
      BY <2>1, Zenon DEF Addresses
    <3>2. PICK x \in Nat : e = <<x, a>>
      BY <3>1 DEF TypeInv
    <3> QED
      BY <3>2, Zenon DEF OwnerInv, InBatch
  <2>3. heap[a] # NoTimer
    BY <2>2, Zenon DEF OwnerInv
  <2>4. \A b \in Addrs : heap[b] # NoTimer /\ heap[b].sequence = s => b = a
    BY <2>1, <2>3, Zenon DEF SequenceInv
  <2>5. s \in 1 .. numCreated
    BY <2>1, <2>3, Zenon DEF SequenceInv
  <2>6. \A b \in Addrs : (InTimers(b)' <=> InTimers(b)) /\ (InBatch(b)' <=> InBatch(b))
    BY <1>1, Zenon DEF InTimers, InBatch
  <2>7. TypeInv' /\ SequenceInv'
    BY <1>1, Zenon DEF TypeInv, SequenceInv, QueueKept, CallersTyped, NoTimer
  <2>8. OwnerInv'
    <3>1. \A b \in Addrs, x \in Nat :
            <<b, x>> \in activeTimers_' <=> x = heap'[b].sequence /\ InTimers(b)'
      BY <1>1, <2>6, Zenon DEF OwnerInv
    <3>2. \A b \in Addrs : heap'[b] # NoTimer <=> InTimers(b)' \/ InBatch(b)' \/ InFunctors(b)'
      BY <1>1, <2>6, Zenon DEF OwnerInv, QueueKept
    <3>3. \A b \in Addrs :
            ~(InTimers(b)' /\ InBatch(b)') /\ ~(InTimers(b)' /\ InFunctors(b)')
            /\ ~(InBatch(b)' /\ InFunctors(b)')
      BY <2>6, Zenon DEF OwnerInv, QueueKept
    <3> QED
      BY <1>1, <3>1, <3>2, <3>3, Zenon DEF OwnerInv, QueueKept
  <2>9. CancelInv'
    <3>1. ASSUME NEW r \in cancelled', NEW b \in Addrs, heap[b] # NoTimer, heap[b].sequence = r
          PROVE  InBatch(b) /\ <<b, r>> \in cancelingTimers_'
      <4>1. CASE r = s
        BY <1>1, <2>2, <2>4, <3>1, <4>1, Zenon
      <4>2. CASE r \in cancelled
        BY <1>1, <3>1, <4>2, Zenon DEF CancelInv
      <4> QED
        BY <2>1, <4>1, <4>2, Zenon
    <3> QED
      BY <1>1, <2>1, <2>5, <2>6, <3>1, Zenon DEF CancelInv
  <2> QED
    BY <2>7, <2>8, <2>9, Zenon
<1> QED
  BY <1>2, <1>3, Zenon

\* cancelInLoop(), at once or as a functor.
LEMMA CancelInLoopKeeps ==
  ASSUME IInv, QueueKept, CallersTyped, NEW id \in Addrs \X Nat, CancelInLoop(id),
         UNCHANGED <<numCreated, batch, now>>
  PROVE  IInv'
<1>1. PICK a \in Addrs, s \in Nat : id = <<a, s>>
  OBVIOUS
<1>2. CASE CancelActive(id)
  BY <1>1, <1>2, CancelActiveKeeps, Zenon
<1>3. CASE CancelCalled(id)
  BY <1>1, <1>3, CancelCalledKeeps, Zenon
<1>4. CASE CancelNothing(id)
  <2>1. UNCHANGED <<heap, numCreated, timers_, activeTimers_, expired, batchNow,
                    callingExpiredTimers_, cancelled, cancelingTimers_, now>>
    BY <1>4, Zenon DEF CancelNothing, queue, batch
  <2> QED
    BY <2>1, OwnersSame, Zenon DEF IInv, TypeInv
<1> QED
  BY <1>2, <1>3, <1>4, Zenon DEF CancelInLoop

\* doPendingFunctors() runs a functor.
LEMMA RunFunctorKeeps ==
  ASSUME IInv, RunFunctor PROVE IInv'
<1>1. CASE Head(functors).op = "add"
  BY <1>1, RunAddKeeps, Zenon
<1>2. CASE Head(functors).op = "cancel" /\ CancelInLoop(Head(functors).id)
  <2>1. functors # <<>> /\ functors' = Tail(functors) /\ UNCHANGED <<numCreated, batch, now, callers>>
    BY Zenon DEF RunFunctor
  <2>2. TypeInv /\ OwnerInv
    BY Zenon DEF IInv
  <2>3. Head(functors).id \in Addrs \X Nat
    BY <2>1, <2>2, FunctorTaken, Zenon DEF Functor
  <2>4. "cancel" # "add"
    OBVIOUS
  <2>5. QueueKept
    BY <1>2, <2>1, <2>2, <2>4, FunctorTaken, Zenon DEF QueueKept
  <2>6. CallersTyped
    BY <2>1, NothingQueued, Zenon DEF callers
  <2> QED
    BY <1>2, <2>1, <2>3, <2>5, <2>6, CancelInLoopKeeps, Zenon
<1> QED
  BY <1>1, <1>2, Zenon DEF RunFunctor

\* cancel() in the loop's thread.
LEMMA CancelOwnKeeps ==
  ASSUME IInv, NEW id \in Returned, CancelInOwnLoop(id) PROVE IInv'
<1>1. id \in Addrs \X Nat
  BY Zenon DEF IInv, TypeInv, Returned
<1>2. CancelInLoop(id) /\ UNCHANGED <<numCreated, batch, now, functors, adding, ids>>
  BY Zenon DEF CancelInOwnLoop, callers
<1>3. QueueKept /\ CallersTyped
  BY <1>2, NothingQueued, Zenon
<1> QED
  BY <1>1, <1>2, <1>3, CancelInLoopKeeps, Zenon

\* cancel() in another thread: a functor is queued.
LEMMA CancelKeeps ==
  ASSUME IInv, NEW t \in Threads, NEW id \in Returned, Cancel(t, id) PROVE IInv'
<1> DEFINE f == [op |-> "cancel", id |-> id]
<1>1. id \in Addrs \X Nat
  BY Zenon DEF IInv, TypeInv, Returned
<1>2. f \in Functor /\ f.op # "add"
  BY <1>1, Zenon DEF Functor
<1>3. /\ functors' = Append(functors, f)
      /\ UNCHANGED <<heap, numCreated, timers_, activeTimers_, expired, batchNow,
                     callingExpiredTimers_, cancelled, cancelingTimers_, now, adding, ids>>
  BY Zenon DEF Cancel, queue, batch, callers
<1> HIDE DEF f
<1>4. QueueKept
  BY <1>2, <1>3, FunctorQueued, Zenon DEF IInv, QueueKept
<1>5. CallersTyped
  BY <1>3, NothingQueued, Zenon
<1> QED
  BY <1>3, <1>4, <1>5, OwnersSame, Zenon DEF IInv, TypeInv

\* addTimer() returns in another thread.
LEMMA ReturnKeeps ==
  ASSUME IInv, NEW t \in Threads, ReturnTimerId(t) PROVE IInv'
<1> USE DEF IInv
<1>1. PICK a \in Addrs : a = adding[t].timer
  BY Zenon DEF ReturnTimerId, TypeInv
<1>2. adding[t].made \in Nat
  BY Zenon DEF TypeInv, Adding
<1>3. PICK s \in Nat : ids' = ids \cup {[id |-> <<a, s>>, made |-> adding[t].made]}
  <2>1. PICK s \in IF a \in Allocated THEN {heap[a].sequence} ELSE Sequences_ :
          ids' = ids \cup {[id |-> <<a, s>>, made |-> adding[t].made]}
    BY <1>1, Zenon DEF ReturnTimerId
  <2>2. heap[a].sequence \in Nat /\ Sequences_ \subseteq Nat
    BY TimerAssumption DEF TypeInv, Timer, Sequences_
  <2> QED
    BY <2>1, <2>2, Zenon
<1>4. CallersTyped
  <2>1. Nobody \in Adding
    BY Zenon DEF Nobody, Adding
  <2>2. adding' = [adding EXCEPT ![t] = Nobody]
    BY Zenon DEF ReturnTimerId
  <2>3. adding' \in [Threads -> Adding] /\ \A u \in Threads : adding'[u] # Nobody => adding'[u].timer \in Addrs
    BY <2>1, <2>2, Zenon DEF TypeInv
  <2>4. ids' \subseteq [id : Addrs \X Nat, made : Nat]
    BY <1>2, <1>3 DEF TypeInv
  <2> QED
    BY <2>3, <2>4, Zenon DEF CallersTyped
<1>5. /\ functors' = functors
      /\ UNCHANGED <<heap, numCreated, timers_, activeTimers_, expired, batchNow,
                     callingExpiredTimers_, cancelled, cancelingTimers_, now>>
  BY Zenon DEF ReturnTimerId, queue, batch
<1>6. QueueKept
  BY <1>5, NothingQueued, Zenon
<1> QED
  BY <1>4, <1>5, <1>6, OwnersSame, Zenon DEF TypeInv

\* The addresses of the batch are those of the Timers it owns.
LEMMA BatchAddresses ==
  ASSUME IInv, NEW a \in Addrs PROVE a \in Addresses(expired) <=> InBatch(a)
<1> USE DEF IInv
<1>1. ASSUME a \in Addresses(expired) PROVE InBatch(a)
  <2>1. PICK e \in expired : e[2] = a
    BY <1>1, Zenon DEF Addresses
  <2>2. PICK x \in Nat : e = <<x, a>>
    BY <2>1 DEF TypeInv
  <2> QED
    BY <2>2, Zenon DEF OwnerInv, InBatch
<1>2. ASSUME InBatch(a) PROVE a \in Addresses(expired)
  <2>1. <<heap[a].expiration, a>>[2] = a
    OBVIOUS
  <2> QED
    BY <1>2, <2>1, Zenon DEF InBatch, Addresses
<1> QED
  BY <1>1, <1>2, Zenon

\* The poll reports the timerfd, and handleRead() starts, outside handleRead().
PolledInv == active => ~callingExpiredTimers_

\* handleRead() with getExpired(): the due timers move to the batch.
LEMMA HandleReadKeeps ==
  ASSUME IInv, PolledInv, HandleRead PROVE IInv'
<1> USE DEF IInv
<1>1. /\ ~callingExpiredTimers_ /\ expired = {}
      /\ expired' = {e \in timers_ : e[1] <= now} /\ timers_' = timers_ \ expired'
      /\ activeTimers_' = activeTimers_ \ {<<b, heap[b].sequence>> : b \in Addresses(expired')}
      /\ callingExpiredTimers_' = TRUE /\ batchNow' = now
      /\ UNCHANGED <<heap, numCreated, now, functors, adding, ids, cancelled>>
  BY Zenon DEF HandleRead, PolledInv, OwnerInv, callers
<1>2. TypeInv' /\ SequenceInv'
  BY <1>1, Zenon DEF TypeInv, SequenceInv, NoTimer
<1>3. \A a \in Addrs :
        /\ InBatch(a)' <=> InTimers(a) /\ heap[a].expiration <= now
        /\ InTimers(a)' <=> InTimers(a) /\ ~(heap[a].expiration <= now)
        /\ ~InBatch(a) /\ (InFunctors(a)' <=> InFunctors(a))
  BY <1>1, Zenon DEF InTimers, InBatch, InFunctors
<1>4. ASSUME NEW a \in Addrs PROVE a \in Addresses(expired') <=> InBatch(a)'
  <2>1. ASSUME NEW e \in expired', e[2] = a PROVE InBatch(a)'
    <3>1. PICK x \in Nat : e = <<x, a>> /\ e \in timers_
      BY <1>1, <2>1 DEF TypeInv
    <3>2. x = heap'[a].expiration
      BY <1>1, <3>1, Zenon DEF OwnerInv
    <3> QED
      BY <2>1, <3>1, <3>2, Zenon DEF InBatch
  <2>2. ASSUME InBatch(a)' PROVE a \in Addresses(expired')
    <3>1. <<heap'[a].expiration, a>>[2] = a
      OBVIOUS
    <3> QED
      BY <2>2, <3>1, Zenon DEF InBatch, Addresses
  <2> QED
    BY <2>1, <2>2, Zenon DEF Addresses
<1>5. OwnerInv'
  <2>1. \A x \in Nat, a \in Addrs : <<x, a>> \in timers_' => x = heap'[a].expiration
    BY <1>1, Zenon DEF OwnerInv
  <2>2. \A x \in Nat, a \in Addrs : <<x, a>> \in expired' => x = heap'[a].expiration
    BY <1>1, Zenon DEF OwnerInv
  <2>3. ASSUME NEW a \in Addrs, NEW s \in Nat
        PROVE  <<a, s>> \in activeTimers_' <=> s = heap'[a].sequence /\ InTimers(a)'
    <3>1. <<a, s>> \in activeTimers_ <=> s = heap[a].sequence /\ InTimers(a)
      BY Zenon DEF OwnerInv
    <3>2. <<a, s>> \in activeTimers_' <=>
            <<a, s>> \in activeTimers_ /\ ~(s = heap[a].sequence /\ a \in Addresses(expired'))
      BY <1>1, Zenon
    <3> QED
      BY <1>1, <1>3, <1>4, <3>1, <3>2, Zenon
  <2>4. \A a \in Addrs : heap'[a] # NoTimer <=> InTimers(a)' \/ InBatch(a)' \/ InFunctors(a)'
    BY <1>1, <1>3, Zenon DEF OwnerInv
  <2>5. \A a \in Addrs :
          ~(InTimers(a)' /\ InBatch(a)') /\ ~(InTimers(a)' /\ InFunctors(a)')
          /\ ~(InBatch(a)' /\ InFunctors(a)')
    BY <1>3, Zenon DEF OwnerInv
  <2>6. \A i, j \in 1 .. Len(functors'), a \in Addrs :
          Adds(functors', i, a) /\ Adds(functors', j, a) => i = j
    BY <1>1, Zenon DEF OwnerInv
  <2> QED
    BY <1>1, <2>1, <2>2, <2>3, <2>4, <2>5, <2>6, Zenon DEF OwnerInv
<1>6. CancelInv'
  BY <1>1, Zenon DEF CancelInv
<1> QED
  BY <1>2, <1>5, <1>6, Zenon

\* What reset() leaves at each address: a restarted Timer, a deleted one, or one that
\* was not in the batch.
LEMMA ResetIs ==
  ASSUME IInv, HandleReadEnds, NEW a \in Addrs
  PROVE  /\ a \in Restarted =>
              /\ InBatch(a) /\ heap'[a] \in Timer /\ heap'[a] # NoTimer
              /\ heap'[a].sequence = heap[a].sequence
              /\ <<a, heap[a].sequence>> \notin cancelingTimers_
         /\ a \notin Restarted /\ InBatch(a) => heap'[a] = NoTimer
         /\ ~InBatch(a) => a \notin Restarted /\ heap'[a] = heap[a]
<1> USE DEF IInv
<1>1. a \in Restarted <=> InBatch(a) /\ Again(a)
  BY BatchAddresses, Zenon DEF Restarted
<1>2. heap'[a] = IF a \in Restarted
                 THEN [heap[a] EXCEPT !.expiration = batchNow + heap[a].interval]
                 ELSE IF InBatch(a) THEN NoTimer ELSE heap[a]
  <2>1. heap'[a] = IF a \in Restarted
                   THEN [heap[a] EXCEPT !.expiration = batchNow + heap[a].interval]
                   ELSE IF a \in Addresses(expired) THEN NoTimer ELSE heap[a]
    BY Zenon DEF HandleReadEnds, Reset
  <2> QED
    BY <2>1, BatchAddresses, Zenon
<1>3. heap[a] \in Timer /\ batchNow \in Nat /\ heap[a].interval \in Nat
  BY Zenon DEF TypeInv, Timer
<1>4. ASSUME a \in Restarted
      PROVE  /\ heap'[a] \in Timer /\ heap'[a] # NoTimer
             /\ heap'[a].sequence = heap[a].sequence
  <2>1. heap'[a] = [heap[a] EXCEPT !.expiration = batchNow + heap[a].interval]
    BY <1>2, <1>4, Zenon
  <2>2. batchNow + heap[a].interval \in Nat /\ heap[a].interval > 0
    BY <1>1, <1>3, <1>4 DEF Again
  <2>3. heap'[a] \in Timer /\ heap'[a].sequence = heap[a].sequence
        /\ heap'[a].interval = heap[a].interval
    BY <1>3, <2>1, <2>2, Zenon DEF Timer
  <2>4. NoTimer.interval = 0
    BY Zenon DEF NoTimer
  <2>5. heap'[a].interval # NoTimer.interval
    BY <1>3, <2>2, <2>3, <2>4
  <2> QED
    BY <2>3, <2>5, Zenon
<1> QED
  BY <1>1, <1>2, <1>4, Zenon DEF Again

\* The end of handleRead(), with reset(): the batch goes back to timers_ or away.
LEMMA HandleReadEndsKeeps ==
  ASSUME IInv, HandleReadEnds PROVE IInv'
<1> USE DEF IInv
<1>1. /\ callingExpiredTimers_' = FALSE /\ expired' = {} /\ batchNow' = 0
      /\ heap' \in [Addrs -> {heap'[b] : b \in Addrs}]
      /\ timers_' = timers_ \cup {<<heap'[b].expiration, b>> : b \in Restarted}
      /\ activeTimers_' = activeTimers_ \cup {<<b, heap[b].sequence>> : b \in Restarted}
      /\ UNCHANGED <<numCreated, now, functors, adding, ids, cancelled>>
  BY Zenon DEF HandleReadEnds, Reset, callers
<1>2. Restarted \subseteq Addrs
  BY Zenon DEF Restarted, Addresses, TypeInv
<1>3. \A b \in Addrs : heap'[b] \in Timer
  <2>1. NoTimer \in Timer /\ \A b \in Addrs : heap[b] \in Timer
    BY Zenon DEF NoTimer, Timer, TypeInv
  <2> QED
    BY <2>1, ResetIs, Zenon
<1>4. \A b \in Addrs : heap'[b].expiration \in Nat /\ heap[b].sequence \in Nat
  BY <1>3, Zenon DEF Timer, TypeInv
<1>5. TypeInv'
  <2>1. heap' \in [Addrs -> Timer]
    BY <1>1, <1>3, Zenon
  <2>2. timers_' \subseteq Nat \X Addrs /\ activeTimers_' \subseteq Addrs \X Nat
    BY <1>1, <1>2, <1>4 DEF TypeInv
  <2> QED
    BY <1>1, <2>1, <2>2, Zenon DEF TypeInv
<1>6. \A b \in Addrs : heap'[b] # NoTimer => heap[b] # NoTimer /\ heap'[b].sequence = heap[b].sequence
  <2>1. \A b \in Addrs : InBatch(b) => heap[b] # NoTimer
    BY Zenon DEF OwnerInv
  <2> QED
    BY <2>1, ResetIs, Zenon
<1>7. SequenceInv'
  <2>1. \A b \in Addrs : heap'[b] # NoTimer => heap'[b].sequence \in 1 .. numCreated
    BY <1>6, Zenon DEF SequenceInv
  <2>2. \A b, c \in Addrs :
          heap'[b] # NoTimer /\ heap'[c] # NoTimer /\ b # c => heap'[b].sequence # heap'[c].sequence
    BY <1>6, Zenon DEF SequenceInv
  <2> QED
    BY <1>1, <2>1, <2>2, Zenon DEF SequenceInv
<1>8. \A x \in Nat, b \in Addrs :
        /\ b \in Restarted => (<<x, b>> \in timers_' <=> <<x, b>> \in timers_ \/ x = heap'[b].expiration)
        /\ b \notin Restarted => (<<x, b>> \in timers_' <=> <<x, b>> \in timers_)
  BY <1>1, Zenon
<1>9. \A x \in Nat, b \in Addrs : InBatch(b) => <<x, b>> \notin timers_
  BY Zenon DEF OwnerInv, InTimers
<1>10. ASSUME NEW b \in Addrs
       PROVE  /\ b \in Restarted => InTimers(b)'
              /\ b \notin Restarted /\ InBatch(b) => ~InTimers(b)'
              /\ ~InBatch(b) => (InTimers(b)' <=> InTimers(b))
              /\ ~InBatch(b)' /\ (InFunctors(b)' <=> InFunctors(b))
  <2>1. /\ b \in Restarted => <<heap'[b].expiration, b>> \in timers_'
        /\ b \notin Restarted =>
             (<<heap'[b].expiration, b>> \in timers_' <=> <<heap'[b].expiration, b>> \in timers_)
    BY <1>4, <1>8, Zenon
  <2>2. InBatch(b) => <<heap'[b].expiration, b>> \notin timers_
    BY <1>4, <1>9, Zenon
  <2>3. ~InBatch(b) => b \notin Restarted /\ heap'[b] = heap[b]
    BY ResetIs, Zenon
  <2>4. ~InBatch(b)' /\ (InFunctors(b)' <=> InFunctors(b))
    BY <1>1, Zenon DEF InBatch, InFunctors
  <2> QED
    BY <2>1, <2>2, <2>3, <2>4, Zenon DEF InTimers
<1>11. OwnerInv'
  <2>1. ASSUME NEW x \in Nat, NEW b \in Addrs, <<x, b>> \in timers_' PROVE x = heap'[b].expiration
    <3>1. CASE b \in Restarted
      BY <1>8, <1>9, <2>1, <3>1, ResetIs, Zenon
    <3>2. CASE b \notin Restarted
      <4>1. <<x, b>> \in timers_ /\ ~InBatch(b)
        BY <1>8, <1>9, <2>1, <3>2, Zenon
      <4> QED
        BY <4>1, ResetIs, Zenon DEF OwnerInv
    <3> QED
      BY <3>1, <3>2, Zenon
  <2>2. ASSUME NEW b \in Addrs, NEW s \in Nat
        PROVE  <<b, s>> \in activeTimers_' <=> s = heap'[b].sequence /\ InTimers(b)'
    <3>1. <<b, s>> \in activeTimers_ <=> s = heap[b].sequence /\ InTimers(b)
      BY Zenon DEF OwnerInv
    <3>2. <<b, s>> \in activeTimers_' <=>
            <<b, s>> \in activeTimers_ \/ (b \in Restarted /\ s = heap[b].sequence)
      BY <1>1, Zenon
    <3>3. InBatch(b) => ~InTimers(b)
      BY Zenon DEF OwnerInv
    <3> QED
      BY <1>10, <3>1, <3>2, <3>3, ResetIs, Zenon
  <2>3. ASSUME NEW b \in Addrs
        PROVE  heap'[b] # NoTimer <=> InTimers(b)' \/ InBatch(b)' \/ InFunctors(b)'
    <3>1. (heap[b] # NoTimer <=> InTimers(b) \/ InBatch(b) \/ InFunctors(b))
          /\ (InBatch(b) => ~InFunctors(b))
      BY Zenon DEF OwnerInv
    <3> QED
      BY <1>10, <3>1, ResetIs, Zenon
  <2>4. ASSUME NEW b \in Addrs
        PROVE  ~(InTimers(b)' /\ InBatch(b)') /\ ~(InTimers(b)' /\ InFunctors(b)')
               /\ ~(InBatch(b)' /\ InFunctors(b)')
    <3>1. (InBatch(b) => ~InFunctors(b)) /\ ~(InTimers(b) /\ InFunctors(b))
      BY Zenon DEF OwnerInv
    <3> QED
      BY <1>10, <3>1, Zenon
  <2>5. \A i, j \in 1 .. Len(functors'), b \in Addrs :
          Adds(functors', i, b) /\ Adds(functors', j, b) => i = j
    BY <1>1, Zenon DEF OwnerInv
  <2> QED
    BY <1>1, <2>1, <2>2, <2>3, <2>4, <2>5, Zenon DEF OwnerInv
<1>12. CancelInv'
  <2>1. ASSUME NEW s \in cancelled, NEW b \in Addrs, heap'[b] # NoTimer, heap'[b].sequence = s
        PROVE  FALSE
    <3>1. heap[b] # NoTimer /\ heap[b].sequence = s
      BY <1>6, <2>1, Zenon
    <3>2. InBatch(b) /\ <<b, heap[b].sequence>> \in cancelingTimers_
      BY <3>1, Zenon DEF CancelInv
    <3> QED
      BY <2>1, <3>2, ResetIs, Zenon
  <2> QED
    BY <1>1, <2>1, Zenon DEF CancelInv
<1> QED
  BY <1>5, <1>7, <1>11, <1>12, Zenon

-----------------------------------------------------------------------------
(* The invariant is inductive.                                             *)

LEMMA InitInv == Init => IInv /\ PolledInv
<1> SUFFICES ASSUME Init PROVE IInv /\ PolledInv
  OBVIOUS
<1>1. NoTimer \in Timer /\ Nobody \in Adding
  BY Zenon DEF NoTimer, Timer, Nobody, Adding
<1>2. TypeInv
  <2>1. heap \in [Addrs -> Timer] /\ adding \in [Threads -> Adding]
    BY <1>1, Zenon DEF Init
  <2>2. \A t \in Threads : adding[t] = Nobody
    BY Zenon DEF Init
  <2>3. functors \in Seq(Functor)
    BY DEF Init
  <2> QED
    BY <2>1, <2>2, <2>3, Zenon DEF Init, TypeInv
<1>3. \A a \in Addrs : heap[a] = NoTimer /\ ~InTimers(a) /\ ~InBatch(a) /\ ~InFunctors(a)
  BY DEF Init, InTimers, InBatch, InFunctors
<1>4. SequenceInv /\ CancelInv /\ PolledInv
  BY <1>3, Zenon DEF Init, SequenceInv, CancelInv, PolledInv
<1>5. OwnerInv
  BY <1>3 DEF Init, OwnerInv
<1> QED
  BY <1>2, <1>4, <1>5, Zenon DEF IInv

\* Time, the poll and the return of a callback change no owner.
LEMMA OtherKeeps ==
  ASSUME IInv, Tick \/ ClockSetBack \/ Poll \/ CallbackReturns \/ UNCHANGED vars PROVE IInv'
<1>1. /\ UNCHANGED <<heap, numCreated, timers_, activeTimers_, expired, batchNow,
                     callingExpiredTimers_, cancelled, cancelingTimers_, functors, adding, ids>>
  BY Zenon DEF Tick, ClockSetBack, Poll, CallbackReturns, vars, queue, batch, callers
<1>2. now' \in Nat
  BY DEF Tick, ClockSetBack, Poll, CallbackReturns, vars, IInv, TypeInv
<1>3. QueueKept /\ CallersTyped
  BY <1>1, NothingQueued, Zenon
<1> QED
  BY <1>1, <1>2, <1>3, OwnersSame, Zenon

\* The timerfd is reported only outside handleRead().
LEMMA PolledKeeps ==
  ASSUME PolledInv, [Next]_vars PROVE PolledInv'
<1> USE DEF PolledInv, vars, batch
<1>1. CASE OwnCall
  BY <1>1, Zenon DEF OwnCall, AddTimerInOwnLoop, CancelInOwnLoop
<1>2. CASE \E t \in Threads : ThreadCall(t) \/ ReturnTimerId(t)
  BY <1>2, Zenon DEF ThreadCall, AddTimer, Cancel, ReturnTimerId
<1>3. CASE LoopStep
  BY <1>3, Zenon DEF LoopStep, Poll, RunFunctor, HandleRead, CallbackReturns, HandleReadEnds
<1>4. CASE Tick \/ ClockSetBack \/ UNCHANGED vars
  BY <1>4, Zenon DEF Tick, ClockSetBack
<1> QED
  BY <1>1, <1>2, <1>3, <1>4, Zenon DEF Next

LEMMA NextInv == IInv /\ PolledInv /\ [Next]_vars => (IInv /\ PolledInv)'
<1> SUFFICES ASSUME IInv, PolledInv, [Next]_vars PROVE IInv' /\ PolledInv'
  OBVIOUS
<1>1. PolledInv'
  BY PolledKeeps, Zenon
<1>2. CASE OwnCall
  BY <1>1, <1>2, AddOwnKeeps, CancelOwnKeeps, Zenon DEF OwnCall
<1>3. CASE \E t \in Threads : ThreadCall(t) \/ ReturnTimerId(t)
  BY <1>1, <1>3, AddKeeps, CancelKeeps, ReturnKeeps, Zenon DEF ThreadCall
<1>4. CASE LoopStep
  BY <1>1, <1>4, OtherKeeps, RunFunctorKeeps, HandleReadKeeps, HandleReadEndsKeeps, Zenon DEF LoopStep
<1>5. CASE Tick \/ ClockSetBack \/ UNCHANGED vars
  BY <1>1, <1>5, OtherKeeps, Zenon
<1> QED
  BY <1>1, <1>2, <1>3, <1>4, <1>5, Zenon DEF Next

\* The queue of functors is a sequence.
LEMMA FunctorsDomain ==
  ASSUME NEW fs \in Seq(Functor) PROVE DOMAIN fs = 1 .. Len(fs)
  OBVIOUS

\* The addresses of timers_ are those of the Timers it owns, and those of the queue of
\* functors likewise.
LEMMA OwnersAre ==
  ASSUME IInv, NEW a \in Addrs
  PROVE  /\ a \in Addresses(timers_) <=> InTimers(a)
         /\ a \in {functors[i].id[1] : i \in QueuedAdds} <=> InFunctors(a)
<1> USE DEF IInv
<1>1. ASSUME a \in Addresses(timers_) PROVE InTimers(a)
  <2>1. PICK e \in timers_ : e[2] = a
    BY <1>1, Zenon DEF Addresses
  <2>2. PICK x \in Nat : e = <<x, a>>
    BY <2>1 DEF TypeInv
  <2> QED
    BY <2>2, Zenon DEF OwnerInv, InTimers
<1>2. ASSUME InTimers(a) PROVE a \in Addresses(timers_)
  <2>1. <<heap[a].expiration, a>>[2] = a
    OBVIOUS
  <2> QED
    BY <1>2, <2>1, Zenon DEF InTimers, Addresses
<1>3. DOMAIN functors = 1 .. Len(functors)
  BY FunctorsDomain, Zenon DEF TypeInv
<1> QED
  BY <1>1, <1>2, <1>3, Zenon DEF QueuedAdds, InFunctors, Adds

\* The invariant, address by address, gives TimersOwned.
LEMMA InvImpliesOwned == IInv => TimersOwned
<1> SUFFICES ASSUME IInv PROVE TimersOwned
  OBVIOUS
<1> USE DEF IInv
<1> DEFINE queued == {functors[i].id[1] : i \in QueuedAdds}
<1>1. DOMAIN functors = 1 .. Len(functors) /\ \A i \in DOMAIN functors : functors[i].id[1] \in Addrs
  <2>1. functors \in Seq(Functor) /\ DOMAIN functors = 1 .. Len(functors)
    BY FunctorsDomain, Zenon DEF TypeInv
  <2>2. \A i \in DOMAIN functors : functors[i] \in Functor
    BY <2>1
  <2> QED
    BY <2>1, <2>2, Zenon DEF Functor
<1>2. Addresses(timers_) \subseteq Addrs /\ Addresses(expired) \subseteq Addrs /\ queued \subseteq Addrs
  BY <1>1, Zenon DEF TypeInv, Addresses, QueuedAdds
<1>3. \A a \in Addrs : /\ a \in Addresses(timers_) <=> InTimers(a)
                       /\ a \in Addresses(expired) <=> InBatch(a)
                       /\ a \in queued <=> InFunctors(a)
  BY OwnersAre, BatchAddresses, Zenon
<1>4. activeTimers_ = {<<e[2], heap[e[2]].sequence>> : e \in timers_}
  <2>1. ASSUME NEW e \in timers_ PROVE <<e[2], heap[e[2]].sequence>> \in activeTimers_
    <3>1. PICK x \in Nat, a \in Addrs : e = <<x, a>>
      BY DEF TypeInv
    <3>2. InTimers(a) /\ heap[a].sequence \in Nat
      BY <3>1, Zenon DEF OwnerInv, InTimers, TypeInv, Timer
    <3>3. <<a, heap[a].sequence>> \in activeTimers_
      BY <3>2, Zenon DEF OwnerInv
    <3> QED
      BY <3>1, <3>3, Zenon
  <2>2. ASSUME NEW d \in activeTimers_ PROVE \E e \in timers_ : d = <<e[2], heap[e[2]].sequence>>
    <3>1. PICK a \in Addrs, s \in Nat : d = <<a, s>>
      BY DEF TypeInv
    <3>2. s = heap[a].sequence /\ <<heap[a].expiration, a>> \in timers_
      BY <3>1, Zenon DEF OwnerInv, InTimers
    <3> QED
      BY <3>1, <3>2, Zenon
  <2> QED
    BY <2>1, <2>2, Zenon
<1>5. ASSUME NEW e \in timers_ PROVE heap[e[2]].expiration = e[1]
  <2>1. PICK x \in Nat, a \in Addrs : e = <<x, a>>
    BY DEF TypeInv
  <2> QED
    BY <2>1, Zenon DEF OwnerInv
<1>6. Allocated = Addresses(timers_) \cup Addresses(expired) \cup queued
  <2> HIDE DEF queued
  <2>1. \A a \in Addrs : a \in Allocated <=> a \in Addresses(timers_) \/ a \in Addresses(expired) \/ a \in queued
    BY <1>3, Zenon DEF Allocated, OwnerInv
  <2> QED
    BY <1>2, <2>1, Zenon DEF Allocated
<1>7. Addresses(timers_) \cap (Addresses(expired) \cup queued) = {}
      /\ Addresses(expired) \cap queued = {}
  <2> HIDE DEF queued
  <2> QED
    BY <1>2, <1>3, Zenon DEF OwnerInv
<1>8. \A i, j \in QueuedAdds : functors[i].id[1] = functors[j].id[1] => i = j
  BY <1>1, Zenon DEF QueuedAdds, OwnerInv, Adds
<1> QED
  BY <1>4, <1>5, <1>6, <1>7, <1>8, Zenon DEF TimersOwned

\* A cancelled timer is not in timers_, so not active, and outside the batch not there.
LEMMA InvImpliesFinal == IInv => CancelIsFinal
<1> SUFFICES ASSUME IInv, NEW s \in cancelled
             PROVE  /\ \A id \in activeTimers_ : id[2] # s
                    /\ ~callingExpiredTimers_ => \A a \in Allocated : heap[a].sequence # s
  BY Zenon DEF CancelIsFinal
<1> USE DEF IInv
<1>1. ASSUME NEW id \in activeTimers_, id[2] = s PROVE FALSE
  <2>1. PICK a \in Addrs : id = <<a, s>> /\ s \in Nat
    BY <1>1 DEF TypeInv
  <2>2. s = heap[a].sequence /\ InTimers(a) /\ heap[a] # NoTimer /\ ~InBatch(a)
    BY <2>1, Zenon DEF OwnerInv
  <2> QED
    BY <2>2, Zenon DEF CancelInv
<1>2. ASSUME ~callingExpiredTimers_, NEW a \in Allocated PROVE heap[a].sequence # s
  BY <1>2, Zenon DEF CancelInv, Allocated
<1> QED
  BY <1>1, <1>2, Zenon

-----------------------------------------------------------------------------
(* The theorems.                                                           *)

\* Every Timer on the heap has exactly one owner, timers_ (mirrored by
\* activeTimers_), the expired batch or a queued addTimerInLoop functor, whatever
\* threads add and cancel and whatever the callbacks of handleRead() do.
THEOREM TimersHaveOneOwner == Spec => []TimersOwned
<1>1. IInv => TimersOwned
  BY InvImpliesOwned, Zenon
<1> QED
  BY InitInv, NextInv, <1>1, PTL DEF Spec

\* A timer that cancelInLoop() found never runs again: reset() does not restart it,
\* and no timer made later at its address is taken for it.
THEOREM CancelledStaysGone == Spec => []CancelIsFinal
<1>1. IInv => CancelIsFinal
  BY InvImpliesFinal, Zenon
<1> QED
  BY InitInv, NextInv, <1>1, PTL DEF Spec
-----------------------------------------------------------------------------
(* The timerfd.  reset() leaves it alone when the first expiration is not  *)
(* valid(), which is time 0: such a timer was added during the batch, and  *)
(* its insertion set the timerfd to the least delay.                       *)

ZeroArmed ==
  callingExpiredTimers_ =>
    \A e \in timers_ : e[1] = 0 => ticks \/ (alarm > 0 /\ alarm <= MinDelay)

ArmedInv ==
  alarm \in Nat /\ ticks \in BOOLEAN /\ active \in BOOLEAN /\ TimerfdArmed /\ ZeroArmed

\* A nonempty set of naturals has a least element.
LEMMA Least ==
  ASSUME NEW T, T \subseteq Nat, T # {}
  PROVE  \E x \in T : \A y \in T : x <= y
<1> DEFINE R == {p \in Nat \X Nat : p[1] < p[2]}
<1>1. IsWellFoundedOn(R, Nat)
  BY NatLessThanWellFounded, Zenon DEF OpToRel
<1>2. PICK x \in T : \A y \in T : ~ (<<y, x>> \in R)
  <2> HIDE DEF R
  <2> QED
    BY <1>1, WFMin, Zenon
<1>3. x \in Nat
  OBVIOUS
<1>4. \A y \in T : ~ (y < x)
  BY <1>2, <1>3, Zenon
<1> QED
  BY <1>3, <1>4

\* timers_.begin(): a nonempty set of entries has a first one.
First(T) == CHOOSE e \in T : \A d \in T \ {e} : Before(e, d)

LEMMA FirstEntry ==
  ASSUME NEW T, T \subseteq Nat \X Addrs, T # {}
  PROVE  First(T) \in T /\ \A e \in T : First(T)[1] <= e[1]
<1> DEFINE first == First(T)
           Times == {e[1] : e \in T}
<1>1. \A e \in T : e[1] \in Nat /\ e[2] \in Nat /\ e = <<e[1], e[2]>>
  <2>1. Addrs \subseteq Nat
    BY TimerAssumption, Zenon
  <2>2. \A e \in Nat \X Addrs : e[1] \in Nat /\ e[2] \in Addrs /\ e = <<e[1], e[2]>>
    OBVIOUS
  <2> QED
    BY <2>1, <2>2, Zenon
<1>2. PICK x \in Times : \A y \in Times : x <= y
  <2>1. Times \subseteq Nat /\ Times # {}
    BY <1>1, Zenon
  <2> HIDE DEF Times
  <2> QED
    BY <2>1, Least, Zenon
<1> DEFINE Ties == {e[2] : e \in {d \in T : d[1] = x}}
<1>3. PICK a \in Ties : \A b \in Ties : a <= b
  <2>1. Ties \subseteq Nat /\ Ties # {}
    BY <1>1, <1>2, Zenon
  <2> HIDE DEF Ties
  <2> QED
    BY <2>1, Least, Zenon
<1>4. PICK e \in T : e[1] = x /\ e[2] = a
  BY <1>3, Zenon
<1>5. ASSUME NEW d \in T \ {e} PROVE Before(e, d)
  <2>1. d[1] \in Nat /\ d[2] \in Nat /\ e[1] \in Nat /\ e[2] \in Nat /\ (d[1] # e[1] \/ d[2] # e[2])
    BY <1>1, Zenon
  <2>2. e[1] <= d[1]
    BY <1>2, <1>4, Zenon
  <2>3. d[1] = e[1] => e[2] <= d[2]
    BY <1>3, <1>4, Zenon
  <2> QED
    BY <2>1, <2>2, <2>3 DEF Before
<1>6. first \in T /\ \A d \in T \ {first} : Before(first, d)
  BY <1>5, Zenon DEF First
<1>7. ASSUME NEW d \in T PROVE first[1] <= d[1]
  <2>1. first[1] \in Nat /\ d[1] \in Nat
    BY <1>1, <1>6, Zenon
  <2> HIDE DEF first
  <2>2. CASE d = first
    BY <2>1, <2>2
  <2>3. CASE d # first
    BY <1>6, <2>1, <2>3 DEF Before
  <2> QED
    BY <2>2, <2>3, Zenon
<1> QED
  BY <1>6, <1>7, Zenon

\* addTimerInLoop(): the timerfd suits the timer it adds, as it did the others.
LEMMA AddArms ==
  ASSUME IInv, PolledInv, ArmedInv, NEW a \in Addrs, NEW timer \in Timer,
         AddTimerInLoop(a, timer), UNCHANGED <<callingExpiredTimers_, active, now>>
  PROVE  ArmedInv'
<1> DEFINE w == timer.expiration
<1>1. /\ w \in Nat /\ now \in Nat /\ alarm \in Nat /\ MinDelay \in Nat /\ MinDelay > 0
      /\ ticks \in BOOLEAN /\ active \in BOOLEAN
      /\ \A e \in timers_ : e[1] \in Nat
  BY TimerAssumption DEF Timer, IInv, TypeInv, ArmedInv
<1>2. timers_' = timers_ \cup {<<w, a>>}
  BY Zenon DEF AddTimerInLoop
<1> HIDE DEF w
<1>3. CASE EarliestChanged(w)
  <2>1. alarm' = Larger(w - now, MinDelay) /\ ticks' = FALSE
    BY <1>3, Zenon DEF AddTimerInLoop, ResetTimerfd, w
  <2>2. alarm' \in Nat /\ alarm' > 0
    BY <1>1, <2>1 DEF Larger
  <2>3. ASSUME NEW e \in timers_' PROVE e[1] \in Nat /\ w <= e[1]
    BY <1>1, <1>2, <1>3 DEF EarliestChanged
  <2>4. \A e \in timers_' : alarm' <= Larger(e[1] - now, MinDelay)
    BY <1>1, <2>1, <2>3 DEF Larger
  <2>5. ASSUME NEW e \in timers_', e[1] = 0 PROVE alarm' <= MinDelay
    BY <1>1, <2>4, <2>5 DEF Larger
  <2> QED
    BY <1>1, <2>1, <2>2, <2>4, <2>5, Zenon DEF ArmedInv, TimerfdArmed, ZeroArmed
<1>4. CASE ~EarliestChanged(w)
  <2>1. UNCHANGED <<alarm, ticks>>
    BY <1>4, Zenon DEF AddTimerInLoop, timerfd, w
  <2>2. PICK d \in timers_ : d[1] <= w
    BY <1>1, <1>4 DEF EarliestChanged
  <2>3. TimerfdArmed'
    <3>1. SUFFICES ASSUME ~callingExpiredTimers_, ~ticks, ~active
                   PROVE  alarm > 0 /\ \A e \in timers_' : alarm <= Larger(e[1] - now, MinDelay)
      BY <1>1, <2>1, Zenon DEF TimerfdArmed
    <3>2. alarm > 0 /\ \A e \in timers_ : alarm <= Larger(e[1] - now, MinDelay)
      BY <2>2, <3>1, Zenon DEF ArmedInv, TimerfdArmed
    <3>3. alarm <= Larger(w - now, MinDelay)
      BY <1>1, <2>2, <3>2 DEF Larger
    <3> QED
      BY <1>2, <3>2, <3>3
  <2>4. ZeroArmed'
    <3>1. ASSUME NEW e \in timers_', e[1] = 0 PROVE \E f \in timers_ : f[1] = 0
      BY <1>1, <1>2, <2>2, <3>1
    <3> QED
      BY <2>1, <3>1, Zenon DEF ArmedInv, ZeroArmed
  <2> QED
    BY <1>1, <2>1, <2>3, <2>4, Zenon DEF ArmedInv
<1> QED
  BY <1>3, <1>4, Zenon
\* cancelInLoop() only takes timers away.
LEMMA FewerArmed ==
  ASSUME ArmedInv, timers_' \subseteq timers_,
         UNCHANGED <<callingExpiredTimers_, active, now, alarm, ticks>>
  PROVE  ArmedInv'
<1>1. TimerfdArmed'
  BY Zenon DEF ArmedInv, TimerfdArmed
<1>2. ZeroArmed'
  BY Zenon DEF ArmedInv, ZeroArmed
<1> QED
  BY <1>1, <1>2, Zenon DEF ArmedInv

LEMMA CancelFewer ==
  ASSUME NEW id, CancelInLoop(id) PROVE timers_' \subseteq timers_
  BY Zenon DEF CancelInLoop, CancelActive, CancelCalled, CancelNothing, queue

\* Time: the delay of the timerfd and the one the first timer needs shrink together.
LEMMA TickArms ==
  ASSUME IInv, ArmedInv, Tick PROVE ArmedInv'
<1>1. /\ now \in Nat /\ alarm \in Nat /\ MinDelay \in Nat /\ MinDelay > 0
      /\ ticks \in BOOLEAN /\ active \in BOOLEAN
      /\ \A e \in timers_ : e[1] \in Nat
  BY TimerAssumption DEF IInv, TypeInv, ArmedInv
<1>2. /\ UNCHANGED <<timers_, callingExpiredTimers_, active>>
      /\ now' \in Nat /\ now' <= now + 1
      /\ ticks' = (ticks \/ alarm = 1)
  BY <1>1 DEF Tick, queue, batch
<1>3. alarm' = IF alarm = 0 THEN 0 ELSE alarm - 1
  BY <1>1 DEF Tick, Larger
<1>4. alarm' \in Nat /\ ticks' \in BOOLEAN
  BY <1>1, <1>2, <1>3
<1>5. TimerfdArmed'
  <2>1. SUFFICES ASSUME timers_ # {}, ~callingExpiredTimers_, ~ticks, alarm # 1, ~active
                 PROVE  /\ alarm' > 0
                        /\ \A e \in timers_ : alarm' <= Larger(e[1] - now', MinDelay)
    BY <1>2, Zenon DEF TimerfdArmed
  <2>2. alarm > 0 /\ \A e \in timers_ : alarm <= Larger(e[1] - now, MinDelay)
    BY <2>1, Zenon DEF ArmedInv, TimerfdArmed
  <2>3. alarm' = alarm - 1 /\ alarm' > 0
    BY <1>1, <1>3, <2>1, <2>2
  <2>4. ASSUME NEW e \in timers_ PROVE alarm' <= Larger(e[1] - now', MinDelay)
    <3>1. e[1] \in Nat /\ alarm <= Larger(e[1] - now, MinDelay)
      BY <1>1, <2>2, Zenon
    <3> QED
      BY <1>1, <1>2, <2>3, <3>1 DEF Larger
  <2> QED
    BY <2>3, <2>4, Zenon
<1>6. ZeroArmed'
  <2>1. SUFFICES ASSUME callingExpiredTimers_, NEW e \in timers_, e[1] = 0
                 PROVE  ticks' \/ (alarm' > 0 /\ alarm' <= MinDelay)
    BY <1>2, Zenon DEF ZeroArmed
  <2>2. ticks \/ (alarm > 0 /\ alarm <= MinDelay)
    BY <2>1, Zenon DEF ArmedInv, ZeroArmed
  <2>3. CASE ticks \/ alarm = 1
    BY <1>2, <2>3, Zenon
  <2>4. CASE alarm # 1 /\ alarm > 0 /\ alarm <= MinDelay
    <3>1. alarm' > 0 /\ alarm' <= MinDelay
      BY <1>1, <1>3, <2>4
    <3> QED
      BY <3>1, Zenon
  <2> QED
    BY <2>2, <2>3, <2>4, Zenon
<1> QED
  BY <1>1, <1>2, <1>4, <1>5, <1>6, Zenon DEF ArmedInv

\* The clock set back leaves a timer more time than the timerfd gives it.
LEMMA ClockSetBackArms ==
  ASSUME IInv, ArmedInv, ClockSetBack PROVE ArmedInv'
<1>1. /\ now \in Nat /\ alarm \in Nat /\ MinDelay \in Nat /\ \A e \in timers_ : e[1] \in Nat
  BY TimerAssumption, Zenon DEF IInv, TypeInv, ArmedInv
<1>2. UNCHANGED <<timers_, callingExpiredTimers_, active, alarm, ticks>> /\ now' = now - 1
  BY Zenon DEF ClockSetBack, queue, batch, timerfd
<1>3. \A e \in timers_ : alarm <= Larger(e[1] - now, MinDelay) => alarm <= Larger(e[1] - now', MinDelay)
  BY <1>1, <1>2 DEF Larger
<1>4. TimerfdArmed'
  BY <1>2, <1>3, Zenon DEF ArmedInv, TimerfdArmed
<1>5. ZeroArmed'
  BY <1>2, Zenon DEF ArmedInv, ZeroArmed
<1> QED
  BY <1>2, <1>4, <1>5, Zenon DEF ArmedInv

\* handleRead(): getExpired() leaves no timer of time 0.
LEMMA HandleReadArms ==
  ASSUME IInv, ArmedInv, HandleRead PROVE ArmedInv'
<1>1. now \in Nat /\ \A e \in timers_ : e[1] \in Nat
  BY Zenon DEF IInv, TypeInv
<1>2. /\ timers_' = timers_ \ {e \in timers_ : e[1] <= now}
      /\ callingExpiredTimers_' = TRUE /\ active' = FALSE /\ ticks' = FALSE /\ alarm' = alarm
  BY Zenon DEF HandleRead
<1>3. \A e \in timers_' : e[1] # 0
  BY <1>1, <1>2
<1> QED
  BY <1>2, <1>3, Zenon DEF ArmedInv, TimerfdArmed, ZeroArmed

\* The end of handleRead(): reset() sets the timerfd to the first timer.
LEMMA HandleReadEndsArms ==
  ASSUME IInv, PolledInv, ArmedInv, HandleReadEnds, IInv' PROVE ArmedInv'
<1>1. /\ now \in Nat /\ alarm \in Nat /\ MinDelay \in Nat /\ MinDelay > 0
      /\ ticks \in BOOLEAN /\ active \in BOOLEAN
  BY TimerAssumption DEF IInv, TypeInv, ArmedInv
<1>2. /\ callingExpiredTimers_ /\ callingExpiredTimers_' = FALSE
      /\ UNCHANGED <<active, now>>
      /\ timers_' = timers_ \cup {<<heap'[b].expiration, b>> : b \in Restarted}
  BY Zenon DEF HandleReadEnds, Reset
<1>3. timers_' \subseteq Nat \X Addrs /\ \A e \in timers_' : e[1] \in Nat
  BY Zenon DEF IInv, TypeInv
<1>4. ASSUME timers_' # {} PROVE ArmedInv'
  <2> DEFINE first == First(timers_')
  <2>1. first \in timers_' /\ \A e \in timers_' : first[1] <= e[1]
    BY <1>3, <1>4, FirstEntry, Zenon
  <2>2. IF first[1] > 0 THEN ResetTimerfd(first[1]) ELSE UNCHANGED timerfd
    BY <1>4, Zenon DEF HandleReadEnds, Rearm, First
  <2> HIDE DEF first
  <2>3. CASE first[1] > 0
    <3>1. alarm' = Larger(first[1] - now, MinDelay) /\ ticks' = FALSE
      BY <2>2, <2>3, Zenon DEF ResetTimerfd
    <3>2. alarm' \in Nat /\ alarm' > 0
      BY <1>1, <1>3, <2>1, <3>1 DEF Larger
    <3>3. \A e \in timers_' : alarm' <= Larger(e[1] - now, MinDelay)
      BY <1>1, <1>3, <2>1, <3>1 DEF Larger
    <3> QED
      BY <1>1, <1>2, <3>1, <3>2, <3>3, Zenon DEF ArmedInv, TimerfdArmed, ZeroArmed
  <2>4. CASE ~(first[1] > 0)
    <3>1. UNCHANGED <<alarm, ticks>> /\ first[1] = 0
      BY <1>3, <2>1, <2>2, <2>4 DEF timerfd
    <3>2. first \in timers_
      <4>1. ASSUME NEW b \in Restarted, first = <<heap'[b].expiration, b>> PROVE FALSE
        <5>1. /\ b \in Addrs /\ heap[b].interval > 0 /\ heap[b].interval \in Nat /\ batchNow \in Nat
              /\ heap[b] \in Timer
          BY DEF Restarted, Again, Addresses, IInv, TypeInv, Timer
        <5>2. heap'[b] = [heap[b] EXCEPT !.expiration = batchNow + heap[b].interval]
          BY <5>1, Zenon DEF HandleReadEnds, Reset
        <5>3. heap'[b].expiration = batchNow + heap[b].interval
          BY <5>1, <5>2, Zenon DEF Timer
        <5> QED
          BY <3>1, <4>1, <5>1, <5>3
      <4> QED
        BY <1>2, <2>1, <4>1, Zenon
    <3>3. ticks \/ (alarm > 0 /\ alarm <= MinDelay)
      BY <1>2, <3>1, <3>2, Zenon DEF ArmedInv, ZeroArmed
    <3>4. \A e \in timers_' : MinDelay <= Larger(e[1] - now, MinDelay) /\ Larger(e[1] - now, MinDelay) \in Int
      BY <1>1, <1>3 DEF Larger
    <3>5. alarm <= MinDelay => \A e \in timers_' : alarm <= Larger(e[1] - now, MinDelay)
      BY <1>1, <3>4
    <3> QED
      BY <1>1, <1>2, <3>1, <3>3, <3>5, Zenon DEF ArmedInv, TimerfdArmed, ZeroArmed
  <2> QED
    BY <2>3, <2>4, Zenon
<1>5. ASSUME timers_' = {} PROVE ArmedInv'
  <2>1. UNCHANGED timerfd
    BY <1>5, Zenon DEF HandleReadEnds, Rearm
  <2> QED
    BY <1>1, <1>2, <1>5, <2>1, Zenon DEF timerfd, ArmedInv, TimerfdArmed, ZeroArmed
<1> QED
  BY <1>4, <1>5, Zenon

LEMMA NextArms ==
  ASSUME IInv, PolledInv, ArmedInv, [Next]_vars PROVE ArmedInv'
<1>1. CASE OwnCall
  <2>1. ASSUME NEW a \in Addrs, NEW w \in Whens, NEW i \in Intervals, AddTimerInOwnLoop(a, w, i)
        PROVE  ArmedInv'
    <3>1. heap' = [heap EXCEPT ![a] = [sequence |-> numCreated + 1, expiration |-> w, interval |-> i]]
      BY <2>1, Zenon DEF AddTimerInOwnLoop, NewTimer
    <3>2. heap'[a] \in Timer
      BY <3>1, TimerAssumption DEF IInv, TypeInv, Timer
    <3> QED
      BY <2>1, <3>2, AddArms, Zenon DEF AddTimerInOwnLoop, batch
  <2>2. ASSUME NEW id, CancelInOwnLoop(id) PROVE ArmedInv'
    BY <2>2, CancelFewer, FewerArmed, Zenon DEF CancelInOwnLoop, batch, timerfd
  <2> QED
    BY <1>1, <2>1, <2>2, Zenon DEF OwnCall
<1>2. CASE \E t \in Threads : ThreadCall(t) \/ ReturnTimerId(t)
  BY <1>2, FewerArmed, Zenon DEF ThreadCall, AddTimer, Cancel, ReturnTimerId, queue, batch, timerfd
<1>3. CASE RunFunctor
  <2> DEFINE f == Head(functors)
  <2>1. f \in Functor
    BY <1>3 DEF RunFunctor, IInv, TypeInv
  <2>2. f.id[1] \in Addrs /\ heap[f.id[1]] \in Timer
    BY <2>1, Zenon DEF Functor, IInv, TypeInv
  <2>3. UNCHANGED <<callingExpiredTimers_, active, now>>
    BY <1>3, Zenon DEF RunFunctor, batch
  <2>4. \/ AddTimerInLoop(f.id[1], heap[f.id[1]])
        \/ CancelInLoop(f.id) /\ UNCHANGED timerfd
    BY <1>3, Zenon DEF RunFunctor
  <2> HIDE DEF f
  <2> QED
    BY <2>2, <2>3, <2>4, AddArms, CancelFewer, FewerArmed, Zenon DEF timerfd
<1>4. CASE Poll
  BY <1>4, Zenon DEF Poll, ArmedInv, TimerfdArmed, ZeroArmed, queue, batch, timerfd
<1>5. CASE HandleRead
  BY <1>5, HandleReadArms, Zenon
<1>6. CASE HandleReadEnds
  BY <1>6, HandleReadEndsArms, HandleReadEndsKeeps, Zenon
<1>7. CASE CallbackReturns \/ UNCHANGED vars
  BY <1>7, FewerArmed, Zenon DEF CallbackReturns, vars, queue, batch, timerfd
<1>8. CASE Tick \/ ClockSetBack
  BY <1>8, TickArms, ClockSetBackArms, Zenon
<1> QED
  BY <1>1, <1>2, <1>3, <1>4, <1>5, <1>6, <1>7, <1>8, Zenon DEF Next, LoopStep

\* Whenever a timer is waiting outside handleRead(), the timerfd is armed no later
\* than the first one needs, or its expiration is about to be handled: with the clock
\* set back, timers cancelled and added in their callbacks, and expirations in the past.
THEOREM TimerfdStaysArmed == Spec => []TimerfdArmed
<1>1. Init => ArmedInv
  <2>1. Init => alarm \in Nat
    BY DEF Init
  <2>2. Init => ticks \in BOOLEAN /\ active \in BOOLEAN /\ TimerfdArmed /\ ZeroArmed
    BY Zenon DEF Init, TimerfdArmed, ZeroArmed
  <2> QED
    BY <2>1, <2>2, Zenon DEF ArmedInv
<1>2. IInv /\ PolledInv /\ ArmedInv /\ [Next]_vars => ArmedInv'
  BY NextArms, Zenon
<1>3. ArmedInv => TimerfdArmed
  BY Zenon DEF ArmedInv
<1> QED
  BY InitInv, NextInv, <1>1, <1>2, <1>3, PTL DEF Spec
=============================================================================
