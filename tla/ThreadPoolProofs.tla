-------------------------- MODULE ThreadPoolProofs --------------------------
(***************************************************************************)
(* Theorems about ThreadPool, for any callers, tasks, numbers of threads   *)
(* and queue sizes: a task is in one place at a time, no signal of the two *)
(* conditions is lost, and stop() reaches every thread.                    *)
(***************************************************************************)
EXTENDS ThreadPool, FiniteSetTheorems, TLAPS

-----------------------------------------------------------------------------
(* The inductive invariant.                                                *)

MaybeTask == Task \cup {NoTask}

\* Types, threads that start() has not created, and that a task is held where it
\* should be: by a worker in task(), by a caller that is blocked in run().
TypeInv ==
  /\ maxQueueSize \in Nat /\ threads \in Nat /\ toStart \in Nat
  /\ owner = "new" => threads = 0
  /\ owner = "starting" => toStart > 0 /\ threads + toStart <= MaxThreads
  /\ queue \in Seq(Task) /\ sent \subseteq Task /\ ran \subseteq Task
  /\ wpc \in [Worker -> {"none", "loop", "take", "waiting", "woken", "run", "done"}]
  /\ cpc \in [Caller -> {"idle", "waiting", "woken"}]
  /\ wtask \in [Worker -> MaybeTask] /\ ctask \in [Caller -> MaybeTask]
  /\ \A w \in Worker : wpc[w] = "run" <=> wtask[w] # NoTask
  /\ \A c \in Caller : cpc[c] = "idle" <=> ctask[c] = NoTask
  /\ \A w \in Worker : w > threads => wpc[w] = "none"

\* OnePlace without counting: no place holds a task twice, no two places hold the
\* same, and the places together hold what was sent.
Apart(ct, q, wt, rn) ==
  /\ \A c, d \in Caller : c # d /\ ct[c] # NoTask => ct[c] # ct[d]
  /\ \A i, j \in 1 .. Len(q) : i # j => q[i] # q[j]
  /\ \A w, v \in Worker : w # v /\ wt[w] # NoTask => wt[w] # wt[v]
  /\ \A c \in Caller, w \in Worker : ct[c] # NoTask => ct[c] # wt[w]
  /\ \A i \in 1 .. Len(q) :
       q[i] \notin rn /\ (\A c \in Caller : ct[c] # q[i]) /\ (\A w \in Worker : wt[w] # q[i])
  /\ \A c \in Caller : ct[c] \notin rn
  /\ \A w \in Worker : wt[w] \notin rn

Held(t, ct, q, wt, rn) ==
  \/ \E c \in Caller : ct[c] = t
  \/ \E i \in 1 .. Len(q) : q[i] = t
  \/ \E w \in Worker : wt[w] = t
  \/ t \in rn

PlaceInv ==
  /\ Apart(ctask, queue, wtask, ran)
  /\ \A t \in Task : t \in sent <=> Held(t, ctask, queue, wtask, ran)

\* SignalsReach, with the finiteness that makes its counts numbers.
SignalInv ==
  /\ IsFiniteSet(Woken(wpc)) /\ IsFiniteSet(Woken(cpc))
  /\ SignalsReach

-----------------------------------------------------------------------------
(* One lemma for each way a task moves.                                    *)

\* A task that was not sent is nowhere.
LEMMA Fresh ==
  ASSUME TypeInv, PlaceInv, NEW t \in Task, t \notin sent
  PROVE  /\ \A c \in Caller : ctask[c] # t
         /\ \A i \in 1 .. Len(queue) : queue[i] # t
         /\ \A w \in Worker : wtask[w] # t
         /\ t \notin ran
  BY DEF PlaceInv, Held

\* run() in the caller's thread.
LEMMA InlineKeeps ==
  ASSUME TypeInv, PlaceInv, NEW t \in Task, t \notin sent,
         sent' = sent \cup {t}, ran' = ran \cup {t}, UNCHANGED <<ctask, queue, wtask>>
  PROVE  PlaceInv'
<1>1. Apart(ctask, queue, wtask, ran')
  BY Fresh DEF PlaceInv, Apart
<1>2. \A u \in Task : u \in sent' <=> Held(u, ctask, queue, wtask, ran')
  BY DEF PlaceInv, Held
<1> QED
  BY <1>1, <1>2 DEF PlaceInv

\* run() that has to wait for a place in the queue.
LEMMA BlockKeeps ==
  ASSUME TypeInv, PlaceInv, NEW t \in Task, t \notin sent, NEW c \in Caller, ctask[c] = NoTask,
         sent' = sent \cup {t}, ctask' = [ctask EXCEPT ![c] = t], UNCHANGED <<queue, wtask, ran>>
  PROVE  PlaceInv'
<1>1. \A d \in Caller : ctask'[d] = IF d = c THEN t ELSE ctask[d]
  BY DEF TypeInv
<1>2. Apart(ctask', queue, wtask, ran)
  BY <1>1, Fresh DEF PlaceInv, Apart
<1>3. \A u \in Task : u \in sent' <=> Held(u, ctask', queue, wtask, ran)
  BY <1>1, ThreadPoolAssumption DEF PlaceInv, Held
<1> QED
  BY <1>2, <1>3, Zenon DEF PlaceInv

\* A task at the end of the queue.
LEMMA Appended ==
  ASSUME TypeInv, NEW t \in Task, queue' = Append(queue, t)
  PROVE  /\ queue' \in Seq(Task) /\ Len(queue) \in Nat /\ Len(queue') = Len(queue) + 1
         /\ \A i \in 1 .. Len(queue') :
              queue'[i] = IF i = Len(queue) + 1 THEN t ELSE queue[i]
         /\ \A i \in 1 .. Len(queue') : i \in 1 .. Len(queue) \/ i = Len(queue) + 1
         /\ \A i \in 1 .. Len(queue) : i \in 1 .. Len(queue') /\ i # Len(queue) + 1
         /\ Len(queue) + 1 \in 1 .. Len(queue')
<1>1. queue \in Seq(Task) /\ Len(queue) \in Nat
  BY DEF TypeInv
<1>2. queue' \in Seq(Task) /\ Len(queue') = Len(queue) + 1
  BY <1>1
<1>3. \A i \in 1 .. Len(queue') : queue'[i] = IF i = Len(queue) + 1 THEN t ELSE queue[i]
  BY <1>1, <1>2
<1> QED
  BY <1>1, <1>2, <1>3

\* run() that finds a place in the queue.
LEMMA PushKeeps ==
  ASSUME TypeInv, PlaceInv, NEW t \in Task, t \notin sent,
         sent' = sent \cup {t}, queue' = Append(queue, t), UNCHANGED <<ctask, wtask, ran>>
  PROVE  PlaceInv'
<1>1. Apart(ctask, queue', wtask, ran)
  BY Appended, Fresh DEF PlaceInv, Apart
<1>2. \A u \in Task : u \in sent' <=> Held(u, ctask, queue', wtask, ran)
  BY Appended DEF PlaceInv, Held
<1> QED
  BY <1>1, <1>2 DEF PlaceInv

\* run() that finds a place after it had to wait.
LEMMA UnblockKeeps ==
  ASSUME TypeInv, PlaceInv, NEW c \in Caller, ctask[c] # NoTask,
         queue' = Append(queue, ctask[c]), ctask' = [ctask EXCEPT ![c] = NoTask],
         UNCHANGED <<wtask, ran, sent>>
  PROVE  PlaceInv'
<1>1. ctask[c] \in Task
  BY DEF TypeInv, MaybeTask
<1>2. \A d \in Caller : ctask'[d] = IF d = c THEN NoTask ELSE ctask[d]
  BY DEF TypeInv
<1>3. NoTask \notin ran /\ \A i \in 1 .. Len(queue') : queue'[i] # NoTask
  BY <1>1, ThreadPoolAssumption, Appended DEF TypeInv
<1>4. Apart(ctask', queue', wtask, ran)
  BY <1>1, <1>2, <1>3, Appended DEF PlaceInv, Apart
<1>5. \A u \in Task : u \in sent <=> Held(u, ctask', queue', wtask, ran)
  BY <1>1, <1>2, Appended, ThreadPoolAssumption DEF PlaceInv, Held
<1> QED
  BY <1>4, <1>5, Zenon DEF PlaceInv

\* The queue without its front.
LEMMA Popped ==
  ASSUME TypeInv, queue # <<>>, queue' = Tail(queue)
  PROVE  /\ Head(queue) = queue[1] /\ queue[1] \in Task /\ 1 \in 1 .. Len(queue)
         /\ queue' \in Seq(Task) /\ Len(queue) \in Nat /\ Len(queue') = Len(queue) - 1
         /\ \A i \in 1 .. Len(queue') :
              i + 1 \in 1 .. Len(queue) /\ i + 1 # 1 /\ queue'[i] = queue[i + 1]
         /\ \A i \in 1 .. Len(queue) : i = 1 \/ (i - 1 \in 1 .. Len(queue') /\ queue'[i - 1] = queue[i])
<1>1. queue \in Seq(Task) /\ Len(queue) \in Nat \ {0}
  BY DEF TypeInv
<1>2. Head(queue) = queue[1] /\ queue[1] \in Task /\ 1 \in 1 .. Len(queue)
  BY <1>1
<1>3. queue' \in Seq(Task) /\ Len(queue') = Len(queue) - 1
  BY <1>1
<1>4. \A i \in 1 .. Len(queue') : i + 1 \in 1 .. Len(queue) /\ i + 1 # 1 /\ queue'[i] = queue[i + 1]
  BY <1>1, <1>3
<1>5. ASSUME NEW i \in 1 .. Len(queue), i # 1
      PROVE  i - 1 \in 1 .. Len(queue') /\ queue'[i - 1] = queue[i]
  <2>1. i - 1 \in 1 .. Len(queue') /\ (i - 1) + 1 = i
    BY <1>1, <1>3, <1>5
  <2> QED
    BY <1>4, <2>1
<1> QED
  BY <1>1, <1>2, <1>3, <1>4, <1>5

\* take().
LEMMA TakeKeeps ==
  ASSUME TypeInv, PlaceInv, NEW w \in Worker, wtask[w] = NoTask, queue # <<>>,
         wtask' = [wtask EXCEPT ![w] = Head(queue)], queue' = Tail(queue),
         UNCHANGED <<ctask, ran, sent>>
  PROVE  PlaceInv'
<1>1. \A v \in Worker : wtask'[v] = IF v = w THEN queue[1] ELSE wtask[v]
  BY Popped DEF TypeInv
<1>2. \A i \in 1 .. Len(queue') : queue'[i] # queue[1]
  BY Popped DEF PlaceInv, Apart
<1>3. \A i, j \in 1 .. Len(queue') : i # j => queue'[i] # queue'[j]
  <2>1. TAKE i, j \in 1 .. Len(queue')
  <2>2. HAVE i # j
  <2>3. i + 1 # j + 1
    BY <2>2
  <2> QED
    BY <2>3, Popped DEF PlaceInv, Apart
<1>4. \A i \in 1 .. Len(queue') :
        queue'[i] \notin ran /\ (\A c \in Caller : ctask[c] # queue'[i])
        /\ (\A v \in Worker : wtask[v] # queue'[i])
  BY Popped DEF PlaceInv, Apart
<1>5. Apart(ctask, queue', wtask', ran)
  BY <1>1, <1>2, <1>3, <1>4, Popped DEF PlaceInv, Apart
<1>6. ASSUME NEW u \in Task PROVE u \in sent <=> Held(u, ctask, queue', wtask', ran)
  <2>1. (\E i \in 1 .. Len(queue) : queue[i] = u)
          <=> u = queue[1] \/ \E i \in 1 .. Len(queue') : queue'[i] = u
    <3>1. ASSUME NEW i \in 1 .. Len(queue), queue[i] = u
          PROVE  u = queue[1] \/ \E j \in 1 .. Len(queue') : queue'[j] = u
      BY <3>1, Popped
    <3>2. ASSUME NEW i \in 1 .. Len(queue'), queue'[i] = u
          PROVE  \E j \in 1 .. Len(queue) : queue[j] = u
      BY <3>2, Popped
    <3>3. 1 \in 1 .. Len(queue)
      BY Popped
    <3> QED
      BY <3>1, <3>2, <3>3
  <2>2. (\E v \in Worker : wtask'[v] = u) <=> u = queue[1] \/ \E v \in Worker : wtask[v] = u
    BY <1>1, ThreadPoolAssumption
  <2> QED
    BY <2>1, <2>2 DEF PlaceInv, Held
<1> QED
  BY <1>5, <1>6, Zenon DEF PlaceInv

\* task().
LEMMA RunTaskKeeps ==
  ASSUME TypeInv, PlaceInv, NEW w \in Worker, wtask[w] # NoTask,
         ran' = ran \cup {wtask[w]}, wtask' = [wtask EXCEPT ![w] = NoTask],
         UNCHANGED <<ctask, queue, sent>>
  PROVE  PlaceInv'
<1>1. \A v \in Worker : wtask'[v] = IF v = w THEN NoTask ELSE wtask[v]
  BY DEF TypeInv
<1>2. NoTask \notin ran' /\ \A i \in 1 .. Len(queue) : queue[i] # NoTask
  BY ThreadPoolAssumption DEF TypeInv
<1>3. Apart(ctask, queue, wtask', ran')
  BY <1>1, <1>2 DEF PlaceInv, Apart
<1>4. \A u \in Task : u \in sent <=> Held(u, ctask, queue, wtask', ran')
  BY <1>1, ThreadPoolAssumption DEF PlaceInv, Held
<1> QED
  BY <1>3, <1>4, Zenon DEF PlaceInv

-----------------------------------------------------------------------------
(* The conditions.                                                         *)

\* The thread s moves, the others stay.
Moves(S, pc, q, s) ==
  /\ s \in S /\ S = DOMAIN pc /\ S = DOMAIN q /\ IsFiniteSet(Woken(pc))
  /\ \A r \in S : r # s => q[r] = pc[r]

\* What a move does to the threads that were woken and those that wait.
LEMMA MoveCounts ==
  ASSUME NEW S, NEW pc, NEW q, NEW s, Moves(S, pc, q, s)
  PROVE  /\ IsFiniteSet(Woken(q))
         /\ Cardinality(Woken(pc)) \in Nat /\ Cardinality(Woken(q)) \in Nat
         /\ Cardinality(Woken(q)) >= Cardinality(Woken(pc)) - 1
         /\ pc[s] # "woken" => Cardinality(Woken(q)) >= Cardinality(Woken(pc))
         /\ pc[s] # "woken" /\ q[s] = "woken" =>
              Cardinality(Woken(q)) = Cardinality(Woken(pc)) + 1
         /\ q[s] # "waiting" => Waiting(q) \subseteq Waiting(pc)
<1> DEFINE rest == Woken(pc) \ {s}
<1>1. Woken(q) = IF q[s] = "woken" THEN rest \cup {s} ELSE rest
  BY DEF Woken, Moves
<1>2. q[s] # "waiting" => Waiting(q) \subseteq Waiting(pc)
  BY DEF Waiting, Moves
<1>3. /\ IsFiniteSet(rest) /\ Cardinality(Woken(pc)) \in Nat /\ Cardinality(rest) \in Nat
      /\ Cardinality(rest) = IF s \in Woken(pc) THEN Cardinality(Woken(pc)) - 1
                             ELSE Cardinality(Woken(pc))
  BY FS_RemoveElement, FS_CardinalityType DEF Moves
<1>4. IsFiniteSet(rest \cup {s}) /\ Cardinality(rest \cup {s}) = Cardinality(rest) + 1
  <2>1. s \notin rest
    OBVIOUS
  <2> HIDE DEF rest
  <2> QED
    BY <1>3, <2>1, FS_AddElement
<1>5. s \in Woken(pc) <=> pc[s] = "woken"
  BY DEF Woken, Moves
<1> HIDE DEF rest
<1>6. /\ IsFiniteSet(Woken(q)) /\ Cardinality(Woken(q)) \in Nat
      /\ Cardinality(Woken(q)) >= Cardinality(Woken(pc)) - 1
      /\ pc[s] # "woken" => Cardinality(Woken(q)) >= Cardinality(Woken(pc))
      /\ pc[s] # "woken" /\ q[s] = "woken" =>
           Cardinality(Woken(q)) = Cardinality(Woken(pc)) + 1
  BY <1>1, <1>3, <1>4, <1>5
<1> QED
  BY <1>2, <1>3, <1>6

\* The promise of a condition: while a thread waits, those that were woken and
\* have not looked yet are enough for the n reasons to wake.
Reach(pc, n) == Waiting(pc) # {} => n <= Cardinality(Woken(pc))

\* notify(): one of the threads that wait, if any, is woken, which makes up for one
\* more reason.
LEMMA NotifyReaches ==
  ASSUME NEW pc, NEW q \in Notified(pc), IsFiniteSet(Woken(pc)),
         NEW n \in Int, NEW m \in Int, Reach(pc, n), m <= n + 1
  PROVE  /\ DOMAIN q = DOMAIN pc /\ IsFiniteSet(Woken(q)) /\ Reach(q, m)
         /\ \A s \in DOMAIN pc : q[s] = pc[s] \/ (pc[s] = "waiting" /\ q[s] = "woken")
<1>1. CASE Waiting(pc) = {}
  BY <1>1 DEF Notified, Reach
<1>2. CASE Waiting(pc) # {}
  <2>1. PICK s \in Waiting(pc) : q = [pc EXCEPT ![s] = "woken"]
    BY <1>2 DEF Notified
  <2>2. s \in DOMAIN pc /\ pc[s] = "waiting"
    BY DEF Waiting
  <2>3. DOMAIN q = DOMAIN pc /\ \A r \in DOMAIN pc : q[r] = IF r = s THEN "woken" ELSE pc[r]
    BY <2>1
  <2>4. Moves(DOMAIN pc, pc, q, s) /\ q[s] = "woken"
    BY <2>2, <2>3 DEF Moves
  <2>5. /\ IsFiniteSet(Woken(q)) /\ Cardinality(Woken(pc)) \in Nat
        /\ Cardinality(Woken(q)) = Cardinality(Woken(pc)) + 1
    BY <2>2, <2>4, MoveCounts
  <2>6. Reach(q, m)
    BY <1>2, <2>5 DEF Reach
  <2> QED
    BY <2>2, <2>3, <2>5, <2>6
<1> QED
  BY <1>1, <1>2

\* A thread that looks, and goes on, uses up one reason if it was woken.
LEMMA LookReaches ==
  ASSUME NEW S, NEW pc, NEW q, NEW s, Moves(S, pc, q, s), q[s] # "waiting",
         NEW n \in Int, NEW m \in Int, Reach(pc, n),
         m <= n, pc[s] = "woken" => m <= n - 1
  PROVE  Reach(q, m)
<1>1. SUFFICES ASSUME Waiting(q) # {} PROVE m <= Cardinality(Woken(q))
  BY DEF Reach
<1>2. /\ Cardinality(Woken(pc)) \in Nat /\ Cardinality(Woken(q)) \in Nat
      /\ Cardinality(Woken(q)) >= Cardinality(Woken(pc)) - 1
      /\ pc[s] # "woken" => Cardinality(Woken(q)) >= Cardinality(Woken(pc))
      /\ Waiting(q) \subseteq Waiting(pc)
  BY MoveCounts
<1>3. n <= Cardinality(Woken(pc))
  BY <1>1, <1>2 DEF Reach
<1> QED
  BY <1>2, <1>3

\* A thread waits only when there is no reason to be woken.
LEMMA WaitReaches ==
  ASSUME NEW S, NEW pc, NEW q, NEW s, Moves(S, pc, q, s), NEW m \in Int, m <= 0
  PROVE  Reach(q, m)
<1>1. Cardinality(Woken(q)) \in Nat
  BY MoveCounts
<1> QED
  BY <1>1 DEF Reach

\* notify() keeps the type.
LEMMA NotifyTypes ==
  ASSUME NEW S, NEW P, NEW pc \in [S -> P], "woken" \in P, NEW q \in Notified(pc)
  PROVE  q \in [S -> P]
  BY DEF Notified, Waiting

-----------------------------------------------------------------------------
(* The steps.                                                              *)

WorkerPlaces == {"none", "loop", "take", "waiting", "woken", "run", "done"}

\* The conjuncts of TypeInv about workers, for a step that leaves wtask alone: no
\* worker enters or leaves task().
LEMMA WorkerTypes ==
  ASSUME TypeInv, wpc' \in [Worker -> WorkerPlaces],
         \A w \in Worker : wpc'[w] = "run" <=> wpc[w] = "run",
         \A w \in Worker : w > threads' => wpc'[w] = "none", wtask' = wtask
  PROVE  /\ wpc' \in [Worker -> {"none", "loop", "take", "waiting", "woken", "run", "done"}]
         /\ wtask' \in [Worker -> MaybeTask]
         /\ \A w \in Worker : wpc'[w] = "run" <=> wtask'[w] # NoTask
         /\ \A w \in Worker : w > threads' => wpc'[w] = "none"
  BY DEF TypeInv, WorkerPlaces

\* The critical section of run().
LEMMA EnqueueKeeps ==
  ASSUME TypeInv, SignalInv, NEW c \in Caller, NEW t \in Task, cpc[c] \in {"idle", "woken"},
         Enqueue(c, t), UNCHANGED <<poolVars, wtask, ran>>, sent' \subseteq Task
  PROVE  TypeInv' /\ SignalInv'
<1> DEFINE n == Len(queue)
           free == maxQueueSize - n
<1>1. n \in Nat /\ maxQueueSize \in Nat /\ free \in Int
  BY DEF TypeInv
<1>2. /\ IsFiniteSet(Woken(wpc)) /\ IsFiniteSet(Woken(cpc))
      /\ Reach(wpc, n) /\ Reach(cpc, free) /\ (maxQueueSize > 0 => n <= maxQueueSize)
  BY DEF SignalInv, SignalsReach, Reach
<1>3. cpc \in [Caller -> {"idle", "waiting", "woken"}] /\ ctask \in [Caller -> MaybeTask]
      /\ wpc \in [Worker -> WorkerPlaces] /\ queue \in Seq(Task) /\ t # NoTask
  BY ThreadPoolAssumption DEF TypeInv, WorkerPlaces
<1>4. UNCHANGED <<maxQueueSize, running, threads, owner, toStart, wtask, ran>>
  BY DEF poolVars
<1>5. CASE IsFull
  <2>1. /\ cpc' = [cpc EXCEPT ![c] = "waiting"] /\ ctask' = [ctask EXCEPT ![c] = t]
        /\ queue' = queue /\ wpc' = wpc
    BY <1>5 DEF Enqueue
  <2>2. /\ cpc' \in [Caller -> {"idle", "waiting", "woken"}] /\ ctask' \in [Caller -> MaybeTask]
        /\ \A d \in Caller : cpc'[d] = IF d = c THEN "waiting" ELSE cpc[d]
        /\ \A d \in Caller : ctask'[d] = IF d = c THEN t ELSE ctask[d]
    BY <1>3, <2>1 DEF MaybeTask
  <2>3. TypeInv'
    BY <1>3, <1>4, <2>1, <2>2 DEF TypeInv
  <2>4. Moves(Caller, cpc, cpc', c)
    BY <1>2, <1>3, <2>2 DEF Moves
  <2>5. free <= 0
    BY <1>1, <1>5 DEF IsFull
  <2>6. Reach(cpc', free) /\ IsFiniteSet(Woken(cpc'))
    <3> HIDE DEF free
    <3> QED
      BY <1>1, <2>4, <2>5, WaitReaches, MoveCounts
  <2> QED
    BY <1>2, <1>4, <2>1, <2>3, <2>6, Zenon DEF SignalInv, SignalsReach, Reach
<1>6. CASE ~IsFull
  <2>1. /\ cpc' = [cpc EXCEPT ![c] = "idle"] /\ ctask' = [ctask EXCEPT ![c] = NoTask]
        /\ queue' = Append(queue, t) /\ wpc' \in Notified(wpc)
    BY <1>6 DEF Enqueue
  <2>2. /\ cpc' \in [Caller -> {"idle", "waiting", "woken"}] /\ ctask' \in [Caller -> MaybeTask]
        /\ \A d \in Caller : cpc'[d] = IF d = c THEN "idle" ELSE cpc[d]
        /\ \A d \in Caller : ctask'[d] = IF d = c THEN NoTask ELSE ctask[d]
    BY <1>3, <2>1 DEF MaybeTask
  <2>3. queue' \in Seq(Task) /\ Len(queue') = n + 1
    BY <2>1, Appended
  <2>4. /\ IsFiniteSet(Woken(wpc')) /\ Reach(wpc', n + 1)
        /\ \A w \in Worker : wpc'[w] = wpc[w] \/ (wpc[w] = "waiting" /\ wpc'[w] = "woken")
    <3>1. n + 1 \in Int /\ n + 1 <= n + 1 /\ DOMAIN wpc = Worker
      BY <1>1, <1>3
    <3> HIDE DEF n
    <3> QED
      BY <1>1, <1>2, <2>1, <3>1, NotifyReaches
  <2>5. wpc' \in [Worker -> WorkerPlaces]
    BY <1>3, <2>1, NotifyTypes, Zenon DEF WorkerPlaces
  <2>6. Moves(Caller, cpc, cpc', c) /\ cpc'[c] = "idle"
    BY <1>2, <1>3, <2>2 DEF Moves
  <2>7. Reach(cpc', free - 1) /\ IsFiniteSet(Woken(cpc'))
    <3> HIDE DEF free
    <3>1. free - 1 \in Int /\ free - 1 <= free /\ free - 1 <= free - 1
      BY <1>1
    <3> QED
      BY <1>1, <1>2, <2>6, <3>1, LookReaches, MoveCounts
  <2>8. maxQueueSize > 0 => n + 1 <= maxQueueSize
    BY <1>1, <1>6 DEF IsFull
  <2>9. /\ \A w \in Worker : wpc'[w] = "run" <=> wpc[w] = "run"
        /\ \A w \in Worker : w > threads' => wpc'[w] = "none"
    BY <1>4, <2>4 DEF TypeInv
  <2>10. TypeInv'
    BY <1>3, <1>4, <2>2, <2>3, <2>5, <2>9, WorkerTypes DEF TypeInv
  <2>11. maxQueueSize' - Len(queue') = free - 1
    BY <1>1, <1>4, <2>3
  <2> QED
    BY <1>4, <2>3, <2>4, <2>7, <2>8, <2>10, <2>11 DEF SignalInv, SignalsReach, Reach
<1> QED
  BY <1>5, <1>6

\* A worker, or a new one, moves on without touching queue or callers: it may go
\* to wait only when the queue is empty, and be taken from the woken ones only then.
LEMMA WorkerMoveKeeps ==
  ASSUME TypeInv, SignalInv, NEW w \in Worker, NEW b \in WorkerPlaces,
         wpc' = [wpc EXCEPT ![w] = b], UNCHANGED <<queue, cpc, maxQueueSize>>,
         Len(queue) <= 0 \/ (b # "waiting" /\ wpc[w] # "woken")
  PROVE  SignalInv' /\ wpc' \in [Worker -> WorkerPlaces]
         /\ \A v \in Worker : wpc'[v] = IF v = w THEN b ELSE wpc[v]
<1>1. wpc \in [Worker -> WorkerPlaces] /\ Len(queue) \in Nat
  BY DEF TypeInv, WorkerPlaces
<1>2. wpc' \in [Worker -> WorkerPlaces] /\ \A v \in Worker : wpc'[v] = IF v = w THEN b ELSE wpc[v]
  BY <1>1
<1>3. Moves(Worker, wpc, wpc', w) /\ wpc'[w] = b
  BY <1>1, <1>2 DEF Moves, SignalInv
<1>4. Reach(wpc, Len(queue))
  BY DEF SignalInv, SignalsReach, Reach
<1>5. Reach(wpc', Len(queue)) /\ IsFiniteSet(Woken(wpc'))
  <2> DEFINE n == Len(queue)
  <2>1. n \in Int /\ (n <= 0 \/ (b # "waiting" /\ wpc[w] # "woken")) /\ n <= n /\ Reach(wpc, n)
    BY <1>1, <1>4
  <2> HIDE DEF n
  <2>2. Reach(wpc', n)
    BY <1>3, <2>1, WaitReaches, LookReaches, Zenon
  <2> QED
    BY <1>3, <2>2, MoveCounts DEF n
<1> QED
  BY <1>2, <1>5, Zenon DEF SignalInv, SignalsReach, Reach

\* take() of the front of the queue.
LEMMA TakeFrontKeeps ==
  ASSUME TypeInv, SignalInv, NEW w \in Worker, wpc[w] \in {"take", "woken"}, TakeFront(w),
         UNCHANGED <<poolVars, ctask, sent, ran>>
  PROVE  TypeInv' /\ SignalInv'
<1> DEFINE n == Len(queue)
           free == maxQueueSize - n
<1>1. /\ wpc \in [Worker -> WorkerPlaces] /\ wtask \in [Worker -> MaybeTask]
      /\ cpc \in [Caller -> {"idle", "waiting", "woken"}]
      /\ n \in Nat /\ maxQueueSize \in Nat /\ free \in Int
  BY DEF TypeInv, WorkerPlaces
<1>2. UNCHANGED <<maxQueueSize, running, threads, owner, toStart, ctask, sent, ran>>
  BY DEF poolVars
<1>3. /\ queue # <<>> /\ queue' = Tail(queue) /\ wtask' = [wtask EXCEPT ![w] = Head(queue)]
      /\ wpc' = [wpc EXCEPT ![w] = "run"]
      /\ IF maxQueueSize > 0 THEN cpc' \in Notified(cpc) ELSE cpc' = cpc
  BY DEF TakeFront
<1>4. queue' \in Seq(Task) /\ Len(queue') = n - 1 /\ Head(queue) \in Task
  BY <1>3, Popped
<1>5. /\ wpc' \in [Worker -> WorkerPlaces] /\ wtask' \in [Worker -> MaybeTask]
      /\ \A v \in Worker : wpc'[v] = IF v = w THEN "run" ELSE wpc[v]
      /\ \A v \in Worker : wtask'[v] = IF v = w THEN Head(queue) ELSE wtask[v]
  BY <1>1, <1>3, <1>4 DEF MaybeTask, WorkerPlaces
<1>6. /\ IsFiniteSet(Woken(wpc)) /\ IsFiniteSet(Woken(cpc))
      /\ Reach(wpc, n) /\ Reach(cpc, free) /\ (maxQueueSize > 0 => n <= maxQueueSize)
  BY DEF SignalInv, SignalsReach, Reach
<1>7. Reach(wpc', n - 1) /\ IsFiniteSet(Woken(wpc'))
  <2>1. Moves(Worker, wpc, wpc', w) /\ wpc'[w] = "run"
    BY <1>1, <1>5, <1>6 DEF Moves
  <2> HIDE DEF n
  <2>2. n - 1 \in Int /\ n - 1 <= n /\ n - 1 <= n - 1
    BY <1>1
  <2> QED
    BY <1>1, <1>6, <2>1, <2>2, LookReaches, MoveCounts
<1>8. /\ cpc' \in [Caller -> {"idle", "waiting", "woken"}]
      /\ \A c \in Caller : cpc'[c] = "idle" <=> cpc[c] = "idle"
      /\ Reach(cpc', free + 1) /\ IsFiniteSet(Woken(cpc'))
  <2>1. CASE maxQueueSize > 0
    <3> HIDE DEF free
    <3>1. cpc' \in Notified(cpc) /\ free + 1 \in Int /\ free + 1 <= free + 1 /\ DOMAIN cpc = Caller
      BY <1>1, <1>3, <2>1
    <3>2. cpc' \in [Caller -> {"idle", "waiting", "woken"}]
      BY <1>1, <3>1, NotifyTypes, Zenon
    <3>3. /\ Reach(cpc', free + 1) /\ IsFiniteSet(Woken(cpc'))
          /\ \A c \in Caller : cpc'[c] = cpc[c] \/ (cpc[c] = "waiting" /\ cpc'[c] = "woken")
      BY <1>1, <1>6, <3>1, NotifyReaches
    <3> QED
      BY <3>2, <3>3
  <2>2. CASE ~(maxQueueSize > 0)
    <3>1. cpc' = cpc /\ free + 1 <= 0
      BY <1>1, <1>3, <1>4, <2>2, Popped
    <3>2. Cardinality(Woken(cpc)) \in Nat
      BY <1>6, FS_CardinalityType
    <3> QED
      BY <1>1, <1>6, <3>1, <3>2 DEF Reach
  <2> QED
    BY <2>1, <2>2
<1>9. TypeInv'
  <2>1. \A v \in Worker : wpc'[v] = "run" <=> wtask'[v] # NoTask
    BY <1>4, <1>5, ThreadPoolAssumption DEF TypeInv
  <2>2. \A v \in Worker : v > threads => wpc'[v] = "none"
    BY <1>5 DEF TypeInv
  <2> QED
    BY <1>2, <1>4, <1>5, <1>8, <2>1, <2>2 DEF TypeInv, WorkerPlaces
<1>10. maxQueueSize' - Len(queue') = free + 1 /\ (maxQueueSize' > 0 => Len(queue') <= maxQueueSize')
  BY <1>1, <1>2, <1>4, <1>6
<1> QED
  BY <1>4, <1>7, <1>8, <1>9, <1>10 DEF SignalInv, SignalsReach, Reach

-----------------------------------------------------------------------------
(* The invariant is inductive.                                             *)

IInv == TypeInv /\ PlaceInv /\ SignalInv

\* A step that leaves every task where it is.
LEMMA PlaceSame ==
  ASSUME PlaceInv, UNCHANGED <<ctask, queue, wtask, ran, sent>> PROVE PlaceInv'
  BY DEF PlaceInv

\* The constructor establishes it.
LEMMA InitInv == Init => IInv
<1> SUFFICES ASSUME Init PROVE IInv
  OBVIOUS
<1>1. maxQueueSize \in Nat /\ Len(queue) = 0 /\ queue \in Seq(Task)
  BY ThreadPoolAssumption DEF Init
<1>2. TypeInv
  BY <1>1 DEF Init, TypeInv, MaybeTask
<1>3. PlaceInv
  BY <1>1, ThreadPoolAssumption DEF Init, PlaceInv, Apart, Held
<1>4. Woken(wpc) = {} /\ Woken(cpc) = {} /\ Waiting(wpc) = {} /\ Waiting(cpc) = {}
  BY DEF Init, Woken, Waiting
<1>5. SignalInv
  BY <1>1, <1>4, FS_EmptySet DEF SignalInv, SignalsReach
<1> QED
  BY <1>2, <1>3, <1>5 DEF IInv

\* Every call of the owner keeps it.
LEMMA OwnerKeeps ==
  ASSUME IInv, (\E n \in 0 .. MaxThreads : Start(n)) \/ StartThread \/ Stop \/ Join
  PROVE  IInv'
<1> USE DEF IInv
<1>1. ASSUME NEW n \in 0 .. MaxThreads, Start(n) PROVE IInv'
  <2>1. UNCHANGED <<maxQueueSize, threads, queue, wpc, wtask, cpc, ctask, sent, ran>>
    BY <1>1 DEF Start, callerVars
  <2>2. TypeInv'
    BY <1>1, <2>1, ThreadPoolAssumption DEF Start, TypeInv
  <2> QED
    BY <2>1, <2>2, PlaceSame DEF SignalInv, SignalsReach, Waiting, Woken
<1>2. ASSUME StartThread PROVE IInv'
  <2>1. UNCHANGED <<maxQueueSize, running, queue, wtask, cpc, ctask, sent, ran>>
    BY <1>2 DEF StartThread, callerVars
  <2>2. threads + 1 \in Worker /\ wpc[threads + 1] = "none" /\ threads \in Nat /\ toStart \in Nat
    BY <1>2, ThreadPoolAssumption DEF StartThread, TypeInv, Worker
  <2>3. wpc' = [wpc EXCEPT ![threads + 1] = "loop"] /\ "loop" \in WorkerPlaces
    BY <1>2 DEF StartThread, WorkerPlaces
  <2>4. /\ SignalInv' /\ wpc' \in [Worker -> WorkerPlaces]
        /\ \A v \in Worker : wpc'[v] = IF v = threads + 1 THEN "loop" ELSE wpc[v]
    BY <2>1, <2>2, <2>3, WorkerMoveKeeps, Zenon
  <2>5. \A v \in Worker : wpc'[v] = "run" <=> wpc[v] = "run"
    BY <2>2, <2>4
  <2>6. threads' = threads + 1 /\ \A v \in Worker : v > threads' => wpc'[v] = "none"
    BY <1>2, <2>2, <2>4 DEF StartThread, TypeInv, Worker
  <2>7. /\ threads' \in Nat /\ toStart' \in Nat /\ (owner' = "new" => threads' = 0)
        /\ owner' = "starting" => toStart' > 0 /\ threads' + toStart' <= MaxThreads
    BY <1>2, <2>2, ThreadPoolAssumption DEF StartThread, TypeInv
  <2>8. TypeInv'
    BY <2>1, <2>4, <2>5, <2>6, <2>7, WorkerTypes DEF TypeInv
  <2> QED
    BY <2>1, <2>4, <2>8, PlaceSame
<1>3. ASSUME Stop PROVE IInv'
  <2>1. UNCHANGED <<maxQueueSize, threads, toStart, queue, wtask, cpc, ctask, sent, ran>>
    BY <1>3 DEF Stop, callerVars
  <2>2. /\ wpc' \in [Worker -> WorkerPlaces]
        /\ \A v \in Worker : wpc'[v] = IF wpc[v] = "waiting" THEN "woken" ELSE wpc[v]
    BY <1>3 DEF Stop, NotifiedAll, TypeInv, WorkerPlaces
  <2>3. TypeInv'
    <3>1. /\ \A v \in Worker : wpc'[v] = "run" <=> wpc[v] = "run"
          /\ \A v \in Worker : v > threads' => wpc'[v] = "none"
      BY <2>1, <2>2 DEF TypeInv
    <3> QED
      BY <1>3, <2>1, <2>2, <3>1, WorkerTypes DEF TypeInv, Stop
  <2>4. Waiting(wpc') = {}
    BY <2>2 DEF Waiting
  <2>5. IsFiniteSet(Woken(wpc'))
    <3>1. IsFiniteSet(Worker)
      BY ThreadPoolAssumption, FS_Interval DEF Worker
    <3>2. Woken(wpc') \subseteq Worker
      BY <2>2 DEF Woken
    <3> QED
      BY <3>1, <3>2, FS_Subset
  <2>6. SignalInv'
    BY <2>1, <2>4, <2>5 DEF SignalInv, SignalsReach
  <2> QED
    BY <2>1, <2>3, <2>6, PlaceSame
<1>4. ASSUME Join PROVE IInv'
  <2>1. /\ UNCHANGED <<maxQueueSize, threads, toStart, queue, wpc, wtask, cpc, ctask, sent, ran>>
        /\ owner' = "stopped"
    BY <1>4 DEF Join, callerVars
  <2>2. TypeInv'
    BY <2>1 DEF TypeInv
  <2> QED
    BY <2>1, <2>2, PlaceSame DEF SignalInv, SignalsReach, Waiting, Woken
<1> QED
  BY <1>1, <1>2, <1>3, <1>4

\* Every step of a call of run() keeps it.
LEMMA CallerKeeps ==
  ASSUME IInv, NEW c \in Caller, RunWoken(c) \/ \E t \in Task : RunInline(c, t) \/ Run(c, t)
  PROVE  IInv'
<1> USE DEF IInv
<1>1. ASSUME NEW t \in Task, RunInline(c, t) PROVE IInv'
  <2>1. /\ UNCHANGED <<maxQueueSize, threads, toStart, owner, queue, wpc, wtask, cpc, ctask>>
        /\ t \notin sent /\ sent' = sent \cup {t} /\ ran' = ran \cup {t}
    BY <1>1 DEF RunInline, poolVars
  <2>2. TypeInv'
    BY <2>1 DEF TypeInv
  <2> QED
    BY <2>1, <2>2, InlineKeeps DEF SignalInv, SignalsReach, Waiting, Woken
<1>2. ASSUME NEW t \in Task, Run(c, t) PROVE IInv'
  <2>1. /\ t \notin sent /\ sent' = sent \cup {t} /\ UNCHANGED <<poolVars, wtask, ran>>
        /\ Enqueue(c, t) /\ cpc[c] = "idle" /\ sent' \subseteq Task
    BY <1>2 DEF Run, TypeInv
  <2>2. TypeInv' /\ SignalInv'
    BY <2>1, EnqueueKeeps
  <2>3. ctask[c] = NoTask /\ ctask \in [Caller -> MaybeTask]
    BY <2>1 DEF TypeInv
  <2>4. CASE IsFull
    <3>1. ctask' = [ctask EXCEPT ![c] = t] /\ queue' = queue
      BY <2>1, <2>4 DEF Enqueue
    <3> QED
      BY <2>1, <2>2, <2>3, <3>1, BlockKeeps, Zenon
  <2>5. CASE ~IsFull
    <3>1. ctask' = ctask /\ queue' = Append(queue, t)
      BY <2>1, <2>3, <2>5 DEF Enqueue
    <3> QED
      BY <2>1, <2>2, <3>1, PushKeeps
  <2> QED
    BY <2>4, <2>5
<1>3. ASSUME RunWoken(c) PROVE IInv'
  <2>1. /\ UNCHANGED <<poolVars, wtask, ran>> /\ sent' = sent
        /\ Enqueue(c, ctask[c]) /\ cpc[c] = "woken"
    BY <1>3 DEF RunWoken
  <2>2. /\ ctask[c] # NoTask /\ ctask[c] \in Task /\ sent' \subseteq Task
        /\ ctask \in [Caller -> MaybeTask]
    BY <2>1 DEF TypeInv, MaybeTask
  <2>3. TypeInv' /\ SignalInv'
    BY <2>1, <2>2, EnqueueKeeps
  <2>4. CASE IsFull
    <3>1. ctask' = ctask /\ queue' = queue
      BY <2>1, <2>2, <2>4, Zenon DEF Enqueue
    <3> QED
      BY <2>1, <2>3, <3>1, PlaceSame
  <2>5. CASE ~IsFull
    <3>1. ctask' = [ctask EXCEPT ![c] = NoTask] /\ queue' = Append(queue, ctask[c])
      BY <2>1, <2>5 DEF Enqueue
    <3> QED
      BY <2>1, <2>2, <2>3, <3>1, UnblockKeeps, Zenon
  <2> QED
    BY <2>4, <2>5
<1> QED
  BY <1>1, <1>2, <1>3

\* Every step of a worker keeps it.
LEMMA WorkerKeeps == ASSUME IInv, NEW w \in Worker, WorkerStep(w) PROVE IInv'
<1> USE DEF IInv
<1>1. wpc[w] \in {"loop", "take", "woken"} => wtask[w] = NoTask
  BY DEF TypeInv
\* A move that leaves the tasks alone.
<1>2. ASSUME NEW b \in WorkerPlaces, wpc' = [wpc EXCEPT ![w] = b], b \notin {"run", "none"},
             wpc[w] \in {"loop", "take", "woken"},
             UNCHANGED <<poolVars, queue, wtask, callerVars, ran>>,
             Len(queue) <= 0 \/ (b # "waiting" /\ wpc[w] # "woken")
      PROVE  IInv'
  <2>1. UNCHANGED <<maxQueueSize, running, threads, owner, toStart, queue, wtask, cpc, ctask,
                    sent, ran>>
    BY <1>2 DEF poolVars, callerVars
  <2>2. /\ SignalInv' /\ wpc' \in [Worker -> WorkerPlaces]
        /\ \A v \in Worker : wpc'[v] = IF v = w THEN b ELSE wpc[v]
    BY <1>2, <2>1, WorkerMoveKeeps, Zenon
  <2>3. /\ \A v \in Worker : wpc'[v] = "run" <=> wpc[v] = "run"
        /\ \A v \in Worker : v > threads' => wpc'[v] = "none"
    BY <1>2, <2>1, <2>2 DEF TypeInv
  <2>4. TypeInv'
    BY <2>1, <2>2, <2>3, WorkerTypes DEF TypeInv
  <2> QED
    BY <2>1, <2>2, <2>4, PlaceSame
<1>3. CASE CheckRunning(w)
  <2>1. PICK b \in {"take", "done"} : wpc' = [wpc EXCEPT ![w] = b]
    BY <1>3, Zenon DEF CheckRunning
  <2>2. b \in WorkerPlaces /\ b \notin {"run", "none", "waiting"} /\ wpc[w] = "loop"
        /\ UNCHANGED <<poolVars, queue, wtask, callerVars, ran>>
    BY <1>3 DEF CheckRunning, WorkerPlaces
  <2> QED
    BY <1>2, <2>1, <2>2, Zenon
<1>4. CASE Take(w)
  <2>1. wpc[w] \in {"take", "woken"} /\ UNCHANGED <<poolVars, ctask, sent, ran>>
    BY <1>4 DEF Take
  <2>2. CASE TakeWaits(w) \/ TakeNothing(w)
    <3>1. PICK b \in {"waiting", "loop"} : wpc' = [wpc EXCEPT ![w] = b]
      BY <2>2 DEF TakeWaits, TakeNothing
    <3>2. b \in WorkerPlaces /\ b \notin {"run", "none"} /\ Len(queue) <= 0
          /\ UNCHANGED <<queue, wtask, cpc>>
      BY <2>2 DEF TakeWaits, TakeNothing, WorkerPlaces
    <3> QED
      BY <1>2, <2>1, <3>1, <3>2, Zenon DEF callerVars
  <2>3. CASE TakeFront(w)
    <3>1. TypeInv' /\ SignalInv'
      BY <2>1, <2>3, TakeFrontKeeps
    <3>2. PlaceInv'
      BY <1>1, <2>1, <2>3, TakeKeeps, Zenon DEF TakeFront
    <3> QED
      BY <3>1, <3>2
  <2> QED
    BY <1>4, <2>2, <2>3 DEF Take
<1>5. CASE RunTask(w)
  <2>1. /\ UNCHANGED <<maxQueueSize, running, threads, owner, toStart, queue, cpc, ctask, sent>>
        /\ wpc' = [wpc EXCEPT ![w] = "loop"] /\ wtask' = [wtask EXCEPT ![w] = NoTask]
        /\ ran' = ran \cup {wtask[w]} /\ wpc[w] = "run" /\ "loop" \in WorkerPlaces
    BY <1>5 DEF RunTask, poolVars, callerVars, WorkerPlaces
  <2>2. /\ SignalInv' /\ wpc' \in [Worker -> WorkerPlaces]
        /\ \A v \in Worker : wpc'[v] = IF v = w THEN "loop" ELSE wpc[v]
    BY <2>1, WorkerMoveKeeps, Zenon
  <2>3. wtask[w] # NoTask /\ wtask[w] \in Task
    BY <2>1 DEF TypeInv, MaybeTask
  <2>4. /\ wtask' \in [Worker -> MaybeTask]
        /\ \A v \in Worker : wtask'[v] = IF v = w THEN NoTask ELSE wtask[v]
    BY <2>1 DEF TypeInv, MaybeTask
  <2>5. /\ \A v \in Worker : wpc'[v] = "run" <=> wtask'[v] # NoTask
        /\ \A v \in Worker : v > threads => wpc'[v] = "none"
    BY <2>1, <2>2, <2>4 DEF TypeInv
  <2>6. TypeInv'
    BY <2>1, <2>2, <2>3, <2>4, <2>5 DEF TypeInv, WorkerPlaces
  <2>7. PlaceInv'
    BY <2>1, <2>3, RunTaskKeeps, Zenon
  <2> QED
    BY <2>2, <2>6, <2>7
<1> QED
  BY <1>3, <1>4, <1>5 DEF WorkerStep

\* A wakeup without a signal keeps it.
LEMMA SpuriousKeeps == ASSUME IInv, SpuriousWakeup PROVE IInv'
<1> USE DEF IInv
<1>1. UNCHANGED <<maxQueueSize, running, threads, owner, toStart, queue, wtask, ctask, sent, ran>>
  BY DEF SpuriousWakeup, poolVars
<1>2. PlaceInv'
  BY <1>1, PlaceSame
<1>3. ASSUME NEW w \in Waiting(wpc), wpc' = [wpc EXCEPT ![w] = "woken"], cpc' = cpc
      PROVE  TypeInv' /\ SignalInv'
  <2>1. w \in Worker /\ wpc[w] = "waiting" /\ "woken" \in WorkerPlaces
    BY DEF TypeInv, Waiting, WorkerPlaces
  <2>2. /\ SignalInv' /\ wpc' \in [Worker -> WorkerPlaces]
        /\ \A v \in Worker : wpc'[v] = IF v = w THEN "woken" ELSE wpc[v]
    BY <1>1, <1>3, <2>1, WorkerMoveKeeps, Zenon
  <2>3. /\ \A v \in Worker : wpc'[v] = "run" <=> wpc[v] = "run"
        /\ \A v \in Worker : v > threads' => wpc'[v] = "none"
    BY <1>1, <2>1, <2>2 DEF TypeInv
  <2> QED
    BY <1>1, <1>3, <2>2, <2>3, WorkerTypes DEF TypeInv
<1>4. ASSUME NEW c \in Waiting(cpc), cpc' = [cpc EXCEPT ![c] = "woken"], wpc' = wpc
      PROVE  TypeInv' /\ SignalInv'
  <2>1. c \in Caller /\ cpc[c] = "waiting" /\ cpc \in [Caller -> {"idle", "waiting", "woken"}]
    BY DEF TypeInv, Waiting
  <2>2. /\ cpc' \in [Caller -> {"idle", "waiting", "woken"}]
        /\ \A d \in Caller : cpc'[d] = IF d = c THEN "woken" ELSE cpc[d]
    BY <1>4, <2>1
  <2>3. TypeInv'
    BY <1>1, <1>4, <2>1, <2>2 DEF TypeInv
  <2>4. Moves(Caller, cpc, cpc', c) /\ cpc'[c] = "woken"
    BY <2>1, <2>2 DEF Moves, SignalInv
  <2> DEFINE free == maxQueueSize - Len(queue)
  <2>5. free \in Int /\ free <= free /\ Reach(cpc, free)
    BY DEF TypeInv, SignalInv, SignalsReach, Reach
  <2>6. Reach(cpc', free) /\ IsFiniteSet(Woken(cpc'))
    <3> HIDE DEF free
    <3> QED
      BY <2>1, <2>4, <2>5, LookReaches, MoveCounts
  <2>7. SignalInv'
    BY <1>1, <1>4, <2>6, Zenon DEF SignalInv, SignalsReach, Reach
  <2> QED
    BY <2>3, <2>7
<1> QED
  BY <1>2, <1>3, <1>4 DEF SpuriousWakeup

\* Every step keeps it.
LEMMA NextInv == IInv /\ [Next]_vars => IInv'
<1> SUFFICES ASSUME IInv, [Next]_vars PROVE IInv'
  OBVIOUS
<1>1. CASE UNCHANGED vars
  <2>1. /\ UNCHANGED <<maxQueueSize, running, threads, owner, toStart, queue, wpc, wtask>>
        /\ UNCHANGED <<cpc, ctask, sent, ran>>
    BY <1>1 DEF vars, poolVars, callerVars
  <2>2. TypeInv'
    BY <2>1 DEF IInv, TypeInv
  <2> QED
    BY <2>1, <2>2, PlaceSame DEF IInv, SignalInv, SignalsReach, Waiting, Woken
<1> QED
  BY <1>1, OwnerKeeps, CallerKeeps, WorkerKeeps, SpuriousKeeps DEF Next

-----------------------------------------------------------------------------
(* The theorems.                                                           *)

\* Places that do not overlap, counted.
LEMMA CountPlaces == TypeInv /\ PlaceInv => OnePlace
<1> SUFFICES ASSUME TypeInv, PlaceInv, NEW t \in Task
             PROVE  Cardinality({c \in Caller : ctask[c] = t})
                      + Cardinality({i \in DOMAIN queue : queue[i] = t})
                      + Cardinality({w \in Worker : wtask[w] = t}) + (IF t \in ran THEN 1 ELSE 0)
                    = IF t \in sent THEN 1 ELSE 0
  BY DEF OnePlace
<1> DEFINE C == {c \in Caller : ctask[c] = t}
           Q == {i \in DOMAIN queue : queue[i] = t}
           W == {w \in Worker : wtask[w] = t}
<1>1. t # NoTask /\ DOMAIN queue = 1 .. Len(queue)
  BY ThreadPoolAssumption DEF TypeInv
<1>2. /\ C = {} \/ \E c : C = {c}
      /\ Q = {} \/ \E i : Q = {i}
      /\ W = {} \/ \E w : W = {w}
  BY <1>1, Zenon DEF PlaceInv, Apart
<1>3. /\ C # {} => Q = {} /\ W = {} /\ t \notin ran
      /\ Q # {} => W = {} /\ t \notin ran
      /\ W # {} => t \notin ran
  BY <1>1, SMTT(30) DEF PlaceInv, Apart
<1>4. t \in sent <=> C # {} \/ Q # {} \/ W # {} \/ t \in ran
  BY <1>1 DEF PlaceInv, Held
<1> HIDE DEF C, Q, W
<1>5. /\ Cardinality(C) = IF C = {} THEN 0 ELSE 1
      /\ Cardinality(Q) = IF Q = {} THEN 0 ELSE 1
      /\ Cardinality(W) = IF W = {} THEN 0 ELSE 1
  BY <1>2, FS_EmptySet, FS_Singleton, Zenon
<1>6. Cardinality(C) + Cardinality(Q) + Cardinality(W) + (IF t \in ran THEN 1 ELSE 0)
        = IF t \in sent THEN 1 ELSE 0
  BY <1>3, <1>4, <1>5
<1> QED
  BY <1>6 DEF C, Q, W

\* No task given to run() is lost or run twice, for any numbers of callers and
\* threads and any bound of the queue.
THEOREM TasksInOnePlace == Spec => []OnePlace
<1>1. IInv => OnePlace
  BY CountPlaces DEF IInv
<1> QED
  BY <1>1, InitInv, NextInv, PTL DEF Spec

\* notEmpty_ and notFull_ are signalled often enough: no worker sleeps over a task,
\* and no caller over a free place, that nobody else was woken for.
THEOREM SignalsNotLost == Spec => []SignalsReach
<1>1. IInv => SignalsReach
  BY DEF IInv, SignalInv
<1> QED
  BY <1>1, InitInv, NextInv, PTL DEF Spec

-----------------------------------------------------------------------------
(* stop(), whatever the scheduling: the part of StopReturns that needs no  *)
(* fairness.                                                               *)

\* Once stop() has cleared running_, no worker sleeps on notEmpty_ and none goes to
\* sleep again, so that every thread join() waits for can move; and when the joins
\* are over, no thread of the pool is left that could take or run a task.
StopReaches ==
  /\ owner \in {"joining", "stopped"} => Waiting(wpc) = {}
  /\ owner = "stopped" => \A w \in Worker : wpc[w] \in {"none", "done"}

StopInv == StopReaches /\ (owner \in {"joining", "stopped"} => ~running)

\* What stop() has ended stays ended while the workers and callers step.
LEMMA OthersLeaveStopped ==
  ASSUME TypeInv, StopInv, UNCHANGED poolVars,
         \A w \in Worker : \/ wpc'[w] = wpc[w]
                           \/ wpc[w] \notin {"none", "done"} /\ (wpc'[w] = "waiting" => running)
                           \/ wpc[w] = "waiting",
         DOMAIN wpc' = Worker
  PROVE  StopInv'
<1>1. owner' = owner /\ running' = running /\ DOMAIN wpc = Worker
  BY DEF poolVars, TypeInv
<1>2. owner \in {"joining", "stopped"} => ~running /\ \A w \in Worker : wpc[w] # "waiting"
  BY <1>1, Zenon DEF StopInv, StopReaches, Waiting
<1>3. owner \in {"joining", "stopped"} => \A w \in Worker : wpc'[w] # "waiting"
  BY <1>2, Zenon
<1>4. owner = "stopped" => \A w \in Worker : wpc'[w] \in {"none", "done"}
  BY <1>2, Zenon DEF StopInv, StopReaches
<1> QED
  BY <1>1, <1>2, <1>3, <1>4, Zenon DEF StopInv, StopReaches, Waiting

\* notify() moves only threads that wait.
LEMMA NotifiedMoves ==
  ASSUME NEW T, NEW S, NEW pc \in [T -> S], NEW new \in Notified(pc)
  PROVE  DOMAIN new = T /\ \A t \in T : new[t] = pc[t] \/ pc[t] = "waiting"
<1>1. CASE new = pc
  BY <1>1, Zenon
<1>2. CASE \E u \in Waiting(pc) : new = [pc EXCEPT ![u] = "woken"]
  BY <1>2, Zenon DEF Waiting
<1> QED
  BY <1>1, <1>2, Zenon DEF Notified

LEMMA OwnerStops ==
  ASSUME TypeInv, StopInv, (\E n \in 0 .. MaxThreads : Start(n)) \/ StartThread \/ Stop \/ Join
  PROVE  StopInv'
<1> USE DEF StopInv, StopReaches
<1>1. CASE \E n \in 0 .. MaxThreads : Start(n)
  BY <1>1, Zenon DEF Start
<1>2. CASE StartThread
  BY <1>2, Zenon DEF StartThread
<1>3. CASE Stop
  BY <1>3, Zenon DEF Stop, NotifiedAll, Waiting
<1>4. CASE Join
  <2>1. owner = "joining" /\ owner' = "stopped" /\ UNCHANGED <<running, wpc>>
        /\ \A w \in 1 .. threads : wpc[w] = "done"
    BY <1>4, Zenon DEF Join
  <2>2. \A w \in Worker : w \in 1 .. threads \/ w > threads
    BY DEF Worker, TypeInv
  <2>3. \A w \in Worker : wpc[w] \in {"none", "done"}
    BY <2>1, <2>2, Zenon DEF TypeInv
  <2> QED
    BY <2>1, <2>3, Zenon DEF Waiting
<1> QED
  BY <1>1, <1>2, <1>3, <1>4, Zenon

LEMMA CallerStops ==
  ASSUME TypeInv, StopInv, NEW c \in Caller,
         RunWoken(c) \/ \E t \in Task : RunInline(c, t) \/ Run(c, t)
  PROVE  StopInv'
<1>1. UNCHANGED poolVars /\ (wpc' = wpc \/ wpc' \in Notified(wpc))
  BY Zenon DEF RunWoken, RunInline, Run, Enqueue
<1>2. DOMAIN wpc' = Worker /\ \A w \in Worker : wpc'[w] = wpc[w] \/ wpc[w] = "waiting"
  <2>1. wpc \in [Worker -> {"none", "loop", "take", "waiting", "woken", "run", "done"}]
    BY Zenon DEF TypeInv
  <2>2. wpc' \in Notified(wpc) =>
          DOMAIN wpc' = Worker /\ \A w \in Worker : wpc'[w] = wpc[w] \/ wpc[w] = "waiting"
    BY <2>1, NotifiedMoves, Zenon
  <2> QED
    BY <1>1, <2>1, <2>2, Zenon
<1> QED
  BY <1>1, <1>2, OthersLeaveStopped, Zenon

LEMMA WorkerStops ==
  ASSUME TypeInv, StopInv, NEW w \in Worker, WorkerStep(w) PROVE StopInv'
<1>1. /\ UNCHANGED poolVars /\ wpc[w] \notin {"none", "done"}
      /\ \/ wpc' = [wpc EXCEPT ![w] = "waiting"] /\ running
         \/ \E s \in {"loop", "take", "run", "done"} : wpc' = [wpc EXCEPT ![w] = s]
  <2>1. CASE CheckRunning(w)
    BY <2>1, Zenon DEF CheckRunning
  <2>2. CASE Take(w)
    BY <2>2 DEF Take, TakeWaits, TakeNothing, TakeFront
  <2>3. CASE RunTask(w)
    BY <2>3, Zenon DEF RunTask
  <2> QED
    BY <2>1, <2>2, <2>3, Zenon DEF WorkerStep
<1>2. /\ DOMAIN wpc' = Worker
      /\ \A v \in Worker : wpc'[v] = wpc[v] \/ (v = w /\ (wpc'[v] = "waiting" => running))
  BY <1>1, Zenon DEF TypeInv
<1> QED
  BY <1>1, <1>2, OthersLeaveStopped, Zenon

LEMMA SpuriousStops == ASSUME TypeInv, StopInv, SpuriousWakeup PROVE StopInv'
<1>1. UNCHANGED poolVars /\ (wpc' = wpc \/ \E w \in Waiting(wpc) : wpc' = [wpc EXCEPT ![w] = "woken"])
  BY Zenon DEF SpuriousWakeup
<1>2. DOMAIN wpc' = Worker /\ \A w \in Worker : wpc'[w] = wpc[w] \/ wpc[w] = "waiting"
  BY <1>1, Zenon DEF TypeInv, Waiting
<1> QED
  BY <1>1, <1>2, OthersLeaveStopped, Zenon

\* stop() wakes every worker for good, and leaves no thread behind.
THEOREM StopLeavesNobody == Spec => []StopReaches
<1>1. Init => StopInv
  BY Zenon DEF Init, StopInv, StopReaches
<1>2. IInv /\ StopInv /\ [Next]_vars => StopInv'
  <2> SUFFICES ASSUME TypeInv, StopInv, [Next]_vars PROVE StopInv'
    BY Zenon DEF IInv
  <2>1. CASE UNCHANGED vars
    BY <2>1, Zenon DEF vars, poolVars, StopInv, StopReaches, Waiting
  <2>2. CASE Next
    BY <2>2, OwnerStops, CallerStops, WorkerStops, SpuriousStops, Zenon DEF Next
  <2> QED
    BY <2>1, <2>2, Zenon
<1>3. StopInv => StopReaches
  BY Zenon DEF StopInv
<1> QED
  BY <1>1, <1>2, <1>3, InitInv, NextInv, PTL DEF Spec
=============================================================================
