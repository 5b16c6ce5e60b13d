-------------------------- MODULE AsyncLoggingProofs -------------------------
(***************************************************************************)
(* Theorems about AsyncLogging and LogFile, for any sizes, bounds and      *)
(* clocks: no line is lost, repeated or out of order but for the dropped   *)
(* ones, the backend always gets its two spare buffers back and rests only *)
(* when all it took is on the disk, and files roll with distinct names and *)
(* in time.                                                                *)
(***************************************************************************)
EXTENDS AsyncLogging, SequenceTheorems, WellFoundedInduction, TLAPS

-----------------------------------------------------------------------------
(* The buffers.  nextBuffer_ is missing only if a full buffer waits, and   *)
(* the second spare was given away only if two buffers were taken: so the  *)
(* buffers that were written are enough to refill both.                    *)

Buffers == Seq(Nat)

BufferInv ==
  /\ lines \in Nat /\ buffers_ \in Seq(Buffers) /\ buffersToWrite \in Seq(Buffers)
  /\ currentBuffer_ \in Seq(Buffers) /\ Len(currentBuffer_) = 1
  /\ currentBuffer_[1] \in Buffers /\ Len(currentBuffer_[1]) < BufferSize
  /\ nextBuffer_ \in {Null, Ptr(Empty)} /\ (nextBuffer_ = Null => buffers_ # <<>>)
  /\ bpc \in {"none", "test", "lock", "wait", "drop", "write", "done"}
  /\ bpc = "none" => buffersToWrite = <<>>
  /\ bpc \in {"test", "lock", "wait"} =>
       newBuffer1 = Ptr(Empty) /\ newBuffer2 = Ptr(Empty) /\ buffersToWrite = <<>>
  /\ bpc \in {"drop", "write"} =>
       /\ newBuffer1 = Null /\ newBuffer2 \in {Null, Ptr(Empty)} /\ Len(buffersToWrite) >= 1
       /\ newBuffer2 = Null => Len(buffersToWrite) >= 2

\* append().
LEMMA AppendKeepsBuffers ==
  ASSUME BufferInv, AppendLine PROVE BufferInv'
<1> DEFINE cur == currentBuffer_[1]
<1>1. UNCHANGED <<buffersToWrite, bpc, newBuffer1, newBuffer2>>
  BY Zenon DEF AppendLine, backend
<1>2. cur \in Seq(Nat) /\ lines + 1 \in Nat /\ Len(cur) \in Nat /\ BufferSize \in Nat /\ BufferSize > 1
      /\ Len(cur) < BufferSize
  BY LoggingAssumption DEF BufferInv, Buffers
<1>3. lines' = lines + 1
  BY Zenon DEF AppendLine
<1>4. CASE /\ BufferSize - Len(cur) > 1
           /\ currentBuffer_' = Ptr(Append(cur, lines + 1)) /\ UNCHANGED <<nextBuffer_, buffers_>>
  <2> DEFINE c == Append(cur, lines + 1)
  <2>1. c \in Seq(Nat) /\ Len(c) = Len(cur) + 1 /\ Len(c) < BufferSize
    BY <1>2, <1>4
  <2> HIDE DEF c
  <2>2. currentBuffer_' \in Seq(Seq(Nat)) /\ Len(currentBuffer_') = 1 /\ currentBuffer_'[1] = c
    BY <1>4, <2>1 DEF Ptr, c
  <2> QED
    BY <1>1, <1>2, <1>3, <1>4, <2>1, <2>2, Zenon DEF BufferInv, Buffers
<1>5. CASE /\ buffers_' = Append(buffers_, cur) /\ nextBuffer_' = Null
           /\ currentBuffer_' = Ptr(Append(IF nextBuffer_ # Null THEN nextBuffer_[1] ELSE Empty, lines + 1))
  <2>1. (IF nextBuffer_ # Null THEN nextBuffer_[1] ELSE Empty) = Empty
    BY DEF BufferInv, Ptr
  <2>0. Append(Empty, lines + 1) = <<lines + 1>>
    BY DEF Empty
  <2>2. currentBuffer_' = Ptr(<<lines + 1>>)
    BY <1>5, <2>0, <2>1, Zenon
  <2>3. <<lines + 1>> \in Seq(Nat) /\ Len(<<lines + 1>>) = 1
    BY <1>2
  <2>4. currentBuffer_' \in Seq(Seq(Nat)) /\ Len(currentBuffer_') = 1 /\ currentBuffer_'[1] = <<lines + 1>>
    BY <2>2, <2>3 DEF Ptr
  <2>5. buffers_' \in Seq(Seq(Nat)) /\ buffers_' # <<>>
    <3>1. buffers_ \in Seq(Seq(Nat))
      BY Zenon DEF BufferInv, Buffers
    <3> HIDE DEF cur
    <3> QED
      BY <1>2, <1>5, <3>1
  <2> QED
    BY <1>1, <1>2, <1>3, <1>5, <2>3, <2>4, <2>5, Zenon DEF BufferInv, Buffers
<1> QED
  BY <1>4, <1>5, Zenon DEF AppendLine

\* The critical section of threadFunc().
LEMMA TakeKeepsBuffers ==
  ASSUME BufferInv, TakeBuffers PROVE BufferInv'
<1>1. /\ buffersToWrite' = Append(buffers_, currentBuffer_[1]) /\ buffers_' = <<>> /\ lines' = lines
      /\ currentBuffer_' = newBuffer1 /\ newBuffer1' = Null /\ bpc' = "drop"
  BY Zenon DEF TakeBuffers
<1>2. newBuffer1 = Ptr(Empty) /\ newBuffer2 = Ptr(Empty)
  BY Zenon DEF TakeBuffers, BufferInv
<1>3. /\ buffersToWrite' \in Seq(Buffers) /\ Len(buffersToWrite') = Len(buffers_) + 1
      /\ Len(buffers_) \in Nat /\ (buffers_ # <<>> => Len(buffers_) >= 1)
  BY <1>1 DEF BufferInv
<1>4. /\ nextBuffer_ = Null => nextBuffer_' = Ptr(Empty) /\ newBuffer2' = Null
      /\ nextBuffer_ # Null => UNCHANGED <<nextBuffer_, newBuffer2>>
  BY <1>2, Zenon DEF TakeBuffers
<1>5. /\ currentBuffer_' \in Seq(Buffers) /\ Len(currentBuffer_') = 1
      /\ currentBuffer_'[1] \in Buffers /\ Len(currentBuffer_'[1]) < BufferSize
  BY <1>1, <1>2, LoggingAssumption DEF Ptr, Empty, Buffers
<1>6. nextBuffer_' = Ptr(Empty) /\ newBuffer2' \in {Null, Ptr(Empty)} /\ Null # Ptr(Empty)
  BY <1>2, <1>4, Zenon DEF BufferInv, Null, Ptr
<1>7. newBuffer2' = Null => buffers_ # <<>>
  BY <1>2, <1>4, <1>6, Zenon DEF BufferInv
<1>8. buffers_' \in Seq(Buffers) /\ lines' \in Nat
  BY <1>1 DEF BufferInv
<1>9. Len(buffersToWrite') >= 1 /\ (newBuffer2' = Null => Len(buffersToWrite') >= 2)
  BY <1>3, <1>7
<1> QED
  BY <1>1, <1>3, <1>5, <1>6, <1>8, <1>9, Zenon DEF BufferInv

\* The rest of the round.
LEMMA RoundKeepsBuffers ==
  ASSUME BufferInv, DropBuffers \/ WriteBuffer \/ EndRound PROVE BufferInv'
<1>1. UNCHANGED <<currentBuffer_, nextBuffer_, buffers_, lines>>
  BY Zenon DEF DropBuffers, WriteBuffer, EndRound, front
<1>2. CASE DropBuffers
  <2>1. bpc = "drop" /\ bpc' = "write" /\ UNCHANGED <<newBuffer1, newBuffer2>>
    BY <1>2, Zenon DEF DropBuffers
  <2>2. buffersToWrite \in Seq(Buffers) /\ Len(buffersToWrite) \in Nat /\ Len(buffersToWrite) >= 1
    BY <2>1 DEF BufferInv
  <2>3. \/ buffersToWrite' = buffersToWrite
        \/ buffersToWrite' \in Seq(Buffers) /\ Len(buffersToWrite') = 2
    <3>1. CASE Len(buffersToWrite) > DropAbove /\ buffersToWrite' = SubSeq(buffersToWrite, 1, 2)
      <4>1. 2 \in 1 .. Len(buffersToWrite)
        BY <2>2, <3>1, LoggingAssumption
      <4> QED
        BY <2>2, <3>1, <4>1
    <3> QED
      BY <1>2, <3>1, Zenon DEF DropBuffers
  <2>4. /\ buffersToWrite' \in Seq(Buffers) /\ Len(buffersToWrite') >= 1
        /\ newBuffer2' = Null => Len(buffersToWrite') >= 2
    <3>1. newBuffer2' = Null => Len(buffersToWrite) >= 2
      BY <2>1, Zenon DEF BufferInv
    <3>2. CASE buffersToWrite' = buffersToWrite
      BY <2>2, <3>1, <3>2, Zenon
    <3>3. CASE buffersToWrite' \in Seq(Buffers) /\ Len(buffersToWrite') = 2
      BY <3>3
    <3> QED
      BY <2>3, <3>2, <3>3, Zenon
  <2> QED
    BY <1>1, <2>1, <2>4, Zenon DEF BufferInv
<1>3. CASE WriteBuffer
  BY <1>1, <1>3, Zenon DEF WriteBuffer, BufferInv
<1>4. CASE EndRound
  <2>1. /\ bpc = "write" /\ bpc' = "test" /\ buffersToWrite' = <<>>
        /\ Refill(IF Len(buffersToWrite) > 2 THEN 2 ELSE Len(buffersToWrite))
    BY <1>4, Zenon DEF EndRound
  <2>2. Len(buffersToWrite) \in Nat /\ Len(buffersToWrite) >= 1 /\ newBuffer1 = Null
        /\ newBuffer2 \in {Null, Ptr(Empty)} /\ (newBuffer2 = Null => Len(buffersToWrite) >= 2)
    BY <2>1 DEF BufferInv
  <2>3. newBuffer1' = Ptr(Empty) /\ newBuffer2' = Ptr(Empty)
    BY <2>1, <2>2 DEF Refill
  <2>4. buffersToWrite' \in Seq(Buffers)
    BY <2>1
  <2> QED
    BY <1>1, <2>1, <2>3, <2>4, Zenon DEF BufferInv
<1> QED
  BY <1>2, <1>3, <1>4, Zenon

\* The steps that move no buffer.
LEMMA OthersKeepBuffers ==
  ASSUME BufferInv,
         \/ ThreadBegins \/ TestRunning \/ WaitForSeconds \/ Start \/ Started \/ Stop \/ Stopped
         \/ Tick \/ UNCHANGED vars
  PROVE  BufferInv'
<1>1. UNCHANGED <<currentBuffer_, nextBuffer_, buffers_, lines, buffersToWrite>>
  BY Zenon DEF ThreadBegins, TestRunning, WaitForSeconds, Start, Started, Stop, Stopped, Tick, vars,
         front, backend
<1>2. \/ UNCHANGED <<bpc, newBuffer1, newBuffer2>>
      \/ bpc \in {"test", "lock"} /\ bpc' \in {"lock", "done", "wait"} /\ UNCHANGED <<newBuffer1, newBuffer2>>
      \/ bpc = "none" /\ bpc' = "test" /\ newBuffer1' = Ptr(Empty) /\ newBuffer2' = Ptr(Empty)
  BY Zenon DEF ThreadBegins, TestRunning, WaitForSeconds, Start, Started, Stop, Stopped, Tick, vars, backend
<1> QED
  BY <1>1, <1>2, Zenon DEF BufferInv

-----------------------------------------------------------------------------
(* The files.  Since startOfPeriod_ is the period of lastRoll_, a file of  *)
(* an earlier period can always be rolled; until count_ makes              *)
(* append_unlocked() look at the clock, every late append is counted.      *)

FileInv ==
  /\ now \in Nat /\ lastRoll_ \in Nat /\ lastRoll_ <= now
  /\ startOfPeriod_ = PeriodOf(lastRoll_)
  /\ names \in Seq(Nat) /\ (\A i \in 1 .. Len(names) : names[i] <= lastRoll_)
  /\ \A i, j \in 1 .. Len(names) : i < j => names[i] < names[j]
  /\ over \subseteq {lastRoll_}
  /\ late \in Nat /\ count_ \in Nat /\ late <= count_ /\ count_ < CheckEveryN
  /\ late > 0 => PeriodOf(now) # startOfPeriod_

\* The period of a later time is no earlier.
LEMMA PeriodMonotone ==
  ASSUME NEW s \in Nat, NEW t \in Nat, s <= t
  PROVE  PeriodOf(s) \in Nat /\ PeriodOf(t) \in Nat /\ PeriodOf(s) <= PeriodOf(t)
<1>1. RollPerSeconds \in Nat \ {0}
  BY LogFileAssumption, Zenon
<1>2. s \div RollPerSeconds \in Nat /\ t \div RollPerSeconds \in Nat
  BY <1>1
<1>3. s \div RollPerSeconds <= t \div RollPerSeconds
  BY <1>1
<1>4. \A a, b, c \in Nat : a <= b => a * c \in Nat /\ b * c \in Nat /\ a * c <= b * c
  OBVIOUS
<1> QED
  BY <1>1, <1>2, <1>3, <1>4, Zenon DEF PeriodOf

\* rollFile(): it opens a file of a new name, or the last one is of this second.
LEMMA RollKeeps ==
  ASSUME FileInv, NEW content, NEW size, NEW lateNow, RollFile(content, size, lateNow),
         PeriodOf(now) = startOfPeriod_ => lateNow \in {0, late},
         now' = now, count_' \in Nat, count_' < CheckEveryN
  PROVE  FileInv'
<1>1. /\ now \in Nat /\ lastRoll_ \in Nat /\ lastRoll_ <= now /\ names \in Seq(Nat) /\ Len(names) \in Nat
      /\ startOfPeriod_ = PeriodOf(lastRoll_) /\ (late > 0 => PeriodOf(now) # startOfPeriod_)
      /\ late \in Nat
  BY DEF FileInv
<1>2. CASE now > lastRoll_
  <2>1. /\ lastRoll_' = now /\ startOfPeriod_' = PeriodOf(now) /\ names' = Append(names, now)
        /\ late' = 0 /\ over' = {}
    BY <1>2, Zenon DEF RollFile
  <2>2. /\ names' \in Seq(Nat) /\ Len(names') = Len(names) + 1 /\ names'[Len(names) + 1] = now
        /\ \A i \in 1 .. Len(names) : names'[i] = names[i]
    BY <1>1, <2>1
  <2>3. \A i \in 1 .. Len(names) : names[i] \in Nat /\ names[i] < now
    BY <1>1, <1>2 DEF FileInv
  <2>4. \A i \in 1 .. Len(names') : names'[i] <= now
    BY <1>1, <2>2, <2>3, SMTT(30)
  <2>5. \A i, j \in 1 .. Len(names') : i < j => names'[i] < names'[j]
    <3> SUFFICES ASSUME NEW i \in 1 .. Len(names'), NEW j \in 1 .. Len(names'), i < j
                 PROVE  names'[i] < names'[j]
      OBVIOUS
    <3>1. i \in 1 .. Len(names) /\ (j \in 1 .. Len(names) \/ j = Len(names) + 1)
      <4>1. \A n \in Nat : \A m : m = n + 1 /\ i \in 1 .. m /\ j \in 1 .. m =>
                i \in 1 .. n /\ (j \in 1 .. n \/ j = n + 1)
        OBVIOUS
      <4> QED
        BY <1>1, <2>2, <4>1, Zenon
    <3>2. CASE j \in 1 .. Len(names)
      BY <2>2, <3>1, <3>2, Zenon DEF FileInv
    <3>3. CASE j = Len(names) + 1
      BY <2>2, <2>3, <3>1, <3>3, Zenon
    <3> QED
      BY <3>1, <3>2, <3>3, Zenon
  <2>6. /\ now' \in Nat /\ lastRoll_' \in Nat /\ lastRoll_' <= now'
        /\ late' \in Nat /\ late' <= count_' /\ ~(late' > 0)
    BY <1>1, <2>1
  <2>7. startOfPeriod_' = PeriodOf(lastRoll_)' /\ over' \subseteq {lastRoll_'}
    BY <2>1, Zenon DEF PeriodOf
  <2>8. \A i \in 1 .. Len(names') : names'[i] <= lastRoll_'
    BY <2>1, <2>4, Zenon
  <2> QED
    BY <2>2, <2>5, <2>6, <2>7, <2>8, Zenon DEF FileInv
<1>3. CASE ~(now > lastRoll_)
  <2>1. now = lastRoll_
    BY <1>1, <1>3
  <2>2. late = 0
    BY <1>1, <2>1
  <2>3. late' = 0
    BY <1>1, <1>3, <2>1, <2>2, Zenon DEF RollFile
  <2>4. UNCHANGED <<lastRoll_, startOfPeriod_, names>> /\ over' \subseteq over \cup {now}
    BY <1>3, Zenon DEF RollFile
  <2>5. over' \subseteq {lastRoll_}
    BY <2>1, <2>4, Zenon DEF FileInv
  <2> QED
    BY <1>1, <2>3, <2>4, <2>5 DEF FileInv, PeriodOf
<1> QED
  BY <1>2, <1>3, Zenon

\* append_unlocked(): a late append is counted, or the file is rolled.
LEMMA AppendKeepsFiles ==
  ASSUME FileInv, NEW ls, AppendUnlocked(ls), now' = now PROVE FileInv'
<1> DEFINE content == unflushed \o ls
           size    == writtenBytes_ + Len(ls)
           lateNow == IF PeriodOf(now) # startOfPeriod_ THEN late + 1 ELSE late
<1>1. late \in Nat /\ count_ \in Nat /\ late <= count_ /\ count_ < CheckEveryN /\ CheckEveryN \in Nat \ {0}
  BY LogFileAssumption, Zenon DEF FileInv
<1>2. CASE RollFile(content, size, lateNow) /\ count_' \in {0, count_}
  <2>1. count_' \in Nat /\ count_' < CheckEveryN
    BY <1>1, <1>2
  <2>2. PeriodOf(now) = startOfPeriod_ => lateNow \in {0, late}
    OBVIOUS
  <2> HIDE DEF content, size, lateNow
  <2> QED
    BY <1>2, <2>1, <2>2, RollKeeps, Zenon
<1>3. CASE /\ count_ + 1 < CheckEveryN /\ count_' = count_ + 1 /\ late' = lateNow
           /\ UNCHANGED <<lastRoll_, startOfPeriod_, names, over>>
  <2>1. late' \in Nat /\ late' <= count_' /\ count_' \in Nat /\ count_' < CheckEveryN
    BY <1>1, <1>3
  <2>2. late' > 0 => PeriodOf(now) # startOfPeriod_
    BY <1>3, Zenon DEF FileInv
  <2> QED
    BY <1>3, <2>1, <2>2, Zenon DEF FileInv, PeriodOf
<1>4. CASE /\ PeriodOf(now) = startOfPeriod_ /\ count_' = 0 /\ late' = lateNow
           /\ UNCHANGED <<lastRoll_, startOfPeriod_, names, over>>
  <2>1. late' = 0 /\ count_' < CheckEveryN
    BY <1>1, <1>4 DEF FileInv
  <2> QED
    BY <1>4, <2>1 DEF FileInv, PeriodOf
<1> QED
  BY <1>2, <1>3, <1>4, Zenon DEF AppendUnlocked

\* The clock.
LEMMA TickKeepsFiles ==
  ASSUME FileInv, Tick PROVE FileInv'
<1>1. now' = now + 1 /\ UNCHANGED <<lastRoll_, startOfPeriod_, names, over, late, count_>>
  BY Zenon DEF Tick, logfile
<1>2. now \in Nat /\ now + 1 \in Nat /\ now <= now + 1 /\ lastRoll_ \in Nat /\ lastRoll_ <= now
      /\ startOfPeriod_ = PeriodOf(lastRoll_)
  BY DEF FileInv
<1>3. PeriodOf(now) # startOfPeriod_ => PeriodOf(now + 1) # startOfPeriod_
  <2>1. /\ PeriodOf(lastRoll_) \in Nat /\ PeriodOf(now) \in Nat /\ PeriodOf(now + 1) \in Nat
        /\ PeriodOf(lastRoll_) <= PeriodOf(now) /\ PeriodOf(now) <= PeriodOf(now + 1)
    BY <1>2, PeriodMonotone, Zenon
  <2> QED
    BY <1>2, <2>1
<1>4. late' > 0 => PeriodOf(now + 1) # startOfPeriod_
  BY <1>1, <1>3, Zenon DEF FileInv
<1>5. lastRoll_ <= now + 1
  BY <1>2
<1> QED
  BY <1>1, <1>2, <1>4, <1>5, Zenon DEF FileInv, PeriodOf

LEMMA SameFiles ==
  ASSUME FileInv, UNCHANGED <<now, lastRoll_, startOfPeriod_, names, over, late, count_>>
  PROVE  FileInv'
  BY Zenon DEF FileInv, PeriodOf

-----------------------------------------------------------------------------
(* What Contents() computes, by induction on the number of buffers.      *)

LEMMA Least ==
  ASSUME NEW T, T \subseteq Nat, T # {}
  PROVE  \E x \in T : \A y \in T : x <= y
<1> DEFINE R == {p \in Nat \X Nat : p[1] < p[2]}
<1>1. IsWellFoundedOn(R, Nat)
  BY NatLessThanWellFounded, Zenon DEF OpToRel
<1>2. PICK x \in T : \A y \in T : ~ (<<y, x>> \in R)
  <2> HIDE DEF R
  <2> QED
    BY <1>1, WFMin, Zenon
<1>3. x \in Nat
  OBVIOUS
<1>4. \A y \in T : ~ (y < x)
  BY <1>2, <1>3, Zenon
<1> QED
  BY <1>3, <1>4

\* The lines of the first i buffers.
Accumulates(ss, n, g) ==
  g = [i \in 1 .. n |-> IF i = 1 THEN ss[i] ELSE g[i - 1] \o ss[i]]

LEMMA ContentsIs ==
  ASSUME NEW ss \in Seq(Buffers), Len(ss) # 0, NEW g, Accumulates(ss, Len(ss), g)
  PROVE \E h : Accumulates(ss, Len(ss), h) /\ Contents(ss) = h[Len(ss)]
  BY Zenon DEF Contents, Accumulates

LEMMA PrefixesAre ==
  ASSUME NEW ss, NEW n \in Nat, NEW g, Accumulates(ss, n, g)
  PROVE  /\ DOMAIN g = 1 .. n
         /\ n > 0 => g[1] = ss[1]
         /\ \A i \in 1 .. n : i # 1 => g[i] = g[i - 1] \o ss[i]
<1>1. \A i \in 1 .. n : g[i] = IF i = 1 THEN ss[i] ELSE g[i - 1] \o ss[i]
  BY Zenon DEF Accumulates
<1>2. DOMAIN g = 1 .. n
  BY Zenon DEF Accumulates
<1>3. n > 0 => 1 \in 1 .. n
  OBVIOUS
<1> QED
  BY <1>1, <1>2, <1>3, Zenon

LEMMA FirstPrefix ==
  ASSUME NEW ss, NEW n \in Nat, n # 0, NEW g, Accumulates(ss, n, g) PROVE g[1] = ss[1]
<1>1. 1 \in 1 .. n
  OBVIOUS
<1> QED
  BY <1>1, Zenon DEF Accumulates

LEMMA PrefixesExist ==
  ASSUME NEW ss, NEW n \in Nat PROVE \E g : Accumulates(ss, n, g)
<1> DEFINE T == {m \in Nat : ~\E g : Accumulates(ss, m, g)}
<1>1. SUFFICES ASSUME T # {} PROVE FALSE
  OBVIOUS
<1>2. PICK m \in T : \A k \in T : m <= k
  BY <1>1, Least, Zenon
<1>3. m \in Nat /\ ~\E g : Accumulates(ss, m, g)
  OBVIOUS
<1>4. CASE m = 0
  <2> DEFINE g == [i \in 1 .. 0 |-> ss[i]]
  <2>1. g = [i \in 1 .. 0 |-> IF i = 1 THEN ss[i] ELSE g[i - 1] \o ss[i]]
    <3>1. 1 .. 0 = {}
      OBVIOUS
    <3> QED
      BY <3>1, Zenon
  <2> HIDE DEF g
  <2> QED
    BY <1>3, <1>4, <2>1, Zenon DEF Accumulates
<1>5. CASE m > 0
  <2>1. m - 1 \in Nat /\ m - 1 \notin T
    BY <1>2, <1>3, <1>5
  <2>2. PICK h : Accumulates(ss, m - 1, h)
    BY <2>1, Zenon
  <2>3. \A i \in 1 .. m - 1 : h[i] = IF i = 1 THEN ss[i] ELSE h[i - 1] \o ss[i]
    BY <2>2, Zenon DEF Accumulates
  <2> DEFINE v == IF m = 1 THEN ss[m] ELSE h[m - 1] \o ss[m]
             g == [i \in 1 .. m |-> IF i = m THEN v ELSE h[i]]
  <2>4. /\ \A i \in 1 .. m : i # m => i \in 1 .. m - 1 /\ i - 1 # m
        /\ \A i \in 1 .. m : i # 1 => i - 1 \in 1 .. m - 1 /\ i - 1 \in 1 .. m /\ i - 1 # m
    BY <1>3
  <2>5. ASSUME NEW i \in 1 .. m
        PROVE  (IF i = m THEN v ELSE h[i]) = IF i = 1 THEN ss[i] ELSE g[i - 1] \o ss[i]
    <3>1. i # 1 => g[i - 1] = h[i - 1]
      BY <2>4, Zenon
    <3> HIDE DEF g
    <3> QED
      BY <2>3, <2>4, <3>1, Zenon
  <2>6. g = [i \in 1 .. m |-> IF i = 1 THEN ss[i] ELSE g[i - 1] \o ss[i]]
    <3>1. g = [i \in 1 .. m |-> IF i = m THEN v ELSE h[i]]
      OBVIOUS
    <3> HIDE DEF g, v
    <3> QED
      BY <2>5, <3>1, Zenon
  <2> HIDE DEF g
  <2> QED
    BY <1>3, <2>6, Zenon DEF Accumulates
<1> QED
  BY <1>3, <1>4, <1>5

\* They depend only on the buffers up to there.
LEMMA PrefixesAgree ==
  ASSUME NEW ss, NEW tt, NEW n \in Nat, NEW m \in Nat, n <= m, NEW g, NEW h,
         Accumulates(ss, n, g), Accumulates(tt, m, h), \A i \in 1 .. n : ss[i] = tt[i]
  PROVE  \A i \in 1 .. n : g[i] = h[i]
<1> DEFINE T == {i \in 1 .. n : g[i] # h[i]}
<1>1. SUFFICES ASSUME T # {} PROVE FALSE
  OBVIOUS
<1>2. T \subseteq Nat
  OBVIOUS
<1>3. PICK i \in T : \A k \in T : i <= k
  BY <1>1, <1>2, Least, Zenon
<1>4. i \in 1 .. n /\ i \in 1 .. m /\ g[i] # h[i] /\ n > 0 /\ m > 0
  OBVIOUS
<1>5. CASE i = 1
  <2>1. g[1] = ss[1]
    BY <1>4, PrefixesAre, Zenon
  <2>2. h[1] = tt[1]
    BY <1>4, PrefixesAre, Zenon
  <2>3. ss[1] = tt[1]
    BY <1>4, <1>5, Zenon
  <2> QED
    BY <1>4, <1>5, <2>1, <2>2, <2>3, Zenon
<1>6. CASE i # 1
  <2>1. i - 1 \in 1 .. n /\ i - 1 \notin T
    BY <1>3, <1>4, <1>6
  <2>2. g[i - 1] = h[i - 1]
    BY <2>1, Zenon
  <2>3. g[i] = g[i - 1] \o ss[i] /\ h[i] = h[i - 1] \o tt[i]
    BY <1>4, <1>6, PrefixesAre, Zenon
  <2> QED
    BY <1>4, <2>2, <2>3, Zenon
<1> QED
  BY <1>5, <1>6, Zenon

LEMMA ContentsLast ==
  ASSUME NEW ss \in Seq(Buffers), Len(ss) # 0, NEW g, Accumulates(ss, Len(ss), g)
  PROVE  Contents(ss) = g[Len(ss)]
<1>1. PICK h : Accumulates(ss, Len(ss), h) /\ Contents(ss) = h[Len(ss)]
  BY ContentsIs, Zenon
<1>2. Len(ss) \in Nat /\ Len(ss) \in 1 .. Len(ss)
  OBVIOUS
<1> QED
  BY <1>1, <1>2, PrefixesAgree

LEMMA ContentsEmpty == Contents(<<>>) = <<>>
  BY Zenon DEF Contents

LEMMA ContentsOne ==
  ASSUME NEW s \in Buffers PROVE Contents(<<s>>) = s
<1> DEFINE ss == <<s>>
<1>1. ss \in Seq(Buffers) /\ Len(ss) = 1 /\ ss[1] = s /\ Len(ss) \in Nat
  OBVIOUS
<1> HIDE DEF ss
<1>2. PICK g : Accumulates(ss, Len(ss), g)
  BY <1>1, PrefixesExist, Zenon
<1>3. g[1] = s
  <2>1. Len(ss) > 0 => g[1] = ss[1]
    BY <1>1, <1>2, PrefixesAre, ZenonT(30)
  <2> QED
    BY <1>1, <2>1
<1>4. Contents(ss) = g[Len(ss)]
  <2>1. ss \in Seq(Buffers) /\ Len(ss) # 0
    BY <1>1
  <2> QED
    BY <1>2, <2>1, ContentsLast, Zenon
<1> QED
  BY <1>1, <1>3, <1>4, Zenon DEF ss

LEMMA ContentsAppends ==
  ASSUME NEW ss \in Seq(Buffers), Len(ss) # 0, NEW s \in Buffers
  PROVE  Contents(Append(ss, s)) = Contents(ss) \o s
<1> DEFINE n == Len(ss)
           tt == Append(ss, s)
           m == Len(tt)
<1>1. /\ tt \in Seq(Buffers) /\ n \in Nat /\ m = n + 1 /\ tt[m] = s
      /\ \A i \in 1 .. n : ss[i] = tt[i]
  OBVIOUS
<1>2. /\ n = Len(ss) /\ n # 0 /\ m = Len(tt) /\ m # 0 /\ m \in Nat /\ n <= m /\ n \in 1 .. n
      /\ m \in 1 .. m /\ m # 1 /\ m - 1 = n
  BY <1>1
<1> HIDE DEF tt, m, n
<1>3. PICK g : Accumulates(ss, n, g)
  BY <1>1, PrefixesExist, Zenon
<1>4. PICK h : Accumulates(tt, m, h)
  BY <1>2, PrefixesExist, Zenon
<1>5. Contents(ss) = g[n] /\ Contents(tt) = h[m]
  BY <1>1, <1>2, <1>3, <1>4, ContentsLast, Zenon
<1>6. \A i \in 1 .. n : g[i] = h[i]
  BY <1>1, <1>2, <1>3, <1>4, PrefixesAgree, SMTT(30)
<1>7. h[m] = h[m - 1] \o tt[m]
  BY <1>2, <1>4, PrefixesAre, Zenon
<1> QED
  BY <1>1, <1>2, <1>5, <1>6, <1>7, Zenon DEF tt

LEMMA Associative == \A r, s, t \in Seq(Nat) : (r \o s) \o t = r \o (s \o t)
<1>1. ASSUME NEW r \in Seq(Nat), NEW s \in Seq(Nat), NEW t \in Seq(Nat)
      PROVE  (r \o s) \o t = r \o (s \o t)
  OBVIOUS
<1> QED
  BY <1>1, SMTT(30)

LEMMA PrefixesTyped ==
  ASSUME NEW ss \in Seq(Buffers), NEW g, Accumulates(ss, Len(ss), g)
  PROVE  \A i \in 1 .. Len(ss) : g[i] \in Buffers
<1> DEFINE n == Len(ss)
           T == {i \in 1 .. n : g[i] \notin Buffers}
<1>1. n \in Nat /\ \A i \in 1 .. n : ss[i] \in Buffers
  OBVIOUS
<1>0. \A i \in 1 .. Len(ss) : i # 1 => g[i] = g[i - 1] \o ss[i]
  BY <1>1, PrefixesAre, Zenon
<1>2. SUFFICES ASSUME T # {} PROVE FALSE
  OBVIOUS
<1>3. T \subseteq Nat
  OBVIOUS
<1>4. PICK i \in T : \A k \in T : i <= k
  BY <1>2, <1>3, Least, Zenon
<1>5. i \in 1 .. n /\ g[i] \notin Buffers /\ n > 0
  OBVIOUS
<1>6. i = 1
  <2>1. SUFFICES ASSUME i # 1 PROVE FALSE
    OBVIOUS
  <2>2. i - 1 \in 1 .. n /\ i - 1 \notin T
    BY <1>4, <1>5, <2>1
  <2>3. g[i - 1] \in Buffers /\ ss[i] \in Buffers
    BY <1>1, <1>5, <2>2, Zenon
  <2>4. g[i] = g[i - 1] \o ss[i]
    BY <1>0, <1>5, <2>1, Zenon
  <2> QED
    BY <1>5, <2>3, <2>4 DEF Buffers
<1>7. g[1] = ss[1]
  BY <1>1, <1>5, PrefixesAre, Zenon
<1> QED
  BY <1>1, <1>5, <1>6, <1>7, Zenon

LEMMA ContentsTyped ==
  ASSUME NEW ss \in Seq(Buffers) PROVE Contents(ss) \in Buffers
<1>1. Len(ss) \in Nat
  OBVIOUS
<1>2. CASE Len(ss) = 0
  <2>1. ss = <<>>
    BY <1>2
  <2>2. Contents(ss) = <<>>
    BY <2>1, ContentsEmpty, Zenon
  <2>3. <<>> \in Buffers
    BY DEF Buffers
  <2> QED
    BY <2>2, <2>3, Zenon
<1>3. CASE Len(ss) # 0
  <2>1. PICK g : Accumulates(ss, Len(ss), g)
    BY <1>1, PrefixesExist, Zenon
  <2>2. Contents(ss) = g[Len(ss)] /\ Len(ss) \in 1 .. Len(ss)
    BY <1>1, <1>3, <2>1, ContentsLast
  <2>3. \A i \in 1 .. Len(ss) : g[i] \in Buffers
    BY <2>1, PrefixesTyped, Zenon
  <2> QED
    BY <2>2, <2>3, Zenon
<1> QED
  BY <1>2, <1>3

LEMMA ContentsFirst ==
  ASSUME NEW ss \in Seq(Buffers), Len(ss) # 0
  PROVE  Contents(ss) = ss[1] \o Contents(Tail(ss))
<1> DEFINE tt == Tail(ss)
           n == Len(ss)
           m == Len(tt)
<1>1. /\ tt \in Seq(Buffers) /\ n \in Nat /\ n # 0 /\ m = n - 1 /\ m \in Nat
      /\ ss[1] \in Buffers /\ \A i \in 1 .. m : tt[i] = ss[i + 1] /\ tt[i] \in Buffers
  OBVIOUS
<1>2. /\ n = Len(ss) /\ m = Len(tt) /\ n \in 1 .. n /\ 1 \in 1 .. n
      /\ \A i \in 1 .. m : i + 1 \in 1 .. n /\ i + 1 # 1 /\ (i + 1) - 1 = i /\ i \in 1 .. n
  BY <1>1
<1>0. n \in Nat /\ n # 0 /\ m \in Nat
  BY <1>1, Zenon
<1>3. CASE m = 0
  <2>0. tt = <<>>
    <3> HIDE DEF tt, n, m
    <3> QED
      BY <1>1, <1>2, <1>3, EmptySeq, Zenon
  <2>1. tt = <<>> /\ n = 1
    <3> HIDE DEF tt, n, m
    <3> QED
      BY <1>1, <1>3, <2>0
  <2>2. Contents(ss) = ss[1] /\ Contents(tt) = <<>>
    <3> HIDE DEF tt, n, m
    <3>1. PICK g : Accumulates(ss, n, g)
      BY <1>1, PrefixesExist, Zenon
    <3>2. Contents(ss) = g[n]
      BY <1>1, <1>2, <3>1, ContentsLast, Zenon
    <3>3. g[1] = ss[1]
      BY <1>0, <3>1, FirstPrefix
    <3> QED
      BY <2>1, <3>2, <3>3, ContentsEmpty
  <2>3. ss[1] \o <<>> = ss[1]
    BY <1>1 DEF Buffers
  <2> QED
    BY <2>2, <2>3, Zenon
<1>4. CASE m # 0
  <2> HIDE DEF tt, n, m
  <2>1. PICK g : Accumulates(ss, n, g)
    BY <1>1, PrefixesExist, Zenon
  <2>2. PICK h : Accumulates(tt, m, h)
    BY <1>1, PrefixesExist, Zenon
  <2>3. Contents(ss) = g[n] /\ Contents(tt) = h[m]
    BY <1>1, <1>2, <1>4, <2>1, <2>2, ContentsLast, Zenon
  <2>4. /\ g[1] = ss[1] /\ h[1] = tt[1]
        /\ \A i \in 1 .. n : i # 1 => g[i] = g[i - 1] \o ss[i]
    <3>2. g[1] = ss[1]
      BY <1>0, <2>1, FirstPrefix
    <3>3. h[1] = tt[1]
      BY <1>0, <1>4, <2>2, FirstPrefix
    <3>4. \A i \in 1 .. n : i # 1 => g[i] = g[i - 1] \o ss[i]
      BY <1>1, <2>1, PrefixesAre, Zenon
    <3> QED
      BY <3>2, <3>3, <3>4, Zenon
  <2>5. \A i \in 1 .. m : i # 1 => h[i] = h[i - 1] \o tt[i]
    BY <1>1, <2>2, PrefixesAre, ZenonT(30)
  <2>6. \A i \in 1 .. m : h[i] \in Buffers
    BY <1>1, <1>2, <2>2, PrefixesTyped, Zenon
  <2> DEFINE T == {i \in 1 .. m : g[i + 1] # ss[1] \o h[i]}
  <2>7. T = {}
    <3>1. SUFFICES ASSUME T # {} PROVE FALSE
      BY Zenon
    <3>2. T \subseteq Nat
      <4>1. T \subseteq 1 .. m
        BY Zenon
      <4>2. 1 .. m \subseteq Nat
        BY <1>0
      <4> QED
        BY <4>1, <4>2, Zenon
    <3>3. PICK i \in T : \A k \in T : i <= k
      BY <3>1, <3>2, Least, Zenon
    <3>4. i \in 1 .. m /\ g[i + 1] # ss[1] \o h[i]
      BY Zenon
    <3>5. g[i + 1] = g[i] \o tt[i]
      BY <1>1, <1>2, <2>4, <3>4, Zenon
    <3>6. CASE i = 1
      BY <2>4, <3>4, <3>5, <3>6, Zenon
    <3>7. CASE i # 1
      <4>1. i - 1 \in 1 .. m /\ (i - 1) + 1 = i /\ ~(i <= i - 1)
        BY <1>0, <3>4, <3>7
      <4>2. g[i] = ss[1] \o h[i - 1]
        BY <3>3, <4>1, Zenon
      <4>3. (ss[1] \o h[i - 1]) \o tt[i] = ss[1] \o (h[i - 1] \o tt[i])
        <5>1. ss[1] \in Seq(Nat) /\ h[i - 1] \in Seq(Nat) /\ tt[i] \in Seq(Nat)
          BY <1>1, <2>6, <3>4, <4>1, Zenon DEF Buffers
        <5> QED
          BY <5>1, Associative, Zenon
      <4>4. h[i] = h[i - 1] \o tt[i]
        BY <2>5, <3>4, <3>7, Zenon
      <4> QED
        BY <3>4, <3>5, <4>2, <4>3, <4>4, Zenon
    <3> QED
      BY <3>6, <3>7, Zenon
  <2>8. g[m + 1] = ss[1] \o h[m] /\ m + 1 = n
    <3>1. \A i \in 1 .. m : g[i + 1] = ss[1] \o h[i]
      BY <2>7, Zenon
    <3>2. m \in 1 .. m /\ m + 1 = n
      BY <1>1, <1>4
    <3> QED
      BY <3>1, <3>2, Zenon
  <2> QED
    BY <2>3, <2>8, Zenon DEF tt
<1> QED
  BY <1>3, <1>4, Zenon

LEMMA ContentsFrom ==
  ASSUME NEW b \in Seq(Buffers), NEW k \in 1 .. Len(b)
  PROVE  Contents(SubSeq(b, k, Len(b))) = b[k] \o Contents(SubSeq(b, k + 1, Len(b)))
<1> DEFINE s == SubSeq(b, k, Len(b))
<1>1. Len(b) \in Nat /\ k \in Nat /\ k <= Len(b) /\ Len(b) \in k .. Len(b)
      /\ \A i \in k .. Len(b) : b[i] \in Buffers
  OBVIOUS
<1>2. s \in Seq(Buffers) /\ Len(s) = Len(b) - k + 1
  BY <1>1, SubSeqProperties
<1>3. Head(s) = b[k] /\ Tail(s) = SubSeq(b, k + 1, Len(b))
  BY <1>1, HeadTailOfSubSeq, Zenon
<1> HIDE DEF s
<1>4. Len(s) # 0 /\ Head(s) = s[1]
  BY <1>1, <1>2
<1>5. Contents(s) = s[1] \o Contents(Tail(s))
  BY <1>2, <1>4, ContentsFirst, Zenon
<1> QED
  BY <1>3, <1>4, <1>5, Zenon DEF s

LEMMA ContentsTwo ==
  ASSUME NEW b \in Seq(Buffers), Len(b) >= 2
  PROVE  Contents(b) = b[1] \o (b[2] \o Contents(SubSeq(b, 3, Len(b))))
<1> DEFINE n == Len(b)
           G(k) == Contents(SubSeq(b, k, n))
<1>1. n \in Nat /\ 1 \in 1 .. n /\ 2 \in 1 .. n /\ 1 + 1 = 2 /\ 2 + 1 = 3
  OBVIOUS
<1>2. \A k \in 1 .. n : G(k) = b[k] \o G(k + 1)
  BY ContentsFrom, Zenon
<1>3. SubSeq(b, 1, n) = b
  BY SubSeqFull
<1> HIDE DEF n, G
<1>4. G(1) = b[1] \o G(2) /\ G(2) = b[2] \o G(3)
  <2>1. G(1) = b[1] \o G(1 + 1)
    BY <1>1, <1>2, Zenon
  <2>2. G(2) = b[2] \o G(2 + 1)
    BY <1>1, <1>2, Zenon
  <2> QED
    BY <1>1, <2>1, <2>2, Zenon
<1>5. G(1) = Contents(b) /\ G(3) = Contents(SubSeq(b, 3, n))
  BY <1>3, Zenon DEF G
<1> QED
  BY <1>4, <1>5, Zenon DEF n

LEMMA ContentsAppend ==
  ASSUME NEW ss \in Seq(Buffers), NEW s \in Buffers
  PROVE  Contents(Append(ss, s)) = Contents(ss) \o s
<1>1. CASE Len(ss) = 0
  <2>1. ss = <<>>
    BY <1>1, EmptySeq, Zenon
  <2>2. Append(<<>>, s) = <<s>> /\ <<>> \o s = s
    BY DEF Buffers
  <2>3. Contents(Append(ss, s)) = s
    BY <2>1, <2>2, ContentsOne, Zenon
  <2>4. Contents(ss) = <<>>
    BY <2>1, ContentsEmpty, Zenon
  <2> QED
    BY <2>2, <2>3, <2>4, Zenon
<1> QED
  BY <1>1, ContentsAppends, Zenon

-----------------------------------------------------------------------------
(* The lines.                                                              *)

LEMMA ConcatSet ==
  ASSUME NEW s \in Seq(Nat), NEW t \in Seq(Nat)
  PROVE  /\ s \o t \in Seq(Nat) /\ Range(s \o t) = Range(s) \cup Range(t)
         /\ Range(s) \subseteq Nat
<1> DEFINE n == Len(s)
           m == Len(t)
           u == s \o t
<1>1. /\ n \in Nat /\ m \in Nat /\ u \in Seq(Nat) /\ Len(u) = n + m
      /\ \A i \in 1 .. n : u[i] = s[i] /\ s[i] \in Nat
      /\ \A i \in n + 1 .. n + m : u[i] = t[i - n]
      /\ DOMAIN s = 1 .. n /\ DOMAIN t = 1 .. m /\ DOMAIN u = 1 .. n + m
  OBVIOUS
<1> HIDE DEF n, m, u
<1>2. /\ \A i \in 1 .. n : i \in 1 .. n + m
      /\ \A i \in 1 .. m : n + i \in 1 .. n + m /\ n + i \in n + 1 .. n + m /\ (n + i) - n = i
      /\ \A i \in 1 .. n + m : i \in 1 .. n \/ (i \in n + 1 .. n + m /\ i - n \in 1 .. m)
  BY <1>1
<1>3. Range(s) \cup Range(t) \subseteq Range(u)
  <2>1. \A i \in 1 .. m : t[i] = u[n + i]
    BY <1>1, <1>2, Zenon
  <2>2. Range(s) \subseteq Range(u)
    BY <1>1, <1>2, ZenonT(30) DEF Range
  <2>3. ASSUME NEW i \in 1 .. m PROVE t[i] \in Range(u)
    <3>1. n + i \in DOMAIN u /\ t[i] = u[n + i]
      BY <1>1, <1>2, <2>1, Zenon
    <3> QED
      BY <3>1, Zenon DEF Range
  <2>4. Range(t) \subseteq Range(u)
    BY <1>1, <2>3 DEF Range
  <2> QED
    BY <2>2, <2>4, Zenon
<1>4. Range(u) \subseteq Range(s) \cup Range(t)
  BY <1>1, <1>2, ZenonT(30) DEF Range
<1> QED
  BY <1>1, <1>3, <1>4, Zenon DEF u, Range

LEMMA ConcatOrdered ==
  ASSUME NEW s \in Seq(Nat), NEW t \in Seq(Nat)
  PROVE  Ordered(s \o t) <=>
           /\ Ordered(s) /\ Ordered(t)
           /\ \A x \in Range(s) \ {0}, y \in Range(t) \ {0} : x < y
<1> DEFINE n == Len(s)
           m == Len(t)
           u == s \o t
<1>1. /\ n \in Nat /\ m \in Nat /\ u \in Seq(Nat) /\ Len(u) = n + m
      /\ \A i \in 1 .. n : u[i] = s[i]
      /\ \A i \in n + 1 .. n + m : u[i] = t[i - n]
      /\ DOMAIN s = 1 .. n /\ DOMAIN t = 1 .. m /\ DOMAIN u = 1 .. n + m
  OBVIOUS
<1> HIDE DEF n, m, u
<1>2. /\ \A i \in 1 .. n : i \in 1 .. n + m
      /\ \A i \in 1 .. m : n + i \in 1 .. n + m /\ n + i \in n + 1 .. n + m /\ (n + i) - n = i
      /\ \A i \in 1 .. n + m : i \in 1 .. n \/ (i \in n + 1 .. n + m /\ i - n \in 1 .. m)
      /\ \A i \in 1 .. n, j \in 1 .. m : i < n + j
      /\ \A i, j \in 1 .. m : i < j => n + i < n + j
  BY <1>1
<1>3. \A i \in 1 .. m : t[i] = u[n + i]
  BY <1>1, <1>2, Zenon
<1>4. ASSUME Ordered(u) PROVE Ordered(s)
  BY <1>1, <1>2, <1>4, Zenon DEF Ordered
<1>5. ASSUME Ordered(u) PROVE Ordered(t)
  <2>1. SUFFICES ASSUME NEW i \in 1 .. m, NEW j \in 1 .. m, i < j, t[i] # 0, t[j] # 0
                 PROVE  t[i] < t[j]
    BY <1>1, Zenon DEF Ordered
  <2>2. n + i \in 1 .. n + m /\ n + j \in 1 .. n + m /\ n + i < n + j
    BY <1>2, <2>1, Zenon
  <2>3. u[n + i] = t[i] /\ u[n + j] = t[j]
    BY <1>3, Zenon
  <2> QED
    BY <1>1, <1>5, <2>1, <2>2, <2>3, Zenon DEF Ordered
<1>6. ASSUME Ordered(u), NEW x \in Range(s) \ {0}, NEW y \in Range(t) \ {0} PROVE x < y
  <2>1. PICK i \in 1 .. n : s[i] = x
    BY <1>1 DEF Range
  <2>2. PICK j \in 1 .. m : t[j] = y
    BY <1>1, Zenon DEF Range
  <2>3. u[i] = x /\ u[n + j] = y /\ i \in 1 .. n + m /\ n + j \in 1 .. n + m /\ i < n + j
    BY <1>1, <1>2, <1>3, <2>1, <2>2, Zenon
  <2> QED
    BY <1>1, <1>6, <2>3, Zenon DEF Ordered
<1>7. ASSUME Ordered(s), Ordered(t), \A x \in Range(s) \ {0}, y \in Range(t) \ {0} : x < y
      PROVE  Ordered(u)
  <2>1. SUFFICES ASSUME NEW i \in 1 .. n + m, NEW j \in 1 .. n + m, i < j, u[i] # 0, u[j] # 0
                 PROVE  u[i] < u[j]
    BY <1>1, Zenon DEF Ordered
  <2>2. CASE i \in 1 .. n /\ j \in 1 .. n
    BY <1>1, <1>7, <2>1, <2>2, Zenon DEF Ordered
  <2>3. CASE i \in n + 1 .. n + m /\ j \in n + 1 .. n + m
    <3>1. i - n \in 1 .. m /\ j - n \in 1 .. m /\ i - n < j - n
      BY <1>1, <2>1, <2>3
    <3> QED
      BY <1>1, <1>7, <2>1, <2>3, <3>1, Zenon DEF Ordered
  <2>4. CASE i \in 1 .. n /\ j \in n + 1 .. n + m
    <3>1. j - n \in 1 .. m
      BY <1>1, <2>4
    <3>2. u[i] \in Range(s) /\ u[j] \in Range(t)
      BY <1>1, <2>4, <3>1, Zenon DEF Range
    <3> QED
      BY <1>7, <2>1, <3>2, Zenon
  <2>5. ~(i \in n + 1 .. n + m /\ j \in 1 .. n)
    BY <1>1, <2>1
  <2> QED
    BY <1>2, <2>2, <2>3, <2>4, <2>5, Zenon
<1> QED
  BY <1>4, <1>5, <1>6, <1>7, Zenon DEF u

\* Where the lines are, and what the backend has left to write.
LineInv ==
  /\ LinesConserved /\ disk \in Seq(Nat) /\ unflushed \in Seq(Nat)
  /\ toWrite \in Nat /\ toWrite <= Len(buffersToWrite)
  /\ bpc = "drop" => toWrite = Len(buffersToWrite)
  /\ bpc \in {"none", "done"} => buffersToWrite = <<>>
  /\ bpc = "none" => unflushed = <<>>

LEMMA PlacesTyped ==
  ASSUME BufferInv, LineInv
  PROVE  /\ Files \in Seq(Nat) /\ Unwritten \in Seq(Nat) /\ Contents(buffers_) \in Seq(Nat)
         /\ currentBuffer_[1] \in Seq(Nat) /\ Memory \in Seq(Nat)
<1>1. Files \in Seq(Nat)
  BY DEF LineInv, Files
<1>2. /\ buffersToWrite \in Seq(Buffers) /\ buffers_ \in Seq(Buffers)
      /\ currentBuffer_[1] \in Seq(Nat) /\ toWrite \in Nat /\ toWrite <= Len(buffersToWrite)
  BY Zenon DEF BufferInv, LineInv, Buffers
<1>3. Contents(buffers_) \in Seq(Nat)
  BY <1>2, ContentsTyped, Zenon DEF Buffers
<1>4. SubSeq(buffersToWrite, Len(buffersToWrite) - toWrite + 1, Len(buffersToWrite)) \in Seq(Buffers)
  <2> DEFINE b == buffersToWrite
             n == Len(b)
             k == n - toWrite + 1
  <2>1. n \in Int /\ k \in Int /\ k >= 1 /\ \A i \in k .. n : b[i] \in Buffers
    BY <1>2
  <2> QED
    BY <2>1, SubSeqProperties, Zenon
<1>5. Unwritten \in Seq(Nat)
  BY <1>4, ContentsTyped, Zenon DEF Unwritten, Buffers
<1>6. Contents(buffers_) \o currentBuffer_[1] \in Seq(Nat)
  BY <1>2, <1>3
<1>7. Memory \in Seq(Nat)
  BY <1>5, <1>6 DEF Memory
<1> QED
  BY <1>1, <1>2, <1>3, <1>5, <1>7, Zenon

\* Lines move from memory to the files.
LEMMA LinesMove ==
  ASSUME LinesConserved, Files \in Seq(Nat), NEW b \in Seq(Nat), Memory' \in Seq(Nat),
         Files' = Files \o b, Memory = b \o Memory', UNCHANGED <<lines, dropped>>
  PROVE  LinesConserved'
<1> DEFINE f == Files
           m == Memory'
<1>0. f \in Seq(Nat) /\ m \in Seq(Nat) /\ Files' = f \o b /\ Memory = b \o m
  OBVIOUS
<1> HIDE DEF f, m
<1>1. (f \o b) \o m = f \o (b \o m)
  BY <1>0, Associative, ZenonT(30)
<1>2. Ordered(f \o (b \o m))
  BY <1>0, Zenon DEF LinesConserved, f
<1>3. Ordered((f \o b) \o m)
  BY <1>1, <1>2
<1>4. /\ Range(f \o b) = Range(f) \cup Range(b) /\ Range(b \o m) = Range(b) \cup Range(m)
  BY <1>0, ConcatSet, Zenon
<1>5. (Range(f) \ {0}) \cup Range(b \o m) = (1 .. lines) \ dropped /\ dropped \subseteq 1 .. lines
  BY <1>0, Zenon DEF LinesConserved, f
<1>6. 0 \notin 1 .. lines
  OBVIOUS
<1>7. (Range(f \o b) \ {0}) \cup Range(m) = (1 .. lines) \ dropped
  BY <1>4, <1>5, <1>6, Zenon
<1> QED
  BY <1>0, <1>3, <1>5, <1>7, Zenon DEF LinesConserved, m

\* A line is appended.
LEMMA LineAppended ==
  ASSUME LinesConserved, Files \in Seq(Nat), Memory \in Seq(Nat), lines \in Nat,
         lines' = lines + 1, Memory' = Memory \o <<lines + 1>>, UNCHANGED <<Files, dropped>>
  PROVE  LinesConserved'
<1> DEFINE f == Files
           m == Memory
           s == <<lines + 1>>
<1>0. f \in Seq(Nat) /\ m \in Seq(Nat) /\ s \in Seq(Nat) /\ Files' = f /\ Memory' = m \o s
      /\ Range(s) = {lines + 1}
  BY DEF Range
<1>1. Ordered(s)
  BY DEF Ordered
<1> HIDE DEF f, m, s
<1>2. Ordered(f \o m) /\ (Range(f) \ {0}) \cup Range(m) = (1 .. lines) \ dropped
      /\ dropped \subseteq 1 .. lines
  BY Zenon DEF LinesConserved, f, m
<1>3. f \o m \in Seq(Nat) /\ Range(f \o m) = Range(f) \cup Range(m) /\ Range(m \o s) = Range(m) \cup Range(s)
  BY <1>0, ConcatSet, Zenon
<1>4. \A x \in Range(f \o m) \ {0}, y \in Range(s) \ {0} : x < y
  BY <1>0, <1>2, <1>3
<1>5. Ordered((f \o m) \o s)
  BY <1>0, <1>1, <1>2, <1>3, <1>4, ConcatOrdered, Zenon
<1>6. Ordered(f \o (m \o s))
  BY <1>0, <1>5, Associative, ZenonT(30)
<1>7. 1 .. lines + 1 = (1 .. lines) \cup {lines + 1} /\ lines + 1 \notin 1 .. lines
  OBVIOUS
<1>8. (Range(f) \ {0}) \cup Range(m \o s) = (1 .. lines + 1) \ dropped /\ dropped \subseteq 1 .. lines + 1
  BY <1>0, <1>2, <1>3, <1>7
<1> QED
  BY <1>0, <1>6, <1>8, Zenon DEF LinesConserved

\* Line 0, the notice that lines were dropped.
Notice == <<0>>

\* Lines are dropped, and a notice is written.
LEMMA LinesDropped ==
  ASSUME LinesConserved, Files \in Seq(Nat), NEW k \in Seq(Nat), NEW r \in Seq(Nat),
         NEW m \in Seq(Nat), Memory = k \o (r \o m), Memory' = k \o m,
         Files' = Files \o Notice, dropped' = dropped \cup Range(r), UNCHANGED lines
  PROVE  LinesConserved'
<1> DEFINE f == Files
           z == Notice
<1>0. f \in Seq(Nat) /\ z \in Seq(Nat) /\ Files' = f \o z /\ Range(z) = {0}
  BY DEF Range, Notice
<1>1. Ordered(z)
  BY DEF Ordered, Notice
<1> HIDE DEF f, z
<1>2. /\ Ordered(f \o (k \o (r \o m))) /\ dropped \subseteq 1 .. lines
      /\ (Range(f) \ {0}) \cup Range(k \o (r \o m)) = (1 .. lines) \ dropped
  BY Zenon DEF LinesConserved, f
<1>3. /\ r \o m \in Seq(Nat) /\ k \o (r \o m) \in Seq(Nat) /\ k \o m \in Seq(Nat) /\ f \o z \in Seq(Nat)
      /\ Range(r \o m) = Range(r) \cup Range(m) /\ Range(k \o (r \o m)) = Range(k) \cup Range(r) \cup Range(m)
      /\ Range(k \o m) = Range(k) \cup Range(m) /\ Range(f \o z) = Range(f) \cup {0}
  <2>1. r \o m \in Seq(Nat) /\ Range(r \o m) = Range(r) \cup Range(m)
    BY ConcatSet
  <2>2. k \o m \in Seq(Nat) /\ Range(k \o m) = Range(k) \cup Range(m)
    BY ConcatSet, Zenon
  <2>3. f \o z \in Seq(Nat) /\ Range(f \o z) = Range(f) \cup Range(z)
    BY <1>0, ConcatSet, Zenon
  <2>4. k \o (r \o m) \in Seq(Nat) /\ Range(k \o (r \o m)) = Range(k) \cup Range(r \o m)
    BY <2>1, ConcatSet, Zenon
  <2> QED
    BY <1>0, <2>1, <2>2, <2>3, <2>4, Zenon
<1>4. /\ Ordered(f) /\ Ordered(k \o (r \o m))
      /\ \A x \in Range(f) \ {0}, y \in Range(k \o (r \o m)) \ {0} : x < y
  BY <1>0, <1>2, <1>3, ConcatOrdered, ZenonT(30)
<1>5. /\ Ordered(k) /\ Ordered(r \o m) /\ \A x \in Range(k) \ {0}, y \in Range(r \o m) \ {0} : x < y
  BY <1>3, <1>4, ConcatOrdered, ZenonT(30)
<1>6. /\ Ordered(m) /\ \A x \in Range(r) \ {0}, y \in Range(m) \ {0} : x < y
  BY <1>5, ConcatOrdered, Zenon
<1>7. Ordered(k \o m)
  BY <1>3, <1>5, <1>6, ConcatOrdered
<1>8. Ordered(f \o z)
  BY <1>0, <1>1, <1>4, ConcatOrdered, Zenon
<1>9. Ordered((f \o z) \o (k \o m))
  <2>1. \A x \in Range(f \o z) \ {0}, y \in Range(k \o m) \ {0} : x < y
    BY <1>3, <1>4
  <2> QED
    BY <1>3, <1>7, <1>8, <2>1, ConcatOrdered, Zenon
<1>10. 0 \notin Range(k) \cup Range(r) \cup Range(m) /\ Range(r) \subseteq 1 .. lines
  <2>1. 0 \notin 1 .. lines
    OBVIOUS
  <2> QED
    BY <1>2, <1>3, <2>1, Zenon
<1>11. Range(r) \cap (Range(f) \cup Range(k) \cup Range(m)) = {}
  <2>1. Range(f) \subseteq Nat /\ Range(k) \subseteq Nat /\ Range(r) \subseteq Nat /\ Range(m) \subseteq Nat
    BY <1>0, ConcatSet, Zenon
  <2>2. ASSUME NEW x \in Range(r) PROVE x \notin Range(f) /\ x \notin Range(k) /\ x \notin Range(m)
    <3>1. x \in Nat /\ x # 0 /\ ~(x < x)
      BY <1>10, <2>1
    <3> QED
      BY <1>3, <1>4, <1>5, <1>6, <3>1
  <2> QED
    BY <2>2, Zenon
<1>12. (Range(f \o z) \ {0}) \cup Range(k \o m) = (1 .. lines) \ (dropped \cup Range(r))
  BY <1>2, <1>3, <1>10, <1>11, Zenon
<1> QED
  BY <1>0, <1>2, <1>9, <1>10, <1>12, Zenon DEF LinesConserved

\* append_unlocked() and rollFile(): the lines end up in the file or on the disk.
LEMMA AppendedToFile ==
  ASSUME disk \in Seq(Nat), unflushed \in Seq(Nat), NEW ls \in Seq(Nat), AppendUnlocked(ls)
  PROVE  disk' \in Seq(Nat) /\ unflushed' \in Seq(Nat) /\ Files' = Files \o ls
<1> DEFINE content == unflushed \o ls
<1>1. content \in Seq(Nat)
  OBVIOUS
<1>2. \/ disk' = disk \o content /\ unflushed' = <<>>
      \/ disk' = disk /\ unflushed' = content
  BY Zenon DEF AppendUnlocked, RollFile
<1>3. disk \o content = Files \o ls
  BY Associative, Zenon DEF Files
<1> HIDE DEF content
<1>4. CASE disk' = disk \o content /\ unflushed' = <<>>
  <2>1. disk' \in Seq(Nat) /\ disk' \o <<>> = disk'
    BY <1>1, <1>4
  <2> QED
    BY <1>3, <1>4, <2>1 DEF Files
<1>5. CASE disk' = disk /\ unflushed' = content
  BY <1>1, <1>3, <1>5, Zenon DEF Files
<1> QED
  BY <1>2, <1>4, <1>5, Zenon

LEMMA FlushMoves ==
  ASSUME disk \in Seq(Nat), unflushed \in Seq(Nat), Flush
  PROVE  disk' \in Seq(Nat) /\ unflushed' \in Seq(Nat) /\ Files' = Files
<1>1. disk' = disk \o unflushed /\ unflushed' = <<>>
  BY Zenon DEF Flush
<1>2. disk' \in Seq(Nat) /\ disk' \o <<>> = disk'
  BY <1>1
<1> QED
  BY <1>1, <1>2 DEF Files

\* A step that leaves the files' lines and the memory's where they are.
LEMMA LinesStay ==
  ASSUME BufferInv, LineInv, Files' = Files, Memory' = Memory, UNCHANGED <<lines, dropped>>
  PROVE  LinesConserved'
<1>1. Files \in Seq(Nat) /\ Memory \in Seq(Nat)
  BY PlacesTyped
<1>2. Files \o <<>> = Files /\ <<>> \o Memory = Memory /\ <<>> \in Seq(Nat)
  BY <1>1
<1> QED
  BY <1>1, <1>2, LinesMove, Zenon DEF LineInv

LEMMA AppendKeepsLines ==
  ASSUME BufferInv, LineInv, AppendLine PROVE LineInv'
<1> DEFINE cur == currentBuffer_[1]
           l == lines + 1
           F == Contents(buffers_)
<1>1. /\ lines' = l /\ lines \in Nat /\ cur \in Buffers /\ buffers_ \in Seq(Buffers)
      /\ UNCHANGED <<disk, unflushed, bpc, buffersToWrite, toWrite, dropped>>
  BY Zenon DEF AppendLine, BufferInv, logfile, backend
<1>2. /\ Files \in Seq(Nat) /\ Unwritten \in Seq(Nat) /\ F \in Seq(Nat) /\ cur \in Seq(Nat)
      /\ Memory \in Seq(Nat) /\ <<l>> \in Seq(Nat) /\ F \o cur \in Seq(Nat)
      /\ Memory = Unwritten \o (F \o cur)
  BY <1>1, PlacesTyped DEF Memory
<1>3. Contents(buffers_)' \o currentBuffer_'[1] = (F \o cur) \o <<l>>
  <2>1. CASE currentBuffer_' = Ptr(Append(cur, l)) /\ UNCHANGED buffers_
    <3>1. currentBuffer_'[1] = cur \o <<l>>
      BY <1>2, <2>1, SMTT(30) DEF Ptr
    <3>2. (F \o cur) \o <<l>> = F \o (cur \o <<l>>)
      <4> DEFINE s == <<l>>
      <4> HIDE DEF s, F, cur
      <4>0. F \in Seq(Nat) /\ cur \in Seq(Nat) /\ s \in Seq(Nat)
        BY <1>2, Zenon DEF s
      <4>1. (F \o cur) \o s = F \o (cur \o s)
        BY <4>0, Associative, Zenon
      <4> QED
        BY <4>1, Zenon DEF s
    <3> QED
      BY <2>1, <3>1, <3>2, Zenon
  <2>2. CASE /\ buffers_' = Append(buffers_, cur)
             /\ currentBuffer_' = Ptr(Append(IF nextBuffer_ # Null THEN nextBuffer_[1] ELSE Empty, l))
    <3>1. (IF nextBuffer_ # Null THEN nextBuffer_[1] ELSE Empty) = <<>>
      BY DEF BufferInv, Ptr, Empty
    <3>2. currentBuffer_'[1] = <<l>>
      <4>1. Append(<<>>, l) = <<l>>
        OBVIOUS
      <4>2. currentBuffer_' = <<<<l>>>>
        BY <2>2, <3>1, <4>1, Zenon DEF Ptr
      <4> QED
        BY <4>2, Zenon
    <3>3. Contents(Append(buffers_, cur)) = F \o cur
      BY <1>1, ContentsAppend
    <3> QED
      BY <2>2, <3>2, <3>3, Zenon
  <2> QED
    BY <2>1, <2>2, Zenon DEF AppendLine
<1>4. Memory' = Memory \o <<l>>
  <2>1. Unwritten' = Unwritten /\ Memory' = Unwritten' \o (Contents(buffers_)' \o currentBuffer_'[1])
    BY <1>1 DEF Unwritten, Memory
  <2>2. (Unwritten \o (F \o cur)) \o <<l>> = Unwritten \o ((F \o cur) \o <<l>>)
    <3> DEFINE s == <<l>>
               m == F \o cur
    <3> HIDE DEF s, m, F, cur
    <3>1. Unwritten \in Seq(Nat) /\ s \in Seq(Nat) /\ m \in Seq(Nat)
      BY <1>2 DEF s, m
    <3>2. (Unwritten \o m) \o s = Unwritten \o (m \o s)
      BY <3>1, Associative, Zenon
    <3> QED
      BY <3>2, Zenon DEF s, m
  <2> QED
    BY <1>2, <1>3, <2>1, <2>2, Zenon
<1>5. Files' = Files
  BY <1>1 DEF Files
<1>6. LinesConserved'
  BY <1>1, <1>2, <1>4, <1>5, LineAppended, Zenon DEF LineInv
<1> QED
  BY <1>1, <1>6, Zenon DEF LineInv

LEMMA TakeKeepsLines ==
  ASSUME BufferInv, LineInv, TakeBuffers PROVE LineInv'
<1> DEFINE cur == currentBuffer_[1]
           F == Contents(buffers_)
           b == Append(buffers_, cur)
<1>1. /\ bpc \in {"wait", "lock"} /\ buffersToWrite' = b /\ buffers_' = <<>>
      /\ currentBuffer_' = newBuffer1 /\ bpc' = "drop" /\ toWrite' = Len(b)
      /\ UNCHANGED <<disk, unflushed, lines, dropped>>
  BY Zenon DEF TakeBuffers, logfile
<1>2. /\ newBuffer1 = Ptr(Empty) /\ buffersToWrite = <<>> /\ cur \in Buffers /\ buffers_ \in Seq(Buffers)
  BY <1>1, Zenon DEF BufferInv
<1>3. F \in Seq(Nat) /\ cur \in Seq(Nat) /\ F \o cur \in Seq(Nat)
  BY PlacesTyped
<1>4. b \in Seq(Buffers) /\ Len(b) \in Nat
  BY <1>2
<1>5. Unwritten = <<>>
  <2>1. Len(buffersToWrite) = 0 /\ toWrite = 0
    BY <1>2 DEF LineInv
  <2>2. SubSeq(buffersToWrite, 1, 0) = <<>>
    BY SubSeqEmpty
  <2>3. Len(buffersToWrite) - toWrite + 1 = 1
    BY <2>1
  <2>4. Unwritten = Contents(SubSeq(buffersToWrite, 1, 0))
    BY <2>1, <2>3 DEF Unwritten
  <2> QED
    BY <2>2, <2>4, ContentsEmpty, Zenon
<1>6. Unwritten' = F \o cur
  <2> HIDE DEF b
  <2>1. SubSeq(b, Len(b) - Len(b) + 1, Len(b)) = b
    <3>1. Len(b) - Len(b) + 1 = 1
      BY <1>4
    <3> QED
      BY <1>4, <3>1, SubSeqFull, Zenon
  <2>2. Unwritten' = Contents(b)
    BY <1>1, <2>1, Zenon DEF Unwritten
  <2>3. Contents(b) = F \o cur
    BY <1>2, ContentsAppend, Zenon DEF b
  <2> QED
    BY <2>2, <2>3, Zenon
<1>7. Contents(buffers_)' = <<>> /\ currentBuffer_'[1] = <<>>
  BY <1>1, <1>2, ContentsEmpty, Zenon DEF Ptr, Empty
<1>8. Memory = F \o cur /\ Memory' = F \o cur
  <2>1. <<>> \o (F \o cur) = F \o cur /\ (F \o cur) \o (<<>> \o <<>>) = F \o cur
    BY <1>3
  <2>2. Memory = <<>> \o (F \o cur)
    BY <1>5, Zenon DEF Memory
  <2>3. Memory' = (F \o cur) \o (<<>> \o <<>>)
    BY <1>6, <1>7, Zenon DEF Memory
  <2> QED
    BY <2>1, <2>2, <2>3, Zenon
<1>9. Files' = Files
  BY <1>1 DEF Files
<1>10. LinesConserved'
  BY <1>1, <1>8, <1>9, LinesStay, Zenon
<1>11. Len(buffersToWrite') = toWrite' /\ toWrite' \in Nat
  BY <1>1, <1>4
<1> QED
  BY <1>1, <1>10, <1>11 DEF LineInv

\* The buffers in the middle are dropped: two are left to write.
LEMMA DropKeepsLines ==
  ASSUME BufferInv, LineInv, DropBuffers PROVE LineInv'
<1> DEFINE b == buffersToWrite
           n == Len(b)
           rest == Contents(SubSeq(b, 3, n))
           mem == Contents(buffers_) \o currentBuffer_[1]
<1>1. /\ bpc = "drop" /\ bpc' = "write" /\ toWrite = n /\ b \in Seq(Buffers) /\ n \in Nat
      /\ UNCHANGED <<lines, buffers_, currentBuffer_>> /\ disk \in Seq(Nat) /\ unflushed \in Seq(Nat)
  BY DEF DropBuffers, LineInv, BufferInv, front
<1>2. mem \in Seq(Nat) /\ Files \in Seq(Nat) /\ Memory = Unwritten \o mem
  BY PlacesTyped DEF Memory
<1>3. Memory' = Unwritten' \o mem
  BY <1>1, Zenon DEF Memory
<1>4. CASE UNCHANGED <<disk, unflushed, dropped, buffersToWrite, toWrite>>
  <2>1. Files' = Files /\ Unwritten' = Unwritten
    BY <1>4, Zenon DEF Files, Unwritten
  <2>2. LinesConserved'
    BY <1>1, <1>2, <1>3, <1>4, <2>1, LinesStay
  <2> QED
    BY <1>1, <1>4, <2>2 DEF LineInv
<1>5. CASE /\ n > DropAbove /\ AppendUnlocked(<<0>>) /\ dropped' = dropped \cup Range(rest)
           /\ buffersToWrite' = SubSeq(b, 1, 2) /\ toWrite' = 2
  <2>1. n > 2 /\ 1 \in 1 .. n /\ 2 \in 1 .. n
    BY <1>1, <1>5, LoggingAssumption
  <2>2. b[1] \in Seq(Nat) /\ b[2] \in Seq(Nat) /\ b[1] \o b[2] \in Seq(Nat)
    BY <1>1, <2>1 DEF Buffers
  <2>3. rest \in Seq(Nat)
    <3>1. \A i \in 3 .. n : b[i] \in Buffers
      BY <1>1
    <3>2. SubSeq(b, 3, n) \in Seq(Buffers)
      BY <1>1, <3>1, SubSeqProperties
    <3> QED
      BY <3>2, ContentsTyped, Zenon DEF Buffers
  <2> DEFINE two == SubSeq(b, 1, 2)
             B1 == b[1]
             B2 == b[2]
  <2>4. two \in Seq(Buffers) /\ Len(two) = 2 /\ two[1] = B1 /\ two[2] = B2
    BY <1>1, <2>1
  <2> HIDE DEF b, n, rest, mem, two, B1, B2
  <2>5. Unwritten = B1 \o (B2 \o rest)
    <3>1. Len(b) >= 2
      BY <1>1, <2>1 DEF n
    <3>2. Contents(b) = B1 \o (B2 \o rest)
      BY <1>1, <3>1, ContentsTwo, Zenon DEF n, B1, B2, rest
    <3>3. Unwritten = Contents(SubSeq(b, n - n + 1, n)) /\ n - n + 1 = 1
      BY <1>1 DEF Unwritten, b, n
    <3>4. SubSeq(b, 1, n) = b
      BY <1>1, SubSeqFull, Zenon DEF n
    <3> QED
      BY <3>2, <3>3, <3>4, Zenon
  <2>6. Unwritten' = B1 \o B2
    <3>1. Len(two) >= 2
      BY <2>4
    <3>2. Contents(two) = two[1] \o (two[2] \o Contents(SubSeq(two, 3, Len(two))))
      BY <2>4, <3>1, ContentsTwo, Zenon
    <3>3. Contents(SubSeq(two, 3, Len(two))) = <<>> /\ B2 \o <<>> = B2
      <4>1. SubSeq(two, 3, 2) = <<>>
        BY SubSeqEmpty
      <4>2. SubSeq(two, 3, Len(two)) = <<>>
        BY <2>4, <4>1, Zenon
      <4>3. B2 \o <<>> = B2
        BY <2>2 DEF B2
      <4> QED
        BY <4>2, <4>3, ContentsEmpty, Zenon
    <3>4. Unwritten' = Contents(SubSeq(two, 2 - 2 + 1, 2)) /\ 2 - 2 + 1 = 1
      BY <1>5, <2>4 DEF Unwritten, two, b
    <3>5. SubSeq(two, 1, 2) = two
      BY <2>4, SubSeqFull, Zenon
    <3> QED
      BY <2>4, <3>2, <3>3, <3>4, <3>5, Zenon
  <2>7. Memory = (B1 \o B2) \o (rest \o mem)
    <3>1. B1 \o (B2 \o rest) = (B1 \o B2) \o rest
      BY <2>2, <2>3, Associative, ZenonT(30) DEF B1, B2
    <3>2. B1 \o B2 \in Seq(Nat) /\ mem \in Seq(Nat)
      BY <1>2, <2>2, Zenon DEF B1, B2
    <3>3. ((B1 \o B2) \o rest) \o mem = (B1 \o B2) \o (rest \o mem)
      BY <2>3, <3>2, Associative, Zenon
    <3> QED
      BY <1>2, <2>5, <3>1, <3>3, Zenon
  <2>8. disk' \in Seq(Nat) /\ unflushed' \in Seq(Nat) /\ Files' = Files \o <<0>>
    <3>1. <<0>> \in Seq(Nat)
      OBVIOUS
    <3> QED
      BY <1>1, <1>5, <3>1, AppendedToFile, Zenon
  <2>9. LinesConserved'
    <3>1. B1 \o B2 \in Seq(Nat) /\ Memory' = (B1 \o B2) \o mem
      BY <1>3, <2>2, <2>6 DEF B1, B2
    <3> QED
      BY <1>1, <1>2, <1>5, <2>3, <2>7, <2>8, <3>1, LinesDropped, Zenon DEF LineInv, Notice
  <2>10. Len(buffersToWrite') = 2
    BY <1>5, <2>4, Zenon DEF two, b
  <2> QED
    BY <1>1, <1>5, <2>8, <2>9, <2>10 DEF LineInv
<1> QED
  BY <1>4, <1>5, Zenon DEF DropBuffers, logfile

\* One buffer is written.
LEMMA WriteKeepsLines ==
  ASSUME BufferInv, LineInv, WriteBuffer PROVE LineInv'
<1> DEFINE b == buffersToWrite
           n == Len(b)
           k == n - toWrite + 1
           mem == Contents(buffers_) \o currentBuffer_[1]
<1>1. /\ bpc = "write" /\ toWrite > 0 /\ AppendUnlocked(b[k]) /\ toWrite' = toWrite - 1
      /\ UNCHANGED <<lines, dropped, buffers_, currentBuffer_, bpc, buffersToWrite>>
      /\ b \in Seq(Buffers) /\ n \in Nat /\ toWrite \in Nat /\ toWrite <= n
      /\ disk \in Seq(Nat) /\ unflushed \in Seq(Nat)
  BY DEF WriteBuffer, LineInv, BufferInv, front
<1>2. mem \in Seq(Nat) /\ Files \in Seq(Nat) /\ Memory = Unwritten \o mem /\ Unwritten \in Seq(Nat)
  BY PlacesTyped DEF Memory
<1>3. k \in 1 .. n /\ n - toWrite' + 1 = k + 1 /\ toWrite' \in Nat /\ toWrite' <= n /\ k + 1 \in Nat
  BY <1>1
<1> DEFINE left == Contents(SubSeq(b, k + 1, n))
<1>4. b[k] \in Seq(Nat)
  BY <1>1, <1>3 DEF Buffers
<1>5. Unwritten = b[k] \o left /\ Unwritten' = left
  <2>1. Contents(SubSeq(b, k, n)) = b[k] \o left
    <3> HIDE DEF k
    <3> QED
      BY <1>1, <1>3, ContentsFrom, Zenon
  <2>2. Unwritten' = Contents(SubSeq(b, n - toWrite' + 1, n))
    BY <1>1, Zenon DEF Unwritten
  <2> QED
    BY <1>3, <2>1, <2>2, Zenon DEF Unwritten
<1>6. left \in Seq(Nat)
  <2>1. \A i \in k + 1 .. n : b[i] \in Buffers
    BY <1>1, <1>3
  <2>2. SubSeq(b, k + 1, n) \in Seq(Buffers)
    BY <1>1, <1>3, <2>1, SubSeqProperties
  <2> QED
    BY <2>2, ContentsTyped, Zenon DEF Buffers
<1> DEFINE B == b[k]
<1> HIDE DEF left, mem, B, k
<1>7. disk' \in Seq(Nat) /\ unflushed' \in Seq(Nat) /\ Files' = Files \o B
  BY <1>1, <1>4, AppendedToFile, Zenon DEF B
<1>8. Memory' = left \o mem /\ Memory = B \o (left \o mem) /\ left \o mem \in Seq(Nat) /\ B \in Seq(Nat)
  <2>1. Memory' = Unwritten' \o mem
    BY <1>1, Zenon DEF Memory, mem
  <2>2. (B \o left) \o mem = B \o (left \o mem)
    BY <1>2, <1>4, <1>6, Associative, ZenonT(30) DEF B
  <2> QED
    BY <1>2, <1>4, <1>5, <1>6, <2>1, <2>2 DEF B
<1>9. LinesConserved'
  BY <1>1, <1>2, <1>7, <1>8, LinesMove, Zenon DEF LineInv
<1> QED
  BY <1>1, <1>3, <1>7, <1>9, Zenon DEF LineInv

\* The steps that move no line, or only from a file's buffer to the disk.
LEMMA OthersKeepLines ==
  ASSUME BufferInv, LineInv,
         \/ ThreadBegins \/ TestRunning \/ WaitForSeconds \/ EndRound \/ Start \/ Started \/ Stop
         \/ Stopped \/ Tick \/ UNCHANGED vars
  PROVE  LineInv'
<1>1. /\ disk \in Seq(Nat) /\ unflushed \in Seq(Nat) /\ UNCHANGED <<buffers_, currentBuffer_, lines, dropped, toWrite>>
  BY DEF LineInv, ThreadBegins, TestRunning, WaitForSeconds, EndRound, Start, Started, Stop, Stopped,
         Tick, vars, front, backend
<1>2. disk' \in Seq(Nat) /\ unflushed' \in Seq(Nat) /\ Files' = Files
  <2>1. CASE UNCHANGED <<disk, unflushed>>
    BY <1>1, <2>1 DEF Files
  <2>2. CASE Flush
    BY <1>1, <2>2, FlushMoves, Zenon
  <2>3. CASE ThreadBegins
    <3>1. unflushed = <<>> /\ unflushed' = <<>> /\ (disk' = disk \o <<>> \/ disk' = disk)
      BY <2>3, Zenon DEF ThreadBegins, RollFile, LineInv
    <3>2. disk' = disk
      BY <1>1, <3>1
    <3> QED
      BY <1>1, <3>1, <3>2 DEF Files
  <2> QED
    BY <2>1, <2>2, <2>3, Zenon DEF TestRunning, WaitForSeconds, EndRound, Start, Started, Stop, Stopped, Tick,
       vars, logfile
<1>3. \/ UNCHANGED <<buffersToWrite, bpc>>
      \/ buffersToWrite' = buffersToWrite /\ bpc \in {"none", "test", "lock"} /\ bpc' \in {"test", "lock", "wait", "done"}
      \/ buffersToWrite' = <<>> /\ toWrite = 0 /\ bpc' = "test"
  BY Zenon DEF ThreadBegins, TestRunning, WaitForSeconds, EndRound, Start, Started, Stop, Stopped, Tick, vars, backend
<1>4. Unwritten' = Unwritten
  <2>1. CASE buffersToWrite' = buffersToWrite
    BY <1>1, <2>1, Zenon DEF Unwritten
  <2>2. CASE buffersToWrite' = <<>> /\ toWrite = 0
    <3>1. ASSUME NEW b, Len(b) \in Nat, NEW w, w = 0
          PROVE  Contents(SubSeq(b, Len(b) - w + 1, Len(b))) = <<>>
      <4>1. Len(b) - w + 1 \in Int /\ Len(b) \in Int /\ Len(b) < Len(b) - w + 1
        BY <3>1
      <4>2. SubSeq(b, Len(b) - w + 1, Len(b)) = <<>>
        BY <4>1, SubSeqEmpty, Zenon
      <4> QED
        BY <4>2, ContentsEmpty, Zenon
    <3>2. Len(buffersToWrite) \in Nat /\ Len(buffersToWrite') \in Nat /\ toWrite' = 0
      BY <1>1, <2>2 DEF BufferInv
    <3>3. Unwritten = <<>>
      BY <2>2, <3>1, <3>2, Zenon DEF Unwritten
    <3>4. Unwritten' = <<>>
      BY <3>1, <3>2 DEF Unwritten
    <3> QED
      BY <3>3, <3>4, Zenon
  <2> QED
    BY <1>3, <2>1, <2>2, Zenon
<1>5. Memory' = Memory
  BY <1>1, <1>4, Zenon DEF Memory
<1>6. LinesConserved'
  BY <1>1, <1>2, <1>5, LinesStay
<1>7. bpc' = "none" => bpc = "none" /\ unflushed' = <<>>
  <2>1. bpc' = "none" => bpc = "none"
    BY <1>3, Zenon
  <2>2. ASSUME bpc' = "none" PROVE UNCHANGED unflushed
    BY <2>1, <2>2, Zenon DEF ThreadBegins, TestRunning, WaitForSeconds, EndRound, Start, Started, Stop,
       Stopped, Tick, vars, logfile
  <2> QED
    BY <2>1, <2>2, Zenon DEF LineInv
<1>8. toWrite' <= Len(buffersToWrite') /\ (bpc' = "drop" => toWrite' = Len(buffersToWrite'))
  <2>1. CASE UNCHANGED <<buffersToWrite, bpc>>
    BY <1>1, <2>1, Zenon DEF LineInv
  <2>2. CASE buffersToWrite' = buffersToWrite /\ bpc' \in {"test", "lock", "wait", "done"}
    BY <1>1, <2>2, Zenon DEF LineInv
  <2>3. CASE buffersToWrite' = <<>> /\ toWrite = 0 /\ bpc' = "test"
    BY <1>1, <2>3
  <2> QED
    BY <1>3, <2>1, <2>2, <2>3, Zenon
<1>9. bpc' \in {"none", "done"} => buffersToWrite' = <<>>
  BY <1>3, Zenon DEF LineInv, BufferInv
<1> QED
  BY <1>1, <1>2, <1>6, <1>7, <1>8, <1>9, Zenon DEF LineInv

-----------------------------------------------------------------------------
(* The theorems.                                                           *)

LEMMA InitInv == Init => BufferInv /\ FileInv
<1> SUFFICES ASSUME Init PROVE BufferInv /\ FileInv
  OBVIOUS
<1>1. BufferInv
  <2>1. <<>> \in Seq(Nat) /\ <<>> \in Seq(Seq(Nat)) /\ <<<<>>>> \in Seq(Seq(Nat)) /\ Len(<<<<>>>>) = 1
        /\ <<<<>>>>[1] = <<>> /\ Len(<<>>) = 0
    OBVIOUS
  <2>2. Ptr(Empty) # Null
    BY Zenon DEF Ptr, Empty, Null
  <2> QED
    BY <2>1, <2>2, LoggingAssumption DEF Init, BufferInv, Buffers, Ptr, Empty
<1>2. FileInv
  <2>1. PeriodOf(0) = 0
    BY LogFileAssumption DEF PeriodOf
  <2>2. names = <<>> /\ Len(names) = 0 /\ names \in Seq(Nat)
    BY DEF Init, LogFileInit
  <2> QED
    BY <2>1, <2>2, LogFileAssumption DEF Init, LogFileInit, FileInv
<1> QED
  BY <1>1, <1>2, Zenon

LEMMA NextBuffers == BufferInv /\ [Next]_vars => BufferInv'
  BY AppendKeepsBuffers, TakeKeepsBuffers, RoundKeepsBuffers, OthersKeepBuffers, Zenon DEF Next, Backend

LEMMA InitLines == Init => LineInv
<1> SUFFICES ASSUME Init PROVE LineInv
  OBVIOUS
<1>1. /\ disk = <<>> /\ unflushed = <<>> /\ buffersToWrite = <<>> /\ toWrite = 0 /\ buffers_ = <<>>
      /\ currentBuffer_ = <<<<>>>> /\ bpc = "none" /\ lines = 0 /\ dropped = {}
  BY Zenon DEF Init, LogFileInit, Ptr, Empty
<1>2. Files = <<>> /\ currentBuffer_[1] = <<>> /\ Contents(buffers_) = <<>>
  BY <1>1, ContentsEmpty DEF Files
<1>3. Unwritten = <<>>
  <2>1. SubSeq(<<>>, 1, 0) = <<>> /\ Len(<<>>) = 0 /\ 0 - 0 + 1 = 1
    BY SubSeqEmpty
  <2> QED
    BY <1>1, <2>1, ContentsEmpty, Zenon DEF Unwritten
<1>4. Memory = <<>>
  <2>1. <<>> \o (<<>> \o <<>>) = <<>>
    OBVIOUS
  <2> QED
    BY <1>2, <1>3, <2>1, Zenon DEF Memory
<1>5. Range(<<>>) = {} /\ Ordered(<<>>) /\ <<>> \o <<>> = <<>> /\ 1 .. 0 = {}
  BY DEF Range, Ordered
<1>6. LinesConserved
  BY <1>1, <1>2, <1>4, <1>5, Zenon DEF LinesConserved
<1> QED
  BY <1>1, <1>6 DEF LineInv

LEMMA NextLines == BufferInv /\ LineInv /\ [Next]_vars => LineInv'
  BY AppendKeepsLines, TakeKeepsLines, DropKeepsLines, WriteKeepsLines, OthersKeepLines DEF Next, Backend

LEMMA NextFiles == FileInv /\ [Next]_vars => FileInv'
<1> SUFFICES ASSUME FileInv, [Next]_vars PROVE FileInv'
  OBVIOUS
<1>1. CASE ThreadBegins
  <2>1. RollFile(<<>>, 0, 0) /\ count_' = count_ /\ now' = now
    BY <1>1, Zenon DEF ThreadBegins
  <2>2. count_' \in Nat /\ count_' < CheckEveryN
    BY <2>1, Zenon DEF FileInv
  <2> QED
    BY <2>1, <2>2, RollKeeps, Zenon
<1>2. CASE DropBuffers
  <2>1. now' = now /\ (AppendUnlocked(<<0>>) \/ UNCHANGED logfile)
    BY <1>2, Zenon DEF DropBuffers
  <2> QED
    BY <2>1, AppendKeepsFiles, SameFiles DEF logfile
<1>3. CASE WriteBuffer
  BY <1>3, AppendKeepsFiles DEF WriteBuffer
<1>4. CASE Tick
  BY <1>4, TickKeepsFiles, Zenon
<1>5. CASE \/ AppendLine \/ TestRunning \/ WaitForSeconds \/ TakeBuffers \/ EndRound
           \/ Start \/ Started \/ Stop \/ Stopped \/ UNCHANGED vars
  BY <1>5, SameFiles DEF AppendLine, TestRunning, WaitForSeconds, TakeBuffers, EndRound, Start, Started,
     Stop, Stopped, vars, Flush, logfile
<1> QED
  BY <1>1, <1>2, <1>3, <1>4, <1>5, Zenon DEF Next, Backend

\* LinesConserved, for any sizes, bounds and clocks: every line is in exactly one of
\* the files, the backend's buffers, append()'s buffers and the dropped ones, and
\* those that are not dropped are in the order of append().
THEOREM LinesNeverLost == Spec => []LinesConserved
<1>1. LineInv => LinesConserved
  BY DEF LineInv
<1> QED
  BY <1>1, InitInv, InitLines, NextBuffers, NextLines, PTL DEF Spec

\* The assertions of threadFunc(): each round starts with two empty spare buffers and
\* nothing left to write, and append() always has a current buffer with room,
\* whatever the appenders used meanwhile and however many buffers were dropped.
THEOREM SpareBuffersReturn == Spec => []BuffersRecycled
<1>1. BufferInv => BuffersRecycled
  <2> SUFFICES ASSUME BufferInv PROVE BuffersRecycled
    OBVIOUS
  <2>1. currentBuffer_ # Null
    <3>1. Len(currentBuffer_) = 1
      BY Zenon DEF BufferInv
    <3> QED
      BY <3>1 DEF Null
  <2> QED
    BY <2>1 DEF BufferInv, BuffersRecycled
<1> QED
  BY <1>1, InitInv, NextBuffers, PTL DEF Spec

\* Log files have increasing, hence distinct, names; a full file takes only the appends
\* of the second it was opened in; and fewer than checkEveryN_ appends go to a file
\* whose period is over.
THEOREM FilesRollInTime == Spec => []FilesRoll
<1>1. FileInv => FilesRoll
  <2> SUFFICES ASSUME FileInv PROVE FilesRoll
    OBVIOUS
  <2>1. DOMAIN names = 1 .. Len(names)
    BY DEF FileInv
  <2>2. late < CheckEveryN
    BY LogFileAssumption DEF FileInv
  <2> QED
    BY <2>1, <2>2, Zenon DEF FileInv, FilesRoll
<1> QED
  BY <1>1, InitInv, NextFiles, PTL DEF Spec

-----------------------------------------------------------------------------
(* The part of LinesReachDisk and StopReturns that needs no fairness.      *)

\* Between two rounds, and after the last, nothing is left in the file's buffer.
FlushInv ==
  /\ bpc \in {"none", "test", "lock", "wait", "done"} => unflushed = <<>> /\ toWrite = 0
  /\ opc = "stopped" => bpc = "done"

\* When the backend is between two rounds, or has left, the lines that are neither on
\* the disk nor dropped are those that append() still has.
RestsFlushed ==
  /\ bpc \in {"lock", "wait", "done"} =>
       (1 .. lines) \ dropped
         = (Range(disk) \ {0}) \cup Range(Contents(buffers_) \o currentBuffer_[1])
  /\ opc = "stopped" => bpc = "done"

LEMMA NextFlushes == FlushInv /\ [Next]_vars => FlushInv'
<1> SUFFICES ASSUME FlushInv, [Next]_vars PROVE FlushInv'
  OBVIOUS
<1>1. CASE ThreadBegins
  <2>1. unflushed' = <<>> /\ toWrite' = toWrite /\ bpc' = "test" /\ bpc = "none" /\ opc = "starting" /\ opc' = opc
    BY <1>1, Zenon DEF ThreadBegins, RollFile, FlushInv
  <2> QED
    BY <2>1 DEF FlushInv
<1>2. CASE TestRunning
  <2>1. /\ bpc = "test" /\ UNCHANGED <<toWrite, opc>>
        /\ \/ bpc' = "lock" /\ unflushed' = unflushed
           \/ bpc' = "done" /\ unflushed' = <<>>
    BY <1>2, Zenon DEF TestRunning, Flush, logfile
  <2> QED
    BY <2>1, Zenon DEF FlushInv
<1>3. CASE WaitForSeconds
  <2>1. bpc = "lock" /\ bpc' = "wait" /\ UNCHANGED <<unflushed, toWrite, opc>>
    BY <1>3, Zenon DEF WaitForSeconds, logfile
  <2> QED
    BY <2>1 DEF FlushInv
<1>4. CASE TakeBuffers \/ DropBuffers \/ WriteBuffer
  <2>1. bpc' \in {"drop", "write"} /\ opc' = opc /\ bpc # "done"
    BY <1>4, Zenon DEF TakeBuffers, DropBuffers, WriteBuffer
  <2> QED
    BY <2>1 DEF FlushInv
<1>5. CASE EndRound
  <2>1. bpc = "write" /\ bpc' = "test" /\ unflushed' = <<>> /\ toWrite' = 0 /\ opc' = opc
    BY <1>5, Zenon DEF EndRound, Flush
  <2> QED
    BY <2>1 DEF FlushInv
<1>6. CASE AppendLine \/ Start \/ Started \/ Stop \/ Stopped \/ Tick \/ UNCHANGED vars
  <2>1. /\ UNCHANGED <<bpc, unflushed, toWrite>>
        /\ opc' = "stopped" => opc = "stopped" \/ bpc = "done"
    BY <1>6 DEF AppendLine, Start, Started, Stop, Stopped, Tick, vars, logfile, backend
  <2> QED
    BY <2>1, Zenon DEF FlushInv
<1> QED
  BY <1>1, <1>2, <1>3, <1>4, <1>5, <1>6, Zenon DEF Next, Backend

\* A backend that goes to sleep or leaves has put every line it took on the disk, and
\* when stop() returns nothing is left in the file's buffer: what is missing on the
\* disk is still in the buffers of append(), or was dropped.
THEOREM RestsOnlyFlushed == Spec => []RestsFlushed
<1>1. Init => FlushInv
  BY Zenon DEF Init, LogFileInit, FlushInv
<1>2. BufferInv /\ LineInv /\ FlushInv => RestsFlushed
  <2> SUFFICES ASSUME BufferInv, LineInv, FlushInv, bpc \in {"lock", "wait", "done"}
               PROVE  (1 .. lines) \ dropped
                        = (Range(disk) \ {0}) \cup Range(Contents(buffers_) \o currentBuffer_[1])
    BY Zenon DEF RestsFlushed, FlushInv
  <2>1. unflushed = <<>> /\ toWrite = 0
    BY Zenon DEF FlushInv
  <2>2. Files = disk
    BY <2>1 DEF Files, LineInv
  <2>3. Unwritten = <<>>
    <3>1. Len(buffersToWrite) \in Nat
      BY DEF BufferInv
    <3>2. SubSeq(buffersToWrite, Len(buffersToWrite) - toWrite + 1, Len(buffersToWrite)) = <<>>
      <4>1. Len(buffersToWrite) - toWrite + 1 \in Int /\ Len(buffersToWrite) \in Int
            /\ Len(buffersToWrite) < Len(buffersToWrite) - toWrite + 1
        BY <2>1, <3>1
      <4> QED
        BY <4>1, SubSeqEmpty, Zenon
    <3> QED
      BY <3>2, ContentsEmpty, Zenon DEF Unwritten
  <2>4. Memory = Contents(buffers_) \o currentBuffer_[1]
    <3>1. Contents(buffers_) \o currentBuffer_[1] \in Seq(Nat)
      <4>1. Contents(buffers_) \in Seq(Nat) /\ currentBuffer_[1] \in Seq(Nat)
        BY PlacesTyped, Zenon
      <4> QED
        BY <4>1, ConcatProperties, Zenon
    <3>2. <<>> \o (Contents(buffers_) \o currentBuffer_[1]) = Contents(buffers_) \o currentBuffer_[1]
      BY <3>1, ConcatEmptySeq, Zenon
    <3> QED
      BY <2>3, <3>2, Zenon DEF Memory
  <2> QED
    BY <2>2, <2>4, Zenon DEF LineInv, LinesConserved
<1> QED
  BY <1>1, <1>2, InitInv, InitLines, NextBuffers, NextLines, NextFlushes, PTL DEF Spec
=============================================================================
