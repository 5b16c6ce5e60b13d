------------------------------- MODULE LogFile -------------------------------
(***************************************************************************)
(* muduo::LogFile (muduo/base/LogFile.cc) over FileUtil::AppendFile: what  *)
(* append() and flush() do, as operators that module AsyncLogging puts     *)
(* into its actions.  A line is one unit long; the clock is in the units   *)
(* of time(), and file names are the times they are built from.            *)
(***************************************************************************)
EXTENDS Naturals, Sequences

CONSTANTS
  RollSize, CheckEveryN, FlushInterval,
  RollPerSeconds,    \* kRollPerSeconds_
  MaxNow             \* bound on the clock

ASSUME LogFileAssumption ==
  /\ RollSize \in Nat /\ CheckEveryN \in Nat \ {0} /\ FlushInterval \in Nat
  /\ RollPerSeconds \in Nat \ {0} /\ MaxNow \in Nat \ {0}

VARIABLES
  now,
  disk, unflushed,   \* lines in the files; lines in the buffer of the current file_
  writtenBytes_, count_, startOfPeriod_, lastRoll_, lastFlush_,
  names,             \* history: the times the files are named after
  late, over         \* history: appends to file_ since its period ended, since it was full

logfile == <<disk, unflushed, writtenBytes_, count_, startOfPeriod_, lastRoll_, lastFlush_,
             names, late, over>>

PeriodOf(t) == (t \div RollPerSeconds) * RollPerSeconds

\* Before the constructor.
LogFileInit ==
  /\ now = 1 /\ disk = <<>> /\ unflushed = <<>> /\ writtenBytes_ = 0 /\ count_ = 0
  /\ startOfPeriod_ = 0 /\ lastRoll_ = 0 /\ lastFlush_ = 0 /\ names = <<>>
  /\ late = 0 /\ over = {}

RollFile_Always(content, size, lateNow) ==
  /\ lastRoll_' = now /\ lastFlush_' = now /\ startOfPeriod_' = PeriodOf(now)
  /\ disk' = disk \o content /\ unflushed' = <<>> /\ writtenBytes_' = 0
  /\ names' = Append(names, now) /\ late' = 0 /\ over' = {}

\* rollFile(): the old file_ is closed, which flushes it, and a new one opened,
\* at most once a second.
RollFile(content, size, lateNow) ==
  \/ /\ now > lastRoll_
     /\ lastRoll_' = now /\ lastFlush_' = now /\ startOfPeriod_' = PeriodOf(now)
     /\ disk' = disk \o content /\ unflushed' = <<>> /\ writtenBytes_' = 0
     /\ names' = Append(names, now) /\ late' = 0 /\ over' = {}
  \/ /\ ~(now > lastRoll_)
     /\ unflushed' = content /\ writtenBytes_' = size /\ late' = lateNow
     /\ over' = IF size > RollSize THEN over \cup {now} ELSE over
     /\ UNCHANGED <<disk, lastRoll_, lastFlush_, startOfPeriod_, names>>

\* append_unlocked(lines): roll when the file is full; every CheckEveryN appends
\* look at the clock, and roll in a new period or flush.
AppendUnlocked(lines) ==
  LET content == unflushed \o lines
      size    == writtenBytes_ + Len(lines)
      lateNow == IF PeriodOf(now) # startOfPeriod_ THEN late + 1 ELSE late
  IN  \/ size > RollSize /\ RollFile(content, size, lateNow) /\ UNCHANGED count_
      \/ /\ size <= RollSize /\ count_ + 1 < CheckEveryN
         /\ count_' = count_ + 1
         /\ unflushed' = content /\ writtenBytes_' = size /\ late' = lateNow
         /\ UNCHANGED <<disk, lastRoll_, lastFlush_, startOfPeriod_, names, over>>
      \/ /\ size <= RollSize /\ count_ + 1 >= CheckEveryN
         /\ count_' = 0
         /\ \/ PeriodOf(now) # startOfPeriod_ /\ RollFile(content, size, lateNow)
            \/ /\ PeriodOf(now) = startOfPeriod_
               /\ writtenBytes_' = size /\ late' = lateNow
               /\ IF now - lastFlush_ > FlushInterval
                    THEN disk' = disk \o content /\ unflushed' = <<>> /\ lastFlush_' = now
                    ELSE unflushed' = content /\ UNCHANGED <<disk, lastFlush_>>
               /\ UNCHANGED <<lastRoll_, startOfPeriod_, names, over>>

\* flush()
Flush ==
  /\ disk' = disk \o unflushed /\ unflushed' = <<>>
  /\ UNCHANGED <<writtenBytes_, count_, startOfPeriod_, lastRoll_, lastFlush_, names, late, over>>

\* Files have different names, a file that is full takes no more than the appends
\* of the second it was opened in, and a file whose period is over takes fewer
\* than CheckEveryN: rollFile() refuses to roll twice in a second, and
\* append_unlocked() looks at the clock only now and then.
FilesRoll ==
  /\ \A i, j \in DOMAIN names : i < j => names[i] < names[j]
  /\ over \subseteq {lastRoll_}
  /\ late < CheckEveryN
==============================================================================
