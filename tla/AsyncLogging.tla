---------------------------- MODULE AsyncLogging -----------------------------
(***************************************************************************)
(* muduo::AsyncLogging (muduo/base/AsyncLogging.cc): threads append lines  *)
(* under mutex_, a backend thread takes the buffers and writes them to a   *)
(* LogFile, the owner starts and stops it.  Lines are numbered in the      *)
(* order of append(); line 0 is the notice that lines were dropped.  A     *)
(* unique_ptr to a buffer is a sequence of at most one buffer.             *)
(***************************************************************************)
EXTENDS LogFile, Functions

CONSTANTS
  BufferSize,   \* kLargeBuffer, in lines
  DropAbove,    \* 25 in the code
  MaxLines      \* bound on the lines appended

ASSUME LoggingAssumption ==
  BufferSize \in Nat /\ BufferSize > 1 /\ DropAbove \in Nat /\ DropAbove >= 2 /\ MaxLines \in Nat

VARIABLES
  currentBuffer_, nextBuffer_, buffers_, running_,
  bpc,                      \* where the backend is
  newBuffer1, newBuffer2, buffersToWrite,   \* its locals
  toWrite,                  \* how many of buffersToWrite are left to write
  opc,                      \* where the owner is
  lines,                    \* lines appended so far
  dropped                   \* history: lines thrown away

front   == <<currentBuffer_, nextBuffer_, buffers_>>
backend == <<bpc, newBuffer1, newBuffer2, buffersToWrite, toWrite>>
vars == <<logfile, now, front, backend, running_, opc, lines, dropped>>

Empty == <<>>
Null == <<>>
Ptr(b) == <<b>>

\* The lines in a vector of buffers, in order.
Contents(bs) ==
  IF Len(bs) = 0 THEN <<>> ELSE
    LET upTo[i \in 1 .. Len(bs)] == IF i = 1 THEN bs[i] ELSE upTo[i - 1] \o bs[i]
    IN  upTo[Len(bs)]

Init ==
  /\ LogFileInit
  /\ currentBuffer_ = Ptr(Empty) /\ nextBuffer_ = Ptr(Empty) /\ buffers_ = <<>>
  /\ running_ = FALSE /\ bpc = "none" /\ newBuffer1 = Null /\ newBuffer2 = Null
  /\ buffersToWrite = <<>> /\ toWrite = 0
  /\ opc = "new" /\ lines = 0 /\ dropped = {}

\* append(): into the current buffer if it has room, else into the next one.
AppendLine ==
  LET cur == currentBuffer_[1]
      l   == lines + 1
  IN  /\ lines < MaxLines /\ lines' = l
      /\ \/ /\ BufferSize - Len(cur) > 1
            /\ currentBuffer_' = Ptr(Append(cur, l)) /\ UNCHANGED <<nextBuffer_, buffers_>>
         \/ /\ ~(BufferSize - Len(cur) > 1)
            /\ buffers_' = Append(buffers_, cur)
            /\ currentBuffer_' = Ptr(Append(IF nextBuffer_ # Null THEN nextBuffer_[1] ELSE Empty, l))
            /\ nextBuffer_' = Null
      /\ UNCHANGED <<logfile, now, backend, running_, opc, dropped>>

-----------------------------------------------------------------------------
(* threadFunc()                                                            *)

\* start() has started the thread: the latch, the LogFile and two buffers.
ThreadBegins ==
  /\ bpc = "none" /\ opc = "starting"
  /\ RollFile(<<>>, 0, 0) /\ UNCHANGED count_
  /\ newBuffer1' = Ptr(Empty) /\ newBuffer2' = Ptr(Empty)
  /\ bpc' = "test"
  /\ UNCHANGED <<now, front, buffersToWrite, toWrite, running_, opc, lines, dropped>>

\* while (running_), or the flush after the loop.
TestRunning ==
  /\ bpc = "test"
  /\ \/ running_ /\ bpc' = "lock" /\ UNCHANGED logfile
     \/ ~running_ /\ bpc' = "done" /\ Flush
  /\ UNCHANGED <<now, front, newBuffer1, newBuffer2, buffersToWrite, toWrite, running_, opc,
                 lines, dropped>>

\* Nothing to do: wait for a notification or flushInterval_, whichever is first.
WaitForSeconds ==
  /\ bpc = "lock" /\ buffers_ = <<>> /\ bpc' = "wait"
  /\ UNCHANGED <<logfile, now, front, newBuffer1, newBuffer2, buffersToWrite, toWrite, running_,
                 opc, lines, dropped>>

TakeBuffers_CurrentFirst ==
  /\ bpc = "wait" \/ (bpc = "lock" /\ buffers_ # <<>>)
  /\ buffersToWrite' = <<currentBuffer_[1]>> \o buffers_ /\ buffers_' = <<>>
  /\ currentBuffer_' = newBuffer1 /\ newBuffer1' = Null
  /\ IF nextBuffer_ = Null
       THEN nextBuffer_' = newBuffer2 /\ newBuffer2' = Null
       ELSE UNCHANGED <<nextBuffer_, newBuffer2>>
  /\ bpc' = "drop" /\ toWrite' = Len(buffersToWrite')
  /\ UNCHANGED <<logfile, now, running_, opc, lines, dropped>>

\* The rest of the critical section: take the full buffers and the current one,
\* and give back fresh ones.
TakeBuffers ==
  /\ bpc = "wait" \/ (bpc = "lock" /\ buffers_ # <<>>)
  /\ buffersToWrite' = Append(buffers_, currentBuffer_[1]) /\ buffers_' = <<>>
  /\ currentBuffer_' = newBuffer1 /\ newBuffer1' = Null
  /\ IF nextBuffer_ = Null
       THEN nextBuffer_' = newBuffer2 /\ newBuffer2' = Null
       ELSE UNCHANGED <<nextBuffer_, newBuffer2>>
  /\ bpc' = "drop" /\ toWrite' = Len(buffersToWrite')
  /\ UNCHANGED <<logfile, now, running_, opc, lines, dropped>>

\* Too far behind: keep the first two buffers and write a notice.
DropBuffers ==
  /\ bpc = "drop"
  /\ \/ /\ Len(buffersToWrite) > DropAbove
        /\ AppendUnlocked(<<0>>)
        /\ dropped' = dropped \cup
             Range(Contents(SubSeq(buffersToWrite, 3, Len(buffersToWrite))))
        /\ buffersToWrite' = SubSeq(buffersToWrite, 1, 2) /\ toWrite' = 2
     \/ /\ Len(buffersToWrite) <= DropAbove
        /\ UNCHANGED <<logfile, dropped, buffersToWrite, toWrite>>
  /\ bpc' = "write"
  /\ UNCHANGED <<now, front, newBuffer1, newBuffer2, running_, opc, lines>>

\* output.append() of one buffer.
WriteBuffer ==
  /\ bpc = "write" /\ toWrite > 0
  /\ AppendUnlocked(buffersToWrite[Len(buffersToWrite) - toWrite + 1])
  /\ toWrite' = toWrite - 1
  /\ UNCHANGED <<now, front, bpc, newBuffer1, newBuffer2, buffersToWrite, running_, opc, lines,
                 dropped>>

Refill_OnlyFirst(spare) ==
  /\ newBuffer1' = IF newBuffer1 = Null /\ spare >= 1 THEN Ptr(Empty) ELSE newBuffer1
  /\ UNCHANGED newBuffer2

\* Written buffers, reset, take the place of the ones given away; the assertions
\* are that there are enough of them.
Refill(spare) ==
  LET used == IF newBuffer1 = Null THEN 1 ELSE 0
  IN  /\ newBuffer1' = IF newBuffer1 = Null /\ spare >= 1 THEN Ptr(Empty) ELSE newBuffer1
      /\ newBuffer2' = IF newBuffer2 = Null /\ spare > used THEN Ptr(Empty) ELSE newBuffer2

EndRound_NoFlush ==
  /\ bpc = "write" /\ toWrite = 0
  /\ Refill(IF Len(buffersToWrite) > 2 THEN 2 ELSE Len(buffersToWrite))
  /\ buffersToWrite' = <<>> /\ bpc' = "test"
  /\ UNCHANGED <<logfile, now, front, toWrite, running_, opc, lines, dropped>>

\* The end of the loop's body: at most two buffers are kept, and a flush.
EndRound ==
  /\ bpc = "write" /\ toWrite = 0
  /\ Refill(IF Len(buffersToWrite) > 2 THEN 2 ELSE Len(buffersToWrite))
  /\ buffersToWrite' = <<>> /\ Flush /\ bpc' = "test"
  /\ UNCHANGED <<now, front, toWrite, running_, opc, lines, dropped>>

Backend ==
  \/ ThreadBegins \/ TestRunning \/ WaitForSeconds \/ TakeBuffers
  \/ DropBuffers \/ WriteBuffer \/ EndRound

-----------------------------------------------------------------------------
(* The owner, and the clock.                                               *)

Start ==
  /\ opc = "new" /\ running_' = TRUE /\ opc' = "starting"
  /\ UNCHANGED <<logfile, now, front, backend, lines, dropped>>

\* latch_.wait() returns.
Started ==
  /\ opc = "starting" /\ bpc # "none" /\ opc' = "started"
  /\ UNCHANGED <<logfile, now, front, backend, running_, lines, dropped>>

Stop_OnlyNotifies ==
  /\ opc = "started" /\ opc' = "stopping"
  /\ UNCHANGED <<logfile, now, front, backend, running_, lines, dropped>>

\* stop(), called by the owner or by the destructor.
Stop ==
  /\ opc = "started" /\ running_' = FALSE /\ opc' = "stopping"
  /\ UNCHANGED <<logfile, now, front, backend, lines, dropped>>

\* thread_.join() returns.
Stopped ==
  /\ opc = "stopping" /\ bpc = "done" /\ opc' = "stopped"
  /\ UNCHANGED <<logfile, now, front, backend, running_, lines, dropped>>

Tick ==
  /\ now < MaxNow /\ now' = now + 1
  /\ UNCHANGED <<logfile, front, backend, running_, opc, lines, dropped>>

Next == AppendLine \/ Backend \/ Start \/ Started \/ Stop \/ Stopped \/ Tick

\* The backend and the owner's calls run; nobody has to append, start or stop.
Fairness == WF_vars(Backend) /\ WF_vars(Started) /\ WF_vars(Stopped)

Spec == Init /\ [][Next]_vars /\ Fairness

-----------------------------------------------------------------------------
Files == disk \o unflushed
Unwritten == Contents(SubSeq(buffersToWrite, Len(buffersToWrite) - toWrite + 1, Len(buffersToWrite)))
Memory == Unwritten \o (Contents(buffers_) \o currentBuffer_[1])

\* The lines of s, without the notices, are in the order of append() and distinct.
Ordered(s) == \A i, j \in DOMAIN s : i < j /\ s[i] # 0 /\ s[j] # 0 => s[i] < s[j]

\* Every line ever appended is in exactly one place, and in the order of append():
\* in a file, taken by the backend, in a buffer, or among the lines of the
\* buffers that a backend too far behind threw away.
LinesConserved ==
  /\ Ordered(Files \o Memory)
  /\ (Range(Files) \ {0}) \cup Range(Memory) = (1 .. lines) \ dropped
  /\ dropped \subseteq 1 .. lines

\* The assertions of threadFunc(): each round starts with two empty spare
\* buffers and nothing to write, whatever the appenders used meanwhile.
BuffersRecycled ==
  /\ bpc \in {"test", "lock", "wait"} =>
       newBuffer1 = Ptr(Empty) /\ newBuffer2 = Ptr(Empty) /\ buffersToWrite = <<>>
  /\ currentBuffer_ # Null /\ nextBuffer_ \in {Null, Ptr(Empty)}
  /\ Len(currentBuffer_[1]) < BufferSize

\* A line reaches the disk while the backend runs, even if no buffer fills up:
\* the wait ends by itself and the round ends with a flush.
LinesReachDisk ==
  \A l \in 1 .. MaxLines :
    (running_ /\ l <= lines) ~> (l \in Range(disk) \cup dropped \/ ~running_)

\* stop() returns, though its notification may come while the backend is not
\* waiting, and whatever it finds written is then flushed.
StopReturns == opc = "stopping" ~> (opc = "stopped" /\ unflushed = <<>> /\ buffersToWrite = <<>>)
==============================================================================
