------------------------ MODULE TcpConnectionProofs ------------------------
(***************************************************************************)
(* Theorems about TcpConnection, for any threads, calls, message sizes and *)
(* bounds: bytes keep their order, the channel watches for writability     *)
(* exactly when bytes wait, shutdown() cuts none of them off, the          *)
(* connection is closed once, removed once and destroyed quietly, and no   *)
(* request to close it is forgotten.  Then about the Buffer a connection   *)
(* reads into and writes from, for every size of its areas and every set   *)
(* of byte sequences: its indices keep their order, it is a byte queue, it *)
(* keeps room for a header, and it grows only when it must.                *)
(***************************************************************************)
EXTENDS TcpConnection, Buffer, SequenceTheorems, TLAPS

-----------------------------------------------------------------------------
(* The inductive invariant.                                                *)

Ops == {"destroyed", "send", "shutdown", "forceClose", "startRead", "stopRead", "callback"}
Queueable == [op : Ops, msg : Nat]
Established == Functor("established")
OpenStates == {"kConnected", "kDisconnecting"}
Places == {"idle", "send", "shutdown", "forceClose", "startRead", "stopRead",
           "queue shutdown", "queue forceClose"}

TypeInv ==
  /\ state_ \in OpenStates \cup {"kConnecting", "kDisconnected"}
  /\ outputBuffer_ \in Seq(Nat) /\ wire \in Seq(Nat) /\ accepted \in Seq(Nat)
  /\ sent \in Nat /\ fin \in BOOLEAN
  /\ fpc \in [Threads -> Places]

\* The queue of the loop: connectEstablished() is its first functor until it has
\* run, and never again.
QueueInv ==
  /\ functors \in Seq(Queueable \cup {Established})
  /\ chan = "new" => functors # <<>> /\ functors[1] = Established
  /\ \A i \in 1 .. Len(functors) : functors[i] = Established => i = 1 /\ chan = "new"
  /\ batch \in Nat /\ (phase = "functors" => batch <= Len(functors))

\* Until connectEstablished() has run, nothing happens to the connection.
EarlyInv ==
  /\ chan = "new" => /\ state_ = "kConnecting" /\ events = {} /\ outputBuffer_ = <<>>
                     /\ ~fin /\ revents = {} /\ \A t \in Threads : fpc[t] = "idle"
  /\ chan # "new" => state_ # "kConnecting"

DataInv == StreamInOrder /\ WritingIffPending /\ ShutdownAfterData

IInv == TypeInv /\ QueueInv /\ EarlyInv /\ DataInv

-----------------------------------------------------------------------------
(* The queue.                                                              *)

LEMMA NotEstablished == Established \notin Queueable /\ \A op \in Ops : Functor(op) \in Queueable
  BY Zenon DEF Established, Functor, Queueable, Ops

\* A sequence is one of whatever its elements are.
LEMMA SeqOfElements ==
  ASSUME NEW T, NEW S, NEW s \in Seq(T), \A i \in 1 .. Len(s) : s[i] \in S
  PROVE  s \in Seq(S)
<1>1. s \in [1 .. Len(s) -> S] /\ Len(s) \in Nat
  BY LenProperties, Zenon
<1> QED
  BY <1>1, SeqDef

\* Once connectEstablished() has run, the queue is free of it.
LEMMA PlainQueue ==
  ASSUME QueueInv, chan # "new" PROVE functors \in Seq(Queueable)
  BY DEF QueueInv

\* doPendingFunctors() takes the first functor.
LEMMA Popped ==
  ASSUME QueueInv, phase = "functors", batch > 0
  PROVE  /\ functors # <<>> /\ Tail(functors) \in Seq(Queueable)
         /\ Len(Tail(functors)) >= batch - 1
         /\ chan # "new" => Head(functors) \in Queueable
         /\ chan = "new" <=> Head(functors) = Established
<1>1. functors \in Seq(Queueable \cup {Established}) /\ Len(functors) \in Nat /\ Len(functors) >= batch
      /\ batch \in Nat
  BY DEF QueueInv
<1>2. functors # <<>> /\ Len(functors) > 0 /\ Head(functors) = functors[1] /\ 1 \in 1 .. Len(functors)
  BY <1>1
<1>3. Tail(functors) \in Seq(Queueable \cup {Established}) /\ Len(Tail(functors)) = Len(functors) - 1
  BY <1>1, <1>2
<1>4. \A i \in 1 .. Len(Tail(functors)) : Tail(functors)[i] = functors[i + 1] /\ i + 1 \in 1 .. Len(functors) /\ i + 1 # 1
  BY <1>1, <1>2, <1>3
<1>5. \A i \in 1 .. Len(Tail(functors)) : Tail(functors)[i] \in Queueable
  BY <1>1, <1>4 DEF QueueInv
<1>6. Tail(functors) \in Seq(Queueable)
  BY <1>3, <1>5, SeqOfElements, Zenon
<1> QED
  BY <1>1, <1>2, <1>3, <1>6 DEF QueueInv

\* What a step leaves in the queue is q, with more functors after it.
Grown(q) == functors' \in Seq(Queueable) /\ Len(functors') >= Len(q)

LEMMA GrownBy ==
  ASSUME NEW q \in Seq(Queueable)
  PROVE  /\ functors' = q => Grown(q)
         /\ \A f \in Queueable : functors' = Append(q, f) => Grown(q)
  BY DEF Grown

LEMMA GrownKeeps ==
  ASSUME NEW q \in Seq(Queueable), Grown(q), chan' # "new", batch' \in Nat,
         phase' = "functors" => batch' <= Len(q)
  PROVE  QueueInv'
<1>1. \A i \in 1 .. Len(functors') : functors'[i] # Established
  BY NotEstablished DEF Grown
<1>2. functors' \in Seq(Queueable \cup {Established}) /\ Len(functors') \in Nat /\ Len(q) \in Nat
  BY DEF Grown
<1> QED
  BY <1>1, <1>2 DEF QueueInv, Grown

\* Another loop or thread appends a functor, at any time.
LEMMA PushedKeeps ==
  ASSUME QueueInv, NEW f \in Queueable, functors' = Append(functors, f),
         chan' = chan, batch' = batch, phase' = phase
  PROVE  QueueInv'
<1> DEFINE n == Len(functors)
<1>1. functors \in Seq(Queueable \cup {Established}) /\ n \in Nat /\ f # Established
  BY NotEstablished DEF QueueInv
<1>2. functors' \in Seq(Queueable \cup {Established}) /\ Len(functors') = n + 1
  BY <1>1
<1>3. (\A i \in 1 .. n : functors'[i] = functors[i]) /\ functors'[n + 1] = f
  BY <1>1
<1>4. \A i \in 1 .. n + 1 : functors'[i] = Established => i = 1 /\ chan' = "new"
  BY <1>1, <1>3 DEF QueueInv
<1>5. chan' = "new" => functors' # <<>> /\ functors'[1] = Established
  BY <1>1, <1>2, <1>3 DEF QueueInv
<1>6. batch' \in Nat /\ (phase' = "functors" => batch' <= Len(functors'))
  BY <1>1, <1>2 DEF QueueInv
<1> QED
  BY <1>2, <1>4, <1>5, <1>6, Zenon DEF QueueInv

-----------------------------------------------------------------------------
(* The stream.                                                             *)

\* A step that writes, buffers and shuts down nothing.
LEMMA DataKept ==
  ASSUME DataInv, UNCHANGED <<stream, fin>>, races \subseteq races',
         \/ state_' = "kDisconnected"
         \/ races' # {}
         \/ /\ "write" \in events' <=> "write" \in events
            /\ state_' = state_ \/ (state_ \in OpenStates /\ state_' \in OpenStates)
  PROVE  DataInv'
  BY Zenon DEF DataInv, StreamInOrder, WritingIffPending, ShutdownAfterData, Orderly, stream, OpenStates

LEMMA BytesAssociative ==
  \A a, b, c \in Seq(Nat) : (a \o b) \o c = a \o (b \o c)
  BY ConcatAssociative

\* n bytes of a message, and the rest of them.
LEMMA MessageSplit ==
  ASSUME NEW k \in Nat, NEW m \in Nat, NEW n \in 0 .. m
  PROVE  /\ Bytes(k, n) \in Seq(Nat) /\ Bytes(k, m - n) \in Seq(Nat) /\ Bytes(k, m) \in Seq(Nat)
         /\ Bytes(k, n) \o Bytes(k, m - n) = Bytes(k, m)
         /\ n < m => Bytes(k, m - n) # <<>>
<1>1. /\ Bytes(k, n) \in Seq(Nat) /\ Bytes(k, m - n) \in Seq(Nat) /\ Bytes(k, m) \in Seq(Nat)
      /\ Len(Bytes(k, n)) = n /\ Len(Bytes(k, m - n)) = m - n /\ Len(Bytes(k, m)) = m
  BY DEF Bytes
<1> DEFINE c == Bytes(k, n) \o Bytes(k, m - n)
<1>2. c \in Seq(Nat) /\ Len(c) = m
  <2>1. c \in Seq(Nat) /\ Len(c) = Len(Bytes(k, n)) + Len(Bytes(k, m - n))
    BY <1>1, ConcatProperties, Zenon
  <2> HIDE DEF c
  <2> QED
    BY <1>1, <2>1
<1>3. \A i \in 1 .. m : c[i] = k /\ Bytes(k, m)[i] = k
  <2>1. \A i \in 1 .. m : c[i] = IF i <= n THEN Bytes(k, n)[i] ELSE Bytes(k, m - n)[i - n]
    <3>1. \A i \in 1 .. Len(Bytes(k, n)) + Len(Bytes(k, m - n)) :
            c[i] = IF i <= Len(Bytes(k, n)) THEN Bytes(k, n)[i] ELSE Bytes(k, m - n)[i - Len(Bytes(k, n))]
      BY <1>1, ConcatProperties, Zenon
    <3>2. Len(Bytes(k, n)) + Len(Bytes(k, m - n)) = m
      BY <1>1
    <3> HIDE DEF c
    <3> QED
      BY <1>1, <3>1, <3>2, Zenon
  <2>2. (\A i \in 1 .. n : Bytes(k, n)[i] = k) /\ (\A i \in 1 .. m - n : Bytes(k, m - n)[i] = k)
        /\ (\A i \in 1 .. m : Bytes(k, m)[i] = k)
    BY Zenon DEF Bytes
  <2> HIDE DEF c
  <2> SUFFICES ASSUME NEW i \in 1 .. m PROVE c[i] = k
    BY <2>2, Zenon
  <2>3. CASE i <= n
    BY <2>1, <2>2, <2>3
  <2>4. CASE ~(i <= n)
    <3>1. i - n \in 1 .. m - n
      BY <2>4
    <3>2. Bytes(k, m - n)[i - n] = k
      BY <2>2, <3>1, Zenon
    <3> QED
      BY <2>1, <2>4, <3>2, Zenon
  <2> QED
    BY <2>3, <2>4, Zenon
<1>4. c = Bytes(k, m)
  BY <1>1, <1>2, <1>3, SeqEqual, Zenon
<1>5. n < m => Bytes(k, m - n) # <<>>
  BY <1>1
<1> QED
  BY <1>1, <1>4, <1>5, Zenon

\* The end of sendInLoop().
LEMMA BufferIs ==
  ASSUME NEW k, NEW n, NEW q \in Seq(Queueable), BufferOutput(k, n, q), chan # "new"
  PROVE  /\ outputBuffer_' = outputBuffer_ \o Bytes(k, n)
         /\ "write" \in events' /\ chan' # "new" /\ Grown(q)
<1>1. Functor("callback") \in Queueable
  BY NotEstablished, Zenon DEF Ops
<1>2. Grown(q)
  BY <1>1, GrownBy, Zenon DEF BufferOutput
<1> QED
  BY <1>2, Zenon DEF BufferOutput, SetEvents

StreamTyped == outputBuffer_' \in Seq(Nat) /\ wire' \in Seq(Nat) /\ accepted' \in Seq(Nat)

\* What sendInLoop() does to the stream, however much write() takes.
LEMMA SendKeeps ==
  ASSUME TypeInv, DataInv, EarlyInv, chan # "new", NEW k \in Nat, NEW q \in Seq(Queueable),
         SendInLoop(k, q), UNCHANGED <<state_, fin, races>>
  PROVE  DataInv' /\ StreamTyped /\ chan' # "new" /\ Grown(q)
<1> USE DEF OpenStates
<1>1. Functor("callback") \in Queueable /\ MsgLen \in Nat \ {0}
  BY NotEstablished, ConnectionAssumption, Zenon DEF Ops
<1>0. outputBuffer_ \in Seq(Nat) /\ wire \in Seq(Nat) /\ accepted \in Seq(Nat)
  BY Zenon DEF TypeInv
<1>2. CASE GiveUpWriting(q) \/ WriteFault(q)
  <2>1. functors' = q /\ UNCHANGED <<events, chan, stream>>
    BY <1>2, Zenon DEF GiveUpWriting, WriteFault
  <2>2. DataInv' /\ Grown(q)
    BY <2>1, DataKept, GrownBy, Zenon
  <2> QED
    BY <2>1, <2>2, Zenon DEF TypeInv, StreamTyped, stream
<1>3. CASE "write" \notin events /\ outputBuffer_ = <<>> /\ WriteDirectly(k, q)
  <2>1. PICK n \in 0 .. MsgLen :
          /\ wire' = wire \o Bytes(k, n) /\ accepted' = accepted \o Bytes(k, MsgLen)
          /\ \/ n < MsgLen /\ BufferOutput(k, MsgLen - n, q)
             \/ /\ n = MsgLen /\ functors' = Append(q, Functor("callback"))
                /\ UNCHANGED <<events, chan, outputBuffer_>>
    BY <1>3, Zenon DEF WriteDirectly
  <2>2. /\ Bytes(k, n) \in Seq(Nat) /\ Bytes(k, MsgLen - n) \in Seq(Nat)
        /\ Bytes(k, MsgLen) \in Seq(Nat)
        /\ Bytes(k, n) \o Bytes(k, MsgLen - n) = Bytes(k, MsgLen)
        /\ n < MsgLen => Bytes(k, MsgLen - n) # <<>>
    BY <1>1, MessageSplit, Zenon
  <2>3. wire = accepted
    <3>1. wire \o outputBuffer_ = accepted
      BY Zenon DEF DataInv, StreamInOrder
    <3> QED
      BY <1>0, <1>3, <3>1, ConcatEmptySeq, Zenon
  <2>4. (wire \o Bytes(k, n)) \o Bytes(k, MsgLen - n) = accepted'
    <3>1. (wire \o Bytes(k, n)) \o Bytes(k, MsgLen - n) = wire \o (Bytes(k, n) \o Bytes(k, MsgLen - n))
      BY <1>0, <2>2, BytesAssociative, Zenon
    <3> QED
      BY <2>1, <2>2, <2>3, <3>1, Zenon
  <2>5. ~fin
    BY <1>3, Zenon DEF WriteDirectly
  <2>6. CASE n < MsgLen /\ BufferOutput(k, MsgLen - n, q)
    <3>1. /\ outputBuffer_' = outputBuffer_ \o Bytes(k, MsgLen - n)
          /\ "write" \in events' /\ chan' # "new" /\ Grown(q)
      BY <2>6, BufferIs, Zenon
    <3>2. outputBuffer_' = Bytes(k, MsgLen - n)
      BY <1>3, <2>2, <3>1, ConcatEmptySeq, Zenon
    <3>3. StreamInOrder' /\ WritingIffPending' /\ ShutdownAfterData'
      BY <2>1, <2>2, <2>4, <2>5, <2>6, <3>1, <3>2, Zenon
         DEF StreamInOrder, WritingIffPending, ShutdownAfterData
    <3>4. StreamTyped
      BY <1>0, <2>1, <2>2, <3>2, ConcatProperties, Zenon DEF StreamTyped
    <3> QED
      BY <3>1, <3>3, <3>4, Zenon DEF DataInv
  <2>7. CASE /\ n = MsgLen /\ functors' = Append(q, Functor("callback"))
             /\ UNCHANGED <<events, chan, outputBuffer_>>
    <3>1. accepted' = wire' /\ wire' \in Seq(Nat)
      BY <1>0, <2>1, <2>2, <2>3, <2>7, ConcatProperties, Zenon
    <3>2. wire' \o outputBuffer_' = accepted'
      BY <1>3, <2>7, <3>1, ConcatEmptySeq, Zenon
    <3>3. StreamInOrder' /\ WritingIffPending' /\ ShutdownAfterData'
      BY <1>3, <2>5, <2>7, <3>2, Zenon DEF StreamInOrder, WritingIffPending, ShutdownAfterData
    <3>4. StreamTyped /\ Grown(q)
      BY <1>1, <2>7, <3>1, GrownBy, Zenon DEF TypeInv, StreamTyped
    <3> QED
      BY <2>7, <3>3, <3>4, Zenon DEF DataInv
  <2> QED
    BY <2>1, <2>6, <2>7, Zenon
<1>4. CASE /\ state_ # "kDisconnected" /\ ~("write" \notin events /\ outputBuffer_ = <<>>)
           /\ accepted' = accepted \o Bytes(k, MsgLen) /\ wire' = wire
           /\ BufferOutput(k, MsgLen, q)
  <2>1. Bytes(k, MsgLen) \in Seq(Nat) /\ Bytes(k, MsgLen) # <<>>
    <3>1. 0 \in 0 .. MsgLen /\ MsgLen - 0 = MsgLen /\ 0 < MsgLen
      BY <1>1
    <3> QED
      BY <1>1, <3>1, MessageSplit, Zenon
  <2>2. /\ outputBuffer_' = outputBuffer_ \o Bytes(k, MsgLen)
        /\ "write" \in events' /\ chan' # "new" /\ Grown(q)
    BY <1>4, BufferIs, Zenon
  <2>3. wire' \o outputBuffer_' = accepted'
    <3>1. wire \o (outputBuffer_ \o Bytes(k, MsgLen)) = (wire \o outputBuffer_) \o Bytes(k, MsgLen)
      BY <1>0, <2>1, BytesAssociative, Zenon
    <3> QED
      BY <1>4, <2>2, <3>1, Zenon DEF DataInv, StreamInOrder
  <2>4. outputBuffer_' # <<>>
    <3>1. Len(Bytes(k, MsgLen)) # 0 /\ Len(Bytes(k, MsgLen)) \in Nat /\ Len(outputBuffer_) \in Nat
      BY <1>0, <2>1, EmptySeq, LenProperties, Zenon
    <3>2. outputBuffer_' \in Seq(Nat) /\ Len(outputBuffer_') = Len(outputBuffer_) + Len(Bytes(k, MsgLen))
      BY <1>0, <2>1, <2>2, ConcatProperties, Zenon
    <3> QED
      BY <3>1, <3>2
  <2>5. Orderly /\ fin => FALSE
    BY <1>4, Zenon DEF DataInv, WritingIffPending, ShutdownAfterData, TypeInv, EarlyInv
  <2>6. StreamInOrder' /\ WritingIffPending' /\ ShutdownAfterData'
    BY <2>2, <2>3, <2>4, <2>5, Zenon DEF StreamInOrder, WritingIffPending, ShutdownAfterData, Orderly
  <2>7. StreamTyped
    BY <1>0, <1>4, <2>1, <2>2, ConcatProperties, Zenon DEF StreamTyped
  <2> QED
    BY <2>2, <2>6, <2>7, Zenon DEF DataInv
<1> QED
  BY <1>2, <1>3, <1>4, Zenon DEF SendInLoop

\* write() takes the first n bytes of outputBuffer_.
LEMMA SplitAt ==
  ASSUME NEW s \in Seq(Nat), NEW n \in 1 .. Len(s)
  PROVE  /\ SubSeq(s, 1, n) \in Seq(Nat) /\ SubSeq(s, n + 1, Len(s)) \in Seq(Nat)
         /\ SubSeq(s, 1, n) \o SubSeq(s, n + 1, Len(s)) = s
         /\ SubSeq(s, n + 1, Len(s)) = <<>> <=> n = Len(s)
<1> DEFINE a == SubSeq(s, 1, n)
           b == SubSeq(s, n + 1, Len(s))
<1>1. Len(s) \in Nat /\ n \in Nat /\ n >= 1 /\ n <= Len(s)
  OBVIOUS
<1>2. a \in Seq(Nat) /\ Len(a) = n /\ \A i \in 1 .. n : a[i] = s[i]
  BY <1>1, SubSeqProperties
<1>3. b \in Seq(Nat) /\ Len(b) = Len(s) - n /\ \A i \in 1 .. Len(s) - n : b[i] = s[n + i]
  BY <1>1, SMTT(30)
<1> HIDE DEF a, b
<1>4. /\ a \o b \in Seq(Nat) /\ Len(a \o b) = Len(s)
      /\ \A i \in 1 .. Len(s) : (a \o b)[i] = IF i <= n THEN a[i] ELSE b[i - n]
  <2>1. /\ a \o b \in Seq(Nat) /\ Len(a \o b) = Len(a) + Len(b)
        /\ \A i \in 1 .. Len(a) + Len(b) : (a \o b)[i] = IF i <= Len(a) THEN a[i] ELSE b[i - Len(a)]
    BY <1>2, <1>3, ConcatProperties, Zenon
  <2>2. Len(a) + Len(b) = Len(s) /\ Len(a) = n
    BY <1>1, <1>2, <1>3
  <2> QED
    BY <2>1, <2>2, Zenon
<1>5. ASSUME NEW i \in 1 .. Len(s) PROVE (a \o b)[i] = s[i]
  <2>1. CASE i <= n
    <3>1. i \in 1 .. n
      BY <1>1, <2>1
    <3> QED
      BY <1>2, <1>4, <2>1, <3>1, Zenon
  <2>2. CASE ~(i <= n)
    <3>1. i - n \in 1 .. Len(s) - n /\ n + (i - n) = i
      BY <1>1, <2>2
    <3> QED
      BY <1>3, <1>4, <2>2, <3>1, Zenon
  <2> QED
    BY <2>1, <2>2, Zenon
<1>6. a \o b = s
  BY <1>4, <1>5, SeqEqual, Zenon
<1>7. b = <<>> <=> n = Len(s)
  BY <1>1, <1>3, EmptySeq
<1> QED
  BY <1>2, <1>3, <1>6, <1>7, Zenon DEF a, b

\* handleWrite(): what write() takes leaves the buffer, and the channel stops watching
\* with the last byte.
LEMMA HandleWriteKeeps ==
  ASSUME IInv, HandleWrite PROVE IInv'
<1> USE DEF IInv, OpenStates
<1>1. chan # "new" /\ functors \in Seq(Queueable) /\ Functor("callback") \in Queueable
  <2>1. chan # "new"
    BY Zenon DEF HandleWrite, EarlyInv
  <2> QED
    BY <2>1, PlainQueue, NotEstablished, Zenon DEF Ops
<1>2. UNCHANGED <<state_, accepted, batch, phase, fpc, sent, races>>
  BY Zenon DEF HandleWrite, users
<1>3. outputBuffer_ \in Seq(Nat) /\ wire \in Seq(Nat) /\ accepted \in Seq(Nat) /\ fin \in BOOLEAN
      /\ state_ \in OpenStates \cup {"kDisconnected"}
  BY <1>1, Zenon DEF TypeInv, EarlyInv
<1>4. CASE UNCHANGED <<events, chan, functors, fin, outputBuffer_, wire>>
  <2>1. DataInv'
    BY <1>2, <1>4, DataKept, Zenon DEF stream
  <2>2. QueueInv'
    BY <1>2, <1>4, Zenon DEF QueueInv
  <2> QED
    BY <1>1, <1>2, <1>3, <1>4, <2>1, <2>2, Zenon DEF TypeInv, EarlyInv
<1>5. CASE \E n \in 1 .. Len(outputBuffer_) :
             /\ "write" \in events
             /\ wire' = wire \o SubSeq(outputBuffer_, 1, n)
             /\ outputBuffer_' = SubSeq(outputBuffer_, n + 1, Len(outputBuffer_))
             /\ IF n = Len(outputBuffer_)
                THEN /\ SetEvents(events \ {"write"})
                     /\ functors' = Append(functors, Functor("callback"))
                     /\ fin' = (fin \/ state_ = "kDisconnecting")
                ELSE UNCHANGED <<events, chan, functors, fin>>
  <2>1. PICK n \in 1 .. Len(outputBuffer_) :
             /\ "write" \in events
             /\ wire' = wire \o SubSeq(outputBuffer_, 1, n)
             /\ outputBuffer_' = SubSeq(outputBuffer_, n + 1, Len(outputBuffer_))
             /\ IF n = Len(outputBuffer_)
                THEN /\ SetEvents(events \ {"write"})
                     /\ functors' = Append(functors, Functor("callback"))
                     /\ fin' = (fin \/ state_ = "kDisconnecting")
                ELSE UNCHANGED <<events, chan, functors, fin>>
    BY <1>5, Zenon
  <2> DEFINE a == SubSeq(outputBuffer_, 1, n)
             b == SubSeq(outputBuffer_, n + 1, Len(outputBuffer_))
  <2>2. a \in Seq(Nat) /\ b \in Seq(Nat) /\ a \o b = outputBuffer_ /\ (b = <<>> <=> n = Len(outputBuffer_))
    BY <1>3, SplitAt, Zenon
  <2>3. wire' = wire \o a /\ outputBuffer_' = b
    BY <2>1, Zenon
  <2> HIDE DEF a, b
  <2>4. StreamInOrder'
    <3>1. (wire \o a) \o b = wire \o (a \o b)
      BY <1>3, <2>2, BytesAssociative, Zenon
    <3> QED
      BY <1>2, <2>2, <2>3, <3>1, Zenon DEF DataInv, StreamInOrder
  <2>5. "write" \in events' <=> outputBuffer_' # <<>>
    BY <2>1, <2>2, <2>3, Zenon DEF SetEvents
  <2>6. chan' # "new" /\ Grown(functors)
    BY <1>1, <2>1, GrownBy, Zenon DEF SetEvents
  <2>7. fin' \in BOOLEAN /\ (fin' => fin \/ outputBuffer_' = <<>>)
    BY <1>3, <2>1, <2>2, <2>3, Zenon
  <2>8. outputBuffer_ # <<>>
    BY <1>3, <2>1
  <2>9. ShutdownAfterData'
    BY <1>2, <2>7, <2>8, Zenon DEF DataInv, ShutdownAfterData, Orderly
  <2>10. DataInv'
    BY <2>4, <2>5, <2>9, Zenon DEF DataInv, WritingIffPending
  <2>11. wire' \in Seq(Nat) /\ outputBuffer_' \in Seq(Nat)
    BY <1>3, <2>2, <2>3, ConcatProperties, Zenon
  <2>12. TypeInv' /\ EarlyInv'
    BY <1>2, <1>3, <2>6, <2>7, <2>11, Zenon DEF TypeInv, EarlyInv
  <2>13. QueueInv'
    <3>1. batch' \in Nat /\ (phase' = "functors" => batch' <= Len(functors))
      BY <1>2, Zenon DEF QueueInv
    <3> QED
      BY <1>1, <2>6, <3>1, GrownKeeps, Zenon
  <2> QED
    BY <2>10, <2>12, <2>13, Zenon
<1> QED
  BY <1>4, <1>5, Zenon DEF HandleWrite

-----------------------------------------------------------------------------
(* The other handlers and functors of the loop.                            *)

Typed == StreamTyped /\ fin' \in BOOLEAN /\ sent' \in Nat /\ fpc' \in [Threads -> Places]

LEMMA TypedKept ==
  ASSUME IInv, UNCHANGED <<fpc, sent, stream, fin>> PROVE Typed
  BY Zenon DEF IInv, TypeInv, Typed, StreamTyped, stream

\* A step after connectEstablished().
LEMMA OpenKeeps ==
  ASSUME IInv, NEW q \in Seq(Queueable), Grown(q), chan' # "new",
         batch' \in Nat, phase' = "functors" => batch' <= Len(q),
         Typed, DataInv',
         state_' \in OpenStates \cup {"kDisconnected"}
  PROVE  IInv'
<1>1. QueueInv'
  BY GrownKeeps, Zenon
<1>2. TypeInv' /\ EarlyInv'
  BY Zenon DEF IInv, TypeInv, EarlyInv, OpenStates, Typed, StreamTyped
<1> QED
  BY <1>1, <1>2, Zenon DEF IInv

\* handleClose(): the connection is closed, and connectDestroyed() may be queued.
LEMMA CloseIs ==
  ASSUME NEW q \in Seq(Queueable), HandleClose(q)
  PROVE  state_' = "kDisconnected" /\ chan' # "new" /\ Grown(q) /\ races \subseteq races'
<1>1. Functor("destroyed") \in Queueable
  BY NotEstablished, Zenon DEF Ops
<1>2. Grown(q)
  BY <1>1, GrownBy, Zenon DEF HandleClose, CloseCallback
<1>3. races \subseteq races'
  BY Zenon DEF HandleClose, UnsafeIf
<1> QED
  BY <1>2, <1>3, Zenon DEF HandleClose, SetEvents

\* Facts about a connection that connectEstablished() has opened.
LEMMA Opened ==
  ASSUME IInv, chan # "new"
  PROVE  /\ functors \in Seq(Queueable) /\ state_ \in OpenStates \cup {"kDisconnected"}
         /\ batch \in Nat /\ (phase = "functors" => batch <= Len(functors))
<1>1. functors \in Seq(Queueable)
  BY PlainQueue, Zenon DEF IInv
<1> QED
  BY <1>1, Zenon DEF IInv, TypeInv, EarlyInv, QueueInv

\* handleEvent() with POLLHUP, and handleRead().
LEMMA CloseKeeps ==
  ASSUME IInv, HangUp \/ HandleRead PROVE IInv'
<1>1. chan # "new"
  BY Zenon DEF HangUp, HandleRead, IInv, EarlyInv
<1>2. UNCHANGED <<stream, fin, batch, phase, fpc, sent>>
  BY Zenon DEF HangUp, HandleRead, users
<1>3. /\ functors \in Seq(Queueable) /\ state_ \in OpenStates \cup {"kDisconnected"}
      /\ batch \in Nat /\ (phase = "functors" => batch <= Len(functors))
  BY <1>1, Opened, Zenon
<1>4. /\ Grown(functors) /\ chan' # "new" /\ races \subseteq races'
      /\ \/ UNCHANGED <<state_, events>>
         \/ state_' = "kDisconnected"
  <2>1. CASE HandleClose(functors)
    BY <1>3, <2>1, CloseIs, Zenon
  <2>2. CASE UNCHANGED <<state_, chanvars, functors, races>>
    BY <1>1, <1>3, <2>2, GrownBy, Zenon DEF chanvars
  <2> QED
    BY <2>1, <2>2, Zenon DEF HangUp, HandleRead
<1>5. DataInv'
  BY <1>2, <1>4, DataKept, Zenon DEF IInv
<1> QED
  BY <1>2, <1>3, <1>4, <1>5, TypedKept, OpenKeeps, Zenon

\* connectEstablished(): the first functor of the queue.
LEMMA EstablishedKeeps ==
  ASSUME IInv, RunFunctor, chan = "new" PROVE IInv'
<1> USE DEF IInv
<1>1. phase = "functors" /\ batch > 0 /\ batch' = batch - 1 /\ phase' = phase
  BY Zenon DEF RunFunctor
<1>2. /\ functors # <<>> /\ Tail(functors) \in Seq(Queueable)
      /\ Len(Tail(functors)) >= batch - 1 /\ Head(functors) = Established
  BY <1>1, Popped, Zenon
<1>3. Head(functors).op = "established"
  BY <1>2 DEF Established, Functor
<1>4. ConnectEstablished(Tail(functors)) /\ UNCHANGED <<stream, fin, races, fpc, sent>>
  BY <1>3, Zenon DEF RunFunctor, users
<1>5. state_' = "kConnected" /\ events' = {"read"} /\ chan' = "added" /\ functors' = Tail(functors)
  BY <1>4, Zenon DEF ConnectEstablished, SetEvents
<1>6. outputBuffer_ = <<>> /\ outputBuffer_' = <<>> /\ ~fin'
  BY <1>4, Zenon DEF EarlyInv, stream
<1>7. DataInv'
  BY <1>4, <1>5, <1>6, Zenon
     DEF DataInv, StreamInOrder, WritingIffPending, ShutdownAfterData, stream
<1>8. Grown(Tail(functors)) /\ batch' \in Nat /\ batch' <= Len(Tail(functors))
  <2>1. batch \in Nat
    BY Zenon DEF QueueInv
  <2>2. Grown(Tail(functors))
    BY <1>2, <1>5, GrownBy, Zenon
  <2>3. batch - 1 \in Nat
    BY <1>1, <2>1
  <2> QED
    BY <1>1, <1>2, <2>2, <2>3, Zenon
<1>9. state_' \in OpenStates \cup {"kDisconnected"} /\ chan' # "new"
  BY <1>5, Zenon DEF OpenStates
<1> QED
  BY <1>1, <1>2, <1>4, <1>7, <1>8, <1>9, TypedKept, OpenKeeps, Zenon

\* shutdownInLoop(): the half-close happens only when no byte waits.
LEMMA ShutdownKeepsData ==
  ASSUME IInv, chan # "new", ShutdownInLoop, UNCHANGED <<events, stream, races>>,
         state_' = state_ \/ (state_ \in OpenStates /\ state_' \in OpenStates)
  PROVE  DataInv' /\ fin' \in BOOLEAN
<1>1. state_ \in OpenStates \cup {"kDisconnected"}
  BY Opened, Zenon
<1>2. fin' = (fin \/ "write" \notin events)
  BY Zenon DEF ShutdownInLoop
<1>3. Orderly /\ state_ \in OpenStates /\ fin' => outputBuffer_ = <<>>
  BY <1>2, Zenon DEF IInv, DataInv, WritingIffPending, ShutdownAfterData, OpenStates
<1>4. ShutdownAfterData'
  BY <1>1, <1>3, Zenon DEF ShutdownAfterData, Orderly, stream, OpenStates
<1>5. StreamInOrder' /\ WritingIffPending'
  BY <1>1, Zenon DEF IInv, DataInv, StreamInOrder, WritingIffPending, Orderly, stream, OpenStates
<1> QED
  BY <1>2, <1>4, <1>5, Zenon DEF DataInv

\* connectDestroyed(): it closes an open connection; one that was closing is the race
\* "teardown".
Tears(q) == races \cup Torn(q) \subseteq races'

LEMMA DestroyedIs ==
  ASSUME IInv, chan # "new", NEW q, ConnectDestroyed(q), Tears(q), UNCHANGED <<stream, fin>>
  PROVE  /\ functors' = q /\ chan' = "removed" /\ DataInv'
         /\ state_' \in OpenStates \cup {"kDisconnected"}
<1>1. state_ \in OpenStates \cup {"kDisconnected"}
  BY Opened, Zenon
<1>2. /\ functors' = q /\ chan' = "removed" /\ races \subseteq races'
      /\ state_ = "kConnected" => state_' = "kDisconnected"
      /\ state_ # "kConnected" => UNCHANGED <<state_, events>>
      /\ state_ = "kDisconnecting" => races' # {}
  BY DEF ConnectDestroyed, Tears, Torn
<1>3. DataInv'
  BY <1>1, <1>2, DataKept, Zenon DEF IInv, OpenStates
<1> QED
  BY <1>1, <1>2, <1>3, Zenon DEF OpenStates

\* startReadInLoop() and stopReadInLoop() leave the interest in writing alone.
LEMMA ReadIs ==
  ASSUME StartReadInLoop \/ StopReadInLoop, chan # "new"
  PROVE  chan' # "new" /\ ("write" \in events' <=> "write" \in events)
  BY DEF StartReadInLoop, StopReadInLoop, SetEvents, chanvars

\* doPendingFunctors() runs a functor of an established connection.
LEMMA RunFunctorKeeps ==
  ASSUME IInv, RunFunctor, chan # "new" PROVE IInv'
<1> DEFINE f == Head(functors)
           q == Tail(functors)
<1>1. phase = "functors" /\ batch > 0 /\ batch' = batch - 1 /\ phase' = phase /\ UNCHANGED <<fpc, sent>>
  BY Zenon DEF RunFunctor, users
<1>2. q \in Seq(Queueable) /\ f \in Queueable /\ Len(q) >= batch - 1
  BY <1>1, Popped, Zenon DEF IInv
<1>3. batch' \in Nat /\ batch' <= Len(q)
  <2>1. batch \in Nat
    BY Zenon DEF IInv, QueueInv
  <2>2. batch - 1 \in Nat
    BY <1>1, <2>1
  <2> QED
    BY <1>1, <1>2, <2>2, Zenon
<1>4. f.op # "established" /\ f.msg \in Nat
  BY <1>2, Zenon DEF Queueable, Ops
<1>5. state_ \in OpenStates \cup {"kDisconnected"}
  BY Opened, Zenon
<1>6. SUFFICES Grown(q) /\ chan' # "new" /\ Typed /\ DataInv'
               /\ state_' \in OpenStates \cup {"kDisconnected"}
  BY <1>2, <1>3, OpenKeeps, Zenon
<1> HIDE DEF f, q
<1>7. CASE f.op = "destroyed" /\ ConnectDestroyed(q) /\ Tears(q) /\ UNCHANGED <<stream, fin>>
  BY <1>1, <1>2, <1>7, DestroyedIs, GrownBy, TypedKept, Zenon
<1>8. CASE f.op = "send" /\ SendInLoop(f.msg, q) /\ UNCHANGED <<state_, fin, races>>
  <2>1. DataInv' /\ StreamTyped /\ chan' # "new" /\ Grown(q)
    BY <1>2, <1>4, <1>8, SendKeeps, Zenon DEF IInv
  <2> QED
    BY <1>1, <1>5, <1>8, <2>1, Zenon DEF Typed, IInv, TypeInv
<1>9. CASE f.op = "shutdown" /\ functors' = q /\ ShutdownInLoop /\ UNCHANGED <<state_, chanvars, stream, races>>
  <2>1. DataInv' /\ fin' \in BOOLEAN
    BY <1>9, ShutdownKeepsData, Zenon DEF chanvars
  <2> QED
    BY <1>1, <1>2, <1>5, <1>9, <2>1, GrownBy, Zenon DEF Typed, StreamTyped, IInv, TypeInv, stream, chanvars
<1>10. CASE f.op = "forceClose" /\ ForceCloseInLoop(q) /\ UNCHANGED <<stream, fin>>
  <2>1. CASE HandleClose(q)
    <3>1. state_' = "kDisconnected" /\ chan' # "new" /\ Grown(q) /\ races \subseteq races'
      BY <1>2, <2>1, CloseIs, Zenon
    <3>2. DataInv'
      BY <1>10, <3>1, DataKept, Zenon DEF IInv
    <3> QED
      BY <1>1, <1>10, <3>1, <3>2, TypedKept, Zenon
  <2>2. CASE functors' = q /\ UNCHANGED <<state_, chanvars, races>>
    <3>1. DataInv'
      BY <1>10, <2>2, DataKept, Zenon DEF IInv, chanvars
    <3> QED
      BY <1>1, <1>2, <1>5, <1>10, <2>2, <3>1, TypedKept, GrownBy, Zenon DEF chanvars
  <2> QED
    BY <1>10, <2>1, <2>2, Zenon DEF ForceCloseInLoop
<1>11. CASE /\ f.op \in {"startRead", "stopRead"} /\ functors' = q
            /\ (StartReadInLoop \/ StopReadInLoop) /\ LateIf(Closed) /\ UNCHANGED <<state_, stream, fin>>
  <2>1. chan' # "new" /\ ("write" \in events' <=> "write" \in events) /\ races \subseteq races'
    BY <1>11, ReadIs, Zenon DEF LateIf
  <2>2. DataInv'
    BY <1>11, <2>1, DataKept, Zenon DEF IInv
  <2> QED
    BY <1>1, <1>2, <1>5, <1>11, <2>1, <2>2, TypedKept, GrownBy, Zenon
<1>12. CASE f.op = "callback" /\ functors' = q /\ UNCHANGED <<state_, chanvars, stream, fin, races>>
  <2>1. DataInv'
    BY <1>12, DataKept, Zenon DEF IInv, chanvars
  <2> QED
    BY <1>1, <1>2, <1>5, <1>12, <2>1, TypedKept, GrownBy, Zenon DEF chanvars
<1> QED
  BY <1>4, <1>7, <1>8, <1>9, <1>10, <1>11, <1>12, Zenon DEF RunFunctor, Tears, f, q

-----------------------------------------------------------------------------
(* Steps that may come before connectEstablished().                        *)

LEMMA QuietKeeps ==
  ASSUME IInv, QueueInv', UNCHANGED <<state_, chan, events, stream, fin, fpc>>,
         races \subseteq races', chan = "new" => revents' = {}, sent' \in Nat
  PROVE  IInv'
<1>1. DataInv'
  BY DataKept, Zenon DEF IInv
<1> QED
  BY <1>1, Zenon DEF IInv, TypeInv, EarlyInv, stream

LEMMA SameQueue ==
  ASSUME QueueInv, UNCHANGED <<functors, chan>>, batch' \in Nat,
         phase' = "functors" => batch' <= Len(functors)
  PROVE  QueueInv'
  BY Zenon DEF QueueInv

\* The steps that touch neither the connection nor the queue.
LEMMA OthersKeep ==
  ASSUME IInv, \/ Poll \/ SwapFunctors \/ FunctorsDone \/ OwnDrop \/ PeerCloses
               \/ UNCHANGED vars
               \/ \E t \in Threads : ForeignDrop(t)
  PROVE  IInv'
<1>1. /\ UNCHANGED <<state_, chan, events, stream, fin, fpc, races, functors, sent>>
      /\ chan = "new" => revents' = {}
  BY Zenon DEF IInv, EarlyInv, Poll, SwapFunctors, FunctorsDone, OwnDrop, PeerCloses, ForeignDrop,
         vars, chanvars, users, loopvars
<1>2. batch' \in Nat /\ (phase' = "functors" => batch' <= Len(functors))
  <2>1. Len(functors) \in Nat /\ batch \in Nat /\ (phase = "functors" => batch <= Len(functors))
    BY DEF IInv, QueueInv
  <2> QED
    BY <2>1 DEF Poll, SwapFunctors, FunctorsDone, OwnDrop, PeerCloses, ForeignDrop, vars, loopvars
<1>3. QueueInv'
  BY <1>1, <1>2, SameQueue, Zenon DEF IInv
<1>4. sent' \in Nat
  BY <1>1, Zenon DEF IInv, TypeInv
<1> QED
  BY <1>1, <1>3, <1>4, QuietKeeps, Zenon

\* Functors pushed by the server, or nothing.
LEMMA ServerKeeps ==
  ASSUME IInv, RemoveConnection \/ DestroyServer PROVE IInv'
<1>1. UNCHANGED <<stream, fin, fpc, sent, batch, phase, revents>>
  BY Zenon DEF RemoveConnection, DestroyServer, users
<1>2. chan = "new" => revents' = {}
  BY <1>1, Zenon DEF IInv, EarlyInv
<1>3. sent' \in Nat
  BY <1>1, Zenon DEF IInv, TypeInv
<1>4. CASE /\ functors' = Append(functors, Functor("destroyed")) /\ UNCHANGED <<state_, chanvars>>
           /\ races \subseteq races'
  <2>1. QueueInv'
    BY <1>1, <1>4, PushedKeeps, NotEstablished, Zenon DEF Ops, IInv, chanvars
  <2> QED
    BY <1>1, <1>2, <1>3, <1>4, <2>1, QuietKeeps, Zenon DEF chanvars
<1>5. CASE UNCHANGED <<functors, state_, chanvars, races>>
  <2>1. QueueInv'
    BY <1>1, <1>5, SameQueue, Zenon DEF IInv, QueueInv, chanvars
  <2> QED
    BY <1>1, <1>2, <1>3, <1>5, <2>1, QuietKeeps, Zenon DEF chanvars
<1>6. CASE chan = "added" /\ ConnectDestroyed(functors) /\ Tears(functors)
  <2>1. /\ functors' = functors /\ chan' = "removed" /\ DataInv'
        /\ state_' \in OpenStates \cup {"kDisconnected"}
    BY <1>1, <1>6, DestroyedIs, Zenon
  <2>2. /\ functors \in Seq(Queueable) /\ batch \in Nat /\ (phase = "functors" => batch <= Len(functors))
    BY <1>6, Opened, Zenon
  <2>3. Grown(functors) /\ Typed
    BY <1>1, <2>1, <2>2, GrownBy, TypedKept, Zenon
  <2> QED
    BY <1>1, <2>1, <2>2, <2>3, OpenKeeps, Zenon
<1> QED
  BY <1>4, <1>5, <1>6, Zenon DEF RemoveConnection, DestroyServer, UnsafeIf, Tears

-----------------------------------------------------------------------------
(* Calls in the I/O loop.                                                  *)

LEMMA OwnSendKeeps ==
  ASSUME IInv, OwnSend PROVE IInv'
<1>1. UNCHANGED <<state_, fin, races, fpc, batch, phase, revents>> /\ sent' \in Nat
  BY DEF OwnSend, IInv, TypeInv
<1>2. CASE state_ = "kConnected"
  <2>1. SendInLoop(sent', functors) /\ chan # "new"
    BY <1>2, Zenon DEF OwnSend, IInv, EarlyInv
  <2>2. /\ functors \in Seq(Queueable) /\ state_ \in OpenStates \cup {"kDisconnected"}
        /\ batch \in Nat /\ (phase = "functors" => batch <= Len(functors))
    BY <2>1, Opened, Zenon
  <2>3. DataInv' /\ StreamTyped /\ chan' # "new" /\ Grown(functors)
    BY <1>1, <2>1, <2>2, SendKeeps, Zenon DEF IInv
  <2>4. Typed
    BY <1>1, <2>3, Zenon DEF Typed, IInv, TypeInv
  <2> QED
    BY <1>1, <2>2, <2>3, <2>4, OpenKeeps, Zenon
<1>3. CASE state_ # "kConnected"
  <2>1. UNCHANGED <<functors, events, chan, stream>>
    BY <1>3, Zenon DEF OwnSend, GiveUpWriting
  <2>2. QueueInv'
    BY <1>1, <2>1, SameQueue, Zenon DEF IInv, QueueInv
  <2>3. chan = "new" => revents' = {}
    BY <1>1, Zenon DEF IInv, EarlyInv
  <2> QED
    BY <1>1, <2>1, <2>2, <2>3, QuietKeeps, Zenon
<1> QED
  BY <1>2, <1>3, Zenon

\* A connection in an open state may move to kDisconnecting, with forceCloseInLoop()
\* queued or set as a timer.
LEMMA ClosingKeeps ==
  ASSUME IInv, OwnForceClose \/ DelayedForceClose PROVE IInv'
<1>1. UNCHANGED <<chanvars, stream, fin, fpc, sent, batch, phase, revents, races>>
  BY Zenon DEF OwnForceClose, DelayedForceClose
<1>2. CASE /\ state_ \in OpenStates /\ state_' = "kDisconnecting"
           /\ functors' = Append(functors, Functor("forceClose")) \/ functors' = functors
  <2>1. chan # "new" /\ chan' # "new"
    BY <1>1, <1>2, Zenon DEF IInv, EarlyInv, OpenStates, chanvars
  <2>2. /\ functors \in Seq(Queueable) /\ batch \in Nat /\ (phase = "functors" => batch <= Len(functors))
    BY <2>1, Opened, Zenon
  <2>3. Grown(functors) /\ Typed
    BY <1>1, <1>2, <2>2, GrownBy, TypedKept, NotEstablished, Zenon DEF Ops
  <2>4. DataInv'
    BY <1>1, <1>2, DataKept, Zenon DEF IInv, OpenStates, chanvars
  <2> QED
    BY <1>1, <1>2, <2>1, <2>2, <2>3, <2>4, OpenKeeps, Zenon DEF OpenStates
<1>3. CASE UNCHANGED <<state_, functors>>
  <2>1. QueueInv'
    BY <1>1, <1>3, SameQueue, Zenon DEF IInv, QueueInv, chanvars
  <2>2. (chan = "new" => revents' = {}) /\ sent' \in Nat
    BY <1>1, Zenon DEF IInv, EarlyInv, TypeInv
  <2> QED
    BY <1>1, <1>3, <2>1, <2>2, QuietKeeps, Zenon DEF chanvars
<1> QED
  BY <1>2, <1>3, Zenon DEF OwnForceClose, DelayedForceClose, OpenStates

\* shutdown(), startRead() and stopRead() of the loop's thread.
LEMMA OwnKeeps ==
  ASSUME IInv, OwnShutdown \/ OwnRead PROVE IInv'
<1>1. UNCHANGED <<stream, fpc, sent, functors, batch, phase, revents>>
  BY Zenon DEF OwnShutdown, OwnRead, users, loopvars
<1>2. chan # "new"
  BY Zenon DEF OwnShutdown, OwnRead, IInv, EarlyInv
<1>3. /\ functors \in Seq(Queueable) /\ batch \in Nat /\ (phase = "functors" => batch <= Len(functors))
      /\ state_ \in OpenStates \cup {"kDisconnected"}
  BY <1>2, Opened, Zenon
<1>4. Grown(functors)
  BY <1>1, <1>3, GrownBy, Zenon
<1>5. CASE OwnShutdown
  <2>1. UNCHANGED <<chanvars, races>> /\ state_ = "kConnected" /\ state_' = "kDisconnecting" /\ ShutdownInLoop
    BY <1>5, Zenon DEF OwnShutdown
  <2>2. DataInv' /\ fin' \in BOOLEAN
    BY <1>1, <1>2, <2>1, ShutdownKeepsData, Zenon DEF chanvars, OpenStates
  <2>3. Typed
    BY <1>1, <2>2, Zenon DEF Typed, StreamTyped, IInv, TypeInv, stream
  <2> QED
    BY <1>1, <1>2, <1>3, <1>4, <2>1, <2>2, <2>3, OpenKeeps, Zenon DEF OpenStates, chanvars
<1>6. CASE OwnRead
  <2>1. UNCHANGED <<state_, fin>> /\ (StartReadInLoop \/ StopReadInLoop) /\ races \subseteq races'
    BY <1>6, Zenon DEF OwnRead, LateIf
  <2>2. chan' # "new" /\ ("write" \in events' <=> "write" \in events)
    BY <1>2, <2>1, ReadIs, Zenon
  <2>3. DataInv'
    BY <1>1, <2>1, <2>2, DataKept, Zenon DEF IInv
  <2>4. Typed
    BY <1>1, <2>1, TypedKept, Zenon
  <2> QED
    BY <1>1, <1>3, <1>4, <2>1, <2>2, <2>3, <2>4, OpenKeeps, Zenon
<1> QED
  BY <1>5, <1>6, Zenon

-----------------------------------------------------------------------------
(* Calls of other threads.                                                 *)

\* A thread that is in a call has seen the connection after connectEstablished().
LEMMA ForeignOpened ==
  ASSUME IInv, NEW t \in Threads, fpc[t] # "idle" PROVE chan # "new"
  BY Zenon DEF IInv, EarlyInv

LEMMA ForeignTestKeeps ==
  ASSUME IInv, NEW t \in Threads, NEW call, ForeignTest(t, call) PROVE IInv'
<1>1. UNCHANGED <<state_, chanvars, stream, fin, functors, batch, phase, sent, races>> /\ chan # "new"
  BY Zenon DEF ForeignTest, loopvars
<1>2. fpc' \in [Threads -> Places]
  BY Zenon DEF ForeignTest, IInv, TypeInv, Places
<1>3. /\ functors \in Seq(Queueable) /\ state_ \in OpenStates \cup {"kDisconnected"}
      /\ batch \in Nat /\ (phase = "functors" => batch <= Len(functors))
  BY <1>1, Opened, Zenon
<1>4. Grown(functors)
  BY <1>1, <1>3, GrownBy, Zenon
<1>5. Typed
  BY <1>1, <1>2, Zenon DEF Typed, StreamTyped, IInv, TypeInv, stream
<1>6. DataInv'
  BY <1>1, DataKept, Zenon DEF IInv, chanvars
<1> QED
  BY <1>1, <1>3, <1>4, <1>5, <1>6, OpenKeeps, Zenon DEF chanvars

\* Storing kDisconnecting over kDisconnected is the race "late".
LEMMA ForeignSetKeeps ==
  ASSUME IInv, NEW t \in Threads, ForeignSet(t) PROVE IInv'
<1>1. UNCHANGED <<chanvars, stream, fin, functors, batch, phase, sent>> /\ chan # "new"
  BY ForeignOpened, Zenon DEF ForeignSet, loopvars
<1>2. fpc' \in [Threads -> Places]
  BY Zenon DEF ForeignSet, IInv, TypeInv, Places
<1>3. /\ functors \in Seq(Queueable) /\ state_ \in OpenStates \cup {"kDisconnected"}
      /\ batch \in Nat /\ (phase = "functors" => batch <= Len(functors))
  BY <1>1, Opened, Zenon
<1>4. Grown(functors)
  BY <1>1, <1>3, GrownBy, Zenon
<1>5. Typed
  BY <1>1, <1>2, Zenon DEF Typed, StreamTyped, IInv, TypeInv, stream
<1>6. state_' = "kDisconnecting" /\ races \subseteq races' /\ (state_ = "kDisconnected" => races' # {})
  BY Zenon DEF ForeignSet, LateIf, Closed
<1>7. DataInv'
  BY <1>1, <1>3, <1>6, DataKept, Zenon DEF IInv, chanvars, OpenStates
<1> QED
  BY <1>1, <1>3, <1>4, <1>5, <1>6, <1>7, OpenKeeps, Zenon DEF chanvars, OpenStates

LEMMA ForeignQueueKeeps ==
  ASSUME IInv, NEW t \in Threads, ForeignQueue(t) PROVE IInv'
<1>1. UNCHANGED <<state_, chanvars, stream, fin, batch, phase>> /\ chan # "new" /\ races \subseteq races'
  BY ForeignOpened, Zenon DEF ForeignQueue, LateIf
<1>2. fpc[t] \in Places \ {"idle", "shutdown", "forceClose"} /\ sent \in Nat
  BY Zenon DEF ForeignQueue, IInv, TypeInv
<1>3. fpc' \in [Threads -> Places] /\ sent' \in Nat
  <2>1. fpc' = [fpc EXCEPT ![t] = "idle"] /\ fpc \in [Threads -> Places] /\ "idle" \in Places
    BY Zenon DEF ForeignQueue, IInv, TypeInv, Places
  <2>2. sent' = sent \/ sent' = sent + 1
    BY Zenon DEF ForeignQueue
  <2> QED
    BY <1>2, <2>1, <2>2
<1>4. Queued(t) \in Ops
  BY <1>2, Zenon DEF Queued, Ops, Places
<1>5. PICK f \in Queueable : functors' = Append(functors, f)
  BY <1>3, <1>4, Zenon DEF ForeignQueue, Queueable
<1>6. /\ functors \in Seq(Queueable) /\ state_ \in OpenStates \cup {"kDisconnected"}
      /\ batch \in Nat /\ (phase = "functors" => batch <= Len(functors))
  BY <1>1, Opened, Zenon
<1>7. Grown(functors)
  BY <1>5, <1>6, GrownBy, Zenon
<1>8. Typed
  BY <1>1, <1>3, Zenon DEF Typed, StreamTyped, IInv, TypeInv, stream
<1>9. DataInv'
  BY <1>1, DataKept, Zenon DEF IInv, chanvars
<1> QED
  BY <1>1, <1>6, <1>7, <1>8, <1>9, OpenKeeps, Zenon DEF chanvars

-----------------------------------------------------------------------------
(* The theorems.                                                           *)

LEMMA InitInv == Init => IInv
<1> SUFFICES ASSUME Init PROVE IInv
  OBVIOUS
<1>1. TypeInv /\ EarlyInv
  <2>1. fpc \in [Threads -> Places] /\ \A t \in Threads : fpc[t] = "idle"
    BY Zenon DEF Init, Places
  <2>2. <<>> \in Seq(Nat)
    OBVIOUS
  <2> QED
    BY <2>1, <2>2, Zenon DEF Init, TypeInv, EarlyInv, OpenStates
<1>2. QueueInv
  <2>1. functors = <<Established>> /\ batch = 0 /\ phase = "poll" /\ chan = "new"
    BY Zenon DEF Init, Established, Functor
  <2>2. functors \in Seq(Queueable \cup {Established}) /\ Len(functors) = 1 /\ functors[1] = Established
    BY <2>1
  <2> QED
    BY <2>1, <2>2 DEF QueueInv
<1>3. DataInv
  BY DEF Init, DataInv, StreamInOrder, WritingIffPending, ShutdownAfterData
<1> QED
  BY <1>1, <1>2, <1>3, Zenon DEF IInv

LEMMA NextInv == IInv /\ [Next]_vars => IInv'
<1> SUFFICES ASSUME IInv, [Next]_vars PROVE IInv'
  OBVIOUS
<1>1. CASE LoopStep
  BY <1>1, OthersKeep, CloseKeeps, HandleWriteKeeps, EstablishedKeeps, RunFunctorKeeps, Zenon DEF LoopStep
<1>2. CASE OwnCall
  BY <1>2, OthersKeep, OwnSendKeeps, ClosingKeeps, OwnKeeps, Zenon DEF OwnCall
<1>3. CASE RemoveConnection \/ DestroyServer
  BY <1>3, ServerKeeps, Zenon
<1>4. CASE PeerCloses \/ UNCHANGED vars
  BY <1>4, OthersKeep, Zenon
<1>5. CASE \E t \in Threads : \/ \E call \in ForeignCalls : ForeignTest(t, call)
                              \/ ForeignSet(t) \/ ForeignQueue(t) \/ ForeignDrop(t)
  BY <1>5, OthersKeep, ForeignTestKeeps, ForeignSetKeeps, ForeignQueueKeeps, Zenon
<1> QED
  BY <1>1, <1>2, <1>3, <1>4, <1>5, Zenon DEF Next

LEMMA Invariance == Spec => []IInv
  BY InitInv, NextInv, PTL DEF Spec

\* In every state, the bytes written to the socket followed by outputBuffer_ are the
\* bytes sendInLoop() accepted, in that order: whichever thread called send(), and
\* however write() splits them, none is lost, repeated or overtaken.
THEOREM BytesInOrder == Spec => []StreamInOrder
<1>1. IInv => StreamInOrder
  BY Zenon DEF IInv, DataInv
<1> QED
  BY <1>1, Invariance, PTL

\* Unless a call came after the close or the server was torn down under it, an open
\* connection watches for writability exactly when outputBuffer_ holds bytes.
THEOREM WatchesWhilePending == Spec => []WritingIffPending
<1>1. IInv => WritingIffPending
  BY Zenon DEF IInv, DataInv
<1> QED
  BY <1>1, Invariance, PTL

\* Under the same condition, the half-close of shutdown() happens only once
\* outputBuffer_ is empty, and nothing is put there afterwards.
THEOREM ShutdownLosesNothing == Spec => []ShutdownAfterData
<1>1. IInv => ShutdownAfterData
  BY Zenon DEF IInv, DataInv
<1> QED
  BY <1>1, Invariance, PTL

-----------------------------------------------------------------------------
(* The life of the connection.  Exactly one of three things keeps it from  *)
(* being forgotten: its entry in connections_, a connectDestroyed() in the *)
(* queue, or a connectDestroyed() that has run.                            *)

Has(q) == \E i \in 1 .. Len(q) : q[i].op = "destroyed"
Single(q) == \A i, j \in 1 .. Len(q) : q[i].op = "destroyed" /\ q[j].op = "destroyed" => i = j

\* What the loop's queue says of it.
Pending == Has(functors)
Alone == Single(functors)
Raws == CallsQueued(functors)

\* What was reported, by state_.
CountInv ==
  /\ state_ = "kConnecting" => ups = 0 /\ downs = 0
  /\ state_ \in OpenStates => ups = 1 /\ downs = 0
  /\ state_ = "kDisconnected" => ups = 1 /\ downs = 1
  /\ ends \in {0, 1} /\ (ends = 1 <=> chan = "removed")
  /\ ends = 1 => state_ = "kDisconnected" /\ ~Raws

\* When messageCallback_ runs, only handleWrite() may be left of handleEvent().
RoundInv ==
  /\ phase # "handle" => revents = {}
  /\ turn # "listed" => "hup" \notin revents /\ "in" \notin revents

\* The poller has events for an open connection only.
EventInv ==
  /\ state_ = "kDisconnected" => events = {}
  /\ "hup" \in revents \/ "in" \in revents => state_ \in OpenStates
  /\ RoundInv

\* Who is to call connectDestroyed().
ServerInv ==
  /\ inMap => serverAlive /\ ~Pending /\ ends = 0
  /\ Pending => ends = 0
  /\ Alone
  /\ inMap \/ Pending \/ ends = 1
  /\ state_ # "kDisconnected" /\ serverAlive => inMap /\ removals = 0
  /\ removals \in Nat /\ (removals > 0 /\ serverAlive => inMap /\ removals = 1)

LifeInv == Orderly => CountInv /\ EventInv /\ ServerInv

Any == Queueable \cup {Established}

\* Functors that come and go.
LEMMA PushPlain ==
  ASSUME NEW q \in Seq(Any), NEW f \in Any, f.op # "destroyed", functors' = Append(q, f)
  PROVE  /\ Pending' <=> Has(q)
         /\ Single(q) => Alone'
         /\ f.op \notin Raw => (Raws' => CallsQueued(q))
<1>1. Len(functors') = Len(q) + 1 /\ Len(q) \in Nat /\ functors'[Len(q) + 1] = f
      /\ \A i \in 1 .. Len(q) : functors'[i] = q[i]
  OBVIOUS
<1>2. 1 .. Len(functors') = (1 .. Len(q)) \cup {Len(q) + 1}
  BY <1>1
<1>3. DOMAIN functors' = 1 .. Len(functors') /\ DOMAIN q = 1 .. Len(q)
  OBVIOUS
<1> QED
  BY <1>1, <1>2, <1>3, Zenon DEF Pending, Alone, Raws, Has, Single, CallsQueued, HoldsConnection

LEMMA PushDestroyed ==
  ASSUME NEW q \in Seq(Any), functors' = Append(q, Functor("destroyed"))
  PROVE  Pending' /\ (~Has(q) => Alone') /\ (Raws' => CallsQueued(q))
<1> DEFINE f == Functor("destroyed")
<1>0. f \in Any /\ f.op = "destroyed" /\ f.op \notin Raw
  BY NotEstablished, Zenon DEF Any, Ops, Functor, Raw
<1> HIDE DEF f
<1>1. Len(functors') = Len(q) + 1 /\ Len(q) \in Nat /\ functors'[Len(q) + 1] = f
      /\ \A i \in 1 .. Len(q) : functors'[i] = q[i]
  BY <1>0 DEF f
<1>2. 1 .. Len(functors') = (1 .. Len(q)) \cup {Len(q) + 1}
  BY <1>1
<1>3. DOMAIN functors' = 1 .. Len(functors') /\ DOMAIN q = 1 .. Len(q)
  BY <1>0 DEF f
<1> QED
  BY <1>0, <1>1, <1>2, <1>3, Zenon DEF Pending, Alone, Raws, Has, Single, CallsQueued, HoldsConnection

LEMMA KeptQueue ==
  ASSUME NEW q, functors' = q
  PROVE  (Pending' <=> Has(q)) /\ (Single(q) => Alone') /\ (Raws' => CallsQueued(q))
  BY Zenon DEF Pending, Alone, Raws, Has, Single, CallsQueued, HoldsConnection

\* The rest of the queue while its first functor runs.
LEMMA Rest ==
  ASSUME functors \in Seq(Any), functors # <<>>
  PROVE  /\ Head(functors).op = "destroyed" /\ Alone => ~Has(Tail(functors))
         /\ Head(functors).op # "destroyed" => (Has(Tail(functors)) <=> Pending)
         /\ Head(functors).op = "destroyed" => Pending
         /\ Alone => Single(Tail(functors))
         /\ CallsQueued(Tail(functors)) => Raws
<1> DEFINE q == Tail(functors)
<1>1. /\ Len(functors) \in Nat /\ Len(functors) > 0 /\ Len(q) = Len(functors) - 1
      /\ Head(functors) = functors[1] /\ q \in Seq(Any)
      /\ \A i \in 1 .. Len(q) : q[i] = functors[i + 1]
  OBVIOUS
<1>2. DOMAIN functors = 1 .. Len(functors) /\ DOMAIN q = 1 .. Len(q)
  BY <1>1
<1> HIDE DEF q
<1>3. \A i \in 1 .. Len(q) : i + 1 \in 1 .. Len(functors) /\ i + 1 # 1
  BY <1>1
<1>4. \A j \in 1 .. Len(functors) : j = 1 \/ (j - 1 \in 1 .. Len(q) /\ q[j - 1] = functors[j])
  BY <1>1
<1>5. Has(q) => Pending
  BY <1>1, <1>3, Zenon DEF Has, Pending
<1>6. Head(functors).op # "destroyed" /\ Pending => Has(q)
  BY <1>1, <1>4, Zenon DEF Has, Pending
<1>7. 1 \in 1 .. Len(functors)
  BY <1>1
<1>8. Head(functors).op = "destroyed" /\ Alone => ~Has(q)
  BY <1>1, <1>3, <1>7, Zenon DEF Has, Alone, Single
<1>9. Alone => Single(q)
  <2> SUFFICES ASSUME Alone, NEW i \in 1 .. Len(q), NEW j \in 1 .. Len(q),
                      q[i].op = "destroyed", q[j].op = "destroyed"
               PROVE  i = j
    BY Zenon DEF Single
  <2>1. i + 1 = j + 1
    BY <1>1, <1>3, Zenon DEF Alone, Single
  <2> QED
    BY <2>1
<1>10. CallsQueued(q) => Raws
  BY <1>1, <1>2, <1>3, Zenon DEF CallsQueued, Raws, HoldsConnection
<1>11. Head(functors).op = "destroyed" => Pending
  BY <1>1, <1>7, Zenon DEF Pending, Has
<1> QED
  BY <1>5, <1>6, <1>8, <1>9, <1>10, <1>11, Zenon DEF q

\* q is the queue, or its rest while a functor other than connectDestroyed() runs.
Like(q) == (Has(q) <=> Pending) /\ (Alone => Single(q)) /\ (CallsQueued(q) => Raws)

Life == CountInv /\ EventInv /\ ServerInv

\* Steps that neither close nor destroy.
LEMMA SteadyLife ==
  ASSUME Life, UNCHANGED <<counts, server>>,
         state_' = state_ \/ (state_ \in OpenStates /\ state_' \in OpenStates),
         Pending' <=> Pending, Alone => Alone', Raws' => Raws \/ state_ # "kDisconnected",
         chan' = chan \/ (state_ # "kDisconnected" /\ chan' # "removed"),
         state_ = "kDisconnected" => events' = events,
         "hup" \in revents' \/ "in" \in revents' => state_ \in OpenStates,
         RoundInv'
  PROVE  Life'
<1> USE DEF Life, counts, server, OpenStates
<1>1. CountInv'
  BY Zenon DEF CountInv
<1>2. EventInv'
  BY Zenon DEF EventInv
<1>3. ServerInv'
  BY Zenon DEF ServerInv
<1> QED
  BY <1>1, <1>2, <1>3, Zenon

\* handleClose(), once.
LEMMA CloseLife ==
  ASSUME Life, NEW q \in Seq(Any), Like(q), HandleClose(q), Orderly', state_ \in OpenStates,
         "hup" \notin revents', "in" \notin revents', RoundInv'
  PROVE  Life'
<1> USE DEF Life, OpenStates
<1>1. /\ state_' = "kDisconnected" /\ events' = {} /\ chan' = "added"
      /\ downs' = downs + 1 /\ UNCHANGED <<ups, ends, serverAlive>> /\ CloseCallback(q)
  BY Zenon DEF HandleClose, SetEvents
<1>2. ends = 0 /\ ups = 1 /\ downs = 0 /\ (serverAlive => inMap /\ removals = 0)
  BY Zenon DEF CountInv, ServerInv
<1>3. CountInv'
  BY <1>1, <1>2 DEF CountInv
<1>4. EventInv'
  BY <1>1, Zenon DEF EventInv
<1>5. sameLoop => serverAlive
  BY DEF HandleClose, UnsafeIf, Orderly
<1>6. CASE serverAlive /\ sameLoop /\ inMap' = FALSE /\ removals' = removals
           /\ functors' = Append(q, Functor("destroyed"))
  <2>1. Pending' /\ Alone'
    BY <1>2, <1>6, PushDestroyed, Zenon DEF ServerInv, Like
  <2> QED
    BY <1>1, <1>2, <1>3, <1>4, <1>6, <2>1 DEF ServerInv
<1>7. CASE functors' = q /\ inMap' = inMap /\ removals' = removals + 1
  <2>1. (Pending' <=> Pending) /\ Alone'
    BY <1>7, KeptQueue, Zenon DEF ServerInv, Like
  <2> QED
    BY <1>1, <1>2, <1>3, <1>4, <1>7, <2>1 DEF ServerInv
<1> QED
  BY <1>1, <1>5, <1>6, <1>7, Zenon DEF CloseCallback

\* connectDestroyed(), once.
LEMMA DestroyedLife ==
  ASSUME Life, NEW q, ConnectDestroyed(q), Tears(q), Orderly', ends = 0,
         ~Has(q), Single(q), ~inMap', serverAlive' => serverAlive /\ ~inMap,
         removals' = removals, "hup" \notin revents', "in" \notin revents', RoundInv',
         state_ \in OpenStates \cup {"kDisconnected"}
  PROVE  Life'
<1> USE DEF Life
<1>1. /\ functors' = q /\ chan' = "removed" /\ ends' = 1 /\ ups' = ups
      /\ state_ # "kDisconnecting" /\ ~CallsQueued(q)
      /\ state_ = "kConnected" => state_' = "kDisconnected" /\ events' = {} /\ downs' = downs + 1
      /\ state_ # "kConnected" => UNCHANGED <<state_, events, downs>>
  BY DEF ConnectDestroyed, Tears, Torn, Orderly
<1>2. ~Pending' /\ Alone' /\ ~Raws'
  BY <1>1, KeptQueue, Zenon
<1>3. state_' = "kDisconnected" /\ events' = {} /\ ups' = 1 /\ downs' = 1
  BY <1>1 DEF CountInv, EventInv, OpenStates
<1>4. CountInv'
  BY <1>1, <1>2, <1>3, Zenon DEF CountInv, OpenStates
<1>5. EventInv'
  BY <1>3, Zenon DEF EventInv
<1>6. ServerInv'
  BY <1>1, <1>2, <1>3, Zenon DEF ServerInv
<1> QED
  BY <1>4, <1>5, <1>6, Zenon

LEMMA SameFunctors ==
  ASSUME functors' = functors
  PROVE  (Pending' <=> Pending) /\ (Alone => Alone') /\ (Raws' => Raws) /\ Like(functors)
  BY Zenon DEF Pending, Alone, Raws, Has, Single, CallsQueued, HoldsConnection, Like

LEMMA LikeItself == Like(functors)
  BY Zenon DEF Pending, Alone, Raws, Like

LEMMA AnyQueue == IInv => functors \in Seq(Any)
  BY Zenon DEF IInv, QueueInv, Any

\* A step that pushes a functor other than connectDestroyed(), or none.
Pushes(q) ==
  \/ functors' = q
  \/ \E f \in Any : f.op \notin Raw \cup {"destroyed"} /\ functors' = Append(q, f)

LEMMA PushesLike ==
  ASSUME NEW q \in Seq(Any), Like(q), Pushes(q)
  PROVE  (Pending' <=> Pending) /\ (Alone => Alone') /\ (Raws' => Raws)
  BY PushPlain, KeptQueue, Zenon DEF Like, Pushes

LEMMA CallbackPushes ==
  ASSUME NEW q, NEW op \in {"callback", "forceClose"},
         functors' = q \/ functors' = Append(q, Functor(op))
  PROVE  Pushes(q)
<1>1. Functor(op) \in Any /\ Functor(op).op \notin Raw \cup {"destroyed"}
  BY NotEstablished, Zenon DEF Any, Ops, Functor, Raw
<1> QED
  BY <1>1, Zenon DEF Pushes

\* A connection that is neither new nor closed is open.
LEMMA IsOpen ==
  ASSUME IInv, chan # "new", state_ # "kDisconnected" PROVE state_ \in OpenStates
  BY Opened, Zenon

\* Steps that leave the queue alone.
LEMMA OthersLife ==
  ASSUME IInv, LifeInv,
         \/ Poll \/ SwapFunctors \/ FunctorsDone \/ OwnDrop \/ PeerCloses \/ OwnShutdown
         \/ UNCHANGED vars
         \/ \E t \in Threads : ForeignDrop(t) \/ \E call \in ForeignCalls : ForeignTest(t, call)
  PROVE  LifeInv'
<1> SUFFICES ASSUME Orderly' PROVE Life'
  BY Zenon DEF LifeInv, Life
<1>1. UNCHANGED <<functors, counts, server, races, chan, events>>
  BY Zenon DEF Poll, SwapFunctors, FunctorsDone, OwnDrop, PeerCloses, OwnShutdown, ForeignDrop,
         ForeignTest, vars, chanvars, loopvars, users, counts, server
<1>2. Life
  BY <1>1, Zenon DEF LifeInv, Life, Orderly
<1>3. state_' = state_ \/ (state_ \in OpenStates /\ state_' \in OpenStates)
  BY Zenon DEF Poll, SwapFunctors, FunctorsDone, OwnDrop, PeerCloses, OwnShutdown, ForeignDrop,
         ForeignTest, vars, OpenStates
<1>4. ("hup" \in revents' \/ "in" \in revents' => state_ \in OpenStates) /\ RoundInv'
  <2>1. CASE Poll
    <3>1. revents' # {} => chan = "added" /\ state_ # "kDisconnected"
      BY <1>2, <2>1, Zenon DEF Poll, Life, EventInv
    <3>2. phase' = "handle" /\ (turn' # "listed" => revents' = {})
      BY <2>1, Zenon DEF Poll
    <3>3. "hup" \in revents' \/ "in" \in revents' => state_ \in OpenStates
      BY <3>1, IsOpen, Zenon
    <3> QED
      BY <3>2, <3>3, Zenon DEF RoundInv
  <2>2. CASE SwapFunctors \/ FunctorsDone
    BY <1>2, <2>2, Zenon DEF SwapFunctors, FunctorsDone, Life, EventInv, RoundInv
  <2>3. CASE UNCHANGED <<revents, phase, turn>>
    BY <1>2, <2>3, Zenon DEF Life, EventInv, RoundInv
  <2> QED
    BY <2>1, <2>2, <2>3, Zenon DEF OwnDrop, PeerCloses, OwnShutdown, ForeignDrop, ForeignTest, vars, loopvars
<1> QED
  BY <1>1, <1>2, <1>3, <1>4, SameFunctors, SteadyLife, Zenon

\* startRead() and stopRead() on an open connection, and the store of kDisconnecting.
LEMMA CallsLife ==
  ASSUME IInv, LifeInv, OwnRead \/ \E t \in Threads : ForeignSet(t) PROVE LifeInv'
<1> SUFFICES ASSUME Orderly' PROVE Life'
  BY Zenon DEF LifeInv, Life
<1>1. UNCHANGED <<functors, counts, server, revents, phase, turn>> /\ races \subseteq races'
  BY Zenon DEF OwnRead, ForeignSet, LateIf, loopvars, counts, server
<1>2. Life
  BY <1>1, Zenon DEF LifeInv, Life, Orderly
<1>3. chan # "new" /\ state_ # "kDisconnected"
  BY ForeignOpened, Zenon DEF OwnRead, ForeignSet, LateIf, Closed, Orderly
<1>4. state_ \in OpenStates
  BY <1>3, IsOpen, Zenon
<1>5. /\ state_' = state_ \/ state_' = "kDisconnecting"
      /\ chan' = chan \/ chan' = "added"
  BY Zenon DEF OwnRead, ForeignSet, StartReadInLoop, StopReadInLoop, SetEvents, chanvars
<1>6. RoundInv'
  BY <1>1, <1>2, Zenon DEF Life, EventInv, RoundInv
<1> QED
  BY <1>1, <1>2, <1>3, <1>4, <1>5, <1>6, SameFunctors, SteadyLife, Zenon DEF OpenStates

\* forceClose() of the loop's thread, and its timer.
LEMMA ClosingLife ==
  ASSUME IInv, LifeInv, OwnForceClose \/ DelayedForceClose PROVE LifeInv'
<1> SUFFICES ASSUME Orderly' PROVE Life'
  BY Zenon DEF LifeInv, Life
<1>1. UNCHANGED <<counts, server, races, chan, events, revents, phase, turn>>
  BY Zenon DEF OwnForceClose, DelayedForceClose, chanvars
<1>2. Life
  BY <1>1, Zenon DEF LifeInv, Life, Orderly
<1>3. state_' = state_ \/ (state_ \in OpenStates /\ state_' \in OpenStates)
  BY Zenon DEF OwnForceClose, DelayedForceClose, OpenStates
<1>4. functors' = functors \/ functors' = Append(functors, Functor("forceClose"))
  BY Zenon DEF OwnForceClose, DelayedForceClose
<1>5. (Pending' <=> Pending) /\ (Alone => Alone') /\ (Raws' => Raws)
  BY <1>4, CallbackPushes, PushesLike, LikeItself, AnyQueue, Zenon
<1>6. ("hup" \in revents' \/ "in" \in revents' => state_ \in OpenStates) /\ RoundInv'
  BY <1>1, <1>2, Zenon DEF Life, EventInv, RoundInv
<1> QED
  BY <1>1, <1>2, <1>3, <1>5, <1>6, SteadyLife, Zenon

\* A call of another thread, queued while the connection is open.
LEMMA ForeignQueueLife ==
  ASSUME IInv, LifeInv, NEW t \in Threads, ForeignQueue(t) PROVE LifeInv'
<1> SUFFICES ASSUME Orderly' PROVE Life'
  BY Zenon DEF LifeInv, Life
<1>1. UNCHANGED <<state_, counts, server, chan, events, revents, phase, turn>> /\ races \subseteq races'
  BY Zenon DEF ForeignQueue, LateIf, chanvars
<1>2. Life
  BY <1>1, Zenon DEF LifeInv, Life, Orderly
<1>3. state_ # "kDisconnected"
  BY Zenon DEF ForeignQueue, LateIf, Closed, Orderly
<1>4. fpc[t] \in Places \ {"idle", "shutdown", "forceClose"} /\ sent \in Nat
  BY Zenon DEF ForeignQueue, IInv, TypeInv
<1>5. Queued(t) \in Ops \ {"destroyed"}
  BY <1>4, Zenon DEF Queued, Ops, Places
<1>6. sent' \in Nat
  BY <1>4 DEF ForeignQueue
<1>7. PICK f \in Any : f.op # "destroyed" /\ functors' = Append(functors, f)
  BY <1>5, <1>6, Zenon DEF ForeignQueue, Queueable, Any
<1>8. (Pending' <=> Pending) /\ (Alone => Alone')
  BY <1>7, PushPlain, LikeItself, AnyQueue, Zenon DEF Like
<1>9. ("hup" \in revents' \/ "in" \in revents' => state_ \in OpenStates) /\ RoundInv'
  BY <1>1, <1>2, Zenon DEF Life, EventInv, RoundInv
<1> QED
  BY <1>1, <1>2, <1>3, <1>8, <1>9, SteadyLife, Zenon

\* The server takes the connection out of connections_.
LEMMA ServerLife ==
  ASSUME IInv, LifeInv, RemoveConnection \/ DestroyServer PROVE LifeInv'
<1> SUFFICES ASSUME Orderly' PROVE Life'
  BY Zenon DEF LifeInv, Life
<1>1. UNCHANGED <<revents, phase, turn>> /\ races \subseteq races'
  BY Zenon DEF RemoveConnection, DestroyServer, UnsafeIf
<1>2. CountInv /\ EventInv /\ ServerInv
  BY <1>1, Zenon DEF LifeInv, Orderly
<1>3. CASE /\ UNCHANGED <<state_, chan, events, counts>> /\ inMap /\ ~inMap'
           /\ functors' = Append(functors, Functor("destroyed"))
           /\ \/ removals' = 0 /\ state_ = "kDisconnected"
              \/ removals' = removals /\ ~serverAlive'
  <2>1. Pending' /\ Alone' /\ (Raws' => Raws)
    BY <1>2, <1>3, PushDestroyed, LikeItself, AnyQueue, Zenon DEF ServerInv, Like
  <2>2. CountInv'
    BY <1>2, <1>3, <2>1, Zenon DEF CountInv, counts
  <2>3. EventInv'
    BY <1>1, <1>2, <1>3, Zenon DEF EventInv, RoundInv
  <2>4. ServerInv'
    BY <1>2, <1>3, <2>1 DEF ServerInv, counts
  <2> QED
    BY <2>2, <2>3, <2>4, Zenon DEF Life
<1>4. CASE UNCHANGED <<state_, chan, events, counts, functors, removals>> /\ ~inMap /\ ~inMap' /\ ~serverAlive'
  <2>1. (Pending' <=> Pending) /\ (Alone => Alone') /\ (Raws' => Raws)
    BY <1>4, SameFunctors, Zenon
  <2>2. CountInv'
    BY <1>2, <1>4, <2>1, Zenon DEF CountInv, counts
  <2>3. EventInv'
    BY <1>1, <1>2, <1>4, Zenon DEF EventInv, RoundInv
  <2>4. ServerInv'
    BY <1>2, <1>4, <2>1, Zenon DEF ServerInv, counts
  <2> QED
    BY <2>2, <2>3, <2>4, Zenon DEF Life
<1>5. CASE /\ inMap /\ turn # "listed" /\ chan = "added" /\ ConnectDestroyed(functors)
           /\ Tears(functors) /\ ~inMap' /\ ~serverAlive' /\ removals' = removals
  <2>1. ends = 0 /\ ~Has(functors) /\ Single(functors)
    BY <1>2, <1>5, LikeItself, Zenon DEF ServerInv, Like
  <2>2. state_ \in OpenStates \cup {"kDisconnected"}
    BY <1>5, Opened, Zenon
  <2>3. "hup" \notin revents' /\ "in" \notin revents' /\ RoundInv'
    BY <1>1, <1>2, <1>5, Zenon DEF EventInv, RoundInv
  <2> QED
    BY <1>2, <1>5, <2>1, <2>2, <2>3, DestroyedLife, Zenon DEF Life
<1>6. CASE RemoveConnection
  <2>0. serverAlive
    BY <1>6 DEF RemoveConnection, UnsafeIf, Orderly
  <2>1. inMap /\ removals = 1 /\ state_ = "kDisconnected"
    BY <1>2, <1>6, <2>0 DEF RemoveConnection, ServerInv
  <2>2. removals' = 0 /\ ~inMap'
    BY <1>6, <2>1 DEF RemoveConnection
  <2> QED
    BY <1>3, <1>6, <2>1, <2>2, Zenon DEF RemoveConnection, chanvars
<1>7. CASE DestroyServer
  <2>1. "round" \notin races'
    BY DEF Orderly
  <2>2. ASSUME inMap, sameLoop, chan = "added", ConnectDestroyed(functors)
        PROVE  turn # "listed" /\ Tears(functors)
    BY <1>7, <2>1, <2>2 DEF DestroyServer, Tears, ConnectDestroyed
  <2> QED
    BY <1>3, <1>4, <1>5, <1>7, <2>2, Zenon DEF DestroyServer, chanvars
<1> QED
  BY <1>6, <1>7, Zenon

\* sendInLoop() pushes a callback at most, and lets a closed connection rest.
LEMMA SendIs ==
  ASSUME NEW k, NEW q, SendInLoop(k, q)
  PROVE  /\ Pushes(q)
         /\ chan' = chan \/ (state_ # "kDisconnected" /\ chan' # "removed")
         /\ state_ = "kDisconnected" => events' = events
<1>1. functors' = q \/ functors' = Append(q, Functor("callback"))
  BY Zenon DEF SendInLoop, GiveUpWriting, WriteDirectly, WriteFault, BufferOutput
<1>2. Pushes(q)
  BY <1>1, CallbackPushes, Zenon
<1>3. /\ chan' = chan \/ (state_ # "kDisconnected" /\ chan' # "removed")
      /\ state_ = "kDisconnected" => events' = events
  BY Zenon DEF SendInLoop, GiveUpWriting, WriteDirectly, WriteFault, BufferOutput, SetEvents
<1> QED
  BY <1>2, <1>3, Zenon

LEMMA OwnSendLife ==
  ASSUME IInv, LifeInv, OwnSend PROVE LifeInv'
<1> SUFFICES ASSUME Orderly' PROVE Life'
  BY Zenon DEF LifeInv, Life
<1>1. UNCHANGED <<state_, counts, server, races, revents, phase, turn>>
  BY Zenon DEF OwnSend
<1>2. Life
  BY <1>1, Zenon DEF LifeInv, Life, Orderly
<1>3. /\ Pushes(functors)
      /\ chan' = chan \/ (state_ # "kDisconnected" /\ chan' # "removed")
      /\ state_ = "kDisconnected" => events' = events
  <2>1. CASE SendInLoop(sent', functors)
    BY <2>1, SendIs, Zenon
  <2>2. CASE GiveUpWriting(functors)
    BY <2>2, Zenon DEF GiveUpWriting, Pushes
  <2> QED
    BY <2>1, <2>2, Zenon DEF OwnSend
<1>4. (Pending' <=> Pending) /\ (Alone => Alone') /\ (Raws' => Raws)
  BY <1>3, PushesLike, LikeItself, AnyQueue, Zenon
<1>5. ("hup" \in revents' \/ "in" \in revents' => state_ \in OpenStates) /\ RoundInv'
  BY <1>1, <1>2, Zenon DEF Life, EventInv, RoundInv
<1> QED
  BY <1>1, <1>2, <1>3, <1>4, <1>5, SteadyLife, Zenon

\* handleEvent(): it closes an open connection, and no second handler of the same
\* poll() closes it again.
LEMMA EventLife ==
  ASSUME IInv, LifeInv, HangUp \/ HandleRead PROVE LifeInv'
<1> SUFFICES ASSUME Orderly' PROVE Life'
  BY Zenon DEF LifeInv, Life
<1>1. /\ races \subseteq races' /\ phase' = phase /\ phase = "handle" /\ revents' \subseteq revents
      /\ turn' = turn \/ ("hup" \notin revents' /\ "in" \notin revents')
  <2>1. HandleClose(functors) => races \subseteq races'
    BY Zenon DEF HandleClose, UnsafeIf
  <2> QED
    BY <2>1, Zenon DEF HangUp, HandleRead
<1>2. Life
  BY <1>1, Zenon DEF LifeInv, Life, Orderly
<1>3. state_ \in OpenStates
  BY <1>2, Zenon DEF HangUp, HandleRead, Life, EventInv
<1>4. RoundInv'
  BY <1>1, <1>2, Zenon DEF Life, EventInv, RoundInv
<1>5. CASE HandleClose(functors) /\ "hup" \notin revents' /\ "in" \notin revents'
  BY <1>2, <1>3, <1>4, <1>5, CloseLife, LikeItself, AnyQueue, Zenon
<1>6. CASE UNCHANGED <<state_, chanvars, functors, server, counts>>
  BY <1>1, <1>2, <1>3, <1>4, <1>6, SameFunctors, SteadyLife, Zenon DEF chanvars
<1> QED
  BY <1>5, <1>6, Zenon DEF HangUp, HandleRead

LEMMA HandleWriteLife ==
  ASSUME IInv, LifeInv, HandleWrite PROVE LifeInv'
<1> SUFFICES ASSUME Orderly' PROVE Life'
  BY Zenon DEF LifeInv, Life
<1>1. UNCHANGED <<state_, races, phase, server, counts>> /\ phase = "handle" /\ revents' = {}
  BY Zenon DEF HandleWrite
<1>2. Life
  BY <1>1, Zenon DEF LifeInv, Life, Orderly
<1>3. functors' = functors \/ functors' = Append(functors, Functor("callback"))
  BY Zenon DEF HandleWrite
<1>4. (Pending' <=> Pending) /\ (Alone => Alone') /\ (Raws' => Raws)
  BY <1>3, CallbackPushes, PushesLike, LikeItself, AnyQueue, Zenon
<1>5. UNCHANGED <<chan, events>> \/ ("write" \in events /\ chan' = "added")
  BY Zenon DEF HandleWrite, SetEvents
<1>6. (state_ = "kDisconnected" => events = {}) /\ RoundInv'
  BY <1>1, <1>2, Zenon DEF Life, EventInv, RoundInv
<1> QED
  BY <1>1, <1>2, <1>4, <1>5, <1>6, SteadyLife, Zenon

\* The rest of the queue, when the running functor is not connectDestroyed().
LEMMA RunningQueue ==
  ASSUME IInv, phase = "functors", batch > 0
  PROVE  /\ functors \in Seq(Any) /\ functors # <<>> /\ Tail(functors) \in Seq(Any)
         /\ Head(functors).op # "destroyed" => Like(Tail(functors))
         /\ Head(functors).op = "established" <=> chan = "new"
<1>1. functors # <<>> /\ functors \in Seq(Any)
  BY Popped, AnyQueue, Zenon DEF IInv
<1>2. Tail(functors) \in Seq(Any)
  BY <1>1
<1>3. Head(functors).op # "destroyed" => Like(Tail(functors))
  BY <1>1, Rest, Zenon DEF Like
<1>4. Head(functors).op = "established" <=> chan = "new"
  <2>1. chan = "new" => Head(functors).op = "established"
    BY Popped DEF IInv, Established, Functor
  <2>2. chan # "new" => Head(functors).op # "established"
    BY Popped, Zenon DEF IInv, Queueable, Ops
  <2> QED
    BY <2>1, <2>2, Zenon
<1> QED
  BY <1>1, <1>2, <1>3, <1>4, Zenon

\* connectEstablished().
LEMMA EstablishedLife ==
  ASSUME IInv, Life, Like(Tail(functors)), ConnectEstablished(Tail(functors)), chan = "new",
         UNCHANGED <<server, revents>>, revents = {}, RoundInv'
  PROVE  Life'
<1>1. state_ = "kConnecting" /\ ups = 0 /\ downs = 0 /\ ends = 0
  <2>1. state_ = "kConnecting"
    BY Zenon DEF IInv, EarlyInv
  <2> QED
    BY <2>1, Zenon DEF Life, CountInv
<1>2. /\ state_' = "kConnected" /\ chan' = "added" /\ ups' = ups + 1 /\ UNCHANGED <<downs, ends>>
      /\ functors' = Tail(functors)
  BY Zenon DEF ConnectEstablished, SetEvents
<1>3. (Pending' <=> Pending) /\ (Alone => Alone')
  BY <1>2, KeptQueue, Zenon DEF Like
<1>4. CountInv'
  BY <1>1, <1>2 DEF CountInv, OpenStates
<1>5. EventInv'
  BY <1>2, Zenon DEF EventInv
<1>6. ServerInv'
  BY <1>1, <1>2, <1>3, Zenon DEF Life, ServerInv, server
<1> QED
  BY <1>4, <1>5, <1>6, Zenon DEF Life

\* doPendingFunctors().
LEMMA RunFunctorLife ==
  ASSUME IInv, LifeInv, RunFunctor PROVE LifeInv'
<1> SUFFICES ASSUME Orderly' PROVE Life'
  BY Zenon DEF LifeInv, Life
<1> DEFINE f == Head(functors)
           q == Tail(functors)
<1>1. phase = "functors" /\ batch > 0 /\ UNCHANGED <<phase, revents, turn>> /\ races \subseteq races'
  <2>1. ForceCloseInLoop(Tail(functors)) => races \subseteq races'
    BY Zenon DEF ForceCloseInLoop, HandleClose, UnsafeIf
  <2> QED
    BY <2>1, Zenon DEF RunFunctor, LateIf
<1>2. Life /\ revents = {} /\ revents' = {} /\ RoundInv'
  BY <1>1, Zenon DEF LifeInv, Life, Orderly, EventInv, RoundInv
<1>3. /\ functors \in Seq(Any) /\ functors # <<>> /\ q \in Seq(Any)
      /\ f.op # "destroyed" => Like(q)
      /\ f.op = "established" <=> chan = "new"
  BY <1>1, RunningQueue, Zenon
<1>4. f.op = "destroyed" => ends = 0 /\ ~inMap /\ ~Has(q) /\ Single(q)
  BY <1>2, <1>3, Rest, Zenon DEF Life, ServerInv
<1> HIDE DEF f, q
<1>5. CASE f.op = "established" /\ ConnectEstablished(q) /\ UNCHANGED server
  BY <1>1, <1>2, <1>3, <1>5, EstablishedLife, Zenon DEF q
<1>6. CASE f.op = "destroyed" /\ ConnectDestroyed(q) /\ Tears(q) /\ UNCHANGED server
  <2>1. chan # "new"
    BY <1>3, <1>6, Zenon
  <2>2. state_ \in OpenStates \cup {"kDisconnected"}
    BY <2>1, Opened, Zenon
  <2>3. inMap' = inMap /\ (serverAlive' => serverAlive) /\ removals' = removals
    BY <1>6, Zenon DEF server
  <2> QED
    BY <1>2, <1>4, <1>6, <2>2, <2>3, DestroyedLife, Zenon
<1>7. CASE /\ f.op # "destroyed" /\ Pushes(q) /\ UNCHANGED <<state_, server, counts>>
           /\ chan' = chan \/ (state_ # "kDisconnected" /\ chan' # "removed")
           /\ state_ = "kDisconnected" => events' = events
  <2>1. (Pending' <=> Pending) /\ (Alone => Alone') /\ (Raws' => Raws)
    BY <1>3, <1>7, PushesLike, Zenon
  <2> QED
    BY <1>2, <1>7, <2>1, SteadyLife, Zenon
<1>8. CASE f.op = "send" /\ SendInLoop(f.msg, q) /\ UNCHANGED <<state_, server, counts>>
  BY <1>7, <1>8, SendIs, Zenon
<1>9. CASE f.op \in {"shutdown", "callback"} /\ functors' = q /\ UNCHANGED <<state_, chanvars, server, counts>>
  BY <1>7, <1>9, Zenon DEF Pushes, chanvars
<1>10. CASE f.op = "forceClose" /\ ForceCloseInLoop(q)
  <2>1. CASE HandleClose(q) /\ state_ \in OpenStates
    BY <1>2, <1>3, <1>10, <2>1, CloseLife, Zenon
  <2>2. CASE functors' = q /\ UNCHANGED <<state_, chanvars, server, counts>>
    BY <1>7, <1>10, <2>2, Zenon DEF Pushes, chanvars
  <2> QED
    BY <1>10, <2>1, <2>2, Zenon DEF ForceCloseInLoop, OpenStates
<1>11. CASE /\ f.op \in {"startRead", "stopRead"} /\ functors' = q /\ LateIf(Closed)
            /\ (StartReadInLoop \/ StopReadInLoop) /\ UNCHANGED <<state_, server, counts>>
  <2>1. state_ # "kDisconnected"
    BY <1>11, Zenon DEF LateIf, Closed, Orderly
  <2>2. chan' = chan \/ chan' = "added"
    BY <1>11, Zenon DEF StartReadInLoop, StopReadInLoop, SetEvents, chanvars
  <2> QED
    BY <1>7, <1>11, <2>1, <2>2, Zenon DEF Pushes
<1> QED
  BY <1>5, <1>6, <1>8, <1>9, <1>10, <1>11, Zenon DEF RunFunctor, Tears, f, q

LEMMA InitLife == Init => LifeInv
<1> SUFFICES ASSUME Init PROVE Life
  BY Zenon DEF LifeInv, Life
<1>1. functors = <<Established>> /\ Established.op # "destroyed"
  BY Zenon DEF Init, Established, Functor
<1>2. Len(functors) = 1 /\ functors[1].op # "destroyed"
  BY <1>1, Zenon
<1>3. ~Pending /\ Alone
  BY <1>2 DEF Pending, Alone, Has, Single
<1>4. CountInv /\ EventInv
  BY DEF Init, CountInv, EventInv, RoundInv, OpenStates
<1>5. ServerInv
  BY <1>3 DEF Init, ServerInv
<1> QED
  BY <1>4, <1>5, Zenon DEF Life

LEMMA NextLife == IInv /\ LifeInv /\ [Next]_vars => LifeInv'
<1> SUFFICES ASSUME IInv, LifeInv, [Next]_vars PROVE LifeInv'
  OBVIOUS
<1>1. CASE LoopStep
  BY <1>1, OthersLife, EventLife, HandleWriteLife, RunFunctorLife, Zenon DEF LoopStep
<1>2. CASE OwnCall
  BY <1>2, OthersLife, OwnSendLife, ClosingLife, CallsLife, Zenon DEF OwnCall
<1>3. CASE RemoveConnection \/ DestroyServer
  BY <1>3, ServerLife, Zenon
<1>4. CASE PeerCloses \/ UNCHANGED vars
  BY <1>4, OthersLife, Zenon
<1>5. CASE \E t \in Threads : \/ \E call \in ForeignCalls : ForeignTest(t, call)
                              \/ ForeignSet(t) \/ ForeignQueue(t) \/ ForeignDrop(t)
  BY <1>5, OthersLife, CallsLife, ForeignQueueLife, Zenon
<1> QED
  BY <1>1, <1>2, <1>3, <1>4, <1>5, Zenon DEF Next

LEMMA LifeInvariance == Spec => [](IInv /\ LifeInv)
  BY InitInv, NextInv, InitLife, NextLife, PTL DEF Spec

\* Unless one of the races happened, connectionCallback_ reports the connection
\* down at most once and after up, and connectDestroyed() runs at most once, whoever
\* closes it: the peer, the loop's code, other threads or the server's destructor.
THEOREM ClosesOnce == Spec => []ClosedOnce
<1>1. IInv /\ LifeInv => ClosedOnce
  <2> SUFFICES ASSUME IInv, LifeInv, Orderly PROVE downs <= ups /\ ends <= 1
    BY Zenon DEF ClosedOnce
  <2>1. CountInv
    BY Zenon DEF LifeInv
  <2> QED
    BY <2>1 DEF CountInv, IInv, TypeInv, OpenStates
<1> QED
  BY <1>1, LifeInvariance, PTL

\* Unless one of the races happened, the last shared_ptr goes only when the
\* connection is closed, its channel is removed, without events, and the loop's queue
\* holds no functor bound to it.
THEOREM DestroyedQuietly == Spec => []DestroyedClosed
<1>1. IInv /\ LifeInv => DestroyedClosed
  <2> SUFFICES ASSUME IInv, LifeInv, Orderly
               PROVE  /\ ~Alive => state_ = "kDisconnected" /\ chan = "removed" /\ functors = <<>>
                      /\ chan = "removed" => events = {}
    BY Zenon DEF DestroyedClosed
  <2>1. CountInv /\ EventInv /\ ServerInv
    BY Zenon DEF LifeInv
  <2>2. functors \in Seq(Any) /\ DOMAIN functors = 1 .. Len(functors)
    BY AnyQueue
  <2>3. ASSUME ~Alive PROVE state_ = "kDisconnected" /\ chan = "removed" /\ functors = <<>>
    <3>1. ~inMap /\ \A i \in DOMAIN functors : ~HoldsConnection(functors[i])
      BY <2>3, Zenon DEF Alive
    <3>2. ~Pending
      BY <2>2, <3>1, Zenon DEF Pending, Has, HoldsConnection, Raw
    <3>3. ends = 1
      BY <2>1, <3>1, <3>2, Zenon DEF ServerInv
    <3>4. state_ = "kDisconnected" /\ chan = "removed" /\ ~Raws
      BY <2>1, <3>3, Zenon DEF CountInv
    <3>5. DOMAIN functors = {}
      BY <3>1, <3>4, Zenon DEF Raws, CallsQueued
    <3>6. functors = <<>>
      BY <2>2, <3>5
    <3> QED
      BY <3>4, <3>6, Zenon
  <2>4. chan = "removed" => events = {}
    BY <2>1, Zenon DEF CountInv, EventInv
  <2> QED
    BY <2>3, <2>4, Zenon
<1> QED
  BY <1>1, LifeInvariance, PTL

-----------------------------------------------------------------------------
(* A graceful close is not forgotten, whatever the scheduling: the part of *)
(* ClosingCompletes that needs no fairness.                                *)

\* A functor that shuts down or closes, in a queue; a thread that is about to queue one.
Ender(q) == \E i \in 1 .. Len(q) : q[i].op \in {"shutdown", "forceClose"}
AboutToEnd == \E t \in Threads : fpc[t] \in {"queue shutdown", "queue forceClose"}

\* A connection in kDisconnecting has been shut down, or something is still to do it:
\* handleWrite() when the watched buffer is empty, a queued shutdownInLoop() or
\* forceCloseInLoop(), the timer of forceCloseWithDelay(), or a thread between its store
\* to state_ and its call of queueInLoop().
ClosingUnderway ==
  Orderly /\ state_ = "kDisconnecting" =>
    fin \/ "write" \in events \/ delayed \/ Ender(functors) \/ AboutToEnd

LEMMA PushKeepsEnder ==
  ASSUME NEW q \in Seq(Any), functors' = q \/ \E f \in Any : functors' = Append(q, f)
  PROVE  Ender(q) => Ender(functors)'
<1>1. CASE functors' = q
  BY <1>1, Zenon DEF Ender
<1>2. ASSUME NEW f \in Any, functors' = Append(q, f) PROVE Ender(q) => Ender(functors)'
  <2>1. \A i \in 1 .. Len(q) : i \in 1 .. Len(functors') /\ functors'[i] = q[i]
    BY <1>2
  <2> QED
    BY <2>1, Zenon DEF Ender
<1> QED
  BY <1>1, <1>2, Zenon

LEMMA PushMakesEnder ==
  ASSUME functors \in Seq(Any), NEW f \in Any, f.op \in {"shutdown", "forceClose"},
         functors' = Append(functors, f)
  PROVE  Ender(functors)'
<1>1. Len(functors) + 1 \in 1 .. Len(functors') /\ functors'[Len(functors) + 1] = f
  OBVIOUS
<1> QED
  BY <1>1, Zenon DEF Ender

LEMMA RestKeepsEnder ==
  ASSUME functors \in Seq(Any), functors # <<>>, Head(functors).op \notin {"shutdown", "forceClose"}
  PROVE  Ender(functors) => Ender(Tail(functors))
<1>1. Head(functors) = functors[1]
  OBVIOUS
<1>2. \A i \in 1 .. Len(functors) :
        i = 1 \/ (i - 1 \in 1 .. Len(Tail(functors)) /\ Tail(functors)[i - 1] = functors[i])
  OBVIOUS
<1> QED
  BY <1>1, <1>2, Zenon DEF Ender

\* A step that does not start a close keeps whatever is to finish one.
LEMMA StillUnderway ==
  ASSUME ClosingUnderway, Orderly' => Orderly,
         state_' = "kDisconnecting" => state_ = "kDisconnecting",
         fin => fin', "write" \in events => fin' \/ "write" \in events',
         delayed => delayed' \/ Ender(functors)', Ender(functors) => fin' \/ "write" \in events' \/ Ender(functors)',
         AboutToEnd => AboutToEnd' \/ Ender(functors)'
  PROVE  ClosingUnderway'
  BY Zenon DEF ClosingUnderway

\* Steps that leave the queue alone, or close the connection.
LEMMA OthersUnderway ==
  ASSUME IInv, ClosingUnderway,
         \/ Poll \/ SwapFunctors \/ FunctorsDone \/ OwnDrop \/ PeerCloses \/ OwnRead
         \/ HangUp \/ HandleRead \/ UNCHANGED vars
         \/ \E t \in Threads : ForeignDrop(t) \/ \E call \in ForeignCalls : ForeignTest(t, call)
  PROVE  ClosingUnderway'
<1>1. CASE state_' = "kDisconnected"
  BY <1>1, Zenon DEF ClosingUnderway
<1>2. CASE state_' # "kDisconnected"
  <2>0. UNCHANGED <<functors, state_>>
    BY <1>2, Zenon DEF Poll, SwapFunctors, FunctorsDone, OwnDrop, PeerCloses, OwnRead, HangUp, HandleRead,
         HandleClose, ForeignDrop, ForeignTest, vars, loopvars
  <2>1. races \subseteq races' /\ UNCHANGED <<fin, delayed>> /\ ("write" \in events => "write" \in events')
    BY <1>2, Zenon DEF Poll, SwapFunctors, FunctorsDone, OwnDrop, PeerCloses, OwnRead, HangUp, HandleRead,
         HandleClose, ForeignDrop, ForeignTest, StartReadInLoop, StopReadInLoop, SetEvents, LateIf,
         vars, chanvars, users
  <2>2. AboutToEnd => AboutToEnd'
    <3>1. CASE fpc' = fpc
      BY <3>1, Zenon DEF AboutToEnd
    <3>2. CASE \E t \in Threads, call \in ForeignCalls : ForeignTest(t, call)
      BY <3>2, Zenon DEF AboutToEnd, ForeignTest, IInv, TypeInv
    <3> QED
      BY <3>1, <3>2, Zenon DEF Poll, SwapFunctors, FunctorsDone, OwnDrop, PeerCloses, OwnRead, HangUp,
           HandleRead, ForeignDrop, vars, users
  <2>3. Ender(functors) => Ender(functors)'
    BY <2>0, Zenon DEF Ender
  <2>4. Orderly' => Orderly
    BY <2>1, Zenon DEF Orderly
  <2> QED
    BY <2>0, <2>1, <2>2, <2>3, <2>4, StillUnderway, Zenon
<1> QED
  BY <1>1, <1>2, Zenon

\* sendInLoop() watches for what it buffers.
LEMMA SendUnderway ==
  ASSUME NEW k, NEW q, SendInLoop(k, q)
  PROVE  Pushes(q) /\ ("write" \in events => "write" \in events')
<1>1. "write" \in events => "write" \in events'
  BY Zenon DEF SendInLoop, GiveUpWriting, WriteDirectly, WriteFault, BufferOutput, SetEvents
<1> QED
  BY <1>1, SendIs, Zenon

\* The loop's own code starts a close with what is to finish it.
LEMMA OwnUnderway ==
  ASSUME IInv, LifeInv, ClosingUnderway, OwnSend \/ OwnShutdown \/ OwnForceClose \/ DelayedForceClose
  PROVE  ClosingUnderway'
<1>0. functors \in Seq(Any)
  BY AnyQueue, Zenon
<1>1. CASE OwnSend
  <2>1. UNCHANGED <<state_, fin, races, fpc, delayed>>
    BY <1>1, Zenon DEF OwnSend
  <2>2. Pushes(functors) /\ ("write" \in events => "write" \in events')
    BY <1>1, SendUnderway, Zenon DEF OwnSend, GiveUpWriting, Pushes
  <2>3. Ender(functors) => Ender(functors)'
    BY <1>0, <2>2, PushKeepsEnder, Zenon DEF Pushes
  <2> QED
    BY <2>1, <2>2, <2>3, StillUnderway, Zenon DEF AboutToEnd, Orderly
<1>2. CASE OwnShutdown
  <2>1. fin' \/ "write" \in events'
    BY <1>2, Zenon DEF OwnShutdown, ShutdownInLoop, chanvars
  <2> QED
    BY <2>1, Zenon DEF ClosingUnderway
<1>3. ASSUME functors' = Append(functors, Functor("forceClose")) PROVE Ender(functors)'
  <2>1. Functor("forceClose") \in Any /\ Functor("forceClose").op \in {"shutdown", "forceClose"}
    BY NotEstablished, Zenon DEF Any, Ops, Functor
  <2> QED
    BY <1>0, <1>3, <2>1, PushMakesEnder, Zenon
<1>4. CASE OwnForceClose
  <2>1. Ender(functors)' \/ delayed'
    BY <1>3, <1>4, Zenon DEF OwnForceClose
  <2> QED
    BY <2>1, Zenon DEF ClosingUnderway
<1>5. CASE DelayedForceClose
  <2>1. CASE functors' = Append(functors, Functor("forceClose"))
    BY <1>3, <2>1, Zenon DEF ClosingUnderway
  <2>2. CASE ~(Alive /\ state_ \in OpenStates)
    <3>1. state_' = state_ /\ races' = races
      BY <1>5, <2>2, Zenon DEF DelayedForceClose, OpenStates
    <3>2. Orderly /\ state_ \in OpenStates => Alive
      <4> SUFFICES ASSUME Orderly, state_ \in OpenStates PROVE Alive
        BY Zenon
      <4>1. CountInv /\ ServerInv
        BY Zenon DEF LifeInv
      <4>2. ends # 1
        BY <4>1, Zenon DEF CountInv, OpenStates
      <4>3. inMap \/ Pending
        BY <4>1, <4>2, Zenon DEF ServerInv
      <4>4. DOMAIN functors = 1 .. Len(functors)
        BY <1>0
      <4> QED
        BY <4>3, <4>4, Zenon DEF Alive, Pending, Has, HoldsConnection, Raw
    <3> QED
      BY <2>2, <3>1, <3>2, Zenon DEF ClosingUnderway, Orderly, OpenStates
  <2> QED
    BY <1>5, <2>1, <2>2, Zenon DEF DelayedForceClose, OpenStates
<1> QED
  BY <1>1, <1>2, <1>4, <1>5, Zenon

\* handleWrite() shuts down a closing connection when it stops watching.
LEMMA HandleWriteUnderway ==
  ASSUME IInv, ClosingUnderway, HandleWrite PROVE ClosingUnderway'
<1>1. UNCHANGED <<state_, races, fpc, delayed>> /\ (fin => fin')
  <2>1. fin' = fin \/ fin' = (fin \/ state_ = "kDisconnecting")
    BY Zenon DEF HandleWrite
  <2>2. fin => fin'
    BY <2>1, Zenon
  <2> QED
    BY <2>2, Zenon DEF HandleWrite, users
<1>2. "write" \in events /\ state_ = "kDisconnecting" => fin' \/ "write" \in events'
  BY Zenon DEF HandleWrite
<1>3. functors' = functors \/ functors' = Append(functors, Functor("callback"))
  BY Zenon DEF HandleWrite
<1>4. Ender(functors) => Ender(functors)'
  BY <1>3, CallbackPushes, AnyQueue, PushKeepsEnder, Zenon DEF Pushes
<1> QED
  BY <1>1, <1>2, <1>4, Zenon DEF ClosingUnderway, AboutToEnd, Orderly

\* Another thread stores kDisconnecting, then queues its functor.
LEMMA ForeignUnderway ==
  ASSUME IInv, ClosingUnderway, NEW t \in Threads, ForeignSet(t) \/ ForeignQueue(t)
  PROVE  ClosingUnderway'
<1>1. CASE ForeignSet(t)
  <2>1. fpc'[t] \in {"queue shutdown", "queue forceClose"}
    BY <1>1, Zenon DEF ForeignSet, IInv, TypeInv
  <2> QED
    BY <2>1, Zenon DEF ClosingUnderway, AboutToEnd
<1>2. CASE ForeignQueue(t)
  <2>1. UNCHANGED <<state_, fin, events, delayed>> /\ races \subseteq races'
    BY <1>2, Zenon DEF ForeignQueue, LateIf, chanvars
  <2>2. fpc[t] \in Places \ {"idle", "shutdown", "forceClose"} /\ sent \in Nat
    BY <1>2, Zenon DEF ForeignQueue, IInv, TypeInv
  <2>3. Queued(t) \in Ops
    BY <2>2, Zenon DEF Queued, Ops, Places
  <2>4. sent' \in Nat
    BY <1>2, <2>2 DEF ForeignQueue
  <2>5. PICK f \in Any : f.op = Queued(t) /\ functors' = Append(functors, f)
    BY <1>2, <2>3, <2>4, Zenon DEF ForeignQueue, Queueable, Any
  <2>6. Ender(functors) => Ender(functors)'
    BY <2>5, AnyQueue, PushKeepsEnder, Zenon
  <2>7. fpc[t] \in {"queue shutdown", "queue forceClose"} => Ender(functors)'
    BY <2>5, AnyQueue, PushMakesEnder, Zenon DEF Queued
  <2>8. \A u \in Threads : u # t => fpc'[u] = fpc[u]
    BY <1>2, Zenon DEF ForeignQueue, IInv, TypeInv
  <2>9. AboutToEnd => AboutToEnd' \/ Ender(functors)'
    BY <2>7, <2>8, Zenon DEF AboutToEnd
  <2> QED
    BY <2>1, <2>6, <2>9, StillUnderway, Zenon DEF Orderly
<1> QED
  BY <1>1, <1>2, Zenon

\* connectDestroyed() of a closing connection is the race.
LEMMA DestroyedUnderway ==
  ASSUME NEW q, ConnectDestroyed(q), Tears(q) PROVE ClosingUnderway'
<1>1. state_ = "kDisconnecting" => ~Orderly'
  BY DEF Tears, Torn, Orderly
<1>2. state_' = "kDisconnecting" => state_ = "kDisconnecting"
  BY Zenon DEF ConnectDestroyed
<1> QED
  BY <1>1, <1>2, Zenon DEF ClosingUnderway

LEMMA ServerUnderway ==
  ASSUME IInv, ClosingUnderway, RemoveConnection \/ DestroyServer PROVE ClosingUnderway'
<1>1. CASE ConnectDestroyed(functors) /\ Tears(functors)
  BY <1>1, DestroyedUnderway, Zenon
<1>2. CASE /\ UNCHANGED <<state_, fin, events, delayed, fpc>> /\ races \subseteq races'
           /\ functors' = functors \/ functors' = Append(functors, Functor("destroyed"))
  <2>1. Functor("destroyed") \in Any
    BY NotEstablished, Zenon DEF Any, Ops
  <2>2. Ender(functors) => Ender(functors)'
    BY <1>2, <2>1, AnyQueue, PushKeepsEnder, Zenon
  <2> QED
    BY <1>2, <2>2, StillUnderway, Zenon DEF AboutToEnd, Orderly
<1> QED
  BY <1>1, <1>2, Zenon DEF RemoveConnection, DestroyServer, UnsafeIf, Tears, chanvars, users

\* doPendingFunctors(): a queued shutdownInLoop() or forceCloseInLoop() is replaced by
\* what it does.
LEMMA RunFunctorUnderway ==
  ASSUME IInv, LifeInv, ClosingUnderway, RunFunctor PROVE ClosingUnderway'
<1> DEFINE f == Head(functors)
           q == Tail(functors)
<1>1. phase = "functors" /\ batch > 0 /\ races \subseteq races' /\ UNCHANGED <<fpc, delayed>>
  <2>1. ForceCloseInLoop(Tail(functors)) => races \subseteq races'
    BY Zenon DEF ForceCloseInLoop, HandleClose, UnsafeIf
  <2> QED
    BY <2>1, Zenon DEF RunFunctor, LateIf, users
<1>2. functors \in Seq(Any) /\ functors # <<>> /\ q \in Seq(Any)
  BY <1>1, RunningQueue, Zenon
<1>3. f.op \notin {"shutdown", "forceClose"} /\ Ender(functors) => Ender(q)
  BY <1>2, RestKeepsEnder, Zenon
<1> HIDE DEF f, q
<1>4. CASE state_' \in {"kConnected", "kDisconnected"}
  BY <1>4, Zenon DEF ClosingUnderway
<1>5. CASE f.op = "destroyed" /\ ConnectDestroyed(q) /\ Tears(q)
  BY <1>5, DestroyedUnderway, Zenon
<1>6. CASE /\ f.op \notin {"shutdown", "forceClose"} /\ Pushes(q) /\ UNCHANGED <<state_, fin>>
           /\ "write" \in events => "write" \in events'
  <2>1. Ender(functors) => Ender(functors)'
    BY <1>2, <1>3, <1>6, PushKeepsEnder, Zenon DEF Pushes
  <2>2. Orderly' => Orderly
    BY <1>1, Zenon DEF Orderly
  <2> QED
    BY <1>1, <1>6, <2>1, <2>2, StillUnderway, Zenon DEF AboutToEnd
<1>7. CASE f.op = "send" /\ SendInLoop(f.msg, q) /\ UNCHANGED <<state_, fin>>
  BY <1>6, <1>7, SendUnderway, Zenon
<1>8. CASE f.op = "shutdown" /\ ShutdownInLoop /\ UNCHANGED chanvars
  <2>1. fin' \/ "write" \in events'
    BY <1>8, Zenon DEF ShutdownInLoop, chanvars
  <2> QED
    BY <2>1, Zenon DEF ClosingUnderway
<1>9. CASE f.op = "forceClose" /\ ForceCloseInLoop(q)
  <2>1. state_' = "kDisconnected" \/ (state_' = state_ /\ state_ # "kDisconnecting")
    BY <1>9, Zenon DEF ForceCloseInLoop, HandleClose
  <2> QED
    BY <2>1, Zenon DEF ClosingUnderway
<1>10. CASE /\ f.op \in {"startRead", "stopRead"} /\ functors' = q
            /\ (StartReadInLoop \/ StopReadInLoop) /\ UNCHANGED <<state_, fin>>
  <2>1. "write" \in events => "write" \in events'
    BY <1>10, Zenon DEF StartReadInLoop, StopReadInLoop, SetEvents, chanvars
  <2> QED
    BY <1>6, <1>10, <2>1, Zenon DEF Pushes
<1>11. CASE f.op = "callback" /\ functors' = q /\ UNCHANGED <<state_, fin, chanvars>>
  BY <1>6, <1>11, Zenon DEF Pushes, chanvars
<1>12. CASE ConnectEstablished(q)
  BY <1>4, <1>12, Zenon DEF ConnectEstablished
<1> QED
  BY <1>5, <1>7, <1>8, <1>9, <1>10, <1>11, <1>12, Zenon DEF RunFunctor, Tears, f, q

\* Unless one of the races happened, shutdown(), forceClose() and
\* forceCloseWithDelay() are never forgotten: as long as the connection is closing and
\* its socket is not shut down, one of the steps that do it is still to come.
THEOREM ClosingNotForgotten == Spec => []ClosingUnderway
<1>1. Init => ClosingUnderway
  BY Zenon DEF Init, ClosingUnderway
<1>2. IInv /\ LifeInv /\ ClosingUnderway /\ [Next]_vars => ClosingUnderway'
  <2> SUFFICES ASSUME IInv, LifeInv, ClosingUnderway, [Next]_vars PROVE ClosingUnderway'
    OBVIOUS
  <2>1. CASE LoopStep
    BY <2>1, OthersUnderway, HandleWriteUnderway, RunFunctorUnderway, Zenon DEF LoopStep
  <2>2. CASE OwnCall
    BY <2>2, OthersUnderway, OwnUnderway, Zenon DEF OwnCall
  <2>3. CASE RemoveConnection \/ DestroyServer
    BY <2>3, ServerUnderway, Zenon
  <2>4. CASE PeerCloses \/ UNCHANGED vars
    BY <2>4, OthersUnderway, Zenon
  <2>5. CASE \E t \in Threads : \/ \E call \in ForeignCalls : ForeignTest(t, call)
                                \/ ForeignSet(t) \/ ForeignQueue(t) \/ ForeignDrop(t)
    BY <2>5, OthersUnderway, ForeignUnderway, Zenon
  <2> QED
    BY <2>1, <2>2, <2>3, <2>4, <2>5, Zenon DEF Next
<1> QED
  BY <1>1, <1>2, LifeInvariance, PTL DEF Spec

-----------------------------------------------------------------------------
(* What each operator does to a buffer.                                    *)

\* The content is a sequence of bytes, one for each index between the two.
LEMMA ReadableType ==
  ASSUME NEW b, IsBuffer(b)
  PROVE  /\ Readable(b) \in Seq(Byte)
         /\ Len(Readable(b)) = ReadableBytes(b)
         /\ ReadableBytes(b) \in Nat /\ WritableBytes(b) \in Nat /\ PrependableBytes(b) \in Nat
         /\ \A i \in 1 .. ReadableBytes(b) : Readable(b)[i] = b.mem[b.reader + i - 1]
<1>1. ReadableBytes(b) \in Nat /\ WritableBytes(b) \in Nat /\ PrependableBytes(b) \in Nat
  BY DEF IsBuffer, ReadableBytes, WritableBytes, PrependableBytes
<1>2. \A i \in 1 .. ReadableBytes(b) : b.mem[b.reader + i - 1] \in Byte
  BY DEF IsBuffer, ReadableBytes
<1>3. Readable(b) \in [1 .. ReadableBytes(b) -> Byte]
  BY <1>2, Zenon DEF Readable
<1> QED
  BY <1>1, <1>3 DEF Readable

\* Two buffers of one length that agree byte by byte have the same content.
LEMMA ReadableEqual ==
  ASSUME NEW b, IsBuffer(b), NEW s \in Seq(Byte), Len(s) = ReadableBytes(b),
         \A i \in 1 .. Len(s) : b.mem[b.reader + i - 1] = s[i]
  PROVE  Readable(b) = s
<1>1. s \in [1 .. Len(s) -> Byte]
  OBVIOUS
<1>2. s = [i \in 1 .. Len(s) |-> s[i]]
  BY <1>1, Zenon
<1>3. Readable(b) = [i \in 1 .. Len(s) |-> s[i]]
  BY Zenon DEF Readable
<1> QED
  BY <1>2, <1>3, Zenon

\* Buffer::Buffer() gives an empty buffer with its prepend area.
LEMMA NewBuffer ==
  /\ IsBuffer(New) /\ Readable(New) = <<>>
  /\ New.size = kCheapPrepend + kInitialSize
  /\ New.reader = kCheapPrepend /\ New.writer = kCheapPrepend
<1>1. /\ New.size = kCheapPrepend + kInitialSize
      /\ New.reader = kCheapPrepend /\ New.writer = kCheapPrepend
  BY Zenon DEF New
<1>2. New.mem \in [0 .. New.size - 1 -> Byte]
  BY BufferAssumption DEF New
<1>3. IsBuffer(New)
  BY <1>1, <1>2, BufferAssumption DEF IsBuffer, New
<1>4. ReadableBytes(New) = 0
  BY <1>1, BufferAssumption DEF ReadableBytes
<1>5. Readable(New) = <<>>
  BY <1>3, <1>4, ReadableType
<1> QED
  BY <1>1, <1>3, <1>5, Zenon

\* vector::resize() to a larger size leaves content and indices alone.
LEMMA ResizeKeeps ==
  ASSUME NEW b, IsBuffer(b), NEW n \in Nat, b.size <= n
  PROVE  LET c == Resize(b, n)
         IN  /\ IsBuffer(c) /\ Readable(c) = Readable(b)
             /\ c.size = n /\ c.reader = b.reader /\ c.writer = b.writer
<1> DEFINE c == Resize(b, n)
           m == [i \in 0 .. n - 1 |-> IF i < b.size THEN b.mem[i] ELSE Zero]
<1>1. c = [b EXCEPT !.mem = m, !.size = n]
  BY Zenon DEF Resize
<1>2. m \in [0 .. n - 1 -> Byte]
  BY BufferAssumption DEF IsBuffer
<1> HIDE DEF m, c
<1>3. c.mem = m /\ c.size = n /\ c.reader = b.reader /\ c.writer = b.writer
  BY <1>1, Zenon DEF IsBuffer
<1>4. IsBuffer(c)
  <2>1. c \in [mem : [0 .. n - 1 -> Byte], size : Nat, reader : Nat, writer : Nat]
    <3> DEFINE S == [0 .. b.size - 1 -> Byte]
               T == [0 .. n - 1 -> Byte]
    <3>1. b \in [mem : S, size : Nat, reader : Nat, writer : Nat] /\ m \in T
      BY <1>2, Zenon DEF IsBuffer
    <3> HIDE DEF S, T
    <3>2. c \in [mem : T, size : Nat, reader : Nat, writer : Nat]
      BY <1>1, <3>1, Zenon
    <3> QED
      BY <3>2, Zenon DEF T
  <2>2. c.reader <= c.writer /\ c.writer <= c.size
    BY <1>3 DEF IsBuffer
  <2> QED
    BY <1>3, <2>1, <2>2, Zenon DEF IsBuffer
<1>5. \A i \in 1 .. ReadableBytes(b) : m[b.reader + i - 1] = b.mem[b.reader + i - 1]
  BY DEF m, IsBuffer, ReadableBytes
<1>6. ReadableBytes(c) = ReadableBytes(b)
  BY <1>3, Zenon DEF ReadableBytes
<1>7. Readable(c) = Readable(b)
  BY <1>3, <1>4, <1>5, <1>6, ReadableType, ReadableEqual, Zenon
<1> QED
  BY <1>3, <1>4, <1>7, Zenon DEF c

\* std::copy() to an area inside the vector changes that area and no index.
LEMMA CopyWrites ==
  ASSUME NEW b, IsBuffer(b), NEW data \in Seq(Byte), NEW at \in Nat, at + Len(data) <= b.size
  PROVE  LET c == Copy(b, data, at)
         IN  /\ IsBuffer(c)
             /\ c.size = b.size /\ c.reader = b.reader /\ c.writer = b.writer
             /\ \A i \in 1 .. Len(data) : c.mem[at + i - 1] = data[i]
             /\ \A i \in 0 .. b.size - 1 : i < at \/ i >= at + Len(data) => c.mem[i] = b.mem[i]
<1> DEFINE c == Copy(b, data, at)
           m == [i \in 0 .. b.size - 1 |->
                   IF i \in at .. at + Len(data) - 1 THEN data[i - at + 1] ELSE b.mem[i]]
<1>1. c = [b EXCEPT !.mem = m]
  BY Zenon DEF Copy
<1>2. \A i \in at .. at + Len(data) - 1 : data[i - at + 1] \in Byte
  <2> SUFFICES ASSUME NEW i \in at .. at + Len(data) - 1 PROVE data[i - at + 1] \in Byte
    OBVIOUS
  <2>1. i - at + 1 \in 1 .. Len(data)
    OBVIOUS
  <2> QED
    BY <2>1
<1>3. m \in [0 .. b.size - 1 -> Byte]
  BY <1>2, Zenon DEF IsBuffer
<1>4. \A i \in 1 .. Len(data) : m[at + i - 1] = data[i]
  <2> SUFFICES ASSUME NEW i \in 1 .. Len(data) PROVE m[at + i - 1] = data[i]
    OBVIOUS
  <2>1. at + i - 1 \in at .. at + Len(data) - 1 /\ at + i - 1 \in 0 .. b.size - 1
        /\ (at + i - 1) - at + 1 = i
    BY DEF IsBuffer
  <2> QED
    BY <2>1, Zenon
<1>5. \A i \in 0 .. b.size - 1 : i < at \/ i >= at + Len(data) => m[i] = b.mem[i]
  OBVIOUS
<1> HIDE DEF m, c
<1>6. c.mem = m /\ c.size = b.size /\ c.reader = b.reader /\ c.writer = b.writer
  BY <1>1, Zenon DEF IsBuffer
<1>7. IsBuffer(c)
  BY <1>1, <1>3, <1>6, Zenon DEF IsBuffer
<1> QED
  BY <1>4, <1>5, <1>6, <1>7, Zenon DEF c

\* Setting the indices leaves the vector alone.
LEMMA SetIndicesType ==
  ASSUME NEW b, IsBuffer(b), NEW r \in Nat, NEW w \in Nat, r <= w, w <= b.size
  PROVE  LET c == SetIndices(b, r, w)
         IN  IsBuffer(c) /\ c.mem = b.mem /\ c.size = b.size /\ c.reader = r /\ c.writer = w
<1> DEFINE c == SetIndices(b, r, w)
           S == [0 .. b.size - 1 -> Byte]
<1>1. b \in [mem : S, size : Nat, reader : Nat, writer : Nat]
  BY Zenon DEF IsBuffer
<1> HIDE DEF S
<1>2. c \in [mem : S, size : Nat, reader : Nat, writer : Nat]
  BY <1>1, Zenon DEF SetIndices
<1>3. c.mem = b.mem /\ c.size = b.size /\ c.reader = r /\ c.writer = w
  BY <1>1, Zenon DEF SetIndices
<1> QED
  BY <1>2, <1>3, Zenon DEF IsBuffer, S

\* Concatenation, byte by byte.
LEMMA ConcatBytes ==
  ASSUME NEW s \in Seq(Byte), NEW t \in Seq(Byte)
  PROVE  /\ s \o t \in Seq(Byte) /\ Len(s \o t) = Len(s) + Len(t)
         /\ \A i \in 1 .. Len(s) : (s \o t)[i] = s[i]
         /\ \A i \in 1 .. Len(t) : (s \o t)[Len(s) + i] = t[i]
  OBVIOUS

\* makeSpace() moving the readable bytes to the front keeps them.
LEMMA MoveToFrontKeeps ==
  ASSUME NEW b, IsBuffer(b), kCheapPrepend + ReadableBytes(b) <= b.size
  PROVE  LET c == MoveToFront(b)
         IN  /\ IsBuffer(c) /\ Readable(c) = Readable(b)
             /\ c.size = b.size /\ c.reader = kCheapPrepend
             /\ c.writer = kCheapPrepend + ReadableBytes(b)
<1> DEFINE d == Copy(b, Readable(b), kCheapPrepend)
           w == kCheapPrepend + ReadableBytes(b)
           c == SetIndices(d, kCheapPrepend, w)
<1>1. kCheapPrepend \in Nat /\ w \in Nat /\ kCheapPrepend <= w /\ w <= b.size
      /\ Readable(b) \in Seq(Byte) /\ Len(Readable(b)) = ReadableBytes(b)
  BY ReadableType, BufferAssumption
<1>2. /\ IsBuffer(d) /\ d.size = b.size
      /\ \A i \in 1 .. Len(Readable(b)) : d.mem[kCheapPrepend + i - 1] = Readable(b)[i]
  <2> DEFINE data == Readable(b)
  <2>1. data \in Seq(Byte) /\ kCheapPrepend \in Nat /\ kCheapPrepend + Len(data) <= b.size
    BY <1>1, Zenon
  <2> HIDE DEF data
  <2> QED
    BY <2>1, CopyWrites DEF data
<1> HIDE DEF d
<1>3. IsBuffer(c) /\ c.mem = d.mem /\ c.size = b.size /\ c.reader = kCheapPrepend /\ c.writer = w
  BY <1>1, <1>2, SetIndicesType
<1> HIDE DEF c
<1>4. ReadableBytes(c) = Len(Readable(b))
  BY <1>1, <1>3, ReadableType DEF ReadableBytes
<1>5. Readable(c) = Readable(b)
  BY <1>1, <1>2, <1>3, <1>4, ReadableEqual, Zenon
<1> QED
  BY <1>3, <1>5, Zenon DEF MoveToFront, c, d

\* makeSpace(), and so ensureWritableBytes(), gives the room asked for, keeps
\* the content, never takes from the prepend area, and grows the vector only
\* when content, room and prepend area do not fit in it.
LEMMA EnsureGivesRoom ==
  ASSUME NEW b, IsBuffer(b), NEW len \in Nat
  PROVE  LET c == EnsureWritableBytes(b, len)
         IN  /\ IsBuffer(c) /\ Readable(c) = Readable(b) /\ ReadableBytes(c) = ReadableBytes(b)
             /\ WritableBytes(c) >= len
             /\ c.reader = b.reader \/ c.reader = kCheapPrepend
             /\ c.size = b.size \/ (c.size = b.writer + len /\ c.size > b.size
                                     /\ ReadableBytes(b) + len + kCheapPrepend > b.size)
<1> DEFINE c == EnsureWritableBytes(b, len)
<1>1. kCheapPrepend \in Nat /\ b.size \in Nat /\ b.reader \in Nat /\ b.writer \in Nat
      /\ b.reader <= b.writer /\ b.writer <= b.size
  BY BufferAssumption, Zenon DEF IsBuffer
<1>2. CASE WritableBytes(b) >= len
  <2>1. c = b
    BY <1>1, <1>2 DEF EnsureWritableBytes, WritableBytes
  <2> QED
    BY <1>2, <2>1, Zenon
<1>3. CASE WritableBytes(b) < len /\ WritableBytes(b) + PrependableBytes(b) < len + kCheapPrepend
  <2> DEFINE n == b.writer + len
  <2>1. c = Resize(b, n)
    BY <1>3, Zenon DEF EnsureWritableBytes, MakeSpace
  <2>2. n \in Nat /\ b.size < n /\ b.size <= n
    BY <1>1, <1>3 DEF WritableBytes
  <2> HIDE DEF c, n
  <2>3. /\ IsBuffer(c) /\ Readable(c) = Readable(b)
        /\ c.size = n /\ c.reader = b.reader /\ c.writer = b.writer
    BY <2>1, <2>2, ResizeKeeps, Zenon
  <2>4. WritableBytes(c) >= len /\ ReadableBytes(c) = ReadableBytes(b)
    BY <1>1, <2>3 DEF WritableBytes, ReadableBytes, n
  <2>5. ReadableBytes(b) + len + kCheapPrepend > b.size
    BY <1>1, <1>3 DEF WritableBytes, ReadableBytes, PrependableBytes
  <2> QED
    BY <2>2, <2>3, <2>4, <2>5, Zenon DEF c, n
<1>4. CASE WritableBytes(b) < len /\ ~(WritableBytes(b) + PrependableBytes(b) < len + kCheapPrepend)
  <2>1. c = MoveToFront(b)
    BY <1>4, Zenon DEF EnsureWritableBytes, MakeSpace
  <2>2. kCheapPrepend + ReadableBytes(b) <= b.size
    BY <1>1, <1>4 DEF WritableBytes, ReadableBytes, PrependableBytes
  <2>3. /\ IsBuffer(c) /\ Readable(c) = Readable(b)
        /\ c.size = b.size /\ c.reader = kCheapPrepend
        /\ c.writer = kCheapPrepend + ReadableBytes(b)
    BY <2>1, <2>2, MoveToFrontKeeps, Zenon
  <2> HIDE DEF c
  <2>4. WritableBytes(c) >= len /\ ReadableBytes(c) = ReadableBytes(b)
    BY <1>1, <1>4, <2>3 DEF WritableBytes, ReadableBytes, PrependableBytes
  <2> QED
    BY <2>3, <2>4, Zenon DEF c
<1> QED
  BY <1>1, <1>2, <1>3, <1>4 DEF WritableBytes

\* makeSpace() moves the content only from behind the prepend area: its
\* assert(kCheapPrepend < readerIndex_) never fails.
LEMMA MovesDown ==
  ASSUME NEW b, IsBuffer(b), NEW len \in Nat, WritableBytes(b) < len,
         ~(WritableBytes(b) + PrependableBytes(b) < len + kCheapPrepend)
  PROVE  kCheapPrepend < b.reader
  BY BufferAssumption DEF IsBuffer, WritableBytes, PrependableBytes

\* A copy that just fits behind the content extends it.
LEMMA ExtendContent ==
  ASSUME NEW b, IsBuffer(b), NEW data \in Seq(Byte), Len(data) <= WritableBytes(b)
  PROVE  LET c == SetIndices(Copy(b, data, b.writer), b.reader, b.writer + Len(data))
         IN  /\ IsBuffer(c) /\ Readable(c) = Readable(b) \o data
             /\ c.size = b.size /\ c.reader = b.reader /\ c.writer = b.writer + Len(data)
<1> DEFINE d == Copy(b, data, b.writer)
           w == b.writer + Len(data)
           c == SetIndices(d, b.reader, w)
           s == Readable(b) \o data
<1>1. /\ b.size \in Nat /\ b.reader \in Nat /\ b.writer \in Nat /\ w \in Nat
      /\ b.reader <= b.writer /\ b.writer <= b.size /\ w <= b.size /\ b.reader <= w
  BY DEF IsBuffer, WritableBytes
<1>2. /\ IsBuffer(d) /\ d.size = b.size
      /\ \A i \in 1 .. Len(data) : d.mem[b.writer + i - 1] = data[i]
      /\ \A i \in 0 .. b.size - 1 : i < b.writer \/ i >= b.writer + Len(data) => d.mem[i] = b.mem[i]
  <2> HIDE DEF c, s
  <2>1. b.writer + Len(data) <= b.size
    BY <1>1, Zenon
  <2> HIDE DEF w
  <2> QED
    BY <1>1, <2>1, CopyWrites
<1> HIDE DEF d
<1>3. IsBuffer(c) /\ c.mem = d.mem /\ c.size = b.size /\ c.reader = b.reader /\ c.writer = w
  BY <1>1, <1>2, SetIndicesType
<1> HIDE DEF c
<1>4. /\ Readable(b) \in Seq(Byte) /\ Len(Readable(b)) = b.writer - b.reader
      /\ \A i \in 1 .. b.writer - b.reader : Readable(b)[i] = b.mem[b.reader + i - 1]
  BY ReadableType, Zenon DEF ReadableBytes
<1>5. /\ s \in Seq(Byte) /\ Len(s) = b.writer - b.reader + Len(data)
      /\ \A i \in 1 .. b.writer - b.reader : s[i] = b.mem[b.reader + i - 1]
      /\ \A i \in 1 .. Len(data) : s[b.writer - b.reader + i] = data[i]
  <2> DEFINE t == Readable(b)
             n == b.writer - b.reader
  <2>1. t \in Seq(Byte) /\ Len(t) = n /\ \A i \in 1 .. n : t[i] = b.mem[b.reader + i - 1]
    BY <1>4, Zenon
  <2> HIDE DEF t, n
  <2>2. /\ t \o data \in Seq(Byte) /\ Len(t \o data) = n + Len(data)
        /\ \A i \in 1 .. n : (t \o data)[i] = t[i]
        /\ \A i \in 1 .. Len(data) : (t \o data)[n + i] = data[i]
    BY <2>1, ConcatBytes, Zenon
  <2> QED
    BY <2>1, <2>2, Zenon DEF t, n
<1> HIDE DEF s
<1>6. Len(s) = ReadableBytes(c)
  BY <1>1, <1>3, <1>5 DEF ReadableBytes
<1>7. ASSUME NEW i \in 1 .. Len(s) PROVE c.mem[c.reader + i - 1] = s[i]
  <2>1. CASE i <= b.writer - b.reader
    <3>1. b.reader + i - 1 \in 0 .. b.size - 1 /\ b.reader + i - 1 < b.writer
          /\ i \in 1 .. b.writer - b.reader
      BY <1>1, <1>5, <2>1, SMTT(30)
    <3> QED
      BY <1>2, <1>3, <1>5, <3>1, Zenon
  <2>2. CASE i > b.writer - b.reader
    <3> DEFINE k == i - (b.writer - b.reader)
    <3>1. k \in 1 .. Len(data) /\ b.reader + i - 1 = b.writer + k - 1 /\ i = b.writer - b.reader + k
      BY <1>1, <1>5, <2>2, SMTT(30)
    <3> HIDE DEF k
    <3> QED
      BY <1>2, <1>3, <1>5, <3>1, Zenon
  <2> QED
    BY <1>1, <2>1, <2>2
<1>8. Readable(c) = s
  BY <1>3, <1>5, <1>6, <1>7, ReadableEqual, Zenon
<1> QED
  BY <1>3, <1>8, Zenon DEF c, d, s

\* append() adds its data at the end of the content.
LEMMA AppendExtends ==
  ASSUME NEW b, IsBuffer(b), NEW data \in Seq(Byte)
  PROVE  LET c == AppendTo(b, data)
         IN  /\ IsBuffer(c) /\ Readable(c) = Readable(b) \o data
             /\ c.reader = b.reader \/ c.reader = kCheapPrepend
             /\ c.size = b.size \/ (c.size > b.size
                                     /\ ReadableBytes(b) + Len(data) + kCheapPrepend > b.size)
<1> DEFINE room == EnsureWritableBytes(b, Len(data))
<1>1. /\ IsBuffer(room) /\ Readable(room) = Readable(b) /\ Len(data) <= WritableBytes(room)
      /\ room.reader = b.reader \/ room.reader = kCheapPrepend
      /\ room.size = b.size \/ (room.size > b.size
                                 /\ ReadableBytes(b) + Len(data) + kCheapPrepend > b.size)
  <2>1. Len(data) \in Nat
    OBVIOUS
  <2>2. WritableBytes(room) \in Nat /\ WritableBytes(room) >= Len(data)
    BY <2>1, EnsureGivesRoom, ReadableType, Zenon
  <2> QED
    BY <2>1, <2>2, EnsureGivesRoom, Zenon
<1> HIDE DEF room
<1> DEFINE c == SetIndices(Copy(room, data, room.writer), room.reader, room.writer + Len(data))
<1>2. /\ IsBuffer(c) /\ Readable(c) = Readable(room) \o data
      /\ c.size = room.size /\ c.reader = room.reader
  BY <1>1, ExtendContent, Zenon
<1>3. AppendTo(b, data) = c
  BY Zenon DEF AppendTo, room
<1> HIDE DEF c
<1> QED
  BY <1>1, <1>2, <1>3, Zenon

\* Splitting a byte sequence and joining the parts.
LEMMA SplitBytes ==
  ASSUME NEW s \in Seq(Byte), NEW n \in Nat, n <= Len(s)
  PROVE  /\ SubSeq(s, 1, n) \in Seq(Byte) /\ Len(SubSeq(s, 1, n)) = n
         /\ SubSeq(s, n + 1, Len(s)) \in Seq(Byte) /\ Len(SubSeq(s, n + 1, Len(s))) = Len(s) - n
         /\ \A i \in 1 .. n : SubSeq(s, 1, n)[i] = s[i]
         /\ \A i \in 1 .. Len(s) - n : SubSeq(s, n + 1, Len(s))[i] = s[n + i]
         /\ SubSeq(s, 1, n) \o SubSeq(s, n + 1, Len(s)) = s
<1> DEFINE p == SubSeq(s, 1, n)
           q == SubSeq(s, n + 1, Len(s))
<1>1. p \in Seq(Byte) /\ Len(p) = n /\ \A i \in 1 .. n : p[i] = s[i]
  OBVIOUS
<1>2. q \in Seq(Byte) /\ Len(q) = Len(s) - n /\ \A i \in 1 .. Len(s) - n : q[i] = s[n + i]
  OBVIOUS
<1> HIDE DEF p, q
<1>3. p \o q \in Seq(Byte) /\ Len(p \o q) = Len(s)
  <2>1. p \o q \in Seq(Byte) /\ Len(p \o q) = Len(p) + Len(q)
    BY <1>1, <1>2, ConcatBytes, Zenon
  <2>2. Len(p) + Len(q) = Len(s)
    BY <1>1, <1>2
  <2> QED
    BY <2>1, <2>2, Zenon
<1>4. ASSUME NEW i \in 1 .. Len(s) PROVE (p \o q)[i] = s[i]
  <2>1. CASE i <= n
    BY <1>1, <1>2, <2>1, SMTT(30)
  <2>2. CASE i > n
    <3>1. i - n \in 1 .. Len(s) - n /\ n + (i - n) = i
      BY <2>2
    <3>2. (p \o q)[i] = q[i - n]
      BY <1>1, <1>2, <2>2
    <3> QED
      BY <1>2, <3>1, <3>2, Zenon
  <2>3. i <= n \/ i > n
    OBVIOUS
  <2> QED
    BY <2>1, <2>2, <2>3, Zenon
<1>5. p \o q = s
  BY <1>3, <1>4, SeqEqual, Zenon
<1> QED
  BY <1>1, <1>2, <1>5, Zenon DEF p, q

\* Joining bytes is associative.
LEMMA ConcatAssoc ==
  ASSUME NEW s \in Seq(Byte), NEW t \in Seq(Byte), NEW u \in Seq(Byte)
  PROVE  (s \o t) \o u = s \o (t \o u)
  OBVIOUS

\* readFd() adds what readv() returned, in both of its areas, at the end.
LEMMA ReadExtends ==
  ASSUME NEW b, IsBuffer(b), NEW data \in Seq(Byte)
  PROVE  LET c == ReadInto(b, data)
         IN  /\ IsBuffer(c) /\ Readable(c) = Readable(b) \o data
             /\ c.reader = b.reader \/ c.reader = kCheapPrepend
             /\ c.size = b.size \/ (c.size > b.size
                                     /\ ReadableBytes(b) + Len(data) + kCheapPrepend > b.size)
<1>1. CASE Len(data) <= WritableBytes(b)
  <2> DEFINE c == SetIndices(Copy(b, data, b.writer), b.reader, b.writer + Len(data))
  <2>1. IsBuffer(c) /\ Readable(c) = Readable(b) \o data /\ c.size = b.size /\ c.reader = b.reader
    BY <1>1, ExtendContent, Zenon
  <2>2. ReadInto(b, data) = c
    BY <1>1, Zenon DEF ReadInto
  <2> HIDE DEF c
  <2> QED
    BY <2>1, <2>2, Zenon
<1>2. CASE ~(Len(data) <= WritableBytes(b))
  <2> DEFINE f == First(b, data)
             r == Remainder(b, data)
             d == SetIndices(Copy(b, f, b.writer), b.reader, b.size)
             c == AppendTo(d, r)
  <2>1. WritableBytes(b) \in Nat /\ WritableBytes(b) <= Len(data) /\ b.writer + WritableBytes(b) = b.size
    BY <1>2 DEF IsBuffer, WritableBytes
  <2>2. /\ f \in Seq(Byte) /\ r \in Seq(Byte) /\ f \o r = data
        /\ Len(f) = WritableBytes(b) /\ Len(r) = Len(data) - WritableBytes(b)
    BY <2>1, SplitBytes, Zenon DEF First, Remainder
  <2> HIDE DEF f, r
  <2>3. d = SetIndices(Copy(b, f, b.writer), b.reader, b.writer + Len(f))
    BY <2>1, <2>2, Zenon
  <2> HIDE DEF d
  <2>4. /\ IsBuffer(d) /\ Readable(d) = Readable(b) \o f
        /\ d.size = b.size /\ d.reader = b.reader /\ d.writer = b.writer + Len(f)
    <3>1. Len(f) <= WritableBytes(b)
      BY <2>1, <2>2
    <3> QED
      BY <2>2, <2>3, <3>1, ExtendContent, Zenon
  <2>5. /\ IsBuffer(c) /\ Readable(c) = Readable(d) \o r
        /\ c.reader = d.reader \/ c.reader = kCheapPrepend
        /\ c.size = d.size \/ (c.size > d.size
                                /\ ReadableBytes(d) + Len(r) + kCheapPrepend > d.size)
    BY <2>2, <2>4, AppendExtends, Zenon
  <2>6. ReadInto(b, data) = c
    BY <1>2, Zenon DEF ReadInto, f, r, d
  <2> HIDE DEF c
  <2>7. Readable(c) = Readable(b) \o data
    <3> DEFINE t == Readable(b)
    <3>1. t \in Seq(Byte)
      BY ReadableType, Zenon
    <3> HIDE DEF t
    <3>2. (t \o f) \o r = t \o (f \o r)
      BY <2>2, <3>1, ConcatAssoc, Zenon
    <3> QED
      BY <2>2, <2>4, <2>5, <3>2, Zenon DEF t
  <2>8. ReadableBytes(d) + Len(r) = ReadableBytes(b) + Len(data)
    BY <2>1, <2>2, <2>4, SMTT(30) DEF IsBuffer, ReadableBytes
  <2> QED
    BY <2>4, <2>5, <2>6, <2>7, <2>8, Zenon
<1> QED
  BY <1>1, <1>2, Zenon

\* retrieve() drops bytes from the start of the content.
LEMMA RetrieveDrops ==
  ASSUME NEW b, IsBuffer(b), kCheapPrepend <= b.size, NEW len \in Nat, len <= ReadableBytes(b)
  PROVE  LET c == RetrieveFrom(b, len)
         IN  /\ IsBuffer(c) /\ c.size = b.size
             /\ Readable(c) = SubSeq(Readable(b), len + 1, Len(Readable(b)))
             /\ len < ReadableBytes(b) => c.reader = b.reader + len
             /\ len = ReadableBytes(b) => c.reader = kCheapPrepend
<1> DEFINE t == Readable(b)
           u == SubSeq(t, len + 1, Len(t))
           c == RetrieveFrom(b, len)
<1>1. /\ t \in Seq(Byte) /\ Len(t) = ReadableBytes(b) /\ ReadableBytes(b) = b.writer - b.reader
      /\ \A i \in 1 .. Len(t) : t[i] = b.mem[b.reader + i - 1]
  BY ReadableType, Zenon DEF ReadableBytes
<1>2. /\ b.size \in Nat /\ b.reader \in Nat /\ b.writer \in Nat /\ kCheapPrepend \in Nat
      /\ b.reader <= b.writer /\ b.writer <= b.size
  BY BufferAssumption, Zenon DEF IsBuffer
<1> HIDE DEF t
<1>3. u \in Seq(Byte) /\ Len(u) = Len(t) - len /\ \A i \in 1 .. Len(t) - len : u[i] = t[len + i]
  BY <1>1, SplitBytes, Zenon
<1> HIDE DEF u
<1>4. CASE len < ReadableBytes(b)
  <2> DEFINE r == b.reader + len
  <2>1. c = SetIndices(b, r, b.writer)
    BY <1>4, Zenon DEF RetrieveFrom
  <2>2. r \in Nat /\ r <= b.writer
    BY <1>1, <1>2, <1>4
  <2> HIDE DEF c, r
  <2>3. IsBuffer(c) /\ c.mem = b.mem /\ c.size = b.size /\ c.reader = r /\ c.writer = b.writer
    BY <1>2, <2>1, <2>2, SetIndicesType
  <2>4. Len(u) = ReadableBytes(c)
    BY <1>1, <1>2, <1>3, <2>3 DEF ReadableBytes, r
  <2>5. ASSUME NEW i \in 1 .. Len(u) PROVE c.mem[c.reader + i - 1] = u[i]
    <3>1. len + i \in 1 .. Len(t) /\ i \in 1 .. Len(t) - len /\ b.reader + (len + i) - 1 = r + i - 1
      <4>1. Len(t) \in Nat /\ Len(u) = Len(t) - len
        BY <1>1, <1>3
      <4>2. len + i \in 1 .. Len(t) /\ i \in 1 .. Len(t) - len
        BY <4>1
      <4> QED
        BY <1>2, <4>2, SMTT(30) DEF r
    <3>2. u[i] = t[len + i] /\ t[len + i] = b.mem[b.reader + (len + i) - 1]
      BY <1>1, <1>3, <3>1, Zenon
    <3> QED
      BY <2>3, <3>1, <3>2, Zenon
  <2>6. Readable(c) = u
    BY <1>3, <2>3, <2>4, <2>5, ReadableEqual, Zenon
  <2> QED
    BY <1>4, <2>3, <2>6 DEF c, r, t, u
<1>5. CASE len = ReadableBytes(b)
  <2>1. c = SetIndices(b, kCheapPrepend, kCheapPrepend)
    BY <1>5, <1>1, <1>2 DEF RetrieveFrom, RetrieveAll
  <2> HIDE DEF c
  <2>2. /\ IsBuffer(c) /\ c.size = b.size
        /\ c.reader = kCheapPrepend /\ c.writer = kCheapPrepend
    BY <1>2, <2>1, SetIndicesType
  <2>3. Len(u) = 0 /\ ReadableBytes(c) = 0
    BY <1>1, <1>2, <1>3, <1>5, <2>2 DEF ReadableBytes
  <2>4. Readable(c) = u
    <3>1. \A i \in 1 .. Len(u) : c.mem[c.reader + i - 1] = u[i]
      BY <2>3
    <3> QED
      BY <1>3, <2>2, <2>3, <3>1, ReadableEqual, Zenon
  <2> QED
    BY <1>1, <1>5, <2>2, <2>4 DEF c, t, u
<1> QED
  BY <1>1, <1>2, <1>4, <1>5

\* unwrite() drops bytes from the end of the content.
LEMMA UnwriteDrops ==
  ASSUME NEW b, IsBuffer(b), NEW len \in Nat, len <= ReadableBytes(b)
  PROVE  LET c == SetIndices(b, b.reader, b.writer - len)
         IN  /\ IsBuffer(c) /\ c.size = b.size /\ c.reader = b.reader
             /\ Readable(c) = SubSeq(Readable(b), 1, Len(Readable(b)) - len)
<1> DEFINE t == Readable(b)
           n == Len(t) - len
           u == SubSeq(t, 1, n)
           w == b.writer - len
           c == SetIndices(b, b.reader, w)
<1>1. /\ t \in Seq(Byte) /\ Len(t) = ReadableBytes(b) /\ ReadableBytes(b) = b.writer - b.reader
      /\ \A i \in 1 .. Len(t) : t[i] = b.mem[b.reader + i - 1]
  BY ReadableType, Zenon DEF ReadableBytes
<1>2. /\ b.size \in Nat /\ b.reader \in Nat /\ b.writer \in Nat
      /\ b.reader <= b.writer /\ b.writer <= b.size
  BY Zenon DEF IsBuffer
<1> HIDE DEF t
<1>3. n \in Nat /\ n <= Len(t) /\ w \in Nat /\ b.reader <= w /\ w <= b.size /\ w - b.reader = n
  <2>1. Len(t) = b.writer - b.reader /\ len <= Len(t)
    BY <1>1, Zenon
  <2> QED
    BY <1>2, <2>1
<1> HIDE DEF n, w
<1>4. u \in Seq(Byte) /\ Len(u) = n /\ \A i \in 1 .. n : u[i] = t[i]
  BY <1>1, <1>3, SplitBytes, Zenon
<1>5. IsBuffer(c) /\ c.mem = b.mem /\ c.size = b.size /\ c.reader = b.reader /\ c.writer = w
  BY <1>2, <1>3, SetIndicesType
<1> HIDE DEF u, c
<1>6. Len(u) = ReadableBytes(c)
  BY <1>3, <1>4, <1>5, Zenon DEF ReadableBytes
<1>7. \A i \in 1 .. Len(u) : c.mem[c.reader + i - 1] = u[i]
  BY <1>1, <1>3, <1>4, <1>5
<1>8. Readable(c) = u
  BY <1>4, <1>5, <1>6, <1>7, ReadableEqual, Zenon
<1> QED
  BY <1>5, <1>8, Zenon DEF c, n, t, u, w

\* prepend() adds its data at the start of the content.
LEMMA PrependAdds ==
  ASSUME NEW b, IsBuffer(b), NEW data \in Seq(Byte), Len(data) <= PrependableBytes(b)
  PROVE  LET c == PrependTo(b, data)
         IN  /\ IsBuffer(c) /\ Readable(c) = data \o Readable(b)
             /\ c.size = b.size /\ c.reader = b.reader - Len(data)
<1> DEFINE r == b.reader - Len(data)
           d == Copy(b, data, r)
           c == SetIndices(d, r, b.writer)
           t == Readable(b)
           s == data \o t
<1>1. /\ b.size \in Nat /\ b.reader \in Nat /\ b.writer \in Nat /\ r \in Nat
      /\ b.reader <= b.writer /\ b.writer <= b.size
      /\ r + Len(data) = b.reader /\ r + Len(data) <= b.size /\ r <= b.writer
  BY DEF IsBuffer, PrependableBytes
<1> HIDE DEF r
<1>2. /\ IsBuffer(d) /\ d.size = b.size
      /\ \A i \in 1 .. Len(data) : d.mem[r + i - 1] = data[i]
      /\ \A i \in 0 .. b.size - 1 : i < r \/ i >= r + Len(data) => d.mem[i] = b.mem[i]
  BY <1>1, CopyWrites, Zenon
<1> HIDE DEF d
<1>3. IsBuffer(c) /\ c.mem = d.mem /\ c.size = b.size /\ c.reader = r /\ c.writer = b.writer
  BY <1>1, <1>2, SetIndicesType
<1> HIDE DEF c
<1>4. /\ t \in Seq(Byte) /\ Len(t) = b.writer - b.reader
      /\ \A i \in 1 .. Len(t) : t[i] = b.mem[b.reader + i - 1]
  BY ReadableType, Zenon DEF ReadableBytes
<1> HIDE DEF t
<1>5. /\ s \in Seq(Byte) /\ Len(s) = Len(data) + Len(t)
      /\ \A i \in 1 .. Len(data) : s[i] = data[i]
      /\ \A i \in 1 .. Len(t) : s[Len(data) + i] = t[i]
  BY <1>4, ConcatBytes, Zenon
<1> HIDE DEF s
<1>6. Len(s) = ReadableBytes(c)
  BY <1>1, <1>3, <1>4, <1>5 DEF ReadableBytes
<1>7. ASSUME NEW i \in 1 .. Len(s) PROVE c.mem[c.reader + i - 1] = s[i]
  <2>1. CASE i <= Len(data)
    <3>1. i \in 1 .. Len(data)
      BY <2>1
    <3> QED
      BY <1>2, <1>3, <1>5, <3>1, Zenon
  <2>2. CASE i > Len(data)
    <3> DEFINE k == i - Len(data)
    <3>1. Len(t) \in Nat /\ Len(s) = Len(data) + Len(t)
      BY <1>4, <1>5
    <3>2. /\ k \in 1 .. Len(t) /\ i = Len(data) + k /\ r + i - 1 = b.reader + k - 1
          /\ r + i - 1 >= r + Len(data)
      BY <1>1, <2>2, <3>1
    <3>3. r + i - 1 \in 0 .. b.size - 1
      <4>1. k \in Int /\ k >= 1 /\ k <= b.writer - b.reader
        BY <1>4, <3>1, <3>2
      <4>2. b.size \in Nat /\ b.reader \in Nat /\ b.writer \in Nat /\ b.writer <= b.size
        BY <1>1, Zenon
      <4> HIDE DEF k
      <4>3. b.reader + k - 1 \in 0 .. b.size - 1
        BY ONLY <4>1, <4>2, SMTT(30)
      <4> QED
        BY ONLY <3>2, <4>3, Zenon
    <3> HIDE DEF k
    <3>4. s[i] = t[k] /\ t[k] = b.mem[b.reader + k - 1]
      BY <1>4, <1>5, <3>2, Zenon
    <3>5. d.mem[r + i - 1] = b.mem[r + i - 1]
      BY <1>2, <3>2, <3>3, Zenon
    <3> QED
      BY <1>3, <3>2, <3>4, <3>5, Zenon
  <2>3. i <= Len(data) \/ i > Len(data)
    OBVIOUS
  <2> QED
    BY <2>1, <2>2, <2>3, Zenon
<1>8. Readable(c) = s
  BY <1>3, <1>5, <1>6, <1>7, ReadableEqual, Zenon
<1>9. PrependTo(b, data) = c
  BY Zenon DEF PrependTo, c, d, r
<1> QED
  BY <1>3, <1>8, <1>9, Zenon DEF r, s, t

\* shrink() rebuilds the buffer around the same content.
LEMMA ShrinkKeeps ==
  ASSUME NEW b, IsBuffer(b), NEW reserve \in Nat
  PROVE  LET c == ShrinkTo(b, reserve)
         IN  /\ IsBuffer(c) /\ Readable(c) = Readable(b) /\ c.reader = kCheapPrepend
             /\ \/ c.size = kCheapPrepend + kInitialSize
                \/ /\ c.size = kCheapPrepend + ReadableBytes(b) + reserve
                   /\ c.size > kCheapPrepend + kInitialSize
<1> DEFINE n == ReadableBytes(b) + reserve
           e == EnsureWritableBytes(New, n)
           t == Readable(b)
           c == SetIndices(Copy(e, t, e.writer), e.reader, e.writer + Len(t))
<1>1. /\ t \in Seq(Byte) /\ Len(t) = ReadableBytes(b) /\ ReadableBytes(b) \in Nat
      /\ n \in Nat /\ Len(t) <= n
  BY ReadableType
<1>2. /\ IsBuffer(New) /\ Readable(New) = <<>> /\ New.size = kCheapPrepend + kInitialSize
      /\ New.reader = kCheapPrepend /\ New.writer = kCheapPrepend
  BY NewBuffer, Zenon
<1> HIDE DEF t, n
<1>3. /\ IsBuffer(e) /\ Readable(e) = <<>> /\ WritableBytes(e) >= n
      /\ e.reader = kCheapPrepend
      /\ \/ e.size = New.size
         \/ e.size = kCheapPrepend + n /\ e.size > New.size
  BY <1>1, <1>2, EnsureGivesRoom, Zenon
<1> HIDE DEF e
<1>4. WritableBytes(e) \in Nat /\ Len(t) <= WritableBytes(e) /\ Len(t) \in Nat
  <2>1. WritableBytes(e) \in Nat
    BY <1>3, ReadableType, Zenon
  <2> QED
    BY <1>1, <1>3, <2>1
<1>5. AppendTo(e, t) = c
  <2>1. EnsureWritableBytes(e, Len(t)) = e
    BY <1>4 DEF EnsureWritableBytes
  <2> QED
    BY <2>1, Zenon DEF AppendTo
<1>6. IsBuffer(c) /\ Readable(c) = Readable(e) \o t /\ c.size = e.size /\ c.reader = e.reader
  BY <1>1, <1>3, <1>4, ExtendContent, Zenon
<1> HIDE DEF c
<1>7. Readable(c) = t
  BY <1>1, <1>3, <1>6
<1>8. ShrinkTo(b, reserve) = c
  BY <1>5, Zenon DEF ShrinkTo, e, n, t
<1>9. kCheapPrepend + n = kCheapPrepend + ReadableBytes(b) + reserve
  BY <1>1, BufferAssumption DEF n
<1> QED
  BY <1>2, <1>3, <1>6, <1>7, <1>8, <1>9, Zenon DEF t

-----------------------------------------------------------------------------
(* The theorems.                                                           *)

\* The inductive invariant: retrieveAll() puts the indices at kCheapPrepend,
\* which needs the vector never to be smaller than the constructor made it.
BufferInv ==
  TypeOK /\ CheapPrepend /\ buf.size >= kCheapPrepend + kInitialSize

\* What one operation does: it keeps the invariant, its effect on the content
\* is the byte queue's, and it grows the vector only when it must.
StepIsGood ==
  /\ BufferInv'
  /\ Readable(buf)' = Queue!Effect(lastCall')
  /\ buf'.size > buf.size => ReadableBytes(buf) + Asked(lastCall') + kCheapPrepend > buf.size

\* The calls that occur are calls of the byte queue.
LEMMA CallTypes ==
  /\ \A data \in Seq(Byte) : /\ [op |-> "append", data |-> data] \in Queue!Call
                             /\ [op |-> "prepend", data |-> data] \in Queue!Call
  /\ \A len \in Nat : /\ [op |-> "retrieve", len |-> len] \in Queue!Call
                      /\ [op |-> "unwrite", len |-> len] \in Queue!Call
                      /\ [op |-> "reserve", len |-> len] \in Queue!Call
  BY Zenon DEF Queue!Call

\* The constructor establishes the invariant and an empty queue.
LEMMA InitGood ==
  ASSUME BufferInit
  PROVE  BufferInv /\ Queue!Init
<1>1. /\ IsBuffer(buf) /\ Readable(buf) = <<>>
      /\ buf.size = kCheapPrepend + kInitialSize /\ buf.reader = kCheapPrepend
  BY NewBuffer, Zenon DEF BufferInit
<1>2. TypeOK
  BY <1>1, CallTypes, Zenon DEF BufferInit, TypeOK
<1>3. CheapPrepend
  BY <1>1, BufferAssumption DEF BufferInit, CheapPrepend, PrependableBytes
<1>4. buf.size >= kCheapPrepend + kInitialSize
  BY <1>1, BufferAssumption
<1> QED
  BY <1>1, <1>2, <1>3, <1>4, Zenon DEF BufferInit, Queue!Init, BufferInv

\* append() and readFd() have the same effect on the queue.
LEMMA AppendStep ==
  ASSUME BufferInv, NEW data \in Pieces, Append_(data) \/ ReadFd(data)
  PROVE  StepIsGood
<1>1. /\ IsBuffer(buf) /\ prepended \in Nat /\ data \in Seq(Byte) /\ Len(data) \in Nat
      /\ buf.reader \in Nat /\ buf.size \in Nat /\ kCheapPrepend \in Nat /\ kInitialSize \in Nat
      /\ buf.reader + prepended >= kCheapPrepend /\ buf.size >= kCheapPrepend + kInitialSize
  BY BufferAssumption DEF BufferInv, TypeOK, CheapPrepend, IsBuffer, PrependableBytes
<1>2. /\ IsBuffer(buf') /\ Readable(buf') = Readable(buf) \o data
      /\ buf'.reader = buf.reader \/ buf'.reader = kCheapPrepend
      /\ buf'.size = buf.size \/ (buf'.size > buf.size
                                   /\ ReadableBytes(buf) + Len(data) + kCheapPrepend > buf.size)
  <2>1. CASE Append_(data)
    BY <1>1, <2>1, AppendExtends, Zenon DEF Append_
  <2>2. CASE ReadFd(data)
    BY <1>1, <2>2, ReadExtends, Zenon DEF ReadFd
  <2> QED
    BY <2>1, <2>2, Zenon
<1>3. lastCall' = [op |-> "append", data |-> data] /\ prepended' = prepended
  BY Zenon DEF Append_, ReadFd
<1>4. TypeOK'
  BY <1>1, <1>2, <1>3, CallTypes, Zenon DEF TypeOK, Queue!Call, IsBuffer
<1>5. CheapPrepend'
  BY <1>1, <1>2, <1>3 DEF CheapPrepend, PrependableBytes
<1>6. buf'.size >= kCheapPrepend + kInitialSize
  BY <1>1, <1>2 DEF IsBuffer
<1>7. Readable(buf)' = Queue!Effect(lastCall')
  BY <1>2, <1>3, Zenon DEF Queue!Effect, Readable, ReadableBytes
<1>8. Asked(lastCall') = Len(data)
  BY <1>3, Zenon DEF Asked
<1> QED
  BY <1>1, <1>2, <1>4, <1>5, <1>6, <1>7, <1>8, SMTT(30) DEF StepIsGood, BufferInv

\* retrieve() and its variants.
LEMMA RetrieveStep ==
  ASSUME BufferInv, NEW len \in Nat, Retrieve(len)
  PROVE  StepIsGood
<1>1. /\ IsBuffer(buf) /\ prepended \in Nat
      /\ buf.reader \in Nat /\ buf.size \in Nat /\ kCheapPrepend \in Nat /\ kInitialSize \in Nat
      /\ buf.reader + prepended >= kCheapPrepend /\ buf.size >= kCheapPrepend + kInitialSize
  BY BufferAssumption, Zenon DEF BufferInv, TypeOK, CheapPrepend, IsBuffer, PrependableBytes
<1>2. /\ IsBuffer(buf') /\ buf'.size = buf.size
      /\ Readable(buf') = SubSeq(Readable(buf), len + 1, Len(Readable(buf)))
      /\ len < ReadableBytes(buf) => buf'.reader = buf.reader + len
      /\ len = ReadableBytes(buf) => buf'.reader = kCheapPrepend
  <2>1. kCheapPrepend <= buf.size /\ len <= ReadableBytes(buf) /\ buf' = RetrieveFrom(buf, len)
    BY <1>1 DEF Retrieve
  <2> QED
    BY <1>1, <2>1, RetrieveDrops, Zenon
<1>3. /\ lastCall' = [op |-> "retrieve", len |-> len]
      /\ prepended' = IF len = ReadableBytes(buf) THEN 0 ELSE prepended
      /\ ReadableBytes(buf) \in Nat /\ len <= ReadableBytes(buf)
  BY <1>1, ReadableType, Zenon DEF Retrieve
<1>4. TypeOK'
  BY <1>1, <1>2, <1>3, CallTypes, Zenon DEF TypeOK, Queue!Call, IsBuffer
<1>5. CheapPrepend'
  BY <1>1, <1>2, <1>3 DEF CheapPrepend, PrependableBytes
<1>6. Readable(buf)' = Queue!Effect(lastCall')
  BY <1>2, <1>3, Zenon DEF Queue!Effect, Readable, ReadableBytes
<1> QED
  BY <1>1, <1>2, <1>4, <1>5, <1>6 DEF StepIsGood, BufferInv

\* unwrite().
LEMMA UnwriteStep ==
  ASSUME BufferInv, NEW len \in Nat, Unwrite(len)
  PROVE  StepIsGood
<1>1. /\ IsBuffer(buf) /\ prepended \in Nat
      /\ buf.reader \in Nat /\ buf.size \in Nat /\ kCheapPrepend \in Nat /\ kInitialSize \in Nat
      /\ buf.reader + prepended >= kCheapPrepend /\ buf.size >= kCheapPrepend + kInitialSize
  BY BufferAssumption, Zenon DEF BufferInv, TypeOK, CheapPrepend, IsBuffer, PrependableBytes
<1>2. /\ IsBuffer(buf') /\ buf'.size = buf.size /\ buf'.reader = buf.reader
      /\ Readable(buf') = SubSeq(Readable(buf), 1, Len(Readable(buf)) - len)
  BY <1>1, UnwriteDrops, Zenon DEF Unwrite
<1>3. lastCall' = [op |-> "unwrite", len |-> len] /\ prepended' = prepended
  BY Zenon DEF Unwrite
<1>4. TypeOK'
  BY <1>1, <1>2, <1>3, CallTypes, Zenon DEF TypeOK, Queue!Call, IsBuffer
<1>5. CheapPrepend'
  BY <1>1, <1>2, <1>3, Zenon DEF CheapPrepend, PrependableBytes
<1>6. Readable(buf)' = Queue!Effect(lastCall')
  BY <1>2, <1>3, Zenon DEF Queue!Effect, Readable, ReadableBytes
<1> QED
  BY <1>1, <1>2, <1>4, <1>5, <1>6 DEF StepIsGood, BufferInv

\* prepend(): what the header takes is counted.
LEMMA PrependStep ==
  ASSUME BufferInv, NEW data \in Pieces, Prepend(data)
  PROVE  StepIsGood
<1>1. /\ IsBuffer(buf) /\ prepended \in Nat
      /\ buf.reader \in Nat /\ buf.size \in Nat /\ kCheapPrepend \in Nat /\ kInitialSize \in Nat
      /\ buf.reader + prepended >= kCheapPrepend /\ buf.size >= kCheapPrepend + kInitialSize
  BY BufferAssumption, Zenon DEF BufferInv, TypeOK, CheapPrepend, IsBuffer, PrependableBytes
<1>2. data \in Seq(Byte) /\ Len(data) \in Nat
  BY BufferAssumption
<1>3. /\ IsBuffer(buf') /\ Readable(buf') = data \o Readable(buf)
      /\ buf'.size = buf.size /\ buf'.reader = buf.reader - Len(data)
  BY <1>1, <1>2, PrependAdds, Zenon DEF Prepend
<1>4. lastCall' = [op |-> "prepend", data |-> data] /\ prepended' = prepended + Len(data)
  BY Zenon DEF Prepend
<1>5. TypeOK'
  BY <1>1, <1>2, <1>3, <1>4, CallTypes DEF TypeOK, Queue!Call, IsBuffer
<1>6. CheapPrepend'
  BY <1>1, <1>2, <1>3, <1>4 DEF CheapPrepend, PrependableBytes
<1>7. Readable(buf)' = Queue!Effect(lastCall')
  BY <1>3, <1>4, Zenon DEF Queue!Effect, Readable, ReadableBytes
<1> QED
  BY <1>1, <1>3, <1>5, <1>6, <1>7 DEF StepIsGood, BufferInv

\* ensureWritableBytes() and shrink() leave the queue as it was.
LEMMA ReserveStep ==
  ASSUME BufferInv, NEW len \in Nat, Ensure(len) \/ Shrink(len)
  PROVE  StepIsGood
<1>1. /\ IsBuffer(buf) /\ prepended \in Nat
      /\ buf.reader \in Nat /\ buf.size \in Nat /\ kCheapPrepend \in Nat /\ kInitialSize \in Nat
      /\ buf.reader + prepended >= kCheapPrepend /\ buf.size >= kCheapPrepend + kInitialSize
  BY BufferAssumption, Zenon DEF BufferInv, TypeOK, CheapPrepend, IsBuffer, PrependableBytes
<1>2. ReadableBytes(buf) \in Nat
  BY <1>1, ReadableType, Zenon
<1>3. /\ IsBuffer(buf') /\ Readable(buf') = Readable(buf)
      /\ buf'.reader + prepended' >= kCheapPrepend /\ prepended' \in Nat
      /\ buf'.size >= kCheapPrepend + kInitialSize
      /\ buf'.size > buf.size => ReadableBytes(buf) + len + kCheapPrepend > buf.size
  <2>1. CASE Ensure(len)
    <3>1. /\ IsBuffer(buf') /\ Readable(buf') = Readable(buf)
          /\ buf'.reader = buf.reader \/ buf'.reader = kCheapPrepend
          /\ buf'.size = buf.size \/ (buf'.size = buf.writer + len /\ buf'.size > buf.size
                                       /\ ReadableBytes(buf) + len + kCheapPrepend > buf.size)
      BY <1>1, <2>1, EnsureGivesRoom, Zenon DEF Ensure
    <3>2. prepended' = prepended /\ buf'.size \in Nat
      BY <2>1, <3>1, Zenon DEF Ensure, IsBuffer
    <3> QED
      BY <1>1, <3>1, <3>2
  <2>2. CASE Shrink(len)
    <3>1. /\ IsBuffer(buf') /\ Readable(buf') = Readable(buf) /\ buf'.reader = kCheapPrepend
          /\ \/ buf'.size = kCheapPrepend + kInitialSize
             \/ /\ buf'.size = kCheapPrepend + ReadableBytes(buf) + len
                /\ buf'.size > kCheapPrepend + kInitialSize
      BY <1>1, <2>2, ShrinkKeeps, Zenon DEF Shrink
    <3>2. prepended' = 0
      BY <2>2, Zenon DEF Shrink
    <3> QED
      BY <1>1, <1>2, <3>1, <3>2
  <2> QED
    BY <2>1, <2>2, Zenon
<1>4. lastCall' = [op |-> "reserve", len |-> len]
  BY Zenon DEF Ensure, Shrink
<1>5. TypeOK'
  BY <1>3, <1>4, CallTypes, Zenon DEF TypeOK, Queue!Call, IsBuffer
<1>6. CheapPrepend'
  BY <1>3, Zenon DEF CheapPrepend, PrependableBytes
<1>7. Readable(buf)' = Queue!Effect(lastCall')
  BY <1>3, <1>4, Zenon DEF Queue!Effect, Readable, ReadableBytes
<1>8. Asked(lastCall') = len
  BY <1>4, Zenon DEF Asked
<1> QED
  BY <1>3, <1>5, <1>6, <1>7, <1>8, Zenon DEF StepIsGood, BufferInv

\* Every operation.
LEMMA NextIsGood ==
  ASSUME BufferInv, BufferNext
  PROVE  StepIsGood
<1>1. CASE \E data \in Pieces : Append_(data) \/ ReadFd(data) \/ Prepend(data)
  BY <1>1, AppendStep, PrependStep, Zenon
<1>2. CASE \E len \in 0 .. MaxReadable : Retrieve(len) \/ Unwrite(len)
  BY <1>2, RetrieveStep, UnwriteStep, BufferAssumption
<1>3. CASE \E len \in 0 .. MaxReserve : Ensure(len) \/ Shrink(len)
  BY <1>3, ReserveStep, BufferAssumption
<1> QED
  BY <1>1, <1>2, <1>3, Zenon DEF BufferNext

\* A step that changes nothing keeps the invariant.
LEMMA StutterKeeps ==
  ASSUME BufferInv, UNCHANGED bvars
  PROVE  BufferInv'
  BY Zenon DEF bvars, BufferInv, TypeOK, CheapPrepend, IsBuffer, PrependableBytes, Queue!Call

\* The invariant holds always.
LEMMA BufferInvariant == BufferSpec => []BufferInv
<1>1. BufferInit => BufferInv
  BY InitGood, Zenon
<1>2. BufferInv /\ [BufferNext]_bvars => BufferInv'
  BY NextIsGood, StutterKeeps, Zenon DEF StepIsGood
<1> QED
  BY <1>1, <1>2, PTL DEF BufferSpec

\* The indices of Buffer keep their order inside the vector, whatever is
\* called: no operation reads or writes outside of it.
THEOREM BufferTypeCorrect == BufferSpec => []TypeOK
<1>1. BufferInv => TypeOK
  BY Zenon DEF BufferInv
<1> QED
  BY <1>1, BufferInvariant, PTL

\* There is always room for the header that a codec prepends.
THEOREM HeaderFits == BufferSpec => []CheapPrepend
<1>1. BufferInv => CheapPrepend
  BY Zenon DEF BufferInv
<1> QED
  BY <1>1, BufferInvariant, PTL

\* makeSpace() and shrink() never grow the vector without need.
THEOREM NoNeedlessGrowth == BufferSpec => GrowsOnlyIfNeeded
<1> DEFINE Frugal == buf'.size > buf.size =>
                       ReadableBytes(buf) + Asked(lastCall') + kCheapPrepend > buf.size
<1>1. BufferInv /\ [BufferNext]_bvars => [Frugal]_bvars
  BY NextIsGood, Zenon DEF StepIsGood
<1>2. BufferSpec => [][Frugal]_bvars
  <2> HIDE DEF Frugal
  <2> QED
    BY <1>1, BufferInvariant, PTL DEF BufferSpec
<1> QED
  BY <1>2, Zenon DEF GrowsOnlyIfNeeded

\* Buffer implements the byte queue: no byte is lost, changed or reordered by
\* moving, growing, shrinking or reading into two areas.
THEOREM BufferImplementsByteQueue == BufferSpec => ImplementsByteQueue
<1>1. BufferInit => Queue!Init
  BY InitGood, Zenon
<1>2. BufferInv /\ [BufferNext]_bvars => [Queue!Next]_(Queue!vars)
  <2>1. ASSUME BufferInv, BufferNext PROVE Queue!Next
    BY <2>1, NextIsGood, Zenon DEF StepIsGood, Queue!Next
  <2>2. ASSUME UNCHANGED bvars PROVE UNCHANGED Queue!vars
    BY <2>2, Zenon DEF bvars, Queue!vars, Readable, ReadableBytes
  <2> QED
    BY <2>1, <2>2, Zenon
<1> QED
  BY <1>1, <1>2, BufferInvariant, PTL DEF BufferSpec, ImplementsByteQueue, Queue!Spec
==============================================================================
