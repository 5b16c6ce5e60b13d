------------------------------- MODULE Buffer -------------------------------
(***************************************************************************)
(* muduo::net::Buffer (muduo/net/Buffer.h, Buffer.cc): a vector with a     *)
(* reader and a writer index, used by one thread.  The operators work on a *)
(* buffer b with b.mem a function from 0 .. size - 1; the actions apply    *)
(* them to the variable buf.                                               *)
(***************************************************************************)
EXTENDS Integers, Sequences

CONSTANTS
  Byte,
  Zero,             \* the byte vector::resize() fills with
  kCheapPrepend,
  kInitialSize,
  ExtraBuf,         \* sizeof extrabuf in readFd()
  Pieces,           \* byte sequences given to the buffer
  MaxReserve,       \* bound on the argument of ensureWritableBytes() and shrink()
  MaxReadable,      \* bound on readableBytes()
  MaxPrepended      \* bound on the bytes given to prepend()

ASSUME BufferAssumption ==
  /\ Zero \in Byte
  /\ kCheapPrepend \in Nat /\ kInitialSize \in Nat /\ ExtraBuf \in Nat
  /\ Pieces \subseteq Seq(Byte) /\ MaxReserve \in Nat
  /\ MaxReadable \in Nat /\ MaxPrepended \in Nat

VARIABLES
  buf,         \* [mem, size, reader, writer]
  lastCall,    \* history: the last call, as in ByteQueue
  prepended    \* history: bytes given to prepend() since the content was last
               \* retrieved to its end

bvars == <<buf, lastCall, prepended>>

\* Buffer::Buffer()
New ==
  [mem |-> [i \in 0 .. kCheapPrepend + kInitialSize - 1 |-> Zero],
   size |-> kCheapPrepend + kInitialSize,
   reader |-> kCheapPrepend, writer |-> kCheapPrepend]

ReadableBytes(b) == b.writer - b.reader
WritableBytes(b) == b.size - b.writer
PrependableBytes(b) == b.reader

\* The assignments to readerIndex_ and writerIndex_.
SetIndices(b, r, w) == [b EXCEPT !.reader = r, !.writer = w]

\* toStringPiece(): the bytes from peek() to beginWrite().
Readable(b) == [i \in 1 .. ReadableBytes(b) |-> b.mem[b.reader + i - 1]]

\* std::copy of data to begin() + at.
Copy(b, data, at) ==
  [b EXCEPT !.mem = [i \in 0 .. b.size - 1 |->
     IF i \in at .. at + Len(data) - 1 THEN data[i - at + 1] ELSE b.mem[i]]]

\* buffer_.resize(n), to no less than before.
Resize(b, n) ==
  [b EXCEPT !.mem = [i \in 0 .. n - 1 |-> IF i < b.size THEN b.mem[i] ELSE Zero],
            !.size = n]

\* makeSpace(): the readable bytes move to the front.
MoveToFront(b) ==
  SetIndices(Copy(b, Readable(b), kCheapPrepend),
             kCheapPrepend, kCheapPrepend + ReadableBytes(b))

MakeSpace(b, len) ==
  IF WritableBytes(b) + PrependableBytes(b) < len + kCheapPrepend
  THEN Resize(b, b.writer + len)
  ELSE MoveToFront(b)

EnsureWritableBytes(b, len) == IF WritableBytes(b) < len THEN MakeSpace(b, len) ELSE b

\* append(): ensureWritableBytes(), the copy, hasWritten().
AppendTo(b, data) ==
  LET room == EnsureWritableBytes(b, Len(data))
  IN  SetIndices(Copy(room, data, room.writer), room.reader, room.writer + Len(data))

RetrieveAll_KeepsPlace(b) == SetIndices(b, b.writer, b.writer)

RetrieveAll(b) == SetIndices(b, kCheapPrepend, kCheapPrepend)

RetrieveFrom(b, len) ==
  IF len < ReadableBytes(b) THEN SetIndices(b, b.reader + len, b.writer) ELSE RetrieveAll(b)

\* prepend()
PrependTo(b, data) ==
  SetIndices(Copy(b, data, b.reader - Len(data)), b.reader - Len(data), b.writer)

\* shrink(): the readable bytes go to a new buffer, which is swapped in.
ShrinkTo(b, reserve) ==
  AppendTo(EnsureWritableBytes(New, ReadableBytes(b) + reserve), Readable(b))

\* The two parts readv() puts its bytes in.
First(b, data) == SubSeq(data, 1, WritableBytes(b))
Remainder(b, data) == SubSeq(data, WritableBytes(b) + 1, Len(data))

ReadInto_DropsExtra(b, data) ==
  IF Len(data) <= WritableBytes(b)
  THEN SetIndices(Copy(b, data, b.writer), b.reader, b.writer + Len(data))
  ELSE SetIndices(Copy(b, First(b, data), b.writer), b.reader, b.size)

\* readFd() when readv() returns data.
ReadInto(b, data) ==
  IF Len(data) <= WritableBytes(b)
  THEN SetIndices(Copy(b, data, b.writer), b.reader, b.writer + Len(data))
  ELSE AppendTo(SetIndices(Copy(b, First(b, data), b.writer), b.reader, b.size), Remainder(b, data))

-----------------------------------------------------------------------------
BufferInit ==
  /\ buf = New
  /\ lastCall = [op |-> "reserve", len |-> 0] /\ prepended = 0

Fits(data) == ReadableBytes(buf) + Len(data) <= MaxReadable

Append_(data) ==
  /\ Fits(data)
  /\ buf' = AppendTo(buf, data)
  /\ lastCall' = [op |-> "append", data |-> data]
  /\ UNCHANGED prepended

\* readFd(): readv() returns no more than the two areas it was given hold.  An
\* error changes nothing.
ReadFd(data) ==
  /\ Fits(data)
  /\ Len(data) <= WritableBytes(buf) + (IF WritableBytes(buf) < ExtraBuf THEN ExtraBuf ELSE 0)
  /\ buf' = ReadInto(buf, data)
  /\ lastCall' = [op |-> "append", data |-> data]
  /\ UNCHANGED prepended

\* retrieve() and what is built on it: retrieveUntil(), retrieveInt32(),
\* retrieveAllAsString() and the others.
Retrieve(len) ==
  /\ len <= ReadableBytes(buf)
  /\ buf' = RetrieveFrom(buf, len)
  /\ lastCall' = [op |-> "retrieve", len |-> len]
  /\ prepended' = IF len = ReadableBytes(buf) THEN 0 ELSE prepended

Unwrite(len) ==
  /\ len <= ReadableBytes(buf)
  /\ buf' = SetIndices(buf, buf.reader, buf.writer - len)
  /\ lastCall' = [op |-> "unwrite", len |-> len]
  /\ UNCHANGED prepended

Prepend(data) ==
  /\ Fits(data) /\ Len(data) <= PrependableBytes(buf)
  /\ buf' = PrependTo(buf, data)
  /\ lastCall' = [op |-> "prepend", data |-> data]
  /\ prepended' = prepended + Len(data) /\ prepended' <= MaxPrepended

\* ensureWritableBytes() by a user who then writes at beginWrite().
Ensure(len) ==
  /\ buf' = EnsureWritableBytes(buf, len)
  /\ lastCall' = [op |-> "reserve", len |-> len]
  /\ UNCHANGED prepended

Shrink(len) ==
  /\ buf' = ShrinkTo(buf, len)
  /\ lastCall' = [op |-> "reserve", len |-> len]
  /\ prepended' = 0

BufferNext ==
  \/ \E data \in Pieces : Append_(data) \/ ReadFd(data) \/ Prepend(data)
  \/ \E len \in 0 .. MaxReadable : Retrieve(len) \/ Unwrite(len)
  \/ \E len \in 0 .. MaxReserve : Ensure(len) \/ Shrink(len)

BufferSpec == BufferInit /\ [][BufferNext]_bvars

-----------------------------------------------------------------------------
(* Properties.                                                             *)

\* 0 <= readerIndex <= writerIndex <= size, as the picture in Buffer.h has it,
\* and the vector has size bytes.
IsBuffer(b) ==
  /\ b \in [mem : [0 .. b.size - 1 -> Byte], size : Nat, reader : Nat, writer : Nat]
  /\ b.reader <= b.writer /\ b.writer <= b.size

Queue == INSTANCE ByteQueue WITH content <- Readable(buf), call <- lastCall

TypeOK == IsBuffer(buf) /\ lastCall \in Queue!Call /\ prepended \in Nat

\* No operation corrupts, loses or reorders the bytes between the two indices:
\* makeSpace() and shrink() move them unchanged, readFd() joins its two areas.
ImplementsByteQueue == Queue!Spec

\* There is always room for kCheapPrepend bytes in front of the content, but
\* for those that prepend() has taken since the buffer was last emptied by
\* retrieve() or rebuilt by shrink(): a codec can add its header to any
\* message, however the buffer was used before.
CheapPrepend == PrependableBytes(buf) + prepended >= kCheapPrepend

Asked(k) == IF k.op \in {"append", "prepend"} THEN Len(k.data) ELSE k.len

\* The vector grows only when the content, the bytes asked for and the
\* prepend area do not fit in it, however the content is placed.
GrowsOnlyIfNeeded ==
  [][buf'.size > buf.size =>
       ReadableBytes(buf) + Asked(lastCall') + kCheapPrepend > buf.size]_bvars
=============================================================================
