------------------------------ MODULE ByteQueue ------------------------------
(***************************************************************************)
(* What muduo::net::Buffer promises its users (muduo/net/Buffer.h): a      *)
(* sequence of bytes that grows at its end by what is appended or read,    *)
(* shrinks at its start by what is retrieved, can take bytes at its start  *)
(* and give back bytes at its end.  call is the operation of the last      *)
(* step, with its argument.                                                *)
(***************************************************************************)
EXTENDS Integers, Sequences

CONSTANT Byte

VARIABLES content, call

vars == <<content, call>>

Call == [op : {"append", "prepend"}, data : Seq(Byte)]
          \cup [op : {"retrieve", "unwrite", "reserve"}, len : Nat]

\* The content after the call k.
Effect(k) ==
  CASE k.op = "append"   -> content \o k.data
    [] k.op = "prepend"  -> k.data \o content
    [] k.op = "retrieve" -> SubSeq(content, k.len + 1, Len(content))
    [] k.op = "unwrite"  -> SubSeq(content, 1, Len(content) - k.len)
    [] k.op = "reserve"  -> content

Init == content = <<>> /\ call = [op |-> "reserve", len |-> 0]

Next == content' = Effect(call')

Spec == Init /\ [][Next]_vars
=============================================================================
