------------------------------ MODULE Executor ------------------------------
(***************************************************************************)
(* What EventLoop promises the users of runInLoop() and queueInLoop()      *)
(* (muduo/net/EventLoop.h): a callback that is queued runs later, once, in *)
(* the order of queueing; one given to runInLoop() in the loop thread runs *)
(* at once.                                                                *)
(***************************************************************************)
EXTENDS Sequences, Functions

CONSTANT Functors

VARIABLES
  queue,    \* queued and not yet run
  done,     \* queued ones that ran, in order
  direct    \* run on the spot

vars == <<queue, done, direct>>

Unused(f) == f \notin Range(queue) \cup Range(done) \cup direct

Init == queue = <<>> /\ done = <<>> /\ direct = {}

Submit(f) ==
  /\ Unused(f)
  /\ queue' = Append(queue, f)
  /\ UNCHANGED <<done, direct>>

RunNow(f) ==
  /\ Unused(f)
  /\ direct' = direct \cup {f}
  /\ UNCHANGED <<queue, done>>

Execute ==
  /\ queue # <<>>
  /\ done' = Append(done, Head(queue))
  /\ queue' = Tail(queue)
  /\ UNCHANGED direct

Next == Execute \/ \E f \in Functors : Submit(f) \/ RunNow(f)

Spec == Init /\ [][Next]_vars
=============================================================================
