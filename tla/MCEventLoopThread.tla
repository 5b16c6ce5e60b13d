------------------------- MODULE MCEventLoopThread -------------------------
(* Instances of EventLoopThread for TLC.                                   *)
EXTENDS EventLoopThread
=============================================================================
