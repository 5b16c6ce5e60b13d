-------------------------- MODULE MCDefaultPoller --------------------------
(* Four channels on three fds: c1 and c2 share fd 0, in turn. *)
EXTENDS DefaultPoller, TLC
CONSTANTS c1, c2, c3, c4
MCFd == c1 :> 0 @@ c2 :> 0 @@ c3 :> 4 @@ c4 :> 5
=============================================================================
