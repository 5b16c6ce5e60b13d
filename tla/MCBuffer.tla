------------------------------ MODULE MCBuffer ------------------------------
(* Pieces of up to three bytes, so that every area is overrun. *)
EXTENDS Buffer
MCPieces == {<<"a">>, <<"b">>, <<"b", "a">>, <<"b", "a", "b">>}
=============================================================================
