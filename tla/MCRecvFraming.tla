--------------------------- MODULE MCRecvFraming ----------------------------
(***************************************************************************)
(* RecvFraming for TLC: a response of each kind, two of them with a body.  *)
(* The body byte 'b' stands for any byte that is no type and no end byte.  *)
(***************************************************************************)
EXTENDS RecvFraming

TypeBytes == {"t", "d", "h", "a"}
SomeResponses ==
  {<<"t", "EOF">>, <<"d", "b", "EOF">>, <<"h", "b", "EOF">>, <<"a", "EOF">>}
=============================================================================
