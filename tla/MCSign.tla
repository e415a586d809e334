------------------------------- MODULE MCSign -------------------------------
(* Small instance: the empty message, one as long as the signature and one *)
(* that is longer, so that in place the message overlaps its copy.         *)
EXTENDS Sign

MCMsgs == {<<>>, <<Byte("a"), Zero, Byte("b")>>, <<Byte("a"), Byte("b"), Byte("b"), Byte("a"), Zero>>}
=============================================================================
