---------------------------- MODULE MCRejSample -----------------------------
(* Small instance with units of three bytes and two candidates.  Blocks of *)
(* four bytes leave one and then two bytes over, as no real rate does.     *)
EXTENDS RejSample, FiniteSets

MCCands   == {0, 3, 6, 9} \X {0, 1}
MCStreams == {g \in SUBSET MCCands : Cardinality(g) >= N}
=============================================================================
