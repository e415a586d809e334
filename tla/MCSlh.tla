------------------------------- MODULE MCSlh --------------------------------
(* SLH-DSA ("slh") and its SHA-2 ("sha2").                                 *)
(* Small instance: two layers of trees with four leaves, two FORS trees with *)
(* eight, three values of a digit.  Two of the digests meet in all keys, the *)
(* third has a tree of its own in the lower layer.                           *)
(* SHA-2 has blocks of eight bytes, two of them for the length; the block of *)
(* a chain is filled up to the last byte, as it is in the code but for one.  *)
EXTENDS Slh, Sha2, TLC

VARIABLES which

MCChunk == {[j \in 1 .. n |-> <<j % 3>>] : n \in {1, 6, 15}}
MCHmsgs == {3, 4, 7}
MCGarbage == <<9>>

Digest(x, y, tr, l) == [md |-> (0 :> x @@ 1 :> y), tree |-> tr, leaf |-> l]
MCDigests == {Digest(0, 7, 1, 2), Digest(5, 2, 1, 2), Digest(1, 6, 2, 2)}

\* All values of two digits, in an order in which long and short chains mix.
MCDeals == {[n \in 1 .. 9 |-> <<((2 * n) % 9) \div 3, (2 * n) % 3>>]}

MCInit == which \in {"slh", "sha2"} /\ Init /\ Sha2Init

MCNext ==
  \/ which = "slh"  /\ Next   /\ UNCHANGED <<which, Sha2Vars>>
  \/ which = "sha2" /\ Sha2Next /\ UNCHANGED <<which, vars>>

MCSpec == MCInit /\ [][MCNext]_<<which, vars, Sha2Vars>>

=============================================================================
