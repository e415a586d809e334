----------------------------- MODULE RejSample ------------------------------
(***************************************************************************)
(* Rejection sampling of one polynomial from a XOF: rej_uniform with the   *)
(* loop of gen_matrix (indcpa.c of ML-KEM), and rej_uniform/rej_eta with   *)
(* poly_uniform/poly_uniform_eta (poly.c of ML-DSA).  They are one         *)
(* algorithm: squeeze FirstBlocks blocks, look at the candidates of the    *)
(* buffer, and refill it by one block as long as coefficients are missing. *)
(* poly_uniform moves the bytes that do not fill a unit to the front;      *)
(* gen_matrix does not, and #errors out unless there are none.             *)
(*                                                                         *)
(* A byte is its index in the stream of the seed; what the stream holds is *)
(* known by the candidates that pass the test (good).                      *)
(***************************************************************************)
EXTENDS Integers, Sequences

CONSTANTS
  Unit,         \* bytes of a unit: 3 for rej_uniform, 1 for rej_eta
  PerUnit,      \* candidates of a unit: 2, or 1 in rej_uniform of ML-DSA
  BlockBytes,   \* bytes of a block: XOF_BLOCKBYTES, STREAM*_BLOCKBYTES
  FirstBlocks,  \* GEN_MATRIX_NBLOCKS, POLY_UNIFORM_NBLOCKS, ..._ETA_NBLOCKS
  Carry,        \* whether the loop keeps the bytes of a partial unit
  N,            \* KYBER_N, DILITHIUM_N
  Streams,      \* the seeds, as the sets of <<byte, half>> that pass the test
  MaxSq         \* bound on the bytes squeezed for one polynomial

ASSUME SizeAssumption ==
  /\ Unit \in Nat \ {0}
  /\ PerUnit \in Nat \ {0}
  /\ BlockBytes \in Nat
  /\ FirstBlocks \in Nat \ {0}
  /\ N \in Nat
ASSUME CarryAssumption == Carry \in BOOLEAN /\ (~Carry => BlockBytes % Unit = 0)

\* uint8_t buf[...NBLOCKS*...BLOCKBYTES + 2], without the + 2 in gen_matrix.
BufSize == FirstBlocks * BlockBytes + (IF Carry THEN Unit - 1 ELSE 0)

VARIABLES
  good,    \* the stream
  pc,
  sq,      \* bytes squeezed from the XOF
  buf,
  buflen,
  pos,     \* local to rej_uniform, rej_eta
  half,    \* which candidate of the unit at pos is next
  ctr,     \* coefficients of this call of rej_uniform, rej_eta
  base,    \* coefficients of the calls before
  coeffs   \* the polynomial, as the candidates its coefficients came from

vars == <<good, pc, sq, buf, buflen, pos, half, ctr, base, coeffs>>

Garbage == -1
Unset   == [bytes |-> <<>>, half |-> 0]

-----------------------------------------------------------------------------
Init ==
  /\ good \in Streams
  /\ pc = "start"
  /\ sq = 0
  /\ buf = [i \in 0 .. BufSize - 1 |-> Garbage]
  /\ buflen = 0
  /\ pos = 0
  /\ half = 0
  /\ ctr = 0
  /\ base = 0
  /\ coeffs = [i \in 0 .. N - 1 |-> Unset]

\* The next n bytes of the stream go to buf + off, behind the off bytes that
\* are moved there from index keep on.
Squeeze(off, keep, n) ==
  /\ buf' = [i \in 0 .. BufSize - 1 |->
               IF i < off THEN buf[keep + i]
               ELSE IF i < off + n THEN sq + (i - off) ELSE buf[i]]
  /\ sq' = sq + n
  /\ buflen' = off + n

\* The first blocks, and the call of rej_uniform, rej_eta.
First ==
  /\ pc = "start"
  /\ Squeeze(0, 0, FirstBlocks * BlockBytes)
  /\ pc' = "rej"
  /\ UNCHANGED <<good, pos, half, ctr, base, coeffs>>

UnitLeft == pos + Unit <= buflen

Accepted == [bytes |-> [j \in 0 .. Unit - 1 |-> buf[pos + j]], half |-> half]

\* Mutant: the second candidate is looked at without if(ctr < len).
ExamineOver ==
  /\ pc = "rej"
  /\ (ctr < N - base \/ half > 0) /\ UnitLeft
  /\ IF <<buf[pos], half>> \in good
     THEN ctr' = ctr + 1 /\ coeffs' = [coeffs EXCEPT ![base + ctr] = Accepted]
     ELSE UNCHANGED <<ctr, coeffs>>
  /\ IF half + 1 < PerUnit
     THEN half' = half + 1 /\ pos' = pos
     ELSE half' = 0 /\ pos' = pos + Unit
  /\ UNCHANGED <<good, pc, sq, buf, buflen, base>>

\* One candidate: a coefficient if it passes the test.  The second one of a
\* unit is looked at only if a coefficient is still missing.
Examine ==
  /\ pc = "rej"
  /\ ctr < N - base /\ UnitLeft
  /\ IF <<buf[pos], half>> \in good
     THEN ctr' = ctr + 1 /\ coeffs' = [coeffs EXCEPT ![base + ctr] = Accepted]
     ELSE UNCHANGED <<ctr, coeffs>>
  /\ IF half + 1 < PerUnit
     THEN half' = half + 1 /\ pos' = pos
     ELSE half' = 0 /\ pos' = pos + Unit
  /\ UNCHANGED <<good, pc, sq, buf, buflen, base>>

\* Mutant: the loop of the caller looks at the last call only.
ReturnForgets ==
  /\ pc = "rej"
  /\ ~(ctr < N - base /\ UnitLeft)
  /\ base' = base + ctr
  /\ pc' = IF ctr < N THEN "refill" ELSE "done"
  /\ UNCHANGED <<good, sq, buf, buflen, pos, half, ctr, coeffs>>

\* The return of ctr, and ctr += in the caller.
Return ==
  /\ pc = "rej"
  /\ ~(ctr < N - base /\ UnitLeft)
  /\ base' = base + ctr
  /\ pc' = IF base' < N THEN "refill" ELSE "done"
  /\ UNCHANGED <<good, sq, buf, buflen, pos, half, ctr, coeffs>>

\* Mutant: the bytes of a partial unit are dropped.
RefillDrops ==
  /\ pc = "refill"
  /\ sq + BlockBytes <= MaxSq
  /\ Squeeze(0, 0, BlockBytes)
  /\ pos' = 0 /\ half' = 0 /\ ctr' = 0
  /\ pc' = "rej"
  /\ UNCHANGED <<good, base, coeffs>>

\* One more block, behind the bytes of a partial unit if they are kept.
Refill ==
  /\ pc = "refill"
  /\ sq + BlockBytes <= MaxSq
  /\ LET off == IF Carry THEN buflen % Unit ELSE 0
     IN  Squeeze(off, buflen - off, BlockBytes)
  /\ pos' = 0 /\ half' = 0 /\ ctr' = 0
  /\ pc' = "rej"
  /\ UNCHANGED <<good, base, coeffs>>

Done == pc = "done" /\ UNCHANGED vars

Next == First \/ Examine \/ Return \/ Refill \/ Done

Spec == Init /\ [][Next]_vars

\* Nothing else runs while a polynomial is sampled.
FairSpec == Spec /\ WF_vars(Next)

-----------------------------------------------------------------------------
\* Coefficients written so far, over all calls of rej_uniform, rej_eta: on its
\* return ctr has been added to base.
Count == IF pc \in {"refill", "done"} THEN base ELSE base + ctr

\* The byte of the stream that the buffer's index pos holds.
StreamPos == sq - buflen + pos

\* The contract: the coefficients are the accepted candidates of the stream
\* in order, wherever the blocks end.
Abstract == INSTANCE Filter WITH
              at <- StreamPos, taken <- [i \in 1 .. Count |-> coeffs[i - 1]]

Implements == Abstract!Spec

-----------------------------------------------------------------------------
TypeOK ==
  /\ good \in Streams
  /\ pc \in {"start", "rej", "refill", "done"}
  /\ sq \in Nat
  /\ buf \in [0 .. BufSize - 1 -> Int]
  /\ buflen \in 0 .. BufSize
  /\ pos \in 0 .. buflen
  /\ half \in 0 .. PerUnit - 1
  /\ ctr \in Nat
  /\ base \in Nat
  /\ DOMAIN coeffs = 0 .. N - 1

\* The buffer holds the last buflen bytes of the stream, in order, and whole
\* units where the loop could not keep a partial one.
BufferInv ==
  /\ buflen <= sq
  /\ ~Carry => buflen % Unit = 0
  /\ \A i \in 0 .. buflen - 1 : buf[i] = sq - buflen + i

\* The polynomial is never written past its end, nor a unit read past the end
\* of the buffer.
BoundsInv ==
  /\ Count <= N
  /\ pos % Unit = 0
  /\ half > 0 => UnitLeft

\* When a refill is due the buffer is used up but for a partial unit.
RefillInv ==
  pc = "refill" => ~UnitLeft /\ half = 0 /\ base < N

StartInv == pc = "start" => buflen = 0 /\ sq = 0 /\ pos = 0 /\ half = 0 /\ ctr = 0 /\ base = 0

IInv == TypeOK /\ BufferInv /\ BoundsInv /\ RefillInv /\ StartInv

\* A stream that holds enough candidates to be accepted ends the sampling.
Terminates == <>(pc = "done")
=============================================================================
