----------------------------- MODULE DsaPolyRef -----------------------------
(***************************************************************************)
(* What the arithmetic of ML-DSA is to compute: sums and products in       *)
(* Z_q[X]/(X^N+1).  A polynomial is compared by its values at the 2N-th    *)
(* roots of unity, in the order of the NTT domain.                         *)
(***************************************************************************)
EXTENDS DsaPoly, FiniteSetsExt

CONSTANT Root     \* ROOT_OF_UNITY, of order 2 * N

BitReversed(q) ==
  MapThenSumSet(LAMBDA b : ((q \div (2 ^ b)) % 2) * (2 ^ (Layers - 1 - b)), 0 .. Layers - 1)

Power[n \in 0 .. 2 * N] ==
  IF n = 0 THEN 1
  ELSE LET h == Power[n \div 2]
       IN  (((h * h) % Q) * (IF n % 2 = 1 THEN Root ELSE 1)) % Q

Point == [i \in Idx |-> Power[(2 * BitReversed(i)) + 1]]

\* The value of f at the point of index i, by Horner's rule.
Value(f, i) ==
  LET H[j \in 0 .. N] == IF j = N THEN 0 ELSE (f[j] + (Point[i] * H[j + 1])) % Q
  IN  H[0]

\* Safety: the pipeline of transforms, Montgomery factors and reductions ends
\* with the sum of products of the specification of ML-DSA, modulo q.
ProductRight ==
  pc = "done" =>
    \A i \in Idx :
      LET rows == MapThenSumSet(LAMBDA q : (in.a[q][i] * Value(in.s[q], i)) % Q, 1 .. L)
          right == CASE in.use = "row"     -> rows + Value(in.e, i)
                     [] in.use = "verify"  -> rows - (Value(in.c, i) * ((Value(in.t1, i) * D) % Q))
                     [] in.use = "respond" -> (Value(in.c, i) * Value(in.s[1], i)) + Value(in.e, i)
      IN  (Value(r, i) - right) % Q = 0
=============================================================================
