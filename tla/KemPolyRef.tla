----------------------------- MODULE KemPolyRef -----------------------------
(***************************************************************************)
(* What the arithmetic of ML-KEM is to compute: sums and products in       *)
(* Z_q[X]/(X^N+1).  A polynomial is compared by its remainders modulo the  *)
(* factors X^2 - Root^(2*BitReversed(q)+1), in the order of the NTT domain.*)
(***************************************************************************)
EXTENDS KemPoly, FiniteSetsExt

CONSTANT Root     \* KYBER_ROOT_OF_UNITY, of order N

BitReversed(q) ==
  MapThenSumSet(LAMBDA b : ((q \div (2 ^ b)) % 2) * (2 ^ (Layers - 1 - b)), 0 .. Layers - 1)

Power[n \in 0 .. N] ==
  IF n = 0 THEN 1
  ELSE LET h == Power[n \div 2]
       IN  (((h * h) % Q) * (IF n % 2 = 1 THEN Root ELSE 1)) % Q

PairRoot == [q \in 0 .. (N \div 2) - 1 |-> Power[(2 * BitReversed(q)) + 1]]

\* Coefficient i % 2 of f modulo the factor of pair i \div 2, by Horner's rule.
Remainder(f, i) ==
  LET z == PairRoot[i \div 2]
      H[j \in 0 .. N \div 2] ==
        IF j = N \div 2 THEN 0 ELSE (f[(2 * j) + (i % 2)] + (z * H[j + 1])) % Q
  IN  H[0]

Product(f, g, i) ==
  LET q == i - (i % 2)
      z == PairRoot[i \div 2]
  IN  IF i % 2 = 0
      THEN (f[q] * Remainder(g, q)) + (((f[q + 1] * Remainder(g, q + 1)) % Q) * z)
      ELSE (f[q] * Remainder(g, q + 1)) + (f[q + 1] * Remainder(g, q))

SumOfProducts(i) ==
  MapThenSumSet(LAMBDA v : Product(in.a[v], in.s[v], i) % Q, Vec)

\* Safety: the pipeline of transforms, Montgomery factors and reductions ends
\* with the sum of products of the specification of ML-KEM, modulo q.
ProductRight ==
  pc = "done" =>
    \A i \in Idx :
      LET sum == SumOfProducts(i)
          e   == Remainder(in.e, i)
      IN  CASE in.use = "keypair" -> (r[i] - (sum + e)) % Q = 0
            [] in.use = "enc"     -> (Remainder(r, i) - (sum + e)) % Q = 0
            [] in.use = "dec"     -> (Remainder(r, i) - (e - sum)) % Q = 0
=============================================================================
