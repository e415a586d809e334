-------------------------------- MODULE Ntt ---------------------------------
(***************************************************************************)
(* The loops of the number-theoretic transforms of ML-KEM and ML-DSA, over *)
(* the polynomial r they work on in place.  A step is one block: the       *)
(* butterflies of the inner loop over j, which share a root.  What a block *)
(* stores is first an exact integer; Keep is the assignment to w bits.     *)
(***************************************************************************)
EXTENDS Reduce, Sequences

CONSTANTS
  N,        \* KYBER_N, DILITHIUM_N
  Lens,     \* the values of len, in the order of the forward transform
  Zetas     \* zetas[]

Layers == Len(Lens)
Idx    == 0 .. N - 1
Poly   == [Idx -> Int]
Blocks == N \div Lens[Layers]    \* the transform ends in so many rings

ASSUME NttAssumption ==
  /\ N \in Nat \ {0}
  /\ Lens \in Seq(Nat \ {0}) /\ Layers > 0
  /\ 2 * Lens[1] = N
  /\ \A l \in 1 .. Layers - 1 : Lens[l] = 2 * Lens[l + 1]
  /\ \A l \in 1 .. Layers :
       Lens[Layers] <= Lens[l] /\ \E m \in 1 .. N : N = (2 * Lens[l]) * m
  /\ Zetas \in [0 .. Blocks - 1 -> -(Q \div 2) .. Q \div 2]

VARIABLES
  r,        \* the polynomial
  layer,    \* len is Lens[layer]; 0 or Layers + 1 when the loops are done
  start,    \* the first index of the block
  k         \* the index of the block's root

Keep(f) == [i \in Idx |-> Wrap(f[i])]

\* fqmul of ML-KEM; montgomery_reduce of an int64_t product in ML-DSA.
fqmul(x, y) == montgomery_reduce(x * y)

Lower(i) == i \in start .. start + Lens[layer] - 1
Upper(i) == i \in start + Lens[layer] .. start + 2 * Lens[layer] - 1

\* r[j + len] = r[j] - t, r[j] = r[j] + t.
Forward ==
  LET len == Lens[layer]
  IN  [i \in Idx |-> IF Lower(i) THEN r[i] + fqmul(Zetas[k], r[i + len])
                     ELSE IF Upper(i) THEN r[i - len] - fqmul(Zetas[k], r[i])
                     ELSE r[i]]

Enter(l, root, p) == layer' = l /\ start' = 0 /\ k' = root /\ r' = p

\* start = j + len; after the last block the loop over len goes on.
Advance(step) ==
  LET next == start + 2 * Lens[layer]
  IN  /\ k' = k + step
      /\ start' = IF next < N THEN next ELSE 0
      /\ layer' = IF next < N THEN layer ELSE layer + step

ForwardBlock == layer <= Layers /\ r' = Keep(Forward) /\ Advance(1)

-----------------------------------------------------------------------------
\* Parts of the invariants.
Bounded(f, b) == \A i \in Idx : -b < f[i] /\ f[i] < b

\* start is the beginning of a block, and k an index of zetas[] or its end.
Placed ==
  /\ layer \in 0 .. Layers + 1 /\ start \in 0 .. N - 1 /\ k \in 0 .. Blocks
  /\ layer \in 1 .. Layers => \E b \in 0 .. N : start = (2 * Lens[layer]) * b

\* Both transforms meet a block with the same root.
ForwardRoot == layer <= Layers => k * (2 * Lens[layer]) = N + start
InverseRoot == layer > 0 => (k + 1) * (2 * Lens[layer]) = (2 * N) - start

\* Forward, coefficients grow by Q in a layer.
ForwardRange ==
  /\ layer > 0
  /\ \A i \in Idx : LET b == (IF i < start THEN layer + 1 ELSE layer) * Q
                    IN  -b < r[i] /\ r[i] < b
  /\ layer > Layers => start = 0
=============================================================================
