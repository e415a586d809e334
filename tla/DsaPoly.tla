------------------------------ MODULE DsaPoly -------------------------------
(***************************************************************************)
(* The polynomial arithmetic of ML-DSA (sign.c, polyvec.c, poly.c and      *)
(* ntt.c), for one row of each of its products.                            *)
(*   row      e + sum of a[q] * s[q], the t of the keys and the w of a     *)
(*            signature (which has no e: zero)                             *)
(*   verify   sum of a[q] * s[q], minus c * t1 * 2^D                       *)
(*   respond  e + c * s[1], the z of a signature (and the hints' c*s2 and  *)
(*            c*t0)                                                        *)
(* The polynomials a[q] are in the NTT domain already.  All transforms of  *)
(* a product come first: they do not depend on each other.                 *)
(***************************************************************************)
EXTENDS Ntt

CONSTANTS
  L,        \* DILITHIUM_L
  D,        \* 2^D, what t1 is shifted by
  F,        \* mont^2/256, of invntt_tomont
  Small,    \* ETA, the bound of e in a row
  Inputs    \* the products computed: records [use, a, s, c, t1, e]

Magnitude(v) == IF v < 0 THEN -v ELSE v

Operands ==
  [use : {"row", "verify", "respond"}, a : [1 .. L -> Poly], s : [1 .. L -> Poly],
   c : Poly, t1 : Poly, e : Poly]

ASSUME DsaPolyAssumption ==
  /\ L \in Nat \ {0} /\ D \in Nat \ {0} /\ F \in Int /\ Small \in Nat
  /\ Lens[Layers] = 1 /\ Q > 2
  /\ N * Q <= Half /\ ((Layers + 1) * (Layers + 1)) * Q <= Half /\ (2 * (L + 2)) * Q <= Half
  /\ Magnitude(F) + (2 * Small) < Q
  /\ Q <= Shift /\ Shift <= Half
  /\ (Shift \div 2) + (((((L + 1) * Q) + (Shift \div 2)) \div Shift) * (Shift - Q)) < Q
  /\ Inputs \subseteq Operands
  /\ \A n \in Inputs :
       /\ \A q \in 1 .. L : Bounded(n.a[q], Q) /\ Bounded(n.s[q], Q)
       /\ Bounded(n.c, 2) /\ Bounded(n.e, IF n.use = "respond" THEN Q ELSE Small + 1)
       /\ \A i \in Idx : 0 <= n.t1[i] /\ n.t1[i] * D < Q

VARIABLES
  in,       \* the operands
  x,        \* the transformed operands: c is x[0], t1 * 2^D is x[L + 1]
  pc,       \* "ntt", "acc", "sub", "inv", "add", "done"
  p         \* index into x

vars == <<in, x, pc, p, r, layer, start, k>>

First(use) == IF use = "row" THEN 1 ELSE 0
Last(use)  == CASE use = "row" -> L [] use = "verify" -> L + 1 [] use = "respond" -> 1

\* polyveck_shiftl.
shiftl(f) == [i \in Idx |-> Wrap(f[i] * D)]

Init ==
  /\ in \in Inputs
  /\ x = [q \in 0 .. L + 1 |-> IF q = 0 THEN in.c ELSE IF q = L + 1 THEN shiftl(in.t1) ELSE in.s[q]]
  /\ pc = "ntt" /\ p = First(in.use)
  /\ layer = 1 /\ start = 0 /\ k = 1 /\ r = x[p]

poly_reduce(f) == [i \in Idx |-> reduce32(Wrap(f[i]))]

NttBlock ==
  /\ pc = "ntt" /\ ForwardBlock
  /\ UNCHANGED <<in, x, pc, p>>

NttDone ==
  /\ pc = "ntt" /\ layer > Layers
  /\ x' = [x EXCEPT ![p] = r]
  /\ p' = IF p < Last(in.use) THEN p + 1 ELSE 1
  /\ pc' = IF p < Last(in.use) THEN "ntt" ELSE "acc"
  /\ Enter(1, 1, IF p < Last(in.use) THEN x[p'] ELSE r)
  /\ UNCHANGED in

poly_pointwise_montgomery(f, g) == [i \in Idx |-> fqmul(f[i], g[i])]

Terms == IF in.use = "respond" THEN 1 ELSE L
Accumulated ==
  LET f == poly_pointwise_montgomery(IF in.use = "respond" THEN x[0] ELSE in.a[p], x[p])
  IN  [i \in Idx |-> (IF p = 1 THEN 0 ELSE r[i]) + f[i]]

\* polyvecl_pointwise_acc_montgomery, or polyveck_pointwise_poly_montgomery.
Acc ==
  /\ pc = "acc" /\ p <= Terms
  /\ r' = Keep(Accumulated)
  /\ p' = p + 1
  /\ UNCHANGED <<in, x, pc, layer, start, k>>

\* Mutant: the sum enters the inverse transform unreduced.
AccDoneRaw ==
  /\ pc = "acc" /\ p > Terms
  /\ pc' = IF in.use = "verify" THEN "sub" ELSE "inv"
  /\ Enter(Layers, Blocks - 1, r)
  /\ UNCHANGED <<in, x, p>>

\* polyveck_reduce follows the sum of a row.
AccDone ==
  /\ pc = "acc" /\ p > Terms
  /\ pc' = IF in.use = "verify" THEN "sub" ELSE "inv"
  /\ Enter(Layers, Blocks - 1, IF in.use = "row" THEN poly_reduce(r) ELSE r)
  /\ UNCHANGED <<in, x, p>>

Subtracted ==
  LET f == poly_pointwise_montgomery(x[0], x[L + 1])
  IN  [i \in Idx |-> r[i] - f[i]]

\* Mutant: w1 enters the inverse transform unreduced.
SubReduceRaw ==
  /\ pc = "sub"
  /\ r' = Keep(Subtracted)
  /\ pc' = "inv"
  /\ UNCHANGED <<in, x, p, layer, start, k>>

SubReduce ==
  /\ pc = "sub"
  /\ r' = poly_reduce(Subtracted)
  /\ pc' = "inv"
  /\ UNCHANGED <<in, x, p, layer, start, k>>

\* t + a[j + len] and t - a[j + len].
Differences ==
  LET len == Lens[layer]
  IN  [i \in Idx |-> IF Lower(i) THEN r[i] + r[i + len]
                     ELSE IF Upper(i) THEN r[i - len] - r[i]
                     ELSE r[i]]

\* Mutant: the root keeps its sign.
InverseBlockSign ==
  /\ pc = "inv" /\ layer > 0
  /\ r' = [i \in Idx |-> IF Upper(i) THEN fqmul(Zetas[k], Wrap(Differences[i]))
                         ELSE Wrap(Differences[i])]
  /\ Advance(-1)
  /\ UNCHANGED <<in, x, pc, p>>

\* zeta = -zetas[--k]: k is the index after the decrement.
InverseBlock ==
  /\ pc = "inv" /\ layer > 0
  /\ r' = [i \in Idx |-> IF Upper(i) THEN fqmul(-Zetas[k], Wrap(Differences[i]))
                         ELSE Wrap(Differences[i])]
  /\ Advance(-1)
  /\ UNCHANGED <<in, x, pc, p>>

InverseDone ==
  /\ pc = "inv" /\ layer = 0
  /\ r' = [i \in Idx |-> fqmul(F, r[i])]
  /\ pc' = "add"
  /\ UNCHANGED <<in, x, p, layer, start, k>>

Added == [i \in Idx |-> IF in.use = "verify" THEN r[i] ELSE r[i] + in.e[i]]

\* polyveck_add and polyveck_caddq; polyvecl_add and polyvecl_reduce.
AddFreeze ==
  /\ pc = "add"
  /\ r' = IF in.use = "respond" THEN poly_reduce(Added)
          ELSE [i \in Idx |-> caddq(Wrap(Added[i]))]
  /\ pc' = "done"
  /\ UNCHANGED <<in, x, p, layer, start, k>>

Next ==
  \/ NttBlock \/ NttDone \/ Acc \/ AccDone \/ SubReduce
  \/ InverseBlock \/ InverseDone \/ AddFreeze

Spec == Init /\ [][Next]_vars

-----------------------------------------------------------------------------
TypeOK ==
  /\ in \in Inputs /\ x \in [0 .. L + 1 -> Poly] /\ r \in Poly
  /\ pc \in {"ntt", "acc", "sub", "inv", "add", "done"}
  /\ p \in 0 .. L + 1

\* Backward, coefficients grow twofold in a layer, where len doubles too.
InverseRange ==
  /\ layer <= Layers
  /\ IF layer = 0 THEN Bounded(r, N * Q)
     ELSE \A i \in Idx : LET b == (IF i < start THEN 2 * Lens[layer] ELSE Lens[layer]) * Q
                         IN  -b < r[i] /\ r[i] < b

\* Part of IInv: what power2round, decompose and use_hint get is the standard
\* representative they assume; what chknorm gets is reduced.
Standard ==
  pc = "done" => \A i \in Idx : (IF in.use = "respond" THEN -Q ELSE -1) < r[i] /\ r[i] < Q

Ranges ==
  /\ Standard
  /\ \A q \in First(in.use) .. Last(in.use) :
       Bounded(x[q], IF pc = "ntt" /\ q >= p THEN Q ELSE (Layers + 1) * Q)
  /\ pc = "ntt" => p \in First(in.use) .. Last(in.use) /\ ForwardRoot /\ ForwardRange
  /\ pc \in {"acc", "sub"} => p > 0 /\ p <= Terms + 1
  /\ pc = "acc" /\ p > 1 => Bounded(r, (p - 1) * Q)
  /\ pc = "sub" => in.use = "verify" /\ Bounded(r, L * Q) /\ layer = Layers /\ start = 0 /\ k = Blocks - 1
  /\ pc = "inv" => InverseRoot /\ InverseRange
  /\ pc = "add" => \A i \in Idx : 2 * Magnitude(r[i]) <= Magnitude(F) + Q

\* Inductive invariant.
IInv == TypeOK /\ Placed /\ Ranges

\* What the next step adds and subtracts, before it is cut to 32 bits.
Sums ==
  CASE pc = "ntt" /\ layer <= Layers -> Forward
    [] pc = "acc" /\ p <= Terms      -> Accumulated
    [] pc = "sub"                    -> Subtracted
    [] pc = "inv" /\ layer > 0       -> Differences
    [] pc = "add"                    -> Added
    [] OTHER                         -> [i \in Idx |-> 0]

\* Safety: ntt and invntt_tomont reduce nothing in their layers and the sums
\* of products are reduced once, yet no sum leaves int32_t, nor does the
\* rounding term that reduce32 adds.
NoOverflow ==
  /\ \A i \in Idx : Fits(Sums[i])
  /\ pc \in {"acc", "sub", "add"} => \A i \in Idx : Fits(Sums[i] + (Shift \div 2))
=============================================================================
