------------------------------ MODULE KemPoly -------------------------------
(***************************************************************************)
(* The polynomial arithmetic of ML-KEM (indcpa.c, polyvec.c, poly.c and    *)
(* ntt.c): one row of each of the three matrix products.                   *)
(*   keypair   ntt(e) + sum of a[p] * ntt(s[p]), left transformed          *)
(*   enc       e + sum of a[p] * s[p]                                      *)
(*   dec       e - sum of a[p] * s[p]                                      *)
(* The polynomials a[p] are in the NTT domain already.  For the row v of   *)
(* enc, e is the noise plus the message.                                   *)
(***************************************************************************)
EXTENDS Ntt

CONSTANTS
  K,        \* KYBER_K
  Eta,      \* largest noise, KYBER_ETA1
  Stored,   \* 4095, the largest value of 12 bits
  Mont2,    \* 2^32 mod q, of poly_tomont
  F,        \* mont^2/128, of invntt
  Inputs    \* the products computed: records [use, a, s, e]

Vec == 0 .. K - 1
Small == -Eta .. Eta

\* What the callers put in: sampled, unpacked or decompressed polynomials.
Operands ==
  [use : {"keypair", "enc", "dec"}, a : [Vec -> [Idx -> 0 .. Stored]],
   s : [Vec -> Poly], e : Poly]

Sampled(f, S) == \A i \in Idx : f[i] \in S

ASSUME KemPolyAssumption ==
  /\ K \in Nat \ {0} /\ Eta \in Nat /\ Stored \in Nat
  /\ Mont2 \in 0 .. Q - 1 /\ F \in 0 .. Q - 1
  /\ Lens[Layers] = 2
  /\ (Layers + 1) * Q <= Half /\ (2 * K) * Q <= Half /\ Stored < Half
  /\ Eta + ((Q + 1) \div 2) <= Q
  /\ LET d == ((Shift + (Q \div 2)) \div Q) * Q - Shift     \* the error of barrett_reduce
     IN  (2 * Half) * (IF d < 0 THEN -d ELSE d) < Shift
  /\ Inputs \subseteq Operands
  /\ \A n \in Inputs :
       \/ n.use = "keypair" /\ Sampled(n.e, Small) /\ \A p \in Vec : Sampled(n.s[p], Small)
       \/ n.use = "enc" /\ Sampled(n.e, -Eta .. Eta + ((Q + 1) \div 2))
                        /\ \A p \in Vec : Sampled(n.s[p], Small)
       \/ n.use = "dec" /\ Sampled(n.e, 0 .. Q - 1) /\ \A p \in Vec : Sampled(n.s[p], 0 .. Q - 1)

VARIABLES
  in,       \* the operands
  x,        \* the transformed operands: s and, in keypair, e as x[K]
  pc,       \* "ntt", "acc", "tomont", "inv", "add", "done"
  p         \* index into the vector

vars == <<in, x, pc, p, r, layer, start, k>>

Init ==
  /\ in \in Inputs
  /\ x = [q \in 0 .. K |-> IF q = K THEN in.e ELSE in.s[q]]
  /\ pc = "ntt" /\ p = 0
  /\ layer = 1 /\ start = 0 /\ k = 1 /\ r = in.s[0]

poly_reduce(f) == [i \in Idx |-> barrett_reduce(Wrap(f[i]))]

NttBlock ==
  /\ pc = "ntt" /\ ForwardBlock
  /\ UNCHANGED <<in, x, pc, p>>

\* poly_ntt ends with poly_reduce; polyvec_ntt goes to the next polynomial.
NttDone ==
  /\ pc = "ntt" /\ layer > Layers
  /\ x' = [x EXCEPT ![p] = poly_reduce(r)]
  /\ p' = IF p < (IF in.use = "keypair" THEN K ELSE K - 1) THEN p + 1 ELSE 0
  /\ pc' = IF p' = 0 THEN "acc" ELSE "ntt"
  /\ Enter(1, 1, IF p' = 0 THEN r ELSE x[p'])
  /\ UNCHANGED in

\* Mutant: both polynomials of a group of four use the same root.
PairZetaUnsigned(i) == Zetas[(N \div 4) + (i \div 4)]

\* The root of coefficient i's pair: zetas[64+i] and its negative in turn.
PairZeta(i) ==
  LET z == Zetas[(N \div 4) + (i \div 4)]
  IN  IF (i \div 2) % 2 = 0 THEN z ELSE -z

\* poly_basemul_montgomery: products modulo X^2 - root.
basemul(f, g) ==
  [i \in Idx |->
     IF i % 2 = 0
     THEN fqmul(fqmul(f[i + 1], g[i + 1]), PairZeta(i)) + fqmul(f[i], g[i])
     ELSE fqmul(f[i - 1], g[i]) + fqmul(f[i], g[i - 1])]

Accumulated ==
  [i \in Idx |-> (IF p = 0 THEN 0 ELSE r[i]) + Wrap(basemul(in.a[p], x[p])[i])]

Acc ==
  /\ pc = "acc" /\ p < K
  /\ r' = Keep(Accumulated)
  /\ p' = p + 1
  /\ UNCHANGED <<in, x, pc, layer, start, k>>

\* Mutant: the sum enters the inverse transform unreduced.
AccDoneRaw ==
  /\ pc = "acc" /\ p = K
  /\ pc' = IF in.use = "keypair" THEN "tomont" ELSE "inv"
  /\ Enter(Layers, Blocks - 1, r)
  /\ UNCHANGED <<in, x, p>>

\* polyvec_basemul_acc_montgomery ends with poly_reduce.
AccDone ==
  /\ pc = "acc" /\ p = K
  /\ pc' = IF in.use = "keypair" THEN "tomont" ELSE "inv"
  /\ Enter(Layers, Blocks - 1, poly_reduce(r))
  /\ UNCHANGED <<in, x, p>>

poly_tomont ==
  /\ pc = "tomont"
  /\ r' = [i \in Idx |-> fqmul(r[i], Mont2)]
  /\ pc' = "add"
  /\ UNCHANGED <<in, x, p, layer, start, k>>

\* The sum and the difference that a block of the inverse transform forms.
Differences ==
  LET len == Lens[layer]
  IN  [i \in Idx |-> IF Lower(i) THEN r[i] + r[i + len]
                     ELSE IF Upper(i) THEN r[i] - r[i - len]
                     ELSE r[i]]

\* Mutant: the sum is not reduced.
InverseBlockLazy ==
  /\ pc = "inv" /\ layer > 0
  /\ r' = [i \in Idx |-> IF Upper(i) THEN fqmul(Zetas[k], Wrap(Differences[i]))
                         ELSE Wrap(Differences[i])]
  /\ Advance(-1)
  /\ UNCHANGED <<in, x, pc, p>>

InverseBlock ==
  /\ pc = "inv" /\ layer > 0
  /\ r' = [i \in Idx |-> IF Lower(i) THEN barrett_reduce(Wrap(Differences[i]))
                         ELSE IF Upper(i) THEN fqmul(Zetas[k], Wrap(Differences[i]))
                         ELSE r[i]]
  /\ Advance(-1)
  /\ UNCHANGED <<in, x, pc, p>>

InverseDone ==
  /\ pc = "inv" /\ layer = 0
  /\ r' = [i \in Idx |-> fqmul(r[i], F)]
  /\ pc' = "add"
  /\ UNCHANGED <<in, x, p, layer, start, k>>

\* poly_add of e, or poly_sub from it.
Added == [i \in Idx |-> IF in.use = "dec" THEN x[K][i] - r[i] ELSE r[i] + x[K][i]]

AddReduce ==
  /\ pc = "add"
  /\ r' = poly_reduce(Added)
  /\ pc' = "done"
  /\ UNCHANGED <<in, x, p, layer, start, k>>

Next ==
  \/ NttBlock \/ NttDone \/ Acc \/ AccDone
  \/ poly_tomont \/ InverseBlock \/ InverseDone \/ AddReduce

Spec == Init /\ [][Next]_vars

-----------------------------------------------------------------------------
Centred(f)     == \A i \in Idx : -((Q - 1) \div 2) <= f[i] /\ f[i] <= (Q - 1) \div 2
Transformed(q) == q \in Vec \/ in.use = "keypair"

TypeOK ==
  /\ in \in Inputs /\ x \in [0 .. K -> Poly] /\ r \in Poly
  /\ pc \in {"ntt", "acc", "tomont", "inv", "add", "done"}
  /\ p \in 0 .. K

\* How far the coefficients have grown.
Ranges ==
  /\ \A q \in 0 .. K :
       IF Transformed(q) THEN IF pc = "ntt" /\ q >= p THEN Bounded(x[q], Q) ELSE Centred(x[q])
       ELSE Bounded(x[q], Q + 1)
  /\ pc = "ntt" => Transformed(p) /\ ForwardRoot /\ ForwardRange
  /\ pc = "acc" /\ p > 0 => Bounded(r, (2 * p) * Q)
  /\ pc \in {"tomont", "inv", "add"} => Bounded(r, Q)
  /\ pc = "inv" => layer <= Layers /\ InverseRoot
  /\ pc = "done" => Centred(r)

\* Inductive invariant.
IInv == TypeOK /\ Placed /\ Ranges

\* What the next step adds and subtracts, before it is cut to 16 bits.
Sums ==
  CASE pc = "ntt" /\ layer <= Layers -> Forward
    [] pc = "acc" /\ p < K           -> Accumulated
    [] pc = "inv" /\ layer > 0       -> Differences
    [] pc = "add"                    -> Added
    [] OTHER                         -> [i \in Idx |-> 0]

\* Safety: although ntt, basemul and poly_add reduce nothing, no sum or
\* difference of coefficients leaves int16_t, in any use of the code.
NoOverflow ==
  /\ \A i \in Idx : Fits(Sums[i])
  /\ pc = "acc" /\ p < K => \A i \in Idx : Fits(basemul(in.a[p], x[p])[i])

\* Safety: what is packed into the keys or the ciphertext is the centred
\* representative, so poly_tobytes and the compression need one addition of q.
Packed ==
  /\ pc = "done" => Centred(r)
  /\ pc # "ntt"  => \A q \in 0 .. K : Transformed(q) => Centred(x[q])
=============================================================================
