---------------------------- MODULE KemPolyProof ----------------------------
(***************************************************************************)
(* Proofs about KemPoly: IInv is an inductive invariant, so no sum leaves  *)
(* 16 bits and what is packed is centred, for every modulus, dimension and *)
(* table of roots that the assumptions allow.  And about Codec: compression*)
(* rounds right, packing is undone, and noise below the bound of a format  *)
(* changes no byte, for all coefficients.                                  *)
(***************************************************************************)
EXTENDS KemPoly, NttProof, Codec

LEMMA KemConstants ==
  /\ K \in Int /\ K > 0 /\ Eta \in Int /\ Eta >= 0 /\ Stored \in Int /\ Stored >= 0 /\ Stored < Half
  /\ Mont2 \in Int /\ 0 <= Mont2 /\ Mont2 < Q /\ F \in Int /\ 0 <= F /\ F < Q
  /\ 2 * Q <= Half /\ Q <= Half /\ Eta < Q /\ Eta + ((Q + 1) \div 2) <= Q
  /\ (Layers + 1) * Q <= Half /\ (2 * K) * Q <= Half
<1>1. PICK q \in Int, kk \in Int, h \in Int : q = Q /\ q > 0 /\ kk = K /\ kk > 0 /\ h = Half
  BY Constants, KemPolyAssumption
<1>2. (2 * kk) * q <= h
  BY <1>1, KemPolyAssumption
<1>3. 2 * q <= (2 * kk) * q
  BY <1>1
<1>4. PICK y \in Int : y = (2 * kk) * q
  OBVIOUS
<1>5. 2 * Q <= Half /\ Q <= Half
  BY <1>1, <1>2, <1>3, <1>4
<1>6. (Q + 1) \div 2 \in Int /\ (Q + 1) \div 2 > 0
  BY <1>1
<1>7. Eta \in Int /\ Eta >= 0 /\ Eta + ((Q + 1) \div 2) <= Q
  BY KemPolyAssumption
<1>8. Eta < Q
  <2>1. PICK u \in Int : u = (Q + 1) \div 2 /\ u > 0
    BY <1>6
  <2> QED
    BY <2>1, <1>1, <1>7
<1>9. Stored \in Int /\ Stored >= 0 /\ Stored < Half
  BY KemPolyAssumption
<1>10. Mont2 \in Int /\ 0 <= Mont2 /\ Mont2 < Q /\ F \in Int /\ 0 <= F /\ F < Q
  <2>1. Mont2 \in 0 .. Q - 1 /\ F \in 0 .. Q - 1
    BY KemPolyAssumption
  <2> QED
    BY <2>1, <1>1
<1>11. (Layers + 1) * Q <= Half /\ (2 * K) * Q <= Half
  BY KemPolyAssumption
<1> QED
  BY <1>1, <1>5, <1>7, <1>8, <1>9, <1>10, <1>11

\* The error of barrett_reduce's multiplier.
LEMMA BarrettError ==
  \E e \in Int :
    /\ ((Shift + (Q \div 2)) \div Q) * Q = Shift + e
    /\ -Shift < (2 * Half) * e /\ (2 * Half) * e < Shift
<1>1. PICK q \in Int, h \in Int, sh \in Int :
        q = Q /\ q > 0 /\ h = Half /\ h > 0 /\ sh = Shift /\ sh > 0
  BY Constants
<1>2. PICK v \in Int : v = (Shift + (Q \div 2)) \div Q
  <2>1. PICK s \in Int : Q \div 2 = s
    BY HalfOfQ
  <2>2. PICK u \in Int : u = Shift + (Q \div 2)
    BY <2>1, <1>1
  <2>3. u \div q \in Int
    BY <1>1
  <2> QED
    BY <2>2, <2>3, <1>1
<1>3. PICK e \in Int : e = (v * q) - sh
  OBVIOUS
<1>4. (2 * h) * (IF e < 0 THEN -e ELSE e) < sh
  BY <1>1, <1>2, <1>3, KemPolyAssumption
<1>5. -sh < (2 * h) * e /\ (2 * h) * e < sh
  <2>1. CASE e < 0
    <3>1. (2 * h) * (-e) < sh
      BY <2>1, <1>4
    <3>2. (2 * h) * (-e) = -((2 * h) * e)
      OBVIOUS
    <3>3. (2 * h) * e <= 0
      BY <2>1, <1>1
    <3>4. PICK y \in Int : y = (2 * h) * e
      OBVIOUS
    <3> QED
      BY <3>1, <3>2, <3>3, <3>4, <1>1
  <2>2. CASE e >= 0
    <3>1. (2 * h) * e < sh
      BY <2>2, <1>4
    <3>2. (2 * h) * e >= 0
      BY <2>2, <1>1
    <3>3. PICK y \in Int : y = (2 * h) * e
      OBVIOUS
    <3> QED
      BY <3>1, <3>2, <3>3, <1>1
  <2> QED
    BY <2>1, <2>2
<1>6. v * q = sh + e
  <2>1. PICK y \in Int : y = v * q
    OBVIOUS
  <2> QED
    BY <2>1, <1>3
<1> QED
  BY <1>1, <1>2, <1>5, <1>6

\* barrett_reduce of any word is centred.
LEMMA BarrettCentred ==
  ASSUME NEW a \in Int
  PROVE  LET b == barrett_reduce(Wrap(a))
         IN  b \in Int /\ -((Q - 1) \div 2) <= b /\ b <= (Q - 1) \div 2
<1>1. PICK e \in Int :
        /\ ((Shift + (Q \div 2)) \div Q) * Q = Shift + e
        /\ -Shift < (2 * Half) * e /\ (2 * Half) * e < Shift
  BY BarrettError
<1>2. PICK c \in Int : c = Wrap(a) /\ Fits(c)
  BY WrapForm DEF Fits
<1>3. Q <= Half
  BY KemConstants
<1>4. /\ barrett_reduce(c) \in Int
      /\ -((Q - 1) \div 2) <= barrett_reduce(c)
      /\ barrett_reduce(c) <= (Q - 1) \div 2
  BY <1>1, <1>2, <1>3, Barrett
<1> QED
  BY <1>2, <1>4

LEMMA ReducedPoly ==
  ASSUME NEW f, \A i \in Idx : f[i] \in Int
  PROVE  poly_reduce(f) \in Poly /\ Centred(poly_reduce(f))
<1>1. ASSUME NEW i \in Idx
      PROVE  /\ poly_reduce(f)[i] \in Int
             /\ -((Q - 1) \div 2) <= poly_reduce(f)[i] /\ poly_reduce(f)[i] <= (Q - 1) \div 2
  BY BarrettCentred DEF poly_reduce
<1> QED
  BY <1>1 DEF Poly, Centred, poly_reduce

\* Centred is less than Q.
LEMMA CentredBounded ==
  ASSUME NEW f \in Poly, Centred(f)
  PROVE  Bounded(f, Q) /\ Bounded(f, Q + 1)
<1>1. PICK s \in Int : s >= 0 /\ Q = (2 * s) + 1 /\ (Q - 1) \div 2 = s
  BY HalfOfQ
<1>2. \A i \in Idx : f[i] \in Int
  BY DEF Poly
<1> QED
  BY <1>1, <1>2 DEF Centred, Bounded

\* Four coefficients share an entry of zetas[].
LEMMA Quarter ==
  \E m \in Int : m > 0 /\ N = 4 * m /\ Blocks = 2 * m /\ N \div 4 = m
<1>1. PICK m \in Int : m > 0 /\ N = (2 * Lens[Layers]) * m /\ Blocks = 2 * m
  BY BlocksCount
<1>2. N = 4 * m
  BY <1>1, KemPolyAssumption
<1>3. (4 * m) \div 4 = m
  OBVIOUS
<1> QED
  BY <1>1, <1>2, <1>3

LEMMA PairZetaBound ==
  ASSUME NEW i \in Idx
  PROVE  /\ PairZeta(i) \in Int /\ -Q < PairZeta(i) /\ PairZeta(i) < Q
         /\ IF i % 2 = 0 THEN i + 1 \in Idx ELSE i - 1 \in Idx
<1>1. PICK m \in Int : m > 0 /\ N = 4 * m /\ Blocks = 2 * m /\ N \div 4 = m
  BY Quarter
<1>2. i \in Int /\ 0 <= i /\ i < 4 * m
  BY <1>1 DEF Idx
<1>3. PICK j \in Int : j = i \div 4 /\ 0 <= j /\ j < m
  BY <1>2
<1>4. m + j \in 0 .. Blocks - 1
  BY <1>1, <1>3
<1>5. PICK z \in Int : z = Zetas[m + j] /\ -Q < z /\ z < Q
  BY <1>4, ZetaBound
<1>6. PairZeta(i) = IF (i \div 2) % 2 = 0 THEN z ELSE -z
  BY <1>1, <1>3, <1>5 DEF PairZeta
<1>7. IF i % 2 = 0 THEN i + 1 \in Idx ELSE i - 1 \in Idx
  <2>1. CASE i % 2 = 0
    <3>1. i + 1 < 4 * m
      BY <1>2, <2>1
    <3> QED
      BY <3>1, <2>1, <1>1, <1>2 DEF Idx
  <2>2. CASE i % 2 # 0
    <3>1. i # 0
      BY <1>2, <2>2
    <3> QED
      BY <3>1, <2>2, <1>1, <1>2 DEF Idx
  <2> QED
    BY <2>1, <2>2
<1> QED
  BY <1>5, <1>6, <1>7, Constants

\* A product of stored and of reduced coefficients stays below 2 * Q.
LEMMA BasemulBound ==
  ASSUME NEW f, NEW g \in Poly, \A i \in Idx : f[i] \in 0 .. Stored, Bounded(g, Q), NEW i \in Idx
  PROVE  /\ basemul(f, g)[i] \in Int
         /\ -(2 * Q) < basemul(f, g)[i] /\ basemul(f, g)[i] < 2 * Q
<1>1. ASSUME NEW c \in Idx, NEW d \in Idx
      PROVE  /\ fqmul(f[c], g[d]) \in Int /\ -Q < fqmul(f[c], g[d]) /\ fqmul(f[c], g[d]) < Q
  <2>1. f[c] \in Int /\ -Half <= f[c] /\ f[c] <= Half
    BY Constants, KemConstants
  <2>2. g[d] \in Int /\ -Q < g[d] /\ g[d] < Q
    BY DEF Poly, Bounded
  <2> QED
    BY <2>1, <2>2, KemConstants, Reduced
<1>2. CASE i % 2 = 0
  <2>1. i + 1 \in Idx
    BY <1>2, PairZetaBound
  <2>2. PICK u \in Int : u = fqmul(f[i + 1], g[i + 1]) /\ -Q < u /\ u < Q
    BY <2>1, <1>1
  <2>3. PICK z \in Int : z = PairZeta(i) /\ -Q < z /\ z < Q
    BY PairZetaBound
  <2>4. -Half <= z /\ z <= Half
    BY <2>3, Constants, KemConstants
  <2>5. fqmul(u, z) \in Int /\ -Q < fqmul(u, z) /\ fqmul(u, z) < Q
    BY <2>2, <2>3, <2>4, KemConstants, Reduced
  <2>6. basemul(f, g)[i] = fqmul(u, z) + fqmul(f[i], g[i])
    BY <1>2, <2>2, <2>3 DEF basemul
  <2> QED
    BY <2>5, <2>6, <1>1, Constants
<1>3. CASE i % 2 # 0
  <2>1. i - 1 \in Idx
    BY <1>3, PairZetaBound
  <2>2. basemul(f, g)[i] = fqmul(f[i - 1], g[i]) + fqmul(f[i], g[i - 1])
    BY <1>3 DEF basemul
  <2> QED
    BY <2>1, <2>2, <1>1, Constants
<1> QED
  BY <1>2, <1>3

\* The operands and what they are bounded by.
LEMMA InputFacts ==
  ASSUME NEW n \in Inputs
  PROVE  /\ n.use \in {"keypair", "enc", "dec"}
         /\ \A q \in Vec : n.s[q] \in Poly /\ Bounded(n.s[q], Q) /\ \A i \in Idx : n.a[q][i] \in 0 .. Stored
         /\ n.e \in Poly /\ Bounded(n.e, Q + 1)
         /\ n.use = "keypair" => Bounded(n.e, Q)
<1>1. n \in Operands
  BY KemPolyAssumption
<1>2. /\ n.use \in {"keypair", "enc", "dec"} /\ n.e \in Poly
      /\ \A q \in Vec : n.s[q] \in Poly /\ \A i \in Idx : n.a[q][i] \in 0 .. Stored
  BY <1>1 DEF Operands
<1>3. \/ n.use = "keypair" /\ Sampled(n.e, Small) /\ \A q \in Vec : Sampled(n.s[q], Small)
      \/ n.use = "enc" /\ Sampled(n.e, -Eta .. Eta + ((Q + 1) \div 2))
                       /\ \A q \in Vec : Sampled(n.s[q], Small)
      \/ n.use = "dec" /\ Sampled(n.e, 0 .. Q - 1) /\ \A q \in Vec : Sampled(n.s[q], 0 .. Q - 1)
  BY KemPolyAssumption
<1>4. ASSUME NEW f \in Poly, Sampled(f, Small) PROVE Bounded(f, Q) /\ Bounded(f, Q + 1)
  BY <1>4, KemConstants, Constants DEF Sampled, Small, Bounded, Poly
<1>5. ASSUME NEW f \in Poly, Sampled(f, 0 .. Q - 1) PROVE Bounded(f, Q) /\ Bounded(f, Q + 1)
  BY <1>5, KemConstants, Constants DEF Sampled, Bounded, Poly
<1>6. ASSUME NEW f \in Poly, Sampled(f, -Eta .. Eta + ((Q + 1) \div 2)) PROVE Bounded(f, Q + 1)
  <2>1. PICK c \in Int : c = Eta + ((Q + 1) \div 2) /\ c <= Q
    <3>1. PICK q \in Int : q = Q + 1
      BY Constants
    <3>2. q \div 2 \in Int
      BY <3>1
    <3> QED
      BY <3>1, <3>2, KemConstants
  <2>2. \A i \in Idx : f[i] \in -Eta .. c
    BY <2>1, <1>6 DEF Sampled
  <2> QED
    BY <2>1, <2>2, KemConstants, Constants DEF Bounded, Poly
<1>7. CASE n.use = "keypair"
  BY <1>2, <1>3, <1>4, <1>7
<1>8. CASE n.use = "enc"
  BY <1>2, <1>3, <1>4, <1>6, <1>8
<1>9. CASE n.use = "dec"
  BY <1>2, <1>3, <1>5, <1>9
<1> QED
  BY <1>2, <1>7, <1>8, <1>9

THEOREM InitInv == Init => IInv
<1> SUFFICES ASSUME Init PROVE IInv
  OBVIOUS
<1>1. /\ in \in Inputs /\ pc = "ntt" /\ p = 0 /\ layer = 1 /\ start = 0 /\ k = 1 /\ r = in.s[0]
      /\ x = [q \in 0 .. K |-> IF q = K THEN in.e ELSE in.s[q]]
  BY DEF Init
<1>2. 0 \in Vec /\ 0 \in 0 .. K /\ K \notin Vec /\ \A q \in 0 .. K : q # K => q \in Vec
  BY KemConstants DEF Vec
<1>3. r \in Poly /\ Bounded(r, Q)
  BY <1>1, <1>2, InputFacts
<1>4. x \in [0 .. K -> Poly]
  BY <1>1, <1>2, InputFacts
<1>5. TypeOK
  BY <1>1, <1>2, <1>3, <1>4 DEF TypeOK
<1>6. Placed
  BY <1>1, Beginning, NttConstants DEF Placed
<1>7. ForwardRoot
  BY <1>1, Beginning DEF ForwardRoot
<1>8. ForwardRange
  <2>1. ASSUME NEW i \in Idx PROVE -(1 * Q) < r[i] /\ r[i] < 1 * Q /\ ~(i < 0)
    BY <1>3, Constants DEF Bounded, Idx
  <2> QED
    BY <1>1, <2>1 DEF ForwardRange
<1>9. ASSUME NEW q \in 0 .. K
      PROVE  IF Transformed(q) THEN Bounded(x[q], Q) /\ q >= 0 ELSE Bounded(x[q], Q + 1)
  <2>1. CASE q = K
    BY <2>1, <1>1, <1>2, InputFacts, KemConstants DEF Transformed
  <2>2. CASE q # K
    BY <2>2, <1>1, <1>2, InputFacts DEF Transformed
  <2> QED
    BY <2>1, <2>2
<1>10. Ranges
  BY <1>1, <1>2, <1>7, <1>8, <1>9 DEF Ranges, Transformed
<1> QED
  BY <1>5, <1>6, <1>10 DEF IInv

LEMMA NttBlockInv ==
  ASSUME IInv, NttBlock
  PROVE  IInv'
<1>1. pc = "ntt" /\ ForwardBlock /\ UNCHANGED <<in, x, pc, p>>
  BY DEF NttBlock
<1>2. TypeOK /\ Placed /\ Transformed(p) /\ ForwardRoot /\ ForwardRange /\ r \in Poly
  BY <1>1 DEF IInv, Ranges, TypeOK
<1>3. layer \in 1 .. Layers
  BY <1>1, <1>2, NttConstants DEF ForwardRange, ForwardBlock, Placed
<1>4. r' \in Poly /\ Placed' /\ ForwardRoot' /\ ForwardRange'
  BY <1>1, <1>2, <1>3, KemConstants, ForwardStep
<1>5. TypeOK'
  BY <1>1, <1>2, <1>4 DEF TypeOK, Poly, Idx
<1>6. Ranges'
  <2>1. \A q \in 0 .. K :
          IF Transformed(q) THEN IF q >= p THEN Bounded(x[q], Q) ELSE Centred(x[q])
          ELSE Bounded(x[q], Q + 1)
    BY <1>1 DEF IInv, Ranges
  <2>2. \A q \in 0 .. K : Transformed(q)' <=> Transformed(q)
    BY <1>1 DEF Transformed, Vec
  <2>3. Transformed(p)'
    BY <1>1, <1>2 DEF Transformed, Vec
  <2> QED
    BY <1>1, <1>4, <2>1, <2>2, <2>3 DEF Ranges, Bounded, Centred, Idx
<1> QED
  BY <1>4, <1>5, <1>6 DEF IInv

LEMMA NttDoneInv ==
  ASSUME IInv, NttDone
  PROVE  IInv'
<1> DEFINE last == IF in.use = "keypair" THEN K ELSE K - 1
<1>1. /\ pc = "ntt" /\ layer > Layers /\ UNCHANGED in
      /\ x' = [x EXCEPT ![p] = poly_reduce(r)]
      /\ p' = IF p < last THEN p + 1 ELSE 0
      /\ pc' = IF p' = 0 THEN "acc" ELSE "ntt"
      /\ Enter(1, 1, IF p' = 0 THEN r ELSE x[p'])
  BY DEF NttDone
<1>2. TypeOK /\ Placed /\ Transformed(p) /\ r \in Poly /\ x \in [0 .. K -> Poly] /\ p \in 0 .. K
  BY <1>1 DEF IInv, Ranges, TypeOK
<1>3. poly_reduce(r) \in Poly /\ Centred(poly_reduce(r))
  BY <1>2, IntPoly, ReducedPoly
<1>4. /\ x' \in [0 .. K -> Poly] /\ x'[p] = poly_reduce(r)
      /\ \A q \in 0 .. K : q # p => x'[q] = x[q]
  BY <1>1, <1>2, <1>3
<1>5. \A q \in 0 .. K : Transformed(q)' <=> Transformed(q)
  BY <1>1 DEF Transformed, Vec
<1>6. \A q \in 0 .. K :
        IF Transformed(q) THEN IF q >= p THEN Bounded(x[q], Q) ELSE Centred(x[q])
        ELSE Bounded(x[q], Q + 1)
  BY <1>1 DEF IInv, Ranges
<1>7. last \in Int /\ p <= last /\ last <= K /\ \A q \in 0 .. K : Transformed(q) <=> q <= last
  BY <1>2, KemConstants DEF Transformed, Vec
<1>8. in' \in Inputs
  BY <1>1, <1>2 DEF TypeOK
<1>9. CASE p < last
  <2>1. p' = p + 1 /\ p' # 0 /\ pc' = "ntt" /\ p + 1 \in 0 .. K /\ Enter(1, 1, x[p + 1])
    <3>1. p' = p + 1 /\ p + 1 # 0 /\ p + 1 # p /\ p + 1 \in 0 .. K
      BY <1>1, <1>2, <1>7, <1>9, KemConstants
    <3>2. pc' = "ntt" /\ Enter(1, 1, x'[p + 1])
      BY <3>1, <1>1
    <3>3. x'[p + 1] = x[p + 1]
      BY <3>1, <1>4
    <3> QED
      BY <3>1, <3>2, <3>3
  <2>2. x[p + 1] \in Poly /\ Bounded(x[p + 1], Q)
    BY <1>2, <1>6, <1>7, <1>9, <2>1
  <2>3. r' \in Poly /\ Placed' /\ ForwardRoot' /\ ForwardRange'
    BY <2>1, <2>2, EnterForward
  <2>4. TypeOK'
    BY <1>4, <1>8, <2>1, <2>3 DEF TypeOK, Poly, Idx
  <2>5. \A q \in 0 .. K :
          IF Transformed(q)' THEN IF q >= p' THEN Bounded(x'[q], Q) ELSE Centred(x'[q])
          ELSE Bounded(x'[q], Q + 1)
    <3> SUFFICES ASSUME NEW q \in 0 .. K
                 PROVE  IF Transformed(q)' THEN IF q >= p' THEN Bounded(x'[q], Q) ELSE Centred(x'[q])
                        ELSE Bounded(x'[q], Q + 1)
      OBVIOUS
    <3>1. CASE q = p
      BY <3>1, <1>2, <1>3, <1>4, <1>5, <2>1
    <3>2. CASE q # p
      BY <3>2, <1>2, <1>4, <1>5, <1>6, <2>1
    <3> QED
      BY <3>1, <3>2
  <2>6. Transformed(p)'
    <3>1. Transformed(p + 1)
      BY <2>1, <1>2, <1>7, <1>9
    <3> QED
      BY <3>1, <2>1, <1>1 DEF Transformed
  <2>7. Ranges'
    BY <2>1, <2>3, <2>5, <2>6 DEF Ranges, Bounded, Centred, Idx
  <2> QED
    BY <2>3, <2>4, <2>7 DEF IInv
<1>10. CASE ~(p < last)
  <2>1. p' = 0 /\ pc' = "acc" /\ Enter(1, 1, r) /\ p = last
    BY <1>1, <1>2, <1>7, <1>10
  <2>2. r' = r /\ layer' = 1 /\ start' = 0 /\ k' = 1
    BY <2>1 DEF Enter
  <2>3. Placed'
    <3>1. layer' \in 0 .. Layers + 1 /\ start' \in 0 .. N - 1 /\ k' \in 0 .. Blocks
      BY <2>2, Beginning, NttConstants
    <3>2. layer' \in 1 .. Layers => \E b \in 0 .. N : start' = (2 * Lens[layer']) * b
      BY <2>2, Beginning
    <3> QED
      BY <3>1, <3>2 DEF Placed, Blocks, Layers
  <2>4. TypeOK'
    BY <1>2, <1>4, <1>8, <2>1, <2>2, KemConstants DEF TypeOK, Poly, Idx
  <2>5. \A q \in 0 .. K : IF Transformed(q)' THEN Centred(x'[q]) ELSE Bounded(x'[q], Q + 1)
    <3> SUFFICES ASSUME NEW q \in 0 .. K
                 PROVE  IF Transformed(q)' THEN Centred(x'[q]) ELSE Bounded(x'[q], Q + 1)
      OBVIOUS
    <3>1. CASE q = p
      BY <3>1, <1>2, <1>3, <1>4, <1>5
    <3>2. CASE q # p
      BY <3>2, <1>2, <1>4, <1>5, <1>6, <1>7, <2>1
    <3> QED
      BY <3>1, <3>2
  <2>6. Ranges'
    BY <2>1, <2>5 DEF Ranges, Bounded, Centred, Idx
  <2> QED
    BY <2>3, <2>4, <2>6 DEF IInv
<1> QED
  BY <1>9, <1>10

\* The sum of products, before it is cut to 16 bits.
LEMMA AccumulatedBound ==
  ASSUME IInv, pc = "acc", p < K, NEW i \in Idx
  PROVE  /\ basemul(in.a[p], x[p])[i] \in Int /\ Fits(basemul(in.a[p], x[p])[i])
         /\ Accumulated[i] \in Int /\ Fits(Accumulated[i])
         /\ -((2 * (p + 1)) * Q) < Accumulated[i] /\ Accumulated[i] < (2 * (p + 1)) * Q
<1>1. p \in Vec /\ p \in 0 .. K /\ in \in Inputs /\ x[p] \in Poly /\ r[i] \in Int
  BY KemConstants DEF IInv, TypeOK, Vec, Poly
<1>2. Bounded(x[p], Q)
  <2>1. Centred(x[p])
    BY <1>1 DEF IInv, Ranges, Transformed
  <2> QED
    BY <2>1, <1>1, CentredBounded
<1>3. \A j \in Idx : in.a[p][j] \in 0 .. Stored
  BY <1>1, InputFacts
<1>4. PICK b \in Int : b = basemul(in.a[p], x[p])[i] /\ -(2 * Q) < b /\ b < 2 * Q
  BY <1>1, <1>2, <1>3, BasemulBound
<1>5. PICK q \in Int, h \in Int, n \in Int, kk \in Int :
        q = Q /\ q > 0 /\ h = Half /\ n = p /\ n >= 0 /\ kk = K /\ n < kk /\ 2 * q <= h
  BY <1>1, Constants, KemConstants
<1>6. Fits(b)
  BY <1>4, <1>5 DEF Fits
<1>7. Accumulated[i] = (IF p = 0 THEN 0 ELSE r[i]) + b
  BY <1>4, <1>6, WrapFits DEF Accumulated
<1>8. (2 * (n + 1)) * q <= h
  <2>1. (2 * (n + 1)) * q <= (2 * kk) * q
    BY <1>5
  <2>2. PICK y \in Int, z \in Int : y = (2 * (n + 1)) * q /\ z = (2 * kk) * q
    OBVIOUS
  <2>3. z <= h
    BY <1>5, <2>2, KemConstants
  <2> QED
    BY <2>1, <2>2, <2>3
<1>9. PICK y \in Int : y = (2 * n) * q /\ (2 * (n + 1)) * q = y + (2 * q)
  <2>1. (2 * (n + 1)) * q = ((2 * n) * q) + (2 * q)
    OBVIOUS
  <2> QED
    BY <2>1
<1>10. PICK c \in Int : c = (IF p = 0 THEN 0 ELSE r[i]) /\ -y <= c /\ c <= y
  <2>1. CASE p = 0
    BY <2>1, <1>5, <1>9
  <2>2. CASE p # 0
    <3>1. Bounded(r, (2 * p) * Q)
      BY <2>2, <1>5 DEF IInv, Ranges
    <3>2. -y < r[i] /\ r[i] < y
      BY <3>1, <1>5, <1>9 DEF Bounded
    <3> QED
      BY <3>2, <2>2, <1>1
  <2> QED
    BY <2>1, <2>2
<1>11. Accumulated[i] = c + b /\ -(y + (2 * q)) < c + b /\ c + b < y + (2 * q)
  BY <1>4, <1>5, <1>7, <1>10
<1>12. y + (2 * q) <= h
  BY <1>8, <1>9
<1>13. (2 * (p + 1)) * Q = y + (2 * q)
  BY <1>5, <1>9
<1> QED
  BY <1>4, <1>5, <1>6, <1>11, <1>12, <1>13 DEF Fits

\* Outside the forward transform the transformed operands are centred, and
\* keep being so while nothing touches them.
LEMMA OperandsKept ==
  ASSUME IInv, pc # "ntt", pc' # "ntt", UNCHANGED <<in, x>>
  PROVE  /\ in' \in Inputs /\ x' \in [0 .. K -> Poly]
         /\ \A q \in 0 .. K : (IF Transformed(q) THEN Centred(x[q]) ELSE Bounded(x[q], Q + 1))'
<1>1. \A q \in 0 .. K : IF Transformed(q) THEN Centred(x[q]) ELSE Bounded(x[q], Q + 1)
  BY DEF IInv, Ranges
<1> QED
  BY <1>1 DEF IInv, TypeOK, Transformed, Vec, Centred, Bounded, Idx, Poly

LEMMA AccInv ==
  ASSUME IInv, Acc
  PROVE  IInv'
<1>1. /\ pc = "acc" /\ p < K /\ r' = Keep(Accumulated) /\ p' = p + 1
      /\ UNCHANGED <<in, x, pc, layer, start, k>>
  BY DEF Acc
<1>2. \A i \in Idx : /\ Accumulated[i] \in Int /\ Wrap(Accumulated[i]) = Accumulated[i]
                     /\ -((2 * (p + 1)) * Q) < Accumulated[i] /\ Accumulated[i] < (2 * (p + 1)) * Q
  BY <1>1, AccumulatedBound, WrapFits
<1>3. r' \in Poly /\ \A i \in Idx : r'[i] = Accumulated[i]
  BY <1>1, <1>2 DEF Keep, Poly
<1>4. TypeOK'
  <2>1. p' \in 0 .. K
    BY <1>1, KemConstants DEF IInv, TypeOK
  <2> QED
    BY <1>1, <1>3, <2>1, OperandsKept DEF IInv, TypeOK, Poly, Idx
<1>5. Placed'
  BY <1>1 DEF IInv, Placed, Layers, Blocks
<1>6. Ranges'
  BY <1>1, <1>2, <1>3, OperandsKept DEF Ranges, Bounded, Idx
<1> QED
  BY <1>4, <1>5, <1>6 DEF IInv

LEMMA AccDoneInv ==
  ASSUME IInv, AccDone
  PROVE  IInv'
<1>1. /\ pc = "acc" /\ pc' \in {"tomont", "inv"}
      /\ Enter(Layers, Blocks - 1, poly_reduce(r)) /\ UNCHANGED <<in, x, p>>
  BY DEF AccDone
<1>2. poly_reduce(r) \in Poly /\ Bounded(poly_reduce(r), Q)
  <2>1. \A i \in Idx : r[i] \in Int
    BY IntPoly DEF IInv, TypeOK
  <2> QED
    BY <2>1, ReducedPoly, CentredBounded
<1>3. r' = poly_reduce(r) /\ Placed' /\ InverseRoot' /\ layer' <= Layers
  BY <1>1, <1>2, EnterInverse
<1>4. TypeOK'
  BY <1>1, <1>2, <1>3, OperandsKept DEF IInv, TypeOK, Poly, Idx
<1>5. Ranges'
  BY <1>1, <1>2, <1>3, OperandsKept DEF Ranges, Bounded, Idx, Layers
<1> QED
  BY <1>3, <1>4, <1>5 DEF IInv

\* A product with a constant below Q.
LEMMA ConstantProduct ==
  ASSUME NEW c \in Int, 0 <= c, c < Q, NEW f \in Poly, Bounded(f, Q), NEW i \in Idx
  PROVE  fqmul(f[i], c) \in Int /\ -Q < fqmul(f[i], c) /\ fqmul(f[i], c) < Q
<1>1. f[i] \in Int /\ -Q < f[i] /\ f[i] < Q
  BY DEF Poly, Bounded
<1>2. -Half <= c /\ c <= Half
  BY Constants, KemConstants
<1> QED
  BY <1>1, <1>2, KemConstants, Reduced

LEMMA ToMontInv ==
  ASSUME IInv, poly_tomont
  PROVE  IInv'
<1>1. /\ pc = "tomont" /\ pc' = "add" /\ r' = [i \in Idx |-> fqmul(r[i], Mont2)]
      /\ UNCHANGED <<in, x, p, layer, start, k>>
  BY DEF poly_tomont
<1>2. r \in Poly /\ Bounded(r, Q)
  BY <1>1 DEF IInv, TypeOK, Ranges
<1>3. \A i \in Idx : fqmul(r[i], Mont2) \in Int /\ -Q < fqmul(r[i], Mont2) /\ fqmul(r[i], Mont2) < Q
  BY <1>2, KemConstants, ConstantProduct
<1>4. r' \in Poly /\ \A i \in Idx : -Q < r'[i] /\ r'[i] < Q
  BY <1>1, <1>3 DEF Poly
<1>5. TypeOK' /\ Placed'
  BY <1>1, <1>4, OperandsKept DEF IInv, TypeOK, Placed, Layers, Blocks, Poly, Idx
<1>6. Ranges'
  BY <1>1, <1>4, OperandsKept DEF Ranges, Bounded, Idx
<1> QED
  BY <1>5, <1>6 DEF IInv

\* What a block of the inverse transform adds and subtracts.
LEMMA DifferencesBound ==
  ASSUME IInv, pc = "inv", layer > 0, NEW i \in Idx
  PROVE  /\ Differences[i] \in Int /\ Fits(Differences[i])
         /\ layer \in 1 .. Layers
<1>1. Placed /\ layer \in 1 .. Layers /\ Bounded(r, Q) /\ r \in Poly
  BY NttConstants DEF IInv, Ranges, TypeOK, Placed
<1>2. PICK q \in Int, h \in Int : q = Q /\ q > 0 /\ h = Half /\ 2 * q <= h
  BY Constants, KemConstants
<1>3. \A j \in Idx : r[j] \in Int /\ -q < r[j] /\ r[j] < q
  BY <1>1, <1>2 DEF Bounded, Poly
<1>4. CASE Lower(i)
  <2>1. i + Lens[layer] \in Idx /\ Differences[i] = r[i] + r[i + Lens[layer]]
    BY <1>1, <1>4, BlockIndices DEF Differences
  <2> QED
    BY <2>1, <1>1, <1>2, <1>3 DEF Fits
<1>5. CASE Upper(i)
  <2>1. i - Lens[layer] \in Idx /\ Differences[i] = r[i] - r[i - Lens[layer]]
    BY <1>1, <1>5, BlockIndices DEF Differences
  <2> QED
    BY <2>1, <1>1, <1>2, <1>3 DEF Fits
<1>6. CASE ~Lower(i) /\ ~Upper(i)
  <2>1. Differences[i] = r[i]
    BY <1>6 DEF Differences
  <2> QED
    BY <2>1, <1>1, <1>2, <1>3 DEF Fits
<1> QED
  BY <1>4, <1>5, <1>6

LEMMA InverseBlockInv ==
  ASSUME IInv, InverseBlock
  PROVE  IInv'
<1>1. /\ pc = "inv" /\ layer > 0 /\ Advance(-1) /\ UNCHANGED <<in, x, pc, p>>
      /\ r' = [i \in Idx |-> IF Lower(i) THEN barrett_reduce(Wrap(Differences[i]))
                             ELSE IF Upper(i) THEN fqmul(Zetas[k], Wrap(Differences[i]))
                             ELSE r[i]]
  BY DEF InverseBlock
<1>2. Placed /\ InverseRoot /\ Bounded(r, Q) /\ r \in Poly /\ layer \in 1 .. Layers
  BY <1>1, NttConstants DEF IInv, Ranges, TypeOK, Placed
<1>3. Placed' /\ InverseRoot' /\ layer' <= Layers
  BY <1>1, <1>2, InverseStep
<1>4. PICK z \in Int : z = Zetas[k] /\ -Q < z /\ z < Q
  <2>1. k \in 0 .. Blocks - 1
    BY <1>1, <1>2, RootInTable DEF InverseRoot, Placed
  <2> QED
    BY <2>1, ZetaBound
<1>5. ASSUME NEW i \in Idx
      PROVE  r'[i] \in Int /\ -Q < r'[i] /\ r'[i] < Q
  <2>1. PICK d \in Int : d = Differences[i] /\ Wrap(d) = d /\ -Half <= d /\ d <= Half
    BY <1>1, DifferencesBound, WrapFits, Constants DEF Fits
  <2>2. CASE Lower(i)
    <3>1. PICK s \in Int : s >= 0 /\ Q = (2 * s) + 1 /\ (Q - 1) \div 2 = s
      BY HalfOfQ
    <3>2. r'[i] = barrett_reduce(Wrap(d))
      BY <1>1, <2>1, <2>2
    <3>3. /\ barrett_reduce(Wrap(d)) \in Int
          /\ -((Q - 1) \div 2) <= barrett_reduce(Wrap(d))
          /\ barrett_reduce(Wrap(d)) <= (Q - 1) \div 2
      BY BarrettCentred
    <3> QED
      BY <3>1, <3>2, <3>3
  <2>3. CASE Upper(i)
    <3>1. r'[i] = fqmul(z, d)
      BY <1>1, <1>2, <1>4, <2>1, <2>3, BlockIndices
    <3> QED
      BY <3>1, <1>4, <2>1, KemConstants, Reduced
  <2>4. CASE ~Lower(i) /\ ~Upper(i)
    BY <1>1, <1>2, <2>4 DEF Bounded, Poly
  <2> QED
    BY <2>2, <2>3, <2>4
<1>6. r' \in Poly
  BY <1>1, <1>5 DEF Poly
<1>7. TypeOK'
  BY <1>1, <1>6, OperandsKept DEF IInv, TypeOK, Poly, Idx
<1>8. Ranges'
  BY <1>1, <1>3, <1>5, OperandsKept DEF Ranges, Bounded, Idx, Layers
<1> QED
  BY <1>3, <1>7, <1>8 DEF IInv

LEMMA InverseDoneInv ==
  ASSUME IInv, InverseDone
  PROVE  IInv'
<1>1. /\ pc = "inv" /\ pc' = "add" /\ r' = [i \in Idx |-> fqmul(r[i], F)]
      /\ UNCHANGED <<in, x, p, layer, start, k>>
  BY DEF InverseDone
<1>2. r \in Poly /\ Bounded(r, Q)
  BY <1>1 DEF IInv, TypeOK, Ranges
<1>3. \A i \in Idx : fqmul(r[i], F) \in Int /\ -Q < fqmul(r[i], F) /\ fqmul(r[i], F) < Q
  BY <1>2, KemConstants, ConstantProduct
<1>4. r' \in Poly /\ \A i \in Idx : -Q < r'[i] /\ r'[i] < Q
  BY <1>1, <1>3 DEF Poly
<1>5. TypeOK' /\ Placed'
  BY <1>1, <1>4, OperandsKept DEF IInv, TypeOK, Placed, Layers, Blocks, Poly, Idx
<1>6. Ranges'
  BY <1>1, <1>4, OperandsKept DEF Ranges, Bounded, Idx
<1> QED
  BY <1>5, <1>6 DEF IInv

\* The last sum or difference.
LEMMA AddedBound ==
  ASSUME IInv, pc = "add", NEW i \in Idx
  PROVE  Added[i] \in Int /\ Fits(Added[i])
<1>1. r[i] \in Int /\ -Q < r[i] /\ r[i] < Q
  BY DEF IInv, TypeOK, Ranges, Bounded, Poly
<1>2. K \in 0 .. K /\ x[K] \in Poly
  BY KemConstants DEF IInv, TypeOK
<1>3. x[K][i] \in Int /\ -(Q + 1) < x[K][i] /\ x[K][i] < Q + 1
  <2>1. Bounded(x[K], Q + 1)
    BY <1>2, CentredBounded DEF IInv, Ranges
  <2> QED
    BY <2>1, <1>2 DEF Bounded, Poly
<1>4. Added[i] = IF in.use = "dec" THEN x[K][i] - r[i] ELSE r[i] + x[K][i]
  BY DEF Added
<1> QED
  BY <1>1, <1>3, <1>4, Constants, KemConstants DEF Fits

LEMMA AddReduceInv ==
  ASSUME IInv, AddReduce
  PROVE  IInv'
<1>1. pc = "add" /\ pc' = "done" /\ r' = poly_reduce(Added) /\ UNCHANGED <<in, x, p, layer, start, k>>
  BY DEF AddReduce
<1>2. r' \in Poly /\ Centred(r')
  BY <1>1, AddedBound, ReducedPoly
<1>3. TypeOK' /\ Placed'
  BY <1>1, <1>2, OperandsKept DEF IInv, TypeOK, Placed, Layers, Blocks, Poly, Idx
<1>4. Ranges'
  BY <1>1, <1>2, OperandsKept DEF Ranges, Centred, Bounded, Idx
<1> QED
  BY <1>3, <1>4 DEF IInv

\* The transforms, products and sums keep their places, roots and ranges.
THEOREM KemPolyInv == Spec => []IInv
<1>1. Init => IInv
  BY InitInv
<1>2. IInv /\ [Next]_vars => IInv'
  <2> SUFFICES ASSUME IInv, [Next]_vars PROVE IInv'
    OBVIOUS
  <2>1. CASE Next
    BY <2>1, NttBlockInv, NttDoneInv, AccInv, AccDoneInv, ToMontInv, InverseBlockInv,
       InverseDoneInv, AddReduceInv DEF Next
  <2>2. CASE UNCHANGED vars
    BY <2>2 DEF vars, IInv, TypeOK, Placed, Ranges, ForwardRoot, InverseRoot, ForwardRange,
                Bounded, Centred, Transformed, Poly, Idx, Vec, Layers, Blocks
  <2> QED
    BY <2>1, <2>2
<1> QED
  BY <1>1, <1>2, PTL DEF Spec

\* No sum or difference of coefficients leaves int16_t, at any of the lazy
\* additions of ntt, basemul, invntt and poly_add.
THEOREM KemNoOverflow == Spec => []NoOverflow
<1>1. IInv => NoOverflow
  <2> SUFFICES ASSUME IInv PROVE NoOverflow
    OBVIOUS
  <2>1. ASSUME pc = "acc", p < K, NEW i \in Idx PROVE Fits(basemul(in.a[p], x[p])[i])
    BY <2>1, AccumulatedBound
  <2>2. ASSUME NEW i \in Idx PROVE Fits(Sums[i])
    <3>1. CASE pc = "ntt" /\ layer <= Layers
      <4>1. layer \in 1 .. Layers
        BY <3>1, NttConstants DEF IInv, Ranges, ForwardRange, Placed
      <4>2. Fits(Forward[i])
        BY <3>1, <4>1, ForwardFits, KemConstants DEF IInv, Ranges, TypeOK
      <4> QED
        BY <3>1, <4>2 DEF Sums
    <3>2. CASE pc = "acc" /\ p < K
      BY <3>2, AccumulatedBound DEF Sums
    <3>3. CASE pc = "inv" /\ layer > 0
      BY <3>3, DifferencesBound DEF Sums
    <3>4. CASE pc = "add"
      BY <3>4, AddedBound DEF Sums
    <3>5. CASE /\ ~(pc = "ntt" /\ layer <= Layers) /\ ~(pc = "acc" /\ p < K)
               /\ ~(pc = "inv" /\ layer > 0) /\ pc # "add"
      <4>1. Sums[i] = 0
        BY <3>5 DEF Sums
      <4> QED
        BY <4>1, Constants DEF Fits
    <3> QED
      BY <3>1, <3>2, <3>3, <3>4, <3>5
  <2> QED
    BY <2>1, <2>2 DEF NoOverflow
<1> QED
  BY <1>1, KemPolyInv, PTL

\* What is packed or compressed is centred.
THEOREM KemPacked == Spec => []Packed
<1>1. IInv => Packed
  BY DEF IInv, Ranges, Packed
<1> QED
  BY <1>1, KemPolyInv, PTL

-----------------------------------------------------------------------------
\* Compression and packing.

\* The eight bits of a byte put together are its bits again.
LEMMA BitOfBits ==
  ASSUME NEW b \in [0 .. 7 -> 0 .. 1]
  PROVE  \A o \in 0 .. 7 : Bit(FromBits(8, b), o) = b[o]
<1>1. PICK b0, b1, b2, b3, b4, b5, b6, b7 \in 0 .. 1 :
        /\ b[0] = b0 /\ b[1] = b1 /\ b[2] = b2 /\ b[3] = b3
        /\ b[4] = b4 /\ b[5] = b5 /\ b[6] = b6 /\ b[7] = b7
  OBVIOUS
<1>2. PICK v \in Int :
        v = b0 + (2 * b1) + (4 * b2) + (8 * b3)
              + (16 * b4) + (32 * b5) + (64 * b6) + (128 * b7)
  OBVIOUS
<1>3. FromBits(8, b) = v
  BY <1>1, <1>2 DEF FromBits, TwoTo
<1>4. /\ (v \div 1) % 2 = b0 /\ (v \div 2) % 2 = b1 /\ (v \div 4) % 2 = b2 /\ (v \div 8) % 2 = b3
  BY <1>2
<1>5. /\ (v \div 16) % 2 = b4 /\ (v \div 32) % 2 = b5
      /\ (v \div 64) % 2 = b6 /\ (v \div 128) % 2 = b7
  BY <1>2
<1>6. \A o \in 0 .. 7 : Bit(v, o) = b[o]
  BY <1>1, <1>4, <1>5 DEF Bit, TwoTo
<1> QED
  BY <1>3, <1>6

\* A number below 2^d is made of its d bits.
LEMMA BitsOf ==
  ASSUME NEW d \in {1, 4, 5, 10, 11, 12}, NEW v \in 0 .. TwoTo(d) - 1
  PROVE  FromBits(d, [b \in 0 .. d - 1 |-> Bit(v, b)]) = v
<1>1. PICK z0 \in Int : z0 = v /\ 0 <= z0 /\ z0 < TwoTo(d)
  BY DEF TwoTo
<1>2. PICK x1, x2, x3, x4, x5, x6, x7, x8, x9, x10, x11 \in Int :
        /\ x1 = z0 \div 2 /\ x2 = z0 \div 4 /\ x3 = z0 \div 8 /\ x4 = z0 \div 16
        /\ x5 = z0 \div 32 /\ x6 = z0 \div 64 /\ x7 = z0 \div 128 /\ x8 = z0 \div 256
        /\ x9 = z0 \div 512 /\ x10 = z0 \div 1024 /\ x11 = z0 \div 2048
  OBVIOUS
<1>3. /\ Bit(v, 0) = z0 - (2 * x1) /\ Bit(v, 1) = x1 - (2 * x2) /\ Bit(v, 2) = x2 - (2 * x3)
      /\ Bit(v, 3) = x3 - (2 * x4)
  BY <1>1, <1>2 DEF Bit, TwoTo
<1>4. /\ Bit(v, 4) = x4 - (2 * x5) /\ Bit(v, 5) = x5 - (2 * x6)
      /\ Bit(v, 6) = x6 - (2 * x7) /\ Bit(v, 7) = x7 - (2 * x8)
  BY <1>1, <1>2 DEF Bit, TwoTo
<1>5. /\ Bit(v, 8) = x8 - (2 * x9) /\ Bit(v, 9) = x9 - (2 * x10) /\ Bit(v, 10) = x10 - (2 * x11)
  BY <1>1, <1>2 DEF Bit, TwoTo
<1>6. CASE d = 1
  BY <1>1, <1>2, <1>3, <1>6 DEF FromBits, TwoTo
<1>7. CASE d = 4
  <2>1. x4 = 0
    BY <1>1, <1>2, <1>7 DEF TwoTo
  <2>2. FromBits(4, [b \in 0 .. 3 |-> Bit(v, b)]) = z0 - (16 * x4)
    BY <1>3 DEF FromBits, TwoTo
  <2> QED
    BY <1>1, <1>7, <2>1, <2>2
<1>8. CASE d = 5
  <2>1. x5 = 0
    BY <1>1, <1>2, <1>8 DEF TwoTo
  <2>2. FromBits(5, [b \in 0 .. 4 |-> Bit(v, b)]) = z0 - (32 * x5)
    BY <1>3, <1>4 DEF FromBits, TwoTo
  <2> QED
    BY <1>1, <1>8, <2>1, <2>2
<1>9. CASE d = 10
  <2>1. x10 = 0
    BY <1>1, <1>2, <1>9 DEF TwoTo
  <2>2. FromBits(10, [b \in 0 .. 9 |-> Bit(v, b)]) = z0 - (1024 * x10)
    BY <1>3, <1>4, <1>5 DEF FromBits, TwoTo
  <2> QED
    BY <1>1, <1>9, <2>1, <2>2
<1>10. CASE d = 11
  <2>1. x11 = 0
    BY <1>1, <1>2, <1>10 DEF TwoTo
  <2>2. FromBits(11, [b \in 0 .. 10 |-> Bit(v, b)]) = z0 - (2048 * x11)
    BY <1>3, <1>4, <1>5 DEF FromBits, TwoTo
  <2> QED
    BY <1>1, <1>10, <2>1, <2>2
<1>11. CASE d = 12
  <2>1. Bit(v, 11) = x11
    BY <1>1, <1>2, <1>11 DEF Bit, TwoTo
  <2> QED
    BY <1>1, <1>2, <1>3, <1>4, <1>5, <1>11, <2>1 DEF FromBits, TwoTo
<1> QED
  BY <1>6, <1>7, <1>8, <1>9, <1>10, <1>11

\* Position n of the stream is bit n % d of coefficient n \div d.
LEMMA Position ==
  ASSUME NEW d \in {1, 4, 5, 10, 11, 12}
  PROVE  /\ \A n \in 0 .. (8 * d) - 1 : n \div d \in Group /\ n % d \in 0 .. d - 1
         /\ \A i \in Group, b \in 0 .. d - 1 :
              /\ (d * i) + b \in 0 .. (8 * d) - 1
              /\ ((d * i) + b) \div d = i /\ ((d * i) + b) % d = b
<1>1. CASE d = 1
  BY <1>1 DEF Group
<1>2. CASE d = 4
  BY <1>2 DEF Group
<1>3. CASE d = 5
  BY <1>3 DEF Group
<1>4. CASE d = 10
  BY <1>4 DEF Group
<1>5. CASE d = 11
  BY <1>5 DEF Group
<1>6. CASE d = 12
  BY <1>6 DEF Group
<1> QED
  BY <1>1, <1>2, <1>3, <1>4, <1>5, <1>6

\* A bit is 0 or 1.
LEMMA BitIs ==
  ASSUME NEW v \in Int, NEW n \in 0 .. 11
  PROVE  Bit(v, n) \in 0 .. 1
<1>1. PICK pow \in Int : pow = TwoTo(n) /\ pow > 0
  BY DEF TwoTo
<1>2. PICK w \in Int : w = v \div pow
  BY <1>1
<1> QED
  BY <1>1, <1>2 DEF Bit

\* What the sender packs the receiver unpacks.
LEMMA Unpacked ==
  ASSUME NEW d \in {1, 4, 5, 10, 11, 12}, NEW t \in [Group -> 0 .. TwoTo(d) - 1]
  PROVE  unpack(d, pack(d, t)) = t
<1>1. d \in 1 .. 12
  OBVIOUS
<1>2. \A i \in Group : t[i] \in Int
  <2>1. TwoTo(d) \in Int
    BY DEF TwoTo
  <2> QED
    BY <2>1
<1>3. \A j \in 0 .. d - 1, o \in 0 .. 7 :
        Bit(pack(d, t)[j], o) = Bit(t[((8 * j) + o) \div d], ((8 * j) + o) % d)
  <2>1. TAKE j \in 0 .. d - 1, o \in 0 .. 7
  <2>2. DEFINE bits == [b \in 0 .. 7 |-> Bit(t[((8 * j) + b) \div d], ((8 * j) + b) % d)]
  <2>3. \A b \in 0 .. 7 : (8 * j) + b \in 0 .. (8 * d) - 1
    BY <1>1
  <2>4. \A b \in 0 .. 7 : Bit(t[((8 * j) + b) \div d], ((8 * j) + b) % d) \in 0 .. 1
    <3>1. TAKE b \in 0 .. 7
    <3>2. ((8 * j) + b) \div d \in Group /\ ((8 * j) + b) % d \in 0 .. d - 1
      BY <2>3, Position
    <3>3. ((8 * j) + b) % d \in 0 .. 11
      BY <3>2, <1>1
    <3> QED
      BY <3>2, <3>3, <1>2, BitIs
  <2>5. bits \in [0 .. 7 -> 0 .. 1]
    BY <2>4
  <2>6. Bit(FromBits(8, bits), o) = bits[o]
    <3> HIDE DEF bits
    <3> QED
      BY <2>5, BitOfBits
  <2>7. pack(d, t)[j] = FromBits(8, bits)
    BY DEF pack
  <2> QED
    BY <2>6, <2>7
<1>4. \A i \in Group, b \in 0 .. d - 1 :
        Bit(pack(d, t)[((d * i) + b) \div 8], ((d * i) + b) % 8) = Bit(t[i], b)
  <2>1. TAKE i \in Group, b \in 0 .. d - 1
  <2>2. PICK n \in 0 .. (8 * d) - 1 : n = (d * i) + b /\ n \div d = i /\ n % d = b
    BY Position
  <2>3. PICK j \in Int, o \in Int : j = n \div 8 /\ o = n % 8 /\ n = (8 * j) + o /\ o \in 0 .. 7
    <3>1. n \in Int
      BY <1>1
    <3> QED
      BY <3>1
  <2>4. j \in 0 .. d - 1
    <3>1. n \in Int /\ 0 <= n /\ n < 8 * d /\ d \in Int
      BY <1>1
    <3> QED
      BY <3>1, <2>3
  <2>5. Bit(pack(d, t)[j], o) = Bit(t[n \div d], n % d)
    BY <1>3, <2>3, <2>4
  <2> QED
    BY <2>2, <2>3, <2>5
<1>5. \A i \in Group : unpack(d, pack(d, t))[i] = t[i]
  <2>1. TAKE i \in Group
  <2>2. unpack(d, pack(d, t))[i] = FromBits(d, [b \in 0 .. d - 1 |-> Bit(t[i], b)])
    <3>1. [b \in 0 .. d - 1 |-> Bit(pack(d, t)[((d * i) + b) \div 8], ((d * i) + b) % 8)]
            = [b \in 0 .. d - 1 |-> Bit(t[i], b)]
      BY <1>4
    <3> QED
      BY <3>1 DEF unpack
  <2> QED
    BY <2>2, BitsOf
<1> QED
  BY <1>5 DEF unpack

\* Division by q through a multiplication, in the four precisions of the code:
\* what the excess of the multiplier adds never reaches the next integer.
LEMMA QuotientRounded ==
  ASSUME NEW u \in Balanced, NEW d \in {1, 4, 5, 10, 11},
         NEW s \in Int, s = (IF d = 1 THEN u ELSE Standard(u))
  PROVE  compress(d, u) = (((s * TwoTo(d)) + 1664) \div 3329) % TwoTo(d)
<1>1. PICK v \in Int : v = u /\ -1664 <= v /\ v <= 1664
  BY DEF Balanced, KYBER_Q
<1>2. d # 1 => 0 <= s /\ s <= 3328
  BY <1>1 DEF Standard, KYBER_Q
<1>3. CASE d = 1
  <2>1. compress(1, u) = HighPart((s * 2) + 1665, 80635, 28) % 2
    BY <1>1, <1>3 DEF compress, Scale, TwoTo
  <2>2. PICK q \in Int : q = ((s * 2) + 1664) \div 3329
    OBVIOUS
  <2>3. HighPart((s * 2) + 1665, 80635, 28) = q
    BY <1>1, <1>3, <2>2 DEF HighPart, TwoTo
  <2> QED
    BY <1>3, <2>1, <2>2, <2>3 DEF TwoTo
<1>4. CASE d = 4
  <2>1. compress(4, u) = HighPart((s * 16) + 1665, 80635, 28) % 16
    BY <1>2, <1>4 DEF compress, Scale, TwoTo
  <2>2. PICK q \in Int : q = ((s * 16) + 1664) \div 3329
    OBVIOUS
  <2>3. HighPart((s * 16) + 1665, 80635, 28) = q
    BY <1>2, <1>4, <2>2 DEF HighPart, TwoTo
  <2> QED
    BY <1>4, <2>1, <2>2, <2>3 DEF TwoTo
<1>5. CASE d = 5
  <2>1. compress(5, u) = HighPart((s * 32) + 1664, 40318, 27) % 32
    BY <1>2, <1>5 DEF compress, Scale, TwoTo
  <2>2. PICK q \in Int : q = ((s * 32) + 1664) \div 3329
    OBVIOUS
  <2>3. HighPart((s * 32) + 1664, 40318, 27) = q
    BY <1>2, <1>5, <2>2 DEF HighPart, TwoTo
  <2> QED
    BY <1>5, <2>1, <2>2, <2>3 DEF TwoTo
<1>6. CASE d = 10
  <2>1. compress(10, u) = HighPart((s * 1024) + 1665, 1290167, 32) % 1024
    BY <1>2, <1>6 DEF compress, Scale, TwoTo
  <2>2. PICK q \in Int : q = ((s * 1024) + 1664) \div 3329
    OBVIOUS
  <2>3. PICK a \in Int : a = (s * 1024) + 1665
    OBVIOUS
  <2>4. q * 4294967296 <= a * 1290167 /\ a * 1290167 < (q + 1) * 4294967296
    BY <1>2, <1>6, <2>2, <2>3, SMTT(60)
  <2>5. PICK b \in Int, c \in Int :
          /\ b = (a * 55) \div 128 /\ c = (b + (a * 95)) \div 128
          /\ 16384 * c <= a * 12215 /\ a * 12215 < 16384 * (c + 1)
    BY SMTT(60)
  <2>6. HighPart(a, 1290167, 32) = (c + (a * 78)) \div 262144
    BY <2>5, SMTT(60) DEF HighPart, TwoTo
  <2>7. HighPart(a, 1290167, 32) = q
    <3>1. 262144 * q <= c + (a * 78)
      BY <2>4, <2>5, SMTT(60)
    <3>2. c + (a * 78) < 262144 * (q + 1)
      BY <2>4, <2>5, SMTT(60)
    <3> QED
      BY <2>6, <3>1, <3>2, SMTT(60)
  <2> QED
    BY <1>6, <2>1, <2>2, <2>3, <2>7 DEF TwoTo
<1>7. CASE d = 11
  <2>1. compress(11, u) = HighPart((s * 2048) + 1664, 645084, 31) % 2048
    BY <1>2, <1>7 DEF compress, Scale, TwoTo
  <2>2. PICK q \in Int : q = ((s * 2048) + 1664) \div 3329
    OBVIOUS
  <2>3. PICK a \in Int : a = (s * 2048) + 1664
    OBVIOUS
  <2>4. q * 2147483648 <= a * 645084 /\ a * 645084 < (q + 1) * 2147483648
    BY <1>2, <1>7, <2>2, <2>3, SMTT(60)
  <2>5. PICK b \in Int, c \in Int :
          /\ b = (a * 92) \div 128 /\ c = (b + (a * 47)) \div 128
          /\ 16384 * c <= a * 6108 /\ a * 6108 < 16384 * (c + 1)
    BY SMTT(60)
  <2>6. HighPart(a, 645084, 31) = (c + (a * 39)) \div 131072
    BY <2>5, SMTT(60) DEF HighPart, TwoTo
  <2>7. HighPart(a, 645084, 31) = q
    <3>1. 131072 * q <= c + (a * 39)
      BY <2>4, <2>5, SMTT(60)
    <3>2. c + (a * 39) < 131072 * (q + 1)
      BY <2>4, <2>5, SMTT(60)
    <3> QED
      BY <2>6, <3>1, <3>2, SMTT(60)
  <2> QED
    BY <1>7, <2>1, <2>2, <2>3, <2>7 DEF TwoTo
<1> QED
  BY <1>3, <1>4, <1>5, <1>6, <1>7

\* What compression gives fits into d bits.
LEMMA Codes ==
  ASSUME NEW d \in {1, 4, 5, 10, 11, 12}, NEW u \in Balanced
  PROVE  compress(d, u) \in 0 .. TwoTo(d) - 1
<1>1. PICK v \in Int : v = u /\ -1664 <= v /\ v <= 1664
  BY DEF Balanced, KYBER_Q
<1>2. CASE d = 12
  BY <1>1, <1>2 DEF compress, Standard, KYBER_Q, TwoTo
<1>3. CASE d # 12
  <2>1. PICK s \in Int : s = (IF d = 1 THEN u ELSE Standard(u))
    BY <1>1 DEF Standard, KYBER_Q
  <2>2. PICK pow \in Int : pow = TwoTo(d) /\ pow > 0
    BY DEF TwoTo
  <2>3. PICK z0 \in Int : z0 = s * pow
    OBVIOUS
  <2>4. PICK y \in Int : y = (z0 + 1664) \div 3329
    OBVIOUS
  <2>5. d \in {1, 4, 5, 10, 11}
    BY <1>3
  <2>6. compress(d, u) = y % pow
    BY <2>1, <2>2, <2>3, <2>4, <2>5, QuotientRounded
  <2> QED
    BY <2>2, <2>4, <2>6
<1> QED
  BY <1>2, <1>3

\* A code survives decompression, noise and compression.
LEMMA CodeKept ==
  ASSUME NEW d \in {1, 4, 5, 10, 11, 12}, NEW t \in 0 .. TwoTo(d) - 1, NEW w \in {-1, 0, 1},
         d = 12 => t < KYBER_Q
  PROVE  compress(d, Centre(decompress(d, t) + (w * Most(d)))) = t
<1>1. PICK c \in Int : c = t /\ 0 <= c /\ c < TwoTo(d)
  BY DEF TwoTo
<1>2. \A y \in Int : Centre(y) \in Balanced /\ \E e \in Int : Centre(y) = y + (3329 * e)
  <2>1. TAKE y \in Int
  <2>2. PICK z \in Int : z = y % 3329
    OBVIOUS
  <2>3. PICK e \in Int : y = (3329 * e) + z /\ 0 <= z /\ z < 3329
    <3>1. y = (3329 * (y \div 3329)) + z /\ 0 <= z /\ z < 3329 /\ y \div 3329 \in Int
      BY <2>2
    <3> QED
      BY <3>1
  <2>4. CASE z > 1664
    <3>1. Centre(y) = z - 3329
      BY <2>2, <2>4 DEF Centre, KYBER_Q
    <3>2. PICK f \in Int : f = -e - 1
      OBVIOUS
    <3>3. z - 3329 = y + (3329 * f)
      BY <2>3, <3>2
    <3>4. z - 3329 \in Balanced
      BY <2>3, <2>4 DEF Balanced, KYBER_Q
    <3> QED
      BY <3>1, <3>3, <3>4
  <2>5. CASE ~(z > 1664)
    <3>1. Centre(y) = z
      BY <2>2, <2>5 DEF Centre, KYBER_Q
    <3>2. PICK f \in Int : f = -e
      OBVIOUS
    <3>3. z = y + (3329 * f)
      BY <2>3, <3>2
    <3>4. z \in Balanced
      BY <2>3, <2>5 DEF Balanced, KYBER_Q
    <3> QED
      BY <3>1, <3>3, <3>4
  <2> QED
    BY <2>4, <2>5
<1>3. CASE d = 12
  <2>1. c < 3329
    BY <1>1, <1>3 DEF KYBER_Q
  <2>2. Most(d) = 0 /\ decompress(d, t) = c
    BY <1>1, <1>3 DEF Most, decompress
  <2>3. Centre(c) = IF c > 1664 THEN c - 3329 ELSE c
    BY <1>1, <2>1 DEF Centre, KYBER_Q
  <2>4. decompress(d, t) + (w * Most(d)) = c
    BY <1>1, <2>2
  <2> QED
    BY <1>1, <1>3, <2>1, <2>3, <2>4 DEF compress, Standard, KYBER_Q
<1>4. CASE d # 12
  <2>1. d \in {1, 4, 5, 10, 11}
    BY <1>4
  <2>2. PICK y \in Int : y = decompress(d, t) + (w * Most(d))
                         /\ -1664 <= (y * TwoTo(d)) - (3329 * c)
                         /\ (y * TwoTo(d)) - (3329 * c) <= 1664
    <3>1. CASE d = 1
      BY <1>1, <3>1 DEF decompress, Most, TwoTo, KYBER_Q
    <3>2. CASE d = 4
      BY <1>1, <3>2 DEF decompress, Most, TwoTo, KYBER_Q
    <3>3. CASE d = 5
      BY <1>1, <3>3 DEF decompress, Most, TwoTo, KYBER_Q
    <3>4. CASE d = 10
      BY <1>1, <3>4 DEF decompress, Most, TwoTo, KYBER_Q
    <3>5. CASE d = 11
      BY <1>1, <3>5 DEF decompress, Most, TwoTo, KYBER_Q
    <3> QED
      BY <2>1, <3>1, <3>2, <3>3, <3>4, <3>5
  <2>3. PICK e \in Int : Centre(y) = y + (3329 * e)
    BY <1>2
  <2>4. PICK s \in Int, g \in Int :
          s = y + (3329 * g) /\ s = IF d = 1 THEN Centre(y) ELSE Standard(Centre(y))
    <3>1. y + (3329 * e) + 3329 = y + (3329 * (e + 1))
      OBVIOUS
    <3> QED
      BY <2>3, <3>1 DEF Standard, KYBER_Q
  <2>5. compress(d, Centre(y)) = (((s * TwoTo(d)) + 1664) \div 3329) % TwoTo(d)
    BY <1>2, <2>1, <2>4, QuotientRounded
  <2>6. PICK pow \in Int : pow = TwoTo(d) /\ pow > 0
    BY DEF TwoTo
  <2>7. PICK rest \in Int : rest = (y * pow) - (3329 * c) /\ -1664 <= rest /\ rest <= 1664
    BY <2>2, <2>6
  <2>8. PICK h \in Int : h = g * pow
    BY <2>6
  <2>9. s * pow = (3329 * (c + h)) + rest
    <3>1. s * pow = (y * pow) + (3329 * (g * pow))
      BY <2>4, <2>6
    <3> QED
      BY <3>1, <2>7, <2>8
  <2>10. ((s * pow) + 1664) \div 3329 = c + h
    <3>1. PICK z \in Int : z = (s * pow) + 1664
      BY <2>6
    <3> QED
      BY <2>7, <2>8, <2>9, <3>1
  <2>11. (c + (g * pow)) % pow = c
    <3>1. CASE pow = 2
      BY <1>1, <2>6, <3>1
    <3>2. CASE pow = 16
      BY <1>1, <2>6, <3>2
    <3>3. CASE pow = 32
      BY <1>1, <2>6, <3>3
    <3>4. CASE pow = 1024
      BY <1>1, <2>6, <3>4
    <3>5. CASE pow = 2048
      BY <1>1, <2>6, <3>5
    <3> QED
      BY <2>1, <2>6, <3>1, <3>2, <3>3, <3>4, <3>5 DEF TwoTo
  <2> QED
    BY <1>1, <2>2, <2>5, <2>6, <2>8, <2>10, <2>11
<1> QED
  BY <1>3, <1>4

\* The formats of the code.
LEMMA Formatted == format \in Formats => format \in {1, 4, 5, 10, 11, 12}
  BY CodecAssumption

\* Unpacking gives the compressed coefficients.
LEMMA CodesOf ==
  ASSUME NEW d \in {1, 4, 5, 10, 11, 12}, NEW f \in [Group -> Balanced]
  PROVE  unpack(d, Encode(d, f)) = [i \in Group |-> compress(d, f[i])]
<1>1. [i \in Group |-> compress(d, f[i])] \in [Group -> 0 .. TwoTo(d) - 1]
  BY Codes
<1> QED
  BY <1>1, Unpacked DEF Encode

\* Noise and a second compression give the bytes back.
LEMMA BytesKept ==
  ASSUME format \in Formats, NEW f \in [Group -> Balanced], NEW wave \in [Group -> {-1, 0, 1}]
  PROVE  Encode(format, Noisy(Decode(format, Encode(format, f)), wave)) = Encode(format, f)
<1>1. format \in {1, 4, 5, 10, 11, 12}
  BY Formatted
<1>2. Decode(format, Encode(format, f)) =
        [i \in Group |-> decompress(format, compress(format, f[i]))]
  BY <1>1, CodesOf DEF Decode
<1>3. \A i \in Group :
        compress(format, Noisy(Decode(format, Encode(format, f)), wave)[i]) = compress(format, f[i])
  <2>1. TAKE i \in Group
  <2>2. Noisy(Decode(format, Encode(format, f)), wave)[i]
          = Centre(decompress(format, compress(format, f[i])) + (wave[i] * Most(format)))
    BY <1>2 DEF Noisy
  <2>3. compress(format, f[i]) \in 0 .. TwoTo(format) - 1
    BY <1>1, Codes
  <2>4. format = 12 => compress(format, f[i]) < KYBER_Q
    <3>1. f[i] \in Balanced
      OBVIOUS
    <3>2. PICK u \in Balanced : u = f[i]
      BY <3>1
    <3>3. PICK v \in Int : v = u /\ -1664 <= v /\ v <= 1664
      BY DEF Balanced, KYBER_Q
    <3> QED
      BY <3>2, <3>3 DEF compress, Standard, KYBER_Q
  <2>5. wave[i] \in {-1, 0, 1}
    OBVIOUS
  <2> QED
    BY <1>1, <2>2, <2>3, <2>4, <2>5, CodeKept
<1> QED
  BY <1>3 DEF Encode

\* Every step of Codec keeps CodecInv; the second compression by BytesKept.
LEMMA CodecSteps ==
  ASSUME CodecInv, CodecNext
  PROVE  CodecInv'
<1>1. /\ format \in {1, 4, 5, 10, 11, 12} /\ given \in [Group -> Balanced]
      /\ Waves \subseteq [Group -> {-1, 0, 1}]
  BY CodecAssumption DEF CodecInv
<1>2. CASE CompressIt /\ stage = 0
  BY <1>2 DEF CompressIt, CodecInv
<1>3. CASE CompressIt /\ stage = 3
  <2>1. PICK wave \in Waves : coeffs = Noisy(Decode(format, sent), wave)
    BY <1>3 DEF CodecInv
  <2>2. sent = Encode(format, given)
    BY <1>3 DEF CodecInv
  <2>3. bytes' = sent
    BY <1>1, <1>3, <2>1, <2>2, BytesKept DEF CompressIt, CodecInv
  <2>4. /\ sent' = sent /\ stage' = 4 /\ format' = format /\ given' = given /\ coeffs' = coeffs
    BY <1>3 DEF CompressIt
  <2>5. \E w \in Waves : coeffs' = Noisy(Decode(format, sent), w)'
    BY <2>1, <2>4 DEF Noisy, Most, Decode
  <2> QED
    BY <2>2, <2>3, <2>4, <2>5 DEF CodecInv
<1>4. CASE DecompressIt
  BY <1>4 DEF DecompressIt, CodecInv
<1>5. CASE \E wave \in Waves : Disturb(wave)
  <2>1. PICK wave \in Waves : Disturb(wave)
    BY <1>5
  <2>2. /\ sent' = sent /\ bytes' = bytes /\ stage = 2 /\ stage' = 3
        /\ format' = format /\ given' = given
    BY <2>1 DEF Disturb
  <2>3. coeffs' = Noisy(Decode(format, sent), wave)
    BY <2>1, <2>2 DEF Disturb, CodecInv
  <2>4. \E w \in Waves : coeffs' = Noisy(Decode(format, sent), w)'
    BY <2>2, <2>3 DEF Noisy, Most, Decode
  <2> QED
    BY <2>2, <2>4 DEF CodecInv
<1> QED
  BY <1>2, <1>3, <1>4, <1>5 DEF CodecNext, CompressIt

\* CodecInv is inductive: the bytes written again after the noise are those
\* that were sent, in every format of poly.c and polyvec.c.
THEOREM CodecInvariant == CodecSpec => []CodecInv
<1>1. CodecInit => CodecInv
  BY DEF CodecInit, CodecInv
<1>2. CodecInv /\ [CodecNext]_codecVars => CodecInv'
  <2>1. CASE CodecNext
    BY <2>1, CodecSteps
  <2>2. CASE UNCHANGED codecVars
    BY <2>2 DEF codecVars, CodecInv, Noisy, Most
  <2> QED
    BY <2>1, <2>2
<1> QED
  BY <1>1, <1>2, PTL DEF CodecSpec

\* The multiplications and shifts of poly_compress, polyvec_compress and
\* poly_tomsg round every coefficient as the division by q in their comments.
THEOREM CompressionRounds == CodecSpec => []Rounded
<1>1. CodecInv => Rounded
  <2>1. SUFFICES ASSUME CodecInv, stage = 1, format < 12, NEW i \in Group
                 PROVE  unpack(format, bytes)[i] =
                          (((Standard(given[i]) * TwoTo(format)) + (KYBER_Q \div 2)) \div KYBER_Q)
                            % TwoTo(format)
    BY DEF Rounded
  <2>2. format \in {1, 4, 5, 10, 11} /\ given \in [Group -> Balanced]
    BY <2>1, CodecAssumption DEF CodecInv
  <2>3. unpack(format, bytes)[i] = compress(format, given[i])
    BY <2>1, <2>2, CodesOf DEF CodecInv
  <2>4. PICK u \in Balanced : u = given[i]
    BY <2>2
  <2>5. PICK s \in Int : s = (IF format = 1 THEN u ELSE Standard(u))
    BY DEF Standard, Balanced, KYBER_Q
  <2>6. compress(format, u) = (((s * TwoTo(format)) + 1664) \div 3329) % TwoTo(format)
    BY <2>2, <2>5, QuotientRounded
  <2>7. CASE format = 1
    <3>1. PICK v \in Int : v = u /\ -1664 <= v /\ v <= 1664
      BY DEF Balanced, KYBER_Q
    <3> QED
      BY <2>3, <2>4, <2>5, <2>6, <2>7, <3>1 DEF Standard, KYBER_Q, TwoTo
  <2>8. CASE format # 1
    BY <2>3, <2>4, <2>5, <2>6, <2>8 DEF KYBER_Q
  <2> QED
    BY <2>7, <2>8
<1> QED
  BY <1>1, CodecInvariant, PTL

\* Noise below the bound of the format changes no byte, whatever eight
\* coefficients were sent and whatever the direction of the noise in each.
THEOREM RecompressionKeepsBytes == CodecSpec => []Survives
<1>1. CodecInv => Survives
  BY DEF CodecInv, Survives
<1> QED
  BY <1>1, CodecInvariant, PTL
=============================================================================
