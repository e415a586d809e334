---------------------------- MODULE DsaPolyProof ----------------------------
(***************************************************************************)
(* Proofs about the arithmetic of ML-DSA and its encodings.                *)
(*   DsaPoly   IInv is an inductive invariant, so that no sum leaves 32    *)
(*             bits although the layers reduce nothing, and the results    *)
(*             are in the range that rounding and norm checks assume.      *)
(*   Hints     HintsInv: what is packed so far encodes the polynomials so  *)
(*             far, so that a hint vector has one encoding and comes back. *)
(*   Rounding  RoundInv: w1 and w0 stand for w + moved modulo q, so that a *)
(*             hint finds w1 again.                                        *)
(***************************************************************************)
EXTENDS DsaPoly, Hints, Rounding, NttProof, FiniteSetTheorems

LEMMA DsaConstants ==
  /\ L \in Int /\ L > 0 /\ D \in Int /\ D > 0 /\ F \in Int /\ Small \in Int /\ Small >= 0
  /\ Q > 2 /\ 2 * Q <= (L + 1) * Q /\ Q <= Half
  /\ (L + 1) * Q \in Int /\ (L + 1) * Q > 0 /\ (L + 1) * Q + (Shift \div 2) <= Half
  /\ (Layers + 1) * Q \in Int /\ Q <= (Layers + 1) * Q /\ (Layers + 1) * Q <= Half
  /\ N * Q \in Int /\ N * Q <= Half /\ Q <= N * Q
<1>1. PICK q \in Int, h \in Int, ll \in Int, n \in Int, y \in Int :
        /\ q = Q /\ q > 2 /\ h = Half /\ h > 0 /\ ll = L /\ ll > 0 /\ n = N /\ n > 0
        /\ y = Layers + 1 /\ y > 1
  BY Constants, NttConstants, DsaPolyAssumption
<1>2. L \in Int /\ D \in Int /\ D > 0 /\ F \in Int /\ Small \in Int /\ Small >= 0
  BY DsaPolyAssumption
<1>3. PICK sh \in Int : sh = Shift \div 2 /\ 2 * sh <= h
  <2>1. Shift \in Int /\ Shift % 2 = 0 /\ Shift <= Half
    BY ReduceAssumption, DsaPolyAssumption
  <2>2. PICK t \in Int : t = Shift \div 2 /\ 2 * t <= Shift
    BY <2>1, Quotient
  <2> QED
    BY <2>1, <2>2, <1>1
<1>4. PICK lq \in Int : lq = (ll + 1) * q /\ 2 * q <= lq /\ (2 * (ll + 2)) * q = (2 * lq) + (2 * q)
  <2>1. 2 * q <= (ll + 1) * q
    BY <1>1
  <2>2. (2 * (ll + 2)) * q = (2 * ((ll + 1) * q)) + (2 * q)
    OBVIOUS
  <2> QED
    BY <2>1, <2>2
<1>5. (2 * lq) + (2 * q) <= h
  BY <1>1, <1>4, DsaPolyAssumption
<1>6. PICK yq \in Int : yq = y * q /\ q <= yq /\ yq <= h
  <2>1. (y * y) * q <= h
    BY <1>1, DsaPolyAssumption
  <2>2. q <= y * q /\ y * q <= y * (y * q) /\ y * (y * q) = (y * y) * q
    BY <1>1
  <2>3. PICK a \in Int, b \in Int : a = y * q /\ b = (y * y) * q
    OBVIOUS
  <2> QED
    BY <2>1, <2>2, <2>3
<1>7. PICK nq \in Int : nq = n * q /\ q <= nq /\ nq <= h
  <2>1. n * q <= h
    BY <1>1, DsaPolyAssumption
  <2>2. q <= n * q
    BY <1>1
  <2> QED
    BY <2>1, <2>2
<1>8. L > 0 /\ Q > 2 /\ 2 * Q <= (L + 1) * Q /\ Q <= Half
      /\ (L + 1) * Q \in Int /\ (L + 1) * Q > 0 /\ (L + 1) * Q + (Shift \div 2) <= Half
  <2>1. lq > 0 /\ q <= h /\ lq + sh <= h
    BY <1>1, <1>3, <1>4, <1>5
  <2>2. (L + 1) * Q = lq
    BY <1>1, <1>4
  <2> QED
    BY <2>1, <2>2, <1>1, <1>3, <1>4
<1>9. (Layers + 1) * Q = yq /\ N * Q = nq
  BY <1>1, <1>6, <1>7
<1> QED
  BY <1>1, <1>2, <1>6, <1>7, <1>8, <1>9

\* reduce32 after at most L + 1 products.
LEMMA SumReduced ==
  ASSUME NEW a \in Int, -((L + 1) * Q) < a, a < (L + 1) * Q
  PROVE  /\ Fits(a) /\ Fits(a + (Shift \div 2))
         /\ reduce32(Wrap(a)) \in Int /\ -Q < reduce32(Wrap(a)) /\ reduce32(Wrap(a)) < Q
<1>1. PICK c \in Int, sh \in Int, h \in Int :
        /\ c = (L + 1) * Q /\ c > 0 /\ sh = Shift \div 2 /\ sh >= 0 /\ h = Half
        /\ c + sh <= h /\ -c < a /\ a < c
  <2>1. PICK t \in Int : t = Shift \div 2 /\ 2 * t <= Shift /\ Shift < (2 * t) + 2
    BY Constants, Quotient
  <2>2. t >= 0
    BY <2>1, Constants
  <2> QED
    BY <2>1, <2>2, Constants, DsaConstants
<1>2. Fits(a) /\ Fits(a + sh)
  BY <1>1 DEF Fits
<1>3. Q <= Shift /\ (Shift \div 2) + (((c + (Shift \div 2)) \div Shift) * (Shift - Q)) < Q
  BY <1>1, DsaPolyAssumption
<1>4. reduce32(a) \in Int /\ -Q < reduce32(a) /\ reduce32(a) < Q
  BY <1>1, <1>2, <1>3, DsaConstants, Reduce32
<1> QED
  BY <1>1, <1>2, <1>4, WrapFits

\* Montgomery reduction of a product of two transformed polynomials, which
\* nothing has reduced.
LEMMA UnreducedProduct ==
  ASSUME NEW a \in Int, NEW b \in Int,
         -((Layers + 1) * Q) < a, a < (Layers + 1) * Q,
         -((Layers + 1) * Q) < b, b < (Layers + 1) * Q
  PROVE  fqmul(a, b) \in Int /\ -Q < fqmul(a, b) /\ fqmul(a, b) < Q
<1>1. PICK q \in Int, h \in Int, y \in Int, g \in Int, m \in Int :
        /\ q = Q /\ q > 0 /\ h = Half /\ h > 0 /\ y = Layers + 1 /\ y > 0
        /\ g = (Layers + 1) * Q /\ g > 0 /\ m = g - 1 /\ g = y * q
  BY Constants, NttConstants, DsaConstants
<1>2. -(g * m) <= a * b /\ a * b <= g * m
  <2>1. -g < a /\ a < g /\ -m <= b /\ b <= m
    BY <1>1
  <2> QED
    BY <2>1, <1>1, ProductRange
<1>3. g * m < g * g
  BY <1>1
<1>4. g * g <= q * h
  <2>1. (y * y) * q <= h
    BY <1>1, DsaPolyAssumption
  <2>2. g * g = q * ((y * y) * q)
    BY <1>1
  <2>3. PICK z \in Int : z = (y * y) * q
    OBVIOUS
  <2>4. q * z <= q * h
    BY <2>1, <2>3, <1>1
  <2> QED
    BY <2>2, <2>3, <2>4
<1>5. PICK c \in Int, gm \in Int, gg \in Int, qh \in Int :
        c = a * b /\ gm = g * m /\ gg = g * g /\ qh = q * h
  OBVIOUS
<1>6. -qh < c /\ c < qh
  BY <1>2, <1>3, <1>4, <1>5
<1>7. q >= 0 /\ q <= Q /\ Q <= Half /\ -(q * Half) <= c /\ c <= q * Half /\ c < Q * Half
  BY <1>1, <1>5, <1>6, DsaConstants
<1>8. montgomery_reduce(c) \in Int /\ -Q < montgomery_reduce(c) /\ montgomery_reduce(c) < Q
  BY <1>7, Montgomery
<1> QED
  BY <1>5, <1>8 DEF fqmul

\* The last factor of the inverse transform, F, leaves room for a small term.
LEMMA LastFactor ==
  ASSUME NEW a \in Int, -(N * Q) < a, a < N * Q
  PROVE  /\ fqmul(F, a) \in Int
         /\ 2 * Magnitude(fqmul(F, a)) <= Magnitude(F) + Q
<1>1. PICK q \in Int, h \in Int, f \in Int, g \in Int :
        /\ q = Q /\ q > 0 /\ h = Half /\ h > 0 /\ f = F /\ g = Magnitude(F)
        /\ g = (IF f < 0 THEN -f ELSE f) /\ g < q
  <2>1. Magnitude(F) \in Int /\ Magnitude(F) < Q
    BY DsaConstants, DsaPolyAssumption, Constants DEF Magnitude
  <2> QED
    BY <2>1, Constants, DsaConstants DEF Magnitude
<1>2. -h <= a /\ a <= h
  <2>1. PICK z \in Int : z = N * Q /\ z <= h
    BY <1>1, DsaConstants
  <2> QED
    BY <2>1
<1>3. PICK c \in Int : c = f * a
  OBVIOUS
<1>4. -(g * h) <= c /\ c <= g * h
  <2>1. CASE f >= 0
    <3>1. f * a <= f * h /\ -(f * h) <= f * a
      BY <2>1, <1>2
    <3> QED
      BY <3>1, <2>1, <1>1, <1>3
  <2>2. CASE f < 0
    <3>1. PICK e \in Int : e = -f /\ e > 0
      BY <2>2
    <3>2. e * a <= e * h /\ -(e * h) <= e * a
      BY <3>1, <1>2
    <3>3. f * a = -(e * a)
      BY <3>1
    <3>4. PICK u \in Int, v \in Int : u = e * a /\ v = e * h
      OBVIOUS
    <3>5. g = e
      BY <3>1, <1>1
    <3> QED
      BY <3>2, <3>3, <3>4, <3>5, <1>3
  <2> QED
    BY <2>1, <2>2
<1>5. g * h < q * h /\ g >= 0
  BY <1>1
<1>6. PICK gh \in Int, qh \in Int : gh = g * h /\ qh = q * h
  OBVIOUS
<1>7. g >= 0 /\ g <= Q /\ Q <= Half /\ -(g * Half) <= c /\ c <= g * Half /\ c < Q * Half
  BY <1>1, <1>4, <1>5, <1>6, DsaConstants
<1>8. montgomery_reduce(c) \in Int /\ -(g + Q) <= 2 * montgomery_reduce(c)
      /\ 2 * montgomery_reduce(c) <= g + Q
  BY <1>7, Montgomery
<1>9. fqmul(F, a) = montgomery_reduce(c)
  BY <1>1, <1>3 DEF fqmul
<1> QED
  BY <1>1, <1>8, <1>9 DEF Magnitude

\* The operands and what they are bounded by.
LEMMA InputFacts ==
  ASSUME NEW n \in Inputs
  PROVE  /\ n.use \in {"row", "verify", "respond"}
         /\ \A q \in 1 .. L : /\ n.a[q] \in Poly /\ Bounded(n.a[q], Q)
                              /\ n.s[q] \in Poly /\ Bounded(n.s[q], Q)
         /\ n.c \in Poly /\ Bounded(n.c, Q)
         /\ shiftl(n.t1) \in Poly /\ Bounded(shiftl(n.t1), Q)
         /\ n.e \in Poly /\ Bounded(n.e, IF n.use = "respond" THEN Q ELSE Small + 1)
<1>1. n \in Operands
  BY DsaPolyAssumption
<1>2. /\ n.use \in {"row", "verify", "respond"}
      /\ \A q \in 1 .. L : n.a[q] \in Poly /\ n.s[q] \in Poly
      /\ n.c \in Poly /\ n.t1 \in Poly /\ n.e \in Poly
  BY <1>1 DEF Operands
<1>3. /\ \A q \in 1 .. L : Bounded(n.a[q], Q) /\ Bounded(n.s[q], Q)
      /\ Bounded(n.c, 2) /\ Bounded(n.e, IF n.use = "respond" THEN Q ELSE Small + 1)
      /\ \A i \in Idx : 0 <= n.t1[i] /\ n.t1[i] * D < Q
  BY DsaPolyAssumption
<1>4. Bounded(n.c, Q)
  BY <1>2, <1>3, Constants, DsaConstants DEF Bounded, Poly
<1>5. ASSUME NEW i \in Idx
      PROVE  shiftl(n.t1)[i] \in Int /\ 0 <= shiftl(n.t1)[i] /\ shiftl(n.t1)[i] < Q
  <2>1. PICK t \in Int, d \in Int, y \in Int : t = n.t1[i] /\ d = D /\ y = t * d /\ 0 <= y /\ y < Q
    <3>1. PICK t \in Int, d \in Int : t = n.t1[i] /\ t >= 0 /\ d = D /\ d > 0 /\ t * d < Q
      BY <1>2, <1>3, DsaConstants DEF Poly
    <3>2. t * d >= 0
      BY <3>1
    <3> QED
      BY <3>1, <3>2
  <2>2. Fits(y)
    BY <2>1, Constants, DsaConstants DEF Fits
  <2>3. shiftl(n.t1)[i] = Wrap(y)
    BY <2>1 DEF shiftl
  <2> QED
    BY <2>1, <2>2, <2>3, WrapFits
<1>6. shiftl(n.t1) \in Poly
  BY <1>5 DEF shiftl, Poly
<1>7. Bounded(shiftl(n.t1), Q)
  BY <1>5, Constants DEF Bounded
<1> QED
  BY <1>2, <1>3, <1>4, <1>6, <1>7

LEMMA Uses ==
  ASSUME NEW use \in {"row", "verify", "respond"}
  PROVE  /\ First(use) \in 0 .. L + 1 /\ Last(use) \in 0 .. L + 1 /\ First(use) <= Last(use)
         /\ Last(use) >= 1 /\ First(use) <= 1
         /\ use = "row" => First(use) = 1 /\ Last(use) = L
         /\ use = "verify" => First(use) = 0 /\ Last(use) = L + 1
         /\ use = "respond" => First(use) = 0 /\ Last(use) = 1
BY DsaConstants DEF First, Last

THEOREM InitInv == Init => IInv
<1> SUFFICES ASSUME Init PROVE IInv
  OBVIOUS
<1>1. /\ in \in Inputs /\ pc = "ntt" /\ p = First(in.use) /\ layer = 1 /\ start = 0 /\ k = 1 /\ r = x[p]
      /\ x = [q \in 0 .. L + 1 |-> IF q = 0 THEN in.c ELSE IF q = L + 1 THEN shiftl(in.t1) ELSE in.s[q]]
  BY DEF Init
<1>2. p \in 0 .. L + 1 /\ p \in First(in.use) .. Last(in.use)
  BY <1>1, InputFacts, Uses
<1>3. ASSUME NEW q \in 0 .. L + 1
      PROVE  x[q] \in Poly /\ Bounded(x[q], Q)
  <2>1. q # 0 /\ q # L + 1 => q \in 1 .. L
    BY DsaConstants
  <2> QED
    BY <1>1, <2>1, InputFacts
<1>4. x \in [0 .. L + 1 -> Poly]
  <2>1. \A q \in 0 .. L + 1 : x[q] \in Poly
    BY <1>3
  <2>2. x = [q \in 0 .. L + 1 |-> x[q]]
    BY <1>1
  <2> QED
    BY <2>1, <2>2
<1>5. TypeOK
  BY <1>1, <1>2, <1>3, <1>4 DEF TypeOK
<1>6. Placed
  BY <1>1, Beginning, NttConstants DEF Placed
<1>7. ForwardRoot
  BY <1>1, Beginning DEF ForwardRoot
<1>8. ForwardRange
  <2>1. ASSUME NEW i \in Idx PROVE -(1 * Q) < r[i] /\ r[i] < 1 * Q /\ ~(i < 0)
    <3>1. Bounded(r, Q)
      BY <1>1, <1>2, <1>3
    <3> QED
      BY <3>1, Constants DEF Bounded, Idx
  <2> QED
    BY <1>1, <2>1 DEF ForwardRange
<1>9. ASSUME NEW q \in First(in.use) .. Last(in.use)
      PROVE  Bounded(x[q], Q) /\ q >= p
  <2>1. q \in 0 .. L + 1 /\ q >= p
    BY <1>1, InputFacts, Uses, DsaConstants
  <2> QED
    BY <2>1, <1>3
<1>10. Ranges
  BY <1>1, <1>2, <1>7, <1>8, <1>9 DEF Ranges, Standard
<1> QED
  BY <1>5, <1>6, <1>10 DEF IInv

LEMMA NttBlockInv ==
  ASSUME IInv, NttBlock
  PROVE  IInv'
<1>1. pc = "ntt" /\ ForwardBlock /\ UNCHANGED <<in, x, pc, p>>
  BY DEF NttBlock
<1>2. /\ TypeOK /\ Placed /\ p \in First(in.use) .. Last(in.use) /\ ForwardRoot /\ ForwardRange
      /\ r \in Poly
  BY <1>1 DEF IInv, Ranges, TypeOK
<1>3. layer \in 1 .. Layers
  BY <1>1, <1>2, NttConstants DEF ForwardRange, ForwardBlock, Placed
<1>4. r' \in Poly /\ Placed' /\ ForwardRoot' /\ ForwardRange'
  BY <1>1, <1>2, <1>3, DsaConstants, ForwardStep
<1>5. TypeOK'
  BY <1>1, <1>2, <1>4 DEF TypeOK, Poly, Idx
<1>6. Ranges'
  <2>1. \A q \in First(in.use) .. Last(in.use) :
          Bounded(x[q], IF q >= p THEN Q ELSE (Layers + 1) * Q)
    BY <1>1 DEF IInv, Ranges
  <2> QED
    BY <1>1, <1>2, <1>4, <2>1 DEF Ranges, Standard, Bounded, Idx, Layers
<1> QED
  BY <1>4, <1>5, <1>6 DEF IInv

LEMMA NttDoneInv ==
  ASSUME IInv, NttDone
  PROVE  IInv'
<1> DEFINE last == Last(in.use)
<1>1. /\ pc = "ntt" /\ layer > Layers /\ UNCHANGED in
      /\ x' = [x EXCEPT ![p] = r]
      /\ p' = IF p < last THEN p + 1 ELSE 1
      /\ pc' = IF p < last THEN "ntt" ELSE "acc"
      /\ Enter(1, 1, IF p < last THEN x[p'] ELSE r)
  BY DEF NttDone
<1>2. /\ TypeOK /\ Placed /\ p \in First(in.use) .. last /\ ForwardRange /\ r \in Poly
      /\ x \in [0 .. L + 1 -> Poly] /\ p \in 0 .. L + 1 /\ in \in Inputs
  BY <1>1 DEF IInv, Ranges, TypeOK
<1>3. /\ First(in.use) \in 0 .. L + 1 /\ last \in 0 .. L + 1 /\ First(in.use) <= last
      /\ last >= 1 /\ First(in.use) <= 1 /\ p <= last /\ p >= First(in.use)
  BY <1>2, InputFacts, Uses
<1>4. Bounded(r, (Layers + 1) * Q)
  <2>1. layer = Layers + 1 /\ start = 0
    BY <1>1, <1>2, NttConstants DEF Placed, ForwardRange
  <2>2. ASSUME NEW i \in Idx PROVE -((Layers + 1) * Q) < r[i] /\ r[i] < (Layers + 1) * Q
    <3>1. ~(i < start)
      BY <2>1 DEF Idx
    <3> QED
      BY <3>1, <2>1, <1>2 DEF ForwardRange
  <2> QED
    BY <2>2 DEF Bounded
<1>5. /\ x' \in [0 .. L + 1 -> Poly] /\ x'[p] = r
      /\ \A q \in 0 .. L + 1 : q # p => x'[q] = x[q]
  BY <1>1, <1>2
<1>6. \A q \in First(in.use) .. last :
        Bounded(x[q], IF q >= p THEN Q ELSE (Layers + 1) * Q)
  BY <1>1 DEF IInv, Ranges
<1>7. in' \in Inputs /\ in' = in
  BY <1>1, <1>2
<1>8. CASE p < last
  <2>1. p' = p + 1 /\ pc' = "ntt" /\ p + 1 \in 0 .. L + 1 /\ p + 1 \in First(in.use) .. last
        /\ p + 1 # p /\ Enter(1, 1, x[p + 1])
    <3>1. p' = p + 1 /\ p + 1 \in 0 .. L + 1 /\ p + 1 \in First(in.use) .. last /\ p + 1 # p
      BY <1>1, <1>2, <1>3, <1>8, DsaConstants
    <3>2. pc' = "ntt" /\ Enter(1, 1, x'[p + 1])
      BY <3>1, <1>1, <1>8
    <3>3. x'[p + 1] = x[p + 1]
      BY <3>1, <1>5
    <3> QED
      BY <3>1, <3>2, <3>3
  <2>2. x[p + 1] \in Poly /\ Bounded(x[p + 1], Q)
    BY <1>2, <1>3, <1>6, <2>1
  <2>3. r' \in Poly /\ Placed' /\ ForwardRoot' /\ ForwardRange'
    BY <2>1, <2>2, EnterForward
  <2>4. TypeOK'
    BY <1>5, <1>7, <2>1, <2>3 DEF TypeOK, Poly, Idx
  <2>5. ASSUME NEW q \in First(in.use) .. last
        PROVE  Bounded(x'[q], IF q >= p' THEN Q ELSE (Layers + 1) * Q)
    <3>1. q \in 0 .. L + 1
      BY <1>3, DsaConstants
    <3>2. CASE q = p
      BY <3>2, <1>2, <1>4, <1>5, <2>1
    <3>3. CASE q # p
      <4>1. x'[q] = x[q] /\ (q >= p' <=> q >= p)
        BY <3>1, <3>3, <1>2, <1>5, <2>1
      <4> QED
        BY <4>1, <1>6
    <3> QED
      BY <3>2, <3>3
  <2>6. Ranges'
    BY <1>7, <2>1, <2>3, <2>5 DEF Ranges, Standard, Bounded, Idx, Layers
  <2> QED
    BY <2>3, <2>4, <2>6 DEF IInv
<1>9. CASE ~(p < last)
  <2>1. p' = 1 /\ pc' = "acc" /\ Enter(1, 1, r) /\ p = last
    BY <1>1, <1>2, <1>3, <1>9
  <2>2. r' = r /\ layer' = 1 /\ start' = 0 /\ k' = 1
    BY <2>1 DEF Enter
  <2>3. Placed'
    <3>1. layer' \in 0 .. Layers + 1 /\ start' \in 0 .. N - 1 /\ k' \in 0 .. Blocks
      BY <2>2, Beginning, NttConstants
    <3>2. layer' \in 1 .. Layers => \E b \in 0 .. N : start' = (2 * Lens[layer']) * b
      BY <2>2, Beginning
    <3> QED
      BY <3>1, <3>2 DEF Placed, Blocks, Layers
  <2>4. TypeOK'
    BY <1>2, <1>5, <1>7, <2>1, <2>2, DsaConstants DEF TypeOK, Poly, Idx
  <2>5. ASSUME NEW q \in First(in.use) .. last
        PROVE  Bounded(x'[q], (Layers + 1) * Q)
    <3>1. q \in 0 .. L + 1
      BY <1>3, DsaConstants
    <3>2. CASE q = p
      BY <3>2, <1>2, <1>4, <1>5
    <3>3. CASE q # p
      <4>1. x'[q] = x[q] /\ ~(q >= p)
        BY <3>1, <3>3, <1>2, <1>5, <2>1, <1>3
      <4> QED
        BY <4>1, <1>6
    <3> QED
      BY <3>2, <3>3
  <2>6. 1 <= Terms + 1 /\ Terms \in Int
    BY DsaConstants DEF Terms
  <2>7. Ranges'
    BY <1>7, <2>1, <2>5, <2>6 DEF Ranges, Standard, Bounded, Idx, Layers, Terms
  <2> QED
    BY <2>3, <2>4, <2>7 DEF IInv
<1> QED
  BY <1>8, <1>9

\* Outside the forward transform nothing changes the transformed operands.
LEMMA OperandsKept ==
  ASSUME IInv, pc # "ntt", pc' # "ntt", UNCHANGED <<in, x>>
  PROVE  /\ in' \in Inputs /\ x' \in [0 .. L + 1 -> Poly]
         /\ \A q \in First(in.use) .. Last(in.use) : Bounded(x[q], (Layers + 1) * Q)
         /\ (\A q \in First(in.use) .. Last(in.use) :
               Bounded(x[q], IF pc = "ntt" /\ q >= p THEN Q ELSE (Layers + 1) * Q))'
<1>1. \A q \in First(in.use) .. Last(in.use) : Bounded(x[q], (Layers + 1) * Q)
  BY DEF IInv, Ranges
<1> QED
  BY <1>1 DEF IInv, TypeOK, Bounded, Idx, Poly, Layers

\* A transformed operand's coefficient.
LEMMA Operand ==
  ASSUME IInv, pc # "ntt", NEW q \in First(in.use) .. Last(in.use), NEW i \in Idx
  PROVE  /\ x[q][i] \in Int
         /\ -((Layers + 1) * Q) < x[q][i] /\ x[q][i] < (Layers + 1) * Q
<1>1. Bounded(x[q], (Layers + 1) * Q)
  BY DEF IInv, Ranges
<1>2. q \in 0 .. L + 1 /\ x \in [0 .. L + 1 -> Poly]
  <2>1. in \in Inputs /\ x \in [0 .. L + 1 -> Poly]
    BY DEF IInv, TypeOK
  <2> QED
    BY <2>1, InputFacts, Uses, DsaConstants
<1> QED
  BY <1>1, <1>2 DEF Bounded, Poly

\* The sum of products, before it is cut to 32 bits.
LEMMA AccumulatedBound ==
  ASSUME IInv, pc = "acc", p <= Terms, NEW i \in Idx
  PROVE  /\ Accumulated[i] \in Int /\ p \in Int /\ 1 <= p /\ p <= L
         /\ -(p * Q) < Accumulated[i] /\ Accumulated[i] < p * Q
         /\ p * Q \in Int /\ p * Q <= (L + 1) * Q
<1>1. in \in Inputs /\ p \in Int /\ 1 <= p /\ p <= L /\ r[i] \in Int
      /\ (in.use = "respond" => p = 1) /\ in.use \in {"row", "verify", "respond"}
  BY InputFacts, DsaConstants DEF IInv, TypeOK, Ranges, Terms, Poly
<1>2. p \in First(in.use) .. Last(in.use) /\ (in.use = "respond" => 0 \in First(in.use) .. Last(in.use))
  BY <1>1, DsaConstants DEF First, Last
<1>3. x[p][i] \in Int /\ -((Layers + 1) * Q) < x[p][i] /\ x[p][i] < (Layers + 1) * Q
  BY <1>2, Operand
<1>4. PICK m \in Int :
        /\ Accumulated[i] = (IF p = 1 THEN 0 ELSE r[i]) + m
        /\ -Q < m /\ m < Q
  <2>1. CASE in.use = "respond"
    <3>1. x[0][i] \in Int /\ -((Layers + 1) * Q) < x[0][i] /\ x[0][i] < (Layers + 1) * Q
      BY <1>2, <2>1, Operand
    <3>2. /\ fqmul(x[0][i], x[p][i]) \in Int
          /\ -Q < fqmul(x[0][i], x[p][i]) /\ fqmul(x[0][i], x[p][i]) < Q
      BY <3>1, <1>3, UnreducedProduct
    <3>3. Accumulated[i] = (IF p = 1 THEN 0 ELSE r[i]) + fqmul(x[0][i], x[p][i])
      BY <2>1 DEF Accumulated, poly_pointwise_montgomery
    <3> QED
      BY <3>2, <3>3
  <2>2. CASE in.use # "respond"
    <3>1. in.a[p][i] \in Int /\ -Q < in.a[p][i] /\ in.a[p][i] < Q
      <4>1. p \in 1 .. L
        BY <1>1, DsaConstants
      <4>2. in.a[p] \in Poly /\ Bounded(in.a[p], Q)
        BY <1>1, <4>1, InputFacts
      <4> QED
        BY <4>2 DEF Bounded, Poly
    <3>2. -((Layers + 1) * Q) < in.a[p][i] /\ in.a[p][i] < (Layers + 1) * Q
      <4>1. PICK g \in Int, q \in Int : g = (Layers + 1) * Q /\ q = Q /\ q <= g
        BY DsaConstants, Constants
      <4> QED
        BY <4>1, <3>1
    <3>3. /\ fqmul(in.a[p][i], x[p][i]) \in Int
          /\ -Q < fqmul(in.a[p][i], x[p][i]) /\ fqmul(in.a[p][i], x[p][i]) < Q
      BY <3>1, <3>2, <1>3, UnreducedProduct
    <3>4. Accumulated[i] = (IF p = 1 THEN 0 ELSE r[i]) + fqmul(in.a[p][i], x[p][i])
      BY <2>2 DEF Accumulated, poly_pointwise_montgomery
    <3> QED
      BY <3>3, <3>4
  <2> QED
    BY <2>1, <2>2
<1>5. PICK q \in Int, n \in Int, y \in Int, l \in Int :
        /\ q = Q /\ q > 0 /\ n = p /\ 1 <= n /\ l = L /\ n <= l
        /\ y = (n - 1) * q /\ y >= 0 /\ n * q = y + q /\ n * q <= (l + 1) * q
  <2>1. PICK q \in Int, n \in Int, l \in Int : q = Q /\ q > 0 /\ n = p /\ 1 <= n /\ l = L /\ n <= l
    BY <1>1, Constants, DsaConstants
  <2>2. (n - 1) * q >= 0 /\ n * q = ((n - 1) * q) + q /\ n * q <= (l + 1) * q
    BY <2>1
  <2>3. PICK y \in Int : y = (n - 1) * q
    OBVIOUS
  <2> QED
    BY <2>1, <2>2, <2>3
<1>6. PICK c \in Int : c = (IF p = 1 THEN 0 ELSE r[i]) /\ -y <= c /\ c <= y
  <2>1. CASE p = 1
    BY <2>1, <1>5
  <2>2. CASE p # 1
    <3>1. Bounded(r, (p - 1) * Q)
      BY <2>2, <1>1 DEF IInv, Ranges
    <3>2. -y < r[i] /\ r[i] < y
      BY <3>1, <1>5 DEF Bounded
    <3> QED
      BY <3>2, <2>2, <1>1
  <2> QED
    BY <2>1, <2>2
<1>7. Accumulated[i] = c + m /\ -(y + q) < c + m /\ c + m < y + q
  BY <1>4, <1>5, <1>6
<1>8. p * Q = y + q /\ p * Q <= (L + 1) * Q
  BY <1>5
<1> QED
  BY <1>1, <1>5, <1>7, <1>8

LEMMA AccInv ==
  ASSUME IInv, Acc
  PROVE  IInv'
<1>1. /\ pc = "acc" /\ p <= Terms /\ r' = Keep(Accumulated) /\ p' = p + 1
      /\ UNCHANGED <<in, x, pc, layer, start, k>>
  BY DEF Acc
<1>2. ASSUME NEW i \in Idx
      PROVE  /\ Accumulated[i] \in Int /\ Wrap(Accumulated[i]) = Accumulated[i]
             /\ -(p * Q) < Accumulated[i] /\ Accumulated[i] < p * Q
  <2>1. PICK a \in Int, c \in Int, d \in Int :
          /\ a = Accumulated[i] /\ c = p * Q /\ d = (L + 1) * Q
          /\ c <= d /\ -c < a /\ a < c
    BY <1>1, AccumulatedBound, DsaConstants
  <2>2. Fits(a)
    <3>1. -((L + 1) * Q) < a /\ a < (L + 1) * Q
      BY <2>1
    <3> QED
      BY <3>1, SumReduced
  <2> QED
    BY <2>1, <2>2, WrapFits
<1>3. r' \in Poly /\ \A i \in Idx : r'[i] = Accumulated[i]
  BY <1>1, <1>2 DEF Keep, Poly
<1>4. 0 \in Idx /\ p \in Int /\ 1 <= p /\ p <= L
  <2>1. 0 \in Idx
    BY NttConstants DEF Idx
  <2> QED
    BY <2>1, <1>1, AccumulatedBound
<1>5. TypeOK'
  BY <1>1, <1>3, <1>4, DsaConstants, OperandsKept DEF IInv, TypeOK, Poly, Idx
<1>6. Placed'
  BY <1>1 DEF IInv, Placed, Layers, Blocks
<1>7. Ranges'
  <2>1. p' > 0 /\ p' <= Terms + 1 /\ p' - 1 = p
    BY <1>1, <1>4, DsaConstants DEF Terms
  <2>2. Bounded(r', (p' - 1) * Q)
    BY <1>2, <1>3, <2>1 DEF Bounded
  <2> QED
    BY <1>1, <2>1, <2>2, OperandsKept DEF Ranges, Standard, Bounded, Idx, Terms
<1> QED
  BY <1>5, <1>6, <1>7 DEF IInv

LEMMA AccDoneInv ==
  ASSUME IInv, AccDone
  PROVE  IInv'
<1> DEFINE f == IF in.use = "row" THEN poly_reduce(r) ELSE r
<1>1. /\ pc = "acc" /\ p > Terms /\ pc' = IF in.use = "verify" THEN "sub" ELSE "inv"
      /\ Enter(Layers, Blocks - 1, f) /\ UNCHANGED <<in, x, p>>
  BY DEF AccDone
<1>2. /\ r \in Poly /\ in.use \in {"row", "verify", "respond"} /\ Placed
      /\ p \in Int /\ p = Terms + 1 /\ p > 1 /\ Bounded(r, Terms * Q)
  <2>1. in \in Inputs /\ r \in Poly /\ Placed /\ p <= Terms + 1 /\ p \in Int
    BY <1>1, DsaConstants DEF IInv, TypeOK, Ranges
  <2>2. Terms \in Int /\ Terms >= 1
    BY DsaConstants DEF Terms
  <2>3. p = Terms + 1 /\ p > 1 /\ p - 1 = Terms
    BY <2>1, <2>2, <1>1
  <2>4. Bounded(r, (p - 1) * Q)
    BY <2>3, <1>1 DEF IInv, Ranges
  <2> QED
    BY <2>1, <2>3, <2>4, InputFacts
<1>3. CASE in.use = "row"
  <2>1. ASSUME NEW i \in Idx PROVE f[i] \in Int /\ -Q < f[i] /\ f[i] < Q
    <3>1. r[i] \in Int /\ -(L * Q) < r[i] /\ r[i] < L * Q
      BY <1>2, <1>3 DEF Bounded, Poly, Terms
    <3>2. PICK c \in Int, d \in Int : c = L * Q /\ d = (L + 1) * Q /\ c <= d
      <4>1. PICK l \in Int, q \in Int : l = L /\ q = Q /\ q > 0
        BY DsaConstants, Constants
      <4>2. l * q <= (l + 1) * q
        BY <4>1
      <4>3. PICK c \in Int, d \in Int : c = l * q /\ d = (l + 1) * q
        OBVIOUS
      <4> QED
        BY <4>1, <4>2, <4>3
    <3>3. -((L + 1) * Q) < r[i] /\ r[i] < (L + 1) * Q
      BY <3>1, <3>2
    <3>4. f[i] = reduce32(Wrap(r[i]))
      BY <1>3 DEF poly_reduce
    <3> QED
      BY <3>1, <3>3, <3>4, SumReduced
  <2>2. f \in Poly /\ Bounded(f, Q)
    BY <2>1, <1>3 DEF Poly, Bounded, poly_reduce
  <2>3. r' = f /\ Placed' /\ InverseRoot' /\ layer' <= Layers /\ layer' = Layers /\ start' = 0
    BY <1>1, <2>2, EnterInverse DEF Enter
  <2>4. InverseRange'
    <3>1. Lens[Layers] = 1 /\ \A i \in Idx : ~(i < 0)
      BY DsaPolyAssumption DEF Idx
    <3>2. \A i \in Idx : -(1 * Q) < r'[i] /\ r'[i] < 1 * Q
      BY <2>2, <2>3, Constants DEF Bounded
    <3>3. Layers # 0
      BY NttConstants
    <3> QED
      BY <2>3, <3>1, <3>2, <3>3 DEF InverseRange, Layers, Idx
  <2>5. TypeOK'
    BY <1>1, <1>2, <1>3, <2>2, <2>3, OperandsKept DEF IInv, TypeOK, Poly, Idx
  <2>6. Ranges'
    BY <1>1, <1>3, <2>3, <2>4, OperandsKept DEF Ranges, Standard
  <2> QED
    BY <2>3, <2>5, <2>6 DEF IInv
<1>4. CASE in.use = "respond"
  <2>1. r' = r /\ Placed' /\ InverseRoot' /\ layer' <= Layers /\ layer' = Layers /\ start' = 0
    BY <1>1, <1>2, <1>4, EnterInverse DEF Enter
  <2>2. Bounded(r, 1 * Q)
    BY <1>2, <1>4 DEF Terms
  <2>3. InverseRange'
    <3>1. Lens[Layers] = 1 /\ \A i \in Idx : ~(i < 0)
      BY DsaPolyAssumption DEF Idx
    <3>2. \A i \in Idx : -(1 * Q) < r'[i] /\ r'[i] < 1 * Q
      BY <2>1, <2>2 DEF Bounded
    <3>3. Layers # 0
      BY NttConstants
    <3> QED
      BY <2>1, <3>1, <3>2, <3>3 DEF InverseRange, Layers, Idx
  <2>4. TypeOK'
    BY <1>1, <1>2, <1>4, <2>1, OperandsKept DEF IInv, TypeOK, Poly, Idx
  <2>5. Ranges'
    BY <1>1, <1>4, <2>1, <2>3, OperandsKept DEF Ranges, Standard
  <2> QED
    BY <2>1, <2>4, <2>5 DEF IInv
<1>5. CASE in.use = "verify"
  <2>1. /\ r' = r /\ Placed' /\ pc' = "sub"
        /\ layer' = Layers /\ start' = 0 /\ k' = Blocks - 1
    BY <1>1, <1>2, <1>5, EnterInverse DEF Enter
  <2>2. Bounded(r, L * Q)
    BY <1>2, <1>5 DEF Terms
  <2>3. TypeOK'
    BY <1>1, <1>2, <1>5, <2>1, OperandsKept DEF IInv, TypeOK, Poly, Idx
  <2>4. p' > 0 /\ p' <= Terms' + 1
    BY <1>1, <1>2 DEF Terms
  <2>5. Ranges'
    BY <1>1, <1>5, <2>1, <2>2, <2>4, OperandsKept DEF Ranges, Standard, Bounded, Idx, Layers, Blocks
  <2> QED
    BY <2>1, <2>3, <2>5 DEF IInv
<1> QED
  BY <1>2, <1>3, <1>4, <1>5

\* A product of transformed polynomials subtracted from the sum.
LEMMA SubtractedBound ==
  ASSUME IInv, pc = "sub", NEW i \in Idx
  PROVE  /\ Subtracted[i] \in Int
         /\ -((L + 1) * Q) < Subtracted[i] /\ Subtracted[i] < (L + 1) * Q
<1>1. in.use = "verify" /\ Bounded(r, L * Q) /\ r \in Poly
  BY DEF IInv, TypeOK, Ranges
<1>2. 0 \in First(in.use) .. Last(in.use) /\ L + 1 \in First(in.use) .. Last(in.use)
  BY <1>1, DsaConstants DEF First, Last
<1>3. /\ x[0][i] \in Int /\ -((Layers + 1) * Q) < x[0][i] /\ x[0][i] < (Layers + 1) * Q
      /\ x[L + 1][i] \in Int
      /\ -((Layers + 1) * Q) < x[L + 1][i] /\ x[L + 1][i] < (Layers + 1) * Q
  BY <1>2, Operand
<1>4. PICK m \in Int : Subtracted[i] = r[i] - m /\ -Q < m /\ m < Q
  <2>1. /\ fqmul(x[0][i], x[L + 1][i]) \in Int
        /\ -Q < fqmul(x[0][i], x[L + 1][i]) /\ fqmul(x[0][i], x[L + 1][i]) < Q
    BY <1>3, UnreducedProduct
  <2>2. Subtracted[i] = r[i] - fqmul(x[0][i], x[L + 1][i])
    BY DEF Subtracted, poly_pointwise_montgomery
  <2> QED
    BY <2>1, <2>2
<1>5. r[i] \in Int /\ -(L * Q) < r[i] /\ r[i] < L * Q
  BY <1>1 DEF Bounded, Poly
<1>6. PICK q \in Int, y \in Int : q = Q /\ y = L * Q /\ (L + 1) * Q = y + q
  <2>1. PICK l \in Int, q \in Int : l = L /\ q = Q
    BY DsaConstants, Constants
  <2>2. (l + 1) * q = (l * q) + q
    OBVIOUS
  <2> QED
    BY <2>1, <2>2
<1> QED
  BY <1>4, <1>5, <1>6

LEMMA SubReduceInv ==
  ASSUME IInv, SubReduce
  PROVE  IInv'
<1>1. /\ pc = "sub" /\ pc' = "inv" /\ r' = poly_reduce(Subtracted)
      /\ UNCHANGED <<in, x, p, layer, start, k>>
  BY DEF SubReduce
<1>2. Placed /\ layer = Layers /\ start = 0 /\ k = Blocks - 1
  BY <1>1 DEF IInv, Ranges
<1>3. ASSUME NEW i \in Idx PROVE r'[i] \in Int /\ -Q < r'[i] /\ r'[i] < Q
  <2>1. /\ Subtracted[i] \in Int
        /\ -((L + 1) * Q) < Subtracted[i] /\ Subtracted[i] < (L + 1) * Q
    BY <1>1, SubtractedBound
  <2>2. r'[i] = reduce32(Wrap(Subtracted[i]))
    BY <1>1 DEF poly_reduce
  <2> QED
    BY <2>1, <2>2, SumReduced
<1>4. r' \in Poly
  BY <1>1, <1>3 DEF Poly, poly_reduce
<1>5. TypeOK' /\ Placed'
  BY <1>1, <1>4, OperandsKept DEF IInv, TypeOK, Placed, Layers, Blocks, Poly, Idx
<1>6. InverseRoot'
  BY <1>1, <1>2, Beginning DEF InverseRoot, Layers, Blocks
<1>7. InverseRange'
  <2>1. Lens[Layers] = 1 /\ (\A i \in Idx : ~(i < 0)) /\ Layers # 0 /\ Layers <= Layers
    BY DsaPolyAssumption, NttConstants DEF Idx
  <2>2. \A i \in Idx : -(1 * Q) < r'[i] /\ r'[i] < 1 * Q
    BY <1>3, Constants
  <2> QED
    BY <1>1, <1>2, <2>1, <2>2 DEF InverseRange, Layers, Idx
<1>8. Ranges'
  BY <1>1, <1>6, <1>7, OperandsKept DEF Ranges, Standard
<1> QED
  BY <1>5, <1>8 DEF IInv

\* What a block of the inverse transform adds and subtracts.
LEMMA DifferencesBound ==
  ASSUME IInv, pc = "inv", layer > 0, NEW i \in Idx
  PROVE  /\ layer \in 1 .. Layers
         /\ Differences[i] \in Int /\ Fits(Differences[i])
         /\ i < start + (2 * Lens[layer])
              => /\ -((2 * Lens[layer]) * Q) < Differences[i]
                 /\ Differences[i] < (2 * Lens[layer]) * Q
         /\ i >= start + (2 * Lens[layer])
              => -(Lens[layer] * Q) < Differences[i] /\ Differences[i] < Lens[layer] * Q
<1>1. Placed /\ InverseRange /\ r \in Poly /\ layer \in 1 .. Layers
  <2>1. Placed /\ InverseRange /\ r \in Poly
    BY DEF IInv, Ranges, TypeOK
  <2>2. layer \in 1 .. Layers
    BY <2>1, NttConstants DEF Placed, InverseRange
  <2> QED
    BY <2>1, <2>2
<1>2. PICK q \in Int, len \in Int, n \in Int, h \in Int, s \in Int, lq \in Int :
        /\ q = Q /\ q > 0 /\ len = Lens[layer] /\ len > 0 /\ n = N /\ h = Half /\ s = start
        /\ lq = len * q
  BY <1>1, Constants, NttConstants DEF Placed
<1>3. (2 * len) * q = 2 * lq /\ lq > 0
  BY <1>2
<1>4. 2 * lq <= h
  <2>1. \E m \in Int : m > 0 /\ n = (2 * len) * m
    BY <1>1, <1>2, NttAssumption
  <2>2. 2 * len <= n
    BY <2>1, <1>2
  <2>3. (2 * len) * q <= n * q
    BY <2>2, <1>2
  <2>4. n * q <= h
    BY <1>2, DsaConstants
  <2>5. PICK y \in Int, z \in Int : y = (2 * len) * q /\ z = n * q
    OBVIOUS
  <2> QED
    BY <2>3, <2>4, <2>5, <1>3
<1>5. (2 * Lens[layer]) * Q = 2 * lq /\ Lens[layer] * Q = lq
  BY <1>2, <1>3
<1>6. ASSUME NEW j \in Idx
      PROVE  /\ r[j] \in Int
             /\ j < s => -(2 * lq) < r[j] /\ r[j] < 2 * lq
             /\ j >= s => -lq < r[j] /\ r[j] < lq
  <2>1. r[j] \in Int /\ j \in Int /\ layer # 0
    BY <1>1 DEF Poly, Idx
  <2>2. LET b == (IF j < start THEN 2 * Lens[layer] ELSE Lens[layer]) * Q
        IN  -b < r[j] /\ r[j] < b
    BY <1>1, <2>1 DEF InverseRange
  <2>3. CASE j < s
    BY <2>1, <2>2, <2>3, <1>2, <1>5
  <2>4. CASE j >= s
    <3>1. ~(j < start)
      BY <2>4, <2>1, <1>2
    <3> QED
      BY <3>1, <2>1, <2>2, <2>4, <1>2, <1>5
  <2> QED
    BY <2>1, <2>3, <2>4
<1>7. i \in Int
  BY DEF Idx
<1>8. CASE Lower(i)
  <2>1. i >= s /\ i + len \in Idx /\ i + len >= s /\ Differences[i] = r[i] + r[i + len]
        /\ i < s + (2 * len)
    BY <1>1, <1>2, <1>8, BlockIndices DEF Differences, Lower
  <2> QED
    BY <2>1, <1>1, <1>2, <1>3, <1>4, <1>5, <1>6, <1>7 DEF Fits
<1>9. CASE Upper(i)
  <2>1. i >= s /\ i - len \in Idx /\ i - len >= s /\ Differences[i] = r[i - len] - r[i]
        /\ i < s + (2 * len)
    BY <1>1, <1>2, <1>9, BlockIndices DEF Differences, Upper
  <2> QED
    BY <2>1, <1>1, <1>2, <1>3, <1>4, <1>5, <1>6, <1>7 DEF Fits
<1>10. CASE ~Lower(i) /\ ~Upper(i)
  <2>1. Differences[i] = r[i] /\ (i < s \/ i >= s + (2 * len))
    BY <1>1, <1>2, <1>10, BlockIndices DEF Differences
  <2> QED
    BY <2>1, <1>1, <1>2, <1>3, <1>4, <1>5, <1>6, <1>7 DEF Fits
<1> QED
  BY <1>8, <1>9, <1>10

LEMMA InverseBlockInv ==
  ASSUME IInv, InverseBlock
  PROVE  IInv'
<1>1. /\ pc = "inv" /\ layer > 0 /\ Advance(-1) /\ UNCHANGED <<in, x, pc, p>>
      /\ r' = [i \in Idx |-> IF Upper(i) THEN fqmul(-Zetas[k], Wrap(Differences[i]))
                             ELSE Wrap(Differences[i])]
  BY DEF InverseBlock
<1>2. Placed /\ InverseRoot /\ r \in Poly /\ layer \in 1 .. Layers
  <2>1. 0 \in Idx
    BY NttConstants DEF Idx
  <2> QED
    BY <1>1, <2>1, DifferencesBound DEF IInv, Ranges, TypeOK
<1>3. Placed' /\ InverseRoot' /\ layer' <= Layers
  BY <1>1, <1>2, InverseStep
<1>4. PICK z \in Int : z = -Zetas[k] /\ -Q < z /\ z < Q
  <2>1. k \in 0 .. Blocks - 1
    BY <1>1, <1>2, RootInTable DEF InverseRoot, Placed
  <2>2. Zetas[k] \in Int /\ -Q < Zetas[k] /\ Zetas[k] < Q
    BY <2>1, ZetaBound
  <2> QED
    BY <2>2, Constants
<1>5. PICK q \in Int, len \in Int, lq \in Int, s \in Int :
        /\ q = Q /\ q > 0 /\ len = Lens[layer] /\ len > 0 /\ lq = len * q /\ q <= lq
        /\ (2 * Lens[layer]) * Q = 2 * lq /\ Lens[layer] * Q = lq /\ s = start
  <2>1. PICK q \in Int, len \in Int : q = Q /\ q > 0 /\ len = Lens[layer] /\ len > 0
    BY <1>2, Constants, NttConstants
  <2>2. q <= len * q /\ (2 * len) * q = 2 * (len * q)
    BY <2>1
  <2> QED
    BY <2>1, <2>2, <1>2 DEF Placed
<1>6. ASSUME NEW i \in Idx
      PROVE  /\ r'[i] \in Int
             /\ i < s + (2 * len) => -(2 * lq) < r'[i] /\ r'[i] < 2 * lq
             /\ i >= s + (2 * len) => -lq < r'[i] /\ r'[i] < lq
  <2>1. PICK d \in Int :
          /\ d = Differences[i] /\ Wrap(d) = d /\ -Half <= d /\ d <= Half
          /\ i < s + (2 * len) => -(2 * lq) < d /\ d < 2 * lq
          /\ i >= s + (2 * len) => -lq < d /\ d < lq
    <3>1. /\ Differences[i] \in Int /\ Fits(Differences[i])
          /\ i < start + (2 * Lens[layer])
               => -((2 * Lens[layer]) * Q) < Differences[i] /\ Differences[i] < (2 * Lens[layer]) * Q
          /\ i >= start + (2 * Lens[layer])
               => -(Lens[layer] * Q) < Differences[i] /\ Differences[i] < Lens[layer] * Q
      BY <1>1, DifferencesBound
    <3>2. PICK d \in Int : d = Differences[i]
      BY <3>1
    <3>3. -Half <= d /\ d <= Half
      BY <3>1, <3>2, Constants DEF Fits
    <3>4. Wrap(d) = d
      BY <3>1, <3>2, WrapFits
    <3> QED
      BY <3>1, <3>2, <3>3, <3>4, <1>5
  <2>2. CASE Upper(i)
    <3>1. r'[i] = fqmul(z, d)
      BY <1>1, <1>4, <2>1, <2>2
    <3>2. fqmul(z, d) \in Int /\ -Q < fqmul(z, d) /\ fqmul(z, d) < Q
      BY <1>4, <2>1, DsaConstants, Reduced
    <3> QED
      BY <3>1, <3>2, <1>5
  <2>3. CASE ~Upper(i)
    <3>1. r'[i] = d
      BY <1>1, <2>1, <2>3
    <3> QED
      BY <3>1, <2>1
  <2> QED
    BY <2>2, <2>3
<1>7. r' \in Poly
  BY <1>1, <1>6 DEF Poly
<1>8. TypeOK'
  BY <1>1, <1>7, OperandsKept DEF IInv, TypeOK, Poly, Idx
<1>9. InverseRange'
  <2>1. \/ layer' = layer /\ start' = start + (2 * Lens[layer])
        \/ layer' = layer + (-1) /\ start' = 0 /\ start + (2 * Lens[layer]) = N
    BY <1>1, <1>2, NextBlock
  <2>2. CASE layer' = layer /\ start' = start + (2 * Lens[layer])
    <3>1. ASSUME NEW i \in Idx
          PROVE  LET b == (IF i < start' THEN 2 * Lens[layer] ELSE Lens[layer]) * Q
                 IN  -b < r'[i] /\ r'[i] < b
      <4>1. i \in Int /\ start' = s + (2 * len) /\ s \in Int
        BY <2>2, <1>5 DEF Idx
      <4>2. CASE i < start'
        BY <4>1, <4>2, <1>5, <1>6
      <4>3. CASE ~(i < start')
        <5>1. i >= s + (2 * len)
          BY <4>1, <4>3, <1>5
        <5> QED
          BY <5>1, <4>3, <1>5, <1>6
      <4> QED
        BY <4>2, <4>3
    <3>2. layer # 0
      BY <1>2, NttConstants
    <3> QED
      BY <2>2, <3>1, <3>2, <1>3 DEF InverseRange, Idx, Layers
  <2>3. CASE layer' = layer + (-1) /\ start' = 0 /\ start + (2 * Lens[layer]) = N
    <3>1. ASSUME NEW i \in Idx PROVE -(2 * lq) < r'[i] /\ r'[i] < 2 * lq /\ ~(i < 0)
      <4>1. i < N /\ i >= 0 /\ i \in Int
        BY NttConstants DEF Idx
      <4>2. s + (2 * len) = N
        BY <2>3, <1>5
      <4> QED
        BY <4>1, <4>2, <1>6
    <3>2. CASE layer = 1
      <4>1. N * Q = 2 * lq
        BY <3>2, <1>5, NttAssumption
      <4>2. layer' = 0
        BY <2>3, <3>2
      <4> QED
        BY <3>1, <4>1, <4>2, <1>3 DEF InverseRange, Bounded, Idx, Layers
    <3>3. CASE layer # 1
      <4>1. layer' \in 1 .. Layers /\ layer' < Layers /\ layer' + 1 = layer /\ layer' # 0
        BY <2>3, <3>3, <1>2, NttConstants
      <4>2. Lens[layer'] = 2 * Lens[layer]
        BY <4>1, NttConstants
      <4>3. Lens[layer'] * Q = 2 * lq
        BY <4>2, <1>5
      <4> QED
        BY <2>3, <3>1, <4>1, <4>3, <1>3 DEF InverseRange, Idx, Layers
    <3> QED
      BY <3>2, <3>3
  <2> QED
    BY <2>1, <2>2, <2>3
<1>10. Ranges'
  BY <1>1, <1>3, <1>9, OperandsKept DEF Ranges, Standard
<1> QED
  BY <1>3, <1>8, <1>10 DEF IInv

LEMMA InverseDoneInv ==
  ASSUME IInv, InverseDone
  PROVE  IInv'
<1>1. /\ pc = "inv" /\ layer = 0 /\ pc' = "add" /\ r' = [i \in Idx |-> fqmul(F, r[i])]
      /\ UNCHANGED <<in, x, p, layer, start, k>>
  BY DEF InverseDone
<1>2. r \in Poly /\ Bounded(r, N * Q)
  BY <1>1 DEF IInv, TypeOK, Ranges, InverseRange
<1>3. ASSUME NEW i \in Idx
      PROVE  r'[i] \in Int /\ 2 * Magnitude(r'[i]) <= Magnitude(F) + Q
  <2>1. r[i] \in Int /\ -(N * Q) < r[i] /\ r[i] < N * Q
    BY <1>2 DEF Bounded, Poly
  <2>2. r'[i] = fqmul(F, r[i])
    BY <1>1
  <2> QED
    BY <2>1, <2>2, LastFactor
<1>4. r' \in Poly
  BY <1>1, <1>3 DEF Poly
<1>5. TypeOK' /\ Placed'
  BY <1>1, <1>4, OperandsKept DEF IInv, TypeOK, Placed, Layers, Blocks, Poly, Idx
<1>6. Ranges'
  BY <1>1, <1>3, OperandsKept DEF Ranges, Standard, Magnitude, Idx
<1> QED
  BY <1>5, <1>6 DEF IInv

\* The last sum.
LEMMA AddedBound ==
  ASSUME IInv, pc = "add", NEW i \in Idx
  PROVE  /\ Added[i] \in Int
         /\ -((L + 1) * Q) < Added[i] /\ Added[i] < (L + 1) * Q
         /\ in.use # "respond" => -Q < Added[i] /\ Added[i] < Q
<1>1. in \in Inputs /\ r[i] \in Int /\ 2 * Magnitude(r[i]) <= Magnitude(F) + Q
  BY DEF IInv, TypeOK, Ranges, Poly
<1>2. PICK q \in Int, g \in Int, s \in Int, c \in Int :
        /\ q = Q /\ q > 0 /\ g = Magnitude(F) /\ g >= 0 /\ s = Small /\ s >= 0
        /\ g + (2 * s) < q /\ c = (L + 1) * Q /\ 2 * q <= c
  <2>1. Magnitude(F) \in Int /\ Magnitude(F) >= 0
    BY DsaConstants DEF Magnitude
  <2>2. Magnitude(F) + (2 * Small) < Q
    BY DsaPolyAssumption
  <2> QED
    BY <2>1, <2>2, DsaConstants, Constants
<1>3. PICK a \in Int : a = r[i] /\ 2 * a <= g + q /\ -(2 * a) <= g + q
  BY <1>1, <1>2 DEF Magnitude
<1>4. /\ in.use \in {"row", "verify", "respond"} /\ in.e[i] \in Int
      /\ in.use = "respond" => -Q < in.e[i] /\ in.e[i] < Q
      /\ in.use = "row" => -(Small + 1) < in.e[i] /\ in.e[i] < Small + 1
  <2>1. /\ in.use \in {"row", "verify", "respond"} /\ in.e \in Poly
        /\ Bounded(in.e, IF in.use = "respond" THEN Q ELSE Small + 1)
    BY <1>1, InputFacts
  <2> QED
    BY <2>1 DEF Bounded, Poly
<1>5. CASE in.use = "verify"
  <2>1. Added[i] = a
    BY <1>3, <1>5 DEF Added
  <2> QED
    BY <2>1, <1>2, <1>3
<1>6. CASE in.use = "row"
  <2>1. PICK e \in Int : e = in.e[i] /\ -s <= e /\ e <= s
    BY <1>2, <1>4, <1>6
  <2>2. Added[i] = a + e
    BY <2>1, <1>3, <1>6 DEF Added
  <2> QED
    BY <2>1, <2>2, <1>2, <1>3
<1>7. CASE in.use = "respond"
  <2>1. PICK e \in Int : e = in.e[i] /\ -q < e /\ e < q
    BY <1>2, <1>4, <1>7
  <2>2. Added[i] = a + e
    BY <2>1, <1>3, <1>7 DEF Added
  <2> QED
    BY <2>1, <2>2, <1>2, <1>3, <1>7
<1> QED
  BY <1>4, <1>5, <1>6, <1>7

LEMMA AddFreezeInv ==
  ASSUME IInv, AddFreeze
  PROVE  IInv'
<1>1. /\ pc = "add" /\ pc' = "done" /\ UNCHANGED <<in, x, p, layer, start, k>>
      /\ r' = IF in.use = "respond" THEN poly_reduce(Added)
              ELSE [i \in Idx |-> caddq(Wrap(Added[i]))]
  BY DEF AddFreeze
<1>2. ASSUME NEW i \in Idx
      PROVE  /\ r'[i] \in Int /\ -Q < r'[i] /\ r'[i] < Q
             /\ in.use # "respond" => -1 < r'[i]
  <2>1. /\ Added[i] \in Int
        /\ -((L + 1) * Q) < Added[i] /\ Added[i] < (L + 1) * Q
        /\ in.use # "respond" => -Q < Added[i] /\ Added[i] < Q
    BY <1>1, AddedBound
  <2>2. CASE in.use = "respond"
    <3>1. r'[i] = reduce32(Wrap(Added[i]))
      BY <1>1, <2>2 DEF poly_reduce
    <3> QED
      BY <3>1, <2>1, <2>2, SumReduced
  <2>3. CASE in.use # "respond"
    <3>1. r'[i] = caddq(Added[i])
      <4>1. Wrap(Added[i]) = Added[i]
        BY <2>1, SumReduced, WrapFits
      <4> QED
        BY <4>1, <1>1, <2>3
    <3>2. PICK a \in Int, q \in Int : a = Added[i] /\ q = Q /\ q > 0 /\ -q < a /\ a < q
      BY <2>1, <2>3, Constants
    <3>3. Wrap(a + q) = a + q \/ a >= 0
      <4>1. a < 0 => Fits(a + q)
        BY <3>2, Constants, DsaConstants DEF Fits
      <4> QED
        BY <4>1, <3>2, WrapFits
    <3> QED
      BY <3>1, <3>2, <3>3 DEF caddq
  <2> QED
    BY <2>2, <2>3
<1>3. r' \in Poly
  BY <1>1, <1>2 DEF Poly, poly_reduce
<1>4. TypeOK' /\ Placed'
  BY <1>1, <1>3, OperandsKept DEF IInv, TypeOK, Placed, Layers, Blocks, Poly, Idx
<1>5. Ranges'
  <2>1. Standard'
    BY <1>1, <1>2 DEF Standard, Idx
  <2> QED
    BY <1>1, <2>1, OperandsKept DEF Ranges
<1> QED
  BY <1>4, <1>5 DEF IInv

\* The transforms, products and sums keep their places, roots and ranges.
THEOREM DsaPolyInv == Spec => []IInv
<1>1. Init => IInv
  BY InitInv
<1>2. IInv /\ [Next]_vars => IInv'
  <2> SUFFICES ASSUME IInv, [Next]_vars PROVE IInv'
    OBVIOUS
  <2>1. CASE Next
    BY <2>1, NttBlockInv, NttDoneInv, AccInv, AccDoneInv, SubReduceInv, InverseBlockInv,
       InverseDoneInv, AddFreezeInv DEF Next
  <2>2. CASE UNCHANGED vars
    BY <2>2 DEF vars, IInv, TypeOK, Placed, Ranges, Standard, Terms, ForwardRoot, InverseRoot,
                ForwardRange, InverseRange, Bounded, Poly, Idx, Layers, Blocks
  <2> QED
    BY <2>1, <2>2
<1> QED
  BY <1>1, <1>2, PTL DEF Spec

\* No sum or difference of coefficients leaves int32_t, although ntt and
\* invntt_tomont reduce nothing and a sum of products is reduced once.
THEOREM DsaNoOverflow == Spec => []NoOverflow
<1>1. IInv => NoOverflow
  <2> SUFFICES ASSUME IInv PROVE NoOverflow
    OBVIOUS
  <2>1. Half > 0 /\ Half \in Int /\ Shift \div 2 \in Int /\ 0 <= Shift \div 2 /\ Shift \div 2 < Half
    <3>1. PICK t \in Int : t = Shift \div 2 /\ 2 * t <= Shift /\ Shift < (2 * t) + 2
      BY Constants, Quotient
    <3>2. Shift <= Half
      BY DsaPolyAssumption
    <3> QED
      BY <3>1, <3>2, Constants
  <2>2. ASSUME NEW i \in Idx
        PROVE  Fits(Sums[i]) /\ (pc \in {"acc", "sub", "add"} => Fits(Sums[i] + (Shift \div 2)))
    <3>1. CASE pc = "ntt" /\ layer <= Layers
      <4>1. layer \in 1 .. Layers
        BY <3>1, NttConstants DEF IInv, Ranges, ForwardRange, Placed
      <4>2. Fits(Forward[i])
        BY <3>1, <4>1, ForwardFits, DsaConstants DEF IInv, Ranges, TypeOK
      <4> QED
        BY <3>1, <4>2 DEF Sums
    <3>2. CASE pc = "acc" /\ p <= Terms
      <4>1. PICK a \in Int, c \in Int, d \in Int :
              a = Accumulated[i] /\ c = p * Q /\ d = (L + 1) * Q /\ c <= d /\ -c < a /\ a < c
        BY <3>2, AccumulatedBound, DsaConstants
      <4>2. -((L + 1) * Q) < a /\ a < (L + 1) * Q
        BY <4>1
      <4>3. Fits(a) /\ Fits(a + (Shift \div 2))
        BY <4>2, SumReduced
      <4> QED
        BY <3>2, <4>1, <4>3 DEF Sums
    <3>3. CASE pc = "sub"
      BY <3>3, SubtractedBound, SumReduced DEF Sums
    <3>4. CASE pc = "inv" /\ layer > 0
      BY <3>4, DifferencesBound DEF Sums
    <3>5. CASE pc = "add"
      BY <3>5, AddedBound, SumReduced DEF Sums
    <3>6. CASE /\ ~(pc = "ntt" /\ layer <= Layers) /\ ~(pc = "acc" /\ p <= Terms) /\ pc # "sub"
               /\ ~(pc = "inv" /\ layer > 0) /\ pc # "add"
      <4>1. Sums[i] = 0
        BY <3>6 DEF Sums
      <4> QED
        BY <4>1, <2>1 DEF Fits
    <3> QED
      BY <3>1, <3>2, <3>3, <3>4, <3>5, <3>6
  <2> QED
    BY <2>2 DEF NoOverflow
<1> QED
  BY <1>1, DsaPolyInv, PTL

-----------------------------------------------------------------------------
\* Induction over a set of naturals: the library's induction theorem for
\* well-founded relations in the form of a minimal element.
Less == {ss \in Nat \X Nat : ss[1] < ss[2]}

LEMMA LessWellFounded == IsWellFoundedOn(Less, Nat)
  BY NatLessThanWellFounded DEF OpToRel, Less

LEMMA SetInduction ==
  ASSUME NEW S, 0 \in S, \A n \in Nat : n \in S => n + 1 \in S
  PROVE  Nat \subseteq S
<1> SUFFICES ASSUME Nat \ S # {} PROVE FALSE
  OBVIOUS
<1>1. PICK z \in Nat \ S : \A y \in Nat \ S : ~ (<<y, z>> \in Less)
  <2> DEFINE T == Nat \ S
  <2>1. T \subseteq Nat /\ T # {}
    OBVIOUS
  <2> HIDE DEF T
  <2>2. \E z \in T : \A y \in T : ~ (<<y, z>> \in Less)
    BY <2>1, WFMin, LessWellFounded
  <2>. QED
    BY <2>2 DEF T
<1>2. \A y \in Nat \ S : ~(y < z)
  BY <1>1 DEF Less
<1>3. z - 1 \in Nat /\ z - 1 < z /\ z - 1 \in S
  BY <1>2
<1>. QED
  BY <1>3

-----------------------------------------------------------------------------
\* Bytes a .. e - 1 are strictly increasing; and their set.
Increasing(s, a, e) == \A j, l \in a .. e - 1 : j < l => s[j] < s[l]
Span(s, a, e) == {s[j] : j \in a .. e - 1}

\* Neighbours that increase, as unpack_sig compares them, are enough.
LEMMA Neighbours ==
  ASSUME NEW s \in [Index -> Byte], NEW a \in Nat, NEW e \in Nat, e <= OMEGA,
         \A j \in a + 1 .. e - 1 : s[j] > s[j - 1]
  PROVE  Increasing(s, a, e)
<1> DEFINE T == {n \in Nat : \A j, l \in a .. e - 1 : l = j + n + 1 => s[j] < s[l]}
<1>1. \A j \in a .. e - 1 : s[j] \in Int
  BY HintsAssumption DEF Index, Byte
<1>2. 0 \in T
  <2> SUFFICES ASSUME NEW j \in a .. e - 1, NEW l \in a .. e - 1, l = j + 0 + 1
               PROVE  s[j] < s[l]
    OBVIOUS
  <2>1. l \in a + 1 .. e - 1 /\ j = l - 1
    OBVIOUS
  <2> QED
    BY <2>1, <1>1
<1>3. ASSUME NEW n \in Nat, n \in T PROVE n + 1 \in T
  <2> SUFFICES ASSUME NEW j \in a .. e - 1, NEW l \in a .. e - 1, l = j + (n + 1) + 1
               PROVE  s[j] < s[l]
    OBVIOUS
  <2>1. l - 1 \in a .. e - 1 /\ l - 1 = j + n + 1 /\ l \in a + 1 .. e - 1
    OBVIOUS
  <2>2. s[j] < s[l - 1] /\ s[l] > s[l - 1]
    BY <2>1, <1>3
  <2> QED
    BY <2>1, <2>2, <1>1
<1> HIDE DEF T
<1>4. Nat \subseteq T
  BY <1>2, <1>3, SetInduction
<1>5. ASSUME NEW j \in a .. e - 1, NEW l \in a .. e - 1, j < l PROVE s[j] < s[l]
  <2>1. PICK n \in Nat : l = j + n + 1
    <3>1. l - j - 1 \in Nat /\ l = j + (l - j - 1) + 1
      BY <1>5
    <3> QED
      BY <3>1
  <2>2. n \in T
    BY <1>4
  <2> QED
    BY <2>1, <2>2 DEF T
<1> QED
  BY <1>5 DEF Increasing

Below(S, z) == {y \in S : y < z}

\* Of increasing bytes as many are smaller than one as stand before it.
LEMMA SpanRank ==
  ASSUME NEW s \in [Index -> Byte], NEW a \in Nat, NEW e \in Nat, a <= e, e <= OMEGA,
         Increasing(s, a, e)
  PROVE  /\ IsFiniteSet(Span(s, a, e)) /\ Cardinality(Span(s, a, e)) = e - a
         /\ \A j \in a .. e - 1 : Cardinality(Below(Span(s, a, e), s[j])) = j - a
<1>1. \A j \in a .. e - 1 : s[j] \in Int
  BY HintsAssumption DEF Index, Byte
<1>2. ASSUME NEW f \in a .. e
      PROVE  IsFiniteSet(Span(s, a, f)) /\ Cardinality(Span(s, a, f)) = f - a
  <2> DEFINE g == [j \in a .. f - 1 |-> s[j]]
  <2>1. g \in [a .. f - 1 -> Span(s, a, f)]
    BY DEF Span
  <2>2. \A j, l \in a .. f - 1 : g[j] = g[l] => j = l
    <3> SUFFICES ASSUME NEW j \in a .. f - 1, NEW l \in a .. f - 1, g[j] = g[l], j # l PROVE FALSE
      OBVIOUS
    <3>1. j \in a .. e - 1 /\ l \in a .. e - 1 /\ s[j] = s[l] /\ s[j] \in Int /\ s[l] \in Int
      BY <1>1
    <3>2. j < l \/ l < j
      OBVIOUS
    <3> QED
      BY <3>1, <3>2 DEF Increasing
  <2>3. g \in Surjection(a .. f - 1, Span(s, a, f)) /\ g \in Injection(a .. f - 1, Span(s, a, f))
    BY <2>1, <2>2 DEF Surjection, Injection, IsInjective, Span
  <2>4. IsFiniteSet(a .. f - 1) /\ Cardinality(a .. f - 1) = f - a
    <3>1. a \in Int /\ f - 1 \in Int /\ f \in Int /\ a <= f
      OBVIOUS
    <3>2. IsFiniteSet(a .. f - 1) /\ Cardinality(a .. f - 1) = IF a > f - 1 THEN 0 ELSE (f - 1) - a + 1
      BY <3>1, FS_Interval
    <3> QED
      BY <3>1, <3>2
  <2>5. IsFiniteSet(Span(s, a, f)) /\ Cardinality(Span(s, a, f)) = Cardinality(a .. f - 1)
    BY <2>3, <2>4, FS_Surjection
  <2> QED
    BY <2>4, <2>5
<1>3. ASSUME NEW j \in a .. e - 1 PROVE Below(Span(s, a, e), s[j]) = Span(s, a, j)
  <2>1. ASSUME NEW l \in a .. e - 1 PROVE s[l] < s[j] <=> l < j
    <3>1. s[l] \in Int /\ s[j] \in Int /\ (l < j => s[l] < s[j]) /\ (j < l => s[j] < s[l])
      BY <1>1 DEF Increasing
    <3> QED
      BY <3>1
  <2>2. \A l : l \in a .. j - 1 <=> l \in a .. e - 1 /\ l < j
    OBVIOUS
  <2> QED
    BY <2>1, <2>2 DEF Below, Span
<1>4. \A j \in a .. e - 1 : j \in a .. e
  OBVIOUS
<1>5. e \in a .. e
  OBVIOUS
<1> QED
  BY <1>2, <1>3, <1>4, <1>5

\* The numbers of smaller elements of a finite set of bytes are 0, 1, 2, ...,
\* each once and in the order of the elements.
LEMMA Ranks ==
  ASSUME NEW S \in SUBSET Byte
  PROVE  /\ IsFiniteSet(S) /\ Cardinality(S) \in Nat
         /\ \A z \in S : Cardinality(Below(S, z)) \in 0 .. Cardinality(S) - 1
         /\ \A z, y \in S : z < y <=> Cardinality(Below(S, z)) < Cardinality(Below(S, y))
         /\ \A u \in 0 .. Cardinality(S) - 1 : \E z \in S : Cardinality(Below(S, z)) = u
<1>1. IsFiniteSet(Byte)
  BY FS_Interval, HintsAssumption DEF Byte
<1>2. ASSUME NEW T \in SUBSET S PROVE IsFiniteSet(T) /\ Cardinality(T) \in Nat
  BY <1>1, FS_Subset, FS_CardinalityType
<1>3. \A z \in S : z \in Int
  BY HintsAssumption DEF Byte
<1>4. ASSUME NEW z \in S PROVE Cardinality(Below(S, z)) < Cardinality(S) /\ Cardinality(Below(S, z)) \in Nat
  <2>1. Below(S, z) \in SUBSET S /\ Below(S, z) # S
    BY <1>3 DEF Below
  <2> QED
    BY <2>1, <1>2, FS_Subset
<1>5. ASSUME NEW z \in S, NEW y \in S, z < y
      PROVE  Cardinality(Below(S, z)) < Cardinality(Below(S, y))
  <2>1. Below(S, z) \subseteq Below(S, y) /\ z \in Below(S, y) /\ z \notin Below(S, z)
    BY <1>3, <1>5 DEF Below
  <2>2. Below(S, y) \in SUBSET S
    BY DEF Below
  <2>3. Below(S, z) \in SUBSET Below(S, y) /\ Below(S, z) # Below(S, y)
    BY <2>1
  <2>4. IsFiniteSet(Below(S, y)) /\ Cardinality(Below(S, y)) \in Nat /\ Cardinality(Below(S, z)) \in Nat
    BY <2>2, <1>2, <1>4
  <2> QED
    BY <2>3, <2>4, FS_Subset
<1>6. ASSUME NEW z \in S, NEW y \in S
      PROVE  z < y <=> Cardinality(Below(S, z)) < Cardinality(Below(S, y))
  <2>1. CASE z < y
    BY <2>1, <1>5
  <2>2. CASE y < z
    BY <2>2, <1>3, <1>4, <1>5
  <2>3. CASE z = y
    BY <2>3, <1>3, <1>4
  <2> QED
    BY <2>1, <2>2, <2>3, <1>3
<1> DEFINE n == Cardinality(S)
           rank == [z \in S |-> Cardinality(Below(S, z))]
<1>7. n \in Nat /\ IsFiniteSet(S)
  BY <1>2
<1>8. \A z \in S : Cardinality(Below(S, z)) \in 0 .. n - 1
  BY <1>4, <1>7
<1>9. rank \in Injection(S, 0 .. n - 1)
  <2>1. rank \in [S -> 0 .. n - 1]
    BY <1>8
  <2>2. ASSUME NEW z \in S, NEW y \in S, rank[z] = rank[y] PROVE z = y
    BY <2>2, <1>3, <1>4, <1>6
  <2> QED
    BY <2>1, <2>2 DEF Injection, IsInjective
<1>10. IsFiniteSet(0 .. n - 1) /\ Cardinality(0 .. n - 1) = n
  <2>1. 0 \in Int /\ n - 1 \in Int
    BY <1>7
  <2>2. IsFiniteSet(0 .. n - 1) /\ Cardinality(0 .. n - 1) = IF 0 > n - 1 THEN 0 ELSE (n - 1) - 0 + 1
    BY <2>1, FS_Interval
  <2> QED
    BY <1>7, <2>2
<1>11. rank \in Surjection(S, 0 .. n - 1)
  <2> HIDE DEF rank, n
  <2>1. Cardinality(S) = Cardinality(0 .. n - 1)
    BY <1>10 DEF n
  <2> QED
    BY <1>9, <1>10, <2>1, FS_Injection
<1>12. \A u \in 0 .. n - 1 : \E z \in S : Cardinality(Below(S, z)) = u
  BY <1>11 DEF Surjection
<1> QED
  BY <1>6, <1>7, <1>8, <1>12

\* What PackPoly makes of the bytes s: the set S goes to a, polynomial v.
At(S, a, z) == a + Cardinality(Below(S, z))
PackedBytes(s, S, a, v) ==
  [b \in Index |->
     IF b = OMEGA + v THEN a + Cardinality(S)
     ELSE IF \E z \in S : At(S, a, z) = b THEN CHOOSE z \in S : At(S, a, z) = b
     ELSE s[b]]

LEMMA PackPolyBytes ==
  PackPoly => /\ turn = "pack" /\ poly < K
              /\ sig' = PackedBytes(sig, hints[poly], first, poly)
              /\ first' = first + Cardinality(hints[poly])
              /\ poly' = poly + 1
              /\ UNCHANGED <<from, given, turn, hints>>
BY DEF PackPoly, PackedBytes, At, Below

LEMMA Packing ==
  ASSUME NEW s \in [Index -> Byte], NEW S \in SUBSET Byte, NEW a \in Nat, NEW v \in Polys,
         a + Cardinality(S) <= OMEGA
  PROVE  LET t == PackedBytes(s, S, a, v)
             e == a + Cardinality(S)
         IN  /\ e \in Nat /\ a <= e
             /\ t \in [Index -> Byte]
             /\ t[OMEGA + v] = e
             /\ \A b \in Index : (b < a \/ e <= b) /\ b # OMEGA + v => t[b] = s[b]
             /\ \A z \in S : t[At(S, a, z)] = z
             /\ Increasing(t, a, e) /\ Span(t, a, e) = S
<1> DEFINE t == PackedBytes(s, S, a, v)
           e == a + Cardinality(S)
<1>1. /\ IsFiniteSet(S) /\ Cardinality(S) \in Nat
      /\ \A z \in S : Cardinality(Below(S, z)) \in 0 .. Cardinality(S) - 1
      /\ \A z, y \in S : z < y <=> Cardinality(Below(S, z)) < Cardinality(Below(S, y))
      /\ \A u \in 0 .. Cardinality(S) - 1 : \E z \in S : Cardinality(Below(S, z)) = u
  BY Ranks
<1>2. e \in Nat /\ a <= e /\ e <= OMEGA /\ K \in Nat /\ OMEGA \in Nat /\ v \in 0 .. K - 1
      /\ Places \in Nat /\ OMEGA < Places
  BY <1>1, HintsAssumption DEF Polys
<1>3. \A z \in S : At(S, a, z) \in a .. e - 1 /\ z \in Byte /\ z \in Int
  BY <1>1, <1>2 DEF At, Byte
<1>4. \A z, y \in S : At(S, a, z) = At(S, a, y) => z = y
  <2> SUFFICES ASSUME NEW z \in S, NEW y \in S, At(S, a, z) = At(S, a, y) PROVE z = y
    OBVIOUS
  <2>1. Cardinality(Below(S, z)) = Cardinality(Below(S, y)) /\ Cardinality(Below(S, z)) \in Int
    BY <1>1, <1>2 DEF At
  <2>2. ~(z < y) /\ ~(y < z)
    BY <2>1, <1>1
  <2> QED
    BY <2>2, <1>3
<1>5. \A b \in a .. e - 1 : \E z \in S : At(S, a, z) = b
  <2> SUFFICES ASSUME NEW b \in a .. e - 1 PROVE \E z \in S : At(S, a, z) = b
    OBVIOUS
  <2>1. b - a \in 0 .. Cardinality(S) - 1
    BY <1>1, <1>2
  <2>2. PICK z \in S : Cardinality(Below(S, z)) = b - a
    BY <2>1, <1>1
  <2> QED
    BY <2>2, <1>2 DEF At
<1>6. \A z \in S : t[At(S, a, z)] = z
  <2> SUFFICES ASSUME NEW z \in S PROVE t[At(S, a, z)] = z
    OBVIOUS
  <2>1. At(S, a, z) \in Index /\ At(S, a, z) # OMEGA + v
    BY <1>2, <1>3 DEF Index
  <2>2. (CHOOSE y \in S : At(S, a, y) = At(S, a, z)) = z
    BY <1>4
  <2> QED
    BY <2>1, <2>2 DEF PackedBytes
<1>7. \A b \in Index : (b < a \/ e <= b) /\ b # OMEGA + v => t[b] = s[b]
  <2> SUFFICES ASSUME NEW b \in Index, b < a \/ e <= b, b # OMEGA + v PROVE t[b] = s[b]
    OBVIOUS
  <2>1. ~ \E z \in S : At(S, a, z) = b
    BY <1>2, <1>3 DEF Index
  <2> QED
    BY <2>1 DEF PackedBytes
<1>8. OMEGA + v \in Index /\ t[OMEGA + v] = e
  <2>1. OMEGA + v \in Index
    BY <1>2 DEF Index
  <2> QED
    BY <2>1 DEF PackedBytes
<1>9. t \in [Index -> Byte]
  <2>1. t = [b \in Index |-> t[b]]
    BY DEF PackedBytes
  <2>2. ASSUME NEW b \in Index PROVE t[b] \in Byte
    <3>1. CASE b = OMEGA + v
      BY <3>1, <1>2, <1>8 DEF Byte
    <3>2. CASE b # OMEGA + v /\ b \in a .. e - 1
      BY <3>2, <1>3, <1>5, <1>6
    <3>3. CASE b # OMEGA + v /\ b \notin a .. e - 1
      <4>1. b < a \/ e <= b
        BY <3>3, <1>2 DEF Index
      <4> QED
        BY <3>3, <4>1, <1>7
    <3> QED
      BY <3>1, <3>2, <3>3
  <2> QED
    BY <2>1, <2>2
<1>10. Increasing(t, a, e)
  <2> SUFFICES ASSUME NEW j \in a .. e - 1, NEW l \in a .. e - 1, j < l PROVE t[j] < t[l]
    BY DEF Increasing
  <2>1. PICK z \in S, y \in S : At(S, a, z) = j /\ At(S, a, y) = l
    BY <1>5
  <2>2. Cardinality(Below(S, z)) < Cardinality(Below(S, y))
    BY <2>1, <1>1, <1>2 DEF At
  <2> QED
    BY <2>1, <2>2, <1>1, <1>6
<1>11. Span(t, a, e) = S
  <2>1. ASSUME NEW z \in S PROVE z \in Span(t, a, e)
    BY <1>3, <1>6 DEF Span
  <2>2. ASSUME NEW j \in a .. e - 1 PROVE t[j] \in S
    BY <1>5, <1>6
  <2> QED
    BY <2>1, <2>2 DEF Span
<1> QED
  BY <1>2, <1>6, <1>7, <1>8, <1>9, <1>10, <1>11

-----------------------------------------------------------------------------
Start(s, v) == IF v = 0 THEN 0 ELSE s[OMEGA + v - 1]

\* The first v polynomials of f are what stands in the bytes s.
Encodes(s, f, v) ==
  \A q \in 0 .. v - 1 :
    /\ Start(s, q) <= Start(s, q + 1) /\ Start(s, q + 1) <= Start(s, v) /\ Start(s, q + 1) <= OMEGA
    /\ Increasing(s, Start(s, q), Start(s, q + 1))
    /\ f[q] = Span(s, Start(s, q), Start(s, q + 1))

ZeroFrom(s, a) == \A j \in a .. OMEGA - 1 : s[j] = 0

HintsTypeOK ==
  /\ from \in {"bytes", "hints"}
  /\ turn \in {"pack", "unpack", "accepted", "rejected", "end"}
  /\ sig \in [Index -> Byte]
  /\ hints \in [Polys -> SUBSET Byte]
  /\ poly \in 0 .. K /\ first \in 0 .. OMEGA

\* Bytes that unpack_sig has accepted so far are well formed, and what is
\* packed from them afterwards is a prefix of them.
BytesInv ==
  from = "bytes" =>
    /\ given \in [Index -> Byte]
    /\ turn \in {"unpack", "accepted"} =>
         sig = given /\ Encodes(given, hints, poly) /\ first = Start(given, poly)
    /\ turn \in {"accepted", "pack"} =>
         Encodes(given, hints, K) /\ ZeroFrom(given, Start(given, K))
    /\ turn = "accepted" => poly = K
    /\ turn = "pack" =>
         /\ first = Start(given, poly)
         /\ sig = [b \in Index |->
                     IF b < first \/ (OMEGA <= b /\ b < OMEGA + poly) THEN given[b] ELSE 0]
    /\ OneEncoding

\* The ones of the polynomials before v.
Before(f, v) == {one \in Ones(f) : one[1] < v}

\* What has been packed is well formed and as long as the ones are many; what
\* has been unpacked is what was packed.
PackedInv ==
  from = "hints" =>
    /\ given \in [Polys -> SUBSET Byte] /\ Cardinality(Ones(given)) <= OMEGA
    /\ turn \in {"pack", "unpack", "accepted"}
    /\ turn = "pack" =>
         /\ hints = given
         /\ Encodes(sig, given, poly) /\ ZeroFrom(sig, first)
         /\ first = Start(sig, poly) /\ first = Cardinality(Before(given, poly))
    /\ turn = "unpack" =>
         /\ Encodes(sig, given, K) /\ ZeroFrom(sig, Start(sig, K))
         /\ first = Start(sig, poly)
         /\ hints = [v \in Polys |-> IF v < poly THEN given[v] ELSE {}]
    /\ turn = "accepted" => hints = given

HintsInv == HintsTypeOK /\ BytesInv /\ PackedInv

LEMMA StartType ==
  ASSUME NEW s \in [Index -> Byte], NEW v \in 0 .. K
  PROVE  Start(s, v) \in Nat
<1>1. K \in Nat /\ OMEGA \in Nat /\ Places \in Nat
  BY HintsAssumption
<1>2. CASE v = 0
  BY <1>2 DEF Start
<1>3. CASE v # 0
  <2>1. OMEGA + v - 1 \in Index
    BY <1>1, <1>3 DEF Index
  <2> QED
    BY <2>1, <1>1, <1>3 DEF Start, Byte
<1> QED
  BY <1>2, <1>3

\* Bytes with the same ends and the same positions encode the same.
LEMMA EncodesSame ==
  ASSUME NEW s \in [Index -> Byte], NEW t \in [Index -> Byte], NEW f, NEW v \in 0 .. K,
         Encodes(s, f, v),
         \A b \in Index : b < Start(s, v) \/ (OMEGA <= b /\ b < OMEGA + v) => t[b] = s[b]
  PROVE  Encodes(t, f, v) /\ Start(t, v) = Start(s, v)
<1>1. K \in Nat /\ OMEGA \in Nat
  BY HintsAssumption
<1>2. ASSUME NEW q \in 0 .. v PROVE Start(t, q) = Start(s, q)
  <2>1. CASE q = 0
    BY <2>1 DEF Start
  <2>2. CASE q # 0
    <3>1. OMEGA + q - 1 \in Index /\ OMEGA <= OMEGA + q - 1 /\ OMEGA + q - 1 < OMEGA + v
      BY <2>2, <1>1 DEF Index
    <3> QED
      BY <3>1, <2>2 DEF Start
  <2> QED
    BY <2>1, <2>2
<1>3. ASSUME NEW q \in 0 .. v - 1
      PROVE  /\ Start(t, q) <= Start(t, q + 1) /\ Start(t, q + 1) <= Start(t, v) /\ Start(t, q + 1) <= OMEGA
             /\ Increasing(t, Start(t, q), Start(t, q + 1))
             /\ f[q] = Span(t, Start(t, q), Start(t, q + 1))
  <2> DEFINE a == Start(s, q)
             e == Start(s, q + 1)
  <2>1. q \in 0 .. v /\ q + 1 \in 0 .. v /\ v \in 0 .. v /\ q \in 0 .. K /\ q + 1 \in 0 .. K
    BY <1>1
  <2>2. Start(t, q) = a /\ Start(t, q + 1) = e /\ Start(t, v) = Start(s, v)
    BY <2>1, <1>2
  <2>3. a \in Nat /\ e \in Nat /\ Start(s, v) \in Nat
    BY <2>1, StartType
  <2>4. a <= e /\ e <= Start(s, v) /\ e <= OMEGA /\ Increasing(s, a, e) /\ f[q] = Span(s, a, e)
    BY DEF Encodes
  <2> HIDE DEF a, e
  <2>5. \A j \in a .. e - 1 : t[j] = s[j]
    <3> SUFFICES ASSUME NEW j \in a .. e - 1 PROVE t[j] = s[j]
      OBVIOUS
    <3>1. j \in Index /\ j < Start(s, v)
      BY <2>3, <2>4, <1>1 DEF Index
    <3> QED
      BY <3>1
  <2>6. Increasing(t, a, e) /\ Span(t, a, e) = Span(s, a, e)
    BY <2>4, <2>5 DEF Increasing, Span
  <2> QED
    BY <2>2, <2>4, <2>6
<1>4. v \in 0 .. v
  OBVIOUS
<1> QED
  BY <1>2, <1>3, <1>4 DEF Encodes

\* One more polynomial.
LEMMA EncodesMore ==
  ASSUME NEW s \in [Index -> Byte], NEW f, NEW v \in 0 .. K - 1, Encodes(s, f, v),
         Start(s, v) <= Start(s, v + 1), Start(s, v + 1) <= OMEGA,
         Increasing(s, Start(s, v), Start(s, v + 1)),
         f[v] = Span(s, Start(s, v), Start(s, v + 1))
  PROVE  Encodes(s, f, v + 1)
<1>1. K \in Nat /\ OMEGA \in Nat
  BY HintsAssumption
<1> SUFFICES ASSUME NEW q \in 0 .. (v + 1) - 1
             PROVE  /\ Start(s, q) <= Start(s, q + 1) /\ Start(s, q + 1) <= Start(s, v + 1)
                    /\ Start(s, q + 1) <= OMEGA
                    /\ Increasing(s, Start(s, q), Start(s, q + 1))
                    /\ f[q] = Span(s, Start(s, q), Start(s, q + 1))
  BY DEF Encodes
<1>2. CASE q = v
  <2>1. Start(s, v + 1) \in Nat
    BY <1>1, StartType
  <2> QED
    BY <2>1, <1>2
<1>3. CASE q # v
  <2>1. q \in 0 .. v - 1 /\ q + 1 \in 0 .. K /\ v \in 0 .. K /\ v + 1 \in 0 .. K
    BY <1>1, <1>3
  <2>2. /\ Start(s, q) <= Start(s, q + 1) /\ Start(s, q + 1) <= Start(s, v) /\ Start(s, q + 1) <= OMEGA
        /\ Increasing(s, Start(s, q), Start(s, q + 1))
        /\ f[q] = Span(s, Start(s, q), Start(s, q + 1))
    BY <2>1 DEF Encodes
  <2>3. Start(s, q + 1) \in Nat /\ Start(s, v) \in Nat /\ Start(s, v + 1) \in Nat
    BY <2>1, StartType
  <2> QED
    BY <2>2, <2>3
<1> QED
  BY <1>2, <1>3

\* Polynomial by polynomial the ones are counted.
LEMMA CountBefore ==
  ASSUME NEW f \in [Polys -> SUBSET Byte], Cardinality(Ones(f)) <= OMEGA
  PROVE  /\ Cardinality(Before(f, 0)) = 0
         /\ \A v \in Polys :
              /\ Cardinality(Before(f, v + 1)) = Cardinality(Before(f, v)) + Cardinality(f[v])
              /\ Cardinality(Before(f, v + 1)) <= OMEGA
<1>1. K \in Nat /\ OMEGA \in Nat /\ Places \in Nat
  BY HintsAssumption
<1>2. IsFiniteSet(Polys) /\ IsFiniteSet(Byte)
  BY <1>1, FS_Interval DEF Polys, Byte
<1>3. IsFiniteSet(Ones(f))
  <2>1. IsFiniteSet(Polys \X Byte)
    BY <1>2, FS_Product
  <2>2. Ones(f) \in SUBSET (Polys \X Byte)
    BY DEF Ones
  <2> QED
    BY <2>1, <2>2, FS_Subset
<1>4. ASSUME NEW v PROVE /\ IsFiniteSet(Before(f, v)) /\ Cardinality(Before(f, v)) \in Nat
                         /\ Cardinality(Before(f, v)) <= OMEGA
  <2>1. Before(f, v) \in SUBSET Ones(f)
    BY DEF Before
  <2>2. /\ IsFiniteSet(Before(f, v)) /\ Cardinality(Before(f, v)) <= Cardinality(Ones(f))
    BY <2>1, <1>3, FS_Subset
  <2>3. Cardinality(Before(f, v)) \in Nat /\ Cardinality(Ones(f)) \in Nat
    BY <1>3, <2>2, FS_CardinalityType
  <2> QED
    BY <1>1, <2>2, <2>3
<1>5. Before(f, 0) = {}
  BY <1>1 DEF Before, Ones, Polys
<1>6. ASSUME NEW v \in Polys
      PROVE  Cardinality(Before(f, v + 1)) = Cardinality(Before(f, v)) + Cardinality(f[v])
  <2> DEFINE New == {v} \X f[v]
             g == [z \in f[v] |-> <<v, z>>]
  <2>1. v \in Int /\ f[v] \in SUBSET Byte /\ \A q \in Polys : q \in Int
    BY DEF Polys
  <2>2. Before(f, v + 1) = Before(f, v) \cup New
    <3>1. ASSUME NEW one \in Before(f, v + 1) PROVE one \in Before(f, v) \cup New
      <4>1. PICK q \in Polys, z \in Byte : one = <<q, z>> /\ z \in f[q] /\ q < v + 1
        BY DEF Before, Ones
      <4>2. CASE q = v
        BY <4>1, <4>2
      <4>3. CASE q < v
        BY <4>1, <4>3 DEF Before, Ones
      <4> QED
        BY <4>1, <4>2, <4>3, <2>1
    <3>2. ASSUME NEW one \in Before(f, v) PROVE one \in Before(f, v + 1)
      <4>1. one \in Ones(f) /\ one[1] \in Int /\ one[1] < v
        BY <2>1 DEF Before, Ones
      <4> QED
        BY <4>1, <2>1 DEF Before
    <3>3. ASSUME NEW z \in f[v] PROVE <<v, z>> \in Before(f, v + 1)
      BY <2>1 DEF Before, Ones
    <3> QED
      BY <3>1, <3>2, <3>3
  <2>3. Before(f, v) \cap New = {}
    BY <2>1 DEF Before, Ones
  <2>4. IsFiniteSet(f[v]) /\ Cardinality(f[v]) \in Nat
    BY <2>1, Ranks
  <2>5. IsFiniteSet(New) /\ Cardinality(New) = Cardinality(f[v])
    <3>1. g \in Surjection(f[v], New) /\ g \in Injection(f[v], New)
      BY DEF Surjection, Injection, IsInjective
    <3> QED
      BY <3>1, <2>4, FS_Surjection
  <2> HIDE DEF New
  <2>6. Cardinality(Before(f, v) \cup New) =
          Cardinality(Before(f, v)) + Cardinality(New) - Cardinality(Before(f, v) \cap New)
    BY <1>4, <2>5, FS_Union
  <2>7. Cardinality(Before(f, v) \cap New) = 0
    BY <2>3, FS_EmptySet
  <2>8. Cardinality(Before(f, v)) \in Nat
    BY <1>4
  <2>9. Cardinality(Before(f, v) \cup New) = Cardinality(Before(f, v)) + Cardinality(f[v])
    BY <2>4, <2>5, <2>6, <2>7, <2>8
  <2> QED
    BY <2>2, <2>9
<1> QED
  BY <1>4, <1>5, <1>6, FS_EmptySet

LEMMA HintsInitInv == HintsInit => HintsInv
<1> SUFFICES ASSUME HintsInit PROVE HintsInv
  OBVIOUS
<1>1. K \in Nat /\ K > 0 /\ OMEGA \in Nat /\ Places \in Nat /\ OMEGA < Places
  BY HintsAssumption
<1>2. poly = 0 /\ first = 0 /\ Start(sig, 0) = 0 /\ Start(given, 0) = 0
  BY DEF HintsInit, Start
<1>3. Encodes(sig, hints, 0) /\ Encodes(given, hints, 0) /\ Encodes(sig, given, 0)
  BY DEF Encodes
<1>4. CASE from = "bytes"
  <2>1. turn = "unpack" /\ sig \in [Index -> Byte] /\ given = sig /\ hints = Clear
    BY <1>4 DEF HintsInit
  <2>2. HintsTypeOK
    BY <1>1, <1>2, <1>4, <2>1 DEF HintsTypeOK, Clear
  <2>3. BytesInv
    BY <1>2, <1>3, <2>1 DEF BytesInv, OneEncoding
  <2> QED
    BY <1>4, <2>2, <2>3 DEF HintsInv, PackedInv
<1>5. CASE from = "hints"
  <2>1. /\ turn = "pack" /\ hints \in [Polys -> SUBSET Byte] /\ Cardinality(Ones(hints)) <= OMEGA
        /\ given = hints /\ sig = [b \in Index |-> 0]
    BY <1>5 DEF HintsInit
  <2>2. sig \in [Index -> Byte]
    BY <2>1, <1>1 DEF Byte
  <2>3. HintsTypeOK
    BY <1>1, <1>2, <1>5, <2>1, <2>2 DEF HintsTypeOK
  <2>4. ZeroFrom(sig, 0)
    BY <2>1, <1>1 DEF ZeroFrom, Index
  <2>5. Cardinality(Before(given, 0)) = 0
    BY <2>1, CountBefore
  <2>6. PackedInv
    BY <1>2, <1>3, <2>1, <2>4, <2>5 DEF PackedInv
  <2> QED
    BY <1>5, <2>3, <2>6 DEF HintsInv, BytesInv
<1> QED
  BY <1>4, <1>5 DEF HintsInit

LEMMA PackPolyInv == HintsInv /\ PackPoly => HintsInv'
<1> SUFFICES ASSUME HintsInv, PackPoly PROVE HintsInv'
  OBVIOUS
<1>1. K \in Nat /\ K > 0 /\ OMEGA \in Nat /\ Places \in Nat /\ OMEGA < Places
  BY HintsAssumption
<1>2. /\ turn = "pack" /\ poly < K /\ poly \in 0 .. K - 1 /\ poly \in Polys
      /\ sig' = PackedBytes(sig, hints[poly], first, poly)
      /\ first' = first + Cardinality(hints[poly])
      /\ poly' = poly + 1
      /\ from' = from /\ given' = given /\ turn' = turn /\ hints' = hints
  BY <1>1, PackPolyBytes DEF HintsInv, HintsTypeOK, Polys
<1>3. /\ sig \in [Index -> Byte] /\ hints[poly] \in SUBSET Byte /\ first \in Nat /\ poly \in Polys
  BY <1>1, <1>2 DEF HintsInv, HintsTypeOK
<1> DEFINE n == poly + 1
<1>4. n \in 0 .. K /\ poly \in 0 .. K
  BY <1>1, <1>2
<1>5. CASE from = "bytes"
  <2> DEFINE e == Start(given, n)
  <2>1. /\ given \in [Index -> Byte] /\ Encodes(given, hints, K) /\ ZeroFrom(given, Start(given, K))
        /\ first = Start(given, poly)
        /\ sig = [b \in Index |->
                    IF b < first \/ (OMEGA <= b /\ b < OMEGA + poly) THEN given[b] ELSE 0]
    BY <1>2, <1>5 DEF HintsInv, BytesInv
  <2>2. /\ first <= e /\ e <= OMEGA /\ Increasing(given, first, e)
        /\ hints[poly] = Span(given, first, e) /\ e \in Nat
    BY <2>1, <1>2, <1>4, StartType DEF Encodes
  <2>3. /\ Cardinality(hints[poly]) = e - first
        /\ \A j \in first .. e - 1 : Cardinality(Below(hints[poly], given[j])) = j - first
    BY <2>1, <2>2, <1>3, SpanRank
  <2>4. first + Cardinality(hints[poly]) = e
    BY <2>2, <2>3, <1>3
  <2>5. /\ sig' \in [Index -> Byte] /\ sig'[OMEGA + poly] = e
        /\ \A b \in Index : (b < first \/ e <= b) /\ b # OMEGA + poly => sig'[b] = sig[b]
        /\ \A z \in hints[poly] : sig'[At(hints[poly], first, z)] = z
    BY <2>2, <2>4, <1>2, <1>3, Packing
  <2>6. ASSUME NEW b \in Index
        PROVE  sig'[b] = IF b < e \/ (OMEGA <= b /\ b < OMEGA + n) THEN given[b] ELSE 0
    <3>1. CASE b = OMEGA + poly
      <4>1. OMEGA + n - 1 = OMEGA + poly /\ n # 0
        BY <1>1, <1>4
      <4>2. given[b] = e
        BY <3>1, <4>1 DEF Start
      <4> QED
        BY <3>1, <4>2, <2>5, <1>1, <1>4
    <3>2. CASE b \in first .. e - 1
      <4>1. given[b] \in hints[poly]
        BY <3>2, <2>2 DEF Span
      <4>2. At(hints[poly], first, given[b]) = b
        BY <3>2, <2>2, <2>3, <1>3 DEF At
      <4>3. sig'[b] = given[b]
        BY <4>1, <4>2, <2>5
      <4> QED
        BY <4>3, <3>2, <2>2
    <3>3. CASE b # OMEGA + poly /\ b \notin first .. e - 1
      <4>1. b \in Int /\ (b < first \/ e <= b)
        BY <3>3, <2>2, <1>1, <1>3 DEF Index
      <4>2. sig'[b] = sig[b]
        BY <4>1, <3>3, <2>5
      <4>3. sig[b] = IF b < first \/ (OMEGA <= b /\ b < OMEGA + poly) THEN given[b] ELSE 0
        BY <2>1
      <4>4. (b < first \/ (OMEGA <= b /\ b < OMEGA + poly)) <=> (b < e \/ (OMEGA <= b /\ b < OMEGA + n))
        BY <4>1, <3>3, <2>2, <1>1, <1>3, <1>4
      <4> QED
        BY <4>2, <4>3, <4>4
    <3> QED
      BY <3>1, <3>2, <3>3
  <2>7. sig' = [b \in Index |-> IF b < e \/ (OMEGA <= b /\ b < OMEGA + n) THEN given[b] ELSE 0]
    BY <2>5, <2>6
  <2>8. first' = e
    BY <2>4, <1>2
  <2>9. HintsTypeOK'
    BY <2>2, <2>5, <2>8, <1>1, <1>2, <1>4 DEF HintsInv, HintsTypeOK
  <2>10. BytesInv'
    BY <2>1, <2>7, <2>8, <1>2 DEF BytesInv, OneEncoding
  <2> QED
    BY <2>9, <2>10, <1>2, <1>5 DEF HintsInv, PackedInv
<1>6. CASE from = "hints"
  <2>1. /\ given \in [Polys -> SUBSET Byte] /\ Cardinality(Ones(given)) <= OMEGA
        /\ hints = given
        /\ Encodes(sig, given, poly) /\ ZeroFrom(sig, first)
        /\ first = Start(sig, poly) /\ first = Cardinality(Before(given, poly))
    BY <1>2, <1>6 DEF HintsInv, PackedInv
  <2> DEFINE e == first + Cardinality(given[poly])
  <2>2. Cardinality(Before(given, n)) = e /\ e <= OMEGA
    BY <2>1, <1>2, CountBefore
  <2>3. /\ e \in Nat /\ first <= e
        /\ sig' \in [Index -> Byte] /\ sig'[OMEGA + poly] = e
        /\ \A b \in Index : (b < first \/ e <= b) /\ b # OMEGA + poly => sig'[b] = sig[b]
        /\ Increasing(sig', first, e) /\ Span(sig', first, e) = given[poly]
    BY <2>1, <2>2, <1>2, <1>3, Packing
  <2> HIDE DEF e
  <2>4. first' = e
    BY <2>1, <1>2 DEF e
  <2>5. Encodes(sig', given, poly) /\ Start(sig', poly) = first
    <3>1. \A b \in Index : b < Start(sig, poly) \/ (OMEGA <= b /\ b < OMEGA + poly) => sig'[b] = sig[b]
      BY <2>1, <2>2, <2>3, <1>1, <1>2, <1>3 DEF Index
    <3> QED
      BY <3>1, <2>1, <2>3, <1>3, <1>4, EncodesSame
  <2>6. Start(sig', n) = e
    <3>1. n # 0 /\ OMEGA + n - 1 = OMEGA + poly
      BY <1>1, <1>4
    <3> QED
      BY <3>1, <2>3 DEF Start
  <2>7. Encodes(sig', given, n)
    BY <2>2, <2>3, <2>5, <2>6, <1>2, EncodesMore
  <2>8. ZeroFrom(sig', e)
    <3> SUFFICES ASSUME NEW j \in e .. OMEGA - 1 PROVE sig'[j] = 0
      BY DEF ZeroFrom
    <3>1. j \in Index /\ e <= j /\ j # OMEGA + poly /\ j \in first .. OMEGA - 1
      BY <2>3, <1>1, <1>2, <1>3 DEF Index
    <3> QED
      BY <3>1, <2>1, <2>3 DEF ZeroFrom
  <2>9. HintsTypeOK'
    BY <2>2, <2>3, <2>4, <1>1, <1>2, <1>4 DEF HintsInv, HintsTypeOK
  <2>10. PackedInv'
    BY <2>1, <2>2, <2>4, <2>6, <2>7, <2>8, <1>2 DEF PackedInv
  <2> QED
    BY <2>9, <2>10, <1>2, <1>6 DEF HintsInv, BytesInv
<1> QED
  BY <1>5, <1>6 DEF HintsInv, HintsTypeOK

LEMMA PackedStep == HintsInv /\ Packed => HintsInv'
<1> SUFFICES ASSUME HintsInv, Packed PROVE HintsInv'
  OBVIOUS
<1>1. K \in Nat /\ K > 0 /\ OMEGA \in Nat /\ Places \in Nat /\ OMEGA < Places
  BY HintsAssumption
<1>2. /\ turn = "pack" /\ poly = K /\ poly' = 0 /\ first' = 0
      /\ from' = from /\ given' = given /\ sig' = sig
  BY DEF Packed
<1>3. CASE from = "bytes"
  <2>1. turn' = "end" /\ hints' = hints
    BY <1>3 DEF Packed
  <2>2. /\ given \in [Index -> Byte] /\ ZeroFrom(given, Start(given, K)) /\ first = Start(given, K)
        /\ sig = [b \in Index |->
                    IF b < first \/ (OMEGA <= b /\ b < OMEGA + K) THEN given[b] ELSE 0]
    BY <1>2, <1>3 DEF HintsInv, BytesInv
  <2>3. first \in 0 .. OMEGA
    BY DEF HintsInv, HintsTypeOK
  <2>4. ASSUME NEW b \in Index PROVE sig[b] = given[b]
    <3>1. CASE b < first \/ OMEGA <= b
      BY <3>1, <2>2, <1>1 DEF Index
    <3>2. CASE ~(b < first \/ OMEGA <= b)
      <4>1. b \in first .. OMEGA - 1
        BY <3>2, <2>3, <1>1 DEF Index
      <4> QED
        BY <4>1, <3>2, <2>2 DEF ZeroFrom
    <3> QED
      BY <3>1, <3>2
  <2>5. sig = given
    BY <2>2, <2>4
  <2> QED
    BY <2>1, <2>2, <2>5, <1>1, <1>2, <1>3 DEF HintsInv, HintsTypeOK, BytesInv, PackedInv, OneEncoding
<1>4. CASE from = "hints"
  <2>1. turn' = "unpack" /\ hints' = Clear
    BY <1>4 DEF Packed
  <2>2. /\ given \in [Polys -> SUBSET Byte] /\ Cardinality(Ones(given)) <= OMEGA
        /\ Encodes(sig, given, K) /\ ZeroFrom(sig, Start(sig, K))
    BY <1>2, <1>4 DEF HintsInv, PackedInv
  <2>3. hints' = [v \in Polys |-> IF v < 0 THEN given[v] ELSE {}] /\ hints' \in [Polys -> SUBSET Byte]
    BY <2>1 DEF Clear, Polys
  <2>4. first' = Start(sig, 0)
    BY <1>2 DEF Start
  <2>5. HintsTypeOK'
    BY <2>1, <2>3, <1>1, <1>2 DEF HintsInv, HintsTypeOK
  <2>6. PackedInv'
    BY <2>1, <2>2, <2>3, <2>4, <1>2 DEF PackedInv
  <2> QED
    BY <2>5, <2>6, <1>2, <1>4 DEF HintsInv, BytesInv
<1> QED
  BY <1>3, <1>4 DEF HintsInv, HintsTypeOK

LEMMA UnpackPolyInv == HintsInv /\ UnpackPoly => HintsInv'
<1> SUFFICES ASSUME HintsInv, UnpackPoly PROVE HintsInv'
  OBVIOUS
<1>1. K \in Nat /\ K > 0 /\ OMEGA \in Nat /\ Places \in Nat /\ OMEGA < Places
  BY HintsAssumption
<1> DEFINE n == poly + 1
           e == Start(sig, n)
<1>2. /\ turn = "unpack" /\ poly < K /\ poly \in 0 .. K - 1 /\ poly \in Polys
      /\ n \in 0 .. K /\ poly \in 0 .. K
      /\ sig \in [Index -> Byte] /\ hints \in [Polys -> SUBSET Byte] /\ first \in Nat
  BY <1>1 DEF HintsInv, HintsTypeOK, UnpackPoly, Polys
<1>3. End = e /\ e \in Nat
  <2>1. n # 0 /\ OMEGA + n - 1 = OMEGA + poly
    BY <1>1, <1>2
  <2> QED
    BY <2>1, <1>2, StartType DEF Start, End
<1>4. /\ first <= e /\ e <= OMEGA
      /\ \A j \in first + 1 .. e - 1 : sig[j] > sig[j - 1]
      /\ hints' = [hints EXCEPT ![poly] = Span(sig, first, e)]
      /\ first' = e /\ poly' = n
      /\ from' = from /\ given' = given /\ turn' = turn /\ sig' = sig
  <2>1. \A j : sig[j] > sig[j - 1] <=> sig[j] > sig[j - 1]
    OBVIOUS
  <2> QED
    BY <1>3 DEF UnpackPoly, EndsWell, Ordered, Span
<1> HIDE DEF e
<1>5. Increasing(sig, first, e)
  BY <1>2, <1>3, <1>4, Neighbours
<1>6. Span(sig, first, e) \in SUBSET Byte
  <2>1. \A j \in first .. e - 1 : j \in Index
    BY <1>1, <1>2, <1>3, <1>4 DEF Index
  <2> QED
    BY <2>1, <1>2 DEF Span
<1>7. HintsTypeOK'
  BY <1>1, <1>2, <1>3, <1>4, <1>6 DEF HintsInv, HintsTypeOK
<1>8. CASE from = "bytes"
  <2>1. sig = given /\ Encodes(given, hints, poly) /\ first = Start(given, poly)
    BY <1>2, <1>8 DEF HintsInv, BytesInv
  <2>2. Encodes(sig, hints', poly)
    <3>1. \A q \in 0 .. poly - 1 : hints'[q] = hints[q]
      BY <1>2, <1>4 DEF Polys
    <3> QED
      BY <3>1, <2>1 DEF Encodes
  <2>3. hints'[poly] = Span(sig, first, e)
    BY <1>2, <1>4
  <2>4. Encodes(sig, hints', n)
    BY <2>1, <2>2, <2>3, <1>2, <1>4, <1>5, EncodesMore DEF e
  <2>5. BytesInv'
    BY <2>1, <2>4, <1>2, <1>4, <1>8 DEF HintsInv, BytesInv, OneEncoding, e
  <2> QED
    BY <2>5, <1>4, <1>7, <1>8 DEF HintsInv, PackedInv
<1>9. CASE from = "hints"
  <2>1. /\ given \in [Polys -> SUBSET Byte] /\ Cardinality(Ones(given)) <= OMEGA
        /\ Encodes(sig, given, K) /\ ZeroFrom(sig, Start(sig, K))
        /\ first = Start(sig, poly)
        /\ hints = [v \in Polys |-> IF v < poly THEN given[v] ELSE {}]
    BY <1>2, <1>9 DEF HintsInv, PackedInv
  <2>2. given[poly] = Span(sig, first, e)
    BY <2>1, <1>2 DEF Encodes, e
  <2>3. hints' = [v \in Polys |-> IF v < n THEN given[v] ELSE {}]
    <3>1. ASSUME NEW v \in Polys PROVE hints'[v] = IF v < n THEN given[v] ELSE {}
      <4>1. v \in Int /\ poly \in Int
        BY <1>2 DEF Polys
      <4>2. CASE v = poly
        BY <4>1, <4>2, <2>2, <1>2, <1>4
      <4>3. CASE v # poly
        BY <4>1, <4>3, <2>1, <1>2, <1>4
      <4> QED
        BY <4>2, <4>3
    <3>2. hints' = [v \in Polys |-> hints'[v]]
      BY <1>2, <1>4
    <3> QED
      BY <3>1, <3>2
  <2>4. PackedInv'
    BY <2>1, <2>3, <1>2, <1>4, <1>9 DEF PackedInv, e
  <2> QED
    BY <2>4, <1>4, <1>7, <1>9 DEF HintsInv, BytesInv
<1> QED
  BY <1>8, <1>9 DEF HintsInv, HintsTypeOK

LEMMA MalformedInv == HintsInv /\ Malformed => HintsInv'
<1> SUFFICES ASSUME HintsInv, Malformed PROVE HintsInv'
  OBVIOUS
<1>1. K \in Nat /\ K > 0 /\ OMEGA \in Nat /\ Places \in Nat /\ OMEGA < Places
  BY HintsAssumption
<1>2. /\ turn = "unpack" /\ poly \in 0 .. K - 1 /\ ~(EndsWell /\ Ordered) /\ turn' = "rejected"
      /\ from' = from /\ given' = given /\ sig' = sig /\ hints' = hints /\ poly' = poly /\ first' = first
  BY <1>1 DEF HintsInv, HintsTypeOK, Malformed
<1>3. CASE from = "bytes"
  BY <1>2, <1>3 DEF HintsInv, HintsTypeOK, BytesInv, PackedInv, OneEncoding
<1>4. CASE from = "hints"
  <2> DEFINE n == poly + 1
             e == Start(sig, n)
  <2>1. Encodes(sig, given, K) /\ first = Start(sig, poly) /\ sig \in [Index -> Byte]
    BY <1>2, <1>4 DEF HintsInv, HintsTypeOK, PackedInv
  <2>2. n # 0 /\ OMEGA + n - 1 = OMEGA + poly /\ n \in 0 .. K /\ poly \in 0 .. K
    BY <1>1, <1>2
  <2>3. End = e /\ e \in Nat /\ first \in Nat
    BY <2>1, <2>2, StartType DEF Start, End
  <2>4. first <= e /\ e <= OMEGA /\ Increasing(sig, first, e)
    BY <2>1, <1>2 DEF Encodes
  <2> HIDE DEF e
  <2>5. EndsWell
    BY <2>3, <2>4 DEF EndsWell
  <2>6. ASSUME NEW j \in first + 1 .. e - 1 PROVE sig[j] > sig[j - 1]
    <3>1. j \in first .. e - 1 /\ j - 1 \in first .. e - 1 /\ j - 1 < j
      BY <2>3
    <3>2. j \in Index /\ j - 1 \in Index
      BY <3>1, <2>3, <2>4, <1>1 DEF Index
    <3>3. sig[j] \in Int /\ sig[j - 1] \in Int /\ sig[j - 1] < sig[j]
      BY <3>1, <3>2, <2>1, <2>4 DEF Increasing, Byte
    <3> QED
      BY <3>3
  <2>7. Ordered
    BY <2>3, <2>6 DEF Ordered
  <2> QED
    BY <2>5, <2>7, <1>2
<1> QED
  BY <1>3, <1>4 DEF HintsInv, HintsTypeOK

LEMMA RestInv == HintsInv /\ Rest => HintsInv'
<1> SUFFICES ASSUME HintsInv, Rest PROVE HintsInv'
  OBVIOUS
<1>1. /\ turn = "unpack" /\ poly = K
      /\ turn' = IF ZeroFrom(sig, first) THEN "accepted" ELSE "rejected"
      /\ from' = from /\ given' = given /\ sig' = sig /\ hints' = hints /\ poly' = poly /\ first' = first
  BY DEF Rest, ZeroFrom
<1>2. CASE from = "bytes"
  <2>1. sig = given /\ Encodes(given, hints, K) /\ first = Start(given, K) /\ given \in [Index -> Byte]
    BY <1>1, <1>2 DEF HintsInv, BytesInv
  <2>2. CASE ZeroFrom(sig, first)
    BY <2>1, <2>2, <1>1, <1>2 DEF HintsInv, HintsTypeOK, BytesInv, PackedInv, OneEncoding
  <2>3. CASE ~ZeroFrom(sig, first)
    BY <2>1, <2>3, <1>1, <1>2 DEF HintsInv, HintsTypeOK, BytesInv, PackedInv, OneEncoding
  <2> QED
    BY <2>2, <2>3
<1>3. CASE from = "hints"
  <2>1. /\ given \in [Polys -> SUBSET Byte] /\ ZeroFrom(sig, first)
        /\ hints = [v \in Polys |-> IF v < K THEN given[v] ELSE {}]
        /\ Cardinality(Ones(given)) <= OMEGA
    BY <1>1, <1>3 DEF HintsInv, PackedInv
  <2>2. hints = given
    <3>1. \A v \in Polys : v < K
      BY HintsAssumption DEF Polys
    <3> QED
      BY <3>1, <2>1
  <2> QED
    BY <2>1, <2>2, <1>1, <1>3 DEF HintsInv, HintsTypeOK, BytesInv, PackedInv
<1> QED
  BY <1>2, <1>3 DEF HintsInv, HintsTypeOK

LEMMA AgainInv == HintsInv /\ Again => HintsInv'
<1> SUFFICES ASSUME HintsInv, Again PROVE HintsInv'
  OBVIOUS
<1>1. K \in Nat /\ K > 0 /\ OMEGA \in Nat /\ Places \in Nat /\ OMEGA < Places
  BY HintsAssumption
<1>2. /\ turn = "accepted" /\ from = "bytes" /\ sig' = [b \in Index |-> 0]
      /\ poly' = 0 /\ first' = 0 /\ turn' = "pack"
      /\ from' = from /\ given' = given /\ hints' = hints
  BY DEF Again
<1>3. /\ given \in [Index -> Byte] /\ Encodes(given, hints, K) /\ ZeroFrom(given, Start(given, K))
  BY <1>2 DEF HintsInv, BytesInv
<1>4. Start(given, 0) = 0
  BY DEF Start
<1>5. sig' = [b \in Index |-> IF b < 0 \/ (OMEGA <= b /\ b < OMEGA + 0) THEN given[b] ELSE 0]
  BY <1>1, <1>2 DEF Index
<1>6. sig' \in [Index -> Byte]
  BY <1>1, <1>2 DEF Byte
<1> QED
  BY <1>1, <1>2, <1>3, <1>4, <1>5, <1>6 DEF HintsInv, HintsTypeOK, BytesInv, PackedInv, OneEncoding

\* HintsInv is an invariant, for every number of polynomials, of ones and of
\* positions.
THEOREM HintsInvariant == HintsSpec => []HintsInv
<1>1. HintsInv /\ [HintsNext]_HintsVars => HintsInv'
  <2> SUFFICES ASSUME HintsInv, [HintsNext]_HintsVars PROVE HintsInv'
    OBVIOUS
  <2>1. CASE UNCHANGED HintsVars
    BY <2>1 DEF HintsVars, HintsInv, HintsTypeOK, BytesInv, PackedInv, OneEncoding
  <2> QED
    BY <2>1, PackPolyInv, PackedStep, UnpackPolyInv, MalformedInv, RestInv, AgainInv DEF HintsNext
<1> QED
  BY <1>1, HintsInitInv, PTL DEF HintsSpec

\* Bytes that unpack_sig accepts are those that pack_sig writes.
THEOREM EncodingUnique == HintsSpec => []OneEncoding
<1>1. HintsInv => OneEncoding
  BY DEF HintsInv, HintsTypeOK, BytesInv, OneEncoding
<1> QED
  BY <1>1, HintsInvariant, PTL

\* A signer's hints are never rejected, and come back as they were.
THEOREM HintsReturn == HintsSpec => []RoundTrip
<1>1. HintsInv => RoundTrip
  BY DEF HintsInv, PackedInv, RoundTrip
<1> QED
  BY <1>1, HintsInvariant, PTL

-----------------------------------------------------------------------------
\* The quotient by a positive divisor, from what it must satisfy.
LEMMA QuotientIs ==
  ASSUME NEW b \in Int, NEW s \in Int, s > 0, NEW t \in Int, s * t <= b, b < s * (t + 1)
  PROVE  b \div s = t
<1>1. PICK g \in Int, m \in Int : g = b \div s /\ m = b % s /\ b = (s * g) + m /\ 0 <= m /\ m < s
  BY SMT
<1>2. s * (t - g) < s /\ -s < s * (t - g)
  BY <1>1, SMT
<1>3. PICK e \in Int : e = t - g /\ s * e < s /\ -s < s * e
  BY <1>1, <1>2, SMT
<1>4. e < 1
  BY <1>3, SMT
<1>5. e > -1
  BY <1>3, SMT
<1> QED
  BY <1>1, <1>3, <1>4, <1>5, SMT

LEMMA ModeFacts ==
  ASSUME NEW m \in Modes
  PROVE  \/ m.gamma2 = 95232 /\ m.factor = 11275 /\ m.scale = 16777216 /\ Top(m) = 44 /\ m.beta = 78
         \/ m.gamma2 = 261888 /\ m.factor = 1025 /\ m.scale = 4194304 /\ Top(m) = 16
              /\ m.beta \in {120, 196}
<1>1. (8380417 - 1) \div (2 * 95232) = 44 /\ (8380417 - 1) \div (2 * 261888) = 16
  BY SMT
<1> QED
  BY <1>1, SMT DEF Modes, Top, DILITHIUM_Q

\* What decompose finds in the interval of the high bits h, the last of which
\* belongs to 0.
LEMMA Interval ==
  ASSUME NEW m \in Modes, NEW h \in 0 .. Top(m), NEW l \in Int,
         -m.gamma2 < l, l <= m.gamma2,
         NEW a \in Int, 0 <= a, a < DILITHIUM_Q, a = (h * (2 * m.gamma2)) + l
  PROVE  /\ HighBits(m, a) = (IF h = Top(m) THEN 0 ELSE h)
         /\ LowBits(m, a) = (IF h = Top(m) THEN l - 1 ELSE l)
<1>1. PICK c \in Int : c = (a + 127) \div 128 /\ 128 * c <= a + 127 /\ a + 127 < 128 * (c + 1)
  BY SMT
<1>2. h \in Int /\ 0 <= h /\ h <= Top(m) /\ 0 <= a /\ a < 8380417
  BY ModeFacts, SMT DEF DILITHIUM_Q
<1>3. CASE m.gamma2 = 95232 /\ m.factor = 11275 /\ m.scale = 16777216 /\ Top(m) = 44
  <2>1. a = (h * 190464) + l /\ -95232 < l /\ l <= 95232
    BY <1>3, SMT
  <2>2. -743 <= c - (1488 * h) /\ c - (1488 * h) <= 744
    BY <2>1, <1>1, <1>2, SMT
  <2>3. 16777216 * h <= (c * 11275) + 8388608 /\ (c * 11275) + 8388608 < 16777216 * (h + 1)
    BY <2>2, <1>2, <1>3, SMT
  <2>4. ((c * 11275) + 8388608) \div 16777216 = h
    BY <2>3, <1>2, QuotientIs, SMT
  <2>5. 16777216 \div 2 = 8388608
    BY SMT
  <2>6. HighBits(m, a) = IF h >= 44 THEN 0 ELSE h
    BY <2>4, <2>5, <1>1, <1>3, SMT DEF HighBits
  <2>7. LowBits(m, a) = IF a - (HighBits(m, a) * 190464) > 4190208 THEN a - (HighBits(m, a) * 190464) - 8380417
                         ELSE a - (HighBits(m, a) * 190464)
    <3>1. (8380417 - 1) \div 2 = 4190208
      BY SMT
    <3> QED
      BY <3>1, <2>6, <1>2, <1>3, SMT DEF LowBits, DILITHIUM_Q
  <2> QED
    BY <2>1, <2>6, <2>7, <1>2, <1>3, SMT
<1>4. CASE m.gamma2 = 261888 /\ m.factor = 1025 /\ m.scale = 4194304 /\ Top(m) = 16
  <2>1. a = (h * 523776) + l /\ -261888 < l /\ l <= 261888
    BY <1>4, SMT
  <2>2. -2045 <= c - (4092 * h) /\ c - (4092 * h) <= 2046
    BY <2>1, <1>1, <1>2, SMT
  <2>3. 4194304 * h <= (c * 1025) + 2097152 /\ (c * 1025) + 2097152 < 4194304 * (h + 1)
    BY <2>2, <1>2, <1>4, SMT
  <2>4. ((c * 1025) + 2097152) \div 4194304 = h
    BY <2>3, <1>2, QuotientIs, SMT
  <2>5. 4194304 \div 2 = 2097152
    BY SMT
  <2>6. HighBits(m, a) = IF h >= 16 THEN 0 ELSE h
    BY <2>4, <2>5, <1>1, <1>4, SMT DEF HighBits
  <2>7. LowBits(m, a) = IF a - (HighBits(m, a) * 523776) > 4190208 THEN a - (HighBits(m, a) * 523776) - 8380417
                         ELSE a - (HighBits(m, a) * 523776)
    <3>1. (8380417 - 1) \div 2 = 4190208
      BY SMT
    <3> QED
      BY <3>1, <2>6, <1>2, <1>4, SMT DEF LowBits, DILITHIUM_Q
  <2> QED
    BY <2>1, <2>6, <2>7, <1>2, <1>4, SMT
<1> QED
  BY <1>3, <1>4, ModeFacts, SMT


\* Representatives of the same residue.
LEMMA SameResidue ==
  ASSUME NEW g \in Int, NEW y \in Int, NEW z \in Int, g = y + (z * DILITHIUM_Q)
  PROVE  g % DILITHIUM_Q = y % DILITHIUM_Q
BY SMT DEF DILITHIUM_Q

\* High bits h and low bits l are what decompose finds in the residue.
LEMMA Composed ==
  ASSUME NEW m \in Modes, NEW h \in 0 .. Top(m) - 1, NEW l \in Int,
         -m.gamma2 <= l, l <= m.gamma2, l = -m.gamma2 => h = 0,
         NEW v \in Int, NEW z \in Int, v = (h * (2 * m.gamma2)) + l + (z * DILITHIUM_Q)
  PROVE  /\ HighBits(m, v % DILITHIUM_Q) = h
         /\ LowBits(m, v % DILITHIUM_Q) = l
<1>1. h \in Int /\ 0 <= h /\ h < Top(m) /\ Top(m) \in Int /\ m.gamma2 \in Int /\ m.gamma2 > 0
      /\ Top(m) > 0
  BY ModeFacts, SMT
<1>2. PICK b \in Int, y \in Int : b = h * (2 * m.gamma2) /\ y = b + l
  BY <1>1, SMT
<1>3. v % DILITHIUM_Q = y % DILITHIUM_Q
  BY <1>2, SameResidue, SMT DEF DILITHIUM_Q
<1>4. Top(m) * (2 * m.gamma2) = DILITHIUM_Q - 1 /\ 0 <= b /\ b + (2 * m.gamma2) <= DILITHIUM_Q - 1
  BY <1>1, <1>2, ModeFacts, SMT DEF DILITHIUM_Q
<1>5. CASE y >= 0
  <2>1. y % DILITHIUM_Q = y /\ 0 <= y /\ y < DILITHIUM_Q
    BY <1>1, <1>2, <1>4, <1>5, SMT DEF DILITHIUM_Q
  <2>2. -m.gamma2 < l
    BY <1>1, <1>2, <1>5, SMT
  <2>3. h \in 0 .. Top(m) /\ h # Top(m)
    BY <1>1, SMT
  <2> QED
    BY <2>1, <2>2, <2>3, <1>2, <1>3, Interval, SMT
<1>6. CASE y < 0
  <2>1. h = 0 /\ l = y
    BY <1>1, <1>2, <1>6, ModeFacts, SMT
  <2>2. PICK a \in Int : a = y + DILITHIUM_Q
    BY SMT DEF DILITHIUM_Q
  <2>3. 0 <= a /\ a < DILITHIUM_Q /\ a % DILITHIUM_Q = a
    BY <2>1, <2>2, <1>6, ModeFacts, SMT DEF DILITHIUM_Q
  <2>4. y % DILITHIUM_Q = a
    BY <2>2, <2>3, SameResidue, SMT DEF DILITHIUM_Q
  <2>5. PICK e \in Int : e = l + 1 /\ -m.gamma2 < e /\ e <= m.gamma2
    BY <2>1, <1>1, <1>6, SMT
  <2>6. a = (Top(m) * (2 * m.gamma2)) + e
    BY <2>1, <2>2, <2>5, <1>4, SMT DEF DILITHIUM_Q
  <2>7. Top(m) \in 0 .. Top(m)
    BY <1>1, SMT
  <2>8. HighBits(m, a) = 0 /\ LowBits(m, a) = e - 1
    BY <2>3, <2>5, <2>6, <2>7, Interval, SMT
  <2> QED
    BY <2>1, <2>4, <2>5, <2>8, <1>3, SMT
<1> QED
  BY <1>2, <1>5, <1>6, SMT

\* decompose is right for every standard representative.
LEMMA Decomposed ==
  ASSUME NEW m \in Modes, NEW a \in Int, 0 <= a, a < DILITHIUM_Q
  PROVE  /\ HighBits(m, a) \in 0 .. Top(m) - 1
         /\ LowBits(m, a) \in Int
         /\ -m.gamma2 <= LowBits(m, a) /\ LowBits(m, a) <= m.gamma2
         /\ LowBits(m, a) = -m.gamma2 => HighBits(m, a) = 0
         /\ \E z \in Int :
              a = (HighBits(m, a) * (2 * m.gamma2)) + LowBits(m, a) + (z * DILITHIUM_Q)
<1>1. a \in Int /\ 0 <= a /\ a < 8380417 /\ Top(m) \in Int /\ Top(m) > 0 /\ m.gamma2 \in Int /\ m.gamma2 > 0
      /\ Top(m) * (2 * m.gamma2) = 8380416
  BY ModeFacts, SMT DEF DILITHIUM_Q
<1>2. PICK h \in Int, l \in Int :
        /\ a = (h * (2 * m.gamma2)) + l /\ -m.gamma2 < l /\ l <= m.gamma2
  <2>1. CASE m.gamma2 = 95232
    <3> DEFINE h == (a + 95231) \div 190464
    <3>1. h \in Int /\ 190464 * h <= a + 95231 /\ a + 95231 < 190464 * (h + 1)
      BY <1>1, SMT
    <3>2. a - (h * 190464) \in Int
      BY <1>1, SMT
    <3> QED
      BY <3>1, <3>2, <2>1, <1>1, SMT
  <2>2. CASE m.gamma2 = 261888
    <3> DEFINE h == (a + 261887) \div 523776
    <3>1. h \in Int /\ 523776 * h <= a + 261887 /\ a + 261887 < 523776 * (h + 1)
      BY <1>1, SMT
    <3>2. a - (h * 523776) \in Int
      BY <1>1, SMT
    <3> QED
      BY <3>1, <3>2, <2>2, <1>1, SMT
  <2> QED
    BY <2>1, <2>2, ModeFacts, SMT
<1>3. h \in 0 .. Top(m)
  BY <1>1, <1>2, ModeFacts, SMT
<1>4. /\ HighBits(m, a) = (IF h = Top(m) THEN 0 ELSE h)
      /\ LowBits(m, a) = (IF h = Top(m) THEN l - 1 ELSE l)
  BY <1>2, <1>3, Interval, SMT
<1>5. CASE h = Top(m)
  <2>1. l <= 0 /\ HighBits(m, a) = 0 /\ LowBits(m, a) = l - 1
    BY <1>1, <1>2, <1>4, <1>5, SMT
  <2>2. a = (0 * (2 * m.gamma2)) + (l - 1) + (1 * DILITHIUM_Q)
    BY <1>1, <1>2, <1>5, SMT DEF DILITHIUM_Q
  <2> QED
    BY <2>1, <2>2, <1>1, <1>2, SMT
<1>6. CASE h # Top(m)
  <2>1. HighBits(m, a) = h /\ LowBits(m, a) = l /\ h \in 0 .. Top(m) - 1
    BY <1>1, <1>3, <1>4, <1>6, SMT
  <2>2. a = (h * (2 * m.gamma2)) + l + (0 * DILITHIUM_Q)
    BY <1>2, <1>1, SMT DEF DILITHIUM_Q
  <2> QED
    BY <2>1, <2>2, <1>1, <1>2, SMT
<1> QED
  BY <1>5, <1>6, SMT

-----------------------------------------------------------------------------
\* w + moved and what w1 and w0 stand for are one residue.
Linked ==
  /\ w1 \in 0 .. Top(mode) - 1 /\ w0 \in Int /\ moved \in Int
  /\ \E z \in Int : w + moved = (w1 * (2 * mode.gamma2)) + w0 + (z * DILITHIUM_Q)

RoundInv ==
  /\ mode \in Modes
  /\ w \in Int /\ 0 <= w /\ w < DILITHIUM_Q
  /\ state \in {"w", "w0", "ct0", "use", "rej", "verified"}
  /\ state \in {"w", "w0"} => moved = 0
  /\ state \in {"w0", "ct0", "use"} => Linked
  /\ state = "w0" => -mode.gamma2 <= w0 /\ w0 <= mode.gamma2
  /\ state = "ct0" => Norm(w0) < mode.gamma2 - mode.beta
  /\ state = "use" => Norm(w0) < 2 * mode.gamma2 /\ hint = make_hint(mode, w0, w1)
  /\ HintRecovers

LEMMA RoundInitInv == RoundInit => RoundInv
<1> SUFFICES ASSUME RoundInit PROVE RoundInv
  BY SMT
<1>1. DILITHIUM_Q \in Int
  BY SMT DEF DILITHIUM_Q
<1>2. w \in 0 .. DILITHIUM_Q - 1
  BY RoundingAssumption, SMT DEF RoundInit
<1> QED
  BY <1>1, <1>2, SMT DEF RoundInit, RoundInv, HintRecovers

LEMMA DecomposeInv == RoundInv /\ Decompose => RoundInv'
<1> SUFFICES ASSUME RoundInv, Decompose PROVE RoundInv'
  BY SMT
<1>1. mode' = mode /\ w' = w /\ moved' = 0 /\ state' = "w0" /\ mode \in Modes
  BY SMT DEF RoundInv, Decompose
<1>2. w1' = HighBits(mode, w) /\ w0' = LowBits(mode, w)
  BY SMT DEF Decompose
<1>3. Linked' /\ -mode.gamma2 <= w0' /\ w0' <= mode.gamma2
  <2>1. /\ w1' \in 0 .. Top(mode) - 1 /\ w0' \in Int
        /\ -mode.gamma2 <= w0' /\ w0' <= mode.gamma2
        /\ \E z \in Int : w = (w1' * (2 * mode.gamma2)) + w0' + (z * DILITHIUM_Q)
    BY <1>1, <1>2, Decomposed, SMT DEF RoundInv
  <2>2. w' + moved' = w
    BY <1>1, SMT DEF RoundInv
  <2> QED
    BY <2>1, <2>2, <1>1, SMT DEF Linked, Top
<1> QED
  BY <1>1, <1>3, SMT DEF RoundInv, HintRecovers

LEMMA SubtractInv == ASSUME NEW u \in CS2(mode) PROVE RoundInv /\ Subtract(u) => RoundInv'
<1> SUFFICES ASSUME RoundInv, Subtract(u) PROVE RoundInv'
  BY SMT
<1>1. /\ mode' = mode /\ w' = w /\ w1' = w1 /\ state = "w0" /\ mode \in Modes
      /\ w0' = w0 - u /\ moved' = -u
      /\ state' = IF Norm(w0') >= mode.gamma2 - mode.beta THEN "rej" ELSE "ct0"
  BY SMT DEF RoundInv, Subtract
<1>2. u \in Int /\ w0 \in Int /\ w1 \in 0 .. Top(mode) - 1 /\ moved = 0 /\ w \in Int
  BY <1>1, RoundingAssumption, ModeFacts, SMT DEF RoundInv, Linked
<1>3. PICK z \in Int : w + moved = (w1 * (2 * mode.gamma2)) + w0 + (z * DILITHIUM_Q)
  BY <1>1, SMT DEF RoundInv, Linked
<1>4. w0' \in Int /\ moved' \in Int
  BY <1>1, <1>2, SMT
<1>5. w + moved' = (w1 * (2 * mode.gamma2)) + w0' + (z * DILITHIUM_Q)
  <2>1. PICK e \in Int : e = w1 * (2 * mode.gamma2)
    BY <1>1, <1>2, ModeFacts, SMT
  <2>2. PICK f \in Int : f = z * DILITHIUM_Q
    BY SMT DEF DILITHIUM_Q
  <2> QED
    BY <2>1, <2>2, <1>1, <1>2, <1>3, SMT
<1>6. Linked'
  BY <1>1, <1>2, <1>4, <1>5, SMT DEF Linked, Top
<1>7. /\ state' \in {"rej", "ct0"}
      /\ state' = "ct0" => Norm(w0') < mode'.gamma2 - mode'.beta
  <2>1. Norm(w0') \in Int /\ mode.gamma2 - mode.beta \in Int
    BY <1>1, <1>4, ModeFacts, SMT DEF Norm
  <2> QED
    BY <2>1, <1>1, SMT
<1> QED
  BY <1>1, <1>6, <1>7, SMT DEF RoundInv, HintRecovers, Norm

LEMMA HintInv == ASSUME NEW u \in CT0(mode) PROVE RoundInv /\ Hint(u) => RoundInv'
<1> SUFFICES ASSUME RoundInv, Hint(u) PROVE RoundInv'
  BY SMT
<1>1. /\ mode' = mode /\ w' = w /\ w1' = w1 /\ state = "ct0" /\ mode \in Modes
      /\ \/ state' = "rej"
         \/ /\ Norm(u) < mode.gamma2
            /\ w0' = w0 + u /\ moved' = moved + u /\ state' = "use"
            /\ hint' = make_hint(mode, w0', w1)
  <2>1. u \in Int /\ Norm(u) \in Int /\ mode \in Modes /\ mode.gamma2 \in Int
    BY RoundingAssumption, ModeFacts, SMT DEF RoundInv, Norm
  <2> QED
    BY <2>1, SMT DEF RoundInv, Hint
<1>2. CASE state' = "rej"
  BY <1>1, <1>2, SMT DEF RoundInv, HintRecovers
<1>3. CASE state' = "use"
  <2>1. /\ u \in Int /\ w0 \in Int /\ w1 \in 0 .. Top(mode) - 1 /\ moved \in Int /\ w \in Int
        /\ mode.gamma2 \in Int /\ mode.beta \in Int /\ mode.beta > 0
    BY <1>1, RoundingAssumption, ModeFacts, SMT DEF RoundInv, Linked
  <2>2. PICK z \in Int : w + moved = (w1 * (2 * mode.gamma2)) + w0 + (z * DILITHIUM_Q)
    BY <1>1, SMT DEF RoundInv, Linked
  <2>3. w0' = w0 + u /\ moved' = moved + u /\ Norm(u) < mode.gamma2 /\ hint' = make_hint(mode, w0', w1)
    BY <1>1, <1>3, SMT
  <2>4. w + moved' = (w1 * (2 * mode.gamma2)) + w0' + (z * DILITHIUM_Q)
    <3>1. PICK e \in Int : e = w1 * (2 * mode.gamma2)
      BY <2>1, SMT
    <3>2. PICK f \in Int : f = z * DILITHIUM_Q
      BY SMT DEF DILITHIUM_Q
    <3> QED
      BY <3>1, <3>2, <2>1, <2>2, <2>3, SMT
  <2>5. Linked'
    BY <1>1, <2>1, <2>3, <2>4, SMT DEF Linked, Top
  <2>6. Norm(w0') < 2 * mode.gamma2
    <3>1. Norm(w0) < mode.gamma2 - mode.beta
      BY <1>1, SMT DEF RoundInv
    <3> QED
      BY <3>1, <2>1, <2>3, SMT DEF Norm
  <2> QED
    BY <1>1, <1>3, <2>3, <2>5, <2>6, SMT DEF RoundInv, HintRecovers, Norm, make_hint
<1> QED
  BY <1>1, <1>2, <1>3, SMT

\* The verifier's side: whatever crossed a boundary is corrected.
LEMMA UseHintRecovers ==
  ASSUME NEW m \in Modes, NEW h \in 0 .. Top(m) - 1, NEW l \in Int, Norm(l) < 2 * m.gamma2,
         NEW v \in Int, NEW z \in Int, v = (h * (2 * m.gamma2)) + l + (z * DILITHIUM_Q)
  PROVE  use_hint(m, v % DILITHIUM_Q, make_hint(m, l, h)) = h
<1>1. /\ m.gamma2 \in Int /\ m.gamma2 > 0 /\ Top(m) \in Int /\ Top(m) > 1 /\ h \in Int /\ 0 <= h /\ h < Top(m)
      /\ -(2 * m.gamma2) < l /\ l < 2 * m.gamma2
  BY ModeFacts, SMT DEF Norm
<1>2. PICK b \in Int, f \in Int, g \in Int :
        b = h * (2 * m.gamma2) /\ f = z * DILITHIUM_Q /\ g = 2 * m.gamma2
  BY <1>1, SMT DEF DILITHIUM_Q
<1>3. CASE make_hint(m, l, h) = 0
  <2>1. -m.gamma2 <= l /\ l <= m.gamma2 /\ (l = -m.gamma2 => h = 0)
    BY <1>1, <1>3, SMT DEF make_hint
  <2> QED
    BY <2>1, <1>3, Composed, SMT DEF use_hint
<1>4. CASE make_hint(m, l, h) = 1 /\ l > 0
  <2>1. l > m.gamma2
    BY <1>1, <1>4, SMT DEF make_hint
  <2>2. CASE h + 1 < Top(m)
    <3>1. PICK n \in 0 .. Top(m) - 1, e \in Int :
            /\ n = h + 1 /\ e = l - (2 * m.gamma2) /\ -m.gamma2 < e /\ e <= m.gamma2 /\ e < 0
      BY <1>1, <2>1, <2>2, SMT
    <3>2. v = (n * (2 * m.gamma2)) + e + (z * DILITHIUM_Q)
      BY <3>1, <1>1, <1>2, SMT
    <3>3. HighBits(m, v % DILITHIUM_Q) = n /\ LowBits(m, v % DILITHIUM_Q) = e
      BY <3>1, <3>2, <1>1, Composed, SMT
    <3>4. (n - 1) % Top(m) = h
      BY <3>1, <1>1, ModeFacts, SMT
    <3> QED
      BY <3>1, <3>3, <3>4, <1>4, SMT DEF use_hint
  <2>3. CASE h + 1 = Top(m)
    <3>1. PICK e \in Int : e = l - (2 * m.gamma2) - 1 /\ -m.gamma2 <= e /\ e <= m.gamma2 /\ e < 0
      BY <1>1, <2>1, <2>3, SMT
    <3>2. v = (0 * (2 * m.gamma2)) + e + ((z + 1) * DILITHIUM_Q)
      <4>1. (h + 1) * (2 * m.gamma2) = DILITHIUM_Q - 1
        BY <2>3, ModeFacts, SMT DEF DILITHIUM_Q
      <4>2. b = DILITHIUM_Q - 1 - (2 * m.gamma2) /\ DILITHIUM_Q \in Int /\ v = b + l + f
        <5>1. DILITHIUM_Q \in Int
          BY SMT DEF DILITHIUM_Q
        <5>2. v = b + l + f
          BY <1>2, SMT
        <5>3. b + (2 * m.gamma2) = DILITHIUM_Q - 1
          BY <2>3, <1>1, <1>2, ModeFacts, SMT DEF DILITHIUM_Q
        <5> QED
          BY <5>1, <5>2, <5>3, <1>1, SMT
      <4>3. (z + 1) * DILITHIUM_Q = f + DILITHIUM_Q
        BY <1>2, SMT DEF DILITHIUM_Q
      <4>4. v = 0 + e + (f + DILITHIUM_Q) /\ 0 * (2 * m.gamma2) = 0
        BY <4>2, <3>1, <1>1, <1>2, SMT
      <4> QED
        BY <4>3, <4>4, SMT
    <3>3. 0 \in 0 .. Top(m) - 1 /\ z + 1 \in Int
      BY <1>1, SMT
    <3>4. HighBits(m, v % DILITHIUM_Q) = 0 /\ LowBits(m, v % DILITHIUM_Q) = e
      BY <3>1, <3>2, <3>3, Composed, SMT
    <3>5. (0 - 1) % Top(m) = h
      BY <2>3, <1>1, ModeFacts, SMT
    <3> QED
      BY <3>1, <3>4, <3>5, <1>4, SMT DEF use_hint
  <2> QED
    BY <2>2, <2>3, <1>1, SMT
<1>5. CASE make_hint(m, l, h) = 1 /\ l <= 0
  <2>1. l <= -m.gamma2 /\ (l = -m.gamma2 => h # 0)
    BY <1>1, <1>5, SMT DEF make_hint
  <2>2. CASE h > 0
    <3>1. PICK n \in 0 .. Top(m) - 1, e \in Int :
            /\ n = h - 1 /\ e = l + (2 * m.gamma2) /\ -m.gamma2 < e /\ e <= m.gamma2 /\ e > 0
      BY <1>1, <2>1, <2>2, SMT
    <3>2. v = (n * (2 * m.gamma2)) + e + (z * DILITHIUM_Q)
      BY <3>1, <1>1, <1>2, SMT
    <3>3. HighBits(m, v % DILITHIUM_Q) = n /\ LowBits(m, v % DILITHIUM_Q) = e
      BY <3>1, <3>2, <1>1, Composed, SMT
    <3>4. n + 1 = h
      BY <3>1, <1>1, SMT
    <3>5. h % Top(m) = h
      BY <1>1, ModeFacts, SMT
    <3> QED
      BY <3>1, <3>3, <3>4, <3>5, <1>5, SMT DEF use_hint
  <2>3. CASE h = 0
    <3>1. PICK n \in 0 .. Top(m) - 1, e \in Int :
            /\ n = Top(m) - 1 /\ e = l + (2 * m.gamma2) + 1 /\ -m.gamma2 < e /\ e <= m.gamma2 /\ e > 0
      BY <1>1, <2>1, <2>3, SMT
    <3>2. v = (n * (2 * m.gamma2)) + e + ((z - 1) * DILITHIUM_Q)
      <4>1. n * (2 * m.gamma2) = DILITHIUM_Q - 1 - (2 * m.gamma2)
        BY <3>1, ModeFacts, SMT DEF DILITHIUM_Q
      <4>2. b = 0 /\ DILITHIUM_Q \in Int /\ v = b + l + f
        <5>1. DILITHIUM_Q \in Int
          BY SMT DEF DILITHIUM_Q
        <5>2. v = b + l + f
          BY <1>2, SMT
        <5>3. b = 0
          BY <2>3, <1>1, <1>2, SMT
        <5> QED
          BY <5>1, <5>2, <5>3, SMT
      <4>3. (z - 1) * DILITHIUM_Q = f - DILITHIUM_Q
        BY <1>2, SMT DEF DILITHIUM_Q
      <4>4. v = (DILITHIUM_Q - 1 - g) + e + (f - DILITHIUM_Q)
        <5>1. e = l + g + 1
          BY <3>1, <1>2, SMT
        <5>2. v = l + f
          BY <4>2, <1>2, SMT
        <5> QED
          BY <5>1, <5>2, <4>2, SMT
      <4> QED
        BY <4>1, <4>3, <4>4, <1>2, SMT
    <3>3. z - 1 \in Int
      BY SMT
    <3>4. HighBits(m, v % DILITHIUM_Q) = n /\ LowBits(m, v % DILITHIUM_Q) = e
      BY <3>1, <3>2, <3>3, <1>1, Composed, SMT
    <3>5. (n + 1) % Top(m) = h
      BY <3>1, <2>3, <1>1, ModeFacts, SMT
    <3> QED
      BY <3>1, <3>4, <3>5, <1>5, SMT DEF use_hint
  <2> QED
    BY <2>2, <2>3, <1>1, SMT
<1> QED
  BY <1>1, <1>3, <1>4, <1>5, SMT DEF make_hint

LEMMA UseHintInv == RoundInv /\ UseHint => RoundInv'
<1> SUFFICES ASSUME RoundInv, UseHint PROVE RoundInv'
  BY SMT
<1>1. /\ mode' = mode /\ w' = w /\ w1' = w1 /\ state = "use" /\ state' = "verified" /\ mode \in Modes
      /\ w1v' = use_hint(mode, (w + moved) % DILITHIUM_Q, hint)
      /\ hint = make_hint(mode, w0, w1) /\ Norm(w0) < 2 * mode.gamma2
      /\ w \in Int
  BY SMT DEF RoundInv, UseHint
<1>2. Linked
  BY <1>1, SMT DEF RoundInv
<1>3. w1v' = w1
  <2>1. PICK z \in Int : w + moved = (w1 * (2 * mode.gamma2)) + w0 + (z * DILITHIUM_Q)
    BY <1>2, SMT DEF Linked
  <2>2. w + moved \in Int /\ w1 \in 0 .. Top(mode) - 1 /\ w0 \in Int
    BY <1>1, <1>2, SMT DEF Linked
  <2> QED
    BY <2>1, <2>2, <1>1, UseHintRecovers, SMT
<1> QED
  BY <1>1, <1>3, SMT DEF RoundInv, HintRecovers

\* RoundInv is an invariant: the signer's w1 and w0 always stand for w and
\* what was moved, for every parameter set, every w and every c*s2 and c*t0.
THEOREM RoundInvariant == RoundSpec => []RoundInv
<1>1. RoundInit => RoundInv
  BY RoundInitInv, SMT
<1>2. RoundInv /\ [RoundNext]_RoundVars => RoundInv'
  <2> SUFFICES ASSUME RoundInv, [RoundNext]_RoundVars PROVE RoundInv'
    BY SMT
  <2>1. CASE Decompose
    BY <2>1, DecomposeInv, SMT
  <2>2. CASE \E u \in CS2(mode) : Subtract(u)
    BY <2>2, SubtractInv, SMT
  <2>3. CASE \E u \in CT0(mode) : Hint(u)
    BY <2>3, HintInv, SMT
  <2>4. CASE UseHint
    BY <2>4, UseHintInv, SMT
  <2>5. CASE UNCHANGED RoundVars
    BY <2>5, SMT DEF RoundVars, RoundInv, Linked, HintRecovers, Top, Norm, make_hint
  <2> QED
    BY <2>1, <2>2, <2>3, <2>4, <2>5, SMT DEF RoundNext
<1> QED
  BY <1>1, <1>2, PTL DEF RoundSpec

\* The verifier finds the signer's high bits, for every w.
THEOREM HintsRecover == RoundSpec => []HintRecovers
<1>1. RoundInv => HintRecovers
  BY SMT DEF RoundInv
<1> QED
  BY <1>1, RoundInvariant, PTL

\* A passed check of w0 means that no c*s2 within the bound changes the high
\* bits of w, for every w.
THEOREM HighBitsKept == RoundSpec => []HighKept
<1>1. RoundInv => HighKept
  <2> SUFFICES ASSUME RoundInv, state = "ct0", NEW u \in -mode.beta .. mode.beta
               PROVE  HighBits(mode, (w + moved + u) % DILITHIUM_Q) = w1
    BY SMT DEF HighKept
  <2>1. Linked /\ mode \in Modes /\ Norm(w0) < mode.gamma2 - mode.beta /\ w \in Int
    BY SMT DEF RoundInv
  <2>2. /\ w0 \in Int /\ w1 \in 0 .. Top(mode) - 1 /\ moved \in Int /\ u \in Int
        /\ mode.gamma2 \in Int /\ mode.beta \in Int /\ -mode.beta <= u /\ u <= mode.beta
    BY <2>1, ModeFacts, SMT DEF Linked
  <2>3. PICK z \in Int : w + moved = (w1 * (2 * mode.gamma2)) + w0 + (z * DILITHIUM_Q)
    BY <2>1, SMT DEF Linked
  <2>4. PICK l \in Int : l = w0 + u /\ -mode.gamma2 < l /\ l < mode.gamma2
    BY <2>1, <2>2, SMT DEF Norm
  <2>5. w + moved + u = (w1 * (2 * mode.gamma2)) + l + (z * DILITHIUM_Q)
    <3>1. PICK e \in Int, f \in Int : e = w1 * (2 * mode.gamma2) /\ f = z * DILITHIUM_Q
      BY <2>2, SMT DEF DILITHIUM_Q
    <3> QED
      BY <3>1, <2>1, <2>2, <2>3, <2>4, SMT
  <2>6. w + moved + u \in Int /\ -mode.gamma2 <= l /\ l <= mode.gamma2 /\ l # -mode.gamma2
    BY <2>1, <2>2, <2>4, SMT
  <2> QED
    BY <2>1, <2>2, <2>5, <2>6, Composed, SMT
<1> QED
  BY <1>1, RoundInvariant, PTL
=============================================================================
