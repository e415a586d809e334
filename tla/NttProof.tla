------------------------------ MODULE NttProof ------------------------------
(***************************************************************************)
(* Proofs about Reduce (the word w - bit assignments keep, Montgomery      *)
(* reduction, Barrett reduction and reduce32) and about the loops of the   *)
(* transforms: which blocks there are, that the index of the root stays in *)
(* zetas[], and how far a layer of the forward transform lets the          *)
(* coefficients grow.                                                      *)
(***************************************************************************)
EXTENDS Ntt, TLAPS

\* Constants as integers, and R even.
LEMMA Constants ==
  /\ Q \in Int /\ Q > 0 /\ Half \in Int /\ Half > 0 /\ Shift \in Int /\ Shift > 0
  /\ QInv \in Int /\ R \in Int /\ R = 2 * Half
BY ReduceAssumption DEF R

\* An assignment drops a multiple of R.
LEMMA WrapForm ==
  ASSUME NEW a \in Int
  PROVE  /\ Wrap(a) \in Int /\ -Half <= Wrap(a) /\ Wrap(a) < Half
         /\ \E m \in Int : Wrap(a) = a - (R * m)
<1>1. PICK h \in Int : h = Half /\ h > 0
  BY Constants
<1>2. PICK w \in Int : w = R /\ w = 2 * h
  BY <1>1, Constants
<1>3. PICK b \in Int : b = a + h
  BY <1>1
<1>4. b % w \in Int /\ 0 <= b % w /\ b % w < w /\ b = (w * (b \div w)) + (b % w) /\ b \div w \in Int
  BY <1>1, <1>2
<1>5. Wrap(a) = (b % w) - h
  BY <1>1, <1>2, <1>3 DEF Wrap
<1>6. Wrap(a) \in Int /\ -h <= Wrap(a) /\ Wrap(a) < h
  BY <1>1, <1>2, <1>4, <1>5
<1>7. Wrap(a) = a - (w * (b \div w))
  BY <1>1, <1>3, <1>4, <1>5
<1> QED
  BY <1>1, <1>2, <1>4, <1>6, <1>7

\* Two words that differ by a multiple of R are equal.
LEMMA WordUnique ==
  ASSUME NEW a \in Int, NEW b \in Int, NEW m \in Int, a - b = R * m,
         -Half <= a, a < Half, -Half <= b, b < Half
  PROVE  a = b
<1>1. PICK w \in Int : w = R /\ w = 2 * Half /\ w > 0
  BY Constants
<1>2. -w < w * m /\ w * m < w
  BY <1>1, Constants
<1>3. CASE m >= 1
  <2>1. w * m >= w
    BY <1>1, <1>3
  <2> QED
    BY <2>1, <1>1, <1>2
<1>4. CASE m <= -1
  <2>1. w * m <= -w
    BY <1>1, <1>4
  <2> QED
    BY <2>1, <1>1, <1>2
<1>5. CASE m = 0
  BY <1>1, <1>5
<1> QED
  BY <1>3, <1>4, <1>5

\* An assignment is harmless to what fits.
LEMMA WrapFits ==
  ASSUME NEW a \in Int, Fits(a)
  PROVE  Wrap(a) = a
<1>1. PICK m \in Int : Wrap(a) = a - (R * m)
  BY WrapForm
<1>2. PICK n \in Int : n = R * m
  BY Constants
<1>3. a - Wrap(a) = R * m
  BY <1>1, <1>2, WrapForm
<1> QED
  BY <1>3, WordUnique, WrapForm DEF Fits

\* A value that fits is found from any value congruent to it.
LEMMA WrapCongruent ==
  ASSUME NEW a \in Int, NEW b \in Int, NEW m \in Int, a - b = R * m, Fits(b)
  PROVE  Wrap(a) = b
<1>1. PICK n \in Int : Wrap(a) = a - (R * n)
  BY WrapForm
<1>2. PICK w \in Int : w = R
  BY Constants
<1>3. Wrap(a) - b = w * (m - n)
  <2>1. Wrap(a) - b = (w * m) - (w * n)
    <3>1. PICK u \in Int : u = w * m
      BY <1>2
    <3>2. PICK v \in Int : v = w * n
      BY <1>2
    <3> QED
      BY <1>1, <1>2, <3>1, <3>2
  <2> QED
    BY <2>1, <1>2
<1>4. PICK c \in Int : c = Wrap(a)
  BY WrapForm
<1>5. PICK dif \in Int : dif = m - n
  OBVIOUS
<1>6. c - b = R * dif /\ -Half <= c /\ c < Half /\ -Half <= b /\ b < Half
  BY <1>2, <1>3, <1>4, <1>5, WrapForm DEF Fits
<1>7. c = b
  BY <1>6, WordUnique
<1> QED
  BY <1>4, <1>7

\* A product of a factor below Q and a word is in the range of Montgomery
\* reduction.
LEMMA ProductRange ==
  ASSUME NEW a \in Int, NEW b \in Int, NEW u \in Int, NEW h \in Int,
         -u < a, a < u, -h <= b, b <= h
  PROVE  -(u * h) <= a * b /\ a * b <= u * h
<1>1. CASE a >= 0
  <2>1. a * b <= a * h /\ -(a * h) <= a * b
    BY <1>1
  <2>2. a * h <= u * h
    BY <1>1
  <2>3. PICK s \in Int, t \in Int, v \in Int : s = a * b /\ t = a * h /\ v = u * h
    OBVIOUS
  <2> QED
    BY <2>1, <2>2, <2>3
<1>2. CASE a < 0
  <2>1. PICK c \in Int : c = -a /\ c > 0 /\ c < u
    BY <1>2
  <2>2. c * b <= c * h /\ -(c * h) <= c * b
    BY <2>1
  <2>3. c * h <= u * h
    BY <2>1
  <2>4. c * b = -(a * b)
    BY <2>1
  <2>5. PICK s \in Int, t \in Int, v \in Int, y \in Int :
          s = c * b /\ t = c * h /\ v = u * h /\ y = a * b
    BY <2>1
  <2> QED
    BY <2>2, <2>3, <2>4, <2>5
<1> QED
  BY <1>1, <1>2

\* Montgomery reduction divides by R modulo Q: exactly, and the result stays
\* below (|a|/Half + Q)/2.
LEMMA Montgomery ==
  ASSUME NEW a \in Int, NEW f \in Int, f >= 0, f <= Q, Q <= Half,
         -(f * Half) <= a, a <= f * Half, a < Q * Half
  PROVE  /\ montgomery_reduce(a) \in Int
         /\ \E t \in Int : R * montgomery_reduce(a) = a - (t * Q)
         /\ -(f + Q) <= 2 * montgomery_reduce(a)
         /\ 2 * montgomery_reduce(a) <= f + Q
         /\ -Q < montgomery_reduce(a) /\ montgomery_reduce(a) < Q
<1>1. PICK q \in Int, qi \in Int, h \in Int, w \in Int :
        q = Q /\ qi = QInv /\ h = Half /\ w = R /\ w = 2 * h /\ h > 0 /\ q > 0
  BY Constants
<1>2. PICK m1 \in Int : Wrap(a) = a - (w * m1)
  BY <1>1, WrapForm
<1>3. PICK wa \in Int : wa = Wrap(a) /\ wa = a - (w * m1)
  BY <1>1, <1>2
<1>4. PICK y \in Int : y = wa * qi
  OBVIOUS
<1>5. PICK m2 \in Int : Wrap(y) = y - (w * m2)
  BY <1>1, WrapForm
<1>6. PICK t \in Int : t = Wrap(y) /\ t = y - (w * m2) /\ -h <= t /\ t < h
  BY <1>1, <1>5, WrapForm
<1>7. PICK z \in Int : q * qi = 1 + (w * z)
  <2>1. PICK b \in Int : b = q * qi
    OBVIOUS
  <2>2. b % w = 1
    BY <2>1, <1>1, ReduceAssumption DEF R
  <2>3. b = (w * (b \div w)) + (b % w) /\ b \div w \in Int
    BY <1>1
  <2> QED
    BY <2>1, <2>2, <2>3
<1>8. PICK n \in Int : a - (t * q) = w * n
  <2>1. t * q = (wa * (q * qi)) - (w * (m2 * q))
    BY <1>4, <1>6, SMTT(60)
  <2>2. t * q = (wa * (1 + (w * z))) - (w * (m2 * q))
    BY <2>1, <1>7
  <2>3. t * q = (wa + (w * (wa * z))) - (w * (m2 * q))
    BY <2>2
  <2>4. a - (t * q) = w * ((m1 - (wa * z)) + (m2 * q))
    BY <2>3, <1>3
  <2> QED
    BY <2>4
<1>9. (a - (t * q)) \div w = n
  BY <1>1, <1>8
<1>10. -(q * h) <= t * q /\ t * q <= (q * h) - q
  BY <1>1, <1>6
<1>11. PICK qh \in Int, fh \in Int, tq \in Int, wn \in Int :
         qh = q * h /\ fh = f * h /\ tq = t * q /\ wn = w * n
  OBVIOUS
<1>12. fh <= qh
  BY <1>1, <1>11
<1>13. -(fh + qh) + q <= wn /\ wn <= fh + qh /\ wn < 2 * qh
  BY <1>1, <1>8, <1>10, <1>11, <1>12
<1>14. -(f + q) <= 2 * n /\ 2 * n <= f + q
  <2>1. wn = h * (2 * n) /\ fh + qh = h * (f + q)
    BY <1>1, <1>11
  <2>2. PICK n2 \in Int, fq \in Int : n2 = 2 * n /\ fq = f + q
    OBVIOUS
  <2>3. h * n2 <= h * fq /\ -(h * fq) <= h * n2
    BY <2>1, <2>2, <1>1, <1>13
  <2>4. n2 <= fq
    BY <2>3, <1>1
  <2>5. -fq <= n2
    <3>1. h * (-fq) <= h * n2
      BY <2>3
    <3> QED
      BY <3>1, <1>1
  <2> QED
    BY <2>2, <2>4, <2>5
<1>15. -q < n /\ n < q
  <2>1. wn = w * n /\ 2 * qh = w * q /\ -(2 * qh) < wn
    BY <1>1, <1>11, <1>12, <1>13
  <2>2. w * n < w * q /\ w * (-q) < w * n
    BY <2>1, <1>13
  <2> QED
    BY <2>2, <1>1
<1>16. montgomery_reduce(a) = n
  <2>1. Wrap(n) = n
    BY <1>1, <1>15, WrapFits DEF Fits
  <2>2. montgomery_reduce(a) = Wrap((a - (t * q)) \div w)
    BY <1>1, <1>3, <1>4, <1>6 DEF montgomery_reduce
  <2> QED
    BY <2>1, <2>2, <1>9
<1> QED
  BY <1>1, <1>8, <1>14, <1>15, <1>16

\* Q is odd: its half, rounded.
LEMMA HalfOfQ ==
  \E s \in Int : s >= 0 /\ Q = (2 * s) + 1 /\ (Q - 1) \div 2 = s /\ Q \div 2 = s
<1>1. PICK q \in Int : q = Q /\ q > 0 /\ q % 2 = 1
  BY Constants, ReduceAssumption
<1>2. PICK s \in Int : s = q \div 2 /\ q = (2 * s) + 1
  <2>1. q = (2 * (q \div 2)) + (q % 2) /\ q \div 2 \in Int
    BY <1>1
  <2> QED
    BY <2>1, <1>1
<1>3. s >= 0
  BY <1>1, <1>2
<1>4. (q - 1) \div 2 = s
  BY <1>2
<1> QED
  BY <1>1, <1>2, <1>3, <1>4

\* What a shift to the right does.
LEMMA Quotient ==
  ASSUME NEW b \in Int, NEW s \in Int, s > 0
  PROVE  \E t \in Int : t = b \div s /\ s * t <= b /\ b < (s * t) + s
<1>1. b = (s * (b \div s)) + (b % s) /\ b \div s \in Int /\ 0 <= b % s /\ b % s < s
  OBVIOUS
<1>2. PICK t \in Int, m \in Int : t = b \div s /\ m = b % s
  BY <1>1
<1>3. PICK st \in Int : st = s * t
  OBVIOUS
<1>4. b = st + m /\ 0 <= m /\ m < s
  BY <1>1, <1>2, <1>3
<1> QED
  BY <1>2, <1>3, <1>4

\* Barrett reduction of a word gives its representative nearest to zero, when
\* the multiplier that stands for Shift/Q is precise enough.
LEMMA Barrett ==
  ASSUME NEW a \in Int, Fits(a), NEW e \in Int, Q <= Half,
         ((Shift + (Q \div 2)) \div Q) * Q = Shift + e,
         -Shift < (2 * Half) * e, (2 * Half) * e < Shift
  PROVE  /\ barrett_reduce(a) \in Int
         /\ -((Q - 1) \div 2) <= barrett_reduce(a)
         /\ barrett_reduce(a) <= (Q - 1) \div 2
         /\ \E t \in Int : barrett_reduce(a) = a - (t * Q)
<1>1. PICK q \in Int, h \in Int, w \in Int, sh \in Int :
        q = Q /\ h = Half /\ w = R /\ w = 2 * h /\ h > 0 /\ q > 0 /\ sh = Shift /\ sh > 0
  BY Constants
<1>2. PICK hq \in Int : hq >= 0 /\ q = (2 * hq) + 1 /\ (Q - 1) \div 2 = hq /\ Q \div 2 = hq
  BY <1>1, HalfOfQ
<1>3. PICK hs \in Int : sh = 2 * hs /\ Shift \div 2 = hs
  <2>1. sh % 2 = 0
    BY <1>1, ReduceAssumption
  <2>2. sh = (2 * (sh \div 2)) + (sh % 2) /\ sh \div 2 \in Int
    BY <1>1
  <2> QED
    BY <1>1, <2>1, <2>2
<1>4. PICK v \in Int : v = (Shift + (Q \div 2)) \div Q /\ v * q = sh + e
  <2>1. PICK s \in Int : s = Shift + (Q \div 2)
    BY <1>1, <1>2
  <2>2. s \div q \in Int
    BY <1>1
  <2> QED
    BY <2>1, <2>2, <1>1
<1>5. PICK b \in Int : b = (v * a) + hs
  BY <1>3
<1>6. PICK t \in Int : t = b \div sh /\ sh * t <= b /\ b < (sh * t) + sh
  BY <1>1, Quotient
<1>7. PICK rem \in Int : rem = a - (t * q)
  OBVIOUS
<1>8. -sh < 2 * (e * a) /\ 2 * (e * a) < sh
  <2>1. PICK g \in Int : g = IF e < 0 THEN -e ELSE e
    OBVIOUS
  <2>2. (2 * h) * g < sh
    BY <2>1, <1>1
  <2>3. -(g * h) <= e * a /\ e * a <= g * h
    <3>1. -h <= a /\ a <= h
      BY <1>1 DEF Fits
    <3>2. CASE e >= 0
      BY <3>1, <3>2, <2>1
    <3>3. CASE e < 0
      <4>1. (-e) * a <= (-e) * h /\ -((-e) * h) <= (-e) * a
        BY <3>1, <3>3, <1>1
      <4>2. e * a = -((-e) * a)
        OBVIOUS
      <4>3. PICK y \in Int, ya \in Int, yb \in Int :
              y = (-e) * h /\ ya = e * a /\ yb = (-e) * a
        OBVIOUS
      <4>4. g = -e
        BY <2>1, <3>3
      <4> QED
        BY <4>1, <4>2, <4>3, <4>4
    <3> QED
      BY <3>2, <3>3
  <2>4. PICK gh \in Int, ea \in Int : gh = g * h /\ ea = e * a
    OBVIOUS
  <2>5. (2 * h) * g = 2 * gh
    BY <2>4
  <2> QED
    BY <2>2, <2>3, <2>4, <2>5
\* sh * rem is e * a and half a step off.
<1>9. /\ q * (sh * t) <= q * b
      /\ q * b <= q * ((sh * t) + sh) - q
  <2>1. PICK st \in Int : st = sh * t
    OBVIOUS
  <2>2. st <= b /\ b <= (st + sh) - 1
    BY <1>6, <2>1
  <2>3. q * st <= q * b
    BY <2>2, <1>1
  <2>4. q * b <= q * ((st + sh) - 1)
    BY <2>2, <1>1
  <2> QED
    BY <2>1, <2>3, <2>4
<1>10. q * b = (sh * a) + (e * a) + (q * hs)
  <2>1. q * b = ((v * q) * a) + (q * hs)
    BY <1>5
  <2>2. (v * q) * a = (sh * a) + (e * a)
    BY <1>4
  <2> QED
    BY <2>1, <2>2
<1>11. PICK sr \in Int, ea \in Int, qs \in Int :
         sr = sh * rem /\ ea = e * a /\ qs = q * sh /\ 2 * (q * hs) = qs
  <2>1. 2 * (q * hs) = q * sh
    BY <1>3
  <2> QED
    BY <2>1
<1>12. 2 * sr >= -(2 * ea) - qs /\ 2 * sr < qs - (2 * ea)
  <2>1. sr = (sh * a) - (q * (sh * t))
    BY <1>7, <1>11
  <2>2. PICK sa \in Int, qst \in Int, qh \in Int, qb \in Int :
          sa = sh * a /\ qst = q * (sh * t) /\ qh = q * hs /\ qb = q * b
    OBVIOUS
  <2>3. q * ((sh * t) + sh) = qst + qs
    BY <2>2, <1>11
  <2>4. qst <= qb /\ qb < qst + qs /\ qb = sa + ea + qh /\ 2 * qh = qs /\ sr = sa - qst
    BY <2>1, <2>2, <2>3, <1>1, <1>9, <1>10, <1>11
  <2> QED
    BY <2>4
<1>13. -(qs + sh) < 2 * sr /\ 2 * sr < qs + sh
  BY <1>8, <1>11, <1>12
<1>14. -(q + 1) < 2 * rem /\ 2 * rem < q + 1
  <2>1. qs + sh = sh * (q + 1) /\ 2 * sr = sh * (2 * rem)
    BY <1>11
  <2>2. PICK u \in Int, y \in Int : u = q + 1 /\ y = 2 * rem
    OBVIOUS
  <2>3. sh * y < sh * u /\ sh * (-u) < sh * y
    BY <2>1, <2>2, <1>13
  <2>4. y < u /\ -u < y
    BY <2>3, <1>1
  <2> QED
    BY <2>2, <2>4
<1>15. -hq <= rem /\ rem <= hq
  BY <1>2, <1>14
<1>16. barrett_reduce(a) = rem
  <2>1. PICK m1 \in Int : Wrap(t) = t - (w * m1)
    BY <1>1, WrapForm
  <2>2. PICK wt \in Int : wt = Wrap(t)
    BY WrapForm
  <2>3. PICK y \in Int : y = wt * q
    OBVIOUS
  <2>4. PICK m2 \in Int : Wrap(y) = y - (w * m2)
    BY <1>1, WrapForm
  <2>5. PICK c \in Int : c = a - Wrap(y)
    BY WrapForm
  <2>6. c - rem = w * ((m1 * q) + m2)
    <3>1. y = (t * q) - (w * (m1 * q))
      BY <2>1, <2>2, <2>3
    <3>2. c = (a - y) + (w * m2)
      BY <2>4, <2>5
    <3>3. c - rem = (w * (m1 * q)) + (w * m2)
      BY <3>1, <3>2, <1>7
    <3> QED
      BY <3>3
  <2>7. PICK m \in Int : m = (m1 * q) + m2
    OBVIOUS
  <2>8. Fits(rem)
    BY <1>1, <1>2, <1>15 DEF Fits
  <2>9. Wrap(c) = rem
    BY <2>6, <2>7, <2>8, <1>1, WrapCongruent
  <2>10. barrett_reduce(a) = Wrap(a - Wrap(Wrap(b \div sh) * q))
    BY <1>1, <1>3, <1>4, <1>5 DEF barrett_reduce
  <2> QED
    BY <2>2, <2>3, <2>5, <2>9, <2>10, <1>6
<1> QED
  BY <1>1, <1>2, <1>7, <1>15, <1>16

\* reduce32 of a value below c, when the rounding term does not overflow.
LEMMA Reduce32 ==
  ASSUME NEW a \in Int, NEW c \in Int, c > 0, -c < a, a < c, Fits(a),
         c + (Shift \div 2) <= Half, Q <= Shift, Q <= Half,
         (Shift \div 2) + (((c + (Shift \div 2)) \div Shift) * (Shift - Q)) < Q
  PROVE  /\ reduce32(a) \in Int /\ -Q < reduce32(a) /\ reduce32(a) < Q
         /\ \E t \in Int : reduce32(a) = a - (t * Q)
<1>1. PICK q \in Int, h \in Int, sh \in Int :
        q = Q /\ h = Half /\ h > 0 /\ q > 0 /\ sh = Shift /\ sh > 0
  BY Constants
<1>2. PICK hs \in Int : sh = 2 * hs /\ Shift \div 2 = hs
  <2>1. sh % 2 = 0
    BY <1>1, ReduceAssumption
  <2>2. sh = (2 * (sh \div 2)) + (sh % 2) /\ sh \div 2 \in Int
    BY <1>1
  <2> QED
    BY <1>1, <2>1, <2>2
<1>3. PICK b \in Int : b = a + hs /\ Wrap(a + (Shift \div 2)) = b
  <2>1. PICK b \in Int : b = a + hs
    OBVIOUS
  <2>2. Fits(b)
    BY <2>1, <1>1, <1>2 DEF Fits
  <2> QED
    BY <2>1, <2>2, <1>2, WrapFits
<1>4. PICK t \in Int : t = b \div sh /\ sh * t <= b /\ b < (sh * t) + sh
  BY <1>1, Quotient
<1>5. PICK d \in Int : d = c + hs
  OBVIOUS
<1>6. PICK u \in Int : u = d \div sh /\ sh * u <= d /\ d < (sh * u) + sh
  BY <1>1, Quotient
<1>7. PICK g \in Int : g = sh - q /\ g >= 0
  BY <1>1
<1>8. hs + (u * g) < q
  <2>1. u = (c + (Shift \div 2)) \div Shift
    BY <1>1, <1>2, <1>5, <1>6
  <2> QED
    BY <2>1, <1>1, <1>2, <1>7
<1>9. t <= u /\ -u <= t
  <2>1. CASE t > u
    <3>1. sh * (u + 1) <= sh * t
      BY <2>1, <1>1
    <3>2. sh * (u + 1) = (sh * u) + sh
      OBVIOUS
    <3>3. PICK x \in Int, y \in Int : x = sh * u /\ y = sh * t
      OBVIOUS
    <3> QED
      BY <3>1, <3>2, <3>3, <1>3, <1>4, <1>5, <1>6
  <2>2. CASE t < -u
    <3>1. sh * t <= sh * ((-u) - 1)
      BY <2>2, <1>1
    <3>2. sh * ((-u) - 1) = -(sh * u) - sh
      OBVIOUS
    <3>3. PICK x \in Int, y \in Int : x = sh * u /\ y = sh * t
      OBVIOUS
    <3> QED
      BY <3>1, <3>2, <3>3, <1>1, <1>2, <1>3, <1>4, <1>5, <1>6
  <2> QED
    BY <2>1, <2>2
<1>10. PICK rem \in Int : rem = a - (t * q) /\ -q < rem /\ rem < q
  <2>1. PICK rem \in Int : rem = a - (t * q)
    OBVIOUS
  <2>2. PICK tg \in Int, ug \in Int, st \in Int : tg = t * g /\ ug = u * g /\ st = sh * t
    OBVIOUS
  <2>3. tg <= ug /\ -ug <= tg
    <3>1. t * g <= u * g /\ (-u) * g <= t * g
      BY <1>7, <1>9
    <3>2. (-u) * g = -(u * g)
      OBVIOUS
    <3> QED
      BY <3>1, <3>2, <2>2
  <2>4. rem = (a - st) + tg
    BY <2>1, <2>2, <1>7
  <2>5. -hs <= a - st /\ a - st < hs
    BY <2>2, <1>2, <1>3, <1>4
  <2>6. hs + ug < q
    BY <2>2, <1>8
  <2> QED
    BY <2>1, <2>3, <2>4, <2>5, <2>6
<1>11. reduce32(a) = rem
  <2>1. Fits(rem)
    BY <1>1, <1>10 DEF Fits
  <2>2. reduce32(a) = Wrap(a - (t * q))
    BY <1>1, <1>3, <1>4 DEF reduce32
  <2> QED
    BY <2>1, <2>2, <1>10, WrapFits
<1> QED
  BY <1>1, <1>10, <1>11

-----------------------------------------------------------------------------
LEMMA NttConstants ==
  /\ N \in Int /\ N > 0 /\ Layers \in Int /\ Layers > 0
  /\ \A l \in 1 .. Layers : Lens[l] \in Int /\ Lens[l] > 0
  /\ \A l \in 1 .. Layers : l < Layers => Lens[l] = 2 * Lens[l + 1]
<1>1. Lens \in Seq(Nat \ {0}) /\ Layers > 0 /\ Layers \in Int /\ N \in Int /\ N > 0
  BY NttAssumption DEF Layers
<1>2. \A l \in 1 .. Layers : Lens[l] \in Nat \ {0}
  BY <1>1 DEF Layers
<1>3. ASSUME NEW l \in 1 .. Layers, l < Layers PROVE Lens[l] = 2 * Lens[l + 1]
  <2>1. l \in 1 .. Layers - 1
    BY <1>1, <1>3
  <2> QED
    BY <2>1, NttAssumption
<1> QED
  BY <1>1, <1>2, <1>3

\* The transform ends in N / len rings, for the last len.
LEMMA BlocksCount ==
  \E m \in Int : m > 0 /\ N = (2 * Lens[Layers]) * m /\ Blocks = 2 * m
<1>1. Layers \in 1 .. Layers
  BY NttConstants
<1>2. PICK m \in 1 .. N : N = (2 * Lens[Layers]) * m
  BY <1>1, NttAssumption
<1>3. PICK len \in Int, n \in Int : len = Lens[Layers] /\ len > 0 /\ n = N /\ n > 0
  BY <1>1, NttConstants
<1>4. n = len * (2 * m)
  BY <1>2, <1>3
<1>5. PICK b \in Int : b = 2 * m
  OBVIOUS
<1>6. n \div len = b
  BY <1>3, <1>4, <1>5
<1> QED
  BY <1>2, <1>3, <1>5, <1>6, NttConstants DEF Blocks

\* Blocks are disjoint, follow each other and end with the polynomial.
LEMMA BlockEnd ==
  ASSUME NEW l \in 1 .. Layers, NEW s \in 0 .. N - 1,
         NEW b \in Int, s = (2 * Lens[l]) * b
  PROVE  /\ s + (2 * Lens[l]) <= N
         /\ s + (2 * Lens[l]) = (2 * Lens[l]) * (b + 1)
         /\ b \in 0 .. N
         /\ b + 1 \in 0 .. N
<1>1. PICK m \in 1 .. N : N = (2 * Lens[l]) * m
  BY NttAssumption
<1>2. PICK w \in Int, n \in Int : w = 2 * Lens[l] /\ w > 0 /\ n = N /\ n > 0
  BY NttConstants
<1>3. w * b < w * m /\ w * (-1) < w * b
  BY <1>1, <1>2
<1>4. b < m /\ -1 < b
  BY <1>2, <1>3
<1>5. w * (b + 1) <= w * m
  BY <1>2, <1>4
<1>6. w * (b + 1) = (w * b) + w
  OBVIOUS
<1> QED
  BY <1>1, <1>2, <1>4, <1>5, <1>6

\* The index of a block's root is one of zetas[], in either direction.
LEMMA RootInTable ==
  ASSUME NEW l \in 1 .. Layers, NEW s \in 0 .. N - 1, NEW j \in Int,
         \/ j * (2 * Lens[l]) = N + s
         \/ (j + 1) * (2 * Lens[l]) = (2 * N) - s
  PROVE  j \in 0 .. Blocks - 1
<1>1. PICK len \in Int, last \in Int, n \in Int :
        len = Lens[l] /\ last = Lens[Layers] /\ n = N /\ last > 0 /\ last <= len /\ n > 0
  <2>1. Layers \in 1 .. Layers
    BY NttConstants
  <2>2. Lens[Layers] <= Lens[l]
    BY NttAssumption
  <2> QED
    BY <2>1, <2>2, NttConstants
<1>2. PICK m \in Int : m > 0 /\ n = (2 * last) * m /\ Blocks = 2 * m
  BY <1>1, BlocksCount
<1>3. PICK u \in Int : u = 2 * m
  OBVIOUS
<1>4. n = last * u
  BY <1>2, <1>3
<1>5. CASE j * (2 * Lens[l]) = N + s
  <2>1. 2 * (j * len) = n + s
    BY <1>1, <1>5
  <2>2. 0 < j * len /\ j * len < n
    <3>1. PICK y \in Int : y = j * len
      BY <1>1
    <3> QED
      BY <3>1, <2>1, <1>1
  <2>3. j > 0
    <3>1. ~(j <= 0)
      <4>1. ASSUME j <= 0 PROVE j * len <= 0
        BY <4>1, <1>1
      <4> QED
        BY <4>1, <2>2
    <3> QED
      BY <3>1
  <2>4. last * j <= j * len
    BY <1>1, <2>3
  <2>5. last * j < last * u
    <3>1. PICK y \in Int, z \in Int : y = j * len /\ z = last * j
      BY <1>1
    <3> QED
      BY <3>1, <2>2, <2>4, <1>4
  <2>6. j < u
    BY <1>1, <2>5
  <2> QED
    BY <2>3, <2>6, <1>2, <1>3
<1>6. CASE (j + 1) * (2 * Lens[l]) = (2 * N) - s
  <2>1. PICK i \in Int : i = j + 1
    OBVIOUS
  <2>2. 2 * (i * len) = (2 * n) - s
    BY <1>1, <1>6, <2>1
  <2>3. 0 < i * len /\ i * len <= n
    <3>1. PICK y \in Int : y = i * len
      BY <1>1
    <3> QED
      BY <3>1, <2>2, <1>1
  <2>4. i > 0
    <3>1. ~(i <= 0)
      <4>1. ASSUME i <= 0 PROVE i * len <= 0
        BY <4>1, <1>1
      <4> QED
        BY <4>1, <2>3
    <3> QED
      BY <3>1
  <2>5. last * i <= i * len
    BY <1>1, <2>4
  <2>6. last * i <= last * u
    <3>1. PICK y \in Int, z \in Int : y = i * len /\ z = last * i
      BY <1>1
    <3> QED
      BY <3>1, <2>3, <2>5, <1>4
  <2>7. i <= u
    BY <1>1, <2>6
  <2> QED
    BY <2>1, <2>4, <2>7, <1>2, <1>3
<1> QED
  BY <1>5, <1>6

\* A product by a root, or of a word and a factor below Q, is reduced.
LEMMA Reduced ==
  ASSUME NEW a \in Int, NEW b \in Int, Q <= Half, -Q < a, a < Q, -Half <= b, b <= Half
  PROVE  /\ fqmul(a, b) \in Int /\ -Q < fqmul(a, b) /\ fqmul(a, b) < Q
         /\ fqmul(b, a) = fqmul(a, b)
<1>1. PICK q \in Int, h \in Int, m \in Int : q = Q /\ h = Half /\ q > 0 /\ h > 0 /\ m = q - 1
  BY Constants
<1>2. -q < a /\ a < q
  BY <1>1
<1>3. a * b \in Int /\ -(q * h) <= a * b /\ a * b < q * h
  <2>1. CASE q = 1
    <3>1. a = 0
      BY <1>2, <2>1
    <3> QED
      BY <3>1, <2>1, <1>1
  <2>2. CASE q > 1
    <3>1. -(q * h) <= a * b /\ a * b <= q * h
      BY <1>1, <1>2, ProductRange
    <3>2. a * b # q * h
      <4>1. CASE a >= 0
        <5>1. a * b <= a * h
          BY <4>1, <1>1
        <5>2. a * h < q * h
          BY <1>1, <1>2
        <5>3. PICK u \in Int, v \in Int, y \in Int : u = a * b /\ v = a * h /\ y = q * h
          OBVIOUS
        <5> QED
          BY <5>1, <5>2, <5>3
      <4>2. CASE a < 0
        <5>1. PICK c \in Int : c = -a /\ c > 0 /\ c < q
          BY <4>2, <1>2
        <5>2. c * (-b) <= c * h
          BY <5>1, <1>1
        <5>3. c * h < q * h
          BY <5>1, <1>1
        <5>4. c * (-b) = a * b
          BY <5>1
        <5>5. PICK u \in Int, v \in Int, y \in Int : u = a * b /\ v = c * h /\ y = q * h
          OBVIOUS
        <5> QED
          BY <5>2, <5>3, <5>4, <5>5
      <4> QED
        BY <4>1, <4>2
    <3>3. PICK u \in Int, y \in Int : u = a * b /\ y = q * h
      OBVIOUS
    <3> QED
      BY <3>1, <3>2, <3>3
  <2> QED
    BY <2>1, <2>2, <1>1
<1>4. PICK c \in Int : c = a * b
  OBVIOUS
<1>5. montgomery_reduce(c) \in Int /\ -Q < montgomery_reduce(c) /\ montgomery_reduce(c) < Q
  <2>1. q >= 0 /\ q <= Q /\ -(q * Half) <= c /\ c <= q * Half /\ c < Q * Half
    <3>1. PICK y \in Int : y = q * h
      OBVIOUS
    <3> QED
      BY <3>1, <1>1, <1>3, <1>4
  <2> QED
    BY <2>1, Montgomery
<1>6. b * a = a * b
  OBVIOUS
<1> QED
  BY <1>4, <1>5, <1>6 DEF fqmul

\* The root of a block is below Q, of either sign.
LEMMA ZetaBound ==
  ASSUME NEW j \in 0 .. Blocks - 1
  PROVE  Zetas[j] \in Int /\ -Q < Zetas[j] /\ Zetas[j] < Q
<1>1. PICK s \in Int : s >= 0 /\ Q = (2 * s) + 1 /\ Q \div 2 = s
  BY HalfOfQ
<1>2. Zetas[j] \in -(Q \div 2) .. Q \div 2
  BY NttAssumption
<1> QED
  BY <1>1, <1>2

\* Where a block's coefficients lie.
LEMMA BlockIndices ==
  ASSUME NEW i \in Idx, layer \in 1 .. Layers, Placed
  PROVE  /\ Lower(i) => i >= start /\ i + Lens[layer] \in Idx /\ i + Lens[layer] >= start
         /\ Upper(i) => i >= start /\ i - Lens[layer] \in Idx /\ i - Lens[layer] >= start
         /\ ~Lower(i) /\ ~Upper(i) <=> i < start \/ i >= start + (2 * Lens[layer])
         /\ Lower(i) => ~Upper(i)
<1>1. PICK b \in Int : start = (2 * Lens[layer]) * b
  BY DEF Placed
<1>2. start + (2 * Lens[layer]) <= N
  BY <1>1, BlockEnd DEF Placed
<1>3. PICK len \in Int, n \in Int : len = Lens[layer] /\ len > 0 /\ n = N
  BY NttConstants
<1> QED
  BY <1>2, <1>3 DEF Placed, Idx, Lower, Upper

\* Forward, what a block stores.
LEMMA ForwardFits ==
  ASSUME r \in Poly, Placed, layer \in 1 .. Layers, ForwardRoot, ForwardRange, Q <= Half,
         (Layers + 1) * Q <= Half, NEW i \in Idx
  PROVE  /\ Forward[i] \in Int /\ Fits(Forward[i])
         /\ i < start + (2 * Lens[layer])
              => -((layer + 1) * Q) < Forward[i] /\ Forward[i] < (layer + 1) * Q
         /\ i >= start + (2 * Lens[layer])
              => -(layer * Q) < Forward[i] /\ Forward[i] < layer * Q
<1>1. PICK q \in Int, h \in Int, l \in Int, lq \in Int, len \in Int :
        q = Q /\ q > 0 /\ h = Half /\ l = layer /\ lq = l * q /\ len = Lens[layer] /\ len > 0
  BY Constants, NttConstants
<1>2. (layer + 1) * Q = lq + q /\ layer * Q = lq
  BY <1>1
<1>3. lq + q <= h
  <2>1. (l + 1) * q <= (Layers + 1) * q
    BY <1>1, NttConstants
  <2>2. PICK a \in Int, b \in Int : a = (l + 1) * q /\ b = (Layers + 1) * q
    BY NttConstants
  <2> QED
    BY <2>1, <2>2, <1>1, <1>2
<1>4. k \in 0 .. Blocks - 1
  BY RootInTable DEF ForwardRoot, Placed
<1>5. \A j \in Idx : r[j] \in Int
  BY DEF Poly
<1>6. ASSUME NEW j \in Idx
      PROVE  /\ j >= start => -lq < r[j] /\ r[j] < lq
             /\ -(lq + q) < r[j] /\ r[j] < lq + q
  BY <1>1, <1>2, <1>5, <1>6 DEF ForwardRange, Placed, Idx
<1>7. ASSUME NEW j \in Idx
      PROVE fqmul(Zetas[k], r[j]) \in Int /\ -q < fqmul(Zetas[k], r[j]) /\ fqmul(Zetas[k], r[j]) < q
  <2>1. -h <= r[j] /\ r[j] <= h
    BY <1>1, <1>3, <1>5, <1>6
  <2> QED
    BY <2>1, <1>1, <1>4, <1>5, ZetaBound, Reduced
<1>8. CASE Lower(i)
  <2>1. i + Lens[layer] \in Idx /\ i >= start
    BY <1>8, BlockIndices
  <2>2. Forward[i] = r[i] + fqmul(Zetas[k], r[i + Lens[layer]])
    BY <1>8 DEF Forward
  <2>3. PICK u \in Int, v \in Int : u = r[i] /\ v = fqmul(Zetas[k], r[i + Lens[layer]])
          /\ -lq < u /\ u < lq /\ -q < v /\ v < q
    BY <2>1, <1>5, <1>6, <1>7
  <2>4. ~(i >= start + (2 * Lens[layer]))
    BY <1>8, BlockIndices
  <2> QED
    BY <2>2, <2>3, <2>4, <1>1, <1>2, <1>3 DEF Fits
<1>9. CASE Upper(i)
  <2>1. i - Lens[layer] \in Idx /\ i - Lens[layer] >= start
    BY <1>9, BlockIndices
  <2>2. Forward[i] = r[i - Lens[layer]] - fqmul(Zetas[k], r[i])
    BY <1>9, BlockIndices DEF Forward
  <2>3. PICK u \in Int, v \in Int : u = r[i - Lens[layer]] /\ v = fqmul(Zetas[k], r[i])
          /\ -lq < u /\ u < lq /\ -q < v /\ v < q
    BY <2>1, <1>5, <1>6, <1>7
  <2>4. ~(i >= start + (2 * Lens[layer]))
    BY <1>9, BlockIndices
  <2> QED
    BY <2>2, <2>3, <2>4, <1>1, <1>2, <1>3 DEF Fits
<1>10. CASE ~Lower(i) /\ ~Upper(i)
  <2>1. Forward[i] = r[i]
    BY <1>10 DEF Forward
  <2>2. i >= start + (2 * Lens[layer]) => i >= start
    BY <1>1 DEF Placed, Idx
  <2> QED
    BY <2>1, <2>2, <1>1, <1>2, <1>3, <1>5, <1>6 DEF Fits
<1> QED
  BY <1>8, <1>9, <1>10

\* The loops go on to the next block, or to the first of the next layer.
LEMMA NextBlock ==
  ASSUME Placed, layer \in 1 .. Layers, NEW step \in {1, -1}, Advance(step)
  PROVE  /\ layer' \in 0 .. Layers + 1 /\ start' \in 0 .. N - 1
         /\ layer' \in 1 .. Layers => \E b \in 0 .. N : start' = (2 * Lens[layer']) * b
         /\ \/ layer' = layer /\ start' = start + (2 * Lens[layer])
            \/ /\ layer' = layer + step /\ start' = 0 /\ start + (2 * Lens[layer]) = N
         /\ k' = k + step
<1>1. PICK b \in Int : start = (2 * Lens[layer]) * b
  BY DEF Placed
<1>2. /\ start + (2 * Lens[layer]) <= N
      /\ start + (2 * Lens[layer]) = (2 * Lens[layer]) * (b + 1)
      /\ b + 1 \in 0 .. N
  BY <1>1, BlockEnd DEF Placed
<1>3. PICK w \in Int, n \in Int : w = 2 * Lens[layer] /\ w > 0 /\ n = N /\ n > 0 /\ Layers \in Int
  BY NttConstants
<1>4. CASE start + w < n
  <2>1. layer' = layer /\ start' = start + w /\ k' = k + step
    BY <1>3, <1>4 DEF Advance
  <2> QED
    BY <2>1, <1>2, <1>3, <1>4 DEF Placed
<1>5. CASE ~(start + w < n)
  <2>1. layer' = layer + step /\ start' = 0 /\ k' = k + step
    BY <1>3, <1>5 DEF Advance
  <2>2. start + w = n
    BY <1>2, <1>3, <1>5 DEF Placed
  <2>3. layer' \in 1 .. Layers => start' = (2 * Lens[layer']) * 0
    <3>1. ASSUME layer' \in 1 .. Layers PROVE Lens[layer'] \in Int
      BY <3>1, NttConstants
    <3> QED
      BY <3>1, <2>1
  <2>4. 0 \in 0 .. N
    BY <1>3
  <2> QED
    BY <2>1, <2>2, <2>3, <2>4, <1>3
<1> QED
  BY <1>4, <1>5

\* A block of the forward transform keeps its place, its root and its range.
LEMMA ForwardStep ==
  ASSUME r \in Poly, Placed, layer \in 1 .. Layers, ForwardRoot, ForwardRange, Q <= Half,
         (Layers + 1) * Q <= Half, ForwardBlock
  PROVE  r' \in Poly /\ Placed' /\ ForwardRoot' /\ ForwardRange'
<1>1. PICK len \in Int, n \in Int, l \in Int, ll \in Int, kk \in Int, s \in Int :
        /\ len = Lens[layer] /\ len > 0 /\ n = N /\ n > 0
        /\ l = layer /\ 1 <= l /\ l <= ll /\ ll = Layers /\ kk = k /\ s = start
        /\ 0 <= s /\ s < n
  BY NttConstants DEF Placed
<1>2. Advance(1) /\ r' = Keep(Forward)
  BY DEF ForwardBlock
<1>3. /\ layer' \in 0 .. Layers + 1 /\ start' \in 0 .. N - 1
      /\ layer' \in 1 .. Layers => \E b \in 0 .. N : start' = (2 * Lens[layer']) * b
      /\ \/ layer' = layer /\ start' = start + (2 * Lens[layer])
         \/ layer' = layer + 1 /\ start' = 0 /\ start + (2 * Lens[layer]) = N
      /\ k' = k + 1
  BY <1>2, NextBlock
<1>4. kk * (2 * len) = n + s
  BY <1>1 DEF ForwardRoot
<1>5. (kk + 1) * (2 * len) = (n + s) + (2 * len)
  <2>1. (kk + 1) * (2 * len) = (kk * (2 * len)) + (2 * len)
    OBVIOUS
  <2> QED
    BY <2>1, <1>4
<1>6. ForwardRoot'
  <2>1. CASE layer' = layer /\ start' = start + (2 * Lens[layer])
    BY <2>1, <1>1, <1>3, <1>5 DEF ForwardRoot
  <2>2. CASE layer' = layer + 1 /\ start' = 0 /\ start + (2 * Lens[layer]) = N
    <3>1. SUFFICES ASSUME layer + 1 <= Layers
                   PROVE  (k + 1) * (2 * Lens[layer + 1]) = N
      BY <2>2, <1>3, <1>1 DEF ForwardRoot
    <3>2. Lens[layer] = 2 * Lens[layer + 1] /\ Lens[layer + 1] \in Int
      BY <3>1, <1>1, NttConstants
    <3>3. PICK m \in Int : m = Lens[layer + 1] /\ len = 2 * m
      BY <3>2, <1>1
    <3>4. (kk + 1) * (2 * len) = 2 * ((kk + 1) * (2 * m))
      BY <3>3
    <3>5. PICK y \in Int : y = (kk + 1) * (2 * m)
      OBVIOUS
    <3>6. 2 * y = 2 * n
      BY <3>4, <3>5, <1>5, <1>1, <2>2
    <3> QED
      BY <3>3, <3>5, <3>6, <1>1
  <2> QED
    BY <2>1, <2>2, <1>3
<1>7. k' \in 0 .. Blocks
  <2>1. k \in 0 .. Blocks - 1
    BY <1>1, RootInTable DEF ForwardRoot, Placed
  <2>2. PICK m \in Int : Blocks = 2 * m
    BY BlocksCount
  <2> QED
    BY <2>1, <2>2, <1>3
<1>8. Placed'
  BY <1>3, <1>7 DEF Placed, Blocks, Layers
<1>9. \A i \in Idx : Wrap(Forward[i]) = Forward[i] /\ Forward[i] \in Int
  BY ForwardFits, WrapFits
<1>10. r' = [i \in Idx |-> Forward[i]]
  BY <1>2, <1>9 DEF Keep
<1>11. r' \in Poly
  BY <1>9, <1>10 DEF Poly
<1>12. ForwardRange'
  <2>1. layer' > 0 /\ (layer' > Layers => start' = 0)
    BY <1>1, <1>3
  <2>2. ASSUME NEW i \in Idx
        PROVE  LET b == (IF i < start' THEN layer' + 1 ELSE layer') * Q
               IN  -b < r'[i] /\ r'[i] < b
    <3>1. r'[i] = Forward[i] /\ i \in Int /\ i < N
      BY <1>1, <1>10 DEF Idx
    <3>2. /\ i < start + (2 * Lens[layer])
               => -((layer + 1) * Q) < Forward[i] /\ Forward[i] < (layer + 1) * Q
          /\ i >= start + (2 * Lens[layer])
               => -(layer * Q) < Forward[i] /\ Forward[i] < layer * Q
      BY ForwardFits
    <3>3. CASE layer' = layer /\ start' = start + (2 * Lens[layer])
      <4>1. CASE i < start + (2 * Lens[layer])
        BY <3>1, <3>2, <3>3, <4>1
      <4>2. CASE i >= start + (2 * Lens[layer])
        BY <3>1, <3>2, <3>3, <4>2, <1>1
      <4> QED
        BY <4>1, <4>2, <3>1, <1>1
    <3>4. CASE layer' = layer + 1 /\ start' = 0 /\ start + (2 * Lens[layer]) = N
      <4>1. ~(i < start')
        BY <3>4, <3>1 DEF Idx
      <4>2. i < start + (2 * Lens[layer])
        BY <3>1, <3>4
      <4> QED
        BY <3>1, <3>2, <3>4, <4>1, <4>2
    <3> QED
      BY <3>3, <3>4, <1>3
  <2> QED
    BY <2>1, <2>2 DEF ForwardRange, Idx, Layers
<1> QED
  BY <1>6, <1>8, <1>11, <1>12

\* Backward, too, a block follows with its root.
LEMMA InverseStep ==
  ASSUME Placed, layer \in 1 .. Layers, InverseRoot, Advance(-1)
  PROVE  Placed' /\ InverseRoot' /\ layer' <= Layers
<1>1. PICK len \in Int, n \in Int, l \in Int, ll \in Int, kk \in Int, s \in Int :
        /\ len = Lens[layer] /\ len > 0 /\ n = N /\ n > 0
        /\ l = layer /\ 1 <= l /\ l <= ll /\ ll = Layers /\ kk = k /\ s = start
        /\ 0 <= s /\ s < n
  BY NttConstants DEF Placed
<1>2. /\ layer' \in 0 .. Layers + 1 /\ start' \in 0 .. N - 1
      /\ layer' \in 1 .. Layers => \E b \in 0 .. N : start' = (2 * Lens[layer']) * b
      /\ \/ layer' = layer /\ start' = start + (2 * Lens[layer])
         \/ layer' = layer + (-1) /\ start' = 0 /\ start + (2 * Lens[layer]) = N
      /\ k' = k + (-1)
  BY NextBlock
<1>3. (kk + 1) * (2 * len) = (2 * n) - s
  BY <1>1 DEF InverseRoot
<1>4. kk * (2 * len) = ((2 * n) - s) - (2 * len)
  <2>1. (kk + 1) * (2 * len) = (kk * (2 * len)) + (2 * len)
    OBVIOUS
  <2>2. PICK y \in Int : y = kk * (2 * len)
    OBVIOUS
  <2> QED
    BY <2>1, <2>2, <1>3
<1>5. k' = kk - 1 /\ (kk - 1) + 1 = kk
  BY <1>1, <1>2
<1>6. s + (2 * len) <= n
  BY <1>1, BlockEnd DEF Placed
<1>7. k' \in 0 .. Blocks
  <2>1. k \in 0 .. Blocks - 1
    BY <1>1, RootInTable DEF InverseRoot, Placed
  <2>2. kk # 0
    BY <1>1, <1>4, <1>6
  <2>3. PICK m \in Int : Blocks = 2 * m
    BY BlocksCount
  <2> QED
    BY <2>1, <2>2, <2>3, <1>1, <1>5
<1>8. Placed'
  BY <1>2, <1>7 DEF Placed, Blocks, Layers
<1>9. InverseRoot'
  <2>1. CASE layer' = layer /\ start' = start + (2 * Lens[layer])
    <3>1. (k' + 1) * (2 * Lens[layer]) = (2 * N) - start'
      BY <2>1, <1>1, <1>4, <1>5
    <3> QED
      BY <3>1, <2>1 DEF InverseRoot
  <2>2. CASE layer' = layer + (-1) /\ start' = 0 /\ start + (2 * Lens[layer]) = N
    <3>1. SUFFICES ASSUME layer - 1 > 0
                   PROVE  kk * (2 * Lens[layer - 1]) = 2 * N
      BY <2>2, <1>1, <1>5 DEF InverseRoot
    <3>2. layer - 1 \in 1 .. Layers /\ layer - 1 < Layers /\ (layer - 1) + 1 = layer
      BY <3>1, <1>1
    <3>3. Lens[layer - 1] = 2 * len
      BY <3>2, <1>1, NttConstants
    <3>4. kk * (2 * (2 * len)) = 2 * (kk * (2 * len))
      OBVIOUS
    <3>5. PICK y \in Int : y = kk * (2 * len)
      OBVIOUS
    <3>6. s + (2 * len) = n
      BY <1>1, <2>2
    <3>7. y = n
      BY <3>5, <3>6, <1>4
    <3> QED
      BY <3>3, <3>4, <3>5, <3>7, <1>1
  <2> QED
    BY <2>1, <2>2, <1>2
<1> QED
  BY <1>1, <1>2, <1>8, <1>9

\* Where the transforms begin.
LEMMA Beginning ==
  /\ Layers \in 1 .. Layers /\ 1 \in 1 .. Layers /\ 1 \in 0 .. Blocks /\ 0 \in 0 .. N - 1
  /\ 1 * (2 * Lens[1]) = N + 0
  /\ Blocks - 1 \in 0 .. Blocks /\ ((Blocks - 1) + 1) * (2 * Lens[Layers]) = (2 * N) - 0
  /\ \A l \in 1 .. Layers : \E b \in 0 .. N : 0 = (2 * Lens[l]) * b
<1>1. PICK m \in Int : m > 0 /\ N = (2 * Lens[Layers]) * m /\ Blocks = 2 * m
  BY BlocksCount
<1>2. PICK last \in Int, n \in Int : last = Lens[Layers] /\ n = N /\ n > 0 /\ last > 0
  BY NttConstants
<1>3. (2 * m) * (2 * last) = 2 * ((2 * last) * m)
  OBVIOUS
<1>4. PICK b \in Int : b = 2 * m /\ b - 1 \in 0 .. b /\ 1 \in 0 .. b /\ (b - 1) + 1 = b
  BY <1>1
<1>5. b * (2 * last) = (2 * n) - 0
  <2>1. PICK y \in Int : y = (2 * last) * m
    OBVIOUS
  <2> QED
    BY <2>1, <1>1, <1>2, <1>3, <1>4
<1>6. \A l \in 1 .. Layers : 0 = (2 * Lens[l]) * 0 /\ 0 \in 0 .. N
  BY <1>2, NttConstants
<1>7. 1 * (2 * Lens[1]) = N + 0
  <2>1. 1 \in 1 .. Layers
    BY NttConstants
  <2>2. Lens[1] \in Int
    BY <2>1, NttConstants
  <2> QED
    BY <2>2, NttAssumption, NttConstants
<1> QED
  BY <1>1, <1>2, <1>4, <1>5, <1>6, <1>7, NttConstants

LEMMA IntPoly ==
  ASSUME NEW f \in Poly
  PROVE  \A i \in Idx : f[i] \in Int
BY DEF Poly

\* A polynomial below Q may enter the forward transform.
LEMMA EnterForward ==
  ASSUME NEW f \in Poly, Bounded(f, Q), Enter(1, 1, f)
  PROVE  r' \in Poly /\ Placed' /\ ForwardRoot' /\ ForwardRange'
<1>1. layer' = 1 /\ start' = 0 /\ k' = 1 /\ r' = f
  BY DEF Enter
<1>2. Placed'
  <2>1. layer' \in 0 .. Layers + 1 /\ start' \in 0 .. N - 1 /\ k' \in 0 .. Blocks
    BY <1>1, Beginning, NttConstants
  <2>2. layer' \in 1 .. Layers => \E b \in 0 .. N : start' = (2 * Lens[layer']) * b
    BY <1>1, Beginning
  <2> QED
    BY <2>1, <2>2 DEF Placed, Blocks, Layers
<1>3. ForwardRoot'
  BY <1>1, Beginning DEF ForwardRoot, Layers
<1>4. ForwardRange'
  <2>1. ASSUME NEW i \in Idx PROVE -(1 * Q) < f[i] /\ f[i] < 1 * Q /\ ~(i < 0)
    BY Constants DEF Bounded, Idx
  <2> QED
    BY <1>1, <2>1 DEF ForwardRange, Idx, Layers
<1> QED
  BY <1>1, <1>2, <1>3, <1>4

\* Where the inverse transform begins.
LEMMA EnterInverse ==
  ASSUME NEW f \in Poly, Enter(Layers, Blocks - 1, f)
  PROVE  r' = f /\ Placed' /\ InverseRoot' /\ layer' <= Layers
<1>1. layer' = Layers /\ start' = 0 /\ k' = Blocks - 1 /\ r' = f
  BY DEF Enter
<1>2. Placed'
  <2>1. layer' \in 0 .. Layers + 1 /\ start' \in 0 .. N - 1 /\ k' \in 0 .. Blocks
    BY <1>1, Beginning, NttConstants
  <2>2. layer' \in 1 .. Layers => \E b \in 0 .. N : start' = (2 * Lens[layer']) * b
    BY <1>1, Beginning
  <2> QED
    BY <2>1, <2>2 DEF Placed, Blocks, Layers
<1>3. InverseRoot'
  BY <1>1, Beginning DEF InverseRoot, Layers, Blocks
<1> QED
  BY <1>1, <1>2, <1>3, NttConstants
=============================================================================
