------------------------------ MODULE Compress ------------------------------
(***************************************************************************)
(* How poly.c and polyvec.c of ML-KEM turn coefficients into d bits each,  *)
(* and back: d is 1 for the message, 4 or 5 for the ciphertext's v, 10 or  *)
(* 11 for its vector, and 12 for the keys, which are not rounded.  Eight   *)
(* coefficients always fill d bytes.                                       *)
(***************************************************************************)
EXTENDS Integers

\* The multipliers of Scale stand for a division by this modulus and no other.
KYBER_Q == 3329

Group == 0 .. 7

\* The powers of two that the code shifts by, as a table.
TwoTo(n) ==
  <<1, 2, 4, 8, 16, 32, 64, 128, 256, 512, 1024, 2048, 4096, 8192, 16384, 32768, 65536,
    131072, 262144>>[n + 1]

\* poly_reduce's result: the representative nearest to zero.
Centre(v) ==
  IF v % KYBER_Q > KYBER_Q \div 2 THEN (v % KYBER_Q) - KYBER_Q ELSE v % KYBER_Q

\* u += (u >> 15) & KYBER_Q.
Standard(u) == IF u < 0 THEN u + KYBER_Q ELSE u

\* The bits of a * m from bit s on, for s >= 14 and m < 2^21; TLC's integers
\* cannot hold the product.
HighPart(a, m, s) ==
  LET low == (((a * (m % 128)) \div 128) + (a * ((m \div 128) % 128))) \div 128
  IN  (low + (a * (m \div 16384))) \div TwoTo(s - 14)

\* What is added, the multiplier that stands for the division by q, and the
\* shift that follows.
Scale(d) ==
  CASE d \in {1, 4} -> <<1665, 80635, 28>>
    [] d = 5        -> <<1664, 40318, 27>>
    [] d = 10       -> <<1665, 1290167, 32>>
    [] d = 11       -> <<1664, 645084, 31>>

\* Mutant: nothing is added for rounding.
compressFloor(d, u) ==
  IF d = 12 THEN Standard(u)
  ELSE LET c == Scale(d)
       IN  HighPart((IF d = 1 THEN u ELSE Standard(u)) * TwoTo(d), c[2], c[3]) % TwoTo(d)

\* poly_tomsg takes u as it is: of the 32 bits it reads one.
compress(d, u) ==
  IF d = 12 THEN Standard(u)
  ELSE LET c == Scale(d)
       IN  HighPart(((IF d = 1 THEN u ELSE Standard(u)) * TwoTo(d)) + c[1], c[2], c[3]) % TwoTo(d)

\* Mutant: the half is not added.
decompressFloor(d, t) == IF d = 12 THEN t ELSE (t * KYBER_Q) \div TwoTo(d)

\* For d = 1 it is poly_frommsg's 0 or (KYBER_Q + 1)/2.
decompress(d, t) ==
  IF d = 12 THEN t ELSE ((t * KYBER_Q) + TwoTo(d - 1)) \div TwoTo(d)

Bit(v, n) == (v \div TwoTo(n)) % 2

\* The number of w bits, at most twelve, whose bit n is b[n].
FromBits(w, b) ==
  LET Part(n) == IF n < w THEN TwoTo(n) * b[n] ELSE 0
  IN  Part(0) + Part(1) + Part(2) + Part(3) + Part(4) + Part(5)
        + Part(6) + Part(7) + Part(8) + Part(9) + Part(10) + Part(11)

\* The shifts and ors of every format lay the bits of t[0] to t[7] end to end,
\* least significant first, and cut them into bytes.
pack(d, t) ==
  [j \in 0 .. d - 1 |->
     FromBits(8, [b \in 0 .. 7 |-> Bit(t[((8 * j) + b) \div d], ((8 * j) + b) % d)])]

unpack(d, a) ==
  [i \in Group |->
     FromBits(d, [b \in 0 .. d - 1 |-> Bit(a[((d * i) + b) \div 8], ((d * i) + b) % 8)])]

\* poly_compress, polyvec_compress, poly_tobytes, poly_tomsg; and their
\* counterparts.
Encode(d, f) == pack(d, [i \in Group |-> compress(d, f[i])])
Decode(d, a) == LET t == unpack(d, a) IN [i \in Group |-> decompress(d, t[i])]
=============================================================================
