------------------------------ MODULE MCKemPoly -----------------------------
(* The arithmetic of ML-KEM ("poly"): the constants and the table of roots *)
(* of the code, for KYBER_K = 2, and products of extreme and of sparse     *)
(* polynomials.  Compression ("codec"): every reduced coefficient in every *)
(* format.  Encryption ("cpa512", "cpa1024"): a ring of eight coefficients *)
(* with the formats of ML-KEM-512 and ML-KEM-1024.  Where another part     *)
(* runs, KemPoly stays in an initial state.                                *)
EXTENDS KemPolyRef, Codec

VARIABLES
  which,                            \* the part that runs
  sk, pk, c, m, got, phase          \* of IndCpa

CpaVars   == <<sk, pk, c, m, got, phase>>

MCQInv  == -3327
MCLens  == <<128, 64, 32, 16, 8, 4, 2>>

\* zetas[] of ntt.c.
Table == <<
  -1044, -758, -359, -1517, 1493, 1422, 287, 202, -171, 622, 1577, 182, 962, -1202, -1474,
  1468, 573, -1325, 264, 383, -829, 1458, -1602, -130, -681, 1017, 732, 608, -1542, 411,
  -205, -1571, 1223, 652, -552, 1015, -1293, 1491, -282, -1544, 516, -8, -320, -666, -1618,
  -1162, 126, 1469, -853, -90, -271, 830, 107, -1421, -247, -951, -398, 961, -1508, -725,
  448, -1065, 677, -1275, -1103, 430, 555, 843, -1251, 871, 1550, 105, 422, 587, 177, -235,
  -291, -460, 1574, 1653, -246, 778, 1159, -147, -777, 1483, -602, 1119, -1590, 644, -872,
  349, 418, 329, -156, -75, 817, 1097, 603, 610, 1322, -1285, -1465, 384, -1215, -136, 1218,
  -1335, -874, 220, -1187, -1659, -1185, -1530, -1278, 794, -1510, -854, -870, 478, -108,
  -308, 996, 991, 958, -1460, 1522, 1628>>
MCZetas == [i \in 0 .. 127 |-> Table[i + 1]]

\* Four coefficients in turn, all of them u, and u at one index only.
Turns(s) == [i \in 0 .. 255 |-> s[(i % 4) + 1]]
Full(u)  == Turns(<<u, u, u, u>>)
At(j, u) == [i \in 0 .. 255 |-> IF i = j THEN u ELSE 0]
Pair(f, g) == [v \in 0 .. 1 |-> IF v = 0 THEN f ELSE g]

Public == Pair(Full(4095), Turns(<<3328, 1, 1664, 1665>>))
MCInputs ==
  {[use |-> "keypair", a |-> Public, s |-> Pair(Full(3), f), e |-> Turns(<<3, -3, 0, 1>>)] :
     f \in {Turns(<<-3, 3, 2, -1>>), At(1, -3)}}
  \cup
  {[use |-> "enc", a |-> Public, s |-> Pair(f, Turns(<<-3, 0, 1, 3>>)),
    e |-> Turns(<<1668, -3, 0, 1665>>)] : f \in {Full(-3), At(255, 1)}}
  \cup
  {[use |-> "dec", a |-> Public, s |-> Pair(f, Turns(<<3328, 0, 1, 1664>>)),
    e |-> Turns(<<0, 3328, 1665, 1>>)] : f \in {Full(3328), At(128, 3328)}}
  \cup    \* constants, whose sums keep growing
  {[use |-> "dec", a |-> Pair(Turns(<<1, 0, 1, 0>>), Full(0)), s |-> Pair(At(0, 1664), Full(0)),
    e |-> Full(0)]}

MCGroups == {[i \in 0 .. 7 |-> ((u + (i * 417)) % 3329) - 1664] : u \in 0 .. 416}
MCWaves  == {[i \in 0 .. 7 |-> (i % 3) - 1], [i \in 0 .. 7 |-> IF i < 4 THEN 1 ELSE -1]}

Eight(s) == [i \in 0 .. 7 |-> s[i + 1]]
Matrix   == [v, w \in 0 .. 1 |-> Eight(<<3328, 1700 * v, w, 1664, 1665, 7 + (900 * w), 100 - v, 2500>>)]
MCMatrices == {[v \in 0 .. 1 |-> [w \in 0 .. 1 |-> Matrix[v, w]]],
               [v \in 0 .. 1 |-> [w \in 0 .. 1 |-> Eight(<<v, 0, 0, 0, 0, 0, 0, 2 * w>>)]]}
MCNoise  == {Eight(<<2, -2, 2, 2, -2, 2, 2, -2>>), Eight(<<0, 1, 0, -1, 0, 2, 0, 0>>)}
MCNoises == {Pair(Eight(<<3, 3, -3, 3, 3, 3, -3, 3>>), g) : g \in MCNoise}
MCMessages == {[j \in {0} |-> b] : b \in {0, 255, 178}}

P512  == INSTANCE IndCpa WITH
           K <- 2, Du <- 10, Dv <- 4, Matrices <- MCMatrices, Noises <- MCNoises,
           Noise <- MCNoise, Messages <- MCMessages, pc <- phase
P1024 == INSTANCE IndCpa WITH
           K <- 2, Du <- 11, Dv <- 5, Matrices <- MCMatrices, Noises <- MCNoises,
           Noise <- MCNoise, Messages <- MCMessages, pc <- phase

NoCodec == format = 0 /\ given = 0 /\ coeffs = 0 /\ sent = 0 /\ bytes = 0 /\ stage = 0
NoCpa   == sk = 0 /\ pk = 0 /\ c = 0 /\ m = 0 /\ got = 0 /\ phase = 0
NoPoly  == Init /\ in = CHOOSE n \in Inputs : n.use = "dec" /\ n.e = Full(0)

MCInit ==
  \/ which = "poly"    /\ Init /\ NoCodec /\ NoCpa
  \/ which = "codec"   /\ CodecInit /\ NoPoly /\ NoCpa
  \/ which = "cpa512"  /\ P512!Init /\ NoPoly /\ NoCodec
  \/ which = "cpa1024" /\ P1024!Init /\ NoPoly /\ NoCodec

MCNext ==
  \/ which = "poly"    /\ Next /\ UNCHANGED <<which, codecVars, CpaVars>>
  \/ which = "codec"   /\ CodecNext /\ UNCHANGED <<which, vars, CpaVars>>
  \/ which = "cpa512"  /\ P512!Next /\ UNCHANGED <<which, vars, codecVars>>
  \/ which = "cpa1024" /\ P1024!Next /\ UNCHANGED <<which, vars, codecVars>>

MCSpec == MCInit /\ [][MCNext]_<<which, vars, codecVars, CpaVars>>

-----------------------------------------------------------------------------
\* Decryption recovers the message.
Recovered == (which = "cpa512" => P512!Recovered) /\ (which = "cpa1024" => P1024!Recovered)
=============================================================================
