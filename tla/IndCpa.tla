------------------------------- MODULE IndCpa -------------------------------
(***************************************************************************)
(* indcpa.c of ML-KEM in Z_q[X]/(X^8 + 1): keys, encryption, decryption.   *)
(* Products are those KemPolyRef shows the transforms to compute, and keys *)
(* are kept untransformed.  Samples come from small sets.                  *)
(***************************************************************************)
EXTENDS Compress, FiniteSetsExt

CONSTANTS
  K,             \* KYBER_K
  Du, Dv,        \* bits of a coefficient of the ciphertext's vector and of v
  Matrices,      \* what gen_a may give: functions of row and column
  Noises, Noise, \* what poly_getnoise_eta1/2 may give: vectors, polynomials
  Messages       \* bytes of messages

Vec == 0 .. K - 1

VARIABLES
  sk,       \* secret key: packed polynomials
  pk,       \* public key: packed polynomials, and the matrix for its seed
  c,        \* ciphertext
  m,        \* history: the message encrypted
  got,      \* the message decrypted
  pc        \* "keypair", "enc", "dec", "done"

vars == <<sk, pk, c, m, got, pc>>

Init ==
  /\ sk = <<>> /\ pk = <<>> /\ c = <<>> /\ m = <<>> /\ got = <<>>
  /\ pc = "keypair"

Times(f, g) ==
  [i \in Group |-> MapThenSumSet(LAMBDA j : (IF j > i THEN -f[j] ELSE f[j]) * g[(i - j) % 8], Group)]

\* The row of a matrix product, plus e, reduced.
Row(a, s, e) ==
  LET t == [q \in Vec |-> Times(a[q], s[q])]
  IN  [i \in Group |-> Centre(e[i] + MapThenSumSet(LAMBDA q : t[q][i], Vec))]

indcpa_keypair(A, s, e) ==
  /\ pc = "keypair"
  /\ sk' = [q \in Vec |-> Encode(12, [i \in Group |-> Centre(s[q][i])])]
  /\ pk' = [t |-> [q \in Vec |-> Encode(12, Row(A[q], s, e[q]))], A |-> A]
  /\ pc' = "enc"
  /\ UNCHANGED <<c, m, got>>

Ciphertext(At, msg, sp, ep, epp) ==
  LET t == [q \in Vec |-> Decode(12, pk.t[q])]
      k == Decode(1, msg)
  IN  [b |-> [q \in Vec |-> Encode(Du, Row(At[q], sp, ep[q]))],
       v |-> Encode(Dv, Row(t, sp, [i \in Group |-> epp[i] + k[i]]))]

\* Mutant: the matrix is not transposed.
indcpa_encStraight(msg, sp, ep, epp) ==
  /\ pc = "enc"
  /\ c' = Ciphertext(pk.A, msg, sp, ep, epp)
  /\ m' = msg
  /\ pc' = "dec"
  /\ UNCHANGED <<sk, pk, got>>

\* gen_at: the transposed matrix.
indcpa_enc(msg, sp, ep, epp) ==
  /\ pc = "enc"
  /\ c' = Ciphertext([q \in Vec |-> [col \in Vec |-> pk.A[col][q]]], msg, sp, ep, epp)
  /\ m' = msg
  /\ pc' = "dec"
  /\ UNCHANGED <<sk, pk, got>>

\* poly_sub(&mp, &v, &mp).
indcpa_dec ==
  /\ pc = "dec"
  /\ LET s == [q \in Vec |-> Decode(12, sk[q])]
         b == [q \in Vec |-> Decode(Du, c.b[q])]
         v == Decode(Dv, c.v)
         mp == Row(s, b, [i \in Group |-> 0])
     IN  got' = Encode(1, [i \in Group |-> Centre(v[i] - mp[i])])
  /\ pc' = "done"
  /\ UNCHANGED <<sk, pk, c, m>>

Next ==
  \/ \E A \in Matrices, s, e \in Noises : indcpa_keypair(A, s, e)
  \/ \E msg \in Messages, sp, ep \in Noises, epp \in Noise : indcpa_enc(msg, sp, ep, epp)
  \/ indcpa_dec

-----------------------------------------------------------------------------
\* Safety: the message comes back out of the ciphertext, through both losses
\* of compression and all the noise, as long as that stays below q/4.
Recovered == pc = "done" => got = m
=============================================================================
