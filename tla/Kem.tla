-------------------------------- MODULE Kem --------------------------------
(***************************************************************************)
(* kem.c of ML-KEM with the randombytes it draws its coins from: key       *)
(* generation, encapsulation and decapsulation by an application that      *)
(* holds several keys and ciphertexts.  As in test_kyber.c, a ciphertext   *)
(* may be changed on its way or be given to another key, and a secret key  *)
(* may be overwritten.  The program is built for Linux, with getrandom, or *)
(* for the bare chip, where randombytes writes 0x29 into every byte; the   *)
(* optimised code for the Cortex-M33 (kyber_opt), an older ML-KEM that     *)
(* hashes the message and the secret once more, runs on the chip only.     *)
(*                                                                         *)
(* Hashes, the PRF and indcpa_enc are free constructors: two terms are     *)
(* equal exactly if they were made the same way.                           *)
(***************************************************************************)
EXTENDS Integers, Sequences, FiniteSets

CONSTANTS
  Slots,     \* the places an application keeps key pairs in
  SymBytes,  \* KYBER_SYMBYTES
  Errors,    \* what may be XORed to a ciphertext on its way
  MaxDraw,   \* bound on the random bytes drawn
  MaxDec     \* bound on the number of decapsulations

ASSUME SymAssumption   == SymBytes \in Nat \ {0}
ASSUME ErrorAssumption == "none" \notin Errors

-----------------------------------------------------------------------------
(* Terms. *)
Pk(d)         == <<"pk", d>>
S(d)          == <<"s", d>>
H(x)          == <<"H", x>>
\* hash_g(kr, m || h): kr, and kr + KYBER_SYMBYTES.
GKey(m, h)    == <<"K", m, h>>
GCoins(m, h)  == <<"r", m, h>>
J(z, c)       == <<"J", z, c>>
\* kdf of kr, whose second half was overwritten with H(c).
Kdf(k, c)     == <<"kdf", k, H(c)>>
Rnd(n)        == <<"rnd", n>>

\* A ciphertext, and what was XORed to it since.
Enc(pk, m, r) == [pk |-> pk, m |-> m, r |-> r, error |-> "none"]

Junk(s, c)    == <<"junk", s, c>>

\* What indcpa_dec may return: the message if c was made for this key.  The
\* noise may hide a change of the ciphertext, so the message is possible then,
\* too, and so is anything else.
Messages(s, c) ==
  IF \E d \in {c.pk[2]} : c.pk = Pk(d) /\ s = S(d)
  THEN IF c.error = "none" THEN {c.m} ELSE {c.m, Junk(s, c)}
  ELSE {Junk(s, c)}

\* crypto_kem_keypair_derand: sk is the IND-CPA key, pk, H(pk) and z.
SecretKey(coins) ==
  LET d == SubSeq(coins, 1, SymBytes)
  IN  [s |-> S(d), pk |-> Pk(d), h |-> H(Pk(d)), z |-> SubSeq(coins, SymBytes + 1, 2 * SymBytes)]

\* Random bytes, from draw n on, in place of a secret key.
Overwritten(n) == [s |-> Rnd(n), pk |-> Rnd(n), h |-> Rnd(n), z |-> Rnd(n)]

NoKey == Overwritten(0)

\* The byte 0x29, which is none of the draws 1, 2, 3, ...
Fixed == -41

-----------------------------------------------------------------------------
VARIABLES
  build,   \* "linux", "chip", or "opt" for kyber_opt
  drawn,   \* the bytes asked of randombytes
  op,      \* the call that draws coins: "none", "keypair", "enc"; or "abort"
  slot,    \* the key pair to be made, or the one that is encapsulated to
  coins,   \* the coins drawn so far
  outlen,  \* and how many randombytes still has to fill in
  keys,    \* the secret keys
  pks,     \* the public keys
  wire,    \* the ciphertexts that can be delivered, any number of times
  sent,    \* history: the encapsulations
  recv     \* history: the decapsulations

KemVars == <<build, drawn, op, slot, coins, outlen, keys, pks, wire, sent, recv>>

stub   == build # "linux"    \* randombytes is the one of the bare chip
round2 == build = "opt"

\* The byte that draw n gives: each its own, or always 0x29.
Drawn(n) == IF stub THEN Fixed ELSE n

\* "Don't release system RNG output", of the optimised code.
Message(c) == IF round2 THEN H(c) ELSE c

\* The secret, and what takes its place.  z is random, so it is no output of
\* hash_g.
Key(m, h, c)      == IF round2 THEN Kdf(GKey(m, h), c) ELSE GKey(m, h)
Rejection(z, c)   == IF round2 THEN Kdf(<<"z", z>>, c) ELSE J(z, c)

\* Mutant: verify is left out.
SecretUnverified(sk, c, m) == Key(m, sk.h, c)

\* Mutant: the rejection key is made from buf, not from z.
SecretFromMessage(sk, c, m) ==
  LET cmp == Enc(sk.pk, m, GCoins(m, sk.h))
  IN  IF c = cmp THEN Key(m, sk.h, c) ELSE Rejection(m, c)

\* What crypto_kem_dec returns when indcpa_dec gave m.
Secret(sk, c, m) ==
  LET cmp == Enc(sk.pk, m, GCoins(m, sk.h))
  IN  IF c = cmp THEN Key(m, sk.h, c) ELSE Rejection(sk.z, c)

KemInit ==
  /\ build \in {"linux", "chip", "opt"}
  /\ drawn = 0
  /\ op = "none"
  /\ slot \in Slots
  /\ coins = <<>>
  /\ outlen = 0
  /\ keys = [k \in Slots |-> NoKey]
  /\ pks = [k \in Slots |-> NoKey.pk]
  /\ wire = {}
  /\ sent = {}
  /\ recv = {}

\* A call of randombytes for n bytes.
Draw(name, k, n) ==
  /\ op = "none"
  /\ drawn + n <= MaxDraw
  /\ op' = name
  /\ slot' = k
  /\ coins' = <<>>
  /\ outlen' = n
  /\ UNCHANGED <<build, drawn, keys, pks, wire, sent, recv>>

\* The optimised code draws the two halves in two calls, which on the chip
\* makes no difference.
KeypairCall(k) == Draw("keypair", k, 2 * SymBytes)

EncCall(k) == pks[k] # NoKey.pk /\ Draw("enc", k, SymBytes)

\* Mutant: out is not advanced, the bytes go to the front again.
GetrandomRestarts(n) ==
  /\ op \in {"keypair", "enc"}
  /\ n <= outlen
  /\ coins' = [i \in 1 .. Len(coins) + n |->
                 IF i <= n THEN Drawn(drawn + i) ELSE IF i <= Len(coins) THEN coins[i] ELSE 0]
  /\ drawn' = drawn + n
  /\ outlen' = outlen - n
  /\ UNCHANGED <<build, op, slot, keys, pks, wire, sent, recv>>

\* SYS_getrandom fills in n bytes, perhaps fewer than asked for; the loop of
\* the bare chip goes through the buffer without a stop.
Getrandom(n) ==
  /\ op \in {"keypair", "enc"}
  /\ n <= outlen
  /\ stub => n = outlen
  /\ coins' = coins \o [i \in 1 .. n |-> Drawn(drawn + i)]
  /\ drawn' = drawn + n
  /\ outlen' = outlen - n
  /\ UNCHANGED <<build, op, slot, keys, pks, wire, sent, recv>>

\* An error ends the program; only EINTR is tried again, which changes nothing.
GetrandomFails ==
  /\ ~stub
  /\ op \in {"keypair", "enc"}
  /\ outlen > 0
  /\ op' = "abort"
  /\ UNCHANGED <<build, drawn, slot, coins, outlen, keys, pks, wire, sent, recv>>

\* The rest of crypto_kem_keypair.
Keypair ==
  /\ op = "keypair"
  /\ outlen = 0
  /\ keys' = [keys EXCEPT ![slot] = SecretKey(coins)]
  /\ pks' = [pks EXCEPT ![slot] = SecretKey(coins).pk]
  /\ op' = "none"
  /\ UNCHANGED <<build, drawn, slot, coins, outlen, wire, sent, recv>>

\* The rest of crypto_kem_enc.
Encapsulate ==
  /\ op = "enc"
  /\ outlen = 0
  /\ LET pk == pks[slot]
         m  == Message(coins)
         ct == Enc(pk, m, GCoins(m, H(pk)))
     IN  /\ wire' = wire \cup {ct}
         /\ sent' = sent \cup {[nr |-> drawn, coins |-> coins, pk |-> pk, ct |-> ct,
                               ss |-> Key(m, H(pk), ct)]}
  /\ op' = "none"
  /\ UNCHANGED <<build, drawn, slot, coins, outlen, keys, pks, recv>>

\* crypto_kem_dec.
Decapsulate(k, c) ==
  /\ op = "none"
  /\ keys[k] # NoKey
  /\ Cardinality(recv) < MaxDec
  /\ \E m \in Messages(keys[k].s, c) :
       recv' = recv \cup {[sk |-> keys[k], ct |-> c, ss |-> Secret(keys[k], c, m)]}
  /\ UNCHANGED <<build, drawn, op, slot, coins, outlen, keys, pks, wire, sent>>

\* test_invalid_ciphertext: a byte of the ciphertext is changed.
Corrupt(c, e) ==
  /\ op = "none"
  /\ c.error = "none"
  /\ wire' = wire \cup {[c EXCEPT !.error = e]}
  /\ UNCHANGED <<build, drawn, op, slot, coins, outlen, keys, pks, sent, recv>>

\* test_invalid_sk_a: the secret key is replaced by random values.
Overwrite(k) ==
  /\ op = "none"
  /\ keys[k] # NoKey
  /\ drawn < MaxDraw
  /\ drawn' = drawn + 1
  /\ keys' = [keys EXCEPT ![k] = Overwritten(Drawn(drawn + 1))]
  /\ UNCHANGED <<build, op, slot, coins, outlen, pks, wire, sent, recv>>

KemNext ==
  \/ \E k \in Slots : KeypairCall(k) \/ EncCall(k) \/ Overwrite(k)
  \/ \E n \in 1 .. 2 * SymBytes : Getrandom(n)
  \/ GetrandomFails \/ Keypair \/ Encapsulate
  \/ \E k \in Slots, c \in wire : Decapsulate(k, c)
  \/ \E c \in wire, e \in Errors : Corrupt(c, e)

KemSpec == KemInit /\ [][KemNext]_KemVars

-----------------------------------------------------------------------------
\* A receiver ends up with a sender's secret exactly when it decapsulates that
\* very ciphertext with the key it was made for: never after a change of the
\* ciphertext, even one that decryption corrects, and never with another key
\* or one that was overwritten.
SecretShared ==
  \A r \in recv, s \in sent : r.ss = s.ss <=> r.ct = s.ct /\ r.sk.pk = s.pk

\* Implicit rejection: what is not the sender's secret depends on z and the
\* ciphertext alone, so it tells nothing about what decryption gave.
Rejects ==
  \A r \in recv :
    (\A s \in sent : ~(r.ct = s.ct /\ r.sk.pk = s.pk)) => r.ss = Rejection(r.sk.z, r.ct)

\* The coins are what kem.c says of its arguments, "filled with ... random
\* bytes": the two halves of the coins of a key pair, the coins of the other key
\* pairs and the messages of all encapsulations are made of different bytes.
FreshCoins ==
  LET Bytes(q) == {q[i] : i \in DOMAIN q}
      Made     == {k \in Slots : keys[k].s[1] = "s"}
      Sk(k)    == Bytes(keys[k].s[2]) \cup Bytes(keys[k].z)
      Msg(s)   == Bytes(s.coins)
  IN  /\ \A k \in Made : Cardinality(Sk(k)) = 2 * SymBytes
      /\ \A s \in sent : Cardinality(Msg(s)) = SymBytes
      /\ \A k, l \in Made : k # l => Sk(k) \cap Sk(l) = {}
      /\ \A k \in Made, s \in sent : Sk(k) \cap Msg(s) = {}
      /\ \A s, t \in sent : s # t => Msg(s) \cap Msg(t) = {}

\* With getrandom no byte serves two purposes and none is missing, however the
\* system cut its answers.
NoByteTwice == ~stub => FreshCoins
=============================================================================
