------------------------------ MODULE KemProof ------------------------------
(***************************************************************************)
(* Proofs about the key encapsulation: that decapsulation returns a        *)
(* sender's secret exactly when it should, for every number of keys,       *)
(* ciphertexts and changes of them; and about the rejection sampling that  *)
(* makes its matrix and the vectors of ML-DSA: that it takes the accepted  *)
(* candidates of the stream in order, for every size of units, blocks,     *)
(* buffer and polynomial and for every stream.                             *)
(***************************************************************************)
EXTENDS Kem, RejSample, FiniteSetTheorems, TLAPS

USE ErrorAssumption

\* A key that crypto_kem_keypair_derand made, or random bytes.
IsPk(pk) == \E d : pk = Pk(d)

IsKey(sk) ==
  \/ \E d : sk.s = S(d) /\ sk.pk = Pk(d) /\ sk.h = H(Pk(d))
  \/ \E n : sk.s = Rnd(n) /\ sk.pk = Rnd(n) /\ sk.h = Rnd(n)

KeysInv ==
  \A k \in Slots : IsKey(keys[k]) /\ (pks[k] # NoKey.pk => IsPk(pks[k]))

OpInv ==
  slot \in Slots /\ (op = "enc" => IsPk(pks[slot]))

MapsInv == DOMAIN keys = Slots /\ DOMAIN pks = Slots

\* An encapsulation is the one of its message for its public key.
IsSent(s) ==
  /\ IsPk(s.pk)
  /\ s.ct = Enc(s.pk, s.ct.m, GCoins(s.ct.m, H(s.pk)))
  /\ s.ss = Key(s.ct.m, H(s.pk), s.ct)

SentInv == \A s \in sent : IsSent(s)

\* An unchanged ciphertext comes from an encapsulation.
FromSender(c) == c.error = "none" => \E s \in sent : s.ct = c

WireInv == \A c \in wire : FromSender(c)

IsReceived(r) ==
  /\ IsKey(r.sk)
  /\ \E m \in Messages(r.sk.s, r.ct) : r.ss = Secret(r.sk, r.ct, m)

RecvInv == \A r \in recv : IsReceived(r) /\ FromSender(r.ct)

KemInv == KeysInv /\ OpInv /\ MapsInv /\ SentInv /\ WireInv /\ RecvInv

(***************************************************************************)
(* What the invariant says.                                                *)
(***************************************************************************)

LEMMA TermsDiffer ==
  /\ \A d, n : Pk(d) # Rnd(n)
  /\ \A x, n : H(x) # Rnd(n)
  /\ \A m, h, z, c, x : Key(m, h, c) # Rejection(z, x)
  /\ \A d, e : Pk(d) = Pk(e) => d = e
  /\ \A x, y : H(x) = H(y) => x = y
  /\ \A m, h, n, i, c, x : Key(m, h, c) = Key(n, i, x) => m = n /\ h = i
BY DEF Pk, Rnd, H, GKey, J, Kdf, Key, Rejection

\* A public key says which secret key it belongs to.
LEMMA KeyOfPk ==
  ASSUME NEW sk, IsKey(sk), NEW pk, IsPk(pk), sk.pk = pk \/ sk.h = H(pk)
  PROVE  /\ sk.pk = pk
         /\ sk.h = H(pk)
         /\ \E d : pk = Pk(d) /\ sk.s = S(d)
BY TermsDiffer, Zenon DEF IsKey, IsPk

LEMMA SentCiphertext ==
  ASSUME NEW s, IsSent(s)
  PROVE  s.ct.pk = s.pk /\ s.ct.error = "none" /\ "error" \in DOMAIN s.ct
<1>1. PICK m, r : s.ct = Enc(s.pk, m, r)
  BY DEF IsSent
<1>2. QED
  BY <1>1 DEF Enc

LEMMA SharedIfSame ==
  ASSUME NEW r, IsReceived(r), NEW s, IsSent(s), r.ct = s.ct, r.sk.pk = s.pk
  PROVE  r.ss = s.ss
<1>1. PICK d : s.pk = Pk(d) /\ r.sk.s = S(d) /\ r.sk.h = H(s.pk)
  BY KeyOfPk DEF IsReceived, IsSent
<1>2. r.ct.pk = Pk(d) /\ r.ct.error = "none"
  BY <1>1 DEF IsSent, Enc
<1>3. Messages(r.sk.s, r.ct) = {r.ct.m}
  BY <1>1, <1>2 DEF Messages, Pk
<1>4. r.ss = Secret(r.sk, r.ct, r.ct.m)
  BY <1>3 DEF IsReceived
<1>5. r.ct = Enc(r.sk.pk, r.ct.m, GCoins(r.ct.m, r.sk.h))
  BY <1>1 DEF IsSent
<1>6. QED
  BY <1>1, <1>4, <1>5 DEF Secret, IsSent

LEMMA SameIfShared ==
  ASSUME NEW r, IsReceived(r), NEW s, IsSent(s), r.ss = s.ss
  PROVE  r.ct = s.ct /\ r.sk.pk = s.pk
<1>1. PICK m : r.ss = Secret(r.sk, r.ct, m)
  BY DEF IsReceived
<1>2. PICK n, h : s.ss = Key(n, h, s.ct) /\ n = s.ct.m /\ h = H(s.pk)
  BY DEF IsSent
<1>3. r.ct = Enc(r.sk.pk, m, GCoins(m, r.sk.h)) /\ r.ss = Key(m, r.sk.h, r.ct)
  <2>1. CASE r.ct = Enc(r.sk.pk, m, GCoins(m, r.sk.h))
    BY <1>1, <2>1 DEF Secret
  <2>2. CASE r.ct # Enc(r.sk.pk, m, GCoins(m, r.sk.h))
    <3>1. Key(n, h, s.ct) = Rejection(r.sk.z, r.ct)
      BY <1>1, <1>2, <2>2 DEF Secret
    <3>2. QED
      BY <3>1, TermsDiffer
  <2>3. QED
    BY <2>1, <2>2
<1>4. m = s.ct.m /\ r.sk.h = H(s.pk)
  <2>1. Key(m, r.sk.h, r.ct) = Key(n, h, s.ct)
    BY <1>2, <1>3
  <2>2. m = n /\ r.sk.h = h
    BY <2>1, TermsDiffer
  <2>3. QED
    BY <1>2, <2>2
<1>5. r.sk.pk = s.pk
  BY <1>4, KeyOfPk DEF IsReceived, IsSent
<1>6. QED
  BY <1>3, <1>4, <1>5 DEF IsSent

LEMMA InvShared == KemInv => SecretShared
BY SharedIfSame, SameIfShared DEF KemInv, SentInv, RecvInv, SecretShared

LEMMA InvRejects == KemInv => Rejects
<1> SUFFICES ASSUME KemInv, NEW r \in recv,
                    \A s \in sent : ~(r.ct = s.ct /\ r.sk.pk = s.pk)
             PROVE  r.ss = Rejection(r.sk.z, r.ct)
  BY DEF Rejects
<1>1. IsReceived(r) /\ FromSender(r.ct)
  BY DEF KemInv, RecvInv
<1>2. PICK m : r.ss = Secret(r.sk, r.ct, m)
  BY <1>1 DEF IsReceived
<1>3. r.ct # Enc(r.sk.pk, m, GCoins(m, r.sk.h))
  <2> SUFFICES ASSUME r.ct = Enc(r.sk.pk, m, GCoins(m, r.sk.h)) PROVE FALSE
    OBVIOUS
  <2>1. r.ct.error = "none" /\ r.ct.pk = r.sk.pk
    BY DEF Enc
  <2>2. PICK s \in sent : s.ct = r.ct
    BY <1>1, <2>1 DEF FromSender
  <2>3. r.ct.pk = s.pk
    BY <2>2, SentCiphertext DEF KemInv, SentInv
  <2>4. QED
    BY <2>1, <2>2, <2>3
<1>4. QED
  BY <1>2, <1>3 DEF Secret

(***************************************************************************)
(* The invariant is inductive.                                             *)
(***************************************************************************)
LEMMA KemInitInv == KemInit => KemInv
<1> SUFFICES ASSUME KemInit PROVE KemInv
  OBVIOUS
<1>1. KeysInv
  BY DEF KemInit, KeysInv, IsKey, NoKey, Overwritten
<1>2. OpInv /\ MapsInv /\ SentInv /\ WireInv /\ RecvInv
  BY DEF KemInit, OpInv, MapsInv, SentInv, WireInv, RecvInv
<1>3. QED
  BY <1>1, <1>2 DEF KemInv

\* What a step leaves of the histories and ciphertexts stays what it was.
LEMMA FromSenderStays ==
  ASSUME NEW c, FromSender(c), sent \subseteq sent'
  PROVE  FromSender(c)'
BY DEF FromSender

LEMMA RecordsStay ==
  ASSUME build' = build
  PROVE  /\ \A s : IsSent(s)' <=> IsSent(s)
         /\ \A r : IsReceived(r)' <=> IsReceived(r)
BY DEF IsSent, IsReceived, Secret, Key, Rejection, round2

LEMMA HistoriesStay ==
  ASSUME KemInv, UNCHANGED <<build, wire, sent, recv>>
  PROVE  SentInv' /\ WireInv' /\ RecvInv'
BY RecordsStay DEF KemInv, SentInv, WireInv, RecvInv, FromSender

LEMMA DrawInv ==
  ASSUME NEW name, NEW k \in Slots, NEW n, Draw(name, k, n), KemInv,
         name = "enc" => pks[k] # NoKey.pk
  PROVE  KemInv'
<1>1. OpInv'
  BY DEF Draw, KemInv, KeysInv, OpInv
<1>2. KeysInv' /\ MapsInv' /\ SentInv' /\ WireInv' /\ RecvInv'
  BY HistoriesStay DEF Draw, KemInv, KeysInv, MapsInv
<1>3. QED
  BY <1>1, <1>2 DEF KemInv

LEMMA RandomInv ==
  ASSUME KemInv, GetrandomFails \/ \E n \in 1 .. 2 * SymBytes : Getrandom(n)
  PROVE  KemInv'
BY HistoriesStay DEF GetrandomFails, Getrandom, KemInv, KeysInv, OpInv, MapsInv

LEMMA KeypairInv == KemInv /\ Keypair => KemInv'
<1> SUFFICES ASSUME KemInv, Keypair PROVE KemInv'
  OBVIOUS
<1>1. PICK sk : sk = SecretKey(coins)
  OBVIOUS
<1>2. IsKey(sk) /\ IsPk(sk.pk)
  BY <1>1 DEF SecretKey, IsKey, IsPk
<1>3. /\ keys' = [keys EXCEPT ![slot] = sk] /\ pks' = [pks EXCEPT ![slot] = sk.pk]
      /\ DOMAIN keys = Slots /\ DOMAIN pks = Slots
  BY <1>1 DEF Keypair, KemInv, MapsInv
<1>4. KeysInv' /\ MapsInv'
  BY <1>2, <1>3 DEF KemInv, KeysInv, MapsInv
<1>5. OpInv' /\ SentInv' /\ WireInv' /\ RecvInv'
  BY HistoriesStay DEF Keypair, KemInv, OpInv
<1>6. QED
  BY <1>4, <1>5 DEF KemInv

LEMMA EncapsulateInv == KemInv /\ Encapsulate => KemInv'
<1> SUFFICES ASSUME KemInv, Encapsulate PROVE KemInv'
  OBVIOUS
<1>1. PICK pk : pk = pks[slot] /\ IsPk(pk)
  BY DEF Encapsulate, KemInv, OpInv
<1>2. PICK m, ct : m = Message(coins) /\ ct = Enc(pk, m, GCoins(m, H(pk)))
  OBVIOUS
<1>3. PICK s : s = [nr |-> drawn, coins |-> coins, pk |-> pk, ct |-> ct, ss |-> Key(m, H(pk), ct)]
  OBVIOUS
<1>4. wire' = wire \cup {ct} /\ sent' = sent \cup {s} /\ UNCHANGED <<build, keys, pks, slot, recv>>
  BY <1>1, <1>2, <1>3 DEF Encapsulate
<1>5. IsSent(s) /\ s.ct = ct
  BY <1>1, <1>2, <1>3 DEF IsSent, Enc
<1>6. SentInv'
  BY <1>4, <1>5, RecordsStay DEF KemInv, SentInv
<1>7. WireInv' /\ RecvInv'
  <2>1. FromSender(ct)'
    BY <1>4, <1>5 DEF FromSender
  <2>2. ASSUME NEW c, FromSender(c) PROVE FromSender(c)'
    BY <1>4, <2>2, FromSenderStays
  <2>3. QED
    BY <1>4, <2>1, <2>2, RecordsStay DEF KemInv, WireInv, RecvInv
<1>8. KeysInv' /\ OpInv' /\ MapsInv'
  BY <1>4 DEF Encapsulate, KemInv, KeysInv, OpInv, MapsInv
<1>9. QED
  BY <1>6, <1>7, <1>8 DEF KemInv

LEMMA DecapsulateInv ==
  ASSUME KemInv, NEW k \in Slots, NEW c \in wire, Decapsulate(k, c)
  PROVE  KemInv'
<1>1. PICK m \in Messages(keys[k].s, c) :
        recv' = recv \cup {[sk |-> keys[k], ct |-> c, ss |-> Secret(keys[k], c, m)]}
  BY DEF Decapsulate
<1>2. PICK r : r = [sk |-> keys[k], ct |-> c, ss |-> Secret(keys[k], c, m)]
  OBVIOUS
<1>3. IsReceived(r) /\ FromSender(r.ct)
  BY <1>1, <1>2 DEF KemInv, KeysInv, WireInv, IsReceived
<1>4. UNCHANGED <<build, op, slot, keys, pks, wire, sent>>
  BY DEF Decapsulate
<1>5. RecvInv'
  BY <1>1, <1>2, <1>3, <1>4, RecordsStay DEF KemInv, RecvInv, FromSender
<1>6. KeysInv' /\ OpInv' /\ MapsInv' /\ SentInv' /\ WireInv'
  BY <1>4, RecordsStay DEF KemInv, KeysInv, OpInv, MapsInv, SentInv, WireInv, FromSender
<1>7. QED
  BY <1>5, <1>6 DEF KemInv

LEMMA CorruptInv ==
  ASSUME KemInv, NEW c \in wire, NEW e \in Errors, Corrupt(c, e)
  PROVE  KemInv'
<1>1. PICK x : x = [c EXCEPT !.error = e] /\ wire' = wire \cup {x}
  BY DEF Corrupt
<1>2. c \in wire /\ c.error = "none"
  BY DEF Corrupt
<1>3. PICK s \in sent : s.ct = c
  BY <1>2 DEF KemInv, WireInv, FromSender
<1>4. "error" \in DOMAIN c
  BY <1>3, SentCiphertext DEF KemInv, SentInv
<1>5. x.error = e /\ e # "none"
  BY <1>1, <1>4
<1>6. WireInv'
  BY <1>1, <1>5 DEF Corrupt, KemInv, WireInv, FromSender
<1>7. KeysInv' /\ OpInv' /\ MapsInv' /\ SentInv' /\ RecvInv'
  BY RecordsStay DEF Corrupt, KemInv, KeysInv, OpInv, MapsInv, SentInv, RecvInv, FromSender
<1>8. QED
  BY <1>6, <1>7 DEF KemInv

LEMMA OverwriteInv ==
  ASSUME KemInv, NEW k \in Slots, Overwrite(k)
  PROVE  KemInv'
<1>1. PICK sk : sk = Overwritten(Drawn(drawn + 1))
  OBVIOUS
<1>2. IsKey(sk)
  BY <1>1 DEF Overwritten, IsKey
<1>3. keys' = [keys EXCEPT ![k] = sk] /\ pks' = pks /\ DOMAIN keys = Slots
  BY <1>1 DEF Overwrite, KemInv, MapsInv
<1>4. KeysInv' /\ MapsInv'
  BY <1>2, <1>3 DEF KemInv, KeysInv, MapsInv
<1>5. OpInv' /\ SentInv' /\ WireInv' /\ RecvInv'
  BY HistoriesStay DEF Overwrite, KemInv, OpInv
<1>6. QED
  BY <1>4, <1>5 DEF KemInv

LEMMA KemNextInv == KemInv /\ [KemNext]_KemVars => KemInv'
<1> SUFFICES ASSUME KemInv, [KemNext]_KemVars PROVE KemInv'
  OBVIOUS
<1>1. ASSUME NEW k \in Slots, KeypairCall(k) PROVE KemInv'
  BY <1>1, DrawInv DEF KeypairCall
<1>2. ASSUME NEW k \in Slots, EncCall(k) PROVE KemInv'
  BY <1>2, DrawInv DEF EncCall
<1>3. CASE UNCHANGED KemVars
  BY <1>3, HistoriesStay DEF KemVars, KemInv, KeysInv, OpInv, MapsInv
<1>4. QED
  BY <1>1, <1>2, <1>3, RandomInv, KeypairInv, EncapsulateInv, DecapsulateInv, CorruptInv,
     OverwriteInv DEF KemNext

(***************************************************************************)
(* No random byte serves two purposes: whatever was made so far is made of *)
(* the draws up to Base, and the call that is drawing has those after it.  *)
(***************************************************************************)
Drawing == op \in {"keypair", "enc"}
Base    == IF Drawing THEN drawn - Len(coins) ELSE drawn

CoinsInv ==
  /\ drawn \in Nat
  /\ Drawing =>
       /\ coins \in Seq(Nat) /\ outlen \in Nat
       /\ Len(coins) <= drawn
       /\ Len(coins) + outlen = IF op = "keypair" THEN 2 * SymBytes ELSE SymBytes
       /\ \A i \in 1 .. Len(coins) : coins[i] = drawn - Len(coins) + i

Bytes(q)     == {q[i] : i \in DOMAIN q}
Made(sk)     == sk.s[1] = "s"
KeyBytes(sk) == Bytes(sk.s[2]) \cup Bytes(sk.z)

BelowInv ==
  /\ \A k \in Slots : Made(keys[k]) => KeyBytes(keys[k]) \subseteq 1 .. Base
  /\ \A s \in sent : Bytes(s.coins) \subseteq 1 .. Base

SizesInv ==
  /\ \A k \in Slots : Made(keys[k]) => Cardinality(KeyBytes(keys[k])) = 2 * SymBytes
  /\ \A s \in sent : Cardinality(Bytes(s.coins)) = SymBytes

DisjointInv ==
  /\ \A k, l \in Slots :
       Made(keys[k]) /\ Made(keys[l]) /\ k # l => KeyBytes(keys[k]) \cap KeyBytes(keys[l]) = {}
  /\ \A k \in Slots, s \in sent : Made(keys[k]) => KeyBytes(keys[k]) \cap Bytes(s.coins) = {}
  /\ \A s, t \in sent : s # t => Bytes(s.coins) \cap Bytes(t.coins) = {}

FreshInv == ~stub => CoinsInv /\ BelowInv /\ SizesInv /\ DisjointInv

LEMMA InvFresh == FreshInv => NoByteTwice
BY DEF FreshInv, SizesInv, DisjointInv, NoByteTwice, FreshCoins, Made, KeyBytes, Bytes

\* When randombytes has returned, the coins are the draws after Base.
LEMMA AllDrawn ==
  ASSUME CoinsInv, Drawing, outlen = 0
  PROVE  /\ Base \in Nat /\ drawn = Base + Len(coins) /\ Len(coins) \in Nat
         /\ Len(coins) = IF op = "keypair" THEN 2 * SymBytes ELSE SymBytes
         /\ Bytes(coins) = Base + 1 .. drawn
         /\ Cardinality(Bytes(coins)) = Len(coins)
<1>1. /\ Base \in Nat /\ drawn = Base + Len(coins) /\ Len(coins) \in Nat
      /\ Len(coins) = IF op = "keypair" THEN 2 * SymBytes ELSE SymBytes
      /\ coins \in Seq(Nat) /\ \A i \in 1 .. Len(coins) : coins[i] = Base + i
  BY SymAssumption DEF CoinsInv, Base
<1>2. Bytes(coins) = Base + 1 .. drawn
  <2>1. ASSUME NEW i \in DOMAIN coins PROVE coins[i] \in Base + 1 .. drawn
    BY <1>1, SMTT(60)
  <2>2. ASSUME NEW b \in Base + 1 .. drawn PROVE b \in Bytes(coins)
    <3>1. b - Base \in 1 .. Len(coins) /\ coins[b - Base] = b
      BY <1>1
    <3>2. b - Base \in DOMAIN coins
      BY <1>1, <3>1
    <3> QED
      BY <3>1, <3>2 DEF Bytes
  <2> QED
    BY <2>1, <2>2 DEF Bytes
<1>3. Cardinality(Base + 1 .. drawn) = Len(coins)
  <2>1. Base + 1 \in Int /\ drawn \in Int /\ drawn - (Base + 1) + 1 = Len(coins)
    BY <1>1
  <2>2. Base + 1 > drawn => Len(coins) = 0
    BY <1>1
  <2> QED
    BY <2>1, <2>2, FS_Interval
<1> QED
  BY <1>1, <1>2, <1>3

LEMMA FreshInit == KemInit => FreshInv
<1> SUFFICES ASSUME KemInit PROVE FreshInv
  OBVIOUS
<1>1. \A k \in Slots : ~Made(keys[k])
  BY DEF KemInit, NoKey, Overwritten, Rnd, Made
<1> QED
  BY <1>1 DEF KemInit, FreshInv, CoinsInv, Drawing, BelowInv, SizesInv, DisjointInv

\* A step that leaves keys and encapsulations alone.
LEMMA FreshStays ==
  ASSUME FreshInv, UNCHANGED <<build, keys, sent>>,
         ~stub => CoinsInv' /\ Base \in Nat /\ Base' \in Nat /\ Base <= Base'
  PROVE  FreshInv'
<1> SUFFICES ASSUME ~stub PROVE (CoinsInv /\ BelowInv /\ SizesInv /\ DisjointInv)'
  BY DEF FreshInv, stub
<1>1. CoinsInv /\ BelowInv /\ SizesInv /\ DisjointInv
  BY DEF FreshInv
<1>2. 1 .. Base \subseteq 1 .. Base'
  OBVIOUS
<1>3. BelowInv'
  BY <1>1, <1>2 DEF BelowInv, Made, KeyBytes, Bytes
<1>4. SizesInv'
  BY <1>1 DEF SizesInv
<1>5. DisjointInv'
  BY <1>1 DEF DisjointInv
<1> QED
  BY <1>3, <1>4, <1>5

LEMMA DrawFresh ==
  ASSUME FreshInv, NEW name \in {"keypair", "enc"}, NEW k, NEW n, Draw(name, k, n),
         n = IF name = "keypair" THEN 2 * SymBytes ELSE SymBytes
  PROVE  FreshInv'
<1> SUFFICES ASSUME ~stub PROVE CoinsInv' /\ Base \in Nat /\ Base' \in Nat /\ Base <= Base'
  BY FreshStays DEF Draw
<1>1. drawn \in Nat /\ op = "none" /\ Base = drawn
  BY DEF FreshInv, CoinsInv, Draw, Base, Drawing
<1>2. Drawing' /\ coins' = <<>> /\ Len(coins') = 0 /\ drawn' = drawn /\ outlen' = n /\ op' = name
  BY DEF Draw, Drawing
<1>3. n \in Nat
  BY SymAssumption
<1> QED
  BY <1>1, <1>2, <1>3 DEF CoinsInv, Base

LEMMA GetrandomFresh ==
  ASSUME FreshInv, NEW n \in 1 .. 2 * SymBytes, Getrandom(n)
  PROVE  FreshInv'
<1> SUFFICES ASSUME ~stub PROVE CoinsInv' /\ Base \in Nat /\ Base' \in Nat /\ Base <= Base'
  BY FreshStays DEF Getrandom
<1>1. CoinsInv /\ Drawing /\ Drawing' /\ op' = op /\ n \in Nat
  BY SymAssumption DEF FreshInv, Getrandom, Drawing
<1> DEFINE more == [i \in 1 .. n |-> drawn + i]
<1>2. /\ coins' = coins \o more /\ drawn' = drawn + n /\ outlen' = outlen - n /\ n <= outlen
      /\ more \in Seq(Nat) /\ Len(more) = n
  BY <1>1 DEF Getrandom, Drawn, CoinsInv
<1>3. coins \in Seq(Nat) /\ Len(coins) \in Nat /\ drawn \in Nat /\ outlen \in Nat
      /\ Len(coins) <= drawn
  BY <1>1 DEF CoinsInv
<1>4. coins' \in Seq(Nat) /\ Len(coins') = Len(coins) + n
  BY <1>2, <1>3
<1>5. ASSUME NEW i \in 1 .. Len(coins') PROVE coins'[i] = drawn' - Len(coins') + i
  <2>1. CASE i <= Len(coins)
    <3>1. coins'[i] = coins[i] /\ i \in 1 .. Len(coins)
      BY <1>2, <1>3, <1>4, <2>1
    <3> QED
      BY <1>1, <1>2, <1>3, <1>4, <3>1 DEF CoinsInv
  <2>2. CASE i > Len(coins)
    <3>1. coins'[i] = more[i - Len(coins)] /\ i - Len(coins) \in 1 .. n
      BY <1>1, <1>2, <1>3, <1>4, <2>2
    <3> QED
      BY <1>1, <1>2, <1>3, <1>4, <3>1
  <2> QED
    BY <1>1, <1>3, <1>4, <2>1, <2>2
<1>6. CoinsInv'
  BY <1>1, <1>2, <1>3, <1>4, <1>5 DEF CoinsInv
<1> QED
  BY <1>1, <1>2, <1>3, <1>4, <1>6 DEF Base

LEMMA KeypairFresh == ASSUME KemInv, FreshInv, Keypair PROVE FreshInv'
<1> SUFFICES ASSUME ~stub PROVE (CoinsInv /\ BelowInv /\ SizesInv /\ DisjointInv)'
  BY DEF FreshInv, stub, Keypair
<1>1. CoinsInv /\ BelowInv /\ SizesInv /\ DisjointInv /\ Drawing
  BY DEF FreshInv, Keypair, Drawing
<1>2. /\ Base \in Nat /\ drawn = Base + 2 * SymBytes /\ Len(coins) = 2 * SymBytes
      /\ Bytes(coins) = Base + 1 .. drawn /\ Cardinality(Bytes(coins)) = 2 * SymBytes
      /\ coins \in Seq(Nat)
  BY <1>1, AllDrawn DEF Keypair, CoinsInv
<1> DEFINE sk == SecretKey(coins)
<1>3. Made(sk) /\ KeyBytes(sk) = Bytes(coins)
  <2>1. Made(sk) /\ sk.s[2] = SubSeq(coins, 1, SymBytes)
        /\ sk.z = SubSeq(coins, SymBytes + 1, 2 * SymBytes)
    BY DEF SecretKey, S, Made
  <2>2. SubSeq(coins, 1, SymBytes) = [i \in 1 .. SymBytes |-> coins[i]]
    BY <1>2, SymAssumption
  <2>3. SubSeq(coins, SymBytes + 1, 2 * SymBytes) = [i \in 1 .. SymBytes |-> coins[SymBytes + i]]
    <3>1. \A i \in 1 .. SymBytes : (SymBytes + 1) + i - 1 = SymBytes + i
      BY SymAssumption
    <3>2. 2 * SymBytes - (SymBytes + 1) + 1 = SymBytes
      BY SymAssumption
    <3> QED
      BY <1>2, <3>1, <3>2, SymAssumption
  <2>4. DOMAIN coins = 1 .. 2 * SymBytes
    BY <1>2
  <2>5. Bytes(sk.s[2]) \subseteq Bytes(coins) /\ Bytes(sk.z) \subseteq Bytes(coins)
    BY <2>1, <2>2, <2>3, <2>4, SymAssumption DEF Bytes
  <2>6. ASSUME NEW i \in 1 .. 2 * SymBytes PROVE coins[i] \in KeyBytes(sk)
    <3>1. CASE i <= SymBytes
      <4>1. i \in 1 .. SymBytes /\ i \in DOMAIN sk.s[2] /\ sk.s[2][i] = coins[i]
        BY <2>1, <2>2, <3>1, SymAssumption
      <4> QED
        BY <4>1 DEF KeyBytes, Bytes
    <3>2. CASE i > SymBytes
      <4>1. i - SymBytes \in 1 .. SymBytes /\ SymBytes + (i - SymBytes) = i
        BY <3>2, SymAssumption
      <4>2. i - SymBytes \in DOMAIN sk.z /\ sk.z[i - SymBytes] = coins[i]
        BY <2>1, <2>3, <4>1
      <4> QED
        BY <4>2 DEF KeyBytes, Bytes
    <3> QED
      BY <3>1, <3>2, SymAssumption
  <2> QED
    BY <2>1, <2>4, <2>5, <2>6 DEF KeyBytes, Bytes
<1> HIDE DEF sk
<1>4. /\ keys' = [keys EXCEPT ![slot] = sk] /\ DOMAIN keys = Slots /\ slot \in Slots
      /\ sent' = sent /\ drawn' = drawn /\ ~Drawing'
  BY DEF Keypair, KemInv, MapsInv, OpInv, Drawing, sk
<1>5. Base' = drawn /\ CoinsInv'
  BY <1>1, <1>4 DEF Base, CoinsInv
<1>6. \A k \in Slots : k # slot => keys'[k] = keys[k]
  BY <1>4
<1>7. keys'[slot] = sk
  BY <1>4
<1>8. \A X \in SUBSET (1 .. Base) : X \cap KeyBytes(sk) = {} /\ X \subseteq 1 .. drawn
  BY <1>2, <1>3, SymAssumption
<1>9. KeyBytes(sk) \subseteq 1 .. drawn /\ Cardinality(KeyBytes(sk)) = 2 * SymBytes
  BY <1>2, <1>3
<1>10. BelowInv'
  BY <1>1, <1>4, <1>5, <1>6, <1>7, <1>8, <1>9 DEF BelowInv
<1>11. SizesInv'
  BY <1>1, <1>4, <1>6, <1>7, <1>9 DEF SizesInv
<1>12. DisjointInv'
  BY <1>1, <1>4, <1>6, <1>7, <1>8 DEF DisjointInv, BelowInv
<1> QED
  BY <1>5, <1>10, <1>11, <1>12

LEMMA EncapsulateFresh == ASSUME FreshInv, Encapsulate PROVE FreshInv'
<1> SUFFICES ASSUME ~stub PROVE (CoinsInv /\ BelowInv /\ SizesInv /\ DisjointInv)'
  BY DEF FreshInv, stub, Encapsulate
<1>1. CoinsInv /\ BelowInv /\ SizesInv /\ DisjointInv /\ Drawing
  BY DEF FreshInv, Encapsulate, Drawing
<1>2. /\ Base \in Nat /\ drawn = Base + SymBytes
      /\ Bytes(coins) = Base + 1 .. drawn /\ Cardinality(Bytes(coins)) = SymBytes
  BY <1>1, AllDrawn DEF Encapsulate
<1>3. PICK new : sent' = sent \cup {new} /\ new.coins = coins
  <2> DEFINE pk == pks[slot]
             m  == Message(coins)
             ct == Enc(pk, m, GCoins(m, H(pk)))
             s  == [nr |-> drawn, coins |-> coins, pk |-> pk, ct |-> ct, ss |-> Key(m, H(pk), ct)]
  <2>1. sent' = sent \cup {s}
    BY DEF Encapsulate
  <2>2. s.coins = coins
    OBVIOUS
  <2> HIDE DEF s
  <2> QED
    BY <2>1, <2>2
<1>4. keys' = keys /\ drawn' = drawn /\ ~Drawing'
  BY DEF Encapsulate, Drawing
<1>5. Base' = drawn /\ CoinsInv'
  BY <1>1, <1>4 DEF Base, CoinsInv
<1>6. \A X \in SUBSET (1 .. Base) : X \cap Bytes(new.coins) = {} /\ X \subseteq 1 .. drawn
  BY <1>2, <1>3, SymAssumption
<1>7. Bytes(new.coins) \subseteq 1 .. drawn /\ Cardinality(Bytes(new.coins)) = SymBytes
  BY <1>2, <1>3
<1>8. BelowInv'
  BY <1>1, <1>3, <1>4, <1>5, <1>6, <1>7 DEF BelowInv
<1>9. SizesInv'
  BY <1>1, <1>3, <1>4, <1>7 DEF SizesInv
<1>10. DisjointInv'
  BY <1>1, <1>3, <1>4, <1>6 DEF DisjointInv, BelowInv
<1> QED
  BY <1>5, <1>8, <1>9, <1>10

LEMMA OverwriteFresh ==
  ASSUME KemInv, FreshInv, NEW k \in Slots, Overwrite(k)
  PROVE  FreshInv'
<1> SUFFICES ASSUME ~stub PROVE (CoinsInv /\ BelowInv /\ SizesInv /\ DisjointInv)'
  BY DEF FreshInv, stub, Overwrite
<1>1. CoinsInv /\ BelowInv /\ SizesInv /\ DisjointInv
  BY DEF FreshInv
<1>2. drawn \in Nat /\ drawn' = drawn + 1 /\ Base = drawn /\ Base' = drawn + 1 /\ CoinsInv'
  BY <1>1 DEF Overwrite, CoinsInv, Base, Drawing
<1>3. 1 .. Base \subseteq 1 .. Base'
  BY <1>2
<1>4. sent' = sent /\ ~Made(keys'[k]) /\ \A l \in Slots : l # k => keys'[l] = keys[l]
  BY DEF Overwrite, Overwritten, Rnd, Made, KemInv, MapsInv
<1>5. BelowInv'
  BY <1>1, <1>3, <1>4 DEF BelowInv
<1>6. SizesInv' /\ DisjointInv'
  BY <1>1, <1>4 DEF SizesInv, DisjointInv
<1> QED
  BY <1>2, <1>5, <1>6

LEMMA FreshNext == KemInv /\ FreshInv /\ [KemNext]_KemVars => FreshInv'
<1> SUFFICES ASSUME KemInv, FreshInv, [KemNext]_KemVars PROVE FreshInv'
  OBVIOUS
<1>1. ASSUME NEW k \in Slots, KeypairCall(k) PROVE FreshInv'
  BY <1>1, DrawFresh DEF KeypairCall
<1>2. ASSUME NEW k \in Slots, EncCall(k) PROVE FreshInv'
  BY <1>2, DrawFresh DEF EncCall
<1>3. ASSUME NEW n \in 1 .. 2 * SymBytes, Getrandom(n) PROVE FreshInv'
  BY <1>3, GetrandomFresh
<1>4. CASE GetrandomFails
  <2>1. ~stub => CoinsInv' /\ Base \in Nat /\ Base' \in Nat /\ Base <= Base'
    BY <1>4 DEF GetrandomFails, FreshInv, CoinsInv, Base, Drawing
  <2> QED
    BY <1>4, <2>1, FreshStays DEF GetrandomFails
<1>5. ASSUME UNCHANGED <<build, drawn, op, coins, outlen, keys, sent>> PROVE FreshInv'
  <2>1. ~stub => CoinsInv' /\ Base \in Nat /\ Base' \in Nat /\ Base <= Base'
    BY <1>5 DEF FreshInv, CoinsInv, Base, Drawing
  <2> QED
    BY <1>5, <2>1, FreshStays
<1>6. ASSUME NEW k \in Slots, NEW c \in wire, Decapsulate(k, c) PROVE FreshInv'
  BY <1>5, <1>6 DEF Decapsulate
<1>7. ASSUME NEW c \in wire, NEW e \in Errors, Corrupt(c, e) PROVE FreshInv'
  BY <1>5, <1>7 DEF Corrupt
<1>8. CASE UNCHANGED KemVars
  BY <1>5, <1>8 DEF KemVars
<1> QED
  BY <1>1, <1>2, <1>3, <1>4, <1>6, <1>7, <1>8, KeypairFresh, EncapsulateFresh, OverwriteFresh
     DEF KemNext

(***************************************************************************)
(* The theorems.                                                           *)
(***************************************************************************)

\* Keys, ciphertexts and what was sent and received are related as kem.c
\* relates them, whatever was changed on the way.
THEOREM KemInvariant == KemSpec => []KemInv
BY KemInitInv, KemNextInv, PTL DEF KemSpec

\* crypto_kem_dec returns a sender's secret exactly for that sender's unchanged
\* ciphertext and the unharmed key it was made for.
THEOREM SecretSharedExactly == KemSpec => []SecretShared
BY KemInvariant, InvShared, PTL

\* In every other case crypto_kem_dec returns the PRF of z and the ciphertext.
THEOREM ImplicitRejection == KemSpec => []Rejects
BY KemInvariant, InvRejects, PTL

\* The getrandom loop of randombytes.c: however its answers are cut, no byte
\* goes into two keys or messages, and none of them lacks one.
THEOREM BytesUsedOnce == KemSpec => []NoByteTwice
<1>1. KemSpec => []FreshInv
  BY KemInvariant, FreshInit, FreshNext, PTL DEF KemSpec
<1> QED
  BY <1>1, InvFresh, PTL

-----------------------------------------------------------------------------
(***************************************************************************)
(* Rejection sampling.                                                     *)
(***************************************************************************)
USE SizeAssumption, CarryAssumption

\* The size of the first squeeze is a number and fills the buffer at most.
FirstBytes == FirstBlocks * BlockBytes

LEMMA FirstBytesFacts ==
  /\ FirstBytes \in Nat
  /\ BlockBytes <= FirstBytes
  /\ BufSize \in Nat
  /\ BufSize = FirstBytes + (IF Carry THEN Unit - 1 ELSE 0)
<1>1. FirstBytes \in Nat
  BY DEF FirstBytes
<1>2. BlockBytes <= FirstBytes
  BY DEF FirstBytes
<1>3. BufSize = FirstBytes + (IF Carry THEN Unit - 1 ELSE 0)
  BY DEF FirstBytes, BufSize
<1>4. QED
  BY <1>1, <1>2, <1>3

LEMMA ZeroMod == 0 % Unit = 0
OBVIOUS

LEMMA UnitMod ==
  ASSUME NEW q \in Nat, NEW o \in 0 .. Unit - 1
  PROVE  (q * Unit + o) % Unit = o
OBVIOUS

LEMMA WholeUnits ==
  ASSUME NEW a \in Nat, a % Unit = 0
  PROVE  \E q \in Nat : a = q * Unit
<1>1. a \div Unit \in Nat /\ a = (Unit * (a \div Unit)) + (a % Unit)
  OBVIOUS
<1>2. a = (a \div Unit) * Unit
  BY <1>1
<1>3. QED
  BY <1>1, <1>2

\* Units follow one another.
LEMMA NextUnit ==
  ASSUME NEW a \in Nat, a % Unit = 0
  PROVE  (a + Unit) % Unit = 0
<1>1. PICK q \in Nat : a = q * Unit
  BY WholeUnits
<1>2. ((q + 1) * Unit + 0) % Unit = 0
  BY UnitMod
<1>3. (q + 1) * Unit + 0 = a + Unit
  BY <1>1
<1>4. QED
  BY <1>2, <1>3

\* The bytes behind the last whole unit.
LEMMA PartialUnit ==
  ASSUME NEW a \in Nat, a % Unit = 0, NEW b \in Nat, a <= b, b < a + Unit
  PROVE  b % Unit = b - a
<1>1. PICK q \in Nat : a = q * Unit
  BY WholeUnits
<1>2. PICK o \in 0 .. Unit - 1 : b = a + o
  OBVIOUS
<1>3. (q * Unit + o) % Unit = o
  BY UnitMod
<1>4. QED
  BY <1>1, <1>2, <1>3

\* A number of blocks holds whole units if a block does.
LEMMA WholeBlocks ==
  ASSUME NEW a \in Nat, a % Unit = 0, NEW k \in Nat
  PROVE  (k * a) % Unit = 0
<1>1. PICK q \in Nat : a = q * Unit
  BY WholeUnits
<1>2. PICK p \in Nat : p = k * q
  OBVIOUS
<1>3. k * a = p * Unit + 0
  BY <1>1, <1>2
<1>4. (p * Unit + 0) % Unit = 0
  BY UnitMod
<1>5. QED
  BY <1>3, <1>4

-----------------------------------------------------------------------------
LEMMA InitInv == Init => IInv
<1> SUFFICES ASSUME Init PROVE IInv
  OBVIOUS
<1>1. TypeOK
  BY FirstBytesFacts DEF Init, TypeOK, Garbage
<1>2. BufferInv /\ BoundsInv /\ RefillInv /\ StartInv
  BY ZeroMod DEF Init, BufferInv, BoundsInv, RefillInv, StartInv, Count
<1>3. QED
  BY <1>1, <1>2 DEF IInv

\* A squeeze behind off bytes of the stream leaves the buffer with the stream's
\* last bytes.
LEMMA SqueezeInv ==
  ASSUME TypeOK, BufferInv, NEW off \in Nat, NEW n \in Nat, off <= buflen, off + n <= BufSize,
         ~Carry => (off + n) % Unit = 0,
         Squeeze(off, buflen - off, n)
  PROVE  /\ sq' \in Nat
         /\ buf' \in [0 .. BufSize - 1 -> Int]
         /\ buflen' = off + n
         /\ BufferInv'
         /\ sq' - buflen' = sq - off
<1>1. /\ sq \in Nat /\ buflen \in Nat /\ buflen <= BufSize /\ buflen <= sq
      /\ \A i \in 0 .. buflen - 1 : buf[i] = sq - buflen + i
      /\ \A i \in 0 .. BufSize - 1 : buf[i] \in Int
      /\ BufSize \in Nat
  BY FirstBytesFacts DEF TypeOK, BufferInv
<1>2. sq' = sq + n /\ buflen' = off + n /\ sq' \in Nat /\ buflen' <= sq'
  BY <1>1 DEF Squeeze
<1>3. ASSUME NEW i \in 0 .. BufSize - 1
      PROVE  /\ buf'[i] \in Int
             /\ i < buflen' => buf'[i] = sq' - buflen' + i
  <2>1. CASE i < off
    <3>1. buflen - off + i \in 0 .. buflen - 1
      BY <1>1, <2>1
    <3>2. buf[buflen - off + i] = sq - buflen + (buflen - off + i)
      BY <1>1, <3>1
    <3>3. QED
      BY <1>1, <1>2, <2>1, <3>2 DEF Squeeze
  <2>2. CASE ~(i < off)
    BY <1>1, <1>2, <2>2 DEF Squeeze
  <2>3. QED
    BY <2>1, <2>2
<1>4. buf' = [i \in 0 .. BufSize - 1 |-> buf'[i]]
  BY Zenon DEF Squeeze
<1>5. buf' \in [0 .. BufSize - 1 -> Int]
  BY <1>3, <1>4
<1>6. \A i \in 0 .. buflen' - 1 : buf'[i] = sq' - buflen' + i
  BY <1>1, <1>2, <1>3
<1>7. BufferInv'
  BY <1>2, <1>6 DEF BufferInv
<1>8. QED
  BY <1>1, <1>2, <1>5, <1>7

LEMMA FirstInv == IInv /\ First => IInv'
<1> SUFFICES ASSUME IInv, First PROVE IInv'
  OBVIOUS
<1> USE DEF IInv, First
<1>1. /\ pc = "start" /\ buflen = 0 /\ pos = 0 /\ half = 0 /\ ctr = 0 /\ base = 0
      /\ TypeOK /\ BufferInv
  BY DEF StartInv
<1>2. PICK n \in Nat : n = FirstBytes /\ n <= BufSize /\ (~Carry => n % Unit = 0)
  <2>1. FirstBytes \in Nat /\ FirstBytes <= BufSize
    BY FirstBytesFacts
  <2>2. ~Carry => FirstBytes % Unit = 0
    BY WholeBlocks DEF FirstBytes
  <2>3. QED
    BY <2>1, <2>2, Zenon
<1>3. Squeeze(0, buflen - 0, n)
  <2>1. Squeeze(0, 0, n)
    BY <1>2 DEF FirstBytes
  <2>2. QED
    BY <1>1, <2>1
<1>4. /\ sq' \in Nat /\ buf' \in [0 .. BufSize - 1 -> Int] /\ buflen' = 0 + n /\ BufferInv'
  BY <1>1, <1>2, <1>3, SqueezeInv
<1>5. TypeOK'
  BY <1>1, <1>2, <1>4, FirstBytesFacts DEF TypeOK
<1>6. BoundsInv' /\ RefillInv' /\ StartInv'
  BY <1>1, ZeroMod DEF BoundsInv, RefillInv, StartInv, Count
<1>7. QED
  BY <1>4, <1>5, <1>6

LEMMA ExamineInv == IInv /\ Examine => IInv'
<1> SUFFICES ASSUME IInv, Examine PROVE IInv'
  OBVIOUS
<1>1. /\ pc = "rej" /\ UNCHANGED <<good, pc, sq, buf, buflen, base>>
      /\ pos \in Nat /\ pos + Unit <= buflen /\ half \in 0 .. PerUnit - 1
      /\ ctr \in Nat /\ base \in Nat /\ base + ctr < N /\ buflen \in Nat
  BY FirstBytesFacts DEF IInv, TypeOK, UnitLeft, Examine
<1>2. /\ ctr' = ctr \/ ctr' = ctr + 1
      /\ DOMAIN coeffs' = DOMAIN coeffs
  BY DEF Examine
<1>3. \/ half + 1 < PerUnit /\ half' = half + 1 /\ pos' = pos
      \/ half' = 0 /\ pos' = pos + Unit
  BY DEF Examine
<1>4. pos' % Unit = 0
  <2>1. pos % Unit = 0
    BY DEF IInv, BoundsInv
  <2>2. (pos + Unit) % Unit = 0
    BY <1>1, <2>1, NextUnit
  <2>3. QED
    BY <1>3, <2>1, <2>2
<1>5. pos' \in 0 .. buflen /\ half' \in 0 .. PerUnit - 1 /\ (half' > 0 => pos' = pos)
  BY <1>1, <1>3
<1>6. TypeOK'
  BY <1>1, <1>2, <1>5 DEF IInv, TypeOK
<1>7. BufferInv' /\ RefillInv' /\ StartInv'
  BY <1>1 DEF IInv, BufferInv, RefillInv, StartInv
<1>8. BoundsInv'
  <2>1. base' + ctr' <= N
    BY <1>1, <1>2
  <2>2. half' > 0 => UnitLeft'
    BY <1>1, <1>5 DEF UnitLeft
  <2>3. QED
    BY <1>1, <1>4, <2>1, <2>2 DEF BoundsInv, Count
<1>9. QED
  BY <1>6, <1>7, <1>8 DEF IInv

LEMMA ReturnInv == IInv /\ Return => IInv'
<1> SUFFICES ASSUME IInv, Return PROVE IInv'
  OBVIOUS
<1> USE DEF IInv, Return
<1>1. /\ pc = "rej" /\ ctr \in Nat /\ base \in Nat /\ base + ctr <= N /\ base' = base + ctr
      /\ UNCHANGED <<sq, buf, buflen, pos, half, ctr, coeffs>>
  BY DEF TypeOK, BoundsInv, Count
<1>2. pc' \in {"refill", "done"} /\ (pc' = "refill" <=> base' < N)
  BY <1>1
<1>3. TypeOK'
  BY <1>1, <1>2 DEF TypeOK
<1>4. BufferInv' /\ StartInv'
  BY <1>1, <1>2 DEF BufferInv, StartInv
<1>5. BoundsInv'
  BY <1>1, <1>2 DEF BoundsInv, Count, UnitLeft
<1>6. RefillInv'
  <2>1. ASSUME base' < N
        PROVE  ~UnitLeft /\ half = 0
    <3>1. ~UnitLeft
      BY <1>1, <2>1
    <3>2. QED
      BY <3>1 DEF BoundsInv, TypeOK
  <2>2. QED
    BY <1>1, <1>2, <2>1 DEF RefillInv, UnitLeft
<1>7. QED
  BY <1>3, <1>4, <1>5, <1>6

\* The bytes that a refill keeps are those behind the last unit looked at.
LEMMA KeptBytes ==
  ASSUME IInv, pc = "refill"
  PROVE  /\ (IF Carry THEN buflen % Unit ELSE 0) = buflen - pos
         /\ buflen - pos \in 0 .. Unit - 1
         /\ buflen - pos + BlockBytes <= BufSize
<1>1. /\ pos \in Nat /\ buflen \in Nat /\ pos <= buflen /\ buflen < pos + Unit /\ pos % Unit = 0
      /\ ~Carry => buflen % Unit = 0
  BY FirstBytesFacts DEF IInv, TypeOK, RefillInv, BoundsInv, BufferInv, UnitLeft
<1>2. buflen % Unit = buflen - pos
  BY <1>1, PartialUnit
<1>3. QED
  BY <1>1, <1>2, FirstBytesFacts

LEMMA RefillStepInv == IInv /\ Refill => IInv'
<1> SUFFICES ASSUME IInv, Refill PROVE IInv'
  OBVIOUS
<1>1. PICK off \in 0 .. Unit - 1 :
        /\ off = (IF Carry THEN buflen % Unit ELSE 0)
        /\ off = buflen - pos
        /\ off + BlockBytes <= BufSize
  BY KeptBytes DEF Refill
<1>2. Squeeze(off, buflen - off, BlockBytes)
  BY <1>1 DEF Refill
<1>3. off \in Nat /\ off <= buflen /\ (~Carry => off + BlockBytes = BlockBytes)
  BY <1>1, FirstBytesFacts DEF IInv, TypeOK
<1>4. /\ sq' \in Nat /\ buf' \in [0 .. BufSize - 1 -> Int]
      /\ buflen' = off + BlockBytes /\ BufferInv'
  BY <1>1, <1>2, <1>3, SqueezeInv DEF IInv
<1>5. TypeOK'
  BY <1>1, <1>4, FirstBytesFacts DEF IInv, TypeOK, Refill
<1>6. BoundsInv' /\ RefillInv' /\ StartInv'
  BY ZeroMod DEF BoundsInv, RefillInv, StartInv, Count, IInv, TypeOK, Refill
<1>7. QED
  BY <1>4, <1>5, <1>6 DEF IInv

LEMMA NextInv == IInv /\ [Next]_vars => IInv'
<1> SUFFICES ASSUME IInv, [Next]_vars PROVE IInv'
  OBVIOUS
<1>1. CASE UNCHANGED vars
  BY <1>1 DEF vars, IInv, TypeOK, BufferInv, BoundsInv, RefillInv, StartInv, Count, UnitLeft
<1>2. QED
  BY <1>1, FirstInv, ExamineInv, ReturnInv, RefillStepInv DEF Next, Done

\* In every state of the sampling the buffer is the tail of the stream, reads
\* and writes stay in bounds and no byte is skipped.
THEOREM SamplingInvariant == Spec => []IInv
BY InitInv, NextInv, PTL DEF Spec

-----------------------------------------------------------------------------
(***************************************************************************)
(* Refinement.                                                             *)
(***************************************************************************)

\* The coefficients so far, the abstract variable taken.
Taken == [i \in 1 .. Count |-> coeffs[i - 1]]

LEMMA InitAbstract == Init => Abstract!Init
<1> SUFFICES ASSUME Init PROVE Abstract!Init
  OBVIOUS
<1>1. StreamPos = 0 /\ Count = 0
  BY DEF Init, StreamPos, Count
<1>2. [i \in 1 .. Count |-> coeffs[i - 1]] = <<>>
  BY <1>1
<1>3. QED
  BY <1>1, <1>2 DEF Init, Abstract!Init

\* The candidate under examination is the one of the stream at StreamPos.
LEMMA CandidateIsNext ==
  ASSUME IInv, Examine
  PROVE  /\ buf[pos] = StreamPos
         /\ Accepted = Abstract!Candidate(StreamPos, half)
<1>1. ASSUME NEW j \in 0 .. Unit - 1
      PROVE  buf[pos + j] = StreamPos + j
  <2>1. pos + j \in 0 .. buflen - 1 /\ sq \in Nat /\ buflen \in Nat /\ pos \in Nat
    BY FirstBytesFacts DEF IInv, TypeOK, UnitLeft, Examine
  <2>2. buf[pos + j] = sq - buflen + (pos + j)
    BY <2>1 DEF IInv, BufferInv
  <2>3. QED
    BY <2>1, <2>2 DEF StreamPos
<1>2. [j \in 0 .. Unit - 1 |-> buf[pos + j]] = [j \in 0 .. Unit - 1 |-> StreamPos + j]
  BY <1>1
<1>3. buf[pos] = StreamPos
  <2>1. buf[pos + 0] = StreamPos + 0
    BY <1>1
  <2>2. pos \in Nat /\ StreamPos \in Int
    BY FirstBytesFacts DEF IInv, TypeOK, StreamPos
  <2>3. QED
    BY <2>1, <2>2
<1>4. QED
  BY <1>2, <1>3 DEF Accepted, Abstract!Candidate

LEMMA ExamineAbstract == IInv /\ Examine => Abstract!Examine
<1> SUFFICES ASSUME IInv, Examine PROVE Abstract!Examine
  OBVIOUS
<1>1. /\ pc = "rej" /\ UNCHANGED <<good, pc, sq, buf, buflen, base>>
      /\ ctr \in Nat /\ base \in Nat /\ base + ctr < N
      /\ DOMAIN coeffs = 0 .. N - 1
      /\ sq \in Nat /\ buflen \in Nat /\ pos \in Nat
  BY FirstBytesFacts DEF IInv, TypeOK, Examine
<1>2. PICK k \in Nat : k = Count /\ k = base + ctr /\ k < N
  BY <1>1 DEF Count
<1> DEFINE C == {coeffs[i] : i \in 0 .. N - 1}
<1>3. PICK t \in Seq(C) : t = [i \in 1 .. k |-> coeffs[i - 1]] /\ Len(t) = k
  <2>1. [i \in 1 .. k |-> coeffs[i - 1]] \in [1 .. k -> C]
    <3>1. \A i \in 1 .. k : i - 1 \in 0 .. N - 1
      BY <1>2
    <3>2. QED
      BY <3>1
  <2> HIDE DEF C
  <2>2. [i \in 1 .. k |-> coeffs[i - 1]] \in Seq(C)
    BY <2>1
  <2>3. Len([i \in 1 .. k |-> coeffs[i - 1]]) = k
    OBVIOUS
  <2>4. QED
    BY <2>2, <2>3
<1>4. ASSUME <<buf[pos], half>> \in good
      PROVE  [i \in 1 .. Count |-> coeffs[i - 1]]' = Append(t, Accepted)
  <2>1. ctr' = ctr + 1 /\ coeffs' = [coeffs EXCEPT ![k] = Accepted]
    BY <1>2, <1>4 DEF Examine
  <2>2. Count' = k + 1
    BY <1>1, <1>2, <2>1 DEF Count
  <2>3. ASSUME NEW i \in 1 .. k + 1
        PROVE  coeffs'[i - 1] = Append(t, Accepted)[i]
    BY <1>1, <1>2, <1>3, <2>1
  <2>4. Append(t, Accepted) = [i \in 1 .. k + 1 |-> Append(t, Accepted)[i]]
    BY <1>3
  <2>5. [i \in 1 .. k + 1 |-> coeffs'[i - 1]] = [i \in 1 .. k + 1 |-> Append(t, Accepted)[i]]
    BY <2>3
  <2>6. QED
    BY <2>2, <2>4, <2>5
<1>5. ASSUME <<buf[pos], half>> \notin good
      PROVE  [i \in 1 .. Count |-> coeffs[i - 1]]' = t
  <2>1. ctr' = ctr /\ coeffs' = coeffs
    BY <1>5 DEF Examine
  <2>2. Count' = k
    BY <1>1, <1>2, <2>1 DEF Count
  <2>3. QED
    BY <1>3, <2>1, <2>2
<1>6. IF half + 1 < PerUnit
      THEN half' = half + 1 /\ StreamPos' = StreamPos
      ELSE half' = 0 /\ StreamPos' = StreamPos + Unit
  BY <1>1 DEF Examine, StreamPos
<1>7. [i \in 1 .. Count |-> coeffs[i - 1]] = t
  BY <1>2, <1>3
<1>8. /\ buf[pos] = StreamPos
      /\ Accepted = Abstract!Candidate(StreamPos, half)
  BY CandidateIsNext
<1>9. QED
  BY <1>1, <1>2, <1>3, <1>4, <1>5, <1>6, <1>7, <1>8 DEF Abstract!Examine

LEMMA OtherAbstract == IInv /\ (First \/ Return \/ Refill) => UNCHANGED <<good, StreamPos, half, Taken>>
<1> SUFFICES ASSUME IInv, First \/ Return \/ Refill
             PROVE  UNCHANGED <<good, StreamPos, half, Taken>>
  OBVIOUS
<1>1. good' = good /\ coeffs' = coeffs
  BY DEF First, Return, Refill
<1>2. sq \in Nat /\ buflen \in Nat /\ pos \in Nat /\ ctr \in Nat /\ base \in Nat
  BY FirstBytesFacts DEF IInv, TypeOK
<1>3. CASE First
  <2>1. PICK n \in Nat : n = FirstBytes
    BY FirstBytesFacts
  <2>2. sq' = sq + n /\ buflen' = 0 + n
    BY <1>3, <2>1 DEF First, Squeeze, FirstBytes
  <2>3. StreamPos' = StreamPos /\ Count' = Count /\ half' = half
    BY <1>2, <1>3, <2>2 DEF First, IInv, StartInv, StreamPos, Count
  <2>4. QED
    BY <1>1, <2>3 DEF Taken
<1>4. CASE Return
  <2>1. StreamPos' = StreamPos /\ Count' = Count /\ half' = half
    BY <1>2, <1>4 DEF Return, StreamPos, Count
  <2>2. QED
    BY <1>1, <2>1 DEF Taken
<1>5. CASE Refill
  <2>1. PICK off \in Nat : off = (IF Carry THEN buflen % Unit ELSE 0) /\ off = buflen - pos
    BY <1>5, KeptBytes DEF Refill
  <2>2. sq' = sq + BlockBytes /\ buflen' = off + BlockBytes /\ pos' = 0
    BY <1>5, <2>1 DEF Refill, Squeeze
  <2>3. StreamPos' = StreamPos
    BY <1>2, <2>1, <2>2 DEF StreamPos
  <2>4. Count' = Count /\ half' = half
    BY <1>2, <1>5 DEF Refill, Count, IInv, RefillInv
  <2>5. QED
    BY <1>1, <2>3, <2>4 DEF Taken
<1>6. QED
  BY <1>3, <1>4, <1>5

\* rej_uniform and rej_eta with the loops around them implement the filter:
\* where a block ends, and how many bytes of it are left over, does not show in
\* the polynomial.
THEOREM SamplingIsFilter == Spec => Implements
<1>1. IInv /\ [Next]_vars => [Abstract!Examine]_(Abstract!vars)
  <2> SUFFICES ASSUME IInv, [Next]_vars
               PROVE  Abstract!Examine \/ UNCHANGED <<good, StreamPos, half, Taken>>
    BY DEF Abstract!vars, Taken
  <2>1. CASE UNCHANGED vars
    BY <2>1 DEF vars, StreamPos, Taken, Count
  <2>2. QED
    BY <2>1, ExamineAbstract, OtherAbstract DEF Next, Done
<1>2. QED
  BY <1>1, InitAbstract, SamplingInvariant, PTL DEF Spec, Implements, Abstract!Spec
=============================================================================
