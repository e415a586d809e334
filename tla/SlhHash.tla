------------------------------ MODULE SlhHash -------------------------------
(***************************************************************************)
(* slh_adrs.h and the hash functions of slh_shake.c.  F, H, T_l and PRF    *)
(* are one function of the ADRS and the input, as they are with SHAKE.     *)
(*                                                                         *)
(* Hash values are names: a value is the address it was computed at, and   *)
(* its input, which is left out if it is the one that belongs there by     *)
(* FIPS 205.  So two values are equal exactly if address and input are,    *)
(* and a value of <<>> in "of" has nothing wrong in all that is below it.  *)
(***************************************************************************)
EXTENDS Integers, Sequences

CONSTANTS
  A,       \* prm->a, height of a FORS tree
  K,       \* prm->k, number of FORS trees
  W,       \* 16: values of a digit
  Len1,    \* get_len1: digits of a value
  Len2     \* get_len2: digits of the checksum

\* W^n; TLA+'s own exponentiation is opaque to the provers.
Power[n \in Nat] == IF n = 0 THEN 1 ELSE W * Power[n - 1]

ASSUME HashSizesAssumption ==
  /\ A \in Nat \ {0} /\ K \in Nat \ {0}
  /\ W \in Nat \ {0, 1} /\ Len1 \in Nat \ {0} /\ Len2 \in Nat \ {0}
  /\ Len1 * (W - 1) < Power[Len2]    \* the checksum fits, as get_len2 asserts

Len12 == Len1 + Len2    \* get_len

\* Chain address and tree height are one word, hash address and tree index, too.
ZeroAdrs == [layer |-> 0, tree |-> 0, type |-> "WOTS_HASH", kp |-> 0, w6 |-> 0, w7 |-> 0]

SetType(a, y) == [a EXCEPT !.type = y]
SetTypeAndClearNotKp(a, y) == [a EXCEPT !.type = y, !.w6 = 0, !.w7 = 0]
SetTypeAndClear(a, y) == [SetTypeAndClearNotKp(a, y) EXCEPT !.kp = 0]

Value(a) == [at |-> a, of |-> <<>>]
Seed == Value([ZeroAdrs EXCEPT !.type = "SEED"])     \* ctx->sk_seed
Odd  == Value([ZeroAdrs EXCEPT !.type = "ODD"])      \* what no hash gives

\* The input that belongs to an address in FIPS 205.
Input(a) ==
  LET Below(n) ==
        Value(IF a.type = "TREE" /\ a.w6 = 1
              THEN [SetTypeAndClear(a, "WOTS_PK") EXCEPT !.kp = n]
              ELSE [a EXCEPT !.w6 = @ - 1, !.w7 = n])
      Children == <<Below(2 * a.w7), Below(2 * a.w7 + 1)>>
  IN  CASE a.type \in {"WOTS_PRF", "FORS_PRF"} -> <<Seed>>
        [] a.type = "WOTS_HASH" ->
             <<Value(IF a.w7 = 0 THEN SetType(a, "WOTS_PRF") ELSE [a EXCEPT !.w7 = @ - 1])>>
        [] a.type = "WOTS_PK" ->
             [c \in 1 .. Len12 |-> Value([a EXCEPT !.type = "WOTS_HASH", !.w6 = c - 1, !.w7 = W - 2])]
        [] a.type = "TREE" -> Children
        [] a.type = "FORS_TREE" -> IF a.w6 = 0 THEN <<Value(SetType(a, "FORS_PRF"))>> ELSE Children
        [] a.type = "FORS_ROOTS" ->
             [t \in 1 .. K |-> Value([a EXCEPT !.type = "FORS_TREE", !.w6 = A, !.w7 = t - 1])]

Hash(a, in) == [at |-> a, of |-> IF in = Input(a) THEN <<>> ELSE in]

\* shake_chain: s hashes on x, the first at hash address i.
Chain(a, x, i, s) ==
  LET link[n \in 0 .. s] ==
        IF n = 0 THEN x ELSE Hash([a EXCEPT !.w7 = i + n - 1], <<link[n - 1]>>)
  IN  link[s]

\* shake_wots_chain.
WotsChain(a, s) ==
  Chain(SetType(a, "WOTS_HASH"), Hash([a EXCEPT !.type = "WOTS_PRF", !.w7 = 0], <<Seed>>), 0, s)

\* ADRS after it: sha256_chain leaves the hash address it began with, and
\* shake_chain the last one.
WotsChainAdrs(a, s) ==
  {[a EXCEPT !.type = "WOTS_HASH", !.w7 = h] : h \in {0, IF s = 0 THEN 0 ELSE s - 1}}

\* shake_fors_hash, whose s says whether the secret value is hashed again.
ForsPrfAdrs(a) == [a EXCEPT !.type = "FORS_PRF", !.w6 = 0]
ForsSecret(a) == Hash(ForsPrfAdrs(a), <<Seed>>)

\* Mutant: the tree height is not set.
ForsLeafAdrsHigh(a) == SetType(a, "FORS_TREE")

ForsLeafAdrs(a) == SetType(ForsPrfAdrs(a), "FORS_TREE")
ForsHashed(a) == Hash(ForsLeafAdrs(a), <<ForsSecret(a)>>)

\* Mutant: the digits are summed up, not what they lack.
ChecksumOfDigits(v) ==
  LET sum[n \in 0 .. Len1] == IF n = 0 THEN 0 ELSE sum[n - 1] + v[n] IN sum[Len1]

Checksum(v) ==
  LET sum[n \in 0 .. Len1] == IF n = 0 THEN 0 ELSE sum[n - 1] + (W - 1 - v[n]) IN sum[Len1]

\* wots_csum: the digits of a value and those of their checksum.
WotsCsum(v) == v \o [c \in 1 .. Len2 |-> (Checksum(v) \div Power[Len2 - c]) % W]
=============================================================================
