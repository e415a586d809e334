------------------------------- MODULE Keccak -------------------------------
(***************************************************************************)
(* The Keccak state of fips202.c (uint64_t s[25]) and the three things the *)
(* sponge does to it: XOR bytes into the rate part, permute, read a byte.  *)
(*                                                                         *)
(* A byte is the set of its one bits, so that XOR is symmetric difference  *)
(* and padding bits that meet a message bit cancel as they do in C.  The   *)
(* permutation is left uninterpreted: a state is the sequence of rate      *)
(* blocks it was permuted with and the bytes XORed in since, so two states *)
(* are equal exactly when every injective permutation makes them equal.    *)
(***************************************************************************)
EXTENDS Integers, Sequences

CONSTANTS
  Rate,     \* bytes of a block: SHAKE128_RATE, SHAKE256_RATE, SHA3_*_RATE
  Bits,     \* the bits of a byte that the model tells apart
  TopBit    \* the bit that 1ULL << 63 sets in the last byte of the rate

ASSUME RateAssumption == Rate \in Nat \ {0}
ASSUME BitsAssumption == TopBit \in Bits

Byte == SUBSET Bits
Zero == {}

Xor(a, b) == (a \ b) \cup (b \ a)

\* The number of bytes in n blocks, the index of the first byte of block n + 1.
BytesOf(n) == n * Rate

Offset    == 0 .. Rate - 1
Block     == [Offset -> Byte]
ZeroBlock == [i \in Offset |-> Zero]

State     == [perm : Seq(Block), blk : Block]

\* keccak_init: all 25 lanes zero.
ZeroState == [perm |-> <<>>, blk |-> ZeroBlock]

\* KeccakF1600_StatePermute on the state: what was XORed in is now mixed in.
Permute(s) == [perm |-> Append(s.perm, s.blk), blk |-> ZeroBlock]

\* XOR the first n bytes of in at offsets at .. at + n - 1 of the rate.
XorInto(s, at, in, n) ==
  [perm |-> s.perm, blk |-> [i \in Offset |->
     IF at <= i /\ i < at + n THEN Xor(s.blk[i], in[i - at + 1]) ELSE s.blk[i]]]

\* The domain separation byte p at offset at, the final bit at the last byte.
Pad(s, at, p) ==
  [perm |-> s.perm, blk |-> [i \in Offset |->
     Xor(IF i = at THEN Xor(s.blk[i], p) ELSE s.blk[i],
         IF i = Rate - 1 THEN {TopBit} ELSE Zero)]]

\* The value of byte i of the rate.
OutByte(s, i) == [after |-> s.perm, xored |-> s.blk[i], at |-> i]

\* The n bytes of the rate from offset at on.
Read(s, at, n) == [j \in 1 .. n |-> OutByte(s, at + j - 1)]
=============================================================================
