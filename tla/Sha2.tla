-------------------------------- MODULE Sha2 --------------------------------
(***************************************************************************)
(* sha2_256.c and sha2_512.c, which differ in their sizes only, and the    *)
(* functions of slh_sha2.c that are built from them.  The chain and MGF1   *)
(* take an action per round of their loops, the others one action.         *)
(*                                                                         *)
(* The compression function is a free constructor: a chaining value is the *)
(* sequence of the blocks it was made from.  A byte is <<v>>, with v in    *)
(* 0 .. Base - 1, and byte j of the chaining value s is <<s, j>>.          *)
(***************************************************************************)
EXTENDS Integers, Sequences

CONSTANTS
  Base,      \* 256: values of a byte
  Blk,       \* 64, 128: bytes of a block
  LenSz,     \* 8, 16: bytes of the length at the end of the last block
  DigLen,    \* 32, 64: bytes of a digest
  Chunk,     \* the inputs a caller passes in one call
  MaxMsg,    \* bound on the length of a message
  Garbage,   \* the byte that uninitialised memory holds
  N,         \* prm->n
  HeadLen,   \* 18: bytes of ADRSc before the hash address, which has one here
  MaxChain,  \* 15: hash addresses of a chain are 0 .. MaxChain
  Hmsgs      \* values of prm->m

\* A sequence, of any bytes.
Word(a) == a \in Seq({a[j] : j \in DOMAIN a})

ASSUME Sha2Assumption ==
  /\ Base \in Nat \ {0} /\ Blk \in Nat /\ LenSz \in Nat \ {0} /\ MaxMsg \in Nat /\ N \in Nat /\ DigLen \in Nat \ {0}
  /\ HeadLen \in Nat /\ MaxChain \in 0 .. Base - 1 /\ Hmsgs \subseteq Nat
  /\ (HeadLen + 1 + N) + 1 <= Blk - LenSz     \* the chain has one block to pad: 22 + 32 + 1 <= 56
  /\ \A k \in 0 .. LenSz : Base ^ k \in Nat \ {0}
  /\ 8 * (MaxMsg + (2 * Blk)) < Base ^ LenSz  \* the length of a message has its bytes
  /\ \A a \in Chunk : Word(a)

VARIABLES
  ctx,      \* ctx->sha256_pk_seed
  sha2,     \* a sha256_t on the stack
  made,     \* whether sha2_mk_ctx was called
  msg,      \* history: what was put into sha2 since its initialisation, if it may be used
  out,      \* what the last call wrote, or writes
  want,     \* history: what it was to write by FIPS 180-4 and FIPS 205
  doing,    \* pc: "call", or the loop of "chain" or "mgf"
  round,    \* chain: i + j.  h_msg: i
  goal,     \* chain: i + s.  h_msg: prm->m
  first,    \* sha256_chain's sha2, padded
  sp,       \* of sha256_chain
  mgf,      \* of h_msg, without the counter
  key       \* history: the seed of MGF1

Locals == <<round, goal, first, sp, mgf, key>>
Sha2Vars == <<ctx, sha2, made, msg, out, want, doing, Locals>>

Byte(v)     == <<v>>
Bytes(v, n) == [j \in 1 .. n |-> Byte(v)]
Closed      == <<"closed">>

\* Big endian, in n bytes: slh_tobyte.
ToByte(x, n) == [j \in 1 .. n |-> Byte((x \div (Base ^ (n - j))) % Base)]

-----------------------------------------------------------------------------
Take(s, n) == [j \in 1 .. n |-> <<s, j>>]

\* Block b of a sequence of bytes, and its first n blocks.
Block(a, b)  == [j \in 0 .. Blk - 1 |-> a[((b - 1) * Blk) + j + 1]]
Blocks(a, n) == [b \in 1 .. n |-> Block(a, b)]

Store(c, at, m) ==
  [c EXCEPT !.mp = [j \in 0 .. Blk - 1 |-> IF at <= j /\ j < at + Len(m) THEN m[j - at + 1] ELSE @[j]]]

compress(c) == [c EXCEPT !.s = @ \o <<c.mp>>]

\* sha256_init; the block is left as it was.
init(c) == [s |-> <<>>, mp |-> c.mp, i |-> 0, len |-> 0]

\* sha256_copy: of the block, what is used.
copy(dst, src) ==
  [src EXCEPT !.mp = [j \in 0 .. Blk - 1 |-> IF j < src.i THEN @[j] ELSE dst.mp[j]]]

\* Mutant: if (mlen <= l).
FitsFull(c, m) == Len(m) <= Blk - c.i

\* if (mlen < l): the block does not become full.
Fits(c, m) == Len(m) < Blk - c.i

\* A block that has begun is filled up, and this is left of the input.
FillUp(c, m) ==
  LET d == [c EXCEPT !.len = @ + Len(m)]
  IN  IF c.i > 0 THEN compress(Store(d, c.i, SubSeq(m, 1, Blk - c.i))) ELSE d

Rest(c, m) == IF c.i > 0 THEN SubSeq(m, Blk - c.i + 1, Len(m)) ELSE m

\* Whole blocks, and what is left.
Whole(c, m) ==
  LET n == Len(m) \div Blk
      last == SubSeq(m, (n * Blk) + 1, Len(m))
  IN  Store([s |-> c.s \o Blocks(m, n), mp |-> IF n = 0 THEN c.mp ELSE Block(m, n),
             i |-> Len(last), len |-> c.len], 0, last)

\* sha256_update.
update(c, m) ==
  IF Fits(c, m)
  THEN [s |-> c.s, mp |-> Store(c, c.i, m).mp, i |-> c.i + Len(m), len |-> c.len + Len(m)]
  ELSE Whole(FillUp(c, m), Rest(c, m))

Clear(c, from) == Store(c, from, Bytes(0, Blk - from))

\* The bytes that the length x has, at the end of the block.
PutLength(c, x) ==
  [c EXCEPT !.mp = [j \in 0 .. Blk - 1 |->
     LET y == IF Blk - 1 - j >= LenSz THEN 0 ELSE x \div (Base ^ (Blk - 1 - j))
     IN  IF y > 0 THEN Byte(y % Base) ELSE @[j]]]

\* sha256_final_pad.
final_pad(c) ==
  LET one == Clear(Store(c, c.i, <<Byte(Base \div 2)>>), c.i + 1)
  IN  PutLength(IF c.i + 1 > Blk - LenSz THEN Clear(compress(one), 0) ELSE one, 8 * c.len)

\* sha256_final_len.
final_len(c, n) == Take(compress(final_pad(c)).s, n)

-----------------------------------------------------------------------------
\* FIPS 180-4: the message, one bit, the least number of zeros, the length.
Padded(m) ==
  LET zeros == (Blk - LenSz - Len(m) - 1) % Blk
  IN  ((m \o <<Byte(Base \div 2)>>) \o Bytes(0, zeros)) \o ToByte(8 * Len(m), LenSz)

SHA(m, n) == Take(Blocks(Padded(m), Len(Padded(m)) \div Blk), n)

-----------------------------------------------------------------------------
\* The inputs of the functions of slh_sha2.c, told apart by their bytes.
PkSeed == Bytes(3, N)
PkRoot == Bytes(4, N)
ADRSc(h) == Bytes(5, HeadLen) \o <<Byte(h)>>

\* What the context has taken in: PK.seed || toByte(0, 64 - n).
Prefix == PkSeed \o Bytes(0, Blk - N)

Sha2Init ==
  /\ sha2 = [s |-> <<>>, mp |-> [j \in 0 .. Blk - 1 |-> Garbage], i |-> 0, len |-> 0]
  /\ ctx = sha2
  /\ msg = Closed /\ made = FALSE
  /\ out = <<>> /\ want = <<>>
  /\ doing = "call"
  /\ round = 0 /\ goal = 0 /\ first = <<>> /\ sp = <<>> /\ mgf = <<>> /\ key = <<>>

NoLoop == doing = "call" /\ UNCHANGED <<doing, Locals>>

\* A loop ends, and its locals are gone.
LoopEnds ==
  /\ doing' = "call"
  /\ round' = 0 /\ goal' = 0 /\ first' = <<>> /\ sp' = <<>> /\ mgf' = <<>> /\ key' = <<>>

InitObject ==
  /\ NoLoop /\ msg = Closed
  /\ sha2' = init(sha2)
  /\ msg' = <<>>
  /\ out' = <<>> /\ want' = <<>>
  /\ UNCHANGED <<ctx, made>>

Copy ==
  /\ NoLoop /\ made /\ msg = Closed
  /\ sha2' = copy(sha2, ctx)
  /\ msg' = Prefix
  /\ out' = <<>> /\ want' = <<>>
  /\ UNCHANGED <<ctx, made>>

Update(m) ==
  /\ NoLoop /\ msg # Closed /\ Len(msg) + Len(m) <= MaxMsg
  /\ sha2' = update(sha2, m)
  /\ msg' = msg \o m
  /\ out' = <<>> /\ want' = <<>>
  /\ UNCHANGED <<ctx, made>>

Final(n) ==
  /\ NoLoop /\ msg # Closed
  /\ sha2' = compress(final_pad(sha2))
  /\ out' = final_len(sha2, n)
  /\ msg' = Closed
  /\ want' = SHA(msg, n)
  /\ UNCHANGED <<ctx, made>>

-----------------------------------------------------------------------------
\* sha2_mk_ctx: eliminate the first compression function.
MkCtx ==
  /\ NoLoop
  /\ ctx' = update(update(init(ctx), PkSeed), Bytes(0, Blk - N))
  /\ made' = TRUE
  /\ UNCHANGED <<sha2, msg, out, want>>

\* A function returns the bytes h, that are to be w; its sha256_t is gone.
Return(h, w) == out' = h /\ want' = w /\ UNCHANGED <<ctx, sha2, made, msg>>

\* sha256_tl, sha256_f, sha256_h, sha256_prf: one or two inputs after ADRSc.
Keyed(h, m1, m2) ==
  /\ NoLoop /\ made /\ msg = Closed
  /\ Return(final_len(update(update(update(copy(sha2, ctx), ADRSc(h)), m1), m2), N),
            SHA(((Prefix \o ADRSc(h)) \o m1) \o m2, N))

-----------------------------------------------------------------------------
\* F of FIPS 205.
F(h, x) == SHA((Prefix \o ADRSc(h)) \o x, N)

\* The object of sha256_chain with its first input.
Loaded(i, x) == update(update(copy(sha2, ctx), ADRSc(i)), x)

\* sha256_chain with s = 0 or s = 1.
ShortChain(x, i, s) ==
  /\ NoLoop /\ made /\ msg = Closed
  /\ \/ s = 0 /\ Return(x, x)
     \/ s = 1 /\ Return(final_len(Loaded(i, x), N), F(i, x))

\* sha256_chain up to its loop: s hashes on x, the first at hash address i.
ChainCall(x, i, s) ==
  /\ doing = "call" /\ made /\ msg = Closed
  /\ s > 1
  /\ first' = final_pad(Loaded(i, x))
  /\ sp' = compress(first')
  /\ want' = F(i, x)
  /\ doing' = "chain" /\ round' = i + 1 /\ goal' = i + s
  /\ UNCHANGED <<ctx, sha2, made, msg, out, mgf, key>>

\* Mutant: the hash address is that of the hash before.
ChainBlockLess(h) ==
  [first EXCEPT !.mp = [j \in 0 .. Blk - 1 |->
     IF j < HeadLen THEN @[j]
     ELSE IF j = HeadLen THEN Byte(h - 1)
     ELSE IF j <= HeadLen + N THEN <<sp.s, j - HeadLen>>
     ELSE @[j]]]

\* The next block: first is padded, before compression.
ChainBlock(h) ==
  [first EXCEPT !.mp = [j \in 0 .. Blk - 1 |->
     IF j < HeadLen THEN @[j]
     ELSE IF j = HeadLen THEN Byte(h)
     ELSE IF j <= HeadLen + N THEN <<sp.s, j - HeadLen>>
     ELSE @[j]]]

ChainRound ==
  /\ doing = "chain" /\ round < goal
  /\ sp' = compress(ChainBlock(round))
  /\ want' = F(round, want)
  /\ round' = round + 1
  /\ UNCHANGED <<ctx, sha2, made, msg, out, doing, goal, first, mgf, key>>

ChainReturn ==
  /\ doing = "chain" /\ round = goal
  /\ out' = Take(sp.s, N)
  /\ LoopEnds
  /\ UNCHANGED <<ctx, sha2, made, msg, want>>

-----------------------------------------------------------------------------
\* sha2_256_h_msg up to its loop.
HMsgCall(r, t, m) ==
  LET hash == final_len(update(update(update(update(init(sha2), r), PkSeed), PkRoot), t), DigLen)
  IN  /\ doing = "call" /\ msg = Closed
      /\ mgf' = (r \o PkSeed) \o hash
      /\ key' = (r \o PkSeed) \o SHA(((r \o PkSeed) \o PkRoot) \o t, DigLen)
      /\ out' = <<>> /\ want' = <<>>
      /\ doing' = "mgf" /\ round' = 0 /\ goal' = m
      /\ UNCHANGED <<ctx, sha2, made, msg, first, sp>>

\* What MGF1 has after its next digest: the leading m octets.
MGF1 == LET all == want \o SHA(key \o ToByte(Len(want) \div DigLen, 1), DigLen)
        IN  SubSeq(all, 1, IF Len(all) < goal THEN Len(all) ELSE goal)

\* Mutant: the digest always goes through mgf, over R and PK.seed.
MgfRoundThrough ==
  LET d == final_len(update(init(sha2), mgf \o ToByte(round \div DigLen, 1)), DigLen)
  IN  /\ doing = "mgf" /\ round < goal
      /\ out' = out \o SubSeq(d, 1, IF goal - round < DigLen THEN goal - round ELSE DigLen)
      /\ mgf' = d \o SubSeq(mgf, DigLen + 1, Len(mgf))
      /\ want' = MGF1
      /\ round' = round + DigLen
      /\ UNCHANGED <<ctx, sha2, made, msg, doing, goal, first, sp, key>>

\* A whole digest goes to h, the last one may go to the front of mgf, and a
\* part of it to h.
MgfRound ==
  LET d == final_len(update(init(sha2), mgf \o ToByte(round \div DigLen, 1)), DigLen)
  IN  /\ doing = "mgf" /\ round < goal
      /\ IF goal - round >= DigLen
         THEN out' = out \o d /\ mgf' = mgf
         ELSE /\ out' = out \o SubSeq(d, 1, goal - round)
              /\ mgf' = d \o SubSeq(mgf, DigLen + 1, Len(mgf))
      /\ want' = MGF1
      /\ round' = round + DigLen
      /\ UNCHANGED <<ctx, sha2, made, msg, doing, goal, first, sp, key>>

MgfReturn ==
  /\ doing = "mgf" /\ round >= goal
  /\ LoopEnds
  /\ UNCHANGED <<ctx, sha2, made, msg, out, want>>

-----------------------------------------------------------------------------
\* HMAC: a byte of the key, zero behind its end, exclusive-ored to a pad.
Pad(k, pad) == [j \in 1 .. Blk |-> <<"xor", pad, IF j <= N THEN k[j] ELSE Byte(0)>>]

PrfMsg(k, opt, t) ==
  LET inner == final_len(update(update(update(init(sha2), Pad(k, 54)), opt), t), DigLen)
  IN  /\ NoLoop /\ msg = Closed
      /\ Return(final_len(update(update(init(sha2), Pad(k, 92)), inner), N),
                SHA(Pad(k, 92) \o SHA((Pad(k, 54) \o opt) \o t, DigLen), N))

Sha2Next ==
  \/ InitObject \/ Copy
  \/ \E m \in Chunk : Update(m)
  \/ \E n \in {N, DigLen} : Final(n)
  \/ MkCtx
  \/ \E h \in {0, MaxChain}, m1 \in Chunk, m2 \in {<<>>, Bytes(7, N)} : Keyed(h, m1, m2)
  \/ \E i, s \in 0 .. MaxChain : i + s <= MaxChain /\ (ShortChain(Bytes(6, N), i, s) \/ ChainCall(Bytes(6, N), i, s))
  \/ ChainRound \/ ChainReturn
  \/ \E t \in Chunk, m \in Hmsgs : HMsgCall(Bytes(7, N), t, m)
  \/ MgfRound \/ MgfReturn
  \/ \E t \in Chunk : PrfMsg(Bytes(8, N), Bytes(7, N), t)

Sha2Spec == Sha2Init /\ [][Sha2Next]_Sha2Vars

-----------------------------------------------------------------------------
\* Safety: each digest is that of FIPS 180-4 for the bytes put in, however
\* they were cut into calls and whatever the object, its copy and the block
\* held before; each function of slh_sha2.c gives what its comment says.
HashRight == doing = "call" => out = want
=============================================================================
