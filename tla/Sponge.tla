------------------------------- MODULE Sponge -------------------------------
(***************************************************************************)
(* One keccak_state object of fips202.c and the functions that work on it: *)
(* init, absorb, finalize, squeeze, absorb_once, squeezeblocks, and the    *)
(* one-shot shake128/shake256 and sha3_256/sha3_512 built from them.       *)
(*                                                                         *)
(* A call starts with an action of the caller and is then run one loop     *)
(* iteration at a time.  The caller is free to cut the message and the     *)
(* output as it likes, and to reinitialise an object in any condition; it  *)
(* keeps to the order of the API, and calls squeezeblocks only where its   *)
(* comment allows ("state->pos = SHAKE128_RATE").                          *)
(***************************************************************************)
EXTENDS Fips202

CONSTANTS
  Chunk,      \* the inputs a caller passes in one call
  ShakeSep,   \* the byte 0x1F
  Sha3Sep,    \* the byte 0x06
  HashLen,    \* bytes of a SHA-3 digest: 32 of rate 136, 64 of rate 72
  MaxMsg,     \* bound on the length of a message
  MaxOut,     \* bound on the number of output bytes
  Garbage     \* the lanes an object may hold before its first initialisation

Seps == {ShakeSep, Sha3Sep}

ASSUME ChunkAssumption == Chunk \subseteq Seq(Byte)
ASSUME SepsAssumption  == Seps \subseteq Byte
ASSUME BoundAssumption == MaxMsg \in Nat /\ MaxOut \in Nat /\ Rate <= MaxOut
ASSUME HashAssumption  == HashLen \in 1 .. Rate /\ HashLen <= MaxOut
ASSUME GarbageAssumption == Garbage \subseteq Block

\* No one-shot SHAKE call is running.
NoWant == -1

VARIABLES
  s,        \* the lanes
  pos,      \* keccak_state.pos
  call,     \* the function being run, "none" between calls
  in,       \* what keccak_absorb / keccak_absorb_once has left of its input
  outlen,   \* bytes (squeeze) or blocks (squeezeblocks) still to be written
  want,     \* the outlen argument of a running shake128/shake256
  mode,     \* what the API lets the caller do next
  msg,      \* history: the message passed in since the last initialisation
  sep,      \* history: the domain separator used last
  out       \* history: the output since the last initialisation

vars == <<s, pos, call, in, outlen, want, mode, msg, sep, out>>

-----------------------------------------------------------------------------
Init ==
  /\ s \in {[perm |-> <<>>, blk |-> g] : g \in Garbage}
  /\ pos = 0
  /\ call = "none"
  /\ in = <<>>
  /\ outlen = 0
  /\ want = NoWant
  /\ mode = "fresh"
  /\ msg = <<>>
  /\ sep = ShakeSep
  /\ out = <<>>

\* shake128_init, shake256_init.
ShakeInit ==
  /\ call = "none"
  /\ s' = ZeroState
  /\ pos' = 0
  /\ mode' = "absorb"
  /\ msg' = <<>>
  /\ out' = <<>>
  /\ UNCHANGED <<call, in, outlen, want, sep>>

\* shake128_absorb, shake256_absorb: the call of keccak_absorb.
AbsorbCall(c) ==
  /\ call = "none"
  /\ mode = "absorb"
  /\ Len(msg) + Len(c) <= MaxMsg
  /\ call' = "absorb"
  /\ in' = c
  /\ msg' = msg \o c
  /\ UNCHANGED <<s, pos, outlen, want, mode, sep, out>>

\* Mutant: while(pos+inlen > r).
AbsorbBlockLate ==
  /\ call = "absorb"
  /\ pos + Len(in) > Rate
  /\ s' = Permute(XorInto(s, pos, in, Rate - pos))
  /\ in' = SubSeq(in, Rate - pos + 1, Len(in))
  /\ pos' = 0
  /\ UNCHANGED <<call, outlen, want, mode, msg, sep, out>>

\* while(pos+inlen >= r): fill the block up and permute.
AbsorbBlock ==
  /\ call = "absorb"
  /\ pos + Len(in) >= Rate
  /\ s' = Permute(XorInto(s, pos, in, Rate - pos))
  /\ in' = SubSeq(in, Rate - pos + 1, Len(in))
  /\ pos' = 0
  /\ UNCHANGED <<call, outlen, want, mode, msg, sep, out>>

\* Mutant: the position is that of the last call alone.
AbsorbTailForgets ==
  /\ call = "absorb"
  /\ pos + Len(in) < Rate
  /\ s' = XorInto(s, pos, in, Len(in))
  /\ pos' = Len(in)
  /\ in' = <<>>
  /\ call' = "none"
  /\ UNCHANGED <<outlen, want, mode, msg, sep, out>>

\* The rest goes into the block without filling it; pos is returned.
AbsorbTail ==
  /\ call = "absorb"
  /\ pos + Len(in) < Rate
  /\ s' = XorInto(s, pos, in, Len(in))
  /\ pos' = pos + Len(in)
  /\ in' = <<>>
  /\ call' = "none"
  /\ UNCHANGED <<outlen, want, mode, msg, sep, out>>

\* shake128_finalize, shake256_finalize.
Finalize ==
  /\ call = "none"
  /\ mode = "absorb"
  /\ s' = Pad(s, pos, ShakeSep)
  /\ pos' = Rate
  /\ mode' = "squeeze"
  /\ sep' = ShakeSep
  /\ UNCHANGED <<call, in, outlen, want, msg, out>>

\* Mutant: the lanes are not zeroed first.
OnceCallDirty(c, p, n) ==
  /\ call = "none"
  /\ Len(c) <= MaxMsg
  /\ p = Sha3Sep => n = NoWant
  /\ call' = "once"
  /\ in' = c
  /\ want' = n
  /\ mode' = "absorb"
  /\ msg' = c
  /\ sep' = p
  /\ out' = <<>>
  /\ UNCHANGED <<s, pos, outlen>>

\* keccak_absorb_once of shake*_absorb_once (n = NoWant), of shake128/shake256
\* asked for n bytes, or of sha3_256/sha3_512 (p = Sha3Sep): the lanes are
\* zeroed, whatever was in them.
OnceCall(c, p, n) ==
  /\ call = "none"
  /\ Len(c) <= MaxMsg
  /\ p = Sha3Sep => n = NoWant
  /\ s' = ZeroState
  /\ call' = "once"
  /\ in' = c
  /\ want' = n
  /\ mode' = "absorb"
  /\ msg' = c
  /\ sep' = p
  /\ out' = <<>>
  /\ UNCHANGED <<pos, outlen>>

\* while(inlen >= r): one whole block.
OnceBlock ==
  /\ call = "once"
  /\ Len(in) >= Rate
  /\ s' = Permute(XorInto(s, 0, in, Rate))
  /\ in' = SubSeq(in, Rate + 1, Len(in))
  /\ UNCHANGED <<pos, call, outlen, want, mode, msg, sep, out>>

\* The rest and the padding; what runs next depends on the caller.
OncePad ==
  /\ call = "once"
  /\ Len(in) < Rate
  /\ s' = Pad(XorInto(s, 0, in, Len(in)), Len(in), sep)
  /\ in' = <<>>
  /\ pos' = Rate
  /\ mode' = "squeeze"
  /\ \/ sep = Sha3Sep /\ call' = "hash" /\ UNCHANGED outlen
     \/ sep = ShakeSep /\ want = NoWant /\ call' = "none" /\ UNCHANGED outlen
     \/ sep = ShakeSep /\ want # NoWant /\ call' = "blocks" /\ outlen' = want \div Rate
  /\ UNCHANGED <<want, msg, sep, out>>

\* sha3_256, sha3_512: permute, store the digest, drop the local state.
HashOut ==
  /\ call = "hash"
  /\ s' = Permute(s)
  /\ out' = out \o Read(s', 0, HashLen)
  /\ call' = "none"
  /\ mode' = "fresh"
  /\ UNCHANGED <<pos, in, outlen, want, msg, sep>>

\* shake128_squeeze, shake256_squeeze.
SqueezeCall(n) ==
  /\ call = "none"
  /\ mode = "squeeze"
  /\ Len(out) + n <= MaxOut
  /\ call' = "squeeze"
  /\ outlen' = n
  /\ UNCHANGED <<s, pos, in, want, mode, msg, sep, out>>

\* while(outlen): permute at the end of a block, copy to the end of it.
SqueezeStep ==
  /\ call = "squeeze"
  /\ outlen > 0
  /\ LET from == IF pos = Rate THEN 0 ELSE pos
         n    == IF Rate - from < outlen THEN Rate - from ELSE outlen
     IN  /\ s' = IF pos = Rate THEN Permute(s) ELSE s
         /\ out' = out \o Read(s', from, n)
         /\ outlen' = outlen - n
         /\ pos' = from + n
  /\ UNCHANGED <<call, in, want, mode, msg, sep>>

\* A one-shot shake128/shake256 ends here, and its local state with it.
SqueezeReturn ==
  /\ call = "squeeze"
  /\ outlen = 0
  /\ call' = "none"
  /\ want' = NoWant
  /\ mode' = IF want = NoWant THEN mode ELSE "fresh"
  /\ UNCHANGED <<s, pos, in, outlen, msg, sep, out>>

\* shake128_squeezeblocks, shake256_squeezeblocks, as its comment allows it.
BlocksCall(n) ==
  /\ call = "none"
  /\ mode = "squeeze"
  /\ pos = Rate
  /\ Len(out) + BytesOf(n) <= MaxOut
  /\ call' = "blocks"
  /\ outlen' = n
  /\ UNCHANGED <<s, pos, in, want, mode, msg, sep, out>>

\* while(nblocks): permute, store a whole block; pos is not touched.
BlocksStep ==
  /\ call = "blocks"
  /\ outlen > 0
  /\ s' = Permute(s)
  /\ out' = out \o Read(s', 0, Rate)
  /\ outlen' = outlen - 1
  /\ UNCHANGED <<pos, call, in, want, mode, msg, sep>>

\* Mutant: outlen -= nblocks*RATE is missing.
BlocksReturnAll ==
  /\ call = "blocks"
  /\ outlen = 0
  /\ call' = IF want = NoWant THEN "none" ELSE "squeeze"
  /\ outlen' = IF want = NoWant THEN 0 ELSE want
  /\ UNCHANGED <<s, pos, in, want, mode, msg, sep, out>>

\* Back to the caller; shake128/shake256 squeeze what is left of outlen.
BlocksReturn ==
  /\ call = "blocks"
  /\ outlen = 0
  /\ call' = IF want = NoWant THEN "none" ELSE "squeeze"
  /\ outlen' = IF want = NoWant THEN 0 ELSE want - BytesOf(want \div Rate)
  /\ UNCHANGED <<s, pos, in, want, mode, msg, sep, out>>

Call ==
  \/ ShakeInit
  \/ \E c \in Chunk : AbsorbCall(c)
  \/ Finalize
  \/ \E c \in Chunk, p \in Seps, n \in {NoWant} \cup (0 .. MaxOut) : OnceCall(c, p, n)
  \/ \E n \in 0 .. MaxOut : SqueezeCall(n) \/ BlocksCall(n)

Step ==
  \/ AbsorbBlock \/ AbsorbTail
  \/ OnceBlock \/ OncePad \/ HashOut
  \/ SqueezeStep \/ SqueezeReturn
  \/ BlocksStep \/ BlocksReturn

Next == Call \/ Step

Spec == Init /\ [][Next]_vars

\* A call that has begun is run to its end: the processor does nothing else.
FairSpec == Spec /\ WF_vars(Step)

-----------------------------------------------------------------------------
\* The contract: the object is an Xof whatever the calls and their sizes.
Abstract == INSTANCE Xof

Implements == Abstract!Spec

-----------------------------------------------------------------------------
\* A byte read from the lanes.
OutRec == [after : Seq(Block), xored : Byte, at : Offset]

TypeOK ==
  /\ s \in State
  /\ pos \in 0 .. Rate
  /\ call \in {"none", "absorb", "once", "hash", "squeeze", "blocks"}
  /\ in \in Seq(Byte)
  /\ outlen \in Nat
  /\ want \in {NoWant} \cup (0 .. MaxOut)
  /\ mode \in {"fresh", "absorb", "squeeze"}
  /\ msg \in Seq(Byte)
  /\ sep \in Seps
  /\ out \in Seq(OutRec)

\* The lanes x hold the message m up to its last Len(c) bytes, which are c:
\* each byte once and in its place, the next one at offset at, nothing else.
Loaded(x, m, at, c) ==
  /\ Len(m) - Len(c) = BytesOf(Len(x.perm)) + at
  /\ \A b \in 1 .. Len(x.perm), i \in Offset :
       x.perm[b][i] = m[BytesOf(b - 1) + i + 1]
  /\ \A i \in Offset :
       x.blk[i] = IF i < at THEN m[BytesOf(Len(x.perm)) + i + 1] ELSE Zero
  /\ \A j \in 1 .. Len(c) : c[j] = m[BytesOf(Len(x.perm)) + at + j]

\* The lanes x went through the blocks of the padded message, and through zero
\* blocks after these.
Padded(x, m, p) ==
  /\ \A b \in 1 .. Len(x.perm) : x.perm[b] = PadBlock(m, p, b)
  /\ x.blk = PadBlock(m, p, Len(x.perm) + 1)

\* Where the next byte goes: absorb_once counts from the start of a block and
\* leaves the object's pos alone.
Cursor == IF call = "once" THEN 0 ELSE pos

\* While absorbing, the lanes hold the message so far whatever the sizes of
\* the calls were -- and nothing of the previous contents of the object.
AbsorbInv ==
  mode = "absorb" => Cursor < Rate /\ Loaded(s, msg, Cursor, in)

\* Every output byte is the one that its index, the message and the separator
\* determine.
OutputInv ==
  \A k \in 1 .. Len(out) : out[k] = XofByte(msg, sep, k - 1)

\* While squeezing, the number of permutations and pos say how much output was
\* handed out; before the first byte the last block is pending and pos is at
\* its end.
SqueezeInv ==
  mode = "squeeze" =>
    /\ Padded(s, msg, sep)
    /\ Len(out) = BytesOf(Len(s.perm) - NBlocks(msg)) + pos
    /\ \/ Len(s.perm) >= NBlocks(msg)
       \/ Len(s.perm) = NBlocks(msg) - 1 /\ pos = Rate

\* How far each function has come, from what it has left to do.
CallInv ==
  /\ call = "none" => want = NoWant
  /\ call \in {"absorb", "once"} => mode = "absorb"
  /\ call \notin {"absorb", "once"} => in = <<>>
  /\ call \in {"hash", "squeeze", "blocks"} => mode = "squeeze"
  /\ call \in {"hash", "blocks"} => pos = Rate
  /\ call = "hash" => want = NoWant /\ out = <<>>
  /\ call = "absorb" => want = NoWant
  /\ mode = "absorb" => out = <<>>
  /\ sep = Sha3Sep => want = NoWant
  /\ want # NoWant =>
       /\ call = "blocks" => Len(out) + BytesOf(outlen) = BytesOf(want \div Rate)
       /\ call = "squeeze" => Len(out) + outlen = want

IInv == TypeOK /\ AbsorbInv /\ SqueezeInv /\ OutputInv /\ CallInv

\* A one-shot shake128/shake256 writes exactly the bytes it was asked for.
OneShotExact ==
  [][want # NoWant /\ want' = NoWant => Len(out') = want]_vars

\* Every call returns.
CallsReturn == [](call # "none" => <>(call = "none"))
=============================================================================
