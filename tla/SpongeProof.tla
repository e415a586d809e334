----------------------------- MODULE SpongeProof ----------------------------
(***************************************************************************)
(* Proofs that the sponge of fips202.c computes, for every rate and every  *)
(* way of cutting the message and the output, what FIPS 202 defines.       *)
(***************************************************************************)
EXTENDS Sponge, TLAPS

USE RateAssumption, BitsAssumption

(***************************************************************************)
(* Arithmetic of block numbers and offsets.                                *)
(***************************************************************************)

LEMMA BytesOfFacts ==
  ASSUME NEW a \in Int
  PROVE  /\ BytesOf(a) \in Int
         /\ BytesOf(a + 1) = BytesOf(a) + Rate
         /\ BytesOf(a - 1) = BytesOf(a) - Rate
         /\ BytesOf(0) = 0
BY DEF BytesOf

LEMMA BytesOfNat ==
  ASSUME NEW a \in Nat
  PROVE  BytesOf(a) \in Nat /\ BytesOf(a + 1) = BytesOf(a) + Rate /\ BytesOf(0) = 0
BY DEF BytesOf

\* A later block begins at least Rate bytes after an earlier one.
LEMMA BlockOrder ==
  ASSUME NEW a \in Int, NEW b \in Int, a < b
  PROVE  BytesOf(a) + Rate <= BytesOf(b)
BY DEF BytesOf

\* Division finds the block and the offset of a byte.
LEMMA DivMod ==
  ASSUME NEW q \in Nat, NEW o \in Offset
  PROVE  (BytesOf(q) + o) \div Rate = q /\ (BytesOf(q) + o) % Rate = o
BY DEF Offset, BytesOf

LEMMA DivBounds ==
  ASSUME NEW n \in Nat
  PROVE  /\ n \div Rate \in Nat
         /\ BytesOf(n \div Rate) <= n
         /\ n < BytesOf(n \div Rate) + Rate
BY DEF BytesOf

(***************************************************************************)
(* Sequences.                                                              *)
(***************************************************************************)

LEMMA CatFacts ==
  ASSUME NEW S, NEW q \in Seq(S), NEW e \in Seq(S)
  PROVE  /\ q \o e \in Seq(S)
         /\ Len(q \o e) = Len(q) + Len(e)
         /\ \A i \in 1 .. Len(q) + Len(e) :
              (q \o e)[i] = IF i <= Len(q) THEN q[i] ELSE e[i - Len(q)]
OBVIOUS

LEMMA SuffixFacts ==
  ASSUME NEW S, NEW q \in Seq(S), NEW m \in 1 .. Len(q) + 1
  PROVE  /\ SubSeq(q, m, Len(q)) \in Seq(S)
         /\ Len(SubSeq(q, m, Len(q))) = Len(q) - m + 1
         /\ \A j \in 1 .. Len(q) - m + 1 : SubSeq(q, m, Len(q))[j] = q[m - 1 + j]
OBVIOUS

(***************************************************************************)
(* The operators on the state.                                             *)
(***************************************************************************)

LEMMA XorFacts ==
  ASSUME NEW a \in Byte, NEW b \in Byte
  PROVE  Xor(a, b) \in Byte /\ Xor(Zero, a) = a /\ Xor(a, Zero) = a
BY DEF Byte, Xor, Zero

LEMMA ByteFacts == Zero \in Byte /\ {TopBit} \in Byte
BY DEF Byte, Zero

LEMMA ZeroStateType == ZeroState \in State
BY ByteFacts DEF ZeroState, State, ZeroBlock, Block

\* A permutation appends the pending block and leaves an empty one.
LEMMA PermuteFacts ==
  ASSUME NEW x \in State
  PROVE  /\ Permute(x) \in State
         /\ Len(Permute(x).perm) = Len(x.perm) + 1
         /\ \A b \in 1 .. Len(x.perm) : Permute(x).perm[b] = x.perm[b]
         /\ Permute(x).perm[Len(x.perm) + 1] = x.blk
         /\ \A i \in Offset : Permute(x).blk[i] = Zero
BY ByteFacts DEF Permute, State, ZeroBlock, Block

\* XORing bytes in changes the bytes it is told to change and no other.
LEMMA XorIntoFacts ==
  ASSUME NEW x \in State, NEW c \in Seq(Byte), NEW at \in Nat,
         NEW n \in 0 .. Len(c), at + n <= Rate
  PROVE  /\ XorInto(x, at, c, n) \in State
         /\ XorInto(x, at, c, n).perm = x.perm
         /\ \A i \in Offset :
              XorInto(x, at, c, n).blk[i] =
                IF at <= i /\ i < at + n THEN Xor(x.blk[i], c[i - at + 1])
                                         ELSE x.blk[i]
<1> DEFINE blk == [i \in Offset |->
             IF at <= i /\ i < at + n THEN Xor(x.blk[i], c[i - at + 1])
                                      ELSE x.blk[i]]
<1>1. x.blk \in Block /\ x.perm \in Seq(Block) 
  BY DEF State
<1>2. blk \in Block
  <2>1. ASSUME NEW i \in Offset
        PROVE  blk[i] \in Byte
    <3>1. x.blk[i] \in Byte
      BY <1>1 DEF Block
    <3>2. CASE at <= i /\ i < at + n
      <4>1. c[i - at + 1] \in Byte
        BY <3>2 DEF Offset
      <4>2. QED
        BY <3>1, <3>2, <4>1, XorFacts
    <3>3. CASE ~(at <= i /\ i < at + n)
      BY <3>1, <3>3
    <3>4. QED
      BY <3>2, <3>3
  <2>2. QED
    BY <2>1 DEF Block
<1>3. XorInto(x, at, c, n) = [perm |-> x.perm, blk |-> blk]
  BY DEF XorInto
<1>4. QED
  BY <1>1, <1>2, <1>3 DEF State

\* Padding changes the byte at the cursor and the last one.
LEMMA PadFacts ==
  ASSUME NEW x \in State, NEW at \in Offset, NEW p \in Byte
  PROVE  /\ Pad(x, at, p) \in State
         /\ Pad(x, at, p).perm = x.perm
         /\ \A i \in Offset :
              Pad(x, at, p).blk[i] = Xor(IF i = at THEN Xor(x.blk[i], p) ELSE x.blk[i],
                                         IF i = Rate - 1 THEN {TopBit} ELSE Zero)
<1> DEFINE blk == [i \in Offset |->
             Xor(IF i = at THEN Xor(x.blk[i], p) ELSE x.blk[i],
                 IF i = Rate - 1 THEN {TopBit} ELSE Zero)]
<1>1. x.blk \in Block /\ x.perm \in Seq(Block) 
  BY DEF State
<1>2. blk \in Block
  BY <1>1, XorFacts, ByteFacts DEF Block
<1>3. Pad(x, at, p) = [perm |-> x.perm, blk |-> blk]
  BY DEF Pad
<1>4. QED
  BY <1>1, <1>2, <1>3 DEF State

(***************************************************************************)
(* The padded message and the output stream of the reference.              *)
(***************************************************************************)

LEMMA NBlocksFacts ==
  ASSUME NEW m \in Seq(Byte)
  PROVE  /\ NBlocks(m) \in Nat \ {0}
         /\ BytesOf(NBlocks(m) - 1) <= Len(m)
         /\ Len(m) < BytesOf(NBlocks(m))
         /\ BytesOf(NBlocks(m)) = BytesOf(NBlocks(m) - 1) + Rate
<1>1. PICK q \in Nat : q = Len(m) \div Rate
  BY DivBounds
<1>2. BytesOf(q) <= Len(m) /\ Len(m) < BytesOf(q) + Rate
  <2>1. PICK n \in Nat : n = Len(m)
    OBVIOUS
  <2>2. BytesOf(n \div Rate) <= n /\ n < BytesOf(n \div Rate) + Rate
    BY DivBounds
  <2>3. QED
    BY <1>1, <2>1, <2>2
<1>3. NBlocks(m) = q + 1 /\ NBlocks(m) - 1 = q
  BY <1>1 DEF NBlocks
<1>4. BytesOf(q) \in Nat /\ BytesOf(q + 1) = BytesOf(q) + Rate
  BY BytesOfNat
<1>5. QED
  BY <1>2, <1>3, <1>4

\* A number of blocks that fits the message tells how many there are.
LEMMA NBlocksUnique ==
  ASSUME NEW m \in Seq(Byte), NEW n \in Nat, NEW o \in Offset, Len(m) = BytesOf(n) + o
  PROVE  NBlocks(m) = n + 1
BY DivMod DEF NBlocks

LEMMA PadByteType ==
  ASSUME NEW m \in Seq(Byte), NEW p \in Byte, NEW x \in Nat
  PROVE  PadByte(m, p, x) \in Byte
<1>1. CASE x < Len(m)
  <2>1. x + 1 \in 1 .. Len(m)
    BY <1>1
  <2>2. m[x + 1] \in Byte
    BY <2>1
  <2>3. QED
    BY <1>1, <2>2 DEF PadByte
<1>2. CASE ~(x < Len(m))
  <2>1. /\ (IF x = Len(m) THEN p ELSE Zero) \in Byte
        /\ (IF x = LastByte(m) THEN {TopBit} ELSE Zero) \in Byte
    BY ByteFacts
  <2>2. QED
    BY <1>2, <2>1, XorFacts DEF PadByte
<1>3. QED
  BY <1>1, <1>2

LEMMA PadBlockType ==
  ASSUME NEW m \in Seq(Byte), NEW p \in Byte, NEW b \in Nat \ {0}
  PROVE  PadBlock(m, p, b) \in Block
<1>1. ASSUME NEW i \in Offset
      PROVE  PadByte(m, p, BytesOf(b - 1) + i) \in Byte
  <2>1. BytesOf(b - 1) + i \in Nat
    <3>1. b - 1 \in Nat /\ i \in Nat
      BY DEF Offset
    <3>2. BytesOf(b - 1) \in Nat
      BY <3>1, BytesOfNat
    <3>3. QED
      BY <3>1, <3>2
  <2>2. QED
    BY <2>1, PadByteType
<1>2. [i \in Offset |-> PadByte(m, p, BytesOf(b - 1) + i)] \in [Offset -> Byte]
  BY <1>1, Zenon
<1>3. QED
  BY <1>2 DEF PadBlock, Block

\* Beyond the padded message there are only zeros.
LEMMA PadPastEnd ==
  ASSUME NEW m \in Seq(Byte), NEW p \in Byte, NEW n \in Nat, n >= NBlocks(m)
  PROVE  PadBlock(m, p, n + 1) = ZeroBlock
<1>1. ASSUME NEW i \in Offset
      PROVE  PadByte(m, p, BytesOf(n + 1 - 1) + i) = Zero
  <2>1. PICK nb \in Nat : nb = NBlocks(m)
    BY NBlocksFacts
  <2>2. BytesOf(nb) \in Nat /\ BytesOf(n) \in Nat /\ i \in Nat /\ n + 1 - 1 = n
    <3>1. BytesOf(nb) \in Nat /\ BytesOf(n) \in Nat
      BY BytesOfNat
    <3>2. QED
      BY <3>1 DEF Offset
  <2>3. BytesOf(nb) <= BytesOf(n)
    <3>1. CASE n = nb
      BY <2>2, <3>1
    <3>2. CASE nb < n
      <4>1. BytesOf(nb) + Rate <= BytesOf(n)
        BY <3>2, BlockOrder
      <4>2. QED
        BY <2>2, <4>1
    <3>3. QED
      BY <2>1, <3>1, <3>2
  <2>4. Len(m) < BytesOf(nb) /\ LastByte(m) = BytesOf(nb) - 1
    BY <2>1, NBlocksFacts DEF LastByte
  <2>5. BytesOf(n) + i > Len(m) /\ BytesOf(n) + i > LastByte(m) /\ LastByte(m) \in Int
    BY <2>2, <2>3, <2>4
  <2>6. Xor(Zero, Zero) = Zero
    BY XorFacts, ByteFacts
  <2>7. PadByte(m, p, BytesOf(n) + i) = Xor(Zero, Zero)
    BY <2>2, <2>5 DEF PadByte
  <2>8. QED
    BY <2>2, <2>6, <2>7
<1>2. [i \in Offset |-> PadByte(m, p, BytesOf(n + 1 - 1) + i)] = [i \in Offset |-> Zero]
  BY <1>1, Zenon
<1>3. QED
  BY <1>2 DEF PadBlock, ZeroBlock

\* Byte i of output block n - NBlocks is read after n permutations.
LEMMA StreamIndex ==
  ASSUME NEW m \in Seq(Byte), NEW p \in Byte, NEW n \in Nat, NEW i \in Offset,
         n >= NBlocks(m)
  PROVE  XofByte(m, p, BytesOf(n - NBlocks(m)) + i)
           = StreamByte(m, p, n, i)
<1>1. n - NBlocks(m) \in Nat
  BY NBlocksFacts
<1>2. PICK q \in Nat : q = n - NBlocks(m)
  BY <1>1
<1>3. (BytesOf(q) + i) \div Rate = q /\ (BytesOf(q) + i) % Rate = i
  BY DivMod
<1>4. NBlocks(m) + q = n
  BY <1>2, NBlocksFacts
<1>5. QED
  BY <1>2, <1>3, <1>4 DEF XofByte

\* A state that went through the blocks of the padded message and holds
\* nothing pending is read as the reference stream.
LEMMA OutIsStream ==
  ASSUME NEW x \in State, NEW m \in Seq(Byte), NEW p \in Byte, NEW i \in Offset,
         \A b \in 1 .. Len(x.perm) : x.perm[b] = PadBlock(m, p, b),
         x.blk[i] = Zero
  PROVE  OutByte(x, i) = StreamByte(m, p, Len(x.perm), i)
<1>1. x.perm \in Seq(Block)
  BY DEF State
<1>2. x.perm = [b \in 1 .. Len(x.perm) |-> x.perm[b]]
  BY <1>1
<1>3. [b \in 1 .. Len(x.perm) |-> x.perm[b]]
        = [b \in 1 .. Len(x.perm) |-> PadBlock(m, p, b)]
  BY Zenon
<1>4. OutByte(x, i) = [after |-> [b \in 1 .. Len(x.perm) |-> x.perm[b]], xored |-> Zero, at |-> i]
  BY <1>2, Zenon DEF OutByte
<1>5. QED
  BY <1>3, <1>4, Zenon DEF StreamByte

\* e are the bytes of the stream from index l on.
IsStream(e, l, m, p) == \A j \in 1 .. Len(e) : e[j] = XofByte(m, p, l + j - 1)

\* A piece that begins at the first byte of the stream.
LEMMA StreamZero ==
  ASSUME NEW m, NEW p, NEW o \in Seq(OutRec), IsStream(o, 0, m, p)
  PROVE  \A k \in 1 .. Len(o) : o[k] = XofByte(m, p, k - 1)
<1> TAKE k \in 1 .. Len(o)
<1>1. o[k] = XofByte(m, p, 0 + k - 1)
  BY DEF IsStream
<1>2. 0 + k - 1 = k - 1
  OBVIOUS
<1>3. QED
  BY <1>1, <1>2

\* Continuing a prefix of the stream by the bytes that come next.
LEMMA StreamCat ==
  ASSUME NEW m, NEW p, NEW o \in Seq(OutRec), NEW e \in Seq(OutRec),
         IsStream(o, 0, m, p), IsStream(e, Len(o), m, p)
  PROVE  /\ o \o e \in Seq(OutRec)
         /\ Len(o \o e) = Len(o) + Len(e)
         /\ IsStream(o \o e, 0, m, p)
<1>1. o \o e \in Seq(OutRec) /\ Len(o \o e) = Len(o) + Len(e)
  BY CatFacts
<1>2. ASSUME NEW k \in 1 .. Len(o) + Len(e)
      PROVE  (o \o e)[k] = XofByte(m, p, 0 + k - 1)
  <2>1. CASE k <= Len(o)
    BY <2>1 DEF IsStream
  <2>2. CASE k > Len(o)
    <3>1. k - Len(o) \in 1 .. Len(e) /\ Len(o) + (k - Len(o)) - 1 = 0 + k - 1
      BY <2>2
    <3>2. (o \o e)[k] = e[k - Len(o)]
      BY <2>2
    <3>3. QED
      BY <3>1, <3>2 DEF IsStream
  <2>3. QED
    BY <2>1, <2>2
<1>3. QED
  BY <1>1, <1>2 DEF IsStream

\* n bytes read from offset f of a state that went through the padded message
\* are the bytes of the stream from index l on.
LEMMA ReadIsStream ==
  ASSUME NEW x \in State, NEW m \in Seq(Byte), NEW p \in Byte,
         NEW f \in Nat, NEW n \in Nat, f + n <= Rate,
         Padded(x, m, p),
         Len(x.perm) >= NBlocks(m),
         NEW l \in Nat, l = BytesOf(Len(x.perm) - NBlocks(m)) + f
  PROVE  LET e == Read(x, f, n)
         IN  /\ e \in Seq(OutRec)
             /\ Len(e) = n
             /\ IsStream(e, l, m, p)
             /\ e = [j \in 1 .. n |-> XofByte(m, p, l + j - 1)]
<1> DEFINE e == Read(x, f, n)
<1>1. x.perm \in Seq(Block) /\ Len(x.perm) \in Nat
  BY DEF State
<1>2. \A b \in 1 .. Len(x.perm) : x.perm[b] = PadBlock(m, p, b)
  BY DEF Padded
<1>3. \A i \in Offset : x.blk[i] = Zero
  <2>1. PICK k \in Nat : k = Len(x.perm)
    BY <1>1
  <2>2. x.blk = ZeroBlock
    BY <2>1, PadPastEnd DEF Padded
  <2>3. QED
    BY <2>2 DEF ZeroBlock
<1>4. ASSUME NEW j \in 1 .. n
      PROVE  /\ OutByte(x, f + j - 1) \in OutRec
             /\ OutByte(x, f + j - 1) = XofByte(m, p, l + j - 1)
  <2>1. f + j - 1 \in Offset
    BY DEF Offset
  <2>2. OutByte(x, f + j - 1) = StreamByte(m, p, Len(x.perm), f + j - 1)
    BY <1>2, <1>3, <2>1, OutIsStream
  <2>3. XofByte(m, p, BytesOf(Len(x.perm) - NBlocks(m)) + (f + j - 1))
          = StreamByte(m, p, Len(x.perm), f + j - 1)
    BY <1>1, <2>1, StreamIndex
  <2>4. BytesOf(Len(x.perm) - NBlocks(m)) + (f + j - 1) = l + j - 1
    <3>1. Len(x.perm) - NBlocks(m) \in Int
      BY <1>1, NBlocksFacts
    <3>2. BytesOf(Len(x.perm) - NBlocks(m)) \in Int
      BY <3>1, BytesOfFacts
    <3>3. QED
      BY <3>2
  <2>5. OutByte(x, f + j - 1) \in OutRec
    <3>1. PICK i \in Offset : i = f + j - 1
      BY <2>1
    <3>2. x.blk[i] \in Byte
      BY DEF State, Block
    <3>3. OutByte(x, i) \in OutRec
      BY <1>1, <3>2 DEF OutByte, OutRec
    <3>4. QED
      BY <3>1, <3>3
  <2>6. QED
    BY <2>2, <2>3, <2>4, <2>5
<1>5. e \in [1 .. n -> OutRec] /\ \A j \in 1 .. n : e[j] = XofByte(m, p, l + j - 1)
  BY <1>4, Zenon DEF Read
<1>6. e = [j \in 1 .. n |-> XofByte(m, p, l + j - 1)]
  BY <1>4, Zenon DEF Read
<1> HIDE DEF e
<1>7. e \in Seq(OutRec) /\ Len(e) = n
  BY <1>5
<1>8. IsStream(e, l, m, p)
  BY <1>5, <1>7 DEF IsStream
<1>9. QED
  BY <1>6, <1>7, <1>8 DEF e

(***************************************************************************)
(* One iteration of each loop.                                             *)
(***************************************************************************)

LEMMA LoadedEmpty ==
  ASSUME NEW m \in Seq(Byte)
  PROVE  Loaded(ZeroState, m, 0, m)
<1>1. Len(ZeroState.perm) = 0 /\ \A i \in Offset : ZeroState.blk[i] = Zero
  BY DEF ZeroState, ZeroBlock
<1>2. BytesOf(0) = 0
  BY BytesOfNat
<1>3. QED
  BY <1>1, <1>2 DEF Loaded, Offset

\* Filling the block up and permuting.
LEMMA LoadBlock ==
  ASSUME NEW x \in State, NEW m \in Seq(Byte), NEW c \in Seq(Byte), NEW at \in Offset,
         Loaded(x, m, at, c), at + Len(c) >= Rate
  PROVE  LET y == Permute(XorInto(x, at, c, Rate - at))
         IN  /\ y \in State
             /\ SubSeq(c, Rate - at + 1, Len(c)) \in Seq(Byte)
             /\ Loaded(y, m, 0, SubSeq(c, Rate - at + 1, Len(c)))
<1> DEFINE z == XorInto(x, at, c, Rate - at)
           y == Permute(z)
           d == SubSeq(c, Rate - at + 1, Len(c))
<1> PICK n \in Nat : n = Len(x.perm)
  BY DEF State
<1>1. /\ at \in Nat /\ Rate - at \in 0 .. Len(c) /\ at + (Rate - at) <= Rate
      /\ Rate - at + 1 \in 1 .. Len(c) + 1
  BY DEF Offset
<1>2. /\ z \in State
      /\ z.perm = x.perm
      /\ \A i \in Offset : z.blk[i] = IF at <= i /\ i < at + (Rate - at)
                                     THEN Xor(x.blk[i], c[i - at + 1]) ELSE x.blk[i]
  <2>0. at \in Nat
    BY <1>1
  <2>1. PICK r \in 0 .. Len(c) : r = Rate - at
    BY <1>1
  <2>2. at + r <= Rate
    BY <1>1, <2>1
  <2>3. /\ XorInto(x, at, c, r) \in State
        /\ XorInto(x, at, c, r).perm = x.perm
        /\ \A i \in Offset : XorInto(x, at, c, r).blk[i] =
                              IF at <= i /\ i < at + r
                              THEN Xor(x.blk[i], c[i - at + 1]) ELSE x.blk[i]
    BY <2>0, <2>2, XorIntoFacts, SMTT(60)
  <2>4. QED
    BY <2>1, <2>3
<1> HIDE DEF z
<1>3. BytesOf(n) \in Nat /\ BytesOf(n + 1) = BytesOf(n) + Rate
  BY BytesOfNat
<1>4. d \in Seq(Byte) /\ Len(d) = Len(c) - (Rate - at)
  <2>1. PICK l \in 1 .. Len(c) + 1 : l = Rate - at + 1
    BY <1>1
  <2>2. SubSeq(c, l, Len(c)) \in Seq(Byte) /\ Len(SubSeq(c, l, Len(c))) = Len(c) - l + 1
    BY SuffixFacts
  <2>3. Len(c) - l + 1 = Len(c) - (Rate - at)
    BY <1>1, <2>1
  <2>4. QED
    BY <2>1, <2>2, <2>3
<1>5. \A j \in 1 .. Len(d) : d[j] = c[Rate - at + j]
  <2>1. PICK l \in 1 .. Len(c) + 1 : l = Rate - at + 1
    BY <1>1
  <2>2. \A j \in 1 .. Len(c) - l + 1 : SubSeq(c, l, Len(c))[j] = c[l - 1 + j]
    BY SuffixFacts
  <2>3. d = SubSeq(c, l, Len(c)) /\ Len(d) = Len(c) - l + 1
    BY <1>1, <1>4, <2>1
  <2> HIDE DEF d
  <2>4. \A j \in 1 .. Len(d) : d[j] = c[l - 1 + j]
    BY <2>2, <2>3
  <2>5. l - 1 = Rate - at
    BY <1>1, <2>1
  <2>6. QED
    BY <2>4, <2>5
<1>6. ASSUME NEW i \in Offset
      PROVE  z.blk[i] = m[BytesOf(n) + i + 1]
  <2>1. CASE i < at
    BY <1>2, <2>1 DEF Loaded, Offset
  <2>2. CASE at <= i
    <3>1. i - at + 1 \in 1 .. Len(c) /\ i < at + (Rate - at)
      BY <2>2 DEF Offset
    <3>2. x.blk[i] = Zero
      BY <2>2 DEF Loaded, Offset
    <3>3. z.blk[i] = Xor(Zero, c[i - at + 1])
      BY <1>2, <2>2, <3>1, <3>2
    <3>4. z.blk[i] = c[i - at + 1]
      <4>1. c[i - at + 1] \in Byte
        BY <3>1
      <4>2. QED
        BY <3>3, <4>1, XorFacts
    <3>5. c[i - at + 1] = m[BytesOf(n) + at + (i - at + 1)]
      BY <3>1 DEF Loaded
    <3>6. BytesOf(n) + at + (i - at + 1) = BytesOf(n) + i + 1
      BY <1>1, <1>3 DEF Offset
    <3>7. QED
      BY <3>4, <3>5, <3>6
  <2>3. QED
    BY <2>1, <2>2 DEF Offset
<1>7. /\ y \in State
      /\ Len(y.perm) = n + 1
      /\ \A b \in 1 .. n : y.perm[b] = x.perm[b]
      /\ y.perm[n + 1] = z.blk
      /\ \A i \in Offset : y.blk[i] = Zero
  BY <1>2, PermuteFacts, SMTT(60)
<1>8. Len(m) - Len(c) = BytesOf(n) + at
  BY DEF Loaded
<1> HIDE DEF y, d
<1>9. Len(m) - Len(d) = BytesOf(Len(y.perm)) + 0
  <2>1. BytesOf(Len(y.perm)) = BytesOf(n) + Rate
    BY <1>3, <1>7
  <2>2. PICK lm \in Int, lc \in Int, bn \in Int :
           lm = Len(m) /\ lc = Len(c) /\ bn = BytesOf(n)
    BY <1>3
  <2>3. lm - lc = bn + at
    BY <1>8, <2>2
  <2>4. lm - (lc - (Rate - at)) = bn + Rate
    BY <1>1, <2>3
  <2>5. QED
    BY <1>4, <2>1, <2>2, <2>4
<1>10. ASSUME NEW b \in 1 .. Len(y.perm), NEW i \in Offset
       PROVE  y.perm[b][i] = m[BytesOf(b - 1) + i + 1]
  <2>1. CASE b \in 1 .. n
    <3>1. y.perm[b] = x.perm[b]
      BY <1>7, <2>1
    <3>2. x.perm[b][i] = m[BytesOf(b - 1) + i + 1]
      BY <2>1 DEF Loaded
    <3>3. QED
      BY <3>1, <3>2
  <2>2. CASE b = n + 1
    <3>1. b - 1 = n
      BY <2>2
    <3>2. QED
      BY <1>6, <1>7, <2>2, <3>1
  <2>3. b \in 1 .. n \/ b = n + 1
    <3>1. Len(y.perm) = n + 1
      BY <1>7
    <3>2. QED
      BY <3>1
  <2>4. QED
    BY <2>1, <2>2, <2>3
<1>11. \A i \in Offset : y.blk[i] = IF i < 0 THEN m[BytesOf(Len(y.perm)) + i + 1] ELSE Zero
  BY <1>7 DEF Offset
<1>12. ASSUME NEW j \in 1 .. Len(d)
       PROVE  d[j] = m[BytesOf(Len(y.perm)) + 0 + j]
  <2>1. Rate - at + j \in 1 .. Len(c)
    BY <1>1, <1>4
  <2>2. c[Rate - at + j] = m[BytesOf(n) + at + (Rate - at + j)]
    BY <2>1 DEF Loaded
  <2>3. BytesOf(n) + at + (Rate - at + j) = BytesOf(Len(y.perm)) + 0 + j
    BY <1>1, <1>3, <1>4, <1>7, SMTT(60)
  <2>4. QED
    BY <1>5, <2>2, <2>3
<1>13. Loaded(y, m, 0, d)
  BY <1>9, <1>10, <1>11, <1>12 DEF Loaded
<1>14. QED
  BY <1>4, <1>7, <1>13 DEF y, d, z

\* The rest of the input, which does not fill the block.
LEMMA LoadTail ==
  ASSUME NEW x \in State, NEW m \in Seq(Byte), NEW c \in Seq(Byte), NEW at \in Offset,
         Loaded(x, m, at, c), at + Len(c) < Rate
  PROVE  LET y == XorInto(x, at, c, Len(c))
         IN  y \in State /\ Loaded(y, m, at + Len(c), <<>>)
<1> DEFINE y == XorInto(x, at, c, Len(c))
<1> PICK n \in Nat : n = Len(x.perm)
  BY DEF State
<1>1. at \in Nat /\ Len(c) \in 0 .. Len(c) /\ at + Len(c) <= Rate /\ Len(c) \in Nat
  BY DEF Offset
<1>2. /\ y \in State
      /\ y.perm = x.perm
      /\ \A i \in Offset : y.blk[i] = IF at <= i /\ i < at + Len(c)
                                     THEN Xor(x.blk[i], c[i - at + 1]) ELSE x.blk[i]
  <2>1. at \in Nat /\ Len(c) \in 0 .. Len(c) /\ at + Len(c) <= Rate
    BY <1>1
  <2>2. QED
    BY <2>1, XorIntoFacts, ZenonT(60)
<1>3. BytesOf(n) \in Nat
  BY BytesOfNat
<1> HIDE DEF y
<1>4. ASSUME NEW i \in Offset
      PROVE  y.blk[i] = IF i < at + Len(c) THEN m[BytesOf(n) + i + 1] ELSE Zero
  <2>1. CASE i < at
    BY <1>1, <1>2, <2>1 DEF Loaded, Offset
  <2>2. CASE at <= i /\ i < at + Len(c)
    <3>1. i - at + 1 \in 1 .. Len(c)
      BY <2>2 DEF Offset
    <3>2. x.blk[i] = Zero
      BY <2>2 DEF Loaded, Offset
    <3>3. c[i - at + 1] \in Byte
      BY <3>1
    <3>4. y.blk[i] = c[i - at + 1]
      BY <1>2, <2>2, <3>2, <3>3, XorFacts
    <3>5. c[i - at + 1] = m[BytesOf(n) + at + (i - at + 1)]
      BY <3>1 DEF Loaded
    <3>6. BytesOf(n) + at + (i - at + 1) = BytesOf(n) + i + 1
      BY <1>3 DEF Offset
    <3>7. QED
      BY <2>2, <3>4, <3>5, <3>6
  <2>3. CASE ~(i < at + Len(c))
    BY <1>1, <1>2, <2>3 DEF Loaded, Offset
  <2>4. QED
    BY <2>1, <2>2, <2>3 DEF Offset
<1>5. Len(m) - Len(<<>>) = BytesOf(Len(y.perm)) + (at + Len(c))
  BY <1>1, <1>2, <1>3 DEF Loaded
<1>6. \A b \in 1 .. Len(y.perm), i \in Offset : y.perm[b][i] = m[BytesOf(b - 1) + i + 1]
  BY <1>2 DEF Loaded
<1>7. \A j \in 1 .. Len(<<>>) : <<>>[j] = m[BytesOf(Len(y.perm)) + (at + Len(c)) + j]
  OBVIOUS
<1>8. Loaded(y, m, at + Len(c), <<>>)
  BY <1>2, <1>4, <1>5, <1>6, <1>7 DEF Loaded
<1>9. QED
  BY <1>2, <1>8 DEF y

\* Blocks are functions on the offsets: equal bytes, equal blocks.
LEMMA IsPadBlock ==
  ASSUME NEW g \in Block, NEW m, NEW p, NEW b,
         \A i \in Offset : g[i] = PadByte(m, p, BytesOf(b - 1) + i)
  PROVE  g = PadBlock(m, p, b)
<1>1. g = [i \in Offset |-> g[i]]
  BY DEF Block
<1>2. [i \in Offset |-> g[i]] = [i \in Offset |-> PadByte(m, p, BytesOf(b - 1) + i)]
  BY Zenon
<1>3. QED
  BY <1>1, <1>2 DEF PadBlock

\* Padding what has been loaded gives the blocks of the padded message.
LEMMA PadLoaded ==
  ASSUME NEW x \in State, NEW m \in Seq(Byte), NEW p \in Byte, NEW at \in Offset,
         Loaded(x, m, at, <<>>)
  PROVE  LET y == Pad(x, at, p)
         IN  /\ y \in State
             /\ Padded(y, m, p)
             /\ Len(y.perm) = NBlocks(m) - 1
<1> DEFINE y == Pad(x, at, p)
<1> PICK n \in Nat : n = Len(x.perm)
  BY DEF State
<1>1. /\ y \in State
      /\ y.perm = x.perm
      /\ \A i \in Offset : y.blk[i] = Xor(IF i = at THEN Xor(x.blk[i], p) ELSE x.blk[i],
                                         IF i = Rate - 1 THEN {TopBit} ELSE Zero)
  BY PadFacts
<1> HIDE DEF y
<1>2. BytesOf(n) \in Nat /\ BytesOf(n + 1) = BytesOf(n) + Rate
  BY BytesOfNat
<1>3. PICK bn \in Nat : bn = BytesOf(n)
  BY <1>2
<1>4. Len(m) = bn + at
  BY <1>3 DEF Loaded
<1>5. NBlocks(m) = n + 1
  BY <1>3, <1>4, NBlocksUnique
<1>6. LastByte(m) = bn + Rate - 1
  BY <1>2, <1>3, <1>5 DEF LastByte
<1>7. ASSUME NEW b \in 1 .. Len(y.perm)
      PROVE  y.perm[b] = PadBlock(m, p, b)
  <2>1. b \in 1 .. n /\ b - 1 \in Nat /\ b - 1 < n /\ x.perm[b] \in Block /\ y.perm[b] = x.perm[b]
    BY <1>1 DEF State
  <2>2. BytesOf(b - 1) \in Nat
    BY <2>1, BytesOfNat
  <2>3. PICK l \in Nat : l = BytesOf(b - 1)
    BY <2>2
  <2>4. l + Rate <= bn
    BY <1>3, <2>1, <2>3, BlockOrder
  <2>5. ASSUME NEW i \in Offset
        PROVE  x.perm[b][i] = PadByte(m, p, BytesOf(b - 1) + i)
    <3>1. l + i < Len(m)
      BY <1>4, <2>4 DEF Offset
    <3>2. PadByte(m, p, l + i) = m[l + i + 1]
      BY <3>1 DEF PadByte
    <3>3. x.perm[b][i] = m[l + i + 1]
      BY <2>1, <2>3 DEF Loaded
    <3>4. QED
      BY <2>3, <3>2, <3>3
  <2>6. QED
    BY <2>1, <2>5, IsPadBlock
<1>8. y.blk = PadBlock(m, p, Len(y.perm) + 1)
  <2>1. n + 1 - 1 = n /\ Len(y.perm) + 1 = n + 1 /\ y.blk \in Block
    BY <1>1 DEF State
  <2>2. ASSUME NEW i \in Offset
        PROVE  y.blk[i] = PadByte(m, p, bn + i)
    <3>1. x.blk[i] = IF i < at THEN m[bn + i + 1] ELSE Zero
      BY <1>3 DEF Loaded
    <3>2. i \in Nat /\ at \in Nat /\ at <= Rate - 1
      BY DEF Offset
    <3>3. CASE i < at
      <4>1. i # at /\ i # Rate - 1 /\ bn + i < Len(m) /\ bn + i + 1 \in 1 .. Len(m)
        BY <1>4, <3>2, <3>3
      <4>2. y.blk[i] = Xor(m[bn + i + 1], Zero)
        BY <1>1, <3>1, <3>3, <4>1
      <4>3. m[bn + i + 1] \in Byte
        BY <4>1
      <4>4. y.blk[i] = m[bn + i + 1]
        BY <4>2, <4>3, XorFacts
      <4>5. QED
        BY <4>1, <4>4 DEF PadByte
    <3>4. CASE ~(i < at)
      <4>1. /\ ~(bn + i < Len(m))
            /\ (bn + i = Len(m)) <=> (i = at)
            /\ (bn + i = LastByte(m)) <=> (i = Rate - 1)
        BY <1>4, <1>6, <3>2, <3>4
      <4>2. (IF i = at THEN Xor(x.blk[i], p) ELSE x.blk[i]) = IF i = at THEN p ELSE Zero
        BY <3>1, <3>4, XorFacts
      <4>3. y.blk[i] = Xor(IF i = at THEN p ELSE Zero, IF i = Rate - 1 THEN {TopBit} ELSE Zero)
        BY <1>1, <4>2
      <4>4. QED
        BY <4>1, <4>3 DEF PadByte
    <3>5. QED
      BY <3>3, <3>4
  <2>3. \A i \in Offset : y.blk[i] = PadByte(m, p, BytesOf(n + 1 - 1) + i)
    BY <1>3, <2>1, <2>2
  <2>4. QED
    BY <2>1, <2>3, IsPadBlock
<1>9. QED
  BY <1>1, <1>5, <1>7, <1>8 DEF Padded, y

\* A permutation takes the next block of the padded message in.
LEMMA PermutePadded ==
  ASSUME NEW x \in State, NEW m \in Seq(Byte), NEW p \in Byte,
         Padded(x, m, p), Len(x.perm) >= NBlocks(m) - 1
  PROVE  LET y == Permute(x)
         IN  /\ y \in State
             /\ Padded(y, m, p)
             /\ Len(y.perm) = Len(x.perm) + 1
             /\ Len(y.perm) >= NBlocks(m)
             /\ \A i \in Offset : y.blk[i] = Zero
<1> DEFINE y == Permute(x)
<1> PICK n \in Nat : n = Len(x.perm)
  BY DEF State
<1>1. /\ y \in State
      /\ Len(y.perm) = n + 1
      /\ \A b \in 1 .. n : y.perm[b] = x.perm[b]
      /\ y.perm[n + 1] = x.blk
      /\ \A i \in Offset : y.blk[i] = Zero
  BY PermuteFacts
<1>2. y.blk = ZeroBlock
  BY DEF Permute
<1> HIDE DEF y
<1>3. \A b \in 1 .. n : y.perm[b] = PadBlock(m, p, b)
  BY <1>1 DEF Padded
<1>4. y.perm[n + 1] = PadBlock(m, p, n + 1)
  BY <1>1 DEF Padded
<1>5. \A b \in 1 .. Len(y.perm) : y.perm[b] = PadBlock(m, p, b)
  <2>1. \A b \in 1 .. n + 1 : b \in 1 .. n \/ b = n + 1
    OBVIOUS
  <2>2. QED
    BY <1>1, <1>3, <1>4, <2>1
<1>6. n + 1 \in Nat /\ n + 1 >= NBlocks(m)
  BY NBlocksFacts
<1>7. PadBlock(m, p, Len(y.perm) + 1) = ZeroBlock
  BY <1>1, <1>6, PadPastEnd
<1>8. QED
  BY <1>1, <1>2, <1>5, <1>6, <1>7 DEF Padded, y

(***************************************************************************)
(* The inductive invariant, action by action.                              *)
(***************************************************************************)

USE ChunkAssumption, SepsAssumption, BoundAssumption, HashAssumption, GarbageAssumption

LEMMA OutputStream == OutputInv <=> IsStream(out, 0, msg, sep)
<1>1. \A k \in 1 .. Len(out) : 0 + k - 1 = k - 1
  OBVIOUS
<1>2. QED
  BY <1>1 DEF OutputInv, IsStream

LEMMA InitInv == Init => IInv
<1> SUFFICES ASSUME Init PROVE IInv
  OBVIOUS
<1>1. TypeOK
  <2>1. s \in State
    <3>1. PICK g \in Block : s = [perm |-> <<>>, blk |-> g]
      BY DEF Init
    <3>2. QED
      BY <3>1 DEF State
  <2>2. <<>> \in Seq(Byte) /\ <<>> \in Seq(OutRec)
    OBVIOUS
  <2>3. QED
    BY <2>1, <2>2 DEF Init, TypeOK, Seps
<1>2. AbsorbInv /\ SqueezeInv /\ OutputInv /\ CallInv
  BY DEF Init, AbsorbInv, SqueezeInv, OutputInv, CallInv
<1>3. QED
  BY <1>1, <1>2 DEF IInv

LEMMA ShakeInitInv == IInv /\ ShakeInit => IInv'
<1> SUFFICES ASSUME IInv, ShakeInit PROVE IInv'
  OBVIOUS
<1> USE DEF IInv, ShakeInit
<1>1. TypeOK'
  BY ZeroStateType DEF TypeOK
<1>2. AbsorbInv'
  <2>1. in' = <<>> /\ call' = "none" /\ msg' = <<>> /\ s' = ZeroState /\ pos' = 0
    BY DEF CallInv
  <2>2. Loaded(ZeroState, <<>>, 0, <<>>)
    <3>1. <<>> \in Seq(Byte)
      OBVIOUS
    <3>2. QED
      BY <3>1, LoadedEmpty
  <2>3. QED
    BY <2>1, <2>2 DEF AbsorbInv, Cursor
<1>3. SqueezeInv' /\ OutputInv' /\ CallInv'
  BY DEF SqueezeInv, OutputInv, CallInv
<1>4. QED
  BY <1>1, <1>2, <1>3

\* More of the message is passed in: what is loaded is what was.
LEMMA LoadedMore ==
  ASSUME NEW x \in State, NEW m \in Seq(Byte), NEW c \in Seq(Byte), NEW at \in Offset,
         Loaded(x, m, at, <<>>)
  PROVE  Loaded(x, m \o c, at, c)
<1>1. /\ at \in Nat /\ Len(m) \in Nat /\ Len(c) \in Nat
      /\ m \o c \in Seq(Byte) /\ Len(m \o c) = Len(m) + Len(c)
  BY CatFacts DEF Offset
<1> PICK n \in Nat : n = Len(x.perm)
  <2>1. x.perm \in Seq(Block)
    BY DEF State
  <2>2. QED
    BY <2>1
<1> PICK bn \in Nat : bn = BytesOf(n)
  BY BytesOfNat
<1>2. n = Len(x.perm) /\ bn = BytesOf(n)
  OBVIOUS
<1>3. Len(m) = bn + at
  BY <1>1, <1>2 DEF Loaded
<1>4. \A k \in 1 .. Len(m) : (m \o c)[k] = m[k]
  BY <1>1
<1>5. Len(m \o c) - Len(c) = BytesOf(Len(x.perm)) + at
  BY <1>1, <1>2, <1>3
<1>6. ASSUME NEW b \in 1 .. Len(x.perm), NEW i \in Offset
      PROVE  x.perm[b][i] = (m \o c)[BytesOf(b - 1) + i + 1]
  <2>1. b - 1 \in Nat /\ b - 1 < n
    BY <1>2
  <2>2. PICK l \in Nat : l = BytesOf(b - 1)
    BY <2>1, BytesOfNat
  <2>3. l + Rate <= bn
    BY <1>2, <2>1, <2>2, BlockOrder
  <2>4. l + i + 1 \in 1 .. Len(m)
    BY <1>1, <1>3, <2>3 DEF Offset
  <2>5. x.perm[b][i] = m[l + i + 1]
    BY <1>1, <2>2 DEF Loaded
  <2>6. QED
    BY <1>4, <2>2, <2>4, <2>5
<1>7. ASSUME NEW i \in Offset
      PROVE  x.blk[i] = IF i < at THEN (m \o c)[BytesOf(Len(x.perm)) + i + 1] ELSE Zero
  <2>1. CASE i < at
    <3>1. bn + i + 1 \in 1 .. Len(m)
      <4>1. i \in Nat /\ at \in Nat
        BY <1>1 DEF Offset
      <4>2. PICK lm \in Nat : lm = Len(m)
        BY <1>1
      <4>3. lm = bn + at
        BY <1>3, <4>2
      <4>4. bn + i + 1 \in 1 .. lm
        BY <2>1, <4>1, <4>3
      <4>5. QED
        BY <4>2, <4>4
    <3>2. x.blk[i] = m[bn + i + 1]
      <4>1. x.blk[i] = IF i < at THEN m[BytesOf(Len(x.perm)) + i + 1] ELSE Zero
        BY <1>1 DEF Loaded
      <4>2. QED
        BY <1>2, <2>1, <4>1
    <3>3. QED
      BY <1>2, <1>4, <2>1, <3>1, <3>2
  <2>2. CASE ~(i < at)
    BY <1>1, <2>2 DEF Loaded
  <2>3. QED
    BY <2>1, <2>2
<1>8. ASSUME NEW j \in 1 .. Len(c)
      PROVE  c[j] = (m \o c)[BytesOf(Len(x.perm)) + at + j]
  <2>1. (m \o c)[Len(m) + j] = c[j]
    BY <1>1
  <2>2. QED
    BY <1>2, <1>3, <2>1
<1>. QED
  BY <1>5, <1>6, <1>7, <1>8 DEF Loaded

LEMMA AbsorbCallInv ==
  ASSUME NEW c \in Chunk
  PROVE  IInv /\ AbsorbCall(c) => IInv'
<1> SUFFICES ASSUME IInv, AbsorbCall(c) PROVE IInv'
  OBVIOUS
<1> USE DEF IInv, AbsorbCall
<1>1. c \in Seq(Byte) /\ msg \in Seq(Byte) /\ in = <<>> /\ pos \in Nat
  BY DEF TypeOK, CallInv
<1>2. msg \o c \in Seq(Byte) /\ Len(msg \o c) = Len(msg) + Len(c)
  BY <1>1, CatFacts
<1>3. TypeOK'
  BY <1>1, <1>2 DEF TypeOK
<1>4. AbsorbInv'
  <2>1. Loaded(s, msg, pos, <<>>) /\ pos < Rate
    BY <1>1 DEF AbsorbInv, Cursor
  <2>2. s \in State /\ pos \in Offset
    BY <1>1, <2>1 DEF TypeOK, Offset
  <2>3. Loaded(s, msg \o c, pos, c)
    BY <1>1, <2>1, <2>2, LoadedMore
  <2>4. QED
    BY <2>1, <2>3 DEF AbsorbInv, Cursor
<1>5. SqueezeInv' /\ OutputInv' /\ CallInv'
  BY DEF SqueezeInv, OutputInv, CallInv
<1>6. QED
  BY <1>3, <1>4, <1>5

LEMMA AbsorbBlockInv == IInv /\ AbsorbBlock => IInv'
<1> SUFFICES ASSUME IInv, AbsorbBlock PROVE IInv'
  OBVIOUS
<1> USE DEF IInv, AbsorbBlock
<1>1. mode = "absorb" /\ Cursor = pos /\ pos \in Offset /\ Loaded(s, msg, pos, in)
  BY DEF CallInv, AbsorbInv, Cursor, TypeOK, Offset
<1>2. s \in State /\ msg \in Seq(Byte) /\ in \in Seq(Byte)
  BY DEF TypeOK
<1>3. s' \in State /\ in' \in Seq(Byte) /\ Loaded(s', msg, 0, in')
  BY <1>1, <1>2, LoadBlock
<1>4. TypeOK'
  BY <1>3 DEF TypeOK
<1>5. AbsorbInv'
  BY <1>3 DEF AbsorbInv, Cursor
<1>6. SqueezeInv' /\ OutputInv' /\ CallInv'
  BY <1>1 DEF SqueezeInv, OutputInv, CallInv
<1>7. QED
  BY <1>4, <1>5, <1>6

LEMMA AbsorbTailInv == IInv /\ AbsorbTail => IInv'
<1> SUFFICES ASSUME IInv, AbsorbTail PROVE IInv'
  OBVIOUS
<1> USE DEF IInv, AbsorbTail
<1>1. mode = "absorb" /\ Cursor = pos /\ pos \in Offset /\ Loaded(s, msg, pos, in)
  BY DEF CallInv, AbsorbInv, Cursor, TypeOK, Offset
<1>2. s \in State /\ msg \in Seq(Byte) /\ in \in Seq(Byte)
  BY DEF TypeOK
<1>3. s' \in State /\ Loaded(s', msg, pos', in')
  BY <1>1, <1>2, LoadTail
<1>4. pos' \in 0 .. Rate /\ pos' < Rate
  BY <1>1, <1>2 DEF Offset
<1>5. TypeOK'
  BY <1>3, <1>4 DEF TypeOK
<1>6. AbsorbInv'
  BY <1>3, <1>4 DEF AbsorbInv, Cursor
<1>7. SqueezeInv' /\ OutputInv' /\ CallInv'
  BY <1>1 DEF SqueezeInv, OutputInv, CallInv
<1>8. QED
  BY <1>5, <1>6, <1>7

\* Padding, from the incremental and from the one-shot absorption alike.
LEMMA FinalizeInv == IInv /\ Finalize => IInv'
<1> SUFFICES ASSUME IInv, Finalize PROVE IInv'
  OBVIOUS
<1> USE DEF IInv, Finalize
<1>1. in = <<>> /\ out = <<>> /\ pos \in Offset /\ Loaded(s, msg, pos, <<>>)
  BY DEF CallInv, AbsorbInv, Cursor, TypeOK, Offset
<1>2. s \in State /\ msg \in Seq(Byte) /\ ShakeSep \in Byte /\ ShakeSep \in Seps
  BY DEF TypeOK, Seps
<1>3. s' \in State /\ Padded(s', msg, sep') /\ Len(s'.perm) = NBlocks(msg) - 1
  BY <1>1, <1>2, PadLoaded
<1>4. TypeOK'
  BY <1>2, <1>3 DEF TypeOK
<1>5. SqueezeInv'
  <2>1. NBlocks(msg) \in Nat
    BY <1>2, NBlocksFacts
  <2>2. Len(s'.perm) - NBlocks(msg) = 0 - 1
    BY <1>3, <2>1
  <2>3. BytesOf(0 - 1) = 0 - Rate
    BY BytesOfFacts
  <2>4. Len(out') = BytesOf(Len(s'.perm) - NBlocks(msg)) + pos'
    BY <1>1, <2>2, <2>3
  <2>5. QED
    BY <1>3, <2>4 DEF SqueezeInv
<1>6. AbsorbInv' /\ OutputInv' /\ CallInv'
  BY <1>1 DEF AbsorbInv, OutputInv, CallInv
<1>7. QED
  BY <1>4, <1>5, <1>6

LEMMA OnceCallInv ==
  ASSUME NEW c \in Chunk, NEW p \in Seps, NEW n \in {NoWant} \cup (0 .. MaxOut)
  PROVE  IInv /\ OnceCall(c, p, n) => IInv'
<1> SUFFICES ASSUME IInv, OnceCall(c, p, n) PROVE IInv'
  OBVIOUS
<1> USE DEF IInv, OnceCall
<1>1. c \in Seq(Byte)
  OBVIOUS
<1>2. TypeOK'
  BY <1>1, ZeroStateType DEF TypeOK
<1>3. AbsorbInv'
  <2>1. Loaded(ZeroState, c, 0, c)
    BY <1>1, LoadedEmpty
  <2>2. QED
    BY <2>1 DEF AbsorbInv, Cursor
<1>4. SqueezeInv' /\ OutputInv' /\ CallInv'
  BY DEF SqueezeInv, OutputInv, CallInv
<1>5. QED
  BY <1>2, <1>3, <1>4

LEMMA OnceBlockInv == IInv /\ OnceBlock => IInv'
<1> SUFFICES ASSUME IInv, OnceBlock PROVE IInv'
  OBVIOUS
<1> USE DEF IInv, OnceBlock
<1>1. mode = "absorb" /\ Cursor = 0 /\ 0 \in Offset /\ Loaded(s, msg, 0, in)
  BY DEF CallInv, AbsorbInv, Cursor, Offset
<1>2. s \in State /\ msg \in Seq(Byte) /\ in \in Seq(Byte) /\ 0 + Len(in) >= Rate
  BY DEF TypeOK
<1>3. Rate - 0 = Rate
  OBVIOUS
<1>4. s' \in State /\ in' \in Seq(Byte) /\ Loaded(s', msg, 0, in')
  BY <1>1, <1>2, <1>3, LoadBlock
<1>5. TypeOK'
  BY <1>4 DEF TypeOK
<1>6. AbsorbInv'
  BY <1>4 DEF AbsorbInv, Cursor
<1>7. SqueezeInv' /\ OutputInv' /\ CallInv'
  BY <1>1 DEF SqueezeInv, OutputInv, CallInv
<1>8. QED
  BY <1>5, <1>6, <1>7

LEMMA OncePadInv == IInv /\ OncePad => IInv'
<1> SUFFICES ASSUME IInv, OncePad PROVE IInv'
  OBVIOUS
<1> USE DEF IInv, OncePad
<1> DEFINE x == XorInto(s, 0, in, Len(in))
<1>1. mode = "absorb" /\ Cursor = 0 /\ 0 \in Offset /\ Loaded(s, msg, 0, in) /\ out = <<>>
  BY DEF CallInv, AbsorbInv, Cursor, Offset
<1>2. s \in State /\ msg \in Seq(Byte) /\ in \in Seq(Byte) /\ sep \in Byte /\ 0 + Len(in) < Rate
  BY DEF TypeOK
<1>3. x \in State /\ Loaded(x, msg, 0 + Len(in), <<>>)
  BY <1>1, <1>2, LoadTail
<1>4. 0 + Len(in) = Len(in) /\ Len(in) \in Offset
  BY <1>2 DEF Offset
<1>5. s' = Pad(x, Len(in), sep)
  OBVIOUS
<1> HIDE DEF x
<1>6. s' \in State /\ Padded(s', msg, sep') /\ Len(s'.perm) = NBlocks(msg) - 1
  BY <1>2, <1>3, <1>4, <1>5, PadLoaded
<1>7. outlen' \in Nat /\ pos' \in 0 .. Rate /\ <<>> \in Seq(Byte)
  <2>1. want # NoWant => want \in Nat
    BY DEF TypeOK
  <2>2. want # NoWant => want \div Rate \in Nat
    BY <2>1, DivBounds
  <2>3. QED
    BY <2>2 DEF TypeOK
<1>8. TypeOK'
  BY <1>6, <1>7 DEF TypeOK
<1>9. SqueezeInv'
  <2>1. NBlocks(msg) \in Nat
    BY <1>2, NBlocksFacts
  <2>2. Len(s'.perm) - NBlocks(msg) = 0 - 1
    BY <1>6, <2>1
  <2>3. BytesOf(0 - 1) = 0 - Rate
    BY BytesOfFacts
  <2>4. Len(out') = BytesOf(Len(s'.perm) - NBlocks(msg)) + pos'
    BY <1>1, <2>2, <2>3
  <2>5. QED
    BY <1>6, <2>4 DEF SqueezeInv
<1>10. AbsorbInv' /\ OutputInv'
  BY <1>1 DEF AbsorbInv, OutputInv
<1>11. CallInv'
  <2>1. want # NoWant => want \in Nat
    BY DEF TypeOK
  <2>2. call' = "blocks" => 0 + BytesOf(outlen') = BytesOf(want \div Rate)
    <3>1. ASSUME want # NoWant
          PROVE  BytesOf(want \div Rate) \in Nat
      BY <2>1, <3>1, DivBounds, BytesOfNat
    <3>2. QED
      BY <3>1
  <2>3. QED
    BY <1>1, <2>2 DEF CallInv
<1>12. QED
  BY <1>8, <1>9, <1>10, <1>11

\* What the history of an object is made of, whichever code filled it.
History == msg \in Seq(Byte) /\ sep \in Byte /\ out \in Seq(OutRec) /\ OutputInv

LEMMA HasHistory == IInv => History
BY DEF IInv, TypeOK, History

\* Reading the lanes at offset f, where the output so far ends.
LEMMA ReadNext ==
  ASSUME History, NEW x \in State, NEW f \in Nat, NEW n \in Nat, f + n <= Rate,
         Padded(x, msg, sep), Len(x.perm) >= NBlocks(msg),
         Len(out) = BytesOf(Len(x.perm) - NBlocks(msg)) + f
  PROVE  LET o == out \o Read(x, f, n)
         IN  /\ o \in Seq(OutRec)
             /\ Len(o) = Len(out) + n
             /\ Len(o) = BytesOf(Len(x.perm) - NBlocks(msg)) + (f + n)
             /\ IsStream(o, 0, msg, sep)
             /\ o = out \o [j \in 1 .. n |-> XofByte(msg, sep, Len(out) + j - 1)]
<1>1. msg \in Seq(Byte) /\ sep \in Byte /\ out \in Seq(OutRec) /\ Len(out) \in Nat
  BY DEF History
<1>2. PICK e \in Seq(OutRec) :
        /\ e = Read(x, f, n)
        /\ Len(e) = n
        /\ IsStream(e, Len(out), msg, sep)
        /\ e = [j \in 1 .. n |-> XofByte(msg, sep, Len(out) + j - 1)]
  <2>1. PICK l \in Nat : l = Len(out) /\ l = BytesOf(Len(x.perm) - NBlocks(msg)) + f
    BY <1>1
  <2>2. /\ Read(x, f, n) \in Seq(OutRec)
        /\ Len(Read(x, f, n)) = n
        /\ IsStream(Read(x, f, n), l, msg, sep)
        /\ Read(x, f, n) = [j \in 1 .. n |-> XofByte(msg, sep, l + j - 1)]
    BY <1>1, <2>1, ReadIsStream
  <2>3. QED
    BY <2>1, <2>2
<1>3. IsStream(out, 0, msg, sep)
  BY OutputStream DEF History
<1>4. /\ out \o e \in Seq(OutRec)
      /\ Len(out \o e) = Len(out) + Len(e)
      /\ IsStream(out \o e, 0, msg, sep)
  BY <1>1, <1>2, <1>3, StreamCat
<1>5. Len(out) + n = BytesOf(Len(x.perm) - NBlocks(msg)) + (f + n)
  <2>1. PICK b \in Int : b = BytesOf(Len(x.perm) - NBlocks(msg))
    <3>1. Len(x.perm) - NBlocks(msg) \in Int
      BY <1>1, NBlocksFacts DEF State
    <3>2. QED
      BY <3>1, BytesOfFacts
  <2>2. QED
    BY <2>1
<1>6. QED
  BY <1>2, <1>4, <1>5

\* The lanes after the permutation at the end of a block.
LEMMA PermutedLanes ==
  ASSUME History, NEW x \in State, Padded(x, msg, sep), Len(x.perm) >= NBlocks(msg) - 1,
         Len(out) = BytesOf(Len(x.perm) - NBlocks(msg)) + Rate
  PROVE  /\ Permute(x) \in State
         /\ Padded(Permute(x), msg, sep)
         /\ Len(Permute(x).perm) >= NBlocks(msg)
         /\ Len(out) = BytesOf(Len(Permute(x).perm) - NBlocks(msg)) + 0
<1>1. msg \in Seq(Byte) /\ sep \in Byte
  BY DEF History
<1>2. PICK k \in Nat, nb \in Nat : k = Len(x.perm) /\ nb = NBlocks(msg)
  BY <1>1, NBlocksFacts DEF State
<1>3. Padded(x, msg, sep) /\ k >= nb - 1 /\ Len(out) = BytesOf(k - nb) + Rate
  BY <1>2
<1>4. /\ Permute(x) \in State
      /\ Padded(Permute(x), msg, sep)
      /\ Len(Permute(x).perm) = k + 1
      /\ Len(Permute(x).perm) >= NBlocks(msg)
  BY <1>1, <1>2, <1>3, PermutePadded
<1>5. BytesOf(k - nb + 1) = BytesOf(k - nb) + Rate /\ BytesOf(k - nb) \in Int
  <2>1. PICK d \in Int : d = k - nb
    OBVIOUS
  <2>2. BytesOf(d + 1) = BytesOf(d) + Rate /\ BytesOf(d) \in Int
    BY BytesOfFacts
  <2>3. QED
    BY <2>1, <2>2
<1>6. Len(Permute(x).perm) - NBlocks(msg) = k - nb + 1
  BY <1>2, <1>4
<1>7. QED
  BY <1>3, <1>4, <1>5, <1>6

LEMMA NextLanes ==
  ASSUME IInv, mode = "squeeze", pos = Rate
  PROVE  /\ Permute(s) \in State
         /\ Padded(Permute(s), msg, sep)
         /\ Len(Permute(s).perm) >= NBlocks(msg)
         /\ Len(out) = BytesOf(Len(Permute(s).perm) - NBlocks(msg)) + 0
<1>1. s \in State /\ NBlocks(msg) \in Nat /\ Len(s.perm) \in Nat
  BY NBlocksFacts DEF IInv, TypeOK, State
<1>2. Padded(s, msg, sep) /\ Len(s.perm) >= NBlocks(msg) - 1
      /\ Len(out) = BytesOf(Len(s.perm) - NBlocks(msg)) + Rate
  BY <1>1 DEF IInv, SqueezeInv
<1>. QED
  BY <1>1, <1>2, HasHistory, PermutedLanes

LEMMA HashOutInv == IInv /\ HashOut => IInv'
<1> SUFFICES ASSUME IInv, HashOut PROVE IInv'
  OBVIOUS
<1> USE DEF IInv, HashOut
<1>1. mode = "squeeze" /\ pos = Rate /\ in = <<>> /\ want = NoWant
  BY DEF CallInv
<1>2. /\ s' \in State /\ Padded(s', msg, sep) /\ Len(s'.perm) >= NBlocks(msg)
      /\ Len(out) = BytesOf(Len(s'.perm) - NBlocks(msg)) + 0
  BY <1>1, NextLanes
<1>3. HashLen \in Nat /\ 0 + HashLen <= Rate
  OBVIOUS
<1>4. out' \in Seq(OutRec) /\ IsStream(out', 0, msg, sep)
  BY <1>2, <1>3, ReadNext, HasHistory
<1>5. TypeOK'
  BY <1>2, <1>4 DEF TypeOK
<1>6. OutputInv'
  <2>1. msg' = msg /\ sep' = sep
    OBVIOUS
  <2>2. \A k \in 1 .. Len(out') : out'[k] = XofByte(msg, sep, k - 1)
    BY <1>4, StreamZero, Zenon
  <2>3. QED
    BY <2>1, <2>2, Zenon DEF OutputInv
<1>7. AbsorbInv' /\ SqueezeInv' /\ CallInv'
  BY <1>1 DEF AbsorbInv, SqueezeInv, CallInv
<1>8. QED
  BY <1>5, <1>6, <1>7

LEMMA SqueezeCallInv ==
  ASSUME NEW n \in 0 .. MaxOut
  PROVE  IInv /\ SqueezeCall(n) => IInv'
<1> SUFFICES ASSUME IInv, SqueezeCall(n) PROVE IInv'
  OBVIOUS
<1> USE DEF IInv, SqueezeCall
<1>1. TypeOK' /\ AbsorbInv' /\ SqueezeInv' /\ OutputInv'
  BY DEF TypeOK, AbsorbInv, SqueezeInv, OutputInv
<1>2. CallInv'
  BY DEF CallInv
<1>3. QED
  BY <1>1, <1>2

LEMMA SqueezeStepInv == IInv /\ SqueezeStep => IInv'
<1> SUFFICES ASSUME IInv, SqueezeStep PROVE IInv'
  OBVIOUS
<1> DEFINE f == IF pos = Rate THEN 0 ELSE pos
           n == IF Rate - f < outlen THEN Rate - f ELSE outlen
<1>1. /\ call = "squeeze" /\ mode = "squeeze" /\ in = <<>>
      /\ outlen \in Nat /\ outlen > 0 /\ pos \in 0 .. Rate
  BY DEF IInv, CallInv, TypeOK, SqueezeStep
<1>2. f \in Nat /\ n \in Nat /\ f + n <= Rate /\ n <= outlen
  BY <1>1
<1>3. /\ s' \in State /\ Padded(s', msg, sep) /\ Len(s'.perm) >= NBlocks(msg)
      /\ Len(out) = BytesOf(Len(s'.perm) - NBlocks(msg)) + f
  <2>1. CASE pos = Rate
    BY <1>1, <2>1, NextLanes DEF SqueezeStep
  <2>2. CASE pos # Rate
    BY <1>1, <2>2 DEF SqueezeStep, IInv, TypeOK, SqueezeInv
  <2>3. QED
    BY <2>1, <2>2
<1>4. out' = out \o Read(s', f, n) /\ pos' = f + n /\ outlen' = outlen - n
  BY DEF SqueezeStep
<1> HIDE DEF f, n
<1>5. /\ out' \in Seq(OutRec)
      /\ Len(out') = Len(out) + n
      /\ Len(out') = BytesOf(Len(s'.perm) - NBlocks(msg)) + pos'
      /\ IsStream(out', 0, msg, sep)
  BY <1>2, <1>3, <1>4, ReadNext, HasHistory
<1>6. pos' \in 0 .. Rate /\ outlen' \in Nat
  BY <1>1, <1>2, <1>4
<1>7. TypeOK'
  BY <1>3, <1>5, <1>6 DEF TypeOK, IInv, SqueezeStep
<1>8. AbsorbInv'
  BY <1>1 DEF AbsorbInv, SqueezeStep
<1>9. SqueezeInv'
  BY <1>3, <1>5 DEF SqueezeInv, SqueezeStep
<1>10. OutputInv'
  BY <1>5 DEF OutputInv, IsStream, SqueezeStep
<1>11. CallInv'
  <2>1. Len(out') + outlen' = Len(out) + outlen
    BY <1>1, <1>2, <1>4, <1>5 DEF IInv, TypeOK
  <2>2. QED
    BY <1>1, <2>1 DEF CallInv, IInv, SqueezeStep
<1>12. QED
  BY <1>7, <1>8, <1>9, <1>10, <1>11 DEF IInv

LEMMA SqueezeReturnInv == IInv /\ SqueezeReturn => IInv'
<1> SUFFICES ASSUME IInv, SqueezeReturn PROVE IInv'
  OBVIOUS
<1> USE DEF IInv, SqueezeReturn
<1>1. mode = "squeeze" /\ in = <<>>
  BY DEF CallInv
<1>2. TypeOK' /\ AbsorbInv' /\ SqueezeInv' /\ OutputInv'
  BY <1>1 DEF TypeOK, AbsorbInv, SqueezeInv, OutputInv
<1>3. CallInv'
  BY <1>1 DEF CallInv
<1>4. QED
  BY <1>2, <1>3

LEMMA BlocksCallInv ==
  ASSUME NEW n \in 0 .. MaxOut
  PROVE  IInv /\ BlocksCall(n) => IInv'
<1> SUFFICES ASSUME IInv, BlocksCall(n) PROVE IInv'
  OBVIOUS
<1> USE DEF IInv, BlocksCall
<1>1. TypeOK' /\ AbsorbInv' /\ SqueezeInv' /\ OutputInv'
  BY DEF TypeOK, AbsorbInv, SqueezeInv, OutputInv
<1>2. CallInv'
  BY DEF CallInv
<1>3. QED
  BY <1>1, <1>2

LEMMA BlocksStepInv == IInv /\ BlocksStep => IInv'
<1> SUFFICES ASSUME IInv, BlocksStep PROVE IInv'
  OBVIOUS
<1> USE DEF BlocksStep
<1>1. /\ mode = "squeeze" /\ in = <<>> /\ pos = Rate
      /\ outlen \in Nat /\ outlen - 1 \in Nat
  BY DEF IInv, CallInv, TypeOK
<1>2. /\ s' \in State /\ Padded(s', msg, sep) /\ Len(s'.perm) >= NBlocks(msg)
      /\ Len(out) = BytesOf(Len(s'.perm) - NBlocks(msg)) + 0
  BY <1>1, NextLanes
<1>3. Rate \in Nat /\ 0 + Rate <= Rate /\ 0 + Rate = pos'
  BY <1>1
<1>4. /\ out' \in Seq(OutRec)
      /\ Len(out') = Len(out) + Rate
      /\ Len(out') = BytesOf(Len(s'.perm) - NBlocks(msg)) + pos'
      /\ IsStream(out', 0, msg, sep)
  <2>1. TypeOK /\ OutputInv /\ 0 \in Nat /\ Rate \in Nat /\ out' = out \o Read(s', 0, Rate)
    BY DEF IInv
  <2>2. PICK n \in Nat : n = Rate /\ 0 + n <= Rate
    BY <1>3
  <2>3. PICK x \in State : x = s'
    BY <1>2
  <2>4. Padded(x, msg, sep) /\ Len(x.perm) >= NBlocks(msg)
        /\ Len(out) = BytesOf(Len(x.perm) - NBlocks(msg)) + 0
    BY <1>2, <2>3
  <2>5. /\ out \o Read(x, 0, n) \in Seq(OutRec)
        /\ Len(out \o Read(x, 0, n)) = Len(out) + n
        /\ Len(out \o Read(x, 0, n)) = BytesOf(Len(x.perm) - NBlocks(msg)) + (0 + n)
        /\ IsStream(out \o Read(x, 0, n), 0, msg, sep)
    BY <2>1, <2>2, <2>4, ReadNext, HasHistory
  <2>6. out' = out \o Read(x, 0, n)
    BY <2>1, <2>2, <2>3
  <2>7. /\ out' \in Seq(OutRec)
        /\ Len(out') = Len(out) + Rate
        /\ Len(out') = BytesOf(Len(s'.perm) - NBlocks(msg)) + (0 + Rate)
        /\ IsStream(out', 0, msg, sep)
    BY <2>2, <2>3, <2>5, <2>6
  <2>8. QED
    BY <1>3, <2>7
<1>5. TypeOK'
  BY <1>1, <1>2, <1>4 DEF TypeOK, IInv
<1>6. AbsorbInv'
  BY <1>1 DEF AbsorbInv
<1>7. SqueezeInv'
  BY <1>2, <1>4 DEF SqueezeInv
<1>8. OutputInv'
  <2>1. msg' = msg /\ sep' = sep
    OBVIOUS
  <2>2. \A k \in 1 .. Len(out') : out'[k] = XofByte(msg, sep, k - 1)
    BY <1>4, StreamZero, Zenon
  <2>3. QED
    BY <2>1, <2>2, Zenon DEF OutputInv
<1>9. CallInv'
  <2>1. BytesOf(outlen) \in Nat /\ BytesOf(outlen - 1) = BytesOf(outlen) - Rate
    <3>1. PICK l \in Nat : l = outlen
      BY <1>1
    <3>2. BytesOf(l) \in Nat
      BY BytesOfNat
    <3>3. BytesOf(l - 1) = BytesOf(l) - Rate
      BY BytesOfFacts
    <3>4. QED
      BY <3>1, <3>2, <3>3
  <2>2. Len(out') + BytesOf(outlen') = Len(out) + BytesOf(outlen)
    <3>1. PICK bo \in Nat, lo \in Nat : bo = BytesOf(outlen) /\ lo = Len(out)
      BY <2>1 DEF IInv, TypeOK
    <3>2. Len(out') = lo + Rate /\ BytesOf(outlen') = bo - Rate
      BY <1>4, <2>1, <3>1
    <3>3. QED
      BY <3>1, <3>2
  <2>3. QED
    BY <1>1, <2>2 DEF CallInv, IInv
<1>10. QED
  BY <1>5, <1>6, <1>7, <1>8, <1>9 DEF IInv

LEMMA BlocksReturnInv == IInv /\ BlocksReturn => IInv'
<1> SUFFICES ASSUME IInv, BlocksReturn PROVE IInv'
  OBVIOUS
<1> USE DEF BlocksReturn
<1>1. mode = "squeeze" /\ in = <<>> /\ outlen = 0
  BY DEF IInv, CallInv
<1>2. ASSUME want # NoWant
      PROVE  /\ want - BytesOf(want \div Rate) \in Nat
             /\ Len(out) + (want - BytesOf(want \div Rate)) = want
  <2>1. want \in Nat
    BY <1>2 DEF IInv, TypeOK
  <2>2. PICK b \in Nat : b = BytesOf(want \div Rate) /\ b <= want
    BY <2>1, DivBounds, BytesOfNat
  <2>3. BytesOf(0) = 0
    BY BytesOfNat
  <2>4. Len(out) = b
    <3>1. Len(out) + BytesOf(0) = b
      BY <1>1, <1>2, <2>2 DEF IInv, CallInv
    <3>2. QED
      BY <2>3, <3>1 DEF IInv, TypeOK
  <2>5. QED
    BY <2>1, <2>2, <2>4
<1>3. TypeOK'
  BY <1>2 DEF IInv, TypeOK
<1>4. AbsorbInv' /\ SqueezeInv' /\ OutputInv'
  BY <1>1 DEF IInv, AbsorbInv, SqueezeInv, OutputInv
<1>5. CallInv'
  BY <1>1, <1>2 DEF IInv, CallInv
<1>6. QED
  BY <1>3, <1>4, <1>5 DEF IInv

LEMMA NextInv == IInv /\ [Next]_vars => IInv'
<1> SUFFICES ASSUME IInv, [Next]_vars PROVE IInv'
  OBVIOUS
<1>1. CASE ShakeInit
  BY <1>1, ShakeInitInv
<1>2. ASSUME NEW c \in Chunk, AbsorbCall(c) PROVE IInv'
  BY <1>2, AbsorbCallInv
<1>3. CASE Finalize
  BY <1>3, FinalizeInv
<1>4. ASSUME NEW c \in Chunk, NEW p \in Seps, NEW n \in {NoWant} \cup (0 .. MaxOut),
             OnceCall(c, p, n)
      PROVE  IInv'
  BY <1>4, OnceCallInv
<1>5. ASSUME NEW n \in 0 .. MaxOut, SqueezeCall(n) PROVE IInv'
  BY <1>5, SqueezeCallInv
<1>6. ASSUME NEW n \in 0 .. MaxOut, BlocksCall(n) PROVE IInv'
  BY <1>6, BlocksCallInv
<1>7. CASE Step
  BY <1>7, AbsorbBlockInv, AbsorbTailInv, OnceBlockInv, OncePadInv, HashOutInv,
     SqueezeStepInv, SqueezeReturnInv, BlocksStepInv, BlocksReturnInv DEF Step
<1>8. CASE UNCHANGED vars
  BY <1>8 DEF vars, IInv, TypeOK, AbsorbInv, Cursor, SqueezeInv, OutputInv, CallInv
<1>9. QED
  BY <1>1, <1>2, <1>3, <1>4, <1>5, <1>6, <1>7, <1>8 DEF Next, Call

(***************************************************************************)
(* The theorems.                                                           *)
(***************************************************************************)

\* In every reachable state of a keccak_state object, between and within the
\* calls of fips202.c, lanes, position and progress agree with the message and
\* the output so far, and every byte handed out is the FIPS 202 byte of its
\* index, however the caller cut the input and the output (OutputInv).
THEOREM SpongeInvariant == Spec => []IInv
BY InitInv, NextInv, PTL DEF Spec

\* A one-shot shake128/shake256 returns after exactly outlen bytes.
THEOREM OneShotComplete == Spec => OneShotExact
<1>1. IInv /\ [Next]_vars => [want # NoWant /\ want' = NoWant => Len(out') = want]_vars
  <2> SUFFICES ASSUME IInv, Next, want # NoWant, want' = NoWant
               PROVE  Len(out') = want
    OBVIOUS
  <2>1. call # "none"
    BY DEF IInv, CallInv
  <2>2. ~Call
    BY <2>1 DEF Call, ShakeInit, AbsorbCall, Finalize, OnceCall, SqueezeCall, BlocksCall
  <2>3. SqueezeReturn
    BY <2>2 DEF Next, Step, AbsorbBlock, AbsorbTail, OnceBlock, OncePad, HashOut,
       SqueezeStep, BlocksStep, BlocksReturn
  <2>4. Len(out) + 0 = want /\ out' = out
    BY <2>3 DEF SqueezeReturn, IInv, CallInv
  <2>5. QED
    BY <2>4 DEF IInv, TypeOK
<1>2. QED
  BY <1>1, SpongeInvariant, PTL DEF Spec, OneShotExact

(***************************************************************************)
(* Refinement.  The abstract module defines the FIPS 202 byte for itself;  *)
(* the two definitions agree.                                              *)
(***************************************************************************)
LEMMA SameByte ==
  ASSUME NEW m, NEW p, NEW k
  PROVE  Abstract!XofByte(m, p, k) = XofByte(m, p, k)
<1>1. \A i : Abstract!BytesOf(i) = BytesOf(i)
  BY DEF Abstract!BytesOf, BytesOf
<1>2. Abstract!NBlocks(m) = NBlocks(m)
  BY DEF Abstract!NBlocks, NBlocks
<1>3. \A x : Abstract!PadByte(m, p, x) = PadByte(m, p, x)
  BY <1>1, <1>2 DEF Abstract!PadByte, PadByte, Abstract!Xor, Xor, Abstract!Zero, Zero,
     Abstract!LastByte, LastByte
<1>4. \A b : Abstract!PadBlock(m, p, b) = PadBlock(m, p, b)
  BY <1>1, <1>3, Zenon DEF Abstract!PadBlock, PadBlock, Abstract!Offset, Offset
<1>5. \A n, i : Abstract!StreamByte(m, p, n, i) = StreamByte(m, p, n, i)
  BY <1>4, Zenon DEF Abstract!StreamByte, StreamByte, Abstract!Zero, Zero
<1>6. QED
  BY <1>2, <1>5, Zenon DEF Abstract!XofByte, XofByte

LEMMA SqueezeOut ==
  ASSUME NEW n,
         out' = out \o [j \in 1 .. n |-> XofByte(msg, sep, Len(out) + j - 1)]
  PROVE  out' = out \o [j \in 1 .. n |-> Abstract!XofByte(msg, sep, Len(out) + j - 1)]
<1>1. [j \in 1 .. n |-> XofByte(msg, sep, Len(out) + j - 1)]
      = [j \in 1 .. n |-> Abstract!XofByte(msg, sep, Len(out) + j - 1)]
  BY SameByte, Zenon
<1>2. QED
  BY <1>1, Zenon

\* A byte-producing step of the sponge hands out the next n bytes of the stream.
LEMMA ReadSqueezes ==
  ASSUME History, NEW x \in State, NEW f \in Nat, NEW n \in 0 .. MaxOut, f + n <= Rate,
         Padded(x, msg, sep), Len(x.perm) >= NBlocks(msg),
         Len(out) = BytesOf(Len(x.perm) - NBlocks(msg)) + f,
         mode = "squeeze", mode' \in {"squeeze", "fresh"},
         out' = out \o Read(x, f, n), UNCHANGED <<msg, sep>>
  PROVE  Abstract!Squeeze(n)
<1>1. out \o Read(x, f, n)
      = out \o [j \in 1 .. n |-> XofByte(msg, sep, Len(out) + j - 1)]
  <2>1. n \in Nat
    OBVIOUS
  <2>2. QED
    BY <2>1, ReadNext
<1>2. out' = out \o [j \in 1 .. n |-> Abstract!XofByte(msg, sep, Len(out) + j - 1)]
  BY <1>1, SqueezeOut
<1>3. QED
  BY <1>2 DEF Abstract!Squeeze

\* A step that ends a call, and perhaps the object with it, hands out nothing.
LEMMA EmptySqueeze ==
  ASSUME History, mode = "squeeze", mode' \in {"squeeze", "fresh"}, UNCHANGED <<msg, sep, out>>
  PROVE  Abstract!Squeeze(0)
<1>1. out = out \o [j \in 1 .. 0 |-> Abstract!XofByte(msg, sep, Len(out) + j - 1)]
  <2>1. PICK e : e = [j \in 1 .. 0 |-> Abstract!XofByte(msg, sep, Len(out) + j - 1)]
    OBVIOUS
  <2>2. e = <<>>
    BY <2>1
  <2>3. out \o e = out
    BY <2>2 DEF History
  <2>4. QED
    BY <2>1, <2>3
<1>2. QED
  BY <1>1 DEF Abstract!Squeeze

LEMMA HashOutAbstract == IInv /\ HashOut => Abstract!Next
<1> SUFFICES ASSUME IInv, HashOut PROVE Abstract!Next
  OBVIOUS
<1>1. mode = "squeeze" /\ pos = Rate
  BY DEF IInv, CallInv, HashOut
<1>2. /\ s' \in State /\ Padded(s', msg, sep) /\ Len(s'.perm) >= NBlocks(msg)
      /\ Len(out) = BytesOf(Len(s'.perm) - NBlocks(msg)) + 0
  BY <1>1, NextLanes DEF HashOut
<1>3. HashLen \in 0 .. MaxOut /\ 0 + HashLen <= Rate
  OBVIOUS
<1>4. Abstract!Squeeze(HashLen)
  BY <1>1, <1>2, <1>3, ReadSqueezes, HasHistory DEF HashOut
<1>5. QED
  BY <1>3, <1>4 DEF Abstract!Next

LEMMA SqueezeStepAbstract == IInv /\ SqueezeStep => Abstract!Next
<1> SUFFICES ASSUME IInv, SqueezeStep PROVE Abstract!Next
  OBVIOUS
<1>1. /\ mode = "squeeze" /\ outlen \in Nat /\ outlen > 0 /\ pos \in 0 .. Rate
  BY DEF IInv, CallInv, TypeOK, SqueezeStep
<1>2. PICK f \in Nat : f = IF pos = Rate THEN 0 ELSE pos
  BY <1>1
<1>3. PICK n \in 0 .. MaxOut :
        n = (IF Rate - f < outlen THEN Rate - f ELSE outlen) /\ f + n <= Rate
  <2>1. f <= Rate
    BY <1>1, <1>2
  <2>2. CASE Rate - f < outlen
    <3>1. Rate - f \in 0 .. MaxOut /\ f + (Rate - f) <= Rate
      BY <2>1
    <3>2. QED
      BY <2>2, <3>1
  <2>3. CASE ~(Rate - f < outlen)
    <3>1. outlen \in 0 .. MaxOut /\ f + outlen <= Rate
      BY <1>1, <2>1, <2>3
    <3>2. QED
      BY <2>3, <3>1
  <2>4. QED
    BY <2>2, <2>3
<1>4. /\ s' \in State /\ Padded(s', msg, sep) /\ Len(s'.perm) >= NBlocks(msg)
      /\ Len(out) = BytesOf(Len(s'.perm) - NBlocks(msg)) + f
  <2>1. CASE pos = Rate
    BY <1>1, <1>2, <2>1, NextLanes DEF SqueezeStep
  <2>2. CASE pos # Rate
    BY <1>1, <1>2, <2>2 DEF SqueezeStep, IInv, TypeOK, SqueezeInv
  <2>3. QED
    BY <2>1, <2>2
<1>5. out' = out \o Read(s', f, n) /\ mode' = mode /\ UNCHANGED <<msg, sep>>
  BY <1>2, <1>3 DEF SqueezeStep
<1>6. Abstract!Squeeze(n)
  BY <1>1, <1>3, <1>4, <1>5, ReadSqueezes, HasHistory
<1>7. QED
  BY <1>6 DEF Abstract!Next

LEMMA BlocksStepAbstract == IInv /\ BlocksStep => Abstract!Next
<1> SUFFICES ASSUME IInv, BlocksStep PROVE Abstract!Next
  OBVIOUS
<1>1. mode = "squeeze" /\ pos = Rate
  BY DEF IInv, CallInv, BlocksStep
<1>2. /\ s' \in State /\ Padded(s', msg, sep) /\ Len(s'.perm) >= NBlocks(msg)
      /\ Len(out) = BytesOf(Len(s'.perm) - NBlocks(msg)) + 0
  BY <1>1, NextLanes DEF BlocksStep
<1>3. PICK n \in 0 .. MaxOut : n = Rate /\ 0 + n <= Rate
  OBVIOUS
<1>4. out' = out \o Read(s', 0, n) /\ mode' = mode /\ UNCHANGED <<msg, sep>>
  BY <1>3 DEF BlocksStep
<1>5. Abstract!Squeeze(n)
  BY <1>1, <1>2, <1>3, <1>4, ReadSqueezes, HasHistory
<1>6. QED
  BY <1>5 DEF Abstract!Next

LEMMA StepAbstract == IInv /\ Step => Abstract!Next \/ UNCHANGED Abstract!vars
<1> SUFFICES ASSUME IInv, Step PROVE Abstract!Next \/ UNCHANGED Abstract!vars
  OBVIOUS
<1> USE DEF Abstract!vars
<1>1. CASE AbsorbBlock \/ AbsorbTail \/ OnceBlock \/ BlocksReturn
  BY <1>1 DEF AbsorbBlock, AbsorbTail, OnceBlock, BlocksReturn
<1>2. CASE OncePad
  <2>1. mode = "absorb" /\ sep \in Seps
    BY <1>2 DEF OncePad, IInv, TypeOK, CallInv
  <2>2. Abstract!Finalize(sep)
    BY <1>2, <2>1 DEF OncePad, Abstract!Finalize
  <2>3. QED
    BY <2>1, <2>2 DEF Abstract!Next
<1>3. CASE SqueezeReturn
  <2>1. mode = "squeeze" /\ mode' \in {"squeeze", "fresh"} /\ UNCHANGED <<msg, sep, out>>
    BY <1>3 DEF SqueezeReturn, IInv, CallInv
  <2>2. Abstract!Squeeze(0)
    BY <2>1, EmptySqueeze, HasHistory
  <2>3. QED
    BY <2>2 DEF Abstract!Next
<1>4. QED
  BY <1>1, <1>2, <1>3, HashOutAbstract, SqueezeStepAbstract, BlocksStepAbstract DEF Step

LEMMA CallAbstract == IInv /\ Call => Abstract!Next \/ UNCHANGED Abstract!vars
<1> SUFFICES ASSUME IInv, Call PROVE Abstract!Next \/ UNCHANGED Abstract!vars
  OBVIOUS
<1>1. CASE ShakeInit
  <2>1. Abstract!Start(<<>>)
    BY <1>1 DEF ShakeInit, Abstract!Start, IInv, TypeOK
  <2>2. QED
    BY <2>1 DEF Abstract!Next
<1>2. ASSUME NEW c \in Chunk, AbsorbCall(c) PROVE Abstract!Next
  BY <1>2 DEF AbsorbCall, Abstract!Absorb, Abstract!Next
<1>3. CASE Finalize
  <2>1. Abstract!Finalize(ShakeSep)
    BY <1>3 DEF Finalize, Abstract!Finalize
  <2>2. QED
    BY <2>1 DEF Abstract!Next, Seps
<1>4. ASSUME NEW c \in Chunk, NEW p \in Seps, NEW n \in {NoWant} \cup (0 .. MaxOut),
             OnceCall(c, p, n)
      PROVE  Abstract!Next
  <2>1. Abstract!Start(c)
    BY <1>4 DEF OnceCall, Abstract!Start
  <2>2. QED
    BY <2>1 DEF Abstract!Next
<1>5. ASSUME NEW n \in 0 .. MaxOut, SqueezeCall(n) \/ BlocksCall(n)
      PROVE  UNCHANGED Abstract!vars
  BY <1>5 DEF SqueezeCall, BlocksCall, Abstract!vars
<1>6. QED
  BY <1>1, <1>2, <1>3, <1>4, <1>5 DEF Call

\* The keccak_state object with its calls, in every interleaving of absorb,
\* finalize, squeeze, absorb_once and squeezeblocks, implements the abstract
\* extendable-output function.
THEOREM Refinement == Spec => Implements
<1>1. Init => Abstract!Init
  BY DEF Init, Abstract!Init, Seps
<1>2. IInv /\ [Next]_vars => [Abstract!Next]_(Abstract!vars)
  BY StepAbstract, CallAbstract DEF Next, vars, Abstract!vars
<1>3. QED
  BY <1>1, <1>2, SpongeInvariant, PTL DEF Spec, Implements, Abstract!Spec

-----------------------------------------------------------------------------
(***************************************************************************)
(* The other implementation, slh/sha3_api.c.  It shares with fips202.c the *)
(* caller's view (msg, sep, out, mode, and the constants), and has an own  *)
(* object.                                                                 *)
(***************************************************************************)
VARIABLES st, pt, mdlen, len

A == INSTANCE Sha3Api

LEMMA SameOperators ==
  /\ A!ZeroState = ZeroState
  /\ \A x : A!Permute(x) = Permute(x)
  /\ \A x, at, c, n : A!XorInto(x, at, c, n) = XorInto(x, at, c, n)
  /\ \A x, at, p : A!Pad(x, at, p) = Pad(x, at, p)
  /\ \A x, at, n : A!Read(x, at, n) = Read(x, at, n)
<1>1. A!Zero = Zero /\ A!Offset = Offset /\ \A a, b : A!Xor(a, b) = Xor(a, b)
  BY DEF A!Zero, Zero, A!Offset, Offset, A!Xor, Xor
<1>2. A!ZeroBlock = ZeroBlock
  BY <1>1, Zenon DEF A!ZeroBlock, ZeroBlock
<1>3. A!ZeroState = ZeroState
  BY <1>2 DEF A!ZeroState, ZeroState
<1>4. \A x : A!Permute(x) = Permute(x)
  BY <1>2 DEF A!Permute, Permute
<1>5. \A x, at, c, n : A!XorInto(x, at, c, n) = XorInto(x, at, c, n)
  BY <1>1, ZenonT(60) DEF A!XorInto, XorInto
<1>6. \A x, at, p : A!Pad(x, at, p) = Pad(x, at, p)
  BY <1>1, ZenonT(60) DEF A!Pad, Pad
<1>7. \A x, i : A!OutByte(x, i) = OutByte(x, i)
  BY DEF A!OutByte, OutByte
<1>8. \A x, at, n : A!Read(x, at, n) = Read(x, at, n)
  BY <1>7, Zenon DEF A!Read, Read
<1>. QED
  BY <1>3, <1>4, <1>5, <1>6, <1>8

\* How the object, the running call and the history hang together.  mdlen says
\* whether the padding is still to be done, pt where the next byte goes or
\* comes from.
SApiInv ==
  /\ History /\ sep \in Seps
  /\ in \in Seq(Byte) /\ len \in 0 .. MaxOut
  /\ mode \in {"fresh", "absorb", "squeeze"}
  /\ call \in {"none", "update", "final", "out"}
  /\ call = "update" => mode = "absorb"
  /\ call \in {"final", "out"} => mode = "squeeze"
  /\ call # "update" => in = <<>>
  /\ mode = "absorb" =>
       /\ st \in State /\ pt \in Offset /\ mdlen = HashLen /\ out = <<>>
       /\ Loaded(st, msg, pt, in)
  /\ mode = "squeeze" =>
       /\ st \in State /\ Padded(st, msg, sep) /\ Len(st.perm) >= NBlocks(msg)
       /\ IF call = "final"
          THEN /\ mdlen = HashLen /\ out = <<>>
               /\ Len(out) = BytesOf(Len(st.perm) - NBlocks(msg)) + 0
          ELSE /\ mdlen = 0 /\ sep = ShakeSep /\ pt \in 0 .. Rate
               /\ Len(out) = BytesOf(Len(st.perm) - NBlocks(msg)) + pt

\* The history after bytes were read, and after a call that reads none.
LEMMA HistoryGrows ==
  ASSUME History, NEW x \in State, NEW f \in Nat, NEW n \in Nat, f + n <= Rate,
         Padded(x, msg, sep), Len(x.perm) >= NBlocks(msg),
         Len(out) = BytesOf(Len(x.perm) - NBlocks(msg)) + f,
         out' = out \o Read(x, f, n), UNCHANGED <<msg, sep>>
  PROVE  History' /\ Len(out') = BytesOf(Len(x.perm) - NBlocks(msg)) + (f + n)
<1>1. /\ out' \in Seq(OutRec) /\ IsStream(out', 0, msg, sep)
      /\ Len(out') = BytesOf(Len(x.perm) - NBlocks(msg)) + (f + n)
  BY ReadNext
<1>2. \A k \in 1 .. Len(out') : out'[k] = XofByte(msg, sep, k - 1)
  BY <1>1, StreamZero, Zenon
<1>3. OutputInv'
  BY <1>2, Zenon DEF OutputInv
<1>. QED
  BY <1>1, <1>3 DEF History

LEMMA HistoryEmpty ==
  ASSUME out' = <<>>, msg' \in Seq(Byte), sep' \in Seps PROVE History'
BY DEF History, OutputInv

LEMMA HistoryKept == ASSUME History, UNCHANGED <<msg, sep, out>> PROVE History'
BY DEF History, OutputInv

\* One byte goes into the block; the block that it fills is permuted.
LEMMA LoadByte ==
  ASSUME NEW x \in State, NEW m \in Seq(Byte), NEW c \in Seq(Byte), NEW at \in Offset,
         Loaded(x, m, at, c), c # <<>>
  PROVE  LET y == XorInto(x, at, c, 1)
         IN  /\ Tail(c) \in Seq(Byte)
             /\ at + 1 >= Rate => Permute(y) \in State /\ Loaded(Permute(y), m, 0, Tail(c))
             /\ at + 1 < Rate => y \in State /\ Loaded(y, m, at + 1, Tail(c))
<1> DEFINE y == XorInto(x, at, c, 1)
<1>1. /\ at \in Nat /\ at < Rate /\ Len(c) \in Nat /\ Len(c) >= 1 /\ Tail(c) \in Seq(Byte)
      /\ Len(Tail(c)) = Len(c) - 1 /\ \A j \in 1 .. Len(c) - 1 : Tail(c)[j] = c[j + 1]
  BY DEF Offset
<1>2. ASSUME at + 1 >= Rate
      PROVE  Permute(y) \in State /\ Loaded(Permute(y), m, 0, Tail(c))
  <2>1. Rate - at = 1 /\ at + Len(c) >= Rate /\ Rate - at + 1 = 2
    BY <1>1, <1>2
  <2>2. SubSeq(c, 2, Len(c)) = Tail(c)
    BY <1>1
  <2>3. /\ Permute(XorInto(x, at, c, Rate - at)) \in State
        /\ Loaded(Permute(XorInto(x, at, c, Rate - at)), m, 0, SubSeq(c, Rate - at + 1, Len(c)))
    BY <2>1, LoadBlock
  <2>. QED
    BY <2>1, <2>2, <2>3
<1>3. ASSUME at + 1 < Rate
      PROVE  y \in State /\ Loaded(y, m, at + 1, Tail(c))
  <2> PICK n \in Nat : n = Len(x.perm)
    BY DEF State
  <2>1. 1 \in 0 .. Len(c) /\ at + 1 <= Rate
    BY <1>1
  <2>2. /\ y \in State
        /\ y.perm = x.perm
        /\ \A i \in Offset : y.blk[i] = IF at <= i /\ i < at + 1
                                       THEN Xor(x.blk[i], c[i - at + 1]) ELSE x.blk[i]
    BY <1>1, <2>1, XorIntoFacts, ZenonT(60)
  <2>3. BytesOf(n) \in Nat
    BY BytesOfNat
  <2> HIDE DEF y
  <2>4. ASSUME NEW i \in Offset
        PROVE  y.blk[i] = IF i < at + 1 THEN m[BytesOf(n) + i + 1] ELSE Zero
    <3>1. CASE i < at
      BY <1>1, <2>2, <3>1 DEF Loaded, Offset
    <3>2. CASE i = at
      <4>1. i - at + 1 = 1 /\ 1 \in 1 .. Len(c) /\ at <= i /\ i < at + 1
        BY <1>1, <3>2
      <4>2. x.blk[i] = Zero
        BY <1>1, <3>2 DEF Loaded
      <4>3. c[1] \in Byte
        BY <4>1
      <4>4. y.blk[i] = c[1]
        BY <2>2, <4>1, <4>2, <4>3, XorFacts
      <4>5. c[1] = m[BytesOf(n) + at + 1]
        BY <4>1 DEF Loaded
      <4>. QED
        BY <3>2, <4>1, <4>4, <4>5
    <3>3. CASE i > at
      BY <1>1, <2>2, <3>3 DEF Loaded, Offset
    <3>. QED
      BY <1>1, <3>1, <3>2, <3>3 DEF Offset
  <2>5. Len(m) - Len(Tail(c)) = BytesOf(Len(y.perm)) + (at + 1)
    <3>1. Len(m) - Len(c) = BytesOf(n) + at /\ Len(m) \in Nat
      BY DEF Loaded
    <3>2. PICK lm \in Nat, lc \in Nat, b \in Nat : lm = Len(m) /\ lc = Len(c) /\ b = BytesOf(n)
      BY <1>1, <2>3, <3>1
    <3>3. lm - (lc - 1) = b + (at + 1)
      <4>1. at \in Nat /\ lm - lc = b + at
        BY <1>1, <3>1, <3>2, Zenon
      <4>. QED
        BY <4>1
    <3>. QED
      BY <1>1, <2>2, <3>2, <3>3
  <2>6. \A b \in 1 .. Len(y.perm), i \in Offset : y.perm[b][i] = m[BytesOf(b - 1) + i + 1]
    BY <2>2 DEF Loaded
  <2>7. ASSUME NEW j \in 1 .. Len(Tail(c))
        PROVE  Tail(c)[j] = m[BytesOf(Len(y.perm)) + (at + 1) + j]
    <3>1. j + 1 \in 1 .. Len(c) /\ Tail(c)[j] = c[j + 1]
      BY <1>1
    <3>2. c[j + 1] = m[BytesOf(n) + at + (j + 1)]
      BY <3>1 DEF Loaded
    <3>3. BytesOf(n) + at + (j + 1) = BytesOf(n) + (at + 1) + j
      BY <1>1, <2>3
    <3>. QED
      BY <2>2, <3>1, <3>2, <3>3
  <2>. QED
    BY <2>2, <2>4, <2>5, <2>6, <2>7 DEF Loaded
<1>. QED
  BY <1>1, <1>2, <1>3

\* Padding and permuting the block that holds the rest of the message.
LEMMA PadPermuted ==
  ASSUME NEW x \in State, NEW m \in Seq(Byte), NEW p \in Seps, NEW at \in Offset,
         Loaded(x, m, at, <<>>)
  PROVE  LET y == Permute(Pad(x, at, p))
         IN  /\ y \in State /\ Padded(y, m, p) /\ Len(y.perm) >= NBlocks(m)
             /\ 0 = BytesOf(Len(y.perm) - NBlocks(m)) + 0
<1> DEFINE z == Pad(x, at, p)
<1>0. p \in Byte
  OBVIOUS
<1>1. z \in State /\ Padded(z, m, p) /\ Len(z.perm) = NBlocks(m) - 1
  BY <1>0, PadLoaded
<1> HIDE DEF z
<1>2. NBlocks(m) \in Nat
  BY NBlocksFacts
<1>3. Len(z.perm) >= NBlocks(m) - 1
  BY <1>1, <1>2
<1>4. /\ Permute(z) \in State /\ Padded(Permute(z), m, p) /\ Len(Permute(z).perm) = Len(z.perm) + 1
      /\ Len(Permute(z).perm) >= NBlocks(m)
  BY <1>0, <1>1, <1>3, PermutePadded
<1>5. Len(Permute(z).perm) - NBlocks(m) = 0
  BY <1>1, <1>2, <1>4
<1>6. BytesOf(0) = 0
  BY BytesOfFacts
<1>. QED
  BY <1>4, <1>5, <1>6 DEF z

LEMMA SApiBegins == A!Init => SApiInv
<1> SUFFICES ASSUME A!Init PROVE SApiInv
  OBVIOUS
<1>1. /\ mode = "fresh" /\ call = "none" /\ msg = <<>> /\ out = <<>> /\ in = <<>> /\ len = 0
      /\ sep = ShakeSep
  BY DEF A!Init
<1>2. ShakeSep \in Seps /\ ShakeSep \in Byte /\ 0 \in 0 .. MaxOut
  BY DEF Seps
<1>3. History
  BY <1>1, <1>2 DEF History, OutputInv
<1>. QED
  BY <1>1, <1>2, <1>3 DEF SApiInv

LEMMA SApiInit == ASSUME SApiInv, A!Sha3Init PROVE SApiInv' /\ Abstract!Next
<1>1. /\ call = "none" /\ st' = ZeroState /\ mdlen' = HashLen /\ pt' = 0 /\ mode' = "absorb"
      /\ msg' = <<>> /\ out' = <<>> /\ UNCHANGED <<call, in, len, sep>>
  BY SameOperators DEF A!Sha3Init
<1>2. in = <<>> /\ sep \in Seps /\ len \in 0 .. MaxOut
  BY <1>1 DEF SApiInv
<1>3. History'
  BY <1>1, <1>2, HistoryEmpty
<1>4. Loaded(ZeroState, <<>>, 0, <<>>)
  <2>1. <<>> \in Seq(Byte)
    OBVIOUS
  <2>. QED
    BY <2>1, LoadedEmpty, Zenon
<1>5. 0 \in Offset /\ ZeroState \in State
  BY ZeroStateType DEF Offset
<1>6. Abstract!Start(<<>>)
  BY <1>1, <1>2 DEF Abstract!Start
<1>. QED
  BY <1>1, <1>2, <1>3, <1>4, <1>5, <1>6 DEF SApiInv, Abstract!Next

LEMMA SApiUpdateCall ==
  ASSUME SApiInv, NEW c \in Chunk, A!UpdateCall(c) PROVE SApiInv' /\ Abstract!Next
<1>1. /\ call = "none" /\ mode = "absorb" /\ call' = "update" /\ in' = c /\ msg' = msg \o c
      /\ UNCHANGED <<st, pt, mdlen, len, mode, sep, out>>
  BY DEF A!UpdateCall
<1>2. /\ in = <<>> /\ sep \in Seps /\ len \in 0 .. MaxOut /\ msg \in Seq(Byte)
      /\ st \in State /\ pt \in Offset /\ mdlen = HashLen /\ out = <<>>
      /\ Loaded(st, msg, pt, <<>>)
  BY <1>1 DEF SApiInv, History
<1>3. c \in Seq(Byte)
  OBVIOUS
<1>4. /\ msg' \in Seq(Byte) /\ Len(msg') = Len(msg) + Len(c) /\ Len(msg) \in Nat /\ Len(c) \in Nat
      /\ \A j \in 1 .. Len(msg) + Len(c) :
           msg'[j] = IF j <= Len(msg) THEN msg[j] ELSE c[j - Len(msg)]
  BY <1>1, <1>2, <1>3, CatFacts
<1>5. History'
  BY <1>1, <1>2, <1>4, HistoryEmpty
<1>6. Loaded(st, msg', pt, c)
  <2>1. Loaded(st, msg \o c, pt, c)
    BY <1>2, <1>3, LoadedMore
  <2>. QED
    BY <1>1, <2>1, Zenon
<1>7. Abstract!Absorb(c)
  BY <1>1 DEF Abstract!Absorb
<1>. QED
  BY <1>1, <1>2, <1>3, <1>5, <1>6, <1>7 DEF SApiInv, Abstract!Next

LEMMA SApiUpdateByte ==
  ASSUME SApiInv, A!UpdateByte PROVE SApiInv' /\ UNCHANGED Abstract!vars
<1> DEFINE t == XorInto(st, pt, in, 1)
<1>1. /\ call = "update" /\ in # <<>> /\ in' = Tail(in)
      /\ UNCHANGED <<mdlen, call, len, mode, msg, sep, out>>
      /\ pt + 1 >= Rate => st' = Permute(t) /\ pt' = 0
      /\ ~(pt + 1 >= Rate) => st' = t /\ pt' = pt + 1
  BY SameOperators DEF A!UpdateByte
<1> HIDE DEF t
<1>2. /\ mode = "absorb" /\ sep \in Seps /\ len \in 0 .. MaxOut /\ msg \in Seq(Byte)
      /\ in \in Seq(Byte) /\ st \in State /\ pt \in Offset /\ mdlen = HashLen /\ out = <<>>
      /\ Loaded(st, msg, pt, in) /\ History
  BY <1>1 DEF SApiInv, History
<1>3. /\ Tail(in) \in Seq(Byte)
      /\ pt + 1 >= Rate => Permute(t) \in State /\ Loaded(Permute(t), msg, 0, Tail(in))
      /\ pt + 1 < Rate => t \in State /\ Loaded(t, msg, pt + 1, Tail(in))
  BY <1>1, <1>2, LoadByte DEF t
<1>4. /\ pt \in Nat /\ 0 \in Offset
      /\ pt + 1 < Rate => pt + 1 \in Offset
      /\ pt + 1 < Rate <=> ~(pt + 1 >= Rate)
  BY <1>2 DEF Offset
<1>5. st' \in State /\ pt' \in Offset /\ Loaded(st', msg, pt', in')
  BY <1>1, <1>3, <1>4
<1>6. History'
  BY <1>1, <1>2, HistoryKept
<1>. QED
  BY <1>1, <1>2, <1>3, <1>5, <1>6 DEF SApiInv, Abstract!vars

LEMMA SApiReturn ==
  ASSUME SApiInv, A!UpdateReturn \/ A!ShakeOutReturn PROVE SApiInv' /\ UNCHANGED Abstract!vars
<1>1. /\ call \in {"update", "out"} /\ call' = "none" /\ in = <<>>
      /\ UNCHANGED <<st, pt, mdlen, in, len, mode, msg, sep, out>>
  BY DEF A!UpdateReturn, A!ShakeOutReturn, SApiInv
<1>2. History'
  BY <1>1, HistoryKept DEF SApiInv
<1>. QED
  BY <1>1, <1>2 DEF SApiInv, Abstract!vars

LEMMA SApiFinalPad == ASSUME SApiInv, A!FinalPad PROVE SApiInv' /\ Abstract!Next
<1> DEFINE y == Permute(Pad(st, pt, Sha3Sep))
<1>1. /\ call = "none" /\ mode = "absorb" /\ st' = y /\ call' = "final" /\ mode' = "squeeze"
      /\ sep' = Sha3Sep /\ UNCHANGED <<pt, mdlen, in, len, msg, out>>
  BY SameOperators DEF A!FinalPad
<1> HIDE DEF y
<1>2. /\ in = <<>> /\ len \in 0 .. MaxOut /\ msg \in Seq(Byte) /\ Sha3Sep \in Seps
      /\ st \in State /\ pt \in Offset /\ mdlen = HashLen /\ out = <<>>
      /\ Loaded(st, msg, pt, <<>>)
  BY <1>1 DEF SApiInv, History, Seps
<1>3. /\ y \in State /\ Padded(y, msg, Sha3Sep) /\ Len(y.perm) >= NBlocks(msg)
      /\ 0 = BytesOf(Len(y.perm) - NBlocks(msg)) + 0
  BY <1>2, PadPermuted DEF y
<1>4. History'
  BY <1>1, <1>2, HistoryEmpty
<1>5. Abstract!Finalize(Sha3Sep)
  BY <1>1 DEF Abstract!Finalize
<1>6. Len(out') = 0
  BY <1>1, <1>2
<1>. QED
  BY <1>1, <1>2, <1>3, <1>4, <1>5, <1>6 DEF SApiInv, Abstract!Next

LEMMA SApiFinalOut == ASSUME SApiInv, A!FinalOut PROVE SApiInv' /\ Abstract!Next
<1>1. /\ call = "final" /\ out' = out \o Read(st, 0, mdlen) /\ call' = "none" /\ mode' = "fresh"
      /\ UNCHANGED <<st, pt, mdlen, in, len, msg, sep>>
  BY SameOperators DEF A!FinalOut
<1>2. /\ mode = "squeeze" /\ in = <<>> /\ sep \in Seps /\ len \in 0 .. MaxOut /\ History
      /\ st \in State /\ Padded(st, msg, sep) /\ Len(st.perm) >= NBlocks(msg) /\ mdlen = HashLen
      /\ Len(out) = BytesOf(Len(st.perm) - NBlocks(msg)) + 0
  BY <1>1 DEF SApiInv
<1>3. HashLen \in 0 .. MaxOut /\ HashLen \in Nat /\ 0 \in Nat /\ 0 + HashLen <= Rate
  OBVIOUS
<1>4. out' = out \o Read(st, 0, HashLen) /\ mode' \in {"squeeze", "fresh"} /\ UNCHANGED <<msg, sep>>
  BY <1>1, <1>2
<1>5. History'
  BY <1>2, <1>3, <1>4, HistoryGrows
<1>6. Abstract!Squeeze(HashLen)
  BY <1>2, <1>3, <1>4, ReadSqueezes
<1>. QED
  BY <1>1, <1>2, <1>3, <1>5, <1>6 DEF SApiInv, Abstract!Next

LEMMA SApiOutCall ==
  ASSUME SApiInv, NEW n \in 0 .. MaxOut, A!ShakeOutCall(n)
  PROVE  SApiInv' /\ (Abstract!Next \/ UNCHANGED Abstract!vars)
<1> DEFINE y == Permute(Pad(st, pt, ShakeSep))
<1>1. /\ call = "none" /\ mode \in {"absorb", "squeeze"} /\ mode' = "squeeze" /\ sep' = ShakeSep
      /\ call' = "out" /\ len' = n /\ UNCHANGED <<in, msg, out>>
      /\ mdlen # 0 => st' = y /\ pt' = 0 /\ mdlen' = 0
      /\ mdlen = 0 => UNCHANGED <<st, pt, mdlen>>
  BY SameOperators DEF A!ShakeOutCall
<1> HIDE DEF y
<1>2. in = <<>> /\ msg \in Seq(Byte) /\ ShakeSep \in Seps /\ History
  BY <1>1 DEF SApiInv, History, Seps
<1>3. CASE mode = "absorb"
  <2>1. /\ st \in State /\ pt \in Offset /\ mdlen = HashLen /\ out = <<>> /\ Loaded(st, msg, pt, <<>>)
    BY <1>2, <1>3 DEF SApiInv
  <2>2. HashLen # 0 /\ 0 \in 0 .. Rate
    OBVIOUS
  <2>3. /\ y \in State /\ Padded(y, msg, ShakeSep) /\ Len(y.perm) >= NBlocks(msg)
        /\ 0 = BytesOf(Len(y.perm) - NBlocks(msg)) + 0
    BY <1>2, <2>1, PadPermuted DEF y
  <2>4. History'
    BY <1>1, <1>2, <2>1, HistoryEmpty
  <2>5. Abstract!Finalize(ShakeSep)
    BY <1>1, <1>3 DEF Abstract!Finalize
  <2>6. Len(out') = 0 /\ st' = y /\ pt' = 0 /\ mdlen' = 0
    BY <1>1, <2>1, <2>2
  <2>. QED
    BY <1>1, <1>2, <2>2, <2>3, <2>4, <2>5, <2>6 DEF SApiInv, Abstract!Next
<1>4. CASE mode = "squeeze"
  <2>1. /\ st \in State /\ Padded(st, msg, sep) /\ Len(st.perm) >= NBlocks(msg)
        /\ mdlen = 0 /\ sep = ShakeSep /\ pt \in 0 .. Rate
        /\ Len(out) = BytesOf(Len(st.perm) - NBlocks(msg)) + pt
    BY <1>1, <1>4 DEF SApiInv
  <2>2. UNCHANGED <<st, pt, mdlen, msg, sep, out, mode>>
    BY <1>1, <1>4, <2>1
  <2>3. History'
    BY <1>2, <2>2, HistoryKept
  <2>. QED
    BY <1>1, <1>2, <1>4, <2>1, <2>2, <2>3 DEF SApiInv, Abstract!vars
<1>. QED
  BY <1>1, <1>3, <1>4

LEMMA SApiOutByte == ASSUME SApiInv, A!ShakeOutByte PROVE SApiInv' /\ Abstract!Next
<1> DEFINE f == IF pt >= Rate THEN 0 ELSE pt
<1>1. /\ call = "out" /\ len > 0 /\ len' = len - 1
      /\ st' = IF pt >= Rate THEN Permute(st) ELSE st
      /\ out' = out \o Read(st', f, 1) /\ pt' = f + 1
      /\ UNCHANGED <<mdlen, call, in, mode, msg, sep>>
  BY SameOperators DEF A!ShakeOutByte
<1>2. /\ mode = "squeeze" /\ in = <<>> /\ sep \in Seps /\ len \in 0 .. MaxOut /\ History
      /\ st \in State /\ Padded(st, msg, sep) /\ Len(st.perm) >= NBlocks(msg)
      /\ mdlen = 0 /\ sep = ShakeSep /\ pt \in 0 .. Rate
      /\ Len(out) = BytesOf(Len(st.perm) - NBlocks(msg)) + pt
  BY <1>1 DEF SApiInv
<1>3. /\ f \in Nat /\ f + 1 <= Rate /\ f + 1 \in 0 .. Rate
      /\ 1 \in 0 .. MaxOut /\ len' \in 0 .. MaxOut /\ 1 \in Nat
  BY <1>1, <1>2
<1>4. /\ st' \in State /\ Padded(st', msg, sep) /\ Len(st'.perm) >= NBlocks(msg)
      /\ Len(out) = BytesOf(Len(st'.perm) - NBlocks(msg)) + f
  <2>1. CASE pt >= Rate
    <3>1. pt = Rate /\ f = 0 /\ st' = Permute(st)
      BY <1>1, <1>2, <2>1
    <3>2. Len(st.perm) >= NBlocks(msg) - 1
      <4>1. NBlocks(msg) \in Nat /\ Len(st.perm) \in Nat
        BY <1>2, NBlocksFacts DEF History, State
      <4>. QED
        BY <1>2, <4>1
    <3>. QED
      BY <1>2, <3>1, <3>2, PermutedLanes
  <2>2. CASE ~(pt >= Rate)
    BY <1>1, <1>2, <2>2
  <2>. QED
    BY <2>1, <2>2
<1> HIDE DEF f
<1>5. History' /\ Len(out') = BytesOf(Len(st'.perm) - NBlocks(msg)) + (f + 1)
  <2>1. PICK x \in State : x = st'
    BY <1>4
  <2>2. /\ Padded(x, msg, sep) /\ Len(x.perm) >= NBlocks(msg)
        /\ Len(out) = BytesOf(Len(x.perm) - NBlocks(msg)) + f
        /\ out' = out \o Read(x, f, 1) /\ UNCHANGED <<msg, sep>>
    BY <1>1, <1>4, <2>1
  <2>. QED
    BY <1>2, <1>3, <2>1, <2>2, HistoryGrows
<1>6. Abstract!Squeeze(1)
  <2>1. PICK x \in State : x = st'
    BY <1>4
  <2>2. /\ Padded(x, msg, sep) /\ Len(x.perm) >= NBlocks(msg)
        /\ Len(out) = BytesOf(Len(x.perm) - NBlocks(msg)) + f
        /\ out' = out \o Read(x, f, 1) /\ UNCHANGED <<msg, sep>> /\ mode' \in {"squeeze", "fresh"}
    BY <1>1, <1>2, <1>4, <2>1
  <2>. QED
    BY <1>2, <1>3, <2>2, ReadSqueezes
<1>. QED
  BY <1>1, <1>2, <1>3, <1>4, <1>5, <1>6 DEF SApiInv, Abstract!Next

\* The invariant of the object, and what each of its steps does to the abstract one.
LEMMA SApiStep ==
  ASSUME SApiInv, A!Next PROVE SApiInv' /\ (Abstract!Next \/ UNCHANGED Abstract!vars)
<1> USE DEF Abstract!vars
<1>1. ASSUME A!Sha3Init PROVE SApiInv' /\ Abstract!Next
  BY <1>1, SApiInit
<1>2. ASSUME NEW c \in Chunk, A!UpdateCall(c) PROVE SApiInv' /\ Abstract!Next
  BY <1>2, SApiUpdateCall
<1>3. ASSUME A!FinalPad \/ A!FinalOut PROVE SApiInv' /\ Abstract!Next
  BY <1>3, SApiFinalPad, SApiFinalOut
<1>4. ASSUME NEW n \in 0 .. MaxOut, A!ShakeOutCall(n)
      PROVE  SApiInv' /\ (Abstract!Next \/ UNCHANGED Abstract!vars)
  BY <1>4, SApiOutCall
<1>5. ASSUME A!ShakeOutByte PROVE SApiInv' /\ Abstract!Next
  BY <1>5, SApiOutByte
<1>6. ASSUME A!UpdateByte \/ A!UpdateReturn \/ A!ShakeOutReturn
      PROVE  SApiInv' /\ UNCHANGED Abstract!vars
  BY <1>6, SApiUpdateByte, SApiReturn
<1>. QED
  BY <1>1, <1>2, <1>3, <1>4, <1>5, <1>6 DEF A!Next, A!Call, A!Step

THEOREM Sha3ApiInvariant == A!Spec => []SApiInv
<1>1. SApiInv /\ UNCHANGED A!vars => SApiInv'
  <2> SUFFICES ASSUME SApiInv, UNCHANGED A!vars PROVE SApiInv'
    OBVIOUS
  <2>1. UNCHANGED <<st, pt, mdlen, call, in, len, mode, msg, sep, out>>
    BY DEF A!vars
  <2>2. History'
    BY <2>1, HistoryKept DEF SApiInv
  <2>. QED
    BY <2>1, <2>2 DEF SApiInv
<1>2. SApiInv /\ [A!Next]_(A!vars) => SApiInv'
  BY <1>1, SApiStep
<1>. QED
  BY <1>2, SApiBegins, PTL DEF A!Spec

\* sha3_api.c, which permutes as soon as a block is full and keeps "not padded
\* yet" in mdlen, implements the extendable-output function that fips202.c
\* implements, in every order of init, update, shake_out and sha3_final.
THEOREM Sha3ApiRefinement == A!Spec => Implements
<1>1. A!Init => Abstract!Init
  BY DEF A!Init, Abstract!Init, Seps
<1>2. SApiInv /\ [A!Next]_(A!vars) => [Abstract!Next]_(Abstract!vars)
  <2>1. SApiInv /\ UNCHANGED A!vars => UNCHANGED Abstract!vars
    BY DEF A!vars, Abstract!vars
  <2>. QED
    BY <2>1, SApiStep
<1>. QED
  BY <1>1, <1>2, Sha3ApiInvariant, PTL DEF A!Spec, Implements, Abstract!Spec
=============================================================================
