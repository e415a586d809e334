------------------------------ MODULE Fips202 -------------------------------
(***************************************************************************)
(* FIPS 202 as a function of the whole message: the padding pad10*1, the   *)
(* blocks, and the output stream.  This is the reference that the          *)
(* incremental implementations of the project are held to.                 *)
(***************************************************************************)
EXTENDS Keccak

\* Blocks of the padded message, and the index of its last byte.
NBlocks(m)   == Len(m) \div Rate + 1
LastByte(m)  == BytesOf(NBlocks(m)) - 1

\* Byte x of the padded message, continued with zeros for the squeezing.
PadByte(m, p, x) ==
  IF x < Len(m)
  THEN m[x + 1]
  ELSE Xor(IF x = Len(m) THEN p ELSE Zero,
           IF x = LastByte(m) THEN {TopBit} ELSE Zero)

PadBlock(m, p, b) == [i \in Offset |-> PadByte(m, p, BytesOf(b - 1) + i)]

\* The output byte that is read at offset i after n permutations.
StreamByte(m, p, n, i) ==
  [after |-> [b \in 1 .. n |-> PadBlock(m, p, b)], xored |-> Zero, at |-> i]

\* Output byte k = 0, 1, 2, ... of the message m.
XofByte(m, p, k) == StreamByte(m, p, NBlocks(m) + k \div Rate, k % Rate)
=============================================================================
