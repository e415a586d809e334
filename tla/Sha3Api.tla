------------------------------ MODULE Sha3Api -------------------------------
(***************************************************************************)
(* One sha3_ctx_t object of slh/sha3_api.c, the byte-at-a-time FIPS 202    *)
(* code that SLH-DSA hashes with.  Unlike fips202.c it permutes as soon as *)
(* a block is full, and it keeps "padding not done yet" in mdlen.          *)
(*                                                                         *)
(* The caller (slh_shake.c) keeps to the order init, update*, and then     *)
(* either shake_out* or sha3_final; it cuts input and output as it likes.  *)
(***************************************************************************)
EXTENDS Fips202

CONSTANTS
  Chunk,      \* the inputs a caller passes in one call
  ShakeSep,   \* the byte 0x1F
  Sha3Sep,    \* the byte 0x06
  HashLen,    \* mdlen: bytes of a digest; rsiz = 200 - 2 * mdlen is Rate
  MaxMsg,     \* bound on the length of a message
  MaxOut,     \* bound on the number of output bytes
  Garbage     \* the lanes a context may hold before its first sha3_init

Seps == {ShakeSep, Sha3Sep}

ASSUME DigestAssumption == HashLen \in 1 .. Rate /\ HashLen <= MaxOut

VARIABLES
  st,       \* the lanes c->st
  pt,       \* c->pt, and its register copy j while a loop runs
  mdlen,    \* c->mdlen: 0 once shake_out has padded
  call,     \* the function being run, "none" between calls
  in,       \* what sha3_update has left of its input
  len,      \* the bytes shake_out still has to write
  mode,     \* what the order of calls lets the caller do next
  msg,      \* history: the message passed in since the last sha3_init
  sep,      \* history: the domain separator used last
  out       \* history: the output since the last sha3_init

vars == <<st, pt, mdlen, call, in, len, mode, msg, sep, out>>

-----------------------------------------------------------------------------
Init ==
  /\ st \in {[perm |-> <<>>, blk |-> g] : g \in Garbage}
  /\ pt \in {0, Rate - 1}
  /\ mdlen = 0
  /\ call = "none"
  /\ in = <<>>
  /\ len = 0
  /\ mode = "fresh"
  /\ msg = <<>>
  /\ sep = ShakeSep
  /\ out = <<>>

\* sha3_init: also shake128_init, shake256_init.
Sha3Init ==
  /\ call = "none"
  /\ st' = ZeroState
  /\ mdlen' = HashLen
  /\ pt' = 0
  /\ mode' = "absorb"
  /\ msg' = <<>>
  /\ out' = <<>>
  /\ UNCHANGED <<call, in, len, sep>>

\* sha3_update, shake_update.
UpdateCall(c) ==
  /\ call = "none"
  /\ mode = "absorb"
  /\ Len(msg) + Len(c) <= MaxMsg
  /\ call' = "update"
  /\ in' = c
  /\ msg' = msg \o c
  /\ UNCHANGED <<st, pt, mdlen, len, mode, sep, out>>

\* One byte of the message; a full block is permuted at once.
UpdateByte ==
  /\ call = "update"
  /\ in # <<>>
  /\ LET t == XorInto(st, pt, in, 1)
     IN  IF pt + 1 >= Rate
         THEN st' = Permute(t) /\ pt' = 0
         ELSE st' = t /\ pt' = pt + 1
  /\ in' = Tail(in)
  /\ UNCHANGED <<mdlen, call, len, mode, msg, sep, out>>

UpdateReturn ==
  /\ call = "update"
  /\ in = <<>>
  /\ call' = "none"
  /\ UNCHANGED <<st, pt, mdlen, in, len, mode, msg, sep, out>>

\* sha3_final: padding and permutation; neither pt nor mdlen is touched.
FinalPad ==
  /\ call = "none"
  /\ mode = "absorb"
  /\ st' = Permute(Pad(st, pt, Sha3Sep))
  /\ call' = "final"
  /\ mode' = "squeeze"
  /\ sep' = Sha3Sep
  /\ UNCHANGED <<pt, mdlen, in, len, msg, out>>

\* sha3_final: the digest; the context may then only be initialised again.
FinalOut ==
  /\ call = "final"
  /\ out' = out \o Read(st, 0, mdlen)
  /\ call' = "none"
  /\ mode' = "fresh"
  /\ UNCHANGED <<st, pt, mdlen, in, len, msg, sep>>

\* Mutant: mdlen is not cleared, the next call pads again.
ShakeOutCallAgain(n) ==
  /\ call = "none"
  /\ mode \in {"absorb", "squeeze"}
  /\ Len(out) + n <= MaxOut
  /\ st' = Permute(Pad(st, pt, ShakeSep))
  /\ pt' = 0
  /\ mode' = "squeeze"
  /\ sep' = ShakeSep
  /\ call' = "out"
  /\ len' = n
  /\ UNCHANGED <<mdlen, in, msg, out>>

\* shake_out: the padding on the first call, told by mdlen alone.
ShakeOutCall(n) ==
  /\ call = "none"
  /\ mode \in {"absorb", "squeeze"}
  /\ Len(out) + n <= MaxOut
  /\ IF mdlen # 0
     THEN /\ st' = Permute(Pad(st, pt, ShakeSep))
          /\ pt' = 0
          /\ mdlen' = 0
     ELSE UNCHANGED <<st, pt, mdlen>>
  /\ mode' = "squeeze"
  /\ sep' = ShakeSep
  /\ call' = "out"
  /\ len' = n
  /\ UNCHANGED <<in, msg, out>>

\* One byte of the output; a used up block is permuted when a byte is wanted.
ShakeOutByte ==
  /\ call = "out"
  /\ len > 0
  /\ LET from == IF pt >= Rate THEN 0 ELSE pt
     IN  /\ st' = IF pt >= Rate THEN Permute(st) ELSE st
         /\ out' = out \o Read(st', from, 1)
         /\ pt' = from + 1
  /\ len' = len - 1
  /\ UNCHANGED <<mdlen, call, in, mode, msg, sep>>

ShakeOutReturn ==
  /\ call = "out"
  /\ len = 0
  /\ call' = "none"
  /\ UNCHANGED <<st, pt, mdlen, in, len, mode, msg, sep, out>>

Call ==
  \/ Sha3Init
  \/ \E c \in Chunk : UpdateCall(c)
  \/ FinalPad
  \/ \E n \in 0 .. MaxOut : ShakeOutCall(n)

Step == UpdateByte \/ UpdateReturn \/ FinalOut \/ ShakeOutByte \/ ShakeOutReturn

Next == Call \/ Step

Spec == Init /\ [][Next]_vars

-----------------------------------------------------------------------------
\* The contract: the object is an Xof whatever the calls and their sizes, the
\* same one that fips202.c implements.
Abstract == INSTANCE Xof

Implements == Abstract!Spec
=============================================================================
