-------------------------------- MODULE Sign --------------------------------
(***************************************************************************)
(* sign.c of ML-DSA: crypto_sign with its rejection loop, and              *)
(* crypto_sign_open, over the memory of an application.  The signed        *)
(* message sm lies at address 1, and the message that is signed or opened  *)
(* there, too ("can be equal to m"), or in a buffer of its own.            *)
(*                                                                         *)
(* A signature has three cells: the challenge, z and the hints; the packed *)
(* w1 covers the first two for a while.  What a cell holds is named by the *)
(* attempt it comes from: the message, context, streams of y and the       *)
(* checks that its values fail.  Hashes and the arithmetic do not occur:   *)
(* what unpack_sig and the norms reject, and w1 as verification computes   *)
(* it, are known by these names.                                           *)
(***************************************************************************)
EXTENDS Integers, Sequences, FiniteSets

CONSTANTS
  Letters,    \* the bytes of messages other than 0
  Msgs,       \* the messages that are signed
  Ctxs,       \* contexts of at most 255 bytes
  L,          \* DILITHIUM_L
  Range16,    \* 2^16: the streams that poly_uniform_gamma1 tells apart
  MaxTries,   \* bound on the attempts of a call
  MaxCalls    \* bound on the calls of the application

\* After 2^16 / L attempts the streams of y come round again.
ASSUME TriesAssumption ==
  /\ L \in Nat \ {0} /\ Range16 \in Nat \ {0} /\ MaxTries \in Nat
  /\ MaxTries * L <= Range16

Long == "long"      \* a context of more than 255 bytes
Byte(x) == <<"byte", x>>
Zero    == Byte("0")
Bytes   == {Byte(x) : x \in Letters} \cup {Zero}
Stale   == <<"stale">>     \* what an attempt is before the first

ASSUME MsgsAssumption ==
  /\ "0" \notin Letters /\ Letters # {}
  /\ Msgs \subseteq Seq(Bytes)
  /\ \E a \in Msgs : \A b \in Msgs : Len(b) <= Len(a)
  /\ Long \notin Ctxs

SigCells == 3              \* CRYPTO_BYTES
Longest  == CHOOSE n \in {Len(m) : m \in Msgs} : \A m \in Msgs : Len(m) <= n
Size     == SigCells + Longest
Addr     == 1 .. 2 * Size
Checks   == {"z", "w0", "ct0", "hint"}

VARIABLES
  mem,
  pc,
  m,         \* argument: m - sm
  ctx,       \* argument
  i,         \* of the loop that runs
  nonce,
  att,       \* mu and the attempt; Stale before the first
  streams,   \* history: the streams of y, as many as there were attempts
  mlen, smlen, ret,
  doc,       \* history: the message and the context that were to be signed
  damaged,   \* history: sm was changed since
  calls

vars == <<mem, pc, m, ctx, i, nonce, att, streams, mlen, smlen, ret, doc, damaged, calls>>

Cell(p, j) == mem[p + j + 1]       \* p[j], p counted from sm

\* What lies behind the signature, n cells.
Text(n) == [j \in 1 .. n |-> Cell(SigCells, j - 1)]

-----------------------------------------------------------------------------
Init ==
  /\ mem = [a \in Addr |-> Zero]
  /\ pc = "idle"
  /\ m = 0 /\ ctx \in Ctxs
  /\ i = 0 /\ nonce = 0 /\ att = Stale /\ streams = <<>>
  /\ mlen = 0 /\ smlen = 0 /\ ret = 0
  /\ doc = [msg |-> <<>>, ctx |-> ctx]
  /\ damaged = FALSE
  /\ calls = 0

\* Whether the application holds a signed message that it may open.
Signed == pc = "signed" \/ (pc = "opened" /\ m # 0)

\* The application puts a message at p, which is sm or the other buffer, and
\* calls crypto_sign.
SignCall(text, p, c) ==
  /\ pc \in {"idle", "refused", "opened"}
  /\ calls < MaxCalls
  /\ mem' = [a \in Addr |-> IF a - p \in 1 .. Len(text) THEN text[a - p] ELSE mem[a]]
  /\ m' = p /\ ctx' = c /\ mlen' = Len(text)
  /\ i' = 0
  /\ doc' = [msg |-> text, ctx |-> c]
  /\ damaged' = FALSE
  /\ calls' = calls + 1
  /\ pc' = "copy"
  /\ UNCHANGED <<nonce, att, streams, smlen, ret>>

\* Mutant: the copy begins at the front.
CopyByteForward ==
  /\ pc = "copy"
  /\ i < mlen
  /\ mem' = [mem EXCEPT ![SigCells + i + 1] = Cell(m, i)]
  /\ i' = i + 1
  /\ UNCHANGED <<pc, m, ctx, nonce, att, streams, mlen, smlen, ret, doc, damaged, calls>>

\* sm[CRYPTO_BYTES + mlen - 1 - i] = m[mlen - 1 - i].
CopyByte ==
  /\ pc = "copy"
  /\ i < mlen
  /\ mem' = [mem EXCEPT ![SigCells + mlen - 1 - i + 1] = Cell(m, mlen - 1 - i)]
  /\ i' = i + 1
  /\ UNCHANGED <<pc, m, ctx, nonce, att, streams, mlen, smlen, ret, doc, damaged, calls>>

\* crypto_sign_signature returns -1, and *smlen, which it did not set, grows.
Refuse ==
  /\ pc = "copy" /\ i = mlen
  /\ ctx = Long
  /\ smlen' = smlen + mlen
  /\ ret' = -1
  /\ pc' = "refused"
  /\ UNCHANGED <<mem, m, ctx, i, nonce, att, streams, mlen, doc, damaged, calls>>

\* Up to the label rej: mu stands for the text and the context from here on.
Start ==
  /\ pc = "copy" /\ i = mlen
  /\ ctx # Long
  /\ nonce' = 0 /\ streams' = <<>>
  /\ att' = [text |-> Text(mlen), ctx |-> ctx, y |-> Stale, fails |-> {}]
  /\ pc' = "rej"
  /\ UNCHANGED <<mem, m, ctx, i, mlen, smlen, ret, doc, damaged, calls>>

\* Mutant: the nonces of two attempts overlap.
GammaStreamsNear(n) == [j \in 0 .. L - 1 |-> (n + j) % Range16]

\* polyvecl_uniform_gamma1: one stream for each polynomial of y.
GammaStreams(n) == [j \in 0 .. L - 1 |-> (L * n + j) % Range16]

\* One attempt up to the challenge, which replaces the front of w1.
Attempt(f) ==
  /\ pc = "rej"
  /\ Len(streams) < MaxTries
  /\ att' = [att EXCEPT !.y = GammaStreams(nonce), !.fails = f]
  /\ mem' = [mem EXCEPT ![1] = <<"c", att'>>, ![2] = <<"w1", att'>>]
  /\ streams' = Append(streams, GammaStreams(nonce))
  /\ nonce' = (nonce + 1) % Range16
  /\ pc' = "z"
  /\ UNCHANGED <<m, ctx, i, mlen, smlen, ret, doc, damaged, calls>>

\* The checks come in this order; after the last one the signature is written.
After(k) == CASE k = "z" -> "w0" [] k = "w0" -> "ct0" [] k = "ct0" -> "hint" [] k = "hint" -> "pack"

\* Mutant: the norm of w0 is not looked at.
CheckLess(k) ==
  /\ pc = k
  /\ pc' = IF k \in att.fails \ {"w0"} THEN "rej" ELSE After(k)
  /\ UNCHANGED <<mem, m, ctx, i, nonce, att, streams, mlen, smlen, ret, doc, damaged, calls>>

\* if(... chknorm ...) goto rej, if(n > OMEGA) goto rej.
Check(k) ==
  /\ pc = k
  /\ pc' = IF k \in att.fails THEN "rej" ELSE After(k)
  /\ UNCHANGED <<mem, m, ctx, i, nonce, att, streams, mlen, smlen, ret, doc, damaged, calls>>

\* pack_sig(sig, sig, &z, &h): the challenge stays where it is.
Pack ==
  /\ pc = "pack"
  /\ mem' = [mem EXCEPT ![2] = <<"z", att>>, ![3] = <<"h", att>>]
  /\ smlen' = SigCells + mlen
  /\ ret' = 0
  /\ pc' = "signed"
  /\ UNCHANGED <<m, ctx, i, nonce, att, streams, mlen, doc, damaged, calls>>

-----------------------------------------------------------------------------
\* As in test_dilithium.c, a byte of sm changes.
Damage(a) ==
  /\ Signed
  /\ a <= smlen
  /\ ~damaged
  /\ mem' = [mem EXCEPT ![a] = IF @ = Zero THEN Byte(CHOOSE x \in Letters : TRUE) ELSE Zero]
  /\ damaged' = TRUE
  /\ pc' = "signed"
  /\ UNCHANGED <<m, ctx, i, nonce, att, streams, mlen, smlen, ret, doc, calls>>

\* Or the application has not got all of sm.
Truncate(n) ==
  /\ Signed
  /\ n < smlen
  /\ ~damaged
  /\ smlen' = n
  /\ damaged' = TRUE
  /\ pc' = "signed"
  /\ UNCHANGED <<mem, m, ctx, i, nonce, att, streams, mlen, ret, doc, calls>>

\* crypto_sign_verify for n bytes of message: all of the signature must come
\* from one attempt that passed, and the challenge from this message.
Verify(c, n) ==
  /\ c # Long
  /\ \A a \in 1 .. SigCells : mem[a][1] = <<"c", "z", "h">>[a]
  /\ mem[1][2] = mem[2][2] /\ mem[2][2] = mem[3][2]
  /\ mem[1][2].fails = {}
  /\ mem[1][2].ctx = c
  /\ mem[1][2].text = Text(n)

\* crypto_sign_open up to the copy, or up to badsig with its *mlen = 0.
OpenCall(p, c) ==
  /\ Signed
  /\ calls < MaxCalls
  /\ m' = p /\ ctx' = c /\ i' = 0
  /\ IF smlen >= SigCells /\ Verify(c, smlen - SigCells)
     THEN mlen' = smlen - SigCells /\ pc' = "out"
     ELSE mlen' = 0 /\ pc' = "badsig"
  /\ calls' = calls + 1
  /\ UNCHANGED <<mem, nonce, att, streams, smlen, ret, doc, damaged>>

\* m[i] = sm[CRYPTO_BYTES + i].
OpenByte ==
  /\ pc = "out"
  /\ i < mlen
  /\ mem' = [mem EXCEPT ![m + i + 1] = Cell(SigCells, i)]
  /\ i' = i + 1
  /\ UNCHANGED <<pc, m, ctx, nonce, att, streams, mlen, smlen, ret, doc, damaged, calls>>

Opened ==
  /\ pc = "out" /\ i = mlen
  /\ ret' = 0
  /\ pc' = "opened"
  /\ UNCHANGED <<mem, m, ctx, i, nonce, att, streams, mlen, smlen, doc, damaged, calls>>

\* m[i] = 0, for the length of sm.
WipeByte ==
  /\ pc = "badsig"
  /\ i < smlen
  /\ mem' = [mem EXCEPT ![m + i + 1] = Zero]
  /\ i' = i + 1
  /\ UNCHANGED <<pc, m, ctx, nonce, att, streams, mlen, smlen, ret, doc, damaged, calls>>

\* Mutant: nothing is wiped.
RejectedAtOnce ==
  /\ pc = "badsig"
  /\ ret' = -1
  /\ pc' = "opened"
  /\ UNCHANGED <<mem, m, ctx, i, nonce, att, streams, mlen, smlen, doc, damaged, calls>>

Rejected ==
  /\ pc = "badsig" /\ i = smlen
  /\ ret' = -1
  /\ pc' = "opened"
  /\ UNCHANGED <<mem, m, ctx, i, nonce, att, streams, mlen, smlen, doc, damaged, calls>>

Next ==
  \/ \E text \in Msgs, p \in {0, Size}, c \in Ctxs \cup {Long} : SignCall(text, p, c)
  \/ CopyByte \/ Refuse \/ Start
  \/ \E f \in SUBSET Checks : Attempt(f)
  \/ \E k \in Checks : Check(k)
  \/ Pack
  \/ \E a \in Addr : Damage(a)
  \/ \E n \in 0 .. Size : Truncate(n)
  \/ \E p \in {0, Size}, c \in Ctxs \cup {Long} : OpenCall(p, c)
  \/ OpenByte \/ Opened \/ WipeByte \/ Rejected

Spec == Init /\ [][Next]_vars

-----------------------------------------------------------------------------
\* What leaves crypto_sign is one attempt in all three cells, one that no check
\* rejected, for the message that the caller meant -- also if it lay at sm, and
\* whatever the attempts before left there -- with that message behind it.
Released ==
  Signed /\ ~damaged =>
    /\ mem[1] = <<"c", att>> /\ mem[2] = <<"z", att>> /\ mem[3] = <<"h", att>>
    /\ att.fails = {} /\ att.text = doc.msg /\ att.ctx = doc.ctx
    /\ smlen = SigCells + Len(doc.msg) /\ Text(Len(doc.msg)) = doc.msg

\* crypto_sign_open gives back exactly what was signed, at m = sm, too, and with
\* any damage or another context nothing of it: m is zero for the length of sm.
OpenExact ==
  pc = "opened" =>
    IF ret = 0
    THEN /\ ~damaged /\ ctx = doc.ctx
         /\ mlen = Len(doc.msg) /\ \A j \in 1 .. mlen : Cell(m, j - 1) = doc.msg[j]
    ELSE /\ damaged \/ ctx # doc.ctx
         /\ mlen = 0 /\ \A j \in 1 .. smlen : Cell(m, j - 1) = Zero

\* No two polynomials y of a signature are sampled from one stream.
FreshY ==
  Cardinality(UNION {{streams[t][j] : j \in 0 .. L - 1} : t \in DOMAIN streams})
    = L * Len(streams)
=============================================================================
