----------------------------- MODULE SignProof ------------------------------
(***************************************************************************)
(* Proofs about crypto_sign and crypto_sign_open: what is released is one  *)
(* attempt that passed, for the message meant, also where message and      *)
(* signed message are one buffer; what is opened is that message or zeros; *)
(* no stream of y is used twice.                                           *)
(***************************************************************************)
EXTENDS Sign, FiniteSetTheorems, TLAPS

Attempts == [text : Seq(Bytes), ctx : Ctxs \cup {Long},
             y : {Stale} \cup [0 .. L - 1 -> Int], fails : SUBSET Checks]
Trying   == {"rej"} \cup Checks \cup {"pack"}

TypeOK ==
  /\ mem = [a \in Addr |-> mem[a]]
  /\ pc \in {"idle", "copy", "refused", "signed", "out", "badsig", "opened"} \cup Trying
  /\ m \in {0, Size} /\ i \in Nat /\ nonce \in Nat /\ smlen \in Nat
  /\ mlen \in 0 .. Longest
  /\ ctx \in Ctxs \cup {Long}
  /\ damaged \in BOOLEAN
  /\ doc \in [msg : Seq(Bytes), ctx : Ctxs \cup {Long}]
  /\ Len(doc.msg) <= Longest

\* Bytes lo .. hi of the message are in their places from p on.
Holds(p, lo, hi) == \A j \in lo .. hi : mem[p + j] = doc.msg[j]

\* The copy of the end of the message is made, its beginning not yet lost.
CopyInv ==
  pc = "copy" =>
    /\ mlen = Len(doc.msg) /\ ctx = doc.ctx /\ ~damaged
    /\ i <= mlen
    /\ Holds(m, 1, mlen - i) /\ Holds(SigCells, mlen - i + 1, mlen)

\* What an attempt has passed; the checks come one after the other.
Passed(k) ==
  CASE k = "w0" -> {"z"} [] k = "ct0" -> {"z", "w0"} [] k = "hint" -> {"z", "w0", "ct0"}
    [] k = "pack" -> Checks [] OTHER -> {}

TryInv ==
  pc \in Trying =>
    /\ att \in Attempts /\ att.text = doc.msg /\ att.ctx = doc.ctx /\ doc.ctx # Long
    /\ mlen = Len(doc.msg) /\ ~damaged
    /\ Holds(SigCells, 1, mlen)
    /\ pc # "rej" => mem[1] = <<"c", att>>
    /\ att.fails \cap Passed(pc) = {}

\* The signed message as it was made, or with a trace of what was done to it.
Intact ==
  /\ ~damaged
  /\ mem[1] = <<"c", att>> /\ mem[2] = <<"z", att>> /\ mem[3] = <<"h", att>>
  /\ att \in Attempts /\ att.fails = {} /\ att.text = doc.msg /\ att.ctx = doc.ctx
  /\ doc.ctx # Long
  /\ smlen = SigCells + Len(doc.msg) /\ Text(Len(doc.msg)) = doc.msg

Broken ==
  /\ damaged
  /\ smlen <= Size
  /\ \/ smlen < SigCells
     \/ \E a \in 1 .. SigCells : mem[a] \in Bytes
     \/ mem[1] = <<"c", att>> /\ att.text = doc.msg /\ Text(smlen - SigCells) # doc.msg

SmInv ==
  pc = "signed" \/ (pc \in {"out", "badsig", "opened"} /\ m # 0) => Intact \/ Broken

\* What opening has written, and that in place it has not overtaken itself.
OutInv ==
  pc = "out" =>
    /\ ~damaged /\ ctx = doc.ctx /\ mlen = Len(doc.msg)
    /\ i <= mlen
    /\ Holds(m, 1, i) /\ Holds(SigCells, i + 1, mlen)

BadInv ==
  pc = "badsig" =>
    /\ damaged \/ ctx # doc.ctx
    /\ mlen = 0 /\ smlen <= Size /\ i <= smlen
    /\ \A j \in 1 .. i : mem[m + j] = Zero

SignInv == TypeOK /\ CopyInv /\ TryInv /\ SmInv /\ OutInv /\ BadInv /\ OpenExact

\* Attempt t has the streams of nonce t - 1.
FreshInv ==
  /\ streams \in Seq([0 .. L - 1 -> Int]) /\ Len(streams) <= MaxTries
  /\ \A t \in 1 .. Len(streams) : streams[t] = GammaStreams(t - 1)
  /\ pc \in Trying => nonce = Len(streams) % Range16

-----------------------------------------------------------------------------
LEMMA Sizes ==
  /\ Longest \in Nat /\ Size = 3 + Longest /\ SigCells = 3 /\ Addr = 1 .. 2 * Size
  /\ \A s \in Msgs : s \in Seq(Bytes) /\ Len(s) <= Longest
<1> DEFINE Lens == {Len(s) : s \in Msgs}
<1>1. PICK s0 \in Msgs : \A b \in Msgs : Len(b) <= Len(s0)
  BY MsgsAssumption
<1>2. Len(s0) \in Lens /\ \A b \in Msgs : Len(b) <= Len(s0)
  BY <1>1
<1>3. Longest \in Lens /\ \A b \in Msgs : Len(b) <= Longest
  BY <1>2 DEF Longest
<1>4. \A s \in Msgs : s \in Seq(Bytes) /\ Len(s) \in Nat
  BY MsgsAssumption
<1>. QED
  BY <1>3, <1>4 DEF Size, SigCells, Addr

\* The text behind the signature in a memory f.
TextIn(f, n) == [j \in 1 .. n |-> f[SigCells + (j - 1) + 1]]

LEMMA TextOf == \A n : Text(n) = TextIn(mem, n)
BY DEF Text, TextIn, Cell

\* It is s if it is so byte by byte.
LEMMA TextIs ==
  ASSUME NEW f, NEW s \in Seq(Bytes), NEW n, n = Len(s),
         \A j \in 1 .. n : f[SigCells + j] = s[j]
  PROVE  TextIn(f, n) = s
<1>1. n \in Nat /\ s = [j \in 1 .. n |-> s[j]]
  OBVIOUS
<1>2. \A j \in 1 .. n : SigCells + (j - 1) + 1 = SigCells + j
  BY <1>1 DEF SigCells
<1>. QED
  BY <1>1, <1>2 DEF TextIn

LEMMA TextByte ==
  ASSUME NEW f, NEW n \in Nat, NEW j \in 1 .. n
  PROVE  TextIn(f, n)[j] = f[SigCells + j]
<1>1. SigCells + (j - 1) + 1 = SigCells + j
  BY DEF SigCells
<1>. QED
  BY <1>1 DEF TextIn

LEMMA TextLen ==
  ASSUME NEW f, NEW n \in Int, NEW s \in Seq(Bytes), TextIn(f, n) = s, n >= 0
  PROVE  Len(s) = n
<1>1. DOMAIN TextIn(f, n) = 1 .. n
  BY DEF TextIn
<1>2. DOMAIN s = 1 .. Len(s) /\ Len(s) \in Nat
  OBVIOUS
<1>. QED
  BY <1>1, <1>2

\* Text is made of cells behind the signature.
LEMMA SameText ==
  ASSUME NEW f, NEW g, NEW n \in Int, \A j \in 1 .. n : f[SigCells + j] = g[SigCells + j]
  PROVE  TextIn(f, n) = TextIn(g, n)
<1>1. \A j \in 1 .. n : SigCells + (j - 1) + 1 = SigCells + j
  BY DEF SigCells
<1>. QED
  BY <1>1 DEF TextIn

\* A byte is not a cell of a signature.
LEMMA ByteTag ==
  /\ \A v \in Bytes : v[1] = "byte"
  /\ \A a : <<"c", a>>[1] = "c" /\ <<"z", a>>[1] = "z" /\ <<"h", a>>[1] = "h"
BY DEF Bytes, Byte, Zero

\* One cell of a memory is written.
LEMMA Written ==
  ASSUME NEW f, f = [a \in Addr |-> f[a]], NEW x \in Addr, NEW v
  PROVE  /\ [f EXCEPT ![x] = v] = [a \in Addr |-> [f EXCEPT ![x] = v][a]]
         /\ \A a \in Addr : [f EXCEPT ![x] = v][a] = IF a = x THEN v ELSE f[a]
OBVIOUS

\* Two cells are.
LEMMA WrittenTwice ==
  ASSUME NEW f, f = [a \in Addr |-> f[a]], NEW x \in Addr, NEW y \in Addr, NEW v, NEW w,
         NEW g, g = [f EXCEPT ![x] = v, ![y] = w]
  PROVE  /\ g = [a \in Addr |-> g[a]]
         /\ \A a \in Addr : g[a] = IF a = y THEN w ELSE IF a = x THEN v ELSE f[a]
OBVIOUS

-----------------------------------------------------------------------------
LEMMA InitInv == Init => SignInv
<1> SUFFICES ASSUME Init PROVE SignInv
  OBVIOUS
<1>1. mem = [a \in Addr |-> mem[a]]
  BY DEF Init
<1>2. doc \in [msg : Seq(Bytes), ctx : Ctxs \cup {Long}] /\ Len(doc.msg) = 0
  BY DEF Init
<1>3. m = 0 /\ i = 0 /\ nonce = 0 /\ smlen = 0 /\ mlen \in 0 .. Longest /\ 0 <= Longest
  BY Sizes DEF Init
<1>4. pc = "idle" /\ ctx \in Ctxs \cup {Long} /\ damaged \in BOOLEAN
  BY DEF Init
<1>5. TypeOK
  BY <1>1, <1>2, <1>3, <1>4 DEF TypeOK
<1>. QED
  BY <1>5 DEF Init, SignInv, CopyInv, TryInv, SmInv, OutInv, BadInv, OpenExact, Trying, Checks

LEMMA SignCallInv ==
  ASSUME SignInv, NEW text \in Msgs, NEW p \in {0, Size}, NEW c \in Ctxs \cup {Long},
         SignCall(text, p, c)
  PROVE  SignInv'
<1>1. /\ Len(text) \in Nat /\ Len(text) <= Longest /\ text \in Seq(Bytes)
      /\ Longest \in Nat /\ Size = 3 + Longest /\ Addr = 1 .. 2 * Size
  BY Sizes
<1>2. /\ pc' = "copy" /\ m' = p /\ ctx' = c /\ mlen' = Len(text) /\ i' = 0
      /\ doc' = [msg |-> text, ctx |-> c] /\ damaged' = FALSE
      /\ UNCHANGED <<nonce, smlen>>
      /\ mem' = [a \in Addr |-> IF a - p \in 1 .. Len(text) THEN text[a - p] ELSE mem[a]]
  BY DEF SignCall
<1>3. doc'.msg = text /\ doc'.ctx = c
  BY <1>2
<1>4. TypeOK'
  <2>1. mem' = [a \in Addr |-> mem'[a]]
    BY <1>2
  <2>2. mlen' \in 0 .. Longest /\ i' \in Nat /\ Len(doc'.msg) <= Longest
    BY <1>1, <1>2, <1>3
  <2>3. doc' \in [msg : Seq(Bytes), ctx : Ctxs \cup {Long}]
    BY <1>1, <1>2
  <2>. QED
    BY <1>2, <2>1, <2>2, <2>3 DEF SignInv, TypeOK
<1>5. \A j \in 1 .. Len(text) : p + j \in Addr /\ (p + j) - p = j
  BY <1>1
<1>6. \A j \in 1 .. Len(text) : mem'[p + j] = text[j]
  BY <1>2, <1>5
<1>7. CopyInv'
  BY <1>1, <1>2, <1>3, <1>6 DEF CopyInv, Holds
<1>. QED
  BY <1>2, <1>4, <1>7 DEF SignInv, TryInv, SmInv, OutInv, BadInv, OpenExact, Trying, Checks

LEMMA CopyByteInv == ASSUME SignInv, CopyByte PROVE SignInv'
<1> DEFINE d == SigCells + mlen - 1 - i + 1
           src == m + (mlen - 1 - i) + 1
<1>1. /\ Longest \in Nat /\ Size = 3 + Longest /\ SigCells = 3 /\ Addr = 1 .. 2 * Size
      /\ mlen \in Nat /\ mlen <= Longest /\ i \in Nat /\ i < mlen /\ m \in {0, Size}
  BY Sizes DEF SignInv, TypeOK, CopyByte
<1>2. /\ mem = [a \in Addr |-> mem[a]]
      /\ mlen = Len(doc.msg) /\ ctx = doc.ctx /\ ~damaged
      /\ Holds(m, 1, mlen - i) /\ Holds(SigCells, mlen - i + 1, mlen)
  BY DEF SignInv, TypeOK, CopyInv, CopyByte
<1>3. d \in Addr /\ d = SigCells + (mlen - i) /\ src = m + (mlen - i)
  BY <1>1
<1>4. /\ mem' = [mem EXCEPT ![d] = mem[src]] /\ i' = i + 1
      /\ UNCHANGED <<pc, m, ctx, mlen, doc, damaged, nonce, smlen>> /\ pc = "copy"
  BY DEF Cell, CopyByte
<1> HIDE DEF d, src
<1>5. /\ mem' = [a \in Addr |-> mem'[a]]
      /\ \A a \in Addr : mem'[a] = IF a = d THEN mem[src] ELSE mem[a]
  BY <1>2, <1>3, <1>4, Written
<1>6. mem[src] = doc.msg[mlen - i]
  <2>1. mlen - i \in 1 .. mlen - i
    BY <1>1
  <2>. QED
    BY <2>1, <1>2, <1>3 DEF Holds
<1>7. ASSUME NEW j \in 1 .. mlen - (i + 1) PROVE mem'[m + j] = doc.msg[j]
  <2>1. m + j \in Addr /\ m + j # d /\ j \in 1 .. mlen - i
    BY <1>1, <1>3, <1>7
  <2>. QED
    BY <2>1, <1>2, <1>5 DEF Holds
<1>8. ASSUME NEW j \in mlen - (i + 1) + 1 .. mlen PROVE mem'[SigCells + j] = doc.msg[j]
  <2>1. SigCells + j \in Addr /\ (j = mlen - i \/ j \in mlen - i + 1 .. mlen)
    BY <1>1, <1>8
  <2>2. SigCells + j = d <=> j = mlen - i
    BY <1>1, <1>3, <1>8
  <2>. QED
    BY <2>1, <2>2, <1>2, <1>5, <1>6 DEF Holds
<1>9. CopyInv'
  <2>1. i' <= mlen' /\ mlen' = Len(doc'.msg) /\ ctx' = doc'.ctx /\ ~damaged'
    BY <1>1, <1>2, <1>4
  <2>2. Holds(m, 1, mlen - i)' /\ Holds(SigCells, mlen - i + 1, mlen)'
    BY <1>4, <1>7, <1>8 DEF Holds, SigCells
  <2>. QED
    BY <2>1, <2>2 DEF CopyInv
<1>10. TypeOK'
  BY <1>1, <1>4, <1>5 DEF SignInv, TypeOK
<1>. QED
  BY <1>4, <1>9, <1>10 DEF SignInv, TryInv, SmInv, OutInv, BadInv, OpenExact, Trying, Checks

LEMMA RefuseInv == ASSUME SignInv, Refuse PROVE SignInv'
<1>1. /\ pc' = "refused" /\ smlen' = smlen + mlen
      /\ UNCHANGED <<mem, m, ctx, i, nonce, mlen, doc, damaged>>
  BY DEF Refuse
<1>2. smlen' \in Nat
  BY <1>1, Sizes DEF SignInv, TypeOK
<1>3. TypeOK'
  BY <1>1, <1>2 DEF SignInv, TypeOK
<1>. QED
  BY <1>1, <1>3 DEF SignInv, CopyInv, TryInv, SmInv, OutInv, BadInv, OpenExact, Trying, Checks

LEMMA StartInv == ASSUME SignInv, Start PROVE SignInv'
<1>1. /\ mlen = Len(doc.msg) /\ ctx = doc.ctx /\ ~damaged /\ mlen \in Nat
      /\ doc.msg \in Seq(Bytes) /\ ctx \in Ctxs \cup {Long} /\ ctx # Long
      /\ Holds(SigCells, mlen - i + 1, mlen) /\ i = mlen
  BY DEF SignInv, TypeOK, CopyInv, Start
<1>2. Holds(SigCells, 1, mlen)
  BY <1>1 DEF Holds
<1>3. Text(mlen) = doc.msg
  BY <1>1, <1>2, TextIs, TextOf DEF Holds
<1>4. /\ att' = [text |-> Text(mlen), ctx |-> ctx, y |-> Stale, fails |-> {}]
      /\ pc' = "rej" /\ nonce' = 0
      /\ UNCHANGED <<mem, m, ctx, i, mlen, smlen, doc, damaged>>
  BY DEF Start
<1>5. TypeOK'
  BY <1>4 DEF SignInv, TypeOK, Trying
<1>6. att' \in Attempts /\ att'.text = doc.msg /\ att'.ctx = doc.ctx /\ att'.fails = {}
  BY <1>1, <1>3, <1>4 DEF Attempts
<1>7. TryInv'
  BY <1>1, <1>2, <1>4, <1>6 DEF TryInv, Holds
<1>. QED
  BY <1>4, <1>5, <1>7 DEF SignInv, CopyInv, SmInv, OutInv, BadInv, OpenExact

LEMMA StreamsType == ASSUME NEW n \in Nat PROVE GammaStreams(n) \in [0 .. L - 1 -> Int]
<1>1. L \in Nat /\ Range16 \in Nat \ {0}
  BY TriesAssumption
<1>2. \A j \in 0 .. L - 1 : L * n + j \in Int
  BY <1>1
<1>. QED
  BY <1>1, <1>2 DEF GammaStreams

LEMMA AttemptInv ==
  ASSUME SignInv, NEW f \in SUBSET Checks, Attempt(f)
  PROVE  SignInv'
<1>1. /\ att \in Attempts /\ att.text = doc.msg /\ att.ctx = doc.ctx /\ doc.ctx # Long
      /\ mlen = Len(doc.msg) /\ ~damaged /\ Holds(SigCells, 1, mlen)
      /\ mem = [a \in Addr |-> mem[a]] /\ nonce \in Nat /\ mlen \in 0 .. Longest
  BY DEF SignInv, TypeOK, TryInv, Attempt, Trying
<1>2. /\ att' = [att EXCEPT !.y = GammaStreams(nonce), !.fails = f]
      /\ mem' = [mem EXCEPT ![1] = <<"c", att'>>, ![2] = <<"w1", att'>>]
      /\ nonce' = (nonce + 1) % Range16 /\ pc' = "z"
      /\ UNCHANGED <<m, ctx, i, mlen, smlen, doc, damaged>>
  BY DEF Attempt
<1>3. att' \in Attempts /\ att'.text = doc.msg /\ att'.ctx = doc.ctx
  BY <1>1, <1>2, StreamsType DEF Attempts
<1>4. nonce' \in Nat
  BY <1>1, <1>2, TriesAssumption
<1>5. /\ 1 \in Addr /\ 2 \in Addr
      /\ \A j \in 1 .. mlen : SigCells + j \in Addr /\ SigCells + j # 1 /\ SigCells + j # 2
  BY <1>1, Sizes
<1> DEFINE v1 == <<"c", att'>>
           v2 == <<"w1", att'>>
<1>cells. mem' = [mem EXCEPT ![1] = v1, ![2] = v2]
  BY <1>2
<1> HIDE DEF v1, v2
<1>after. /\ mem' = [a \in Addr |-> mem'[a]]
      /\ \A a \in Addr : mem'[a] = IF a = 2 THEN v2 ELSE IF a = 1 THEN v1 ELSE mem[a]
  BY <1>1, <1>5, <1>cells, WrittenTwice
<1>6. mem' = [a \in Addr |-> mem'[a]] /\ mem'[1] = <<"c", att'>>
  BY <1>5, <1>after DEF v1
<1>7. \A j \in 1 .. mlen : mem'[SigCells + j] = mem[SigCells + j]
  BY <1>5, <1>after
<1>8. TypeOK'
  BY <1>2, <1>4, <1>6 DEF SignInv, TypeOK, Trying, Checks
<1>9. Holds(SigCells, 1, mlen)'
  BY <1>1, <1>2, <1>7 DEF Holds, SigCells
<1>10. TryInv'
  BY <1>1, <1>2, <1>3, <1>6, <1>9 DEF TryInv, Passed
<1>. QED
  BY <1>2, <1>8, <1>10 DEF SignInv, CopyInv, SmInv, OutInv, BadInv, OpenExact

LEMMA CheckInv == ASSUME SignInv, NEW k \in Checks, Check(k) PROVE SignInv'
<1>1. /\ pc = k /\ pc' = (IF k \in att.fails THEN "rej" ELSE After(k))
      /\ UNCHANGED <<mem, m, ctx, i, nonce, att, mlen, smlen, doc, damaged>>
  BY DEF Check
<1>2. k = "z" \/ k = "w0" \/ k = "ct0" \/ k = "hint"
  BY DEF Checks
<1>3. pc' \in Trying
  BY <1>1, <1>2 DEF After, Trying, Checks
<1>4. /\ att \in Attempts /\ att.text = doc.msg /\ att.ctx = doc.ctx /\ doc.ctx # Long
      /\ mlen = Len(doc.msg) /\ ~damaged /\ Holds(SigCells, 1, mlen)
      /\ mem[1] = <<"c", att>> /\ att.fails \cap Passed(pc) = {}
  BY <1>1, <1>2 DEF SignInv, TryInv, Trying
<1>5. att.fails \cap Passed(pc') = {}
  BY <1>1, <1>2, <1>4 DEF Passed, After, Checks
<1>6. TryInv'
  BY <1>1, <1>4, <1>5 DEF TryInv, Holds
<1>7. TypeOK'
  BY <1>1, <1>3 DEF SignInv, TypeOK
<1>. QED
  BY <1>3, <1>6, <1>7 DEF SignInv, CopyInv, SmInv, OutInv, BadInv, OpenExact, Trying, Checks

LEMMA PackInv == ASSUME SignInv, Pack PROVE SignInv'
<1>1. /\ att \in Attempts /\ att.text = doc.msg /\ att.ctx = doc.ctx /\ doc.ctx # Long
      /\ mlen = Len(doc.msg) /\ ~damaged /\ Holds(SigCells, 1, mlen)
      /\ mem[1] = <<"c", att>> /\ att.fails \cap Passed("pack") = {}
      /\ mem = [a \in Addr |-> mem[a]] /\ mlen \in 0 .. Longest /\ doc.msg \in Seq(Bytes)
  BY DEF SignInv, TypeOK, TryInv, Pack, Trying
<1>2. /\ mem' = [mem EXCEPT ![2] = <<"z", att>>, ![3] = <<"h", att>>]
      /\ smlen' = SigCells + mlen /\ pc' = "signed"
      /\ UNCHANGED <<m, ctx, i, nonce, att, mlen, doc, damaged>>
  BY DEF Pack
<1>3. att.fails = {}
  BY <1>1 DEF Attempts, Passed
<1>4. /\ 1 \in Addr /\ 2 \in Addr /\ 3 \in Addr /\ smlen' \in Nat
      /\ \A j \in 1 .. mlen : SigCells + j \in Addr /\ SigCells + j # 2 /\ SigCells + j # 3
  BY <1>1, <1>2, Sizes
<1> DEFINE v2 == <<"z", att>>
           v3 == <<"h", att>>
<1>cells. mem' = [mem EXCEPT ![2] = v2, ![3] = v3]
  BY <1>2
<1> HIDE DEF v2, v3
<1>after. /\ mem' = [a \in Addr |-> mem'[a]]
      /\ \A a \in Addr : mem'[a] = IF a = 3 THEN v3 ELSE IF a = 2 THEN v2 ELSE mem[a]
  BY <1>1, <1>4, <1>cells, WrittenTwice
<1>5. /\ mem' = [a \in Addr |-> mem'[a]]
      /\ mem'[1] = <<"c", att>> /\ mem'[2] = <<"z", att>> /\ mem'[3] = <<"h", att>>
  BY <1>1, <1>4, <1>after DEF v2, v3
<1>6. \A j \in 1 .. mlen : mem'[SigCells + j] = doc.msg[j]
  BY <1>1, <1>4, <1>after DEF Holds
<1>7. TextIn(mem', mlen) = doc.msg
  BY <1>1, <1>6, TextIs, SMTT(60)
<1>8. Text(Len(doc.msg))' = doc.msg
  BY <1>1, <1>2, <1>7 DEF Text, Cell, TextIn, SigCells
<1>9. Intact'
  BY <1>1, <1>2, <1>3, <1>5, <1>8 DEF Intact, SigCells
<1>10. TypeOK'
  BY <1>2, <1>4, <1>5 DEF SignInv, TypeOK
<1>. QED
  BY <1>2, <1>9, <1>10 DEF SignInv, CopyInv, TryInv, SmInv, OutInv, BadInv, OpenExact, Trying, Checks

-----------------------------------------------------------------------------
\* The application's own changes of sm leave a trace.
LEMMA SignedInv == ASSUME SignInv, Signed, ~damaged PROVE Intact
BY DEF SignInv, SmInv, Signed, Broken

LEMMA DamageInv ==
  ASSUME SignInv, NEW a \in Addr, Damage(a)
  PROVE  SignInv'
<1> DEFINE v == IF mem[a] = Zero THEN Byte(CHOOSE x \in Letters : TRUE) ELSE Zero
<1>1. /\ Signed /\ ~damaged /\ a <= smlen
      /\ mem' = [mem EXCEPT ![a] = v] /\ damaged' = TRUE /\ pc' = "signed"
      /\ UNCHANGED <<m, ctx, i, nonce, att, mlen, smlen, doc>>
  BY DEF Damage
<1>2. Intact
  BY <1>1, SignedInv
<1>3. v \in Bytes /\ v # mem[a]
  <2>1. (CHOOSE x \in Letters : TRUE) \in Letters
    BY MsgsAssumption
  <2>. QED
    BY <2>1, MsgsAssumption DEF Bytes, Byte, Zero
<1> HIDE DEF v
<1>4. /\ mem = [b \in Addr |-> mem[b]] /\ doc.msg \in Seq(Bytes) /\ Len(doc.msg) <= Longest
      /\ Len(doc.msg) \in Nat
  BY DEF SignInv, TypeOK
<1>5. /\ mem' = [b \in Addr |-> mem'[b]]
      /\ \A b \in Addr : mem'[b] = IF b = a THEN v ELSE mem[b]
  BY <1>1, <1>4, Written
<1>6. /\ Size = 3 + Longest /\ SigCells = 3 /\ Longest \in Nat /\ Addr = 1 .. 2 * Size
      /\ smlen = 3 + Len(doc.msg)
  BY <1>2, Sizes DEF Intact
<1>7. smlen <= Size /\ smlen - SigCells = Len(doc.msg) /\ 1 \in Addr /\ a \in Nat /\ a > 0
  BY <1>4, <1>6
<1>8. Broken'
  <2>1. CASE a <= 3
    <3>1. a \in 1 .. SigCells /\ mem'[a] \in Bytes
      BY <2>1, <1>3, <1>5, <1>6, <1>7
    <3>. QED
      BY <3>1, <1>1, <1>7 DEF Broken, SigCells
  <2>2. CASE a > 3
    <3> DEFINE j == a - 3
    <3>1. j \in 1 .. Len(doc.msg) /\ SigCells + j = a /\ a # 1
      BY <2>2, <1>1, <1>4, <1>6, <1>7
    <3>2. TextIn(mem, Len(doc.msg)) = doc.msg
      BY <1>2, TextOf DEF Intact
    <3>3. doc.msg[j] = mem[a] /\ TextIn(mem', Len(doc.msg))[j] = mem'[a]
      BY <3>1, <3>2, <1>4, TextByte
    <3>4. TextIn(mem', Len(doc.msg)) # doc.msg
      BY <3>3, <1>3, <1>5
    <3>5. Text(smlen - SigCells)' = TextIn(mem', Len(doc.msg))
      BY <1>1, <1>6, <1>7 DEF Text, Cell, TextIn, SigCells
    <3>6. mem'[1] = <<"c", att>>
      BY <3>1, <1>2, <1>5, <1>7 DEF Intact
    <3>. QED
      BY <3>4, <3>5, <3>6, <1>1, <1>2, <1>7 DEF Broken, Intact
  <2>. QED
    BY <2>1, <2>2, <1>7
<1>9. TypeOK'
  BY <1>1, <1>5 DEF SignInv, TypeOK
<1>. QED
  BY <1>1, <1>8, <1>9 DEF SignInv, CopyInv, TryInv, SmInv, OutInv, BadInv, OpenExact, Trying, Checks

LEMMA TruncateInv ==
  ASSUME SignInv, NEW n \in 0 .. Size, Truncate(n)
  PROVE  SignInv'
<1>1. /\ Signed /\ ~damaged /\ n < smlen
      /\ smlen' = n /\ damaged' = TRUE /\ pc' = "signed"
      /\ UNCHANGED <<mem, m, ctx, i, nonce, att, mlen, doc>>
  BY DEF Truncate
<1>2. Intact
  BY <1>1, SignedInv
<1>3. /\ Size \in Nat /\ SigCells = 3 /\ smlen = 3 + Len(doc.msg)
      /\ doc.msg \in Seq(Bytes) /\ Len(doc.msg) \in Nat
  BY <1>2, Sizes DEF Intact, SignInv, TypeOK
<1>4. n \in Nat /\ n <= Size
  BY <1>3
<1>5. Broken'
  <2>1. CASE n < 3
    BY <2>1, <1>1, <1>3, <1>4 DEF Broken, SigCells
  <2>2. CASE n >= 3
    <3>1. n - 3 \in Int /\ n - 3 >= 0 /\ n - 3 # Len(doc.msg)
      BY <2>2, <1>1, <1>3, <1>4
    <3>2. TextIn(mem, n - 3) # doc.msg
      BY <3>1, <1>3, TextLen
    <3>3. Text(smlen - SigCells)' = TextIn(mem, n - 3)
      BY <1>1, <1>3 DEF Text, Cell, TextIn, SigCells
    <3>. QED
      BY <3>2, <3>3, <1>1, <1>2, <1>4 DEF Broken, Intact
  <2>. QED
    BY <2>1, <2>2, <1>4
<1>6. TypeOK'
  BY <1>1, <1>4 DEF SignInv, TypeOK
<1>. QED
  BY <1>1, <1>5, <1>6 DEF SignInv, CopyInv, TryInv, SmInv, OutInv, BadInv, OpenExact, Trying, Checks

\* Verification tells whether sm is as it was and the context that of signing.
LEMMA VerifyExact ==
  ASSUME Intact \/ Broken, NEW c \in Ctxs \cup {Long}, smlen >= SigCells, smlen \in Nat,
         doc.msg \in Seq(Bytes)
  PROVE  Verify(c, smlen - SigCells) <=> ~damaged /\ c = doc.ctx
<1>1. CASE Intact
  <2>1. smlen - SigCells = Len(doc.msg) /\ ~damaged
    BY <1>1 DEF Intact, SigCells
  <2>2. \A a \in 1 .. SigCells : mem[a][1] = <<"c", "z", "h">>[a]
    <3>1. 1 .. SigCells = {1, 2, 3}
      BY DEF SigCells
    <3>2. mem[1][1] = "c" /\ mem[2][1] = "z" /\ mem[3][1] = "h"
      BY <1>1, ByteTag DEF Intact
    <3>. QED
      BY <3>1, <3>2
  <2>3. mem[1][2] = att /\ mem[2][2] = att /\ mem[3][2] = att
    BY <1>1 DEF Intact
  <2>. QED
    BY <1>1, <2>1, <2>2, <2>3 DEF Intact, Verify
<1>2. CASE Broken
  <2>1. CASE \E a \in 1 .. SigCells : mem[a] \in Bytes
    <3>1. PICK a \in 1 .. SigCells : mem[a] \in Bytes
      BY <2>1
    <3>2. mem[a][1] = "byte" /\ (a = 1 \/ a = 2 \/ a = 3)
      BY <3>1, ByteTag DEF SigCells
    <3>3. <<"c", "z", "h">>[a] # "byte"
      BY <3>2
    <3>. QED
      BY <1>2, <3>1, <3>2, <3>3 DEF Verify, Broken
  <2>2. CASE mem[1] = <<"c", att>> /\ att.text = doc.msg /\ Text(smlen - SigCells) # doc.msg
    <3>1. mem[1][2] = att
      BY <2>2
    <3>. QED
      BY <1>2, <2>2, <3>1 DEF Verify, Broken
  <2>. QED
    BY <1>2, <2>1, <2>2 DEF Broken, SigCells
<1>. QED
  BY <1>1, <1>2

LEMMA OpenCallInv ==
  ASSUME SignInv, NEW p \in {0, Size}, NEW c \in Ctxs \cup {Long}, OpenCall(p, c)
  PROVE  SignInv'
<1>1. /\ Signed /\ m' = p /\ ctx' = c /\ i' = 0
      /\ UNCHANGED <<mem, nonce, att, smlen, doc, damaged>>
  BY DEF OpenCall
<1>2. \/ smlen >= SigCells /\ Verify(c, smlen - SigCells)
           /\ mlen' = smlen - SigCells /\ pc' = "out"
      \/ ~(smlen >= SigCells /\ Verify(c, smlen - SigCells)) /\ mlen' = 0 /\ pc' = "badsig"
  BY DEF OpenCall
<1>3. Intact \/ Broken
  BY <1>1 DEF SignInv, SmInv, Signed
<1>4. /\ smlen \in Nat /\ doc.msg \in Seq(Bytes) /\ Len(doc.msg) \in Nat
      /\ Len(doc.msg) <= Longest /\ Longest \in Nat /\ Size = 3 + Longest /\ SigCells = 3
  BY Sizes DEF SignInv, TypeOK
<1>5. smlen <= Size
  BY <1>3, <1>4 DEF Intact, Broken
<1>6. (Intact \/ Broken)'
  BY <1>1, <1>3 DEF Intact, Broken, Text, Cell
<1>7. CASE pc' = "out"
  <2>1. /\ smlen >= SigCells /\ ~damaged /\ c = doc.ctx /\ mlen' = smlen - SigCells
    BY <1>2, <1>3, <1>4, <1>7, VerifyExact
  <2>2. Intact
    BY <2>1, <1>3 DEF Broken
  <2>3. mlen' = Len(doc.msg) /\ mlen' \in 0 .. Longest
    BY <2>1, <2>2, <1>4 DEF Intact
  <2>4. \A j \in 1 .. Len(doc.msg) : mem[SigCells + j] = doc.msg[j]
    BY <2>2, <1>4, TextOf, TextByte DEF Intact
  <2>5. Holds(m, 1, i)' /\ Holds(SigCells, i + 1, mlen)'
    BY <1>1, <1>4, <2>3, <2>4 DEF Holds, SigCells
  <2>6. OutInv'
    BY <2>1, <2>3, <2>5, <1>1, <1>4 DEF OutInv
  <2>7. TypeOK'
    BY <1>1, <1>7, <2>3 DEF SignInv, TypeOK
  <2>. QED
    BY <2>6, <2>7, <1>6, <1>7 DEF SignInv, CopyInv, TryInv, SmInv, BadInv, OpenExact, Trying, Checks
<1>8. CASE pc' = "badsig"
  <2>1. mlen' = 0 /\ ~(smlen >= SigCells /\ Verify(c, smlen - SigCells))
    BY <1>2, <1>8
  <2>2. damaged \/ c # doc.ctx
    <3>1. CASE smlen >= SigCells
      BY <3>1, <2>1, <1>3, <1>4, VerifyExact
    <3>2. CASE ~(smlen >= SigCells)
      BY <3>2, <1>3, <1>4 DEF Intact, Broken
    <3>. QED
      BY <3>1, <3>2
  <2>3. BadInv'
    BY <2>1, <2>2, <1>1, <1>4, <1>5 DEF BadInv
  <2>4. TypeOK'
    BY <1>1, <1>4, <1>8, <2>1 DEF SignInv, TypeOK
  <2>. QED
    BY <2>3, <2>4, <1>6, <1>8 DEF SignInv, CopyInv, TryInv, SmInv, OutInv, OpenExact, Trying, Checks
<1>. QED
  BY <1>2, <1>7, <1>8

\* What is written into the other buffer does not touch sm.
LEMMA ApartFromSm ==
  ASSUME SignInv, Intact \/ Broken, NEW x \in Addr, x > Size, NEW v,
         mem' = [mem EXCEPT ![x] = v], UNCHANGED <<att, smlen, doc, damaged>>
  PROVE  (Intact \/ Broken)'
<1>1. /\ \A a \in Addr : mem'[a] = IF a = x THEN v ELSE mem[a]
      /\ Longest \in Nat /\ Size = 3 + Longest /\ SigCells = 3 /\ Addr = 1 .. 2 * Size
      /\ doc.msg \in Seq(Bytes) /\ Len(doc.msg) \in Nat /\ Len(doc.msg) <= Longest /\ smlen \in Nat
  BY Sizes, Written DEF SignInv, TypeOK
<1>2. \A a \in 1 .. Size : mem'[a] = mem[a]
  BY <1>1
<1>3. ASSUME NEW n \in Int, n <= Longest
      PROVE  TextIn(mem', n) = TextIn(mem, n)
  <2>1. \A j \in 1 .. n : SigCells + j \in 1 .. Size
    BY <1>1, <1>3
  <2>. QED
    BY <2>1, <1>2, SameText, ZenonT(60)
<1>4. \A n : Text(n)' = TextIn(mem', n)
  BY DEF Text, Cell, TextIn
<1>5. mem'[1] = mem[1] /\ mem'[2] = mem[2] /\ mem'[3] = mem[3]
  BY <1>1, <1>2
<1>6. CASE Intact
  <2>1. Text(Len(doc.msg))' = TextIn(mem', Len(doc.msg))
    BY DEF Text, Cell, TextIn
  <2>2. TextIn(mem', Len(doc.msg)) = TextIn(mem, Len(doc.msg))
    <3>1. Len(doc.msg) \in Int /\ Len(doc.msg) <= Longest
      BY <1>1
    <3>. QED
      BY <3>1, <1>3, Zenon
  <2>3. Text(Len(doc.msg)) = TextIn(mem, Len(doc.msg))
    BY TextOf
  <2>. QED
    BY <1>5, <1>6, <2>1, <2>2, <2>3 DEF Intact
<1>7. CASE Broken
  <2>1. smlen - SigCells \in Int /\ smlen - SigCells <= Longest
    BY <1>1, <1>7 DEF Broken
  <2>2. Text(smlen - SigCells)' = Text(smlen - SigCells)
    BY <1>1, <1>3, <1>4, <2>1, TextOf
  <2>3. \A a \in 1 .. SigCells : mem'[a] = mem[a]
    BY <1>1, <1>2
  <2>4. SigCells' = SigCells
    BY DEF SigCells
  <2>. QED
    BY <1>5, <1>7, <2>2, <2>3, <2>4 DEF Broken
<1>. QED
  BY <1>6, <1>7

LEMMA OpenByteInv == ASSUME SignInv, OpenByte PROVE SignInv'
<1> DEFINE x == m + i + 1
           v == mem[SigCells + i + 1]
<1>1. /\ Longest \in Nat /\ Size = 3 + Longest /\ SigCells = 3 /\ Addr = 1 .. 2 * Size
      /\ mlen \in Nat /\ mlen <= Longest /\ i \in Nat /\ i < mlen /\ m \in {0, Size}
  BY Sizes DEF SignInv, TypeOK, OpenByte
<1>2. /\ ~damaged /\ ctx = doc.ctx /\ mlen = Len(doc.msg) /\ pc = "out"
      /\ Holds(m, 1, i) /\ Holds(SigCells, i + 1, mlen) /\ mem = [a \in Addr |-> mem[a]]
  BY DEF SignInv, TypeOK, OutInv, OpenByte
<1>3. /\ mem' = [mem EXCEPT ![x] = v] /\ i' = i + 1
      /\ UNCHANGED <<pc, m, ctx, att, nonce, mlen, smlen, doc, damaged>>
  BY DEF OpenByte, Cell
<1>4. v = doc.msg[i + 1]
  <2>1. i + 1 \in i + 1 .. mlen /\ SigCells + (i + 1) = SigCells + i + 1
    BY <1>1
  <2>2. mem[SigCells + (i + 1)] = doc.msg[i + 1]
    BY <2>1, <1>2, ZenonT(60) DEF Holds
  <2>. QED
    BY <2>1, <2>2, ZenonT(60)
<1>5. x \in Addr /\ x = m + (i + 1)
  BY <1>1
<1> HIDE DEF x, v
<1>6. /\ mem' = [a \in Addr |-> mem'[a]]
      /\ \A a \in Addr : mem'[a] = IF a = x THEN v ELSE mem[a]
  BY <1>2, <1>3, <1>5, Written
<1>7. ASSUME NEW j \in 1 .. i + 1 PROVE mem'[m + j] = doc.msg[j]
  <2>1. m + j \in Addr /\ (m + j = x <=> j = i + 1) /\ (j = i + 1 \/ j \in 1 .. i)
    BY <1>1, <1>5, <1>7
  <2>. QED
    BY <2>1, <1>2, <1>4, <1>6 DEF Holds
<1>8. ASSUME NEW j \in i + 1 + 1 .. mlen PROVE mem'[SigCells + j] = doc.msg[j]
  <2>1. SigCells + j \in Addr /\ SigCells + j # x /\ j \in i + 1 .. mlen
    BY <1>1, <1>5, <1>8
  <2>. QED
    BY <2>1, <1>2, <1>6 DEF Holds
<1>9. OutInv'
  <2>1. Holds(m, 1, i)' /\ Holds(SigCells, i + 1, mlen)'
    BY <1>3, <1>7, <1>8 DEF Holds, SigCells
  <2>2. i' <= mlen' /\ ~damaged' /\ ctx' = doc'.ctx /\ mlen' = Len(doc'.msg)
    BY <1>1, <1>2, <1>3
  <2>. QED
    BY <2>1, <2>2 DEF OutInv
<1>10. TypeOK'
  BY <1>1, <1>3, <1>6 DEF SignInv, TypeOK
<1>11. SmInv'
  <2>1. CASE m = 0
    BY <2>1, <1>2, <1>3 DEF SmInv
  <2>2. CASE m = Size
    <3>1. x > Size /\ m # 0
      BY <2>2, <1>1, <1>5
    <3>2. Intact \/ Broken
      BY <3>1, <1>2 DEF SignInv, SmInv
    <3>. QED
      BY <3>1, <3>2, <1>3, <1>5, ApartFromSm DEF SmInv
  <2>. QED
    BY <2>1, <2>2, <1>1
<1>. QED
  BY <1>2, <1>3, <1>9, <1>10, <1>11 DEF SignInv, CopyInv, TryInv, BadInv, OpenExact, Trying, Checks

LEMMA OpenedInv == ASSUME SignInv, Opened PROVE SignInv'
<1>1. /\ pc = "out" /\ i = mlen /\ ret' = 0 /\ pc' = "opened"
      /\ UNCHANGED <<mem, m, ctx, i, nonce, att, mlen, smlen, doc, damaged>>
  BY DEF Opened
<1>2. /\ ~damaged /\ ctx = doc.ctx /\ mlen = Len(doc.msg) /\ Holds(m, 1, mlen) /\ mlen \in Nat
      /\ m \in {0, Size} /\ Size \in Nat
  BY <1>1, Sizes DEF SignInv, TypeOK, OutInv
<1>3. \A j \in 1 .. mlen : m + (j - 1) + 1 = m + j
  BY <1>2
<1>4. OpenExact'
  BY <1>1, <1>2, <1>3 DEF OpenExact, Cell, Holds
<1>5. TypeOK'
  BY <1>1 DEF SignInv, TypeOK
<1>6. SmInv'
  BY <1>1 DEF SignInv, SmInv, Intact, Broken, Text, Cell
<1>. QED
  BY <1>1, <1>4, <1>5, <1>6 DEF SignInv, CopyInv, TryInv, OutInv, BadInv, Trying, Checks

LEMMA WipeByteInv == ASSUME SignInv, WipeByte PROVE SignInv'
<1> DEFINE x == m + i + 1
<1>1. /\ pc = "badsig" /\ i < smlen /\ mem' = [mem EXCEPT ![x] = Zero] /\ i' = i + 1
      /\ UNCHANGED <<pc, m, ctx, att, nonce, mlen, smlen, doc, damaged>>
  BY DEF WipeByte
<1>2. /\ damaged \/ ctx # doc.ctx
      /\ mlen = 0 /\ smlen <= Size /\ smlen \in Nat /\ i \in Nat /\ m \in {0, Size}
      /\ Size \in Nat /\ Addr = 1 .. 2 * Size
      /\ \A j \in 1 .. i : mem[m + j] = Zero
  BY <1>1, Sizes, SMTT(60) DEF SignInv, TypeOK, BadInv
<1>3. x \in Addr /\ x = m + (i + 1) /\ mem = [a \in Addr |-> mem[a]]
  BY <1>1, <1>2 DEF SignInv, TypeOK
<1> HIDE DEF x
<1>4. /\ mem' = [a \in Addr |-> mem'[a]]
      /\ \A a \in Addr : mem'[a] = IF a = x THEN Zero ELSE mem[a]
  BY <1>1, <1>3, Written
<1>5. ASSUME NEW j \in 1 .. i + 1 PROVE mem'[m + j] = Zero
  <2>1. m + j \in Addr /\ (m + j = x \/ j \in 1 .. i)
    BY <1>1, <1>2, <1>3, <1>5
  <2>. QED
    BY <2>1, <1>2, <1>4
<1>6. BadInv'
  BY <1>1, <1>2, <1>5 DEF BadInv
<1>7. TypeOK'
  BY <1>1, <1>2, <1>4 DEF SignInv, TypeOK
<1>8. SmInv'
  <2>1. CASE m = 0
    BY <2>1, <1>1 DEF SmInv
  <2>2. CASE m = Size /\ m # 0
    <3>1. x > Size
      BY <2>2, <1>2, <1>3
    <3>2. Intact \/ Broken
      BY <2>2, <1>1 DEF SignInv, SmInv
    <3>. QED
      BY <3>1, <3>2, <1>1, <1>3, ApartFromSm DEF SmInv
  <2>. QED
    BY <2>1, <2>2, <1>2
<1>. QED
  BY <1>1, <1>6, <1>7, <1>8 DEF SignInv, CopyInv, TryInv, OutInv, OpenExact, Trying, Checks

LEMMA RejectedInv == ASSUME SignInv, Rejected PROVE SignInv'
<1>1. /\ pc = "badsig" /\ i = smlen /\ ret' = -1 /\ pc' = "opened"
      /\ UNCHANGED <<mem, m, ctx, i, nonce, att, mlen, smlen, doc, damaged>>
  BY DEF Rejected
<1>2. /\ damaged \/ ctx # doc.ctx
      /\ mlen = 0 /\ \A j \in 1 .. smlen : mem[m + j] = Zero
  BY <1>1 DEF SignInv, BadInv
<1>sizes. m \in {0, Size} /\ Size \in Nat /\ smlen \in Nat
  BY Sizes DEF SignInv, TypeOK
<1>3. \A j \in 1 .. smlen : m + (j - 1) + 1 = m + j
  BY <1>sizes
<1>4. OpenExact'
  BY <1>1, <1>2, <1>3 DEF OpenExact, Cell
<1>5. TypeOK'
  BY <1>1 DEF SignInv, TypeOK
<1>6. SmInv'
  BY <1>1 DEF SignInv, SmInv, Intact, Broken, Text, Cell
<1>. QED
  BY <1>1, <1>4, <1>5, <1>6 DEF SignInv, CopyInv, TryInv, OutInv, BadInv, Trying, Checks

LEMMA NextInv == SignInv /\ [Next]_vars => SignInv'
<1> SUFFICES ASSUME SignInv, [Next]_vars PROVE SignInv'
  OBVIOUS
<1>1. ASSUME NEW text \in Msgs, NEW p \in {0, Size}, NEW c \in Ctxs \cup {Long}, SignCall(text, p, c)
      PROVE  SignInv'
  BY <1>1, SignCallInv
<1>2. CASE CopyByte
  BY <1>2, CopyByteInv
<1>3. CASE Refuse
  BY <1>3, RefuseInv
<1>4. CASE Start
  BY <1>4, StartInv
<1>5. ASSUME NEW f \in SUBSET Checks, Attempt(f) PROVE SignInv'
  BY <1>5, AttemptInv
<1>6. ASSUME NEW k \in Checks, Check(k) PROVE SignInv'
  BY <1>6, CheckInv
<1>7. CASE Pack
  BY <1>7, PackInv
<1>8. ASSUME NEW a \in Addr, Damage(a) PROVE SignInv'
  BY <1>8, DamageInv
<1>9. ASSUME NEW n \in 0 .. Size, Truncate(n) PROVE SignInv'
  BY <1>9, TruncateInv
<1>10. ASSUME NEW p \in {0, Size}, NEW c \in Ctxs \cup {Long}, OpenCall(p, c) PROVE SignInv'
  BY <1>10, OpenCallInv
<1>11. CASE OpenByte
  BY <1>11, OpenByteInv
<1>12. CASE Opened
  BY <1>12, OpenedInv
<1>13. CASE WipeByte
  BY <1>13, WipeByteInv
<1>14. CASE Rejected
  BY <1>14, RejectedInv
<1>15. CASE UNCHANGED vars
  <2>1. TypeOK'
    BY <1>15 DEF vars, SignInv, TypeOK, Text
  <2>2. /\ pc' = pc /\ mem' = mem /\ m' = m /\ ctx' = ctx /\ att' = att /\ nonce' = nonce
        /\ mlen' = mlen /\ smlen' = smlen /\ doc' = doc /\ damaged' = damaged /\ i' = i
        /\ ret' = ret
    BY <1>15 DEF vars
  <2>3. CopyInv' /\ TryInv'
    BY <2>2 DEF SignInv, CopyInv, TryInv, Holds, Text, Cell
  <2>4. SmInv' /\ OutInv'
    BY <2>2 DEF SignInv, SmInv, OutInv, OpenExact, Intact, Broken, Holds, Text, Cell
  <2>5. BadInv' /\ OpenExact'
    BY <2>2 DEF SignInv, BadInv, OpenExact, Intact, Broken, Holds, Text, Cell
  <2>. QED
    BY <2>1, <2>3, <2>4, <2>5 DEF SignInv
<1>. QED
  BY <1>1, <1>2, <1>3, <1>4, <1>5, <1>6, <1>7, <1>8, <1>9, <1>10, <1>11, <1>12, <1>13, <1>14,
     <1>15 DEF Next

-----------------------------------------------------------------------------
(***************************************************************************)
(* The streams of y.                                                       *)
(***************************************************************************)

\* There are fewer attempts than values of the nonce.
LEMMA TriesFact == L \in Nat /\ L > 0 /\ Range16 \in Nat /\ MaxTries \in Nat /\ MaxTries <= Range16
BY TriesAssumption

LEMMA SmallMod == ASSUME NEW n \in Nat, NEW r \in Nat, n < r PROVE n % r = n
<1>1. r * 0 <= n /\ n < r * (0 + 1) /\ r > 0
  OBVIOUS
<1>. QED
  BY <1>1

LEMMA AttemptBound ==
  ASSUME NEW n \in Nat, n < MaxTries, NEW j \in 0 .. L - 1
  PROVE  /\ L * n + j \in Nat /\ L * (n + 1) \in Nat
         /\ L * n + j < L * (n + 1) /\ L * (n + 1) <= Range16
<1>1. n + 1 <= MaxTries /\ L * (n + 1) = L * n + L /\ L * n \in Nat /\ L * MaxTries \in Nat
  BY TriesFact
<1>2. L * (n + 1) <= L * MaxTries
  BY <1>1, TriesFact
<1>3. L * MaxTries <= Range16
  BY TriesAssumption
<1>. QED
  BY <1>1, <1>2, <1>3, TriesFact

LEMMA StreamOf ==
  ASSUME NEW n \in Nat, n < MaxTries, NEW j \in 0 .. L - 1
  PROVE  GammaStreams(n)[j] = L * n + j
<1>1. L * n + j \in Nat /\ L * n + j < Range16
  BY AttemptBound, TriesFact
<1>2. (L * n + j) % Range16 = L * n + j
  BY <1>1, SmallMod, TriesFact
<1>. QED
  BY <1>2 DEF GammaStreams

\* The streams of n attempts are the first L * n.
LEMMA AllStreams ==
  ASSUME NEW n \in Nat, n <= MaxTries
  PROVE  UNION {{GammaStreams(t - 1)[j] : j \in 0 .. L - 1} : t \in 1 .. n} = 0 .. L * n - 1
<1> DEFINE U == UNION {{GammaStreams(t - 1)[j] : j \in 0 .. L - 1} : t \in 1 .. n}
<1>1. ASSUME NEW t \in 1 .. n, NEW j \in 0 .. L - 1
      PROVE  GammaStreams(t - 1)[j] \in 0 .. L * n - 1
  <2>1. t - 1 \in Nat /\ t - 1 < MaxTries /\ t - 1 + 1 = t
    BY TriesFact
  <2>2. GammaStreams(t - 1)[j] = L * (t - 1) + j
    BY <2>1, StreamOf
  <2>3. L * (t - 1) + j \in Nat /\ L * (t - 1) + j < L * t
    BY <2>1, AttemptBound
  <2>4. L * t <= L * n /\ L * t \in Nat /\ L * n \in Nat
    BY TriesFact
  <2>. QED
    BY <2>2, <2>3, <2>4
<1>2. ASSUME NEW x \in 0 .. L * n - 1
      PROVE  x \in U
  <2> DEFINE t == x \div L + 1
             j == x % L
  <2>1. x = L * (x \div L) + (x % L) /\ x % L \in 0 .. L - 1 /\ x \div L \in Nat
    <3>1. x \in Nat
      BY TriesFact
    <3>. QED
      BY <3>1, TriesFact
  <2>2. x \div L < n
    BY <2>1, TriesFact
  <2>3. t \in 1 .. n /\ j \in 0 .. L - 1 /\ t - 1 = x \div L /\ t - 1 \in Nat /\ t - 1 < MaxTries
    BY <2>1, <2>2, TriesFact
  <2>4. GammaStreams(t - 1)[j] = x
    BY <2>1, <2>3, StreamOf
  <2>. QED
    BY <2>3, <2>4
<1>. QED
  BY <1>1, <1>2

LEMMA FreshCount == FreshInv => FreshY
<1> SUFFICES ASSUME FreshInv PROVE FreshY
  OBVIOUS
<1> DEFINE n == Len(streams)
<1>1. n \in Nat /\ n <= MaxTries /\ DOMAIN streams = 1 .. n
  BY DEF FreshInv
<1>2. UNION {{streams[t][j] : j \in 0 .. L - 1} : t \in DOMAIN streams} = 0 .. L * n - 1
  <2> DEFINE A(t) == {streams[t][j] : j \in 0 .. L - 1}
             B(t) == {GammaStreams(t - 1)[j] : j \in 0 .. L - 1}
  <2>1. \A t \in 1 .. n : A(t) = B(t)
    BY DEF FreshInv
  <2>2. UNION {B(t) : t \in 1 .. n} = 0 .. L * n - 1
    BY <1>1, AllStreams
  <2>3. UNION {A(t) : t \in DOMAIN streams} = UNION {B(t) : t \in 1 .. n}
    <3> HIDE DEF A, B
    <3>. QED
      BY <1>1, <2>1
  <2>. QED
    BY <2>2, <2>3
<1>3. L * n \in Nat
  BY <1>1, TriesFact
<1> HIDE DEF n
<1>4. Cardinality(0 .. L * n - 1) = L * n
  BY <1>3, FS_Interval
<1>. QED
  BY <1>2, <1>4 DEF FreshY, n

LEMMA FreshInit == Init => FreshInv
BY TriesFact DEF Init, FreshInv, Trying, Checks

LEMMA FreshNext == SignInv /\ FreshInv /\ [Next]_vars => FreshInv'
<1> SUFFICES ASSUME SignInv, FreshInv, [Next]_vars PROVE FreshInv'
  OBVIOUS
<1>1. CASE Start
  <2>1. streams' = <<>> /\ nonce' = 0
    BY <1>1 DEF Start
  <2>2. 0 % Range16 = 0 /\ 0 <= MaxTries
    BY SmallMod, TriesAssumption
  <2>3. Len(streams') = 0 /\ streams' \in Seq([0 .. L - 1 -> Int])
    BY <2>1
  <2>. QED
    BY <2>1, <2>2, <2>3 DEF FreshInv
<1>2. ASSUME NEW f \in SUBSET Checks, Attempt(f) PROVE FreshInv'
  <2>1. /\ streams \in Seq([0 .. L - 1 -> Int]) /\ Len(streams) < MaxTries
        /\ \A t \in 1 .. Len(streams) : streams[t] = GammaStreams(t - 1)
        /\ nonce = Len(streams) % Range16
        /\ streams' = Append(streams, GammaStreams(nonce)) /\ nonce' = (nonce + 1) % Range16
    BY <1>2 DEF FreshInv, Attempt, Trying
  <2>2. nonce = Len(streams) /\ nonce \in Nat
    <3>1. Len(streams) \in Nat
      BY <2>1
    <3>2. Len(streams) % Range16 = Len(streams)
      <4>1. Len(streams) < Range16
        BY <2>1, <3>1, TriesFact
      <4>. QED
        BY <3>1, <4>1, SmallMod, TriesFact
    <3>. QED
      BY <2>1, <3>1, <3>2
  <2>3. GammaStreams(nonce) \in [0 .. L - 1 -> Int]
    BY <2>2, StreamsType
  <2>4. /\ streams' \in Seq([0 .. L - 1 -> Int]) /\ Len(streams') = Len(streams) + 1
        /\ \A t \in 1 .. Len(streams) : streams'[t] = streams[t]
        /\ streams'[Len(streams) + 1] = GammaStreams(nonce)
    BY <2>1, <2>3
  <2>5. ASSUME NEW t \in 1 .. Len(streams') PROVE streams'[t] = GammaStreams(t - 1)
    <3>1. t \in 1 .. Len(streams) \/ (t = Len(streams) + 1 /\ t - 1 = nonce)
      BY <2>1, <2>2, <2>4
    <3>. QED
      BY <3>1, <2>1, <2>4
  <2>6. Len(streams') <= MaxTries /\ nonce' = Len(streams') % Range16
    <3>1. PICK n, x : n = Len(streams) /\ x = Len(streams') /\ n = nonce /\ n \in Nat
      BY <2>2
    <3>2. x = n + 1 /\ n < MaxTries /\ nonce' = (n + 1) % Range16
      BY <2>1, <2>4, <3>1
    <3>3. x <= MaxTries
      BY <3>1, <3>2, TriesFact
    <3>. QED
      BY <3>1, <3>2, <3>3
  <2>. QED
    BY <2>4, <2>5, <2>6 DEF FreshInv, GammaStreams
<1>3. ASSUME NEW k \in Checks, Check(k) PROVE FreshInv'
  BY <1>3 DEF FreshInv, Check, Trying, GammaStreams
<1>4. CASE UNCHANGED <<nonce, streams>> /\ (pc' \in Trying => pc \in Trying)
  BY <1>4 DEF FreshInv, GammaStreams
<1>5. ASSUME NEW text \in Msgs, NEW p \in {0, Size}, NEW c \in Ctxs \cup {Long}, SignCall(text, p, c)
      PROVE  FreshInv'
  BY <1>5, <1>4 DEF SignCall, Trying, Checks
<1>6. ASSUME NEW p \in {0, Size}, NEW c \in Ctxs \cup {Long}, OpenCall(p, c)
      PROVE  FreshInv'
  BY <1>6, <1>4 DEF OpenCall, Trying, Checks
<1>7. ASSUME CopyByte \/ Refuse \/ Pack \/ OpenByte \/ Opened \/ WipeByte \/ Rejected
                \/ (\E a \in Addr : Damage(a)) \/ (\E n \in 0 .. Size : Truncate(n))
      PROVE  FreshInv'
  BY <1>7, <1>4 DEF CopyByte, Refuse, Pack, OpenByte, Opened, WipeByte, Rejected, Damage, Truncate,
     Trying, Checks
<1>8. CASE UNCHANGED vars
  BY <1>8, <1>4 DEF vars
<1>. QED
  BY <1>1, <1>2, <1>3, <1>5, <1>6, <1>7, <1>8 DEF Next

-----------------------------------------------------------------------------
\* The inductive invariant of signing and opening.
THEOREM SignInvariant == Spec => []SignInv
BY InitInv, NextInv, PTL DEF Spec

\* crypto_sign releases one attempt that every check let pass, for the message
\* and context of its caller, with that message behind it: for any messages, and
\* also where the message was at sm.
THEOREM ReleasedOnlyPassed == Spec => []Released
<1>1. SignInv => Released
  BY DEF SignInv, SmInv, Signed, Intact, Broken, Released
<1>. QED
  BY <1>1, SignInvariant, PTL

\* crypto_sign_open gives exactly what was signed, or zeros.
THEOREM OpenedExactly == Spec => []OpenExact
<1>1. SignInv => OpenExact
  BY DEF SignInv
<1>. QED
  BY <1>1, SignInvariant, PTL

\* As long as the nonce does not wrap, every y has streams of its own.
THEOREM StreamsFresh == Spec => []FreshY
<1>1. Spec => []FreshInv
  BY FreshInit, FreshNext, SignInvariant, PTL DEF Spec
<1>. QED
  BY <1>1, FreshCount, PTL
=============================================================================
