------------------------------ MODULE Rounding ------------------------------
(***************************************************************************)
(* rounding.c of ML-DSA and how sign.c uses it, for one coefficient.       *)
(*                                                                         *)
(* Signer: w is decomposed, c*s2 is subtracted from its low bits and c*t0  *)
(* added, each with a check that may reject, and a hint is made.  Verifier:*)
(* knows w - c*s2 + c*t0 and the hint, and must find the signer's high     *)
(* bits.                                                                   *)
(***************************************************************************)
EXTENDS Integers

\* gamma2 is (DILITHIUM_Q - 1)/88 or (DILITHIUM_Q - 1)/32; decompose divides
\* by means of factor and scale.
DILITHIUM_Q == 8380417
Modes ==
  {[gamma2 |-> 95232,  beta |-> 78,  factor |-> 11275, scale |-> 16777216],
   [gamma2 |-> 261888, beta |-> 196, factor |-> 1025,  scale |-> 4194304],
   [gamma2 |-> 261888, beta |-> 120, factor |-> 1025,  scale |-> 4194304]}

CONSTANTS
  Ws(_),            \* coefficients of w, standard representatives
  CS2(_), CT0(_)    \* coefficients of c*s2 and c*t0, of reduced polynomials

ASSUME RoundingAssumption ==
  \A m \in Modes :
    /\ Ws(m) \subseteq 0 .. DILITHIUM_Q - 1
    /\ CS2(m) \subseteq -m.beta .. m.beta    \* beta is TAU*ETA
    /\ CT0(m) \subseteq Int

VARIABLES
  mode,       \* the parameter set
  w,         \* history: the signer's w
  w1, w0,    \* what decompose returns
  moved,     \* history: c*t0 - c*s2
  hint,      \* of make_hint
  w1v,       \* the verifier's w1
  state      \* pc: "w", "w0", "ct0", "use", "rej", "verified"

RoundVars == <<mode, w, w1, w0, moved, hint, w1v, state>>

Top(m)  == (DILITHIUM_Q - 1) \div (2 * m.gamma2)     \* high bits are 0 .. Top - 1
Norm(v) == IF v < 0 THEN -v ELSE v

RoundInit ==
  /\ mode \in Modes /\ w \in Ws(mode) /\ state = "w"
  /\ w1 = 0 /\ w0 = 0 /\ moved = 0 /\ hint = 0 /\ w1v = 0

\* a1 &= 15, or a1 ^= ((43 - a1) >> 31) & a1: Top becomes 0.
HighBits(m, a) ==
  LET h == ((((a + 127) \div 128) * m.factor) + (m.scale \div 2)) \div m.scale
  IN  IF h >= Top(m) THEN 0 ELSE h

LowBits(m, a) ==
  LET l == a - (HighBits(m, a) * 2 * m.gamma2)
  IN  IF l > (DILITHIUM_Q - 1) \div 2 THEN l - DILITHIUM_Q ELSE l

\* Mutant: -GAMMA2 never needs a hint.
MakeHintOpen(m, a0, a1) == IF a0 > m.gamma2 \/ a0 < -m.gamma2 THEN 1 ELSE 0

make_hint(m, a0, a1) ==
  IF a0 > m.gamma2 \/ a0 < -m.gamma2 \/ (a0 = -m.gamma2 /\ a1 # 0) THEN 1 ELSE 0

use_hint(m, a, b) ==
  IF b = 0 THEN HighBits(m, a)
  ELSE IF LowBits(m, a) > 0 THEN (HighBits(m, a) + 1) % Top(m) ELSE (HighBits(m, a) - 1) % Top(m)

Decompose ==
  /\ state = "w"
  /\ w1' = HighBits(mode, w) /\ w0' = LowBits(mode, w)
  /\ state' = "w0"
  /\ UNCHANGED <<mode, w, moved, hint, w1v>>

\* Mutant: BETA is not taken off the bound.
SubtractLoosely(u) ==
  /\ state = "w0"
  /\ w0' = w0 - u /\ moved' = -u
  /\ state' = IF Norm(w0 - u) >= mode.gamma2 + mode.beta THEN "rej" ELSE "ct0"
  /\ UNCHANGED <<mode, w, w1, hint, w1v>>

\* polyveck_sub, polyveck_reduce (w0 is small) and chknorm(w0, GAMMA2 - BETA).
Subtract(u) ==
  /\ state = "w0"
  /\ w0' = w0 - u /\ moved' = -u
  /\ state' = IF Norm(w0 - u) >= mode.gamma2 - mode.beta THEN "rej" ELSE "ct0"
  /\ UNCHANGED <<mode, w, w1, hint, w1v>>

\* chknorm(h, GAMMA2), polyveck_add and polyveck_make_hint.
Hint(u) ==
  /\ state = "ct0"
  /\ IF Norm(u) >= mode.gamma2
     THEN state' = "rej" /\ UNCHANGED <<w0, moved, hint>>
     ELSE /\ w0' = w0 + u /\ moved' = moved + u
          /\ hint' = make_hint(mode, w0 + u, w1)
          /\ state' = "use"
  /\ UNCHANGED <<mode, w, w1, w1v>>

\* The verifier's arithmetic ends with the standard representative.
UseHint ==
  /\ state = "use"
  /\ w1v' = use_hint(mode, (w + moved) % DILITHIUM_Q, hint)
  /\ state' = "verified"
  /\ UNCHANGED <<mode, w, w1, w0, moved, hint>>

RoundNext ==
  \/ Decompose
  \/ \E u \in CS2(mode) : Subtract(u)
  \/ \E u \in CT0(mode) : Hint(u)
  \/ UseHint

RoundSpec == RoundInit /\ [][RoundNext]_RoundVars

-----------------------------------------------------------------------------
\* Safety: whenever the signer releases a hint, the verifier gets the signer's
\* w1 from w - c*s2 + c*t0, also across 0 and across the wrap of the high bits.
HintRecovers == state = "verified" => w1v = w1

\* Safety: once w0 - c*s2 passed its check, the high bits of w - c*s2 are
\* those of w, for every c*s2 within BETA ("does not change high bits of w").
HighKept ==
  state = "ct0" =>
    \A u \in -mode.beta .. mode.beta : HighBits(mode, (w + moved + u) % DILITHIUM_Q) = w1
=============================================================================
