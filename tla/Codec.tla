------------------------------- MODULE Codec --------------------------------
(***************************************************************************)
(* A polynomial on its way through bytes: it is compressed, decompressed   *)
(* by the receiver, disturbed (by the noise of a decryption) and           *)
(* compressed again.                                                       *)
(***************************************************************************)
EXTENDS Compress

CONSTANTS
  Formats,     \* values of d
  Groups,      \* groups of eight coefficients, as poly_reduce leaves them
  Waves        \* directions of the noise

Balanced == -(KYBER_Q \div 2) .. KYBER_Q \div 2

ASSUME CodecAssumption ==
  /\ Formats \subseteq {1, 4, 5, 10, 11, 12}
  /\ Groups \subseteq [Group -> Balanced]
  /\ Waves \subseteq [Group -> {-1, 0, 1}]

VARIABLES
  format,        \* d
  given, coeffs, \* the coefficients: at first, and now
  sent, bytes,   \* the bytes: at first, and now
  stage          \* 0 .. 4

codecVars == <<format, given, coeffs, sent, bytes, stage>>

CodecInit ==
  /\ format \in Formats /\ given \in Groups
  /\ coeffs = given /\ sent = <<>> /\ bytes = <<>> /\ stage = 0

\* Noise that no rounding to d bits may see; in a message just below q/4.
Most(d) == IF d > 10 THEN 0 ELSE (KYBER_Q \div TwoTo(d + 1)) - 1

CompressIt ==
  /\ stage \in {0, 3}
  /\ bytes' = Encode(format, coeffs)
  /\ sent' = IF stage = 0 THEN bytes' ELSE sent
  /\ stage' = stage + 1
  /\ UNCHANGED <<format, given, coeffs>>

DecompressIt ==
  /\ stage = 1
  /\ coeffs' = Decode(format, bytes)
  /\ stage' = 2
  /\ UNCHANGED <<format, given, sent, bytes>>

Noisy(f, wave) == [i \in Group |-> Centre(f[i] + (wave[i] * Most(format)))]

Disturb(wave) ==
  /\ stage = 2
  /\ coeffs' = Noisy(coeffs, wave)
  /\ stage' = 3
  /\ UNCHANGED <<format, given, sent, bytes>>

CodecNext == CompressIt \/ DecompressIt \/ \E wave \in Waves : Disturb(wave)

CodecSpec == CodecInit /\ [][CodecNext]_codecVars

-----------------------------------------------------------------------------
\* What the variables hold at each stage; the properties below follow.
CodecInv ==
  /\ format \in Formats /\ given \in Groups /\ stage \in 0 .. 4
  /\ stage \in {0, 1} => coeffs = given
  /\ stage # 0 => sent = Encode(format, given)
  /\ stage \in {1, 2, 3, 4} => bytes = sent
  /\ stage = 2 => coeffs = Decode(format, sent)
  /\ stage \in {3, 4} => \E wave \in Waves : coeffs = Noisy(Decode(format, sent), wave)

\* Safety: the multiplications that replace the division by q round every
\* coefficient as the formulas left in the comments do.
Rounded ==
  stage = 1 /\ format < 12 =>
    \A i \in Group :
      unpack(format, bytes)[i] =
        (((Standard(given[i]) * TwoTo(format)) + (KYBER_Q \div 2)) \div KYBER_Q) % TwoTo(format)

\* Safety: noise below q/2^(d+1) - 1 does not change a byte: a message survives,
\* whatever the sign of its coefficients, and a key is rewritten as it was.
Survives == stage = 4 => bytes = sent
=============================================================================
