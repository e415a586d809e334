------------------------------- MODULE Reduce -------------------------------
(***************************************************************************)
(* reduce.c of ML-KEM and of ML-DSA: reductions modulo Q in integers of    *)
(* w bits, with R = 2^w.  The two schemes differ in the constants only:    *)
(* w is 16 and 32, and Shift is 2^26 (of barrett_reduce) and 2^23 (of      *)
(* reduce32).                                                              *)
(***************************************************************************)
EXTENDS Integers

CONSTANTS
  Q,       \* KYBER_Q, DILITHIUM_Q
  QInv,    \* QINV, the inverse of Q modulo R
  Half,    \* R/2: a coefficient is in -Half .. Half - 1
  Shift    \* the power of two that the estimate of a quotient is divided by

ASSUME ReduceAssumption ==
  /\ Q \in Nat \ {0} /\ Half \in Nat \ {0} /\ Shift \in Nat \ {0} /\ QInv \in Int
  /\ Q % 2 = 1 /\ Shift % 2 = 0
  /\ (Q * QInv) % (2 * Half) = 1

R == 2 * Half

\* What an assignment to a coefficient keeps of x.
Wrap(x) == ((x + Half) % R) - Half
Fits(x) == -Half <= x /\ x < Half

montgomery_reduce(a) ==
  LET t == Wrap(Wrap(a) * QInv)
  IN  Wrap((a - t * Q) \div R)

barrett_reduce(a) ==
  LET v == (Shift + (Q \div 2)) \div Q
      t == Wrap(((v * a) + (Shift \div 2)) \div Shift)
  IN  Wrap(a - Wrap(t * Q))

reduce32(a) ==
  LET t == Wrap(a + (Shift \div 2)) \div Shift
  IN  Wrap(a - t * Q)

caddq(a) == IF a < 0 THEN a + Q ELSE a
=============================================================================
