------------------------------- MODULE Hints --------------------------------
(***************************************************************************)
(* packing.c of ML-DSA: the hint vector h in a signature, as pack_sig      *)
(* writes it and unpack_sig reads it.  The OMEGA + K bytes are the         *)
(* positions of the ones of all polynomials, one polynomial after the      *)
(* other, and for each polynomial the index where its positions end.       *)
(*                                                                         *)
(* A signer's hints are packed and unpacked again; arbitrary bytes that    *)
(* unpack_sig accepts are unpacked and packed again.  An action is one     *)
(* round of the loop over the polynomials; a polynomial is the set of the  *)
(* positions of its ones.                                                  *)
(***************************************************************************)
EXTENDS Integers, FiniteSets

CONSTANTS
  Places,  \* DILITHIUM_N, and the number of values of a byte
  K,       \* DILITHIUM_K
  OMEGA    \* at most so many ones

ASSUME HintsAssumption ==
  /\ K \in Nat \ {0} /\ OMEGA \in Nat
  /\ Places \in Nat /\ OMEGA < Places    \* an end fits into a byte

Index == 0 .. OMEGA + K - 1
Byte  == 0 .. Places - 1
Polys == 0 .. K - 1
Clear == [p \in Polys |-> {}]

VARIABLES
  from,     \* history: "hints" or "bytes", what we began with
  given,    \* history: the value we began with
  turn,     \* pc: "pack", "unpack", "accepted", "rejected", "end"
  sig,      \* the bytes
  hints,    \* h
  poly,     \* i, the polynomial
  first     \* k, the index where its positions begin

HintsVars == <<from, given, turn, sig, hints, poly, first>>

\* A polynomial and a position of a one.
Ones(f) == {one \in Polys \X Byte : one[2] \in f[one[1]]}

-----------------------------------------------------------------------------
HintsInit ==
  /\ poly = 0 /\ first = 0
  /\ \/ /\ from = "bytes" /\ turn = "unpack"
        /\ sig \in [Index -> Byte]
        /\ given = sig
        /\ hints = Clear
     \/ /\ from = "hints" /\ turn = "pack"
        /\ hints \in [Polys -> SUBSET Byte]
        /\ Cardinality(Ones(hints)) <= OMEGA
        /\ given = hints
        /\ sig = [b \in Index |-> 0]

\* Mutant: k begins at 0 for each polynomial.
PackPolyRestarts ==
  /\ turn = "pack" /\ poly < K
  /\ LET At(x) == Cardinality({y \in hints[poly] : y < x})
         end   == Cardinality(hints[poly])
     IN  /\ sig' = [b \in Index |->
                      IF b = OMEGA + poly THEN end
                      ELSE IF \E x \in hints[poly] : At(x) = b THEN CHOOSE x \in hints[poly] : At(x) = b
                      ELSE sig[b]]
         /\ first' = end
  /\ poly' = poly + 1
  /\ UNCHANGED <<from, given, turn, hints>>

\* The positions of the ones of one polynomial, and where they end.
PackPoly ==
  /\ turn = "pack" /\ poly < K
  /\ LET At(x) == first + Cardinality({y \in hints[poly] : y < x})
         end   == first + Cardinality(hints[poly])
     IN  /\ sig' = [b \in Index |->
                      IF b = OMEGA + poly THEN end
                      ELSE IF \E x \in hints[poly] : At(x) = b THEN CHOOSE x \in hints[poly] : At(x) = b
                      ELSE sig[b]]
         /\ first' = end
  /\ poly' = poly + 1
  /\ UNCHANGED <<from, given, turn, hints>>

\* What was packed from hints goes to unpack_sig, whose hints is cleared.
Packed ==
  /\ turn = "pack" /\ poly = K
  /\ IF from = "hints"
     THEN turn' = "unpack" /\ hints' = Clear
     ELSE turn' = "end" /\ hints' = hints
  /\ poly' = 0 /\ first' = 0
  /\ UNCHANGED <<from, given, sig>>

End == sig[OMEGA + poly]

\* Mutant: equal neighbours are let through.
OrderedLoosely == \A j \in first + 1 .. End - 1 : sig[j] >= sig[j - 1]

\* if(j > k && sig[j] <= sig[j-1]) return 1.
Ordered == \A j \in first + 1 .. End - 1 : sig[j] > sig[j - 1]

\* if(sig[OMEGA + i] < k || sig[OMEGA + i] > OMEGA) return 1.
EndsWell == first <= End /\ End <= OMEGA

UnpackPoly ==
  /\ turn = "unpack" /\ poly < K
  /\ EndsWell /\ Ordered
  /\ hints' = [hints EXCEPT ![poly] = {sig[j] : j \in first .. End - 1}]
  /\ first' = End
  /\ poly' = poly + 1
  /\ UNCHANGED <<from, given, turn, sig>>

Malformed ==
  /\ turn = "unpack" /\ poly < K
  /\ ~(EndsWell /\ Ordered)
  /\ turn' = "rejected"
  /\ UNCHANGED <<from, given, sig, hints, poly, first>>

\* Extra indices are zero for strong unforgeability.
Rest ==
  /\ turn = "unpack" /\ poly = K
  /\ turn' = IF \A j \in first .. OMEGA - 1 : sig[j] = 0 THEN "accepted" ELSE "rejected"
  /\ UNCHANGED <<from, given, sig, hints, poly, first>>

\* Accepted bytes are packed again.
Again ==
  /\ turn = "accepted" /\ from = "bytes"
  /\ sig' = [b \in Index |-> 0]
  /\ poly' = 0 /\ first' = 0
  /\ turn' = "pack"
  /\ UNCHANGED <<from, given, hints>>

HintsNext == PackPoly \/ Packed \/ UnpackPoly \/ Malformed \/ Rest \/ Again

HintsSpec == HintsInit /\ [][HintsNext]_HintsVars

-----------------------------------------------------------------------------
\* Each hint vector has one encoding: bytes that unpack_sig accepts are those
\* that pack_sig writes, so that nobody makes a second signature of one.
OneEncoding == from = "bytes" /\ turn = "end" => sig = given

\* A signer's hints are never rejected, and come back as they were.
RoundTrip ==
  from = "hints" => turn # "rejected" /\ (turn = "accepted" => hints = given)
=============================================================================
