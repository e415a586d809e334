------------------------------- MODULE Filter -------------------------------
(***************************************************************************)
(* What rejection sampling promises: the byte stream of the seed is cut    *)
(* into units of Unit bytes, a unit gives PerUnit candidates, and the      *)
(* coefficients are the first N candidates in the order of the stream that *)
(* pass the test.  Blocks and buffers do not occur.                        *)
(***************************************************************************)
EXTENDS Integers, Sequences

CONSTANTS
  Unit,     \* bytes of a unit: 3 for rej_uniform, 1 for rej_eta
  PerUnit,  \* candidates of a unit: 2, or 1 in rej_uniform of ML-DSA
  N,        \* coefficients of a polynomial
  Streams   \* the seeds, as the sets of <<byte, half>> that pass the test

VARIABLES
  good,     \* the stream
  at,       \* the first byte of the unit to be looked at next
  half,     \* and which of its candidates
  taken     \* the coefficients so far, each as the candidate it came from

vars == <<good, at, half, taken>>

\* The candidate number h of the bytes at b, b + 1, ..., b + Unit - 1.
Candidate(b, h) == [bytes |-> [j \in 0 .. Unit - 1 |-> b + j], half |-> h]

Init ==
  /\ good \in Streams
  /\ at = 0
  /\ half = 0
  /\ taken = <<>>

\* Look at the next candidate as long as a coefficient is missing.
Examine ==
  /\ Len(taken) < N
  /\ taken' = IF <<at, half>> \in good THEN Append(taken, Candidate(at, half)) ELSE taken
  /\ IF half + 1 < PerUnit
     THEN half' = half + 1 /\ at' = at
     ELSE half' = 0 /\ at' = at + Unit
  /\ UNCHANGED good

Spec == Init /\ [][Examine]_vars
=============================================================================
