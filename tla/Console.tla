------------------------------ MODULE Console -------------------------------
(***************************************************************************)
(* What a program that runs on the FLPR core promises to the terminal: it  *)
(* prints its text from the beginning, each character once and in order,   *)
(* and a reset makes it start again.                                       *)
(***************************************************************************)
EXTENDS Sequences, Naturals

CONSTANT Text     \* what the program prints

VARIABLE out      \* what the terminal has received since the last reset

Init == out = <<>>

Show == Len(out) < Len(Text) /\ out' = Append(out, Text[Len(out) + 1])

Reset == out' = <<>>

Spec == Init /\ [][Show \/ Reset]_out
=============================================================================
