------------------------------ MODULE MCBench -------------------------------
(* The benchmark ("bench") and the printing of its lines ("print").          *)
(* Small instance: a cycle counter of three bits, so that it wraps around.   *)
(* An int has nine bits, which makes the buffer of five as tight as that of  *)
(* twelve is for 32 bits: "-256" and "-2147483648" fill it.                  *)
EXTENDS Bench

VARIABLES which, line, format, args, text, count

Item(conv, text_, minus, zero, width, v) ==
  [conv |-> conv, text |-> text_, minus |-> minus, zero |-> zero, width |-> width, v |-> v]
Plain(c) == Item("", c, FALSE, FALSE, 0, 0)

Ints   == {-256, -255, -10, -1, 0, 1, 99, 255}
Widths == {0, 1, 3, 4, 12}

\* Single conversions, and lines like those of the benchmarks; the last one is
\* "%.2f%%", which print_lib.c does not know.
MCLines ==
  {<<Item(c, "", minus, zero, width, v)>> :
     c \in {"d", "u", "x", "X"}, minus \in BOOLEAN, zero \in BOOLEAN, width \in Widths, v \in Ints}
  \cup {<<Item("s", "", minus, FALSE, width, v), Plain(":"), Item("d", "", FALSE, FALSE, 0, i),
          Plain("%"), Item("c", "", FALSE, FALSE, 0, <<"!">>)>> :
        minus \in BOOLEAN, width \in Widths, v \in {<<>>, <<"n", "t", "t">>}, i \in Ints}
  \cup {<<Item(".", "", FALSE, FALSE, 0, 1), Plain("2"), Plain("f"), Plain("%")>>}

P == INSTANCE PrintLib WITH Word <- 512, BufLen <- 5, Lines <- MCLines

MCInit ==
  \/ which = "bench" /\ BenchInit /\ line = <<>> /\ format = <<>> /\ args = <<>> /\ text = <<>> /\ count = 0
  \/ which = "print" /\ P!Init /\ phase = Over /\ now = 0 /\ n = None /\ cyc = None /\ calls = <<>>

MCNext ==
  \/ which = "bench" /\ BenchNext /\ UNCHANGED <<which, line, format, args, text, count>>
  \/ which = "print" /\ P!Next /\ UNCHANGED <<which, BenchVars>>
  \/ which = "print" /\ format = <<>> /\ UNCHANGED <<which, BenchVars, line, format, args, text, count>>

MCSpec == MCInit /\ [][MCNext]_<<which, BenchVars, line, format, args, text, count>>

-----------------------------------------------------------------------------
\* A printed line is that of the C standard.
Printed == P!Printed
=============================================================================
