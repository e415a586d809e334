------------------------------ MODULE PrintLib -------------------------------
(***************************************************************************)
(* print_lib.c: printf of the programs that run on the bare chip, over the *)
(* characters of the format, one conversion or character in a step.  What  *)
(* it hands to hal_uarte_char_write is collected in text.                  *)
(***************************************************************************)
EXTENDS Integers, Sequences, SequencesExt

CONSTANTS
  Word,      \* 2^32: the number of ints
  BufLen,    \* PRINT_BUF_LEN
  Lines      \* what is printed: sequences of items, see below

\* A character, or a conversion and the value of its argument: a string for
\* conv = "s", a character in a string for "c", and an int for the others.
Plain(c) == [conv |-> "", text |-> c, minus |-> FALSE, zero |-> FALSE, width |-> 0, v |-> 0]
Conv(c, minus, zero, width, v) ==
  [conv |-> c, text |-> "", minus |-> minus, zero |-> zero, width |-> width, v |-> v]

Figures == <<"0", "1", "2", "3", "4", "5", "6", "7", "8", "9", "a", "b", "c", "d", "e", "f">>
Capital == <<"0", "1", "2", "3", "4", "5", "6", "7", "8", "9", "A", "B", "C", "D", "E", "F">>
IsFigure(c) == \E n \in 1 .. 10 : c = Figures[n]
Figure(c)   == (CHOOSE n \in 1 .. 10 : c = Figures[n]) - 1

\* The characters of the format that a programmer writes for the items.
Written(items) ==
  FlattenSeq([n \in 1 .. Len(items) |->
    LET m == items[n]
    IN  IF m.conv = "" THEN IF m.text = "%" THEN <<"%", "%">> ELSE <<m.text>>
        ELSE <<"%">> \o (IF m.minus THEN <<"-">> ELSE <<>>) \o (IF m.zero THEN <<"0">> ELSE <<>>)
             \o (IF m.width > 9 THEN <<Figures[(m.width \div 10) + 1]>> ELSE <<>>)
             \o (IF m.width > 0 THEN <<Figures[(m.width % 10) + 1]>> ELSE <<>>) \o <<m.conv>>])

Values(items) ==
  LET convs == SelectSeq(items, LAMBDA m : m.conv # "") IN [n \in 1 .. Len(convs) |-> convs[n].v]

VARIABLES
  line,      \* history: the items
  format,    \* what is left of the format
  args,      \* and of the arguments
  text,      \* the characters sent to the console
  count      \* pc, what print returns

vars == <<line, format, args, text, count>>

Init ==
  /\ line \in Lines
  /\ format = Written(line) /\ args = Values(line)
  /\ text = <<>> /\ count = 0

-----------------------------------------------------------------------------
Repeat(c, n) == [j \in 1 .. n |-> c]

\* Mutant: a string as long as the width, or longer, keeps the width.
printsWide(string, width, right, zero) ==
  LET fill == Repeat(IF width > 0 /\ zero THEN "0" ELSE " ",
                     IF Len(string) >= width THEN width ELSE width - Len(string))
  IN  IF right THEN string \o fill ELSE fill \o string

prints(string, width, right, zero) ==
  LET fill == Repeat(IF width > 0 /\ zero THEN "0" ELSE " ",
                     IF Len(string) >= width THEN 0 ELSE width - Len(string))
  IN  IF right THEN string \o fill ELSE fill \o string

\* while(u): the figures from the last to the first, none for zero.
Digits(u, b, letters) ==
  LET F[n \in 0 .. Word] == IF n = 0 THEN <<>> ELSE Append(F[n \div b], letters[(n % b) + 1])
  IN  F[u]

\* printi: the sign comes before zeros, or stands in front of the figures.
printi(i, b, sg, width, right, zero, letters) ==
  LET neg   == sg /\ b = 10 /\ i < 0
      u     == (IF neg THEN -i ELSE i) % Word
      first == neg /\ width > 0 /\ zero
      s     == (IF neg /\ ~first THEN <<"-">> ELSE <<>>) \o Digits(u, b, letters)
  IN  IF i = 0 THEN prints(<<"0">>, width, right, zero)
      ELSE IF Len(s) + 1 > BufLen THEN <<"overrun">>
      ELSE IF first THEN <<"-">> \o prints(s, width - 1, right, zero)
      ELSE prints(s, width, right, zero)

-----------------------------------------------------------------------------
Emit(t) == text' = text \o t /\ count' = count + Len(t)
Drop(n) == format' = SubSeq(format, n + 1, Len(format))

\* The first index from n on whose character is not of the kind.
SkipFrom(n, Chars(_)) ==
  CHOOSE j \in n .. Len(format) :
    /\ \A l \in n .. j - 1 : Chars(format[l])
    /\ ~Chars(format[j])

Char ==
  /\ format # <<>> /\ format[1] # "%"
  /\ Emit(<<format[1]>>) /\ Drop(1)
  /\ UNCHANGED <<line, args>>

Percent ==
  /\ Len(format) > 1 /\ format[1] = "%" /\ format[2] = "%"
  /\ Emit(<<"%">>) /\ Drop(2)
  /\ UNCHANGED <<line, args>>

\* A conversion that print does not know is dropped, and no argument taken.
Conversion ==
  /\ Len(format) > 1 /\ format[1] = "%" /\ format[2] # "%"
  /\ LET right == format[2] = "-"
         flags == IF right THEN 3 ELSE 2
         from  == SkipFrom(flags, LAMBDA c : c = "0")
         at    == SkipFrom(from, IsFigure)
         zero  == from > flags
         width == FoldLeft(LAMBDA w, c : (10 * w) + Figure(c), 0, SubSeq(format, from, at - 1))
         known == format[at] \in {"s", "c", "d", "u", "x", "X"}
     IN  /\ CASE format[at] \in {"s", "c"} -> Emit(prints(args[1], width, right, zero))
              [] format[at] = "d" -> Emit(printi(args[1], 10, TRUE, width, right, zero, Figures))
              [] format[at] = "u" -> Emit(printi(args[1], 10, FALSE, width, right, zero, Figures))
              [] format[at] = "x" -> Emit(printi(args[1], 16, FALSE, width, right, zero, Figures))
              [] format[at] = "X" -> Emit(printi(args[1], 16, FALSE, width, right, zero, Capital))
              [] OTHER -> Emit(<<>>)
         /\ args' = IF known THEN Tail(args) ELSE args
         /\ Drop(at)
  /\ UNCHANGED line

Next == Char \/ Percent \/ Conversion

-----------------------------------------------------------------------------
Standard(m) ==
  LET value  == IF m.conv = "d" /\ m.v < 0 THEN -m.v ELSE m.v % Word
      sign   == IF m.conv = "d" /\ m.v < 0 THEN <<"-">> ELSE <<>>
      digits == CASE value = 0     -> <<"0">>
                  [] m.conv = "x" -> Digits(value, 16, Figures)
                  [] m.conv = "X" -> Digits(value, 16, Capital)
                  [] OTHER        -> Digits(value, 10, Figures)
      body   == CASE m.conv = "" -> <<m.text>> [] m.conv \in {"s", "c"} -> m.v [] OTHER -> sign \o digits
      Fill(c) == Repeat(c, IF Len(body) < m.width THEN m.width - Len(body) ELSE 0)
  IN  CASE m.minus -> body \o Fill(" ")
        [] m.zero  -> (sign \o Fill("0")) \o digits
        [] OTHER   -> Fill(" ") \o body

\* What print_lib.c covers of the standard: not both flags, no zeros for
\* strings, no precision, no length modifier.
Supported(m) ==
  /\ m.conv \in {"", "s", "c", "d", "u", "x", "X"}
  /\ ~(m.minus /\ m.zero) /\ ~(m.conv \in {"s", "c"} /\ m.zero)

\* Safety: a line of supported conversions appears on the console as the C
\* standard defines it, INT_MIN and widths included, all its arguments and no
\* more are taken, its length is returned, and the buffer of printi is never
\* too small.
Printed ==
  format = <<>> /\ (\A n \in 1 .. Len(line) : Supported(line[n])) =>
    /\ text = FlattenSeq([n \in 1 .. Len(line) |-> Standard(line[n])])
    /\ count = Len(text) /\ args = <<>>
=============================================================================
