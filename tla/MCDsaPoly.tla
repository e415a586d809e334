----------------------------- MODULE MCDsaPoly ------------------------------
(* The data of ML-DSA: its arithmetic ("poly"), the rounding of its        *)
(* coefficients for each parameter set and the packing of its hints.       *)
(* The arithmetic has a modulus of the shape of 2^23 - 2^13 + 1, the width *)
(* as tight as in the code: one layer more, or inputs twice as large,      *)
(* overflow.  Rounding has the constants of the code, and coefficients     *)
(* next to the boundaries of its intervals.  Hints have a polynomial that  *)
(* may have all OMEGA ones, or none, and an end that may equal OMEGA.      *)
(* Where another part runs, DsaPoly stays in an initial state.             *)
EXTENDS DsaPolyRef, Hints, Rounding

VARIABLE which     \* the part that runs

\* Coefficients at the boundaries of the intervals of decompose.
Near(c, gap) == {v \in {c + u : u \in -gap .. gap} : 0 <= v /\ v < DILITHIUM_Q}
MCWs(m)  == UNION {Near(n * m.gamma2, 1) : n \in 0 .. (DILITHIUM_Q - 1) \div m.gamma2}
MCCS2(m) == {-m.beta, -m.beta \div 2, -1, 0, 1, m.beta \div 2, m.beta}
MCCT0(m) ==
  UNION {{-c, c} : c \in {0, 1, m.beta, m.beta + 1, m.gamma2 \div 2, m.gamma2 - m.beta,
                          m.gamma2 - 1, m.gamma2, m.gamma2 + 1}}

MCLens == <<16, 8, 4, 2, 1>>
Table  == <<0, -154, 200, -70, -134, 2, 184, 205, 204, 198, -193, 90, 44, -195, 20, -7,
            -216, -104, -139, 116, -73, 48, -74, -19, -43, -187, -142, -85, 158, -190, 31, -168>>
MCZetas == [m \in 0 .. 31 |-> Table[m + 1]]

\* Four coefficients in turn, all of them u, and u at one index only.
Turns(s) == [m \in Idx |-> s[(m % 4) + 1]]
Full(u)  == Turns(<<u, u, u, u>>)
At(j, u) == [m \in Idx |-> IF m = j THEN u ELSE 0]

Matrix == {<<Full(448), Turns(<<448, 0, 1, 224>>)>>, <<Full(444), Full(444)>>}
Secret == {<<Full(1), Turns(<<-1, 0, 1, 1>>)>>, <<At(1, 1), At(31, -1)>>}
Masks  == {<<Full(448), Turns(<<-448, 448, 0, 225>>)>>, <<At(0, 414), At(0, 414)>>}
Zero   == Full(0)

MCInputs ==
  [use : {"row"}, a : Matrix, s : Secret, c : {Zero}, t1 : {Zero}, e : {Turns(<<-1, 1, 0, 1>>)}]
  \cup [use : {"row"}, a : Matrix, s : Masks, c : {Zero}, t1 : {Zero}, e : {Zero}]
  \cup [use : {"verify"}, a : Matrix, s : Masks, c : {Turns(<<1, 0, -1, 0>>), At(0, 1)},
        t1 : {Full(7), At(0, 3)}, e : {Zero}]
  \cup [use : {"respond"}, a : {<<Zero, Zero>>}, s : Secret, c : {Turns(<<1, 0, -1, 0>>)},
        t1 : {Zero}, e : {Full(448), Turns(<<-448, 448, 0, 1>>)}]

NoPoly  == Init /\ in = CHOOSE n \in MCInputs : n.use = "respond"
NoRound == mode = 0 /\ w = 0 /\ w1 = 0 /\ w0 = 0 /\ moved = 0 /\ hint = 0 /\ w1v = 0 /\ state = ""
NoHints == from = "" /\ given = 0 /\ turn = "" /\ sig = 0 /\ hints = 0 /\ poly = 0 /\ first = 0

MCInit ==
  \/ which = "poly"  /\ Init /\ NoHints /\ NoRound
  \/ which = "hints" /\ HintsInit /\ NoPoly /\ NoRound
  \/ which = "round" /\ RoundInit /\ NoPoly /\ NoHints

MCNext ==
  \/ which = "poly"  /\ Next /\ UNCHANGED <<which, HintsVars, RoundVars>>
  \/ which = "hints" /\ HintsNext /\ UNCHANGED <<which, vars, RoundVars>>
  \/ which = "round" /\ RoundNext /\ UNCHANGED <<which, vars, HintsVars>>

MCSpec == MCInit /\ [][MCNext]_<<which, vars, HintsVars, RoundVars>>
=============================================================================
