------------------------------- MODULE Bench --------------------------------
(***************************************************************************)
(* The benchmark of ML-KEM on the RISC-V core: the counters n_* and *_cyc  *)
(* that the functions of mlkem_ref keep of themselves, and test_speed.c,   *)
(* which runs the phases of the benchmark, prints the counters after each  *)
(* and resets them.                                                        *)
(*                                                                         *)
(* Five functions stand for all: KeccakF1600_StatePermute for those that   *)
(* keep both counters and have both reset, the others for themselves.  The *)
(* cycle counter wraps around, as do the 32-bit values read from it.       *)
(***************************************************************************)
EXTENDS Integers, Sequences, FiniteSets

CONSTANTS
  Range32,     \* 2^32: the values of the cycle counter as uint32_t
  Durations,   \* the cycles that a call may take
  MaxCalls     \* bound on the calls in a phase

ASSUME DurationsAssumption ==
  /\ Range32 \in Nat \ {0}
  /\ Durations \subseteq {d \in Nat : 0 < d /\ 2 * d < Range32}

Functions == {"statepermute", "poly_add", "poly_cbd_eta1", "poly_cbd_eta2", "rkprf"}

\* gen_a ... indcpa_dec, which print nothing, and the five that do.
Phases == 0 .. 5
KeypairPhases == {1, 2}
Decaps == 5
Over   == 6

VARIABLES
  phase,
  now,      \* MCYCLE, as uint32_t
  n,        \* n_statepermute, n_poly_add, ...
  cyc,      \* statepermute_cyc, poly_add_cyc, ...
  calls     \* history: the calls of this phase, and the cycles they took

BenchVars == <<phase, now, n, cyc, calls>>

None == [f \in Functions |-> 0]

BenchInit ==
  /\ phase = 0
  /\ now \in 0 .. Range32 - 1
  /\ n = None /\ cyc = None
  /\ calls = <<>>

-----------------------------------------------------------------------------
\* The counter that f increments: poly_cbd_eta2 has that of poly_cbd_eta1.
Counter(f) == IF f = "poly_cbd_eta2" THEN "poly_cbd_eta1" ELSE f

\* Whether f takes the average with its old value.  poly_cbd_eta1 tests its own
\* address where the others test their *_cyc.
Averages(f) == f = "poly_cbd_eta1" \/ cyc[f] # 0

\* Mutant: the difference is taken of 64-bit values.
ElapsedLong(cnt1, cnt2) == cnt2 - cnt1 + (IF cnt2 < cnt1 THEN Range32 * Range32 ELSE 0)

\* cnt2 - cnt1 of uint32_t values.
Elapsed(cnt1, cnt2) == (cnt2 - cnt1) % Range32

\* rkprf is called by decapsulation alone, poly_cbd_eta2 not by key generation.
Called(f) ==
  /\ f = "rkprf" => phase = Decaps
  /\ f = "poly_cbd_eta2" => phase \notin KeypairPhases

\* An instrumented function is called and takes d cycles.
Call(f, d) ==
  /\ phase \in Phases
  /\ Called(f)
  /\ Len(calls) < MaxCalls
  /\ LET cnt2 == (now + d) % Range32
         took == Elapsed(now, cnt2)
     IN  /\ now' = cnt2
         /\ n' = [n EXCEPT ![Counter(f)] = @ + 1]
         /\ cyc' = [cyc EXCEPT ![f] = IF Averages(f) THEN (@ + took) \div 2 ELSE took]
  /\ calls' = Append(calls, [f |-> f, d |-> d])
  /\ UNCHANGED phase

\* Mutant: n_statepermute = 0 is missing.
ResetValsLess ==
  /\ n' = [f \in Functions |-> IF f \in {"rkprf", "statepermute"} THEN n[f] ELSE 0]
  /\ cyc' = [f \in Functions |-> IF f \in {"rkprf", "poly_add"} THEN cyc[f] ELSE 0]

\* reset_vals: not n_rkprf, rkprf_cyc, poly_add_cyc.
ResetVals ==
  /\ n' = [f \in Functions |-> IF f = "rkprf" THEN n[f] ELSE 0]
  /\ cyc' = [f \in Functions |-> IF f \in {"rkprf", "poly_add"} THEN cyc[f] ELSE 0]

\* A phase ends: print_stuff prints n and cyc as they are (the first phase
\* prints none) and resets them; MCYCLE is set to 0.
EndPhase ==
  /\ phase \in Phases
  /\ ResetVals
  /\ now' = 0
  /\ calls' = <<>>
  /\ phase' = phase + 1

Finished == phase = Over /\ UNCHANGED BenchVars

BenchNext ==
  \/ \E f \in Functions, d \in Durations : Call(f, d)
  \/ EndPhase
  \/ Finished

BenchSpec == BenchInit /\ [][BenchNext]_BenchVars

-----------------------------------------------------------------------------
CallsOf(f) == {i \in 1 .. Len(calls) : calls[i].f = f}

\* The number of calls that print_stuff would print is that of this phase: for
\* each function with a counter of its own, also where reset_vals leaves it.
\* The number for poly_cbd_eta1 is that of poly_cbd_eta1 and poly_cbd_eta2, and
\* the number for poly_cbd_eta2 is 0.
CallsReported ==
  phase \in Phases =>
    /\ \A f \in {"statepermute", "poly_add", "rkprf"} : n[f] = Cardinality(CallsOf(f))
    /\ n["poly_cbd_eta1"] = Cardinality(CallsOf("poly_cbd_eta1") \cup CallsOf("poly_cbd_eta2"))
    /\ n["poly_cbd_eta2"] = 0

\* The cycles it would print lie between the shortest and the longest call of
\* this phase, also when the cycle counter wrapped around during a call.
CyclesReported ==
  phase \in Phases =>
    \A f \in {"statepermute", "poly_cbd_eta2", "rkprf"} :
      IF CallsOf(f) = {}
      THEN cyc[f] = 0
      ELSE \E i, j \in CallsOf(f) : calls[i].d <= cyc[f] /\ cyc[f] <= calls[j].d

\* "Reset all counters": a phase begins with all counters at zero.
CountersReset == calls = <<>> => n = None /\ cyc = None
=============================================================================
