------------------------------ MODULE VprProof ------------------------------
(***************************************************************************)
(* Proofs about the programs of the VPR core: that it runs from a complete *)
(* image and that the terminal sees prefixes of the text, for every text,  *)
(* whenever and however often the chip is reset; and that the benchmark    *)
(* that runs there prints the counts and cycles of its phases.             *)
(***************************************************************************)
EXTENDS Boot, Bench, FiniteSetTheorems, TLAPS

USE TextAssumption

\* The words that the launcher has copied, from the end of the image.
CopyInv ==
  /\ r3 \in 0 .. Size
  /\ m33 = "copy" => r3 > 0
  /\ ram = [i \in 1 .. Len(Text) |-> ram[i]]
  /\ \A i \in 1 .. Len(Text) : m33 # "copy" \/ i > r3 => ram[i] = Text[i]

\* The registers are set one after the other, and only then the core runs.
OrderInv ==
  /\ m33 \in {"copy", "perm", "initpc", "run", "sleep"}
  /\ m33 \in {"initpc", "run", "sleep"} => secure
  /\ m33 \in {"run", "sleep"} => initpc
  /\ cpurun => m33 = "sleep"
  /\ vpr \in {"off", "startup", "main"}
  /\ vpr # "off" => cpurun

\* A core that has not reached main has not touched the UARTE.
QuietInv ==
  vpr # "main" => drv = "idle" /\ tx = "idle" /\ ~txdrdy /\ wire = <<>>

\* The terminal has every character before next; or all but the last of them,
\* which the driver was given and has not sent yet.
Idle    == Len(wire) = next - 1 /\ ~txdrdy
Pending == Len(wire) = next - 2 /\ ~txdrdy /\ next > 1 /\ ch = Text[next - 1]

DriverInv ==
  /\ next \in 1 .. Size
  /\ m_initialized => enabled
  /\ \/ drv = "idle"  /\ Idle /\ tx = "idle"
     \/ drv = "init"  /\ Pending /\ tx = "idle"
     \/ drv = "fill"  /\ Pending /\ tx = "idle" /\ enabled
     \/ drv = "start" /\ Pending /\ tx = "idle" /\ enabled /\ m_tx_buf = ch
     \/ drv = "wait"  /\ Pending /\ tx = "fetch" /\ m_tx_buf = ch
     \/ drv = "wait"  /\ Pending /\ tx = "send" /\ shift = ch
     \/ drv = "wait"  /\ Len(wire) = next - 1 /\ tx = "ended" /\ txdrdy
     \/ drv = "stop"  /\ Idle /\ tx = "ended"

PrintInv == wire \in Seq(STRING) /\ (vpr = "main" => DriverInv)

BootInv == CopyInv /\ OrderInv /\ QuietInv /\ PrintInv

-----------------------------------------------------------------------------
LEMMA SizeFact == Len(Text) \in Nat /\ Len(Text) > 0 /\ Size = Len(Text) + 1 /\ Size \in Nat
BY DEF Size

\* The power comes on.
LEMMA BootInit == Init => BootInv
<1> SUFFICES ASSUME Init PROVE BootInv
  OBVIOUS
<1>1. CopyInv
  BY SizeFact DEF Init, CopyInv
<1>2. OrderInv /\ QuietInv /\ PrintInv
  BY DEF Init, OrderInv, QuietInv, PrintInv
<1> QED
  BY <1>1, <1>2 DEF BootInv

\* The launcher keeps the invariant: the core is off while it works.
LEMMA LauncherKeeps == ASSUME BootInv, Launcher PROVE BootInv'
<1> USE DEF BootInv
<1>1. m33 # "sleep" /\ ~cpurun /\ vpr = "off"
  BY DEF Launcher, CopyWord, Perm, InitPc, Run, OrderInv
<1>2. CASE CopyWord
  <2>1. CopyInv'
    <3>1. CASE r3 = Size
      <4>1. r3' = Len(Text) /\ ram' = ram /\ m33' = "copy"
        BY <1>2, <3>1, SizeFact DEF CopyWord
      <4> QED
        BY <4>1, SizeFact DEF CopyInv
    <3>2. CASE r3 # Size
      <4>1. /\ m33 = "copy" /\ r3 \in 1 .. Len(Text) /\ r3' = r3 - 1
            /\ ram' = [ram EXCEPT ![r3] = Text[r3]]
            /\ m33' = IF r3' > 0 THEN "copy" ELSE "perm"
        BY <1>2, <3>2, SizeFact DEF CopyWord, CopyInv
      <4>2. ram' = [i \in 1 .. Len(Text) |-> ram'[i]]
        BY <4>1 DEF CopyInv
      <4>3. ASSUME NEW i \in 1 .. Len(Text), i > r3' PROVE ram'[i] = Text[i]
        BY <4>1, <4>3, SizeFact DEF CopyInv
      <4>4. ASSUME m33' # "copy" PROVE r3' = 0
        BY <4>1, <4>4, SizeFact
      <4> QED
        BY <4>1, <4>2, <4>3, <4>4, SizeFact DEF CopyInv
    <3> QED
      BY <3>1, <3>2
  <2>2. OrderInv' /\ QuietInv' /\ PrintInv'
    BY <1>1, <1>2 DEF CopyWord, OrderInv, QuietInv, PrintInv
  <2> QED
    BY <2>1, <2>2
<1>3. CASE Perm
  BY <1>1, <1>3 DEF Perm, uarteVars, CopyInv, OrderInv, QuietInv, PrintInv
<1>4. CASE InitPc
  BY <1>1, <1>4 DEF InitPc, uarteVars, CopyInv, OrderInv, QuietInv, PrintInv
<1>5. CASE Run
  BY <1>1, <1>5 DEF Run, uarteVars, CopyInv, OrderInv, QuietInv, PrintInv
<1> QED
  BY <1>2, <1>3, <1>4, <1>5 DEF Launcher

-----------------------------------------------------------------------------
\* The start-up code reaches main with a quiet UARTE and a cleared .bss.
LEMMA StartupKeeps == ASSUME BootInv, VprReset \/ ClearBss PROVE BootInv'
<1> USE DEF BootInv
<1>1. CASE VprReset
  BY <1>1 DEF VprReset, uarteVars, CopyInv, OrderInv, QuietInv, PrintInv
<1>2. CASE ClearBss
  <2>1. CopyInv' /\ OrderInv' /\ QuietInv'
    BY <1>2 DEF ClearBss, CopyInv, OrderInv, QuietInv
  <2>2. PrintInv'
    <3>1. Len(wire) = 0 /\ 1 \in 1 .. Size
      BY <1>2, SizeFact DEF ClearBss, QuietInv
    <3> QED
      BY <1>2, <3>1 DEF ClearBss, OrderInv, QuietInv, PrintInv, DriverInv, Idle
  <2> QED
    BY <2>1, <2>2
<1> QED
  BY <1>1, <1>2

\* The character that is handed to the driver is the next one of the text.
LEMMA PrintCharKeeps == ASSUME BootInv, PrintChar PROVE BootInv'
<1> USE DEF BootInv
<1>1. CopyInv' /\ OrderInv' /\ QuietInv'
  BY DEF PrintChar, CharWrite, CopyInv, OrderInv, QuietInv
<1>2. /\ vpr = "main" /\ m33 = "sleep" /\ drv = "idle" /\ tx = "idle" /\ Idle
      /\ next \in 1 .. Len(Text) /\ next' = next + 1
  BY SizeFact DEF PrintChar, CharWrite, OrderInv, PrintInv, DriverInv
<1>3. ch' = Text[next]
  BY <1>2 DEF PrintChar, CharWrite, CopyInv
<1>4. next' \in 1 .. Size /\ Pending'
  BY <1>2, <1>3, SizeFact DEF PrintChar, CharWrite, Pending, Idle
<1>5. (m_initialized => enabled)' /\ tx' = "idle"
  BY <1>2 DEF PrintChar, CharWrite, PrintInv, DriverInv
<1>6. drv' = "init" \/ (drv' = "fill" /\ enabled')
  BY <1>2 DEF PrintChar, CharWrite, PrintInv, DriverInv
<1>7. DriverInv'
  BY <1>4, <1>5, <1>6 DEF DriverInv
<1> QED
  BY <1>1, <1>7 DEF PrintChar, CharWrite, PrintInv

\* The driver: none of its steps loses the character or sends it twice.
LEMMA DriverKeeps == ASSUME BootInv, VprDriver PROVE BootInv'
<1> USE DEF BootInv
<1>1. vpr = "main" /\ secure /\ Driver /\ UNCHANGED bootVars
  BY DEF VprDriver, OrderInv
<1>2. CopyInv' /\ OrderInv' /\ QuietInv'
  BY <1>1 DEF bootVars, CopyInv, OrderInv, QuietInv
<1>3. wire' = wire
  BY <1>1 DEF Driver, UarteInit, Fill, Start, Wait, Stop
<1>4. DriverInv /\ next' = next
  BY <1>1 DEF PrintInv, bootVars
<1>5. DriverInv'
  <2>1. CASE UarteInit
    BY <1>4, <2>1 DEF UarteInit, DriverInv, Pending, Idle
  <2>2. CASE Fill
    BY <1>4, <2>2 DEF Fill, DriverInv, Pending, Idle
  <2>3. CASE Start
    BY <1>4, <2>3 DEF Start, DriverInv, Pending, Idle
  <2>4. CASE Wait
    BY <1>4, <2>4 DEF Wait, DriverInv, Pending, Idle
  <2>5. CASE Stop
    BY <1>4, <2>5 DEF Stop, DriverInv, Pending, Idle
  <2> QED
    BY <1>1, <2>1, <2>2, <2>3, <2>4, <2>5 DEF Driver
<1> QED
  BY <1>2, <1>3, <1>5 DEF PrintInv

-----------------------------------------------------------------------------
\* The DMA sends while the driver waits, and then the character it was given.
LEMMA SendShows ==
  ASSUME BootInv, Send, UNCHANGED bootVars
  PROVE  /\ vpr = "main" /\ DriverInv /\ drv = "wait" /\ Pending /\ shift = ch
         /\ wire' = Append(wire, Text[Len(wire) + 1])
         /\ Len(wire) < Len(Text)
<1> USE DEF BootInv
<1>1. vpr = "main" /\ DriverInv
  BY DEF Send, QuietInv, PrintInv
<1>2. drv = "wait" /\ Pending /\ shift = ch /\ next \in 1 .. Size
  BY <1>1 DEF Send, DriverInv
<1>3. Len(wire) = next - 2 /\ Len(wire) + 1 = next - 1
  BY <1>2, SizeFact DEF Pending
<1> QED
  BY <1>1, <1>2, <1>3, SizeFact DEF Send, Pending

LEMMA HardwareKeeps == ASSUME BootInv, Hardware PROVE BootInv'
<1> USE DEF BootInv
<1>1. CopyInv' /\ OrderInv'
  BY DEF Hardware, bootVars, CopyInv, OrderInv
<1>2. CASE Fetch
  <2>1. vpr = "main" /\ DriverInv
    BY <1>2 DEF Fetch, QuietInv, PrintInv
  <2>2. DriverInv' /\ vpr' = "main"
    BY <1>2, <2>1 DEF Fetch, Hardware, bootVars, DriverInv, Pending, Idle
  <2> QED
    BY <1>1, <1>2, <2>2 DEF Fetch, QuietInv, PrintInv
<1>3. CASE Send
  <2>1. /\ vpr = "main" /\ DriverInv /\ drv = "wait" /\ Pending
        /\ wire' = Append(wire, Text[Len(wire) + 1])
        /\ Len(wire) < Len(Text)
    BY <1>3, SendShows DEF Hardware
  <2>2. Text[Len(wire) + 1] \in STRING
    BY <2>1, SizeFact DEF PrintInv
  <2>3. wire' \in Seq(STRING) /\ Len(wire') = Len(wire) + 1
    BY <2>1, <2>2 DEF PrintInv
  <2>4. next' = next /\ vpr' = vpr /\ drv' = drv /\ tx' = "ended" /\ txdrdy'
        /\ m_initialized' = m_initialized /\ enabled' = enabled
    BY <1>3 DEF Hardware, bootVars, Send
  <2>5. Len(wire') = next - 1 /\ next \in 1 .. Size /\ (m_initialized => enabled)
    BY <2>1, <2>3, SizeFact DEF Pending, DriverInv
  <2>6. DriverInv'
    BY <2>1, <2>4, <2>5 DEF DriverInv
  <2> QED
    BY <1>1, <2>1, <2>3, <2>4, <2>6 DEF QuietInv, PrintInv
<1> QED
  BY <1>2, <1>3 DEF Hardware, Peripheral

\* After a reset the RAM may hold anything, and the launcher starts again.
LEMMA ResetKeeps == ASSUME BootInv, Reset PROVE BootInv'
<1> USE DEF BootInv
<1>1. CopyInv'
  BY SizeFact DEF Reset, CopyInv
<1>2. OrderInv' /\ QuietInv' /\ PrintInv'
  BY DEF Reset, UarteReset, OrderInv, QuietInv, PrintInv
<1> QED
  BY <1>1, <1>2

LEMMA BootNext == BootInv /\ [Next]_vars => BootInv'
<1> SUFFICES ASSUME BootInv, [Next]_vars PROVE BootInv'
  OBVIOUS
<1>1. CASE Launcher
  BY <1>1, LauncherKeeps
<1>2. CASE Vpr
  BY <1>2, StartupKeeps, PrintCharKeeps, DriverKeeps DEF Vpr
<1>3. CASE Hardware
  BY <1>3, HardwareKeeps
<1>4. CASE Reset
  BY <1>4, ResetKeeps
<1>5. CASE UNCHANGED vars
  BY <1>5 DEF vars, bootVars, uarteVars, BootInv, CopyInv, OrderInv, QuietInv, PrintInv,
              DriverInv, Idle, Pending
<1> QED
  BY <1>1, <1>2, <1>3, <1>4, <1>5 DEF Next

-----------------------------------------------------------------------------
\* The invariant of launcher, core, driver and peripheral.
THEOREM BootInvariant == Spec => []BootInv
  BY BootInit, BootNext, PTL DEF Spec

\* startup.S and the start-up code: whatever a reset left in RAM, a program
\* that runs has its whole image, and its driver knows the state of the UARTE.
THEOREM CompleteImage == Spec => []RunsFromImage
<1>1. BootInv => RunsFromImage
  BY DEF BootInv, CopyInv, OrderInv, PrintInv, DriverInv, RunsFromImage
<1> QED
  BY <1>1, BootInvariant, PTL

\* uarte.c: the terminal sees the text from its beginning, each character once
\* and in order; a step of the chip shows a character, resets, or shows nothing.
THEOREM TextInOrder == Spec => Prints
<1>1. Init => Terminal!Init
  BY DEF Init, Terminal!Init
<1>2. BootInv /\ [Next]_vars => [Terminal!Show \/ Terminal!Reset]_wire
  <2> SUFFICES ASSUME BootInv, [Next]_vars, wire' # wire
               PROVE  Terminal!Show \/ Terminal!Reset
    OBVIOUS
  <2>1. CASE Reset
    BY <2>1 DEF Reset, UarteReset, Terminal!Reset
  <2>2. CASE Hardware
    <3>1. Send /\ UNCHANGED bootVars
      BY <2>2 DEF Hardware, Peripheral, Fetch
    <3> QED
      BY <3>1, SendShows DEF Terminal!Show
  <2>3. CASE Launcher
    BY <2>3 DEF Launcher, CopyWord, Perm, InitPc, Run, uarteVars
  <2>4. CASE Vpr
    BY <2>4 DEF Vpr, VprReset, ClearBss, PrintChar, CharWrite, VprDriver, Driver,
                UarteInit, Fill, Start, Wait, Stop, uarteVars
  <2> QED
    BY <2>1, <2>2, <2>3, <2>4 DEF Next, vars, uarteVars
<1> QED
  BY <1>1, <1>2, BootInvariant, PTL DEF Spec, Prints, Terminal!Spec
-----------------------------------------------------------------------------
(***************************************************************************)
(* The benchmark.                                                          *)
(***************************************************************************)

\* Whether the cycles printed for f lie within those of its calls.
Within(f) ==
  IF CallsOf(f) = {}
  THEN cyc[f] = 0
  ELSE \E a, b \in CallsOf(f) : calls[a].d <= cyc[f] /\ cyc[f] <= calls[b].d

\* Before decapsulation begins, the counters of rkprf are still zero: this is
\* why it does not matter that reset_vals leaves them.
BenchInv ==
  /\ phase \in Phases \cup {Over}
  /\ now \in 0 .. Range32 - 1
  /\ n \in [Functions -> Nat] /\ cyc \in [Functions -> Nat]
  /\ calls \in Seq([f : Functions, d : Durations])
  /\ phase < Decaps => n["rkprf"] = 0 /\ cyc["rkprf"] = 0 /\ CallsOf("rkprf") = {}
  /\ CallsReported
  /\ CyclesReported

LEMMA FunctionNames ==
  /\ \A f \in Functions : f = "statepermute" \/ f = "poly_add" \/ f = "poly_cbd_eta1"
                            \/ f = "poly_cbd_eta2" \/ f = "rkprf"
  /\ "statepermute" \in Functions /\ "poly_add" \in Functions /\ "poly_cbd_eta1" \in Functions
  /\ "poly_cbd_eta2" \in Functions /\ "rkprf" \in Functions
BY DEF Functions

LEMMA DurationFacts ==
  /\ Range32 \in Nat /\ Range32 > 0
  /\ \A d \in Durations : d \in Nat /\ 0 < d /\ d < Range32
BY DurationsAssumption

\* A remainder is known by its range.
LEMMA RemainderIs ==
  ASSUME NEW x \in Int, NEW r \in Nat, NEW e \in 0 .. r - 1, x = e \/ x = e + r \/ x = e - r
  PROVE  x % r = e
<1>1. r > 0
  OBVIOUS
<1>2. CASE x = e
  <2>1. x = r * 0 + e
    BY <1>2
  <2>. QED
    BY <1>1, <2>1
<1>3. CASE x = e + r
  <2>1. x = r * 1 + e
    BY <1>3
  <2>. QED
    BY <1>1, <2>1
<1>4. CASE x = e - r
  <2>1. x = r * (-1) + e
    BY <1>4
  <2>. QED
    BY <1>1, <2>1
<1>. QED
  BY <1>2, <1>3, <1>4

\* The difference of two readings is the duration, also if the counter wrapped
\* around between them.
LEMMA ElapsedIs ==
  ASSUME NEW c \in 0 .. Range32 - 1, NEW d \in Durations
  PROVE  (c + d) % Range32 \in 0 .. Range32 - 1 /\ Elapsed(c, (c + d) % Range32) = d
<1>1. /\ Range32 \in Nat /\ Range32 > 0 /\ c \in Int /\ 0 <= c /\ c < Range32
      /\ d \in Nat /\ 0 < d /\ d < Range32
  BY DurationFacts
<1>2. CASE c + d < Range32
  <2>1. c + d \in 0 .. Range32 - 1 /\ (c + d) - c = d /\ d \in 0 .. Range32 - 1
    BY <1>1, <1>2
  <2>2. (c + d) % Range32 = c + d /\ d % Range32 = d
    BY <1>1, <2>1, RemainderIs
  <2>. QED
    BY <2>1, <2>2 DEF Elapsed
<1>3. CASE c + d >= Range32
  <2>1. /\ c + d - Range32 \in 0 .. Range32 - 1 /\ (c + d - Range32) - c = d - Range32
        /\ d \in 0 .. Range32 - 1 /\ d - Range32 \in Int /\ c + d \in Int
        /\ c + d = (c + d - Range32) + Range32
    BY <1>1, <1>3
  <2>2. (c + d) % Range32 = c + d - Range32
    BY <1>1, <2>1, RemainderIs
  <2>3. (d - Range32) % Range32 = d
    BY <1>1, <2>1, RemainderIs
  <2>. QED
    BY <2>1, <2>2, <2>3 DEF Elapsed
<1>. QED
  BY <1>1, <1>2, <1>3

\* A call of g is one more call of g, and none of another function.
LEMMA MoreCalls ==
  ASSUME calls \in Seq([f : Functions, d : Durations]), NEW g \in Functions, NEW d \in Durations,
         calls' = Append(calls, [f |-> g, d |-> d])
  PROVE  /\ calls' \in Seq([f : Functions, d : Durations])
         /\ CallsOf(g)' = CallsOf(g) \cup {Len(calls) + 1}
         /\ \A f \in Functions : f # g => CallsOf(f)' = CallsOf(f)
         /\ \A f : CallsOf(f) \subseteq 1 .. Len(calls)
         /\ \A a \in 1 .. Len(calls) : calls'[a] = calls[a]
         /\ calls'[Len(calls) + 1].d = d
         /\ Len(calls) + 1 \notin 1 .. Len(calls)
<1>1. /\ Len(calls) \in Nat /\ Len(calls') = Len(calls) + 1
      /\ \A a \in 1 .. Len(calls) : calls'[a] = calls[a]
      /\ calls'[Len(calls) + 1] = [f |-> g, d |-> d]
      /\ calls' \in Seq([f : Functions, d : Durations])
  OBVIOUS
<1>2. 1 .. Len(calls') = 1 .. Len(calls) \cup {Len(calls) + 1} /\ Len(calls) + 1 \notin 1 .. Len(calls)
  BY <1>1
<1>3. \A f : CallsOf(f) \subseteq 1 .. Len(calls)
  BY DEF CallsOf
<1>4. \A f : CallsOf(f)' = CallsOf(f) \cup {a \in {Len(calls) + 1} : g = f}
  BY <1>1, <1>2 DEF CallsOf
<1>5. CallsOf(g)' = CallsOf(g) \cup {Len(calls) + 1}
  BY <1>4
<1>6. \A f \in Functions : f # g => CallsOf(f)' = CallsOf(f)
  BY <1>4
<1>7. calls'[Len(calls) + 1].d = d
  BY <1>1
<1>. QED
  BY <1>1, <1>2, <1>3, <1>5, <1>6, <1>7

\* So counting one more is counting right.
LEMMA OneMore ==
  ASSUME NEW k \in Nat, NEW S, S \subseteq 1 .. k
  PROVE  Cardinality(S) \in Nat /\ Cardinality(S \cup {k + 1}) = Cardinality(S) + 1
<1>1. IsFiniteSet(1 .. k)
  BY FS_Interval
<1>2. IsFiniteSet(S)
  BY <1>1, FS_Subset, Zenon
<1>3. k + 1 \notin S
  <2>1. k + 1 \notin 1 .. k
    OBVIOUS
  <2>. QED
    BY <2>1
<1>. QED
  BY <1>2, <1>3, FS_AddElement, FS_CardinalityType

LEMMA BenchBegins == BenchInit => BenchInv
<1> SUFFICES ASSUME BenchInit PROVE BenchInv
  OBVIOUS
<1>1. /\ phase = 0 /\ now \in 0 .. Range32 - 1 /\ calls = <<>>
      /\ n = [f \in Functions |-> 0] /\ cyc = [f \in Functions |-> 0]
  BY DEF BenchInit, None
<1>2. \A f : CallsOf(f) = {}
  BY <1>1 DEF CallsOf
<1>3. Cardinality({}) = 0 /\ {} \cup {} = {}
  BY FS_EmptySet
<1>4. \A f \in Functions : n[f] = 0 /\ cyc[f] = 0
  BY <1>1
<1>5. CallsReported
  BY <1>2, <1>3, <1>4, FunctionNames DEF CallsReported
<1>6. CyclesReported
  BY <1>2, <1>4, FunctionNames DEF CyclesReported
<1>7. calls \in Seq([f : Functions, d : Durations])
  BY <1>1
<1>. QED
  BY <1>1, <1>2, <1>4, <1>5, <1>6, <1>7, FunctionNames DEF BenchInv, Phases, Decaps

LEMMA EndPhaseInv == ASSUME BenchInv, EndPhase PROVE BenchInv'
<1>1. /\ phase \in 0 .. 5 /\ phase' = phase + 1 /\ now' = 0 /\ calls' = <<>>
      /\ n' = [f \in Functions |-> IF f = "rkprf" THEN n[f] ELSE 0]
      /\ cyc' = [f \in Functions |-> IF f \in {"rkprf", "poly_add"} THEN cyc[f] ELSE 0]
      /\ n \in [Functions -> Nat] /\ cyc \in [Functions -> Nat]
  BY DEF EndPhase, ResetVals, Phases, BenchInv
<1>2. \A f : CallsOf(f)' = {}
  BY <1>1 DEF CallsOf
<1>3. Cardinality({}) = 0 /\ {} \cup {} = {}
  BY FS_EmptySet
<1>4. phase' \in 0 .. 5 => n'["rkprf"] = 0 /\ cyc'["rkprf"] = 0
  <2>1. phase' \in 0 .. 5 => n["rkprf"] = 0 /\ cyc["rkprf"] = 0
    BY <1>1 DEF BenchInv, Decaps
  <2>. QED
    BY <1>1, <2>1, FunctionNames
<1>5. \A f \in Functions : f # "rkprf" => n'[f] = 0 /\ (f # "poly_add" => cyc'[f] = 0)
  BY <1>1
<1>6. CallsReported'
  BY <1>2, <1>3, <1>4, <1>5, FunctionNames DEF CallsReported, Phases
<1>7. CyclesReported'
  BY <1>2, <1>4, <1>5, FunctionNames DEF CyclesReported, Phases
<1>8. /\ phase' \in Phases \cup {Over} /\ now' \in 0 .. Range32 - 1
      /\ calls' \in Seq([f : Functions, d : Durations])
  BY <1>1, DurationFacts DEF Phases, Over
<1>9. n' \in [Functions -> Nat] /\ cyc' \in [Functions -> Nat]
  BY <1>1
<1>10. phase' < Decaps => phase' \in 0 .. 5
  BY <1>1 DEF Decaps
<1>. QED
  BY <1>2, <1>4, <1>6, <1>7, <1>8, <1>9, <1>10 DEF BenchInv
\* The average of two numbers lies between them.
LEMMA Between ==
  ASSUME NEW x \in Nat, NEW y \in Nat
  PROVE  /\ (x + y) \div 2 \in Nat
         /\ x <= y => x <= (x + y) \div 2 /\ (x + y) \div 2 <= y
         /\ y <= x => y <= (x + y) \div 2 /\ (x + y) \div 2 <= x
OBVIOUS

\* What a call does to its own counter of cycles.
LEMMA CyclesOfCall ==
  ASSUME BenchInv, NEW f \in Functions, NEW d \in Durations, Call(f, d)
  PROVE  /\ phase \in Phases /\ phase' = phase /\ now' \in 0 .. Range32 - 1
         /\ calls' = Append(calls, [f |-> f, d |-> d])
         /\ n' = [n EXCEPT ![Counter(f)] = @ + 1]
         /\ cyc' \in [Functions -> Nat]
         /\ cyc'[f] = IF Averages(f) THEN (cyc[f] + d) \div 2 ELSE d
         /\ \A g \in Functions : g # f => cyc'[g] = cyc[g]
<1>1. now \in 0 .. Range32 - 1 /\ cyc \in [Functions -> Nat] /\ d \in Nat
  BY DurationFacts DEF BenchInv
<1>2. (now + d) % Range32 \in 0 .. Range32 - 1 /\ Elapsed(now, (now + d) % Range32) = d
  BY <1>1, ElapsedIs
<1>3. /\ phase \in Phases /\ phase' = phase /\ now' = (now + d) % Range32
      /\ calls' = Append(calls, [f |-> f, d |-> d])
      /\ n' = [n EXCEPT ![Counter(f)] = @ + 1]
      /\ cyc' = [cyc EXCEPT ![f] = IF Averages(f) THEN (@ + Elapsed(now, (now + d) % Range32)) \div 2
                                                 ELSE Elapsed(now, (now + d) % Range32)]
  BY DEF Call
<1> DEFINE c == IF Averages(f) THEN (cyc[f] + d) \div 2 ELSE d
<1>4. cyc' = [cyc EXCEPT ![f] = c]
  BY <1>2, <1>3
<1>5. c \in Nat
  BY <1>1, Between
<1> HIDE DEF c
<1>6. cyc' \in [Functions -> Nat] /\ cyc'[f] = c /\ \A g \in Functions : g # f => cyc'[g] = cyc[g]
  BY <1>1, <1>4, <1>5
<1>. QED
  BY <1>2, <1>3, <1>6 DEF c

\* The cycles stay within those of the calls.
LEMMA CallKeepsWithin ==
  ASSUME BenchInv, NEW f \in Functions, NEW d \in Durations, Call(f, d),
         NEW g \in {"statepermute", "poly_cbd_eta2", "rkprf"}, Within(g)
  PROVE  Within(g)'
<1>1. /\ cyc \in [Functions -> Nat] /\ d \in Nat /\ 0 < d /\ g \in Functions
      /\ calls \in Seq([f : Functions, d : Durations])
  BY DurationFacts, FunctionNames DEF BenchInv
<1>2. /\ calls' = Append(calls, [f |-> f, d |-> d])
      /\ cyc'[f] = IF Averages(f) THEN (cyc[f] + d) \div 2 ELSE d
      /\ g # f => cyc'[g] = cyc[g]
  BY <1>1, CyclesOfCall
<1>3. /\ CallsOf(f)' = CallsOf(f) \cup {Len(calls) + 1}
      /\ g # f => CallsOf(g)' = CallsOf(g)
      /\ \A h : CallsOf(h) \subseteq 1 .. Len(calls)
      /\ \A a \in 1 .. Len(calls) : calls'[a] = calls[a]
      /\ calls'[Len(calls) + 1].d = d
  BY <1>1, <1>2, MoreCalls
<1>4. CASE g # f
  BY <1>2, <1>3, <1>4 DEF Within
<1>5. CASE g = f
  <2>1. Averages(g) <=> cyc[g] # 0
    BY DEF Averages
  <2>2. CASE CallsOf(g) = {}
    <3>1. cyc[g] = 0
      BY <2>2 DEF Within
    <3>2. cyc'[g] = d /\ Len(calls) + 1 \in CallsOf(g)'
      BY <1>2, <1>3, <1>5, <2>1, <3>1
    <3>. QED
      BY <1>1, <1>3, <3>2 DEF Within
  <2>3. CASE CallsOf(g) # {}
    <3>1. PICK a, b \in CallsOf(g) : calls[a].d <= cyc[g] /\ cyc[g] <= calls[b].d
      BY <2>3 DEF Within
    <3>2. a \in 1 .. Len(calls) /\ b \in 1 .. Len(calls)
      BY <1>3
    <3>3. /\ calls[a].d \in Nat /\ 0 < calls[a].d /\ calls[b].d \in Nat
          /\ calls'[a].d = calls[a].d /\ calls'[b].d = calls[b].d
      <4> DEFINE C == [f : Functions, d : Durations]
      <4>0. calls[a] \in C /\ calls[b] \in C
        <5>1. calls \in Seq(C)
          BY <1>1
        <5> HIDE DEF C
        <5>. QED
          BY <3>2, <5>1
      <4>1. calls[a].d \in Durations /\ calls[b].d \in Durations
        BY <4>0
      <4>. QED
        BY <1>3, <3>2, <4>1, DurationFacts
    <3>4. cyc[g] \in Nat /\ cyc[g] # 0
      BY <1>1, <3>1, <3>3
    <3>5. cyc'[g] = (cyc[g] + d) \div 2
      BY <1>2, <1>5, <2>1, <3>4
    <3>6. a \in CallsOf(g)' /\ b \in CallsOf(g)' /\ Len(calls) + 1 \in CallsOf(g)'
      BY <1>3, <1>5
    <3>7. CASE cyc[g] <= d
      <4>1. calls'[a].d <= cyc'[g] /\ cyc'[g] <= calls'[Len(calls) + 1].d
        <5>1. cyc[g] <= cyc'[g] /\ cyc'[g] <= d /\ cyc'[g] \in Nat
          BY <1>1, <3>4, <3>5, <3>7, Between
        <5>. QED
          BY <1>3, <3>1, <3>3, <3>4, <5>1
      <4>. QED
        BY <3>6, <4>1 DEF Within
    <3>8. CASE d <= cyc[g]
      <4>1. calls'[Len(calls) + 1].d <= cyc'[g] /\ cyc'[g] <= calls'[b].d
        <5>1. d <= cyc'[g] /\ cyc'[g] <= cyc[g] /\ cyc'[g] \in Nat
          BY <1>1, <3>4, <3>5, <3>8, Between
        <5>. QED
          BY <1>3, <3>1, <3>3, <3>4, <5>1
      <4>. QED
        BY <3>6, <4>1 DEF Within
    <3>. QED
      BY <1>1, <3>4, <3>7, <3>8
  <2>. QED
    BY <2>2, <2>3
<1>. QED
  BY <1>4, <1>5

\* Every call is counted once, that of poly_cbd_eta2 for poly_cbd_eta1.
LEMMA CallCounted ==
  ASSUME BenchInv, NEW f \in Functions, NEW d \in Durations, Call(f, d)
  PROVE  n' \in [Functions -> Nat] /\ CallsReported'
<1>1. n \in [Functions -> Nat] /\ calls \in Seq([f : Functions, d : Durations])
  BY DEF BenchInv
<1>2. /\ phase \in Phases /\ phase' = phase
      /\ calls' = Append(calls, [f |-> f, d |-> d])
      /\ n' = [n EXCEPT ![Counter(f)] = @ + 1]
  BY CyclesOfCall
<1>3. Counter(f) \in Functions
  BY FunctionNames DEF Counter
<1>4. /\ n' \in [Functions -> Nat] /\ n'[Counter(f)] = n[Counter(f)] + 1
      /\ \A g \in Functions : g # Counter(f) => n'[g] = n[g]
  BY <1>1, <1>2, <1>3
<1>5. /\ CallsOf(f)' = CallsOf(f) \cup {Len(calls) + 1}
      /\ \A g \in Functions : g # f => CallsOf(g)' = CallsOf(g)
      /\ \A g : CallsOf(g) \subseteq 1 .. Len(calls)
      /\ Len(calls) \in Nat
  BY <1>1, <1>2, MoreCalls
<1>6. /\ \A g \in {"statepermute", "poly_add", "rkprf"} : n[g] = Cardinality(CallsOf(g))
      /\ n["poly_cbd_eta1"] = Cardinality(CallsOf("poly_cbd_eta1") \cup CallsOf("poly_cbd_eta2"))
      /\ n["poly_cbd_eta2"] = 0
  BY <1>2 DEF BenchInv, CallsReported
<1>7. \A g \in {"statepermute", "poly_add", "rkprf"} : n'[g] = Cardinality(CallsOf(g)')
  <2> SUFFICES ASSUME NEW g \in {"statepermute", "poly_add", "rkprf"}
               PROVE  n'[g] = Cardinality(CallsOf(g)')
    OBVIOUS
  <2>1. CASE g = f
    <3>1. Counter(f) = f
      BY <2>1 DEF Counter
    <3>2. Cardinality(CallsOf(f) \cup {Len(calls) + 1}) = Cardinality(CallsOf(f)) + 1
      BY <1>5, OneMore
    <3>. QED
      BY <1>4, <1>5, <1>6, <2>1, <3>1, <3>2
  <2>2. CASE g # f
    <3>1. g # Counter(f) /\ g \in Functions
      BY <2>2, FunctionNames DEF Counter
    <3>. QED
      BY <1>4, <1>5, <1>6, <2>2, <3>1
  <2>. QED
    BY <2>1, <2>2
<1>8. n'["poly_cbd_eta1"] = Cardinality(CallsOf("poly_cbd_eta1")' \cup CallsOf("poly_cbd_eta2")')
  <2> DEFINE S == CallsOf("poly_cbd_eta1") \cup CallsOf("poly_cbd_eta2")
  <2>1. CASE f \in {"poly_cbd_eta1", "poly_cbd_eta2"}
    <3>1. Counter(f) = "poly_cbd_eta1"
      BY <2>1 DEF Counter
    <3>2. CallsOf("poly_cbd_eta1")' \cup CallsOf("poly_cbd_eta2")' = S \cup {Len(calls) + 1}
      BY <1>5, <2>1, FunctionNames
    <3>3. S \subseteq 1 .. Len(calls)
      BY <1>5
    <3>4. Cardinality(S \cup {Len(calls) + 1}) = Cardinality(S) + 1
      BY <1>5, <3>3, OneMore
    <3>. QED
      BY <1>4, <1>6, <3>1, <3>2, <3>4
  <2>2. CASE f \notin {"poly_cbd_eta1", "poly_cbd_eta2"}
    <3>1. Counter(f) # "poly_cbd_eta1"
      BY <2>2 DEF Counter
    <3>2. /\ CallsOf("poly_cbd_eta1")' = CallsOf("poly_cbd_eta1")
          /\ CallsOf("poly_cbd_eta2")' = CallsOf("poly_cbd_eta2")
      BY <1>5, <2>2, FunctionNames
    <3>. QED
      BY <1>4, <1>6, <3>1, <3>2, FunctionNames
  <2>. QED
    BY <2>1, <2>2
<1>9. n'["poly_cbd_eta2"] = 0
  <2>1. Counter(f) # "poly_cbd_eta2"
    BY DEF Counter
  <2>. QED
    BY <1>4, <1>6, <2>1, FunctionNames
<1>. QED
  BY <1>4, <1>7, <1>8, <1>9 DEF CallsReported

LEMMA CallInv ==
  ASSUME BenchInv, NEW f \in Functions, NEW d \in Durations, Call(f, d)
  PROVE  BenchInv'
<1>1. calls \in Seq([f : Functions, d : Durations]) /\ phase \in Phases
  BY CyclesOfCall DEF BenchInv
<1>2. /\ phase' = phase /\ now' \in 0 .. Range32 - 1 /\ cyc' \in [Functions -> Nat]
      /\ calls' = Append(calls, [f |-> f, d |-> d])
      /\ \A g \in Functions : g # f => cyc'[g] = cyc[g]
  BY CyclesOfCall
<1>3. /\ calls' \in Seq([f : Functions, d : Durations])
      /\ \A g \in Functions : g # f => CallsOf(g)' = CallsOf(g)
  BY <1>1, <1>2, MoreCalls
<1>4. n' \in [Functions -> Nat] /\ CallsReported'
  BY CallCounted
<1>5. CyclesReported'
  <2>1. \A g \in {"statepermute", "poly_cbd_eta2", "rkprf"} : Within(g)
    BY <1>1 DEF BenchInv, CyclesReported, Within
  <2>2. \A g \in {"statepermute", "poly_cbd_eta2", "rkprf"} : Within(g)'
    BY <2>1, CallKeepsWithin
  <2>. QED
    BY <2>2 DEF CyclesReported, Within
<1>6. phase' < Decaps => n'["rkprf"] = 0 /\ cyc'["rkprf"] = 0 /\ CallsOf("rkprf")' = {}
  <2> SUFFICES ASSUME phase < Decaps
               PROVE  n'["rkprf"] = 0 /\ cyc'["rkprf"] = 0 /\ CallsOf("rkprf")' = {}
    BY <1>2
  <2>1. f # "rkprf"
    BY DEF Call, Called, Decaps
  <2>2. cyc["rkprf"] = 0 /\ CallsOf("rkprf") = {}
    BY DEF BenchInv
  <2>3. cyc'["rkprf"] = 0 /\ CallsOf("rkprf")' = {}
    BY <1>2, <1>3, <2>1, <2>2, FunctionNames
  <2>4. n'["rkprf"] = 0
    <3>1. /\ n \in [Functions -> Nat] /\ n["rkprf"] = 0 /\ n' = [n EXCEPT ![Counter(f)] = @ + 1]
      BY CyclesOfCall DEF BenchInv
    <3>2. Counter(f) # "rkprf"
      BY <2>1 DEF Counter
    <3>. QED
      BY <3>1, <3>2, FunctionNames
  <2>. QED
    BY <2>3, <2>4
<1>. QED
  BY <1>1, <1>2, <1>3, <1>4, <1>5, <1>6 DEF BenchInv

\* The counters of the benchmark at every moment of it (BenchInv above).
THEOREM BenchInvariant == BenchSpec => []BenchInv
<1>1. BenchInv /\ [BenchNext]_BenchVars => BenchInv'
  <2> SUFFICES ASSUME BenchInv, [BenchNext]_BenchVars PROVE BenchInv'
    OBVIOUS
  <2>1. ASSUME NEW f \in Functions, NEW d \in Durations, Call(f, d) PROVE BenchInv'
    BY <2>1, CallInv
  <2>2. CASE EndPhase
    BY <2>2, EndPhaseInv
  <2>3. CASE UNCHANGED BenchVars
    <3>1. phase' = phase /\ now' = now /\ n' = n /\ cyc' = cyc /\ calls' = calls
      BY <2>3 DEF BenchVars
    <3>2. \A f : CallsOf(f)' = CallsOf(f)
      BY <3>1 DEF CallsOf
    <3>3. CallsReported' /\ CyclesReported'
      BY <3>1, <3>2 DEF BenchInv, CallsReported, CyclesReported
    <3>. QED
      BY <3>1, <3>2, <3>3 DEF BenchInv
  <2>. QED
    BY <2>1, <2>2, <2>3 DEF BenchNext, Finished
<1>. QED
  BY <1>1, BenchBegins, PTL DEF BenchSpec

\* test_speed.c prints for a phase the number of its calls, for every counter
\* that has one of its own, although reset_vals leaves n_rkprf (mlkem_ref).
THEOREM CallsCounted == BenchSpec => []CallsReported
<1>1. BenchInv => CallsReported
  BY DEF BenchInv
<1>. QED
  BY <1>1, BenchInvariant, PTL

\* The running average that print_stuff prints lies between the shortest and
\* the longest call of the phase, for every width of the cycle counter and also
\* when it wraps around during a call.
THEOREM CyclesWithin == BenchSpec => []CyclesReported
<1>1. BenchInv => CyclesReported
  BY DEF BenchInv
<1>. QED
  BY <1>1, BenchInvariant, PTL
=============================================================================
