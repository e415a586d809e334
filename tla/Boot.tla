-------------------------------- MODULE Boot --------------------------------
(***************************************************************************)
(* The start of the nRF54LM20: the Cortex-M33 runs vpr_launcher/startup.S, *)
(* which copies the program of the RISC-V core (FLPR, "VPR") from NVM to   *)
(* RAM, makes the core secure and starts it; the core clears its .bss and  *)
(* prints through the UARTE.  A reset may come at any time.  It resets the *)
(* cores and the peripherals but not the RAM, so the launcher finds there  *)
(* what the last run left.                                                 *)
(*                                                                         *)
(* The words of the image are the characters of the text that the program  *)
(* prints; the last word that is copied is the program's .bss, for which   *)
(* the NVM holds nothing.                                                  *)
(***************************************************************************)
EXTENDS Uarte

CONSTANTS
  Text,        \* what the program prints
  Junk,        \* what a word of RAM holds when the power comes on
  MaxResets    \* bound on the number of resets

ASSUME TextAssumption == Text \in Seq(STRING) /\ Text # <<>>

\* VPR_CODE_RAM_END - VPR_CODE_RAM_START, in words.
Size == Len(Text) + 1

VARIABLES
  m33,       \* where the launcher is
  r3,        \* its counter: the words still to be copied
  ram,       \* the words of the image in RAM
  secure,    \* SPU00.PERIPH[0xc].PERM: accesses of the VPR core are secure
  initpc,    \* VPR00.INITPC: the core starts at VPR_CODE_RAM_START
  cpurun,    \* VPR00.CPURUN
  vpr,       \* where the VPR core is
  next,      \* the character that main prints next
  resets

bootVars == <<m33, r3, ram, secure, initpc, cpurun, vpr, next, resets>>
vars     == <<bootVars, uarteVars>>

-----------------------------------------------------------------------------
\* The power comes on: registers are reset, RAM is not.
Init ==
  /\ m33 = "copy" /\ r3 = Size
  /\ ram = [i \in 1 .. Len(Text) |-> Junk]
  /\ secure = FALSE /\ initpc = FALSE /\ cpurun = FALSE
  /\ vpr = "off" /\ next = 1
  /\ resets = 0
  /\ m_initialized \in BOOLEAN /\ m_tx_buf = Junk /\ ch = Junk /\ shift = Junk
  /\ drv = "idle" /\ enabled = FALSE /\ txdrdy = FALSE /\ tx = "idle" /\ wire = <<>>

\* Mutant: bgt leaves the loop before the word at VPR_CODE_RAM_START.
CopyWordShort ==
  /\ m33 = "copy"
  /\ r3' = r3 - 1
  /\ IF r3 = Size
     THEN /\ m_initialized' \in BOOLEAN
          /\ m_tx_buf' = Junk
          /\ UNCHANGED ram
     ELSE /\ ram' = [ram EXCEPT ![r3] = Text[r3]]
          /\ UNCHANGED <<m_initialized, m_tx_buf>>
  /\ m33' = IF r3' > 1 THEN "copy" ELSE "perm"
  /\ UNCHANGED <<secure, initpc, cpurun, vpr, next, resets,
                 ch, drv, enabled, txdrdy, tx, shift, wire>>

\* .L_loop1: one word, from the end of the image to its start.
CopyWord ==
  /\ m33 = "copy"
  /\ r3' = r3 - 1
  /\ IF r3 = Size
     THEN /\ m_initialized' \in BOOLEAN
          /\ m_tx_buf' = Junk
          /\ UNCHANGED ram
     ELSE /\ ram' = [ram EXCEPT ![r3] = Text[r3]]
          /\ UNCHANGED <<m_initialized, m_tx_buf>>
  /\ m33' = IF r3' > 0 THEN "copy" ELSE "perm"
  /\ UNCHANGED <<secure, initpc, cpurun, vpr, next, resets,
                 ch, drv, enabled, txdrdy, tx, shift, wire>>

\* SPU00.PERIPH[0xc].PERM = 1 << 4.
Perm ==
  /\ m33 = "perm"
  /\ secure' = TRUE
  /\ m33' = "initpc"
  /\ UNCHANGED <<r3, ram, initpc, cpurun, vpr, next, resets, uarteVars>>

InitPc ==
  /\ m33 = "initpc"
  /\ initpc' = TRUE
  /\ m33' = "run"
  /\ UNCHANGED <<r3, ram, secure, cpurun, vpr, next, resets, uarteVars>>

Run ==
  /\ m33 = "run"
  /\ cpurun' = TRUE
  /\ m33' = "sleep"
  /\ UNCHANGED <<r3, ram, secure, initpc, vpr, next, resets, uarteVars>>

\* wfe, wfi: no interrupt is enabled, the M33 sleeps until a reset.

Launcher == CopyWord \/ Perm \/ InitPc \/ Run

-----------------------------------------------------------------------------
\* The core leaves its reset: Reset_Handler of the FLPR start-up code, if the
\* core was told where it is.
VprReset ==
  /\ cpurun
  /\ vpr = "off"
  /\ vpr' = IF initpc THEN "startup" ELSE "lost"
  /\ UNCHANGED <<m33, r3, ram, secure, initpc, cpurun, next, resets, uarteVars>>

\* Mutant: __STARTUP_CLEAR_BSS is not defined.
ClearBssNot ==
  /\ vpr = "startup"
  /\ vpr' = "main"
  /\ next' = 1
  /\ UNCHANGED <<m33, r3, ram, secure, initpc, cpurun, resets, uarteVars>>

\* The loop that clears .bss, then main.
ClearBss ==
  /\ vpr = "startup"
  /\ m_initialized' = FALSE
  /\ m_tx_buf' = Junk
  /\ vpr' = "main"
  /\ next' = 1
  /\ UNCHANGED <<m33, r3, ram, secure, initpc, cpurun, resets,
                 ch, drv, enabled, txdrdy, tx, shift, wire>>

\* main prints the next character of its text, which it reads from RAM.
PrintChar ==
  /\ vpr = "main"
  /\ next <= Len(Text)
  /\ CharWrite(ram[next])
  /\ next' = next + 1
  /\ UNCHANGED <<m33, r3, ram, secure, initpc, cpurun, vpr, resets>>

\* The driver reaches the UARTE only if the core's accesses are secure.
VprDriver ==
  /\ vpr = "main"
  /\ drv # "idle"
  /\ IF secure
     THEN Driver /\ UNCHANGED bootVars
     ELSE /\ vpr' = "lost"
          /\ UNCHANGED <<m33, r3, ram, secure, initpc, cpurun, next, resets, uarteVars>>

Vpr == VprReset \/ ClearBss \/ PrintChar \/ VprDriver

-----------------------------------------------------------------------------
Hardware == Peripheral /\ UNCHANGED bootVars

\* A pin reset: the launcher starts again, with the RAM as it is.
Reset ==
  /\ resets < MaxResets
  /\ resets' = resets + 1
  /\ m33' = "copy" /\ r3' = Size
  /\ secure' = FALSE /\ initpc' = FALSE /\ cpurun' = FALSE
  /\ vpr' = "off"
  /\ UarteReset
  /\ UNCHANGED <<ram, next, m_initialized, m_tx_buf>>

Next == Launcher \/ Vpr \/ Hardware \/ Reset

\* Each core goes on with its program, and CTS lets each byte out in the end.
Spec == Init /\ [][Next]_vars /\ WF_vars(Launcher) /\ WF_vars(Vpr) /\ WF_vars(Hardware)

-----------------------------------------------------------------------------
\* Whatever a reset interrupted, the terminal receives the text from its
\* beginning, no character lost, doubled or overwritten in m_tx_buf before the
\* DMA has read it.
Terminal == INSTANCE Console WITH out <- wire

Prints == Terminal!Spec

\* After the last reset the whole text is printed: the copy, the registers of
\* the VPR and the driver's idea of the UARTE are all as the program needs.
TextPrinted == <>[](wire = Text)

\* A program that runs does so from a complete image, and the driver believes
\* the UARTE to be set up only when it is -- although the RAM outlives a reset
\* of the UARTE, and the NVM gives no value for .bss.
RunsFromImage ==
  vpr \in {"startup", "main"} =>
    /\ m33 = "sleep" /\ secure
    /\ \A i \in 1 .. Len(Text) : ram[i] = Text[i]
    /\ vpr = "main" /\ m_initialized => enabled
=============================================================================
