------------------------------- MODULE Uarte --------------------------------
(***************************************************************************)
(* drivers/uarte.c and the peripheral it drives.  The processor and the    *)
(* DMA of the UARTE run concurrently and share the one byte of m_tx_buf;   *)
(* they meet in the registers START, EVENTS_TXDRDY and STOP.               *)
(*                                                                         *)
(* The peripheral is modelled from how the driver uses it: a START of an   *)
(* enabled transmitter reads the buffer some time later, and sends what it *)
(* read some time after that, when the receiver's CTS lets it.  BAUDRATE,  *)
(* PSEL, CONFIG and ERRORSRC are left out.                                 *)
(***************************************************************************)
EXTENDS Sequences, Naturals

VARIABLES
  m_initialized,
  m_tx_buf,
  ch,        \* the argument of hal_uarte_char_write
  drv,       \* where the driver is, "idle" outside of it
  enabled,   \* ENABLE
  txdrdy,    \* EVENTS_TXDRDY
  tx,        \* the transmitter: "idle", "fetch", "send", "ended"
  shift,     \* the byte that the DMA has read
  wire       \* history: the characters sent since the last reset

uarteVars == <<m_initialized, m_tx_buf, ch, drv, enabled, txdrdy, tx, shift, wire>>

-----------------------------------------------------------------------------
\* The registers after a reset; the memory is as it was.
UarteReset ==
  /\ enabled' = FALSE
  /\ txdrdy' = FALSE
  /\ tx' = "idle"
  /\ wire' = <<>>
  /\ drv' = "idle"
  /\ UNCHANGED <<ch, shift>>

\* hal_uarte_char_write(c) is called.
CharWrite(c) ==
  /\ drv = "idle"
  /\ ch' = c
  /\ drv' = IF m_initialized THEN "fill" ELSE "init"
  /\ UNCHANGED <<m_initialized, m_tx_buf, enabled, txdrdy, tx, shift, wire>>

\* hal_uarte_init.
UarteInit ==
  /\ drv = "init"
  /\ enabled' = TRUE
  /\ m_initialized' = TRUE
  /\ drv' = "fill"
  /\ UNCHANGED <<m_tx_buf, ch, txdrdy, tx, shift, wire>>

\* m_tx_buf[0] = ch.
Fill ==
  /\ drv = "fill"
  /\ m_tx_buf' = ch
  /\ drv' = "start"
  /\ UNCHANGED <<m_initialized, ch, enabled, txdrdy, tx, shift, wire>>

\* PTR, MAXCNT and START, which a disabled transmitter ignores.
Start ==
  /\ drv = "start"
  /\ tx' = IF enabled /\ tx \in {"idle", "ended"} THEN "fetch" ELSE tx
  /\ drv' = "wait"
  /\ UNCHANGED <<m_initialized, m_tx_buf, ch, enabled, txdrdy, shift, wire>>

\* Mutant: the event stays set for the next character.
WaitKeepsEvent ==
  /\ drv = "wait"
  /\ txdrdy
  /\ drv' = "stop"
  /\ UNCHANGED <<m_initialized, m_tx_buf, ch, enabled, txdrdy, tx, shift, wire>>

\* The busy wait ends, and the event is cleared.
Wait ==
  /\ drv = "wait"
  /\ txdrdy
  /\ txdrdy' = FALSE
  /\ drv' = "stop"
  /\ UNCHANGED <<m_initialized, m_tx_buf, ch, enabled, tx, shift, wire>>

\* STOP, and the return.
Stop ==
  /\ drv = "stop"
  /\ tx' = "idle"
  /\ drv' = "idle"
  /\ UNCHANGED <<m_initialized, m_tx_buf, ch, enabled, txdrdy, shift, wire>>

\* The DMA reads the byte at PTR.
Fetch ==
  /\ tx = "fetch"
  /\ shift' = m_tx_buf
  /\ tx' = "send"
  /\ UNCHANGED <<m_initialized, m_tx_buf, ch, drv, enabled, txdrdy, wire>>

\* The byte goes out, and the transmitter has nothing more to send.
Send ==
  /\ tx = "send"
  /\ wire' = Append(wire, shift)
  /\ txdrdy' = TRUE
  /\ tx' = "ended"
  /\ UNCHANGED <<m_initialized, m_tx_buf, ch, drv, enabled, shift>>

Driver     == UarteInit \/ Fill \/ Start \/ Wait \/ Stop
Peripheral == Fetch \/ Send
=============================================================================
