-------------------------------- MODULE Xof ---------------------------------
(***************************************************************************)
(* What every incremental SHAKE/SHA-3 object of the project promises: a    *)
(* message is collected, then output bytes are handed out one after        *)
(* another, and byte k depends on the message, the domain separator and k  *)
(* alone -- never on how the caller cut the input or the output.           *)
(***************************************************************************)
EXTENDS Fips202

CONSTANTS
  Chunk,    \* the inputs a caller may pass in one call
  Seps,     \* the domain separation bytes: 0x1F for SHAKE, 0x06 for SHA-3
  MaxOut    \* bound on the number of output bytes of an object

VARIABLES
  mode,     \* "fresh": no usable contents; "absorb"; "squeeze"
  msg,      \* the message passed in so far
  sep,      \* the domain separator it was closed with
  out       \* the output handed out so far

vars == <<mode, msg, sep, out>>

-----------------------------------------------------------------------------
Init ==
  /\ mode = "fresh"
  /\ msg = <<>>
  /\ sep \in Seps
  /\ out = <<>>

\* A (re)initialisation, with the first part of the message or none.
Start(c) ==
  /\ mode' = "absorb"
  /\ msg' = c
  /\ out' = <<>>
  /\ sep' \in Seps

Absorb(c) ==
  /\ mode = "absorb"
  /\ msg' = msg \o c
  /\ UNCHANGED <<mode, sep, out>>

Finalize(p) ==
  /\ mode = "absorb"
  /\ mode' = "squeeze"
  /\ sep' = p
  /\ UNCHANGED <<msg, out>>

\* The next n bytes, after which the object may be thrown away.
Squeeze(n) ==
  /\ mode = "squeeze"
  /\ mode' \in {"squeeze", "fresh"}
  /\ out' = out \o [j \in 1 .. n |-> XofByte(msg, sep, Len(out) + j - 1)]
  /\ UNCHANGED <<msg, sep>>

Next ==
  \/ \E c \in Chunk \cup {<<>>} : Start(c)
  \/ \E c \in Chunk : Absorb(c)
  \/ \E p \in Seps : Finalize(p)
  \/ \E n \in 0 .. MaxOut : Squeeze(n)

Spec == Init /\ [][Next]_vars
=============================================================================
