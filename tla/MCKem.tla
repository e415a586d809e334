------------------------------- MODULE MCKem --------------------------------
(* Small instance: two key slots, a byte stands for KYBER_SYMBYTES bytes,  *)
(* and a key takes two draws so that a call can be answered in two parts.  *)
EXTENDS Kem
=============================================================================
