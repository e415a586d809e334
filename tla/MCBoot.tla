------------------------------- MODULE MCBoot -------------------------------
(* Small instance: a text of three characters, two of them alike.         *)
EXTENDS Boot

MCText == <<"a", "a", "b">>
=============================================================================
