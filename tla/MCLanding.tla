------------------------------ MODULE MCLanding -----------------------------
(* Landing for TLC: two heads, a few commands.                              *)
EXTENDS Landing, TLC
=============================================================================
