---------------------------- MODULE MCReviewLoop ----------------------------
(* One loop, a few rounds, answers and failures.                         *)
EXTENDS ReviewLoop, TLC
=============================================================================
