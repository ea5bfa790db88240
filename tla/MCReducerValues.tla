-------------------------- MODULE MCReducerValues --------------------------
(* Two calls in flight over a growing log, with damage and failing writes. *)
EXTENDS ReducerValues, TLC
=============================================================================
