------------------------------ MODULE MCHarvest -----------------------------
(* Harvest for TLC: two observations and up to two runs over them.          *)
EXTENDS Harvest, TLC
=============================================================================
