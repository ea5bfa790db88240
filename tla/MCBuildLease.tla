---------------------------- MODULE MCBuildLease ----------------------------
(* Two launches of one build's runner.                                   *)
EXTENDS BuildLease, TLC
=============================================================================
