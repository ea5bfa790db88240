---------------------------- MODULE MCBuildFold ----------------------------
(* BuildFold for TLC: the cfg gives the members.                         *)
EXTENDS BuildFold, TLC
=============================================================================
