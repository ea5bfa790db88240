-------------------------- MODULE MCFindingChains --------------------------
(* Every history of a few rounds of a few findings.                      *)
EXTENDS FindingChains, TLC
=============================================================================
