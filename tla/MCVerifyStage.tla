---------------------------- MODULE MCVerifyStage ----------------------------
(* A check and an agent that run together, then an agent alone.            *)
EXTENDS VerifyStage, TLC

CONSTANTS checks, acceptance, docs

TwoStages == <<{checks, acceptance}, {docs}>>
=============================================================================
