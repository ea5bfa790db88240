--------------------------- MODULE MCTurnControl ----------------------------
(* One runner, one operator and a few sessions of one phase.             *)
EXTENDS TurnControl, TLC
=============================================================================
