------------------------ MODULE MCDispatchRecovery -------------------------
(* Two dispatchers that take over from each other.                       *)
EXTENDS DispatchRecovery, TLC
=============================================================================
