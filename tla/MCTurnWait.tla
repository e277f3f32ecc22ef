---------------------------- MODULE MCTurnWait ----------------------------
(* Model checking TurnWait with a few ticks of time.                       *)
EXTENDS TurnWait
=============================================================================
