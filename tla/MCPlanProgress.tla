--------------------------- MODULE MCPlanProgress ---------------------------
(* PlanProgress with two overlapping turns and plans of two or three sections. *)
EXTENDS PlanProgress
=============================================================================
