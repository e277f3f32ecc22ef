---------------------------- MODULE MCTeacherTurn ----------------------------
(* TeacherTurn with two executions and a plan of two sections, the first with *)
(* an exercise, the second with a checkpoint.                                 *)
EXTENDS TeacherTurn, TLC

MCRequests ==
    {[event |-> v, type |-> "none"] : v \in {"reply", "moveOn"}}
    \cup {[event |-> v, type |-> "revisit"] : v \in {"accept", "refuse"}}
MCTasks == [s \in 0 .. Total - 1 |-> IF s = 0 THEN {"exercise"} ELSE {"checkpoint"}]
MCProposals == {[type |-> "revisit", target |-> 0], [type |-> "advance", target |-> -1]}
Symmetry == Permutations(Executions)
=============================================================================
