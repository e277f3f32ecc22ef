---------------------------- MODULE MCChatTurn ----------------------------
(* Model checking ChatTurn: the sets of processes are model values, the    *)
(* handlers that serve the same kind of request and the workers of a pool  *)
(* are interchangeable.                                                    *)
EXTENDS ChatTurn, TLC

ProcessSymmetry == Permutations(Calls) \cup Permutations(Workers)
=============================================================================
