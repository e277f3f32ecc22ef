------------------------------- MODULE Numbering -------------------------------
(***************************************************************************)
(* What a filter leaves of a list, and its numbering: the sources of a     *)
(* prompt (AnswerGenerator._build_context_block), the turns of a history   *)
(* (DurableChatRepository.list_completed_turns), the tasks and contexts of a*)
(* section (normalize_section_understanding_artifact).                     *)
(***************************************************************************)
EXTENDS Integers, FiniteSets

\* The n-th of a set of positions.
Nth(set, n) == CHOOSE i \in set : Cardinality({j \in set : j <= i}) = n

\* What a filter leaves of a list.
Kept(list, places) == [n \in 1 .. Cardinality(places) |-> list[Nth(places, n)]]
===============================================================================
