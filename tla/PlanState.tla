------------------------------ MODULE PlanState ------------------------------
(***************************************************************************)
(* The row learner_plan_state of one learner as a value, and the pure      *)
(* parts of what the service does to it: normalising it to a plan of       *)
(* `total` sections, finishing a section, moving to another one.  Sections *)
(* are their stage indices 0 .. total - 1.  A template without sections    *)
(* never gets here (ensure_default_template raises), so total > 0.         *)
(***************************************************************************)
EXTENDS Integers

Row == [index : Nat, count : Nat, done : BOOLEAN]

AtMost(n, bound) == IF n > bound THEN bound ELSE n

\* The row get_or_create_learner_plan_state inserts for a new learner.
FreshRow == [index |-> 0, count |-> 0, done |-> FALSE]

\* (mutant: the index is not brought back into a plan that shrank.)
NormalisedLoosely(row, total) ==
    [index |-> row.index,
     count |-> AtMost(row.count, total),
     done  |-> row.done \/ row.count >= total]

\* What get_or_create_learner_plan_state makes of a stored row; it writes the
\* row back only when this changes it.
Normalised(row, total) ==
    [index |-> AtMost(row.index, total - 1),
     count |-> AtMost(row.count, total),
     done  |-> row.done \/ row.count >= total]

\* (mutant: the count is taken from the position.)
AdvancedByPosition(row, total) ==
    LET count == AtMost(row.index + 1, total)
        done  == count >= total
    IN  [index |-> IF done THEN total - 1 ELSE AtMost(row.index + 1, total - 1),
         count |-> count,
         done  |-> done]

\* (mutant: the last section is never counted again.)
AdvancedBeforeLast(row, total) ==
    LET count == IF row.index < total - 1 THEN AtMost(row.count + 1, total) ELSE row.count
        done  == count >= total
    IN  [index |-> IF done THEN total - 1 ELSE AtMost(row.index + 1, total - 1),
         count |-> count,
         done  |-> done]

\* The row advance_stage writes.
Advanced(row, total) ==
    LET count == AtMost(row.count + 1, total)
        done  == count >= total
    IN  [index |-> IF done THEN total - 1 ELSE AtMost(row.index + 1, total - 1),
         count |-> count,
         done  |-> done]

\* (mutant: progress is kept when the learner goes back.)
MovedWithProgress(row, target) == [index |-> target, count |-> row.count, done |-> FALSE]

\* The row move_to_stage writes: sections from the target on count as open again.
Moved(row, target) == [index |-> target, count |-> AtMost(row.count, target), done |-> FALSE]
=============================================================================
