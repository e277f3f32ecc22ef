---------------------------- MODULE MasteryScore ----------------------------
(***************************************************************************)
(* compute_mastery_delta and the score that follows from it, in ten-       *)
(* thousandths, the precision the code rounds to.  The model's confidence  *)
(* is full or none, the ends of the range the code clamps it to.           *)
(***************************************************************************)
EXTENDS Integers, Sequences

Statuses == {"correct", "partial", "incorrect", "unresolved", "skipped"}
Scores == 0 .. 10000

\* _MASTERY_DELTA_BASE
DeltaBase ==
    [correct |-> 2500, partial |-> 1000, incorrect |-> -1200, unresolved |-> -300, skipped |-> -500]

\* The base scaled by confidence.
Scaled(status, confident) == IF confident THEN DeltaBase[status] ELSE DeltaBase[status] \div 2

\* max(0.3, 1.0 - 0.2 * (attempts - 1)) in tenths; there is none before the second attempt.
AttemptTenths(attempts) ==
    IF attempts <= 1 THEN 10 ELSE IF attempts >= 5 THEN 3 ELSE 12 - 2 * attempts

ComputeDelta(status, confident, attempts, score) ==
    LET scaled == Scaled(status, confident) IN
    IF scaled > 0
    THEN (((scaled * AttemptTenths(attempts)) \div 10) * (100000 - 6 * score) + 50000) \div 100000
    ELSE scaled

\* (mutant: the lower end is not clamped.)
NewScoreUnclamped(score, delta) == IF score + delta > 10000 THEN 10000 ELSE score + delta

\* max(0.0, min(1.0, current + delta)) of record_evaluation_update.
NewScore(score, delta) ==
    IF score + delta > 10000 THEN 10000 ELSE IF score + delta < 0 THEN 0 ELSE score + delta

\* The update that follows from an evaluation, given the score that was read.
UpdateFor(status, confident, attempts, score) ==
    LET delta == ComputeDelta(status, confident, attempts, score) IN
    [status |-> status, delta |-> delta, before |-> score, after |-> NewScore(score, delta)]

\* (mutant: weak answers leave no evidence.)
WithEvidenceIfCorrect(rows, u) == IF u.status = "correct" THEN Append(rows, u) ELSE rows

\* append_topic_evidence
WithEvidence(rows, u) == Append(rows, u)

\* (mutant: a row whose score stays is not touched.)
UpsertedIfChanged(row, u) ==
    IF u.after = row.score THEN row ELSE [score |-> u.after, count |-> row.count + 1]

\* (mutant: the delta is applied to the new score.)
UpsertedTwice(row, u) == [score |-> NewScore(u.after, u.delta), count |-> row.count + 1]

\* upsert_mastery_snapshot
Upserted(row, u) == [score |-> u.after, count |-> row.count + 1]
=============================================================================
