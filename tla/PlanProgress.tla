---------------------------- MODULE PlanProgress ----------------------------
(***************************************************************************)
(* The plan progress of one learner under concurrent turns.  A turn reads  *)
(* the row in one transaction (ensure_context) and advance_stage or        *)
(* move_to_stage writes all of it in a later one, computed from what was   *)
(* read; nothing orders the turns of a learner.  Normalisation is itself a *)
(* SELECT and an UPDATE, which other turns may come between.  The plan     *)
(* template may be rebuilt by the bootstrap command, which docker-compose  *)
(* runs before the API and the workers start.                              *)
(***************************************************************************)
EXTENDS PlanState, FiniteSets

CONSTANTS
    Turns,      \* executions of the engine for this learner
    Totals,     \* the numbers of sections a plan template may have
    Cap         \* bound at which the history counter of advances saturates

ASSUME TotalsAssumption == Totals \subseteq Nat \ {0}
ASSUME CapAssumption == Cap \in Nat /\ \A n \in Totals : n <= Cap

VARIABLES
    total,      \* number of stage_targets of the template
    created,    \* whether the learner has a row
    plan,       \* the row learner_plan_state
    pc,         \* where a turn is
    asked,      \* the plan operation a turn is in: "context", "advance", "move", or "none" any more
    held,       \* the row a turn has read or written last (its `state`)
    grew,       \* history: the plan got longer at a rebuild
    advances    \* history: how often a section was finished, up to Cap

planVars == <<total, created, plan>>
turnVars == <<pc, asked, held>>
vars == <<planVars, turnVars, grew, advances>>

Pcs == {"idle", "ensure", "normalise", "write", "turn"}
Operations == {"context", "advance", "move", "none"}
Stages == 0 .. total - 1

TypeOK ==
    /\ total \in Totals
    /\ created \in BOOLEAN
    /\ plan \in Row
    /\ pc \in [Turns -> Pcs]
    /\ asked \in [Turns -> Operations]
    /\ held \in [Turns -> Row]
    /\ grew \in BOOLEAN
    /\ advances \in 0 .. Cap

Init ==
    /\ total \in Totals
    /\ created = FALSE
    /\ plan = FreshRow
    /\ pc = [t \in Turns |-> "idle"]
    /\ asked = [t \in Turns |-> "none"]
    /\ held = [t \in Turns |-> FreshRow]
    /\ grew = FALSE
    /\ advances = 0

-----------------------------------------------------------------------------
(* One turn.                                                               *)

\* execute_session_inner starts and loads its context.
Begin(t) ==
    /\ pc[t] = "idle"
    /\ pc' = [pc EXCEPT ![t] = "ensure"]
    /\ asked' = [asked EXCEPT ![t] = "context"]
    /\ UNCHANGED <<planVars, held, grew, advances>>

\* A handler calls advance_stage or move_to_stage, which ensure the context
\* again; a turn does so at most once.
Ask(t, operation) ==
    /\ pc[t] = "turn" /\ asked[t] = "context"
    /\ operation \in {"advance", "move"}
    /\ pc' = [pc EXCEPT ![t] = "ensure"]
    /\ asked' = [asked EXCEPT ![t] = operation]
    /\ UNCHANGED <<planVars, held, grew, advances>>

\* What follows once a turn has its context.
AfterEnsure(t) == IF asked[t] = "context" THEN "turn" ELSE "write"

\* The INSERT ... ON CONFLICT DO NOTHING and SELECT of get_or_create_learner_plan_state.
Ensure(t) ==
    /\ pc[t] = "ensure"
    /\ created' = TRUE
    /\ held' = [held EXCEPT ![t] = plan]
    /\ pc' = [pc EXCEPT ![t] = IF Normalised(plan, total) = plan THEN AfterEnsure(t) ELSE "normalise"]
    /\ UNCHANGED <<total, plan, asked, grew, advances>>

\* Its UPDATE, of a row that no longer fits the plan.
Normalise(t) ==
    /\ pc[t] = "normalise"
    /\ plan' = Normalised(held[t], total)
    /\ held' = [held EXCEPT ![t] = plan']
    /\ pc' = [pc EXCEPT ![t] = AfterEnsure(t)]
    /\ UNCHANGED <<total, created, asked, grew, advances>>

\* update_learner_plan_state: the transaction that writes the row and reads it back.
Write(t, row) ==
    /\ plan' = row
    /\ held' = [held EXCEPT ![t] = row]
    /\ pc' = [pc EXCEPT ![t] = "turn"]
    /\ asked' = [asked EXCEPT ![t] = "none"]
    /\ UNCHANGED <<total, created, grew>>

Advance(t) ==
    /\ pc[t] = "write" /\ asked[t] = "advance"
    /\ Write(t, Advanced(held[t], total))
    /\ advances' = AtMost(advances + 1, Cap)

\* The target is chosen by the learner or a proposal; any section may be named.
MoveTo(t, target) ==
    /\ pc[t] = "write" /\ asked[t] = "move"
    /\ target \in Stages
    /\ Write(t, Moved(held[t], target))
    /\ UNCHANGED advances

\* The target is no section of the plan: nothing is written.
MoveNowhere(t) ==
    /\ pc[t] = "write" /\ asked[t] = "move"
    /\ pc' = [pc EXCEPT ![t] = "turn"]
    /\ asked' = [asked EXCEPT ![t] = "none"]
    /\ UNCHANGED <<planVars, held, grew, advances>>

\* The turn ends with an answer, or at any point with an exception or a crash;
\* its locals are dropped.
End(t) ==
    /\ pc[t] # "idle"
    /\ pc' = [pc EXCEPT ![t] = "idle"]
    /\ asked' = [asked EXCEPT ![t] = "none"]
    /\ held' = [held EXCEPT ![t] = FreshRow]
    /\ UNCHANGED <<planVars, grew, advances>>

\* bootstrap_default_template rewrites an incomplete template under the same
\* id, while nothing else runs.
RebuildTemplate(n) ==
    /\ \A t \in Turns : pc[t] = "idle"
    /\ n \in Totals \ {total}
    /\ total' = n
    /\ grew' = (grew \/ n > total)
    /\ UNCHANGED <<created, plan, turnVars, advances>>

-----------------------------------------------------------------------------

\* The steps a running turn takes by itself.
TurnStep(t) ==
    \/ Ensure(t)
    \/ Normalise(t)
    \/ Advance(t)
    \/ \E target \in Stages : MoveTo(t, target)
    \/ MoveNowhere(t)

Next ==
    \/ \E t \in Turns :
        \/ Begin(t)
        \/ \E operation \in {"advance", "move"} : Ask(t, operation)
        \/ TurnStep(t)
        \/ End(t)
    \/ \E n \in Totals : RebuildTemplate(n)

Spec == Init /\ [][Next]_vars

\* A turn that runs goes on; whether one is started, asks to advance or dies is open.
FairSpec == Spec /\ \A t \in Turns : WF_vars(TurnStep(t))

-----------------------------------------------------------------------------
(* Properties.                                                             *)

\* A turn has a context: it answers with it and computes the next row from it.
HasContext(t) == pc[t] \in {"turn", "write"}

\* current_stage_from_state and build_plan_payload index the plan with what a
\* turn holds: whatever was rebuilt or overwritten, the row a turn works with
\* lies within the plan, and a plan that is counted through is completed.
ContextInPlan ==
    \A t \in Turns : HasContext(t) =>
        /\ held[t].index \in Stages
        /\ held[t].count <= total
        /\ held[t].count = total => held[t].done

\* completed_count and current_stage_index are changed by different rules (one
\* counts, one points): through every sequence and overlap of advances and
\* moves, sections are counted only up to the current one.  While the plan has
\* not grown, a plan that is not completed has its current section uncounted,
\* so with ContextInPlan it is completed exactly when all are counted.  Once it
\* has grown, a plan counted through is still completed, and one that is not
\* may have its current section counted: the one exception, by one section.
CountFollowsPosition ==
    \A row \in {plan} \cup {held[t] : t \in {u \in Turns : HasContext(u)}} :
        /\ row.count <= row.index + 1
        /\ ~row.done /\ ~grew => row.count <= row.index

\* Turns overwrite each other with rows read earlier; progress may get lost so,
\* but no interleaving counts a section that no turn has finished.
ProgressIsEarned ==
    /\ plan.count <= advances
    /\ \A t \in Turns : held[t].count <= advances

\* A learner who keeps moving on finishes the plan: if from some point on no
\* turn goes back and the plan stays, and sections are finished again and
\* again, the plan is completed for good - although overlapping turns undo
\* each other's progress, and although after a revisit the position reaches
\* the end of the plan before the count does.
MovingOnFinishes ==
    /\ <>[][\A t \in Turns : ~ \E target \in Stages : MoveTo(t, target)]_vars
    /\ <>[][UNCHANGED total]_vars
    /\ []<><<\E t \in Turns : Advance(t)>>_vars
    => <>[]plan.done

-----------------------------------------------------------------------------
(* The inductive invariant behind the safety properties above.             *)

\* Every row, stored or in hand, follows the position; and as long as the plan
\* never grew, a completed row counts the whole plan.
Sound(row) ==
    /\ row.count <= row.index + 1
    /\ ~row.done /\ ~grew => row.count <= row.index
    /\ row.done /\ ~grew => row.count >= total

RowsSound == Sound(plan) /\ \A t \in Turns : Sound(held[t])

\* A rebuild of the template meets no turn that holds a row of the old plan.
IdleHoldsNothing == \A t \in Turns : pc[t] = "idle" => held[t] = FreshRow

IndInv ==
    /\ TypeOK
    /\ RowsSound
    /\ IdleHoldsNothing
    /\ ContextInPlan
    /\ ProgressIsEarned
=============================================================================
