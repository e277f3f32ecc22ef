----------------------------- MODULE TeacherTurn -----------------------------
(***************************************************************************)
(* The engine at work for one learner: execute_session_inner and its       *)
(* handlers, run by several executions that nothing orders (tasks of       *)
(* different turns in several workers, or inline), each of which may raise *)
(* after any of its transactions and be retried with the same request.     *)
(* What an execution decides on is recomputed from what it has read: the   *)
(* plan row, the learner's last events (pending task, attempts, latest     *)
(* proposal) and the mastery scores.  What an LLM answers is a choice.     *)
(***************************************************************************)
EXTENDS PlanState, MasteryScore, FiniteSets, SequencesExt

CONSTANTS
    Executions,  \* executions of the engine that may overlap
    Total,       \* sections of the plan
    Requests,    \* the requests the learner may make
    Tasks,       \* per section, the tasks its understanding may name
    Proposals,   \* the proposals the teacher may make
    Verdicts,    \* the statuses the evaluation of an answer may have
    Confidences, \* whether the evaluation may be confident, and not
    Window,      \* rows of the event log that are looked at, 20 in the code
    MaxTurns,    \* bound on the requests of the learner
    MaxRaises    \* bound on the executions that raise

Stages == 0 .. Total - 1
NoStage == -1
UnknownStage == Total   \* a section id that is not in the plan
Targets == Stages \cup {UnknownStage}
Kinds == {"checkpoint", "exercise"}
ProposalTypes == {"continue", "advance", "revisit", "skip"}
Debts == Kinds \cup {"skipped", "refused"}
Operations == {"stay", "advance", "move"}

NoProposal == [type |-> "none", target |-> NoStage]
NoTask == [kind |-> "none", section |-> NoStage, attempts |-> 0]
NoUpdate == [status |-> "none", delta |-> 0, before |-> 0, after |-> 0]
Stay == [operation |-> "stay", target |-> NoStage, owes |-> "none"]

ASSUME TotalAssumption == Total \in Nat \ {0}
ASSUME TasksAssumption == Tasks \in [Stages -> SUBSET (Kinds \cup {"none"})]
ASSUME ProposalsAssumption == Proposals \subseteq [type : ProposalTypes, target : Targets \cup {NoStage}]
ASSUME AnswersAssumption == Verdicts \subseteq Statuses /\ Confidences \subseteq BOOLEAN
ASSUME BoundsAssumption == Window \in Nat \ {0} /\ MaxTurns \in Nat /\ MaxRaises \in Nat

\* (event_type, proposal_type) of a request; continue_session differs from
\* open_session in prompts and lesson only.
AllRequests == [event : {"reply", "open", "moveOn", "accept", "refuse"}, type : ProposalTypes \cup {"none"}]
OpenRequest == [event |-> "open", type |-> "none"]

ASSUME RequestsAssumption == Requests \subseteq AllRequests

VARIABLES
    created, plan,  \* learner_plan_state of the learner
    log,        \* teacher_session_events
    evidence,   \* topic_evidence, per section
    snapshot,   \* mastery_snapshots, per section
    debt,       \* learning_debt
    pc,         \* where an execution is
    request,    \* its request
    held,       \* the plan row it has (its `state`)
    task,       \* its pending task
    seen,       \* history: length of the log when it resolved its task
    goal,       \* what its handler does: plan operation, target, debt
    update,     \* the mastery update of the answer it evaluates
    gains,      \* history: per section, the sum of all gains its evidence shows
    lost,       \* history: per section, answers whose execution raised after its update
    turns,      \* requests so far
    raises,     \* executions that have raised so far
    advances    \* history: sections finished so far, up to Total

planVars == <<created, plan, advances>>
mastery == <<evidence, snapshot, gains>>
choices == <<goal, update>>
runVars == <<request, turns, raises, lost>>
vars == <<planVars, log, mastery, debt, pc, held, task, seen, choices, runVars>>

\* current_stage_from_state
CurrentStage(row) == IF row.done THEN NoStage ELSE AtMost(row.index, Total - 1)

Pcs == {"idle", "failed", "context", "task", "decide", "owe", "ensure", "write",
        "evaluate", "persist", "plan", "payload"}
Updates == [status : Statuses \cup {"none"}, delta : Int, before : Scores, after : Scores]
PendingTasks == [kind : Kinds, section : Stages, attempts : Nat]
Goals == [operation : Operations, target : Targets \cup {NoStage}, owes : Debts \cup {"none"}]
Scored == [score : Scores, count : Nat]
Events == [section : Stages \cup {NoStage}, verdict : Statuses \cup {"none"},
           proposal : Proposals \cup {NoProposal}, seen : Nat]

TypeOK ==
    /\ created \in BOOLEAN
    /\ plan \in Row
    /\ log \in Seq(Events)
    /\ evidence \in [Stages -> Seq(Updates)]
    /\ snapshot \in [Stages -> Scored]
    /\ gains \in [Stages -> Nat]
    /\ debt \in [Stages -> [Debts -> Nat]]
    /\ pc \in [Executions -> Pcs]
    /\ request \in [Executions -> AllRequests]
    /\ held \in [Executions -> Row]
    /\ task \in [Executions -> PendingTasks \cup {NoTask}]
    /\ seen \in [Executions -> Nat]
    /\ goal \in [Executions -> Goals]
    /\ update \in [Executions -> Updates]
    /\ lost \in [Stages -> Nat]
    /\ turns \in 0 .. MaxTurns
    /\ raises \in 0 .. MaxRaises
    /\ advances \in 0 .. Total

Init ==
    /\ created = FALSE
    /\ plan = FreshRow
    /\ log = <<>>
    /\ evidence = [s \in Stages |-> <<>>]
    /\ snapshot = [s \in Stages |-> [score |-> 0, count |-> 0]]
    /\ gains = [s \in Stages |-> 0]
    /\ debt = [s \in Stages |-> [d \in Debts |-> 0]]
    /\ pc = [e \in Executions |-> "idle"]
    /\ request = [e \in Executions |-> OpenRequest]
    /\ held = [e \in Executions |-> FreshRow]
    /\ task = [e \in Executions |-> NoTask]
    /\ seen = [e \in Executions |-> 0]
    /\ goal = [e \in Executions |-> Stay]
    /\ update = [e \in Executions |-> NoUpdate]
    /\ lost = [s \in Stages |-> 0]
    /\ turns = 0
    /\ raises = 0
    /\ advances = 0

-----------------------------------------------------------------------------
(* What is recomputed from the learner's last events.                      *)

\* (mutant: the rows come in ascending order.)
FirstEvents == SubSeq(log, 1, AtMost(Len(log), Window))

\* list_recent_teacher_session_events
RecentEvents == SubSeq(log, IF Len(log) > Window THEN Len(log) - Window + 1 ELSE 1, Len(log))

\* The events of a section that carry an evaluation with one of the statuses.
Evaluated(events, s, statuses) ==
    {i \in DOMAIN events : events[i].section = s /\ events[i].verdict \in statuses}

\* resolve_pending_task: the section's task, unless it was answered, with the
\* number of weak answers so far.
PendingTask(kind, s) ==
    IF kind = "none" \/ Evaluated(RecentEvents, s, {"correct"}) # {}
    THEN NoTask
    ELSE [kind |-> kind, section |-> s,
          attempts |-> Cardinality(Evaluated(RecentEvents, s, {"partial", "incorrect", "unresolved"}))]

\* get_latest_teacher_proposal, of the type the request names if it names one.
LatestProposal(type) ==
    LET made == {i \in DOMAIN RecentEvents :
                    /\ RecentEvents[i].proposal # NoProposal
                    /\ type \in {"none", RecentEvents[i].proposal.type}}
    IN  IF made = {} THEN NoProposal ELSE RecentEvents[Max(made)].proposal

-----------------------------------------------------------------------------
(* What a handler may decide to do.                                        *)

Advance(owes) == [operation |-> "advance", target |-> NoStage, owes |-> owes]
Move(target) == [operation |-> "move", target |-> target, owes |-> "none"]

\* A refused revisit is a debt, unless the plan is completed.
Refuse(e) == IF CurrentStage(held[e]) = NoStage THEN Stay ELSE [Stay EXCEPT !.owes = "refused"]

\* An accepted proposal to revisit needs a target.
Revisit(offer) == IF offer.target = NoStage THEN Stay ELSE Move(offer.target)

\* _handle_navigation: accept, advance, revisit or refuse, as the intent names it.
NavigationGoals(e, offer) ==
    {CASE offer.type = "revisit" -> Revisit(offer)
       [] offer.type = "advance" -> Advance("none")
       [] OTHER -> Stay,
     Advance(IF task[e] = NoTask THEN "none" ELSE "skipped"),
     IF offer.type = "revisit" THEN Refuse(e) ELSE Stay}
    \cup {Move(target) : target \in Targets}

\* _handle_non_reply_event
EventGoal(e, offer) ==
    LET r == request[e] IN
    CASE r.event = "accept" /\ r.type = "revisit" -> Revisit(offer)
      [] r.event = "accept" /\ r.type \in {"advance", "skip"} -> Advance("none")
      [] r.event = "refuse" /\ r.type = "revisit" -> Refuse(e)
      [] r.event = "moveOn" -> Advance(task[e].kind)
      [] OTHER -> Stay

-----------------------------------------------------------------------------
(* An execution, transaction by transaction.                               *)

Goes(e, to) == pc' = [pc EXCEPT ![e] = to]

\* A turn of the learner reaches the engine.
Start(e, r) ==
    /\ pc[e] = "idle" /\ turns < MaxTurns
    /\ turns' = turns + 1
    /\ request' = [request EXCEPT ![e] = r]
    /\ Goes(e, "context")
    /\ UNCHANGED <<planVars, log, mastery, debt, held, task, seen, choices, raises, lost>>

\* ensure_context; the plan always fits its template here (see PlanProgress).
LoadContext(e) ==
    /\ pc[e] = "context"
    /\ created' = TRUE
    /\ held' = [held EXCEPT ![e] = plan]
    /\ Goes(e, "task")
    /\ UNCHANGED <<plan, advances, log, mastery, debt, task, seen, choices, runVars>>

\* The understanding of the section (cached, by an LLM or a fallback) and resolve_pending_task.
ResolveTask(e) ==
    LET s == CurrentStage(held[e]) IN
    /\ pc[e] = "task"
    /\ \/ s = NoStage /\ UNCHANGED task
       \/ /\ s # NoStage
          /\ \E kind \in Tasks[s] : task' = [task EXCEPT ![e] = PendingTask(kind, s)]
    /\ seen' = [seen EXCEPT ![e] = Len(log)]
    /\ Goes(e, "decide")
    /\ UNCHANGED <<planVars, log, mastery, debt, held, choices, runVars>>

\* _resolve_recent_proposal and the choice of a handler, by the event and, for
\* a reply, by the intent an LLM names; a reply, grounded or not, that neither
\* answers the task nor navigates changes nothing but the event log.
Decide(e) ==
    LET offer == LatestProposal(request[e].type) IN
    /\ pc[e] = "decide"
    /\ \E g \in IF request[e].event = "reply" THEN NavigationGoals(e, offer) \cup {Stay}
                                              ELSE {EventGoal(e, offer)} :
        /\ goal' = [goal EXCEPT ![e] = g]
        /\ Goes(e, IF g.owes # "none" THEN "owe" ELSE IF g.operation = "stay" THEN "plan" ELSE "ensure")
    /\ UNCHANGED <<planVars, log, mastery, debt, held, task, seen, update, runVars>>

\* The intent is task_answer, and there is a task.
Answer(e) ==
    /\ pc[e] = "decide" /\ request[e].event = "reply" /\ task[e] # NoTask
    /\ Goes(e, "evaluate")
    /\ UNCHANGED <<planVars, log, mastery, debt, held, task, seen, choices, runVars>>

\* (mutant: a section owes a kind of debt once.)
OwedOnce(row, kind) == [row EXCEPT ![kind] = 1]

Owed(row, kind) == [row EXCEPT ![kind] = @ + 1]

\* _append_learning_debt, for the section the execution has loaded.
Owe(e) ==
    /\ pc[e] = "owe"
    /\ debt' = [debt EXCEPT ![CurrentStage(held[e])] = Owed(@, goal[e].owes)]
    /\ Goes(e, IF goal[e].operation = "stay" THEN "plan" ELSE "ensure")
    /\ UNCHANGED <<planVars, log, mastery, held, task, seen, choices, runVars>>

\* (mutant: the row read at the start of the turn is used.)
KeepContext(e) ==
    /\ pc[e] = "ensure"
    /\ Goes(e, "write")
    /\ UNCHANGED <<planVars, log, mastery, debt, held, task, seen, choices, runVars>>

\* advance_stage and move_to_stage first ensure the context again ...
EnsureAgain(e) ==
    /\ pc[e] = "ensure"
    /\ held' = [held EXCEPT ![e] = plan]
    /\ Goes(e, "write")
    /\ UNCHANGED <<planVars, log, mastery, debt, task, seen, choices, runVars>>

\* ... and then write the row computed from it.
WritePlan(e, row) ==
    /\ pc[e] = "write"
    /\ plan' = row
    /\ held' = [held EXCEPT ![e] = row]
    /\ Goes(e, "plan")
    /\ UNCHANGED <<created, log, mastery, debt, task, seen, choices, runVars>>

AdvanceStage(e) ==
    /\ goal[e].operation = "advance"
    /\ WritePlan(e, Advanced(held[e], Total))
    /\ advances' = AtMost(advances + 1, Total)

MoveToStage(e) ==
    /\ goal[e].operation = "move" /\ goal[e].target \in Stages
    /\ WritePlan(e, Moved(held[e], goal[e].target))
    /\ UNCHANGED advances

\* The target is no section of the plan: nothing is written.
MoveToUnknown(e) ==
    /\ pc[e] = "write" /\ goal[e].target = UnknownStage
    /\ Goes(e, "plan")
    /\ UNCHANGED <<planVars, log, mastery, debt, held, task, seen, choices, runVars>>

-----------------------------------------------------------------------------
(* The answer to a task.                                                   *)

\* The evaluation of the answer, the SELECT of the learner's mastery, and the
\* update computed from the score read.
Evaluate(e) ==
    /\ pc[e] = "evaluate"
    /\ \E status \in Verdicts, confident \in Confidences :
        update' = [update EXCEPT ![e] =
            UpdateFor(status, confident, task[e].attempts, snapshot[task[e].section].score)]
    /\ Goes(e, "persist")
    /\ UNCHANGED <<planVars, log, mastery, debt, held, task, seen, goal, runVars>>

\* What an update credits.
Gain(u) == IF u.delta > 0 THEN u.delta ELSE 0

\* _persist_mastery_update: evidence and snapshot in one transaction, which the
\* upsert of the learner's profile orders among all those of this learner.
Persist(e) ==
    LET s == task[e].section IN
    /\ pc[e] = "persist"
    /\ evidence' = [evidence EXCEPT ![s] = WithEvidence(@, update[e])]
    /\ snapshot' = [snapshot EXCEPT ![s] = Upserted(@, update[e])]
    /\ gains' = [gains EXCEPT ![s] = @ + Gain(update[e])]
    /\ Goes(e, "plan")
    /\ UNCHANGED <<planVars, log, debt, held, task, seen, choices, runVars>>

-----------------------------------------------------------------------------
(* The end of an execution.                                                *)

\* The teacher's turn is planned, with a proposal or without, and recorded
\* under the section the execution has now.
Record(e) ==
    /\ pc[e] = "plan"
    /\ \E proposal \in Proposals \cup {NoProposal} :
        log' = Append(log, [section |-> CurrentStage(held[e]), verdict |-> update[e].status,
                            proposal |-> proposal, seen |-> seen[e]])
    /\ Goes(e, "payload")
    /\ UNCHANGED <<planVars, mastery, debt, held, task, seen, choices, runVars>>

\* The locals of an execution are gone.
Drop(e) ==
    /\ held' = [held EXCEPT ![e] = FreshRow]
    /\ task' = [task EXCEPT ![e] = NoTask]
    /\ seen' = [seen EXCEPT ![e] = 0]
    /\ goal' = [goal EXCEPT ![e] = Stay]
    /\ update' = [update EXCEPT ![e] = NoUpdate]

\* Its request, too.
Forget(e) ==
    /\ Goes(e, "idle")
    /\ request' = [request EXCEPT ![e] = OpenRequest]

\* build_plan_payload reads the mastery once more, and the answer goes out.
Finish(e) ==
    /\ pc[e] = "payload"
    /\ Drop(e)
    /\ Forget(e)
    /\ UNCHANGED <<planVars, log, mastery, debt, turns, raises, lost>>

\* There is evidence of its answer, but no event.
Unrecorded(e) == pc[e] = "plan" /\ update[e] # NoUpdate

\* A call fails, or the process is killed; what was committed stays.
Raise(e) ==
    /\ pc[e] \notin {"idle", "failed"} /\ raises < MaxRaises
    /\ raises' = raises + 1
    /\ lost' = IF Unrecorded(e) THEN [lost EXCEPT ![task[e].section] = @ + 1] ELSE lost
    /\ Drop(e)
    /\ Goes(e, "failed")
    /\ UNCHANGED <<planVars, log, mastery, debt, request, turns>>

\* The task of a durable turn, or the client, runs the same request again ...
Retry(e) ==
    /\ pc[e] = "failed"
    /\ Goes(e, "context")
    /\ UNCHANGED <<planVars, log, mastery, debt, held, task, seen, choices, runVars>>

\* ... or nobody does.
GiveUp(e) ==
    /\ pc[e] = "failed"
    /\ Forget(e)
    /\ UNCHANGED <<planVars, log, mastery, debt, held, task, seen, choices, turns, raises, lost>>

Step(e) ==
    \/ \E r \in Requests : Start(e, r)
    \/ LoadContext(e) \/ ResolveTask(e) \/ Decide(e) \/ Answer(e)
    \/ Owe(e) \/ EnsureAgain(e) \/ AdvanceStage(e) \/ MoveToStage(e) \/ MoveToUnknown(e)
    \/ Evaluate(e) \/ Persist(e)
    \/ Record(e) \/ Finish(e) \/ Raise(e) \/ Retry(e) \/ GiveUp(e)

Next == \E e \in Executions : Step(e)

Spec == Init /\ [][Next]_vars

-----------------------------------------------------------------------------
(* Properties.                                                             *)

\* The score a learner sees is the one of the last piece of evidence, and the
\* counter beside it counts all of them, although updates overlap and each is
\* computed from a score that was read in an earlier transaction.
SnapshotMatchesEvidence ==
    \A s \in Stages :
        /\ snapshot[s].count = Len(evidence[s])
        /\ evidence[s] # <<>> => snapshot[s].score = Last(evidence[s]).after

\* An update that was computed from a stale score overwrites another one; it
\* may lose what the learner has earned but never credits it twice: the score
\* is at most the sum of all gains the evidence shows.
MasteryIsEarned == \A s \in Stages : snapshot[s].score <= gains[s]

\* Evidence and events are written in different transactions, with LLM calls
\* between them.  Every evaluation in the log has its evidence, and evidence
\* without an event is that of an answer being replied to right now, or of an
\* execution that raised there, whose retry evaluates the answer once more.
Replying(s) == {e \in Executions : Unrecorded(e) /\ task[e].section = s}

AnswersAccountedFor ==
    \A s \in Stages :
        Len(evidence[s]) = Cardinality(Evaluated(log, s, Statuses)) + lost[s] + Cardinality(Replying(s))

\* A task that was answered correctly is not asked again: another evaluation in
\* its section comes only from an execution that resolved its task before that
\* answer was recorded, or after so many events that it has left the window.
AnsweredStaysAnswered ==
    \A i, j \in DOMAIN log :
        /\ i < j /\ log[i].section = log[j].section
        /\ log[i].verdict = "correct" /\ log[j].verdict # "none"
        => i > log[j].seen \/ i <= log[j].seen - Window

\* A learner who moves on from an open task owes it: every execution that goes
\* on to advance the plan has left a debt of the task's kind in its section, one
\* of its own, whatever other executions and retries leave there.
Skipping(s, kind) ==
    {e \in Executions :
        /\ request[e].event = "moveOn" /\ pc[e] \in {"ensure", "write", "plan", "payload"}
        /\ task[e].section = s /\ task[e].kind = kind}

SkippedWorkIsOwed ==
    \A s \in Stages, kind \in Kinds : Cardinality(Skipping(s, kind)) <= debt[s][kind]

\* README, learner state: the penalty for attempts applies to correct answers only.
PenaltyOnlyWhenCorrect ==
    \A s \in Stages : \A i \in DOMAIN evidence[s] :
        LET u == evidence[s][i] IN
        u.status # "correct" =>
            \E confident \in BOOLEAN : u.delta = ComputeDelta(u.status, confident, 1, u.before)

-----------------------------------------------------------------------------
(* The inductive invariant behind these properties.                        *)

\* An execution that has not started, or has dropped its locals.
Blank(e) ==
    /\ held[e] = FreshRow /\ task[e] = NoTask /\ seen[e] = 0
    /\ goal[e] = Stay /\ update[e] = NoUpdate

\* What an execution knows at each place: the task is one of the section that
\* is held until the plan is written, an answer is being evaluated only for a
\* task, and the handler chosen is the one the request asked for.
Consistent(e) ==
    /\ pc[e] \in {"idle", "failed", "context"} => Blank(e)
    /\ pc[e] = "task" => task[e] = NoTask
    /\ pc[e] \in {"task", "decide", "evaluate", "persist"} => goal[e] = Stay
    /\ pc[e] \in {"evaluate", "persist"} => task[e] # NoTask /\ request[e].event = "reply"
    /\ pc[e] = "persist" => update[e] # NoUpdate
    /\ update[e] # NoUpdate =>
          /\ pc[e] \in {"persist", "plan", "payload"}
          /\ update[e].status \in Statuses /\ task[e] # NoTask
          /\ goal[e] = Stay /\ request[e].event = "reply"
    /\ task[e] # NoTask /\ (goal[e].operation = "stay" \/ pc[e] = "owe") =>
          task[e].section = CurrentStage(held[e])
    /\ pc[e] = "owe" => goal[e].owes # "none"
    /\ pc[e] \in {"ensure", "write"} => goal[e].operation # "stay"
    /\ goal[e].target # NoStage => goal[e].operation = "move"
    /\ request[e].event = "moveOn" /\ pc[e] \in {"owe", "ensure", "write", "plan", "payload"} =>
          goal[e] = Advance(task[e].kind)

\* The row of the plan always fits the plan.
Fits(row) ==
    /\ row.index \in Stages /\ row.count <= Total
    /\ row.count = Total => row.done

PlanFits == Fits(plan)

\* An execution has loaded its context only if the learner has a row.
ContextLoaded == \A e \in Executions : pc[e] \notin {"idle", "failed", "context"} => created

\* An update that waits to be written was computed from a score that had been
\* earned by then.
UpdatesEarned ==
    \A e \in Executions : pc[e] = "persist" =>
        /\ update[e].after = NewScore(update[e].before, update[e].delta)
        /\ update[e].before <= gains[task[e].section]

\* When an execution resolved its task there was no correct answer in sight.
UnansweredWhenSeen ==
    \A e \in Executions :
        /\ seen[e] <= Len(log)
        /\ task[e] # NoTask =>
              \A i \in DOMAIN log :
                 i <= seen[e] /\ i > seen[e] - Window /\ log[i].section = task[e].section
                 => log[i].verdict # "correct"

Finite == \A s \in Stages : /\ IsFiniteSet(Replying(s))
                            /\ \A kind \in Kinds : IsFiniteSet(Skipping(s, kind))

IndInv ==
    /\ TypeOK /\ PlanFits /\ ContextLoaded /\ \A e \in Executions : Consistent(e)
    /\ SnapshotMatchesEvidence
    /\ UpdatesEarned /\ MasteryIsEarned
    /\ UnansweredWhenSeen /\ AnsweredStaysAnswered
    /\ Finite /\ AnswersAccountedFor /\ SkippedWorkIsOwed

-----------------------------------------------------------------------------
(* The executions make the steps PlanProgress has for a turn.              *)

PlanPc(e) ==
    CASE pc[e] \in {"idle", "failed"} -> "idle"
      [] pc[e] \in {"context", "ensure"} -> "ensure"
      [] pc[e] = "write" -> "write"
      [] OTHER -> "turn"

PlanAsked(e) ==
    CASE pc[e] \in {"idle", "failed"} -> "none"
      [] pc[e] \in {"ensure", "write"} -> goal[e].operation
      [] pc[e] \in {"plan", "payload"} /\ goal[e].operation # "stay" -> "none"
      [] OTHER -> "context"

Progress == INSTANCE PlanProgress WITH
    Turns <- Executions, Totals <- {Total}, Cap <- Total, total <- Total, grew <- FALSE,
    pc <- [e \in Executions |-> PlanPc(e)], asked <- [e \in Executions |-> PlanAsked(e)]

\* Whatever the handlers do between, retries included, the plan row goes only
\* through what PlanProgress shows to be safe.
ImplementsPlanProgress == Progress!Spec
=============================================================================
