-------------------------- MODULE TeacherTurnProofs --------------------------
(***************************************************************************)
(* Proofs about TeacherTurn: for any number of executions, sections and    *)
(* requests, any tasks, proposals and verdicts, and any window.            *)
(***************************************************************************)
EXTENDS TeacherTurn, FiniteSetTheorems, WellFoundedInduction, TLAPS

-----------------------------------------------------------------------------
(* Rows, scores and the window of events.                                  *)

\* A nonempty set of indices has a largest one.
LEMMA MaxOfIndices ==
    ASSUME NEW n \in Nat, NEW S, S \subseteq 1 .. n, S # {}
    PROVE  Max(S) \in S
  <1> DEFINE T == {n - x : x \in S}
  <1>1. T \subseteq Nat /\ T # {}
    <2>1. PICK x \in S : TRUE
      OBVIOUS
    <2>2. n - x \in T
      OBVIOUS
    <2>3. QED
      BY <2>2
  <1>2. \E x \in T : \A y \in T : ~ (<<y, x>> \in OpToRel(<, Nat))
    BY <1>1, WFMin, NatLessThanWellFounded
  <1>3. \E x \in T : \A y \in T : x <= y
    <2> HIDE DEF T
    <2>1. PICK x \in T : \A y \in T : ~ (<<y, x>> \in OpToRel(<, Nat))
      BY <1>2
    <2>2. \A y \in Nat : y < x => <<y, x>> \in OpToRel(<, Nat)
      BY <1>1, <2>1 DEF OpToRel
    <2>3. ASSUME NEW y \in T PROVE x <= y
      <3>1. x \in Nat /\ y \in Nat /\ ~(y < x)
        BY <1>1, <2>1, <2>2
      <3>2. QED
        BY <3>1
    <2>4. QED
      BY <2>3
  <1>4. PICK m \in S : \A y \in T : n - m <= y
    BY <1>3
  <1>5. \A y \in S : m >= y
    BY <1>4
  <1>6. QED
    BY <1>5 DEF Max

\* A set of indices is finite.
LEMMA IndicesFinite ==
    ASSUME NEW n \in Nat, NEW S, S \subseteq 1 .. n
    PROVE  IsFiniteSet(S) /\ Cardinality(S) \in Nat
  <1>1. IsFiniteSet(1 .. n)
    BY FS_Interval
  <1>2. QED
    BY <1>1, FS_Subset, FS_CardinalityType

\* A row points at a section of the plan, or is done.
LEMMA StageType ==
    ASSUME NEW row \in Row
    PROVE  CurrentStage(row) \in Stages \cup {NoStage}
  BY TotalAssumption DEF Row, CurrentStage, AtMost, Stages

\* The rows that are written are rows and fit the plan.
LEMMA WrittenRows ==
    ASSUME NEW row \in Row
    PROVE  /\ Advanced(row, Total) \in Row /\ Fits(Advanced(row, Total))
           /\ \A target \in Stages : Moved(row, target) \in Row /\ Fits(Moved(row, target))
           /\ FreshRow \in Row /\ Fits(FreshRow)
  <1>1. Total \in Nat /\ Total > 0 /\ row.index \in Nat /\ row.count \in Nat /\ row.done \in BOOLEAN
    BY TotalAssumption DEF Row
  <1>2. Advanced(row, Total) \in Row /\ Fits(Advanced(row, Total))
    <2> DEFINE next == Advanced(row, Total)
               count == AtMost(row.count + 1, Total)
    <2>1. /\ next.index = IF count >= Total THEN Total - 1 ELSE AtMost(row.index + 1, Total - 1)
          /\ next.count = count
          /\ next.done <=> (count >= Total)
      BY DEF Advanced
    <2>2. next.index \in Stages /\ next.count \in Nat /\ next.count <= Total
      BY <1>1, <2>1 DEF AtMost, Stages
    <2>3. next.index \in Nat
      BY <2>2 DEF Stages
    <2>4. next \in Row
      BY <2>2, <2>3 DEF Advanced, Row
    <2>5. QED
      BY <1>1, <2>1, <2>2, <2>4 DEF Fits
  <1>3. ASSUME NEW target \in Stages
        PROVE  Moved(row, target) \in Row /\ Fits(Moved(row, target))
    <2> DEFINE next == Moved(row, target)
    <2>1. next.index = target /\ next.count = AtMost(row.count, target) /\ next.done = FALSE
      BY DEF Moved
    <2>2. next.index \in Nat /\ next.count \in Nat /\ next.count < Total
      BY <1>1, <2>1 DEF AtMost, Stages
    <2>3. next \in Row
      BY <2>1, <2>2 DEF Moved, Row
    <2>4. QED
      BY <1>1, <2>1, <2>2, <2>3 DEF Fits
  <1>4. FreshRow \in Row /\ Fits(FreshRow)
    BY <1>1 DEF FreshRow, Fits, Row, Stages
  <1>5. QED
    BY <1>2, <1>3, <1>4

\* Normalising a row that fits changes nothing.
LEMMA NormalisedIsSame ==
    ASSUME NEW row \in Row, Fits(row)
    PROVE  Normalised(row, Total) = row
  <1>1. /\ Total \in Nat /\ row.index \in Nat /\ row.count \in Nat /\ row.done \in BOOLEAN
        /\ row = [index |-> row.index, count |-> row.count, done |-> row.done]
    BY TotalAssumption DEF Row
  <1>2. AtMost(row.index, Total - 1) = row.index /\ AtMost(row.count, Total) = row.count
    BY <1>1 DEF AtMost, Fits, Stages
  <1>3. (row.done \/ row.count >= Total) = row.done
    BY <1>1 DEF Fits
  <1>4. QED
    BY <1>1, <1>2, <1>3 DEF Normalised

\* A score stays between none and full, whatever is added to it.
LEMMA ClampedSum ==
    ASSUME NEW score \in Int, NEW d \in Int
    PROVE  NewScore(score, d) \in Scores
  <1>1. PICK sum \in Int : sum = score + d
    OBVIOUS
  <1>2. NewScore(score, d) = IF sum > 10000 THEN 10000 ELSE IF sum < 0 THEN 0 ELSE sum
    BY <1>1 DEF NewScore
  <1>3. NewScore(score, d) \in Int /\ 0 <= NewScore(score, d) /\ NewScore(score, d) <= 10000
    <2>1. CASE sum > 10000
      BY <1>2, <2>1
    <2>2. CASE sum < 0
      BY <1>2, <2>2
    <2>3. CASE ~(sum > 10000) /\ ~(sum < 0)
      BY <1>2, <2>3
    <2>4. QED
      BY <2>1, <2>2, <2>3
  <1>4. PICK full \in Int : full = 10000
    OBVIOUS
  <1>5. Scores = 0 .. full
    BY <1>4 DEF Scores
  <1>6. NewScore(score, d) \in 0 .. full
    <2>1. PICK new \in Int : new = NewScore(score, d)
      BY <1>3
    <2>2. 0 <= new /\ new <= full
      BY <1>3, <1>4, <2>1
    <2>3. new \in 0 .. full
      BY <2>2
    <2>4. QED
      BY <2>1, <2>3
  <1>7. QED
    BY <1>5, <1>6

\* The delta is a number, and the score stays a score.
LEMMA UpdateType ==
    ASSUME NEW status \in Statuses, NEW confident \in BOOLEAN, NEW attempts \in Nat, NEW score \in Scores
    PROVE  LET u == UpdateFor(status, confident, attempts, score)
           IN  /\ u \in Updates /\ u.status = status
               /\ u.before = score /\ u.after = NewScore(score, u.delta)
  <1>1. DeltaBase[status] \in Int
    BY DEF DeltaBase, Statuses
  <1>2. Scaled(status, confident) \in Int
    BY <1>1 DEF Scaled
  <1>3. AttemptTenths(attempts) \in Int
    BY DEF AttemptTenths
  <1>4. \A x \in Int, y \in Int : x * y \in Int /\ x \div 10 \in Int /\ x \div 100000 \in Int /\ x + y \in Int /\ x - y \in Int
    OBVIOUS
  <1>5. score \in Int
    BY DEF Scores
  <1>6. ComputeDelta(status, confident, attempts, score) \in Int
    <2>1. (Scaled(status, confident) * AttemptTenths(attempts)) \div 10 \in Int
      BY <1>2, <1>3, <1>4
    <2>2. 100000 - 6 * score \in Int
      BY <1>5
    <2>3. ((Scaled(status, confident) * AttemptTenths(attempts)) \div 10) * (100000 - 6 * score) \in Int
      BY <1>4, <2>1, <2>2
    <2>4. (((Scaled(status, confident) * AttemptTenths(attempts)) \div 10) * (100000 - 6 * score) + 50000) \div 100000 \in Int
      BY <1>4, <2>3
    <2>5. QED
      BY <1>2, <2>4 DEF ComputeDelta
  <1>7. \A d \in Int : NewScore(score, d) \in Scores
    BY <1>5, ClampedSum
  <1>8. QED
    BY <1>6, <1>7 DEF UpdateFor, Updates

\* The window is the end of the log.
LEMMA WindowOfLog ==
    ASSUME log \in Seq(Events)
    PROVE  /\ RecentEvents \in Seq(Events) /\ Len(RecentEvents) \in Nat
           /\ DOMAIN RecentEvents = 1 .. Len(RecentEvents)
           /\ \A i \in DOMAIN RecentEvents : RecentEvents[i] \in Events
           /\ \A i \in DOMAIN log : i > Len(log) - Window =>
                 \E j \in DOMAIN RecentEvents : RecentEvents[j] = log[i]
  <1>1. Len(log) \in Nat /\ Window \in Nat /\ Window > 0 /\ DOMAIN log = 1 .. Len(log)
    BY BoundsAssumption
  <1> DEFINE first == IF Len(log) > Window THEN Len(log) - Window + 1 ELSE 1
  <1>2. first \in Nat /\ first >= 1 /\ first <= Len(log) + 1
    BY <1>1
  <1>3. RecentEvents = SubSeq(log, first, Len(log))
    BY DEF RecentEvents
  <1>4. first > Len(log) - Window /\ \A i \in DOMAIN log : i > Len(log) - Window => i >= first
    BY <1>1
  <1> HIDE DEF first
  <1>5. /\ RecentEvents \in Seq(Events) /\ Len(RecentEvents) = Len(log) - first + 1
        /\ \A j \in 1 .. Len(log) - first + 1 : RecentEvents[j] = log[first + j - 1]
    BY <1>1, <1>2, <1>3
  <1>6. ASSUME NEW i \in DOMAIN log, i > Len(log) - Window
        PROVE  \E j \in DOMAIN RecentEvents : RecentEvents[j] = log[i]
    <2>1. i >= first /\ i - first + 1 \in 1 .. Len(log) - first + 1 /\ first + (i - first + 1) - 1 = i
      BY <1>1, <1>2, <1>4, <1>6
    <2>2. RecentEvents[i - first + 1] = log[i] /\ i - first + 1 \in DOMAIN RecentEvents
      BY <1>5, <2>1
    <2>3. QED
      BY <2>2
  <1>7. QED
    BY <1>1, <1>2, <1>5, <1>6

\* The pending task is one of the section, and there was no correct answer in
\* the window.
LEMMA PendingTaskType ==
    ASSUME log \in Seq(Events), NEW kind \in Kinds \cup {"none"}, NEW s \in Stages
    PROVE  /\ PendingTask(kind, s) \in PendingTasks \cup {NoTask}
           /\ PendingTask(kind, s) # NoTask =>
                 /\ PendingTask(kind, s).section = s
                 /\ \A i \in DOMAIN log : i > Len(log) - Window /\ log[i].section = s => log[i].verdict # "correct"
  <1>1. \A statuses : Cardinality(Evaluated(RecentEvents, s, statuses)) \in Nat
    BY WindowOfLog, IndicesFinite DEF Evaluated
  <1>2. CASE kind = "none" \/ Evaluated(RecentEvents, s, {"correct"}) # {}
    BY <1>2 DEF PendingTask
  <1>3. CASE kind # "none" /\ Evaluated(RecentEvents, s, {"correct"}) = {}
    <2>1. /\ PendingTask(kind, s) \in PendingTasks
          /\ PendingTask(kind, s).section = s
      BY <1>1, <1>3 DEF PendingTask, PendingTasks
    <2>2. \A j \in DOMAIN RecentEvents : RecentEvents[j].section = s => RecentEvents[j].verdict # "correct"
      BY <1>3 DEF Evaluated
    <2>3. QED
      BY <2>1, <2>2, WindowOfLog
  <1>4. QED
    BY <1>2, <1>3

\* The latest proposal is one the teacher made.
LEMMA LatestProposalType ==
    ASSUME log \in Seq(Events), NEW type
    PROVE  LatestProposal(type) \in Proposals \cup {NoProposal}
  <1> DEFINE made == {i \in DOMAIN RecentEvents :
                        /\ RecentEvents[i].proposal # NoProposal
                        /\ type \in {"none", RecentEvents[i].proposal.type}}
  <1>1. made # {} => Max(made) \in made
    BY WindowOfLog, MaxOfIndices
  <1>2. \A i \in made : RecentEvents[i].proposal \in Proposals \cup {NoProposal}
    BY WindowOfLog DEF Events
  <1>3. QED
    BY <1>1, <1>2 DEF LatestProposal

-----------------------------------------------------------------------------
(* Types.                                                                  *)

\* Whatever a handler decides is a goal: a target only to move to it, and for
\* a request to move on, to advance and owe the open task.
LEMMA GoalType ==
    ASSUME TypeOK, NEW e \in Executions,
           NEW g \in IF request[e].event = "reply"
                     THEN NavigationGoals(e, LatestProposal(request[e].type)) \cup {Stay}
                     ELSE {EventGoal(e, LatestProposal(request[e].type))}
    PROVE  /\ g \in Goals
           /\ g.target # NoStage => g.operation = "move"
           /\ request[e].event = "moveOn" => g = Advance(task[e].kind)
  <1> DEFINE offer == LatestProposal(request[e].type)
  <1>1. offer \in Proposals \cup {NoProposal}
    BY LatestProposalType DEF TypeOK
  <1>2. offer.target \in Targets \cup {NoStage}
    BY <1>1, ProposalsAssumption DEF NoProposal
  <1>3. task[e].kind \in Debts \cup {"none"}
    BY DEF TypeOK, PendingTasks, NoTask, Kinds, Debts
  <1> DEFINE Good(x) == x \in Goals /\ (x.target # NoStage => x.operation = "move")
  <1>4. Good(Stay) /\ Good([Stay EXCEPT !.owes = "refused"])
    BY DEF Stay, Goals, Operations, Debts
  <1>5. \A owes \in Debts \cup {"none"} : Good(Advance(owes))
    BY DEF Advance, Goals, Operations
  <1>6. \A target \in Targets : Good(Move(target))
    BY DEF Move, Goals, Operations
  <1> HIDE DEF Good
  <1>7. Good(Revisit(offer)) /\ Good(Refuse(e))
    BY <1>2, <1>4, <1>6 DEF Revisit, Refuse
  <1>8. \A owes \in {"none", "skipped"} : Good(Advance(owes))
    BY <1>5 DEF Debts
  <1>9. Good(EventGoal(e, offer))
    BY <1>3, <1>4, <1>5, <1>7, <1>8 DEF EventGoal
  <1>10. \A x \in NavigationGoals(e, offer) : Good(x)
    BY <1>4, <1>6, <1>7, <1>8 DEF NavigationGoals
  <1>11. Good(g)
    BY <1>4, <1>9, <1>10
  <1>12. request[e].event = "moveOn" => g = Advance(task[e].kind)
    BY DEF EventGoal
  <1>13. QED
    BY <1>11, <1>12 DEF Good

\* An execution that decides has a goal, and goes where it needs to.
LEMMA DecideTypes ==
    ASSUME TypeOK, NEW e \in Executions, Decide(e)
    PROVE  /\ TypeOK'
           /\ goal'[e].target # NoStage => goal'[e].operation = "move"
           /\ request[e].event = "moveOn" => goal'[e] = Advance(task[e].kind)
           /\ pc'[e] \in {"owe", "plan", "ensure"}
           /\ pc'[e] = "owe" => goal'[e].owes # "none"
           /\ pc'[e] = "ensure" => goal'[e].operation # "stay"
  <1>1. PICK g \in IF request[e].event = "reply"
                   THEN NavigationGoals(e, LatestProposal(request[e].type)) \cup {Stay}
                   ELSE {EventGoal(e, LatestProposal(request[e].type))} :
            /\ goal' = [goal EXCEPT ![e] = g]
            /\ Goes(e, IF g.owes # "none" THEN "owe" ELSE IF g.operation = "stay" THEN "plan" ELSE "ensure")
    BY DEF Decide
  <1>2. /\ g \in Goals
        /\ g.target # NoStage => g.operation = "move"
        /\ request[e].event = "moveOn" => g = Advance(task[e].kind)
    BY GoalType
  <1>3. goal'[e] = g /\ goal' \in [Executions -> Goals]
    BY <1>1, <1>2 DEF TypeOK
  <1>4. /\ pc'[e] = IF g.owes # "none" THEN "owe" ELSE IF g.operation = "stay" THEN "plan" ELSE "ensure"
        /\ pc' \in [Executions -> Pcs]
    BY <1>1 DEF TypeOK, Goes, Pcs
  <1>5. TypeOK'
    BY <1>3, <1>4 DEF Decide, TypeOK, planVars, mastery, runVars
  <1>6. QED
    BY <1>2, <1>3, <1>4, <1>5

\* What an execution drops to is of the types.
LEMMA DropTypes ==
    ASSUME TypeOK, NEW e \in Executions, Drop(e)
    PROVE  /\ held' \in [Executions -> Row] /\ task' \in [Executions -> PendingTasks \cup {NoTask}]
           /\ seen' \in [Executions -> Nat] /\ goal' \in [Executions -> Goals] /\ update' \in [Executions -> Updates]
  <1>1. FreshRow \in Row /\ Stay \in Goals /\ NoUpdate \in Updates
    BY DEF FreshRow, Row, Stay, Goals, Operations, NoUpdate, Updates, Scores
  <1>2. QED
    BY <1>1 DEF TypeOK, Drop

\* The task and section an answer is evaluated for.
LEMMA TaskType ==
    ASSUME TypeOK, NEW e \in Executions, task[e] # NoTask
    PROVE  task[e] \in PendingTasks /\ task[e].kind \in Kinds /\ task[e].section \in Stages /\ task[e].attempts \in Nat
  BY DEF TypeOK, PendingTasks

\* No step leaves the types.
LEMMA TypeStep == IndInv /\ [Next]_vars => TypeOK'
  <1> SUFFICES ASSUME IndInv, [Next]_vars PROVE TypeOK'
    OBVIOUS
  <1> USE DEF IndInv, TypeOK, Goes, Pcs, planVars, mastery, choices, runVars
  <1>1. ASSUME NEW e \in Executions, NEW r \in Requests, Start(e, r) PROVE TypeOK'
    BY <1>1, RequestsAssumption, BoundsAssumption DEF Start
  <1>2. ASSUME NEW e \in Executions, LoadContext(e) PROVE TypeOK'
    BY <1>2 DEF LoadContext
  <1>3. ASSUME NEW e \in Executions, ResolveTask(e) PROVE TypeOK'
    <2>1. CurrentStage(held[e]) \in Stages \cup {NoStage}
      BY StageType
    <2>2. task' \in [Executions -> PendingTasks \cup {NoTask}]
      <3>1. CASE UNCHANGED task
        BY <3>1
      <3>2. ASSUME CurrentStage(held[e]) # NoStage,
                   \E kind \in Tasks[CurrentStage(held[e])] :
                       task' = [task EXCEPT ![e] = PendingTask(kind, CurrentStage(held[e]))]
            PROVE  task' \in [Executions -> PendingTasks \cup {NoTask}]
        <4>1. CurrentStage(held[e]) \in Stages
          BY <2>1, <3>2
        <4>2. Tasks[CurrentStage(held[e])] \subseteq Kinds \cup {"none"}
          BY <4>1, TasksAssumption
        <4>3. PICK kind \in Tasks[CurrentStage(held[e])] :
                 task' = [task EXCEPT ![e] = PendingTask(kind, CurrentStage(held[e]))]
          BY <3>2
        <4>4. PendingTask(kind, CurrentStage(held[e])) \in PendingTasks \cup {NoTask}
          BY <4>1, <4>2, PendingTaskType
        <4>5. QED
          BY <4>3, <4>4
      <3>3. QED
        BY <1>3, <3>1, <3>2 DEF ResolveTask
    <2>3. Len(log) \in Nat
      OBVIOUS
    <2>4. seen' \in [Executions -> Nat]
      BY <1>3, <2>3 DEF ResolveTask
    <2>5. QED
      BY <1>3, <2>2, <2>4 DEF ResolveTask
  <1>4. ASSUME NEW e \in Executions, Decide(e) PROVE TypeOK'
    BY <1>4, DecideTypes
  <1>5. ASSUME NEW e \in Executions, Answer(e) PROVE TypeOK'
    BY <1>5 DEF Answer
  <1>6. ASSUME NEW e \in Executions, Owe(e) PROVE TypeOK'
    <2>1. goal[e].owes \in Debts
      BY <1>6 DEF Owe, Consistent, Goals
    <2>2. \A row \in [Debts -> Nat] : Owed(row, goal[e].owes) \in [Debts -> Nat]
      BY <2>1 DEF Owed
    <2>3. debt' \in [Stages -> [Debts -> Nat]]
      BY <1>6, <2>2 DEF Owe
    <2>4. QED
      BY <1>6, <2>3 DEF Owe
  <1>7. ASSUME NEW e \in Executions, EnsureAgain(e) PROVE TypeOK'
    BY <1>7 DEF EnsureAgain
  <1>8. ASSUME NEW e \in Executions, AdvanceStage(e) PROVE TypeOK'
    <2>1. AtMost(advances + 1, Total) \in 0 .. Total
      BY TotalAssumption DEF AtMost
    <2>2. QED
      BY <1>8, <2>1, WrittenRows DEF AdvanceStage, WritePlan
  <1>9. ASSUME NEW e \in Executions, MoveToStage(e) PROVE TypeOK'
    BY <1>9, WrittenRows DEF MoveToStage, WritePlan
  <1>10. ASSUME NEW e \in Executions, MoveToUnknown(e) PROVE TypeOK'
    BY <1>10 DEF MoveToUnknown
  <1>11. ASSUME NEW e \in Executions, Evaluate(e) PROVE TypeOK'
    <2>1. task[e] # NoTask /\ task[e].section \in Stages /\ task[e].attempts \in Nat
      BY <1>11, TaskType DEF Evaluate, Consistent
    <2>2. snapshot[task[e].section].score \in Scores
      BY <2>1 DEF Scored
    <2>3. \A status \in Verdicts, confident \in Confidences :
             UpdateFor(status, confident, task[e].attempts, snapshot[task[e].section].score) \in Updates
      BY <2>1, <2>2, UpdateType, AnswersAssumption
    <2>4. update' \in [Executions -> Updates]
      BY <1>11, <2>3 DEF Evaluate
    <2>5. QED
      BY <1>11, <2>4 DEF Evaluate
  <1>12. ASSUME NEW e \in Executions, Persist(e) PROVE TypeOK'
    <2>1. task[e].section \in Stages
      BY <1>12, TaskType DEF Persist, Consistent
    <2>2. update[e] \in Updates /\ update[e].after \in Scores /\ Gain(update[e]) \in Nat
      BY DEF Updates, Gain
    <2>3. evidence' \in [Stages -> Seq(Updates)]
      <3>1. \A rows \in Seq(Updates) : Append(rows, update[e]) \in Seq(Updates)
        BY <2>2
      <3>2. evidence' = [evidence EXCEPT ![task[e].section] = Append(evidence[task[e].section], update[e])]
        BY <1>12 DEF Persist, WithEvidence
      <3>3. QED
        BY <2>1, <3>1, <3>2
    <2>4. snapshot' \in [Stages -> Scored]
      <3>1. \A row \in Scored : Upserted(row, update[e]) \in Scored
        BY <2>2 DEF Upserted, Scored
      <3>2. QED
        BY <1>12, <3>1 DEF Persist
    <2>5. gains' \in [Stages -> Nat]
      <3>1. gains' = [gains EXCEPT ![task[e].section] = gains[task[e].section] + Gain(update[e])]
        BY <1>12 DEF Persist
      <3>2. gains[task[e].section] + Gain(update[e]) \in Nat
        BY <2>1, <2>2
      <3>3. QED
        BY <3>1, <3>2
    <2>6. QED
      BY <1>12, <2>3, <2>4, <2>5 DEF Persist
  <1>13. ASSUME NEW e \in Executions, Record(e) PROVE TypeOK'
    <2>1. CurrentStage(held[e]) \in Stages \cup {NoStage}
      BY StageType
    <2>2. update[e].status \in Statuses \cup {"none"} /\ seen[e] \in Nat
      BY DEF Updates
    <2>3. \A proposal \in Proposals \cup {NoProposal} :
             [section |-> CurrentStage(held[e]), verdict |-> update[e].status,
              proposal |-> proposal, seen |-> seen[e]] \in Events
      BY <2>1, <2>2 DEF Events
    <2>4. log' \in Seq(Events)
      BY <1>13, <2>3 DEF Record
    <2>5. QED
      BY <1>13, <2>4 DEF Record
  <1>14. ASSUME NEW e \in Executions, Finish(e) PROVE TypeOK'
    <2>1. request' \in [Executions -> AllRequests]
      BY <1>14 DEF Finish, Forget, OpenRequest, AllRequests
    <2>2. QED
      BY <1>14, <2>1, DropTypes DEF Finish, Forget
  <1>15. ASSUME NEW e \in Executions, Raise(e) PROVE TypeOK'
    <2>1. lost' \in [Stages -> Nat]
      <3>1. \/ lost' = lost
            \/ Unrecorded(e) /\ lost' = [lost EXCEPT ![task[e].section] = lost[task[e].section] + 1]
        BY <1>15 DEF Raise
      <3>2. Unrecorded(e) => task[e].section \in Stages
        BY TaskType DEF Unrecorded, Consistent
      <3>3. \A s \in Stages : lost[s] + 1 \in Nat
        OBVIOUS
      <3>4. QED
        BY <3>1, <3>2, <3>3
    <2>2. raises' \in 0 .. MaxRaises
      BY <1>15, BoundsAssumption DEF Raise
    <2>3. QED
      BY <1>15, <2>1, <2>2, DropTypes DEF Raise
  <1>16. ASSUME NEW e \in Executions, Retry(e) PROVE TypeOK'
    BY <1>16 DEF Retry
  <1>17. ASSUME NEW e \in Executions, GiveUp(e) PROVE TypeOK'
    <2>1. request' \in [Executions -> AllRequests]
      BY <1>17 DEF GiveUp, Forget, OpenRequest, AllRequests
    <2>2. QED
      BY <1>17, <2>1 DEF GiveUp, Forget
  <1>18. CASE UNCHANGED vars
    BY <1>18 DEF vars
  <1>19. QED
    BY <1>1, <1>2, <1>3, <1>4, <1>5, <1>6, <1>7, <1>8, <1>9, <1>10, <1>11, <1>12, <1>13, <1>14, <1>15, <1>16, <1>17, <1>18 DEF Next, Step

-----------------------------------------------------------------------------
(* Executions.                                                             *)

\* Nothing of execution x changes.
Stays(x) ==
    /\ pc'[x] = pc[x] /\ request'[x] = request[x] /\ held'[x] = held[x] /\ task'[x] = task[x]
    /\ seen'[x] = seen[x] /\ goal'[x] = goal[x] /\ update'[x] = update[x]

\* A step of one execution leaves the locals of the others alone.
LEMMA OthersStay ==
    ASSUME TypeOK, NEW e \in Executions, Step(e), NEW x \in Executions, x # e
    PROVE  Stays(x)
  <1> USE DEF TypeOK, Stays, Goes, runVars, choices
  <1>1. ASSUME NEW r \in Requests, Start(e, r) PROVE Stays(x)
    BY <1>1 DEF Start
  <1>2. ASSUME LoadContext(e) PROVE Stays(x)
    BY <1>2 DEF LoadContext
  <1>3. ASSUME ResolveTask(e) PROVE Stays(x)
    BY <1>3 DEF ResolveTask
  <1>4. ASSUME Decide(e) PROVE Stays(x)
    BY <1>4 DEF Decide
  <1>5. ASSUME Answer(e) PROVE Stays(x)
    BY <1>5 DEF Answer
  <1>6. ASSUME Owe(e) PROVE Stays(x)
    BY <1>6 DEF Owe
  <1>7. ASSUME EnsureAgain(e) PROVE Stays(x)
    BY <1>7 DEF EnsureAgain
  <1>8. ASSUME AdvanceStage(e) PROVE Stays(x)
    BY <1>8 DEF AdvanceStage, WritePlan
  <1>9. ASSUME MoveToStage(e) PROVE Stays(x)
    BY <1>9 DEF MoveToStage, WritePlan
  <1>10. ASSUME MoveToUnknown(e) PROVE Stays(x)
    BY <1>10 DEF MoveToUnknown
  <1>11. ASSUME Evaluate(e) PROVE Stays(x)
    BY <1>11 DEF Evaluate
  <1>12. ASSUME Persist(e) PROVE Stays(x)
    BY <1>12 DEF Persist
  <1>13. ASSUME Record(e) PROVE Stays(x)
    BY <1>13 DEF Record
  <1>14. ASSUME Finish(e) PROVE Stays(x)
    BY <1>14 DEF Finish, Drop, Forget
  <1>15. ASSUME Raise(e) PROVE Stays(x)
    BY <1>15 DEF Raise, Drop
  <1>16. ASSUME Retry(e) PROVE Stays(x)
    BY <1>16 DEF Retry
  <1>17. ASSUME GiveUp(e) PROVE Stays(x)
    BY <1>17 DEF GiveUp, Forget
  <1>18. QED
    BY <1>1, <1>2, <1>3, <1>4, <1>5, <1>6, <1>7, <1>8, <1>9, <1>10, <1>11, <1>12, <1>13, <1>14, <1>15, <1>16, <1>17 DEF Step

\* An execution whose locals stay remains consistent.
LEMMA StaysConsistent ==
    ASSUME NEW x \in Executions, Stays(x), Consistent(x)
    PROVE  Consistent(x)'
  BY DEF Stays, Consistent, Blank, CurrentStage

\* Dropped locals are blank.
LEMMA DropBlank ==
    ASSUME TypeOK, NEW e \in Executions, Drop(e)
    PROVE  /\ Blank(e)' /\ task'[e] = NoTask /\ update'[e] = NoUpdate /\ goal'[e] = Stay
           /\ Stay.target = NoStage
  BY DEF TypeOK, Drop, Blank, Stay

\* An execution stays consistent with itself.
LEMMA ConsistentStep ==
    ASSUME IndInv, NEW e \in Executions, Step(e)
    PROVE  Consistent(e)'
  <1>b. Consistent(e) /\ TypeOK
    BY DEF IndInv
  <1>a. Stay.target = NoStage /\ Stay.operation = "stay" /\ Stay.owes = "none"
    BY DEF Stay
  <1> USE DEF TypeOK, Consistent, Blank, Goes, runVars, choices, planVars
  <1>1. ASSUME NEW r \in Requests, Start(e, r) PROVE Consistent(e)'
    BY <1>1, <1>a, <1>b DEF Start
  <1>2. ASSUME LoadContext(e) PROVE Consistent(e)'
    BY <1>2, <1>a, <1>b DEF LoadContext
  <1>3. ASSUME ResolveTask(e) PROVE Consistent(e)'
    <2>1. task'[e] # NoTask => task'[e].section = CurrentStage(held[e])
      <3>1. CurrentStage(held[e]) \in Stages \cup {NoStage}
        BY StageType, <1>b
      <3>2. CASE UNCHANGED task
        BY <1>3, <1>b, <3>2 DEF ResolveTask
      <3>3. ASSUME CurrentStage(held[e]) # NoStage, NEW kind \in Tasks[CurrentStage(held[e])],
                   task' = [task EXCEPT ![e] = PendingTask(kind, CurrentStage(held[e]))]
            PROVE  task'[e] # NoTask => task'[e].section = CurrentStage(held[e])
        <4>1. CurrentStage(held[e]) \in Stages /\ kind \in Kinds \cup {"none"}
          BY <3>1, <3>3, TasksAssumption
        <4>2. PendingTask(kind, CurrentStage(held[e])) # NoTask
                  => PendingTask(kind, CurrentStage(held[e])).section = CurrentStage(held[e])
          BY <1>b, <4>1, PendingTaskType
        <4>3. QED
          BY <1>b, <3>3, <4>2
      <3>4. QED
        BY <1>3, <3>2, <3>3 DEF ResolveTask
    <2>2. CurrentStage(held[e])' = CurrentStage(held[e])
      BY <1>3 DEF ResolveTask, CurrentStage
    <2>3. QED
      BY <1>3, <1>a, <1>b, <2>1, <2>2 DEF ResolveTask
  <1>4. ASSUME Decide(e) PROVE Consistent(e)'
    <2>1. /\ goal'[e].target # NoStage => goal'[e].operation = "move"
          /\ request[e].event = "moveOn" => goal'[e] = Advance(task[e].kind)
          /\ pc'[e] \in {"owe", "plan", "ensure"}
          /\ pc'[e] = "owe" => goal'[e].owes # "none"
          /\ pc'[e] = "ensure" => goal'[e].operation # "stay"
      BY <1>4, <1>b, DecideTypes
    <2>2. /\ UNCHANGED <<request, held, task, update>> /\ pc[e] = "decide"
          /\ CurrentStage(held[e])' = CurrentStage(held[e]) /\ Advance(task[e].kind)' = Advance(task[e].kind)
      BY <1>4 DEF Decide, CurrentStage, Advance
    <2>3. QED
      BY <1>a, <1>b, <2>1, <2>2
  <1>5. ASSUME Answer(e) PROVE Consistent(e)'
    BY <1>5, <1>a, <1>b DEF Answer
  <1>6. ASSUME Owe(e) PROVE Consistent(e)'
    BY <1>6, <1>a, <1>b DEF Owe
  <1>7. ASSUME EnsureAgain(e) PROVE Consistent(e)'
    BY <1>7, <1>a, <1>b DEF EnsureAgain
  <1>8. ASSUME AdvanceStage(e) PROVE Consistent(e)'
    BY <1>8, <1>a, <1>b DEF AdvanceStage, WritePlan
  <1>9. ASSUME MoveToStage(e) PROVE Consistent(e)'
    BY <1>9, <1>a, <1>b DEF MoveToStage, WritePlan
  <1>10. ASSUME MoveToUnknown(e) PROVE Consistent(e)'
    BY <1>10, <1>a, <1>b DEF MoveToUnknown
  <1>11. ASSUME Evaluate(e) PROVE Consistent(e)'
    <2>1. task[e] # NoTask /\ task[e].section \in Stages /\ task[e].attempts \in Nat
      BY <1>11, <1>b, TaskType DEF Evaluate
    <2>2. PICK status \in Verdicts, confident \in Confidences :
             update' = [update EXCEPT ![e] =
                UpdateFor(status, confident, task[e].attempts, snapshot[task[e].section].score)]
      BY <1>11 DEF Evaluate
    <2>3. snapshot[task[e].section].score \in Scores
      BY <1>b, <2>1 DEF Scored
    <2>4. update'[e].status = status /\ status \in Statuses
      BY <1>b, <2>1, <2>2, <2>3, UpdateType, AnswersAssumption
    <2>5. CurrentStage(held[e])' = CurrentStage(held[e])
      BY <1>11 DEF Evaluate, CurrentStage
    <2>6. NoUpdate.status = "none" /\ "none" \notin Statuses
      BY DEF NoUpdate, Statuses
    <2>7. QED
      BY <1>11, <1>a, <1>b, <2>1, <2>4, <2>5, <2>6 DEF Evaluate
  <1>12. ASSUME Persist(e) PROVE Consistent(e)'
    BY <1>12, <1>a, <1>b DEF Persist
  <1>13. ASSUME Record(e) PROVE Consistent(e)'
    BY <1>13, <1>a, <1>b DEF Record
  <1>14. ASSUME Finish(e) PROVE Consistent(e)'
    BY <1>14, <1>a, <1>b, DropBlank DEF Finish, Forget
  <1>15. ASSUME Raise(e) PROVE Consistent(e)'
    BY <1>15, <1>a, <1>b, DropBlank DEF Raise
  <1>16. ASSUME Retry(e) PROVE Consistent(e)'
    BY <1>16, <1>a, <1>b DEF Retry
  <1>17. ASSUME GiveUp(e) PROVE Consistent(e)'
    BY <1>17, <1>a, <1>b DEF GiveUp, Forget
  <1>18. QED
    BY <1>1, <1>2, <1>3, <1>4, <1>5, <1>6, <1>7, <1>8, <1>9, <1>10, <1>11, <1>12, <1>13, <1>14, <1>15, <1>16, <1>17 DEF Step

-----------------------------------------------------------------------------
(* The plan and the scores.                                                *)

\* Scores are numbers.
LEMMA ScoreRange == \A n \in Scores : n \in Nat /\ n <= 10000
  BY DEF Scores

\* The rows that are written fit the plan.
LEMMA PlanFitsStep ==
    ASSUME IndInv, NEW e \in Executions, Step(e)
    PROVE  PlanFits'
  <1>a. /\ Fits(plan) /\ held[e] \in Row
        /\ plan' = plan => Fits(plan)'
    BY DEF IndInv, PlanFits, TypeOK, Fits
  <1> USE DEF PlanFits, planVars
  <1>1. ASSUME NEW r \in Requests, Start(e, r) PROVE PlanFits'
    BY <1>1, <1>a DEF Start
  <1>2. ASSUME LoadContext(e) PROVE PlanFits'
    BY <1>2, <1>a DEF LoadContext
  <1>3. ASSUME ResolveTask(e) PROVE PlanFits'
    BY <1>3, <1>a DEF ResolveTask
  <1>4. ASSUME Decide(e) PROVE PlanFits'
    BY <1>4, <1>a DEF Decide
  <1>5. ASSUME Answer(e) PROVE PlanFits'
    BY <1>5, <1>a DEF Answer
  <1>6. ASSUME Owe(e) PROVE PlanFits'
    BY <1>6, <1>a DEF Owe
  <1>7. ASSUME EnsureAgain(e) PROVE PlanFits'
    BY <1>7, <1>a DEF EnsureAgain
  <1>8. ASSUME AdvanceStage(e) PROVE PlanFits'
    BY <1>8, <1>a, WrittenRows DEF AdvanceStage, WritePlan, Fits
  <1>9. ASSUME MoveToStage(e) PROVE PlanFits'
    BY <1>9, <1>a, WrittenRows DEF MoveToStage, WritePlan, Fits
  <1>10. ASSUME MoveToUnknown(e) PROVE PlanFits'
    BY <1>10, <1>a DEF MoveToUnknown
  <1>11. ASSUME Evaluate(e) PROVE PlanFits'
    BY <1>11, <1>a DEF Evaluate
  <1>12. ASSUME Persist(e) PROVE PlanFits'
    BY <1>12, <1>a DEF Persist
  <1>13. ASSUME Record(e) PROVE PlanFits'
    BY <1>13, <1>a DEF Record
  <1>14. ASSUME Finish(e) PROVE PlanFits'
    BY <1>14, <1>a DEF Finish
  <1>15. ASSUME Raise(e) PROVE PlanFits'
    BY <1>15, <1>a DEF Raise
  <1>16. ASSUME Retry(e) PROVE PlanFits'
    BY <1>16, <1>a DEF Retry
  <1>17. ASSUME GiveUp(e) PROVE PlanFits'
    BY <1>17, <1>a DEF GiveUp
  <1>18. QED
    BY <1>1, <1>2, <1>3, <1>4, <1>5, <1>6, <1>7, <1>8, <1>9, <1>10, <1>11, <1>12, <1>13, <1>14, <1>15, <1>16, <1>17 DEF Step

\* Only Persist touches evidence and scores.
LEMMA MasteryFrame ==
    ASSUME NEW e \in Executions, Step(e)
    PROVE  UNCHANGED mastery \/ Persist(e)
  <1>1. ASSUME NEW r \in Requests, Start(e, r) PROVE UNCHANGED mastery \/ Persist(e)
    BY <1>1 DEF Start
  <1>2. ASSUME LoadContext(e) PROVE UNCHANGED mastery \/ Persist(e)
    BY <1>2 DEF LoadContext
  <1>3. ASSUME ResolveTask(e) PROVE UNCHANGED mastery \/ Persist(e)
    BY <1>3 DEF ResolveTask
  <1>4. ASSUME Decide(e) PROVE UNCHANGED mastery \/ Persist(e)
    BY <1>4 DEF Decide
  <1>5. ASSUME Answer(e) PROVE UNCHANGED mastery \/ Persist(e)
    BY <1>5 DEF Answer
  <1>6. ASSUME Owe(e) PROVE UNCHANGED mastery \/ Persist(e)
    BY <1>6 DEF Owe
  <1>7. ASSUME EnsureAgain(e) PROVE UNCHANGED mastery \/ Persist(e)
    BY <1>7 DEF EnsureAgain
  <1>8. ASSUME AdvanceStage(e) PROVE UNCHANGED mastery \/ Persist(e)
    BY <1>8 DEF AdvanceStage, WritePlan
  <1>9. ASSUME MoveToStage(e) PROVE UNCHANGED mastery \/ Persist(e)
    BY <1>9 DEF MoveToStage, WritePlan
  <1>10. ASSUME MoveToUnknown(e) PROVE UNCHANGED mastery \/ Persist(e)
    BY <1>10 DEF MoveToUnknown
  <1>11. ASSUME Evaluate(e) PROVE UNCHANGED mastery \/ Persist(e)
    BY <1>11 DEF Evaluate
  <1>12. ASSUME Persist(e) PROVE UNCHANGED mastery \/ Persist(e)
    BY <1>12
  <1>13. ASSUME Record(e) PROVE UNCHANGED mastery \/ Persist(e)
    BY <1>13 DEF Record
  <1>14. ASSUME Finish(e) PROVE UNCHANGED mastery \/ Persist(e)
    BY <1>14 DEF Finish
  <1>15. ASSUME Raise(e) PROVE UNCHANGED mastery \/ Persist(e)
    BY <1>15 DEF Raise
  <1>16. ASSUME Retry(e) PROVE UNCHANGED mastery \/ Persist(e)
    BY <1>16 DEF Retry
  <1>17. ASSUME GiveUp(e) PROVE UNCHANGED mastery \/ Persist(e)
    BY <1>17 DEF GiveUp
  <1>18. QED
    BY <1>1, <1>2, <1>3, <1>4, <1>5, <1>6, <1>7, <1>8, <1>9, <1>10, <1>11, <1>12, <1>13, <1>14, <1>15, <1>16, <1>17 DEF Step

\* What Persist writes, for the section of the task.
LEMMA PersistWrites ==
    ASSUME IndInv, NEW e \in Executions, Persist(e)
    PROVE  LET s == task[e].section  u == update[e]
           IN  /\ s \in Stages /\ u \in Updates
               /\ u.after = NewScore(u.before, u.delta) /\ u.before <= gains[s]
               /\ evidence' = [evidence EXCEPT ![s] = Append(evidence[s], u)]
               /\ snapshot' = [snapshot EXCEPT ![s] = [score |-> u.after, count |-> snapshot[s].count + 1]]
               /\ gains' = [gains EXCEPT ![s] = gains[s] + Gain(u)]
  <1>1. Consistent(e) /\ pc[e] = "persist" /\ UpdatesEarned /\ TypeOK
    BY DEF IndInv, Persist
  <1>2. task[e] # NoTask /\ task[e].section \in Stages
    BY <1>1, TaskType DEF Consistent
  <1>3. QED
    BY <1>1, <1>2 DEF Persist, WithEvidence, Upserted, UpdatesEarned, TypeOK

\* The snapshot stays the one of the last evidence.
LEMMA SnapshotStep ==
    ASSUME IndInv, NEW e \in Executions, Step(e)
    PROVE  SnapshotMatchesEvidence'
  <1>1. CASE UNCHANGED mastery
    BY <1>1 DEF mastery, IndInv, SnapshotMatchesEvidence, Last
  <1>2. CASE Persist(e)
    <2> DEFINE s == task[e].section
               u == update[e]
    <2>1. /\ s \in Stages /\ u \in Updates
          /\ evidence' = [evidence EXCEPT ![s] = Append(evidence[s], u)]
          /\ snapshot' = [snapshot EXCEPT ![s] = [score |-> u.after, count |-> snapshot[s].count + 1]]
      BY <1>2, PersistWrites
    <2> HIDE DEF s, u
    <2>2. /\ evidence \in [Stages -> Seq(Updates)] /\ snapshot \in [Stages -> Scored]
          /\ \A x \in Stages : /\ snapshot[x].count = Len(evidence[x])
                               /\ evidence[x] # <<>> => snapshot[x].score = Last(evidence[x]).after
      BY DEF IndInv, TypeOK, SnapshotMatchesEvidence
    <2>3. ASSUME NEW x \in Stages
          PROVE  /\ snapshot'[x].count = Len(evidence'[x])
                 /\ evidence'[x] # <<>> => snapshot'[x].score = Last(evidence'[x]).after
      <3>1. CASE x = s
        <4>1. evidence'[x] = Append(evidence[s], u) /\ evidence[s] \in Seq(Updates)
          BY <2>1, <2>2, <3>1
        <4>2. Len(evidence'[x]) = Len(evidence[s]) + 1 /\ Last(evidence'[x]) = u
          BY <2>1, <4>1 DEF Last
        <4>3. snapshot'[x].count = snapshot[s].count + 1 /\ snapshot'[x].score = u.after
          BY <2>1, <2>2, <3>1
        <4>4. QED
          BY <2>1, <2>2, <4>2, <4>3
      <3>2. CASE x # s
        <4>1. evidence'[x] = evidence[x] /\ snapshot'[x] = snapshot[x]
          BY <2>1, <2>2, <3>2
        <4>2. QED
          BY <2>2, <4>1
      <3>3. QED
        BY <3>1, <3>2
    <2>4. QED
      BY <2>3 DEF SnapshotMatchesEvidence, Last
  <1>3. QED
    BY <1>1, <1>2, MasteryFrame

\* No score gets ahead of the gains.
LEMMA MasteryStep ==
    ASSUME IndInv, NEW e \in Executions, Step(e)
    PROVE  MasteryIsEarned' /\ \A x \in Stages : gains[x] <= gains'[x]
  <1>1. /\ gains \in [Stages -> Nat] /\ snapshot \in [Stages -> Scored]
        /\ \A x \in Stages : snapshot[x].score <= gains[x]
    BY DEF IndInv, TypeOK, MasteryIsEarned
  <1>2. CASE UNCHANGED mastery
    BY <1>1, <1>2 DEF mastery, MasteryIsEarned
  <1>3. CASE Persist(e)
    <2> DEFINE s == task[e].section
               u == update[e]
    <2>1. /\ s \in Stages /\ u \in Updates
          /\ u.after = NewScore(u.before, u.delta) /\ u.before <= gains[s]
          /\ snapshot' = [snapshot EXCEPT ![s] = [score |-> u.after, count |-> snapshot[s].count + 1]]
          /\ gains' = [gains EXCEPT ![s] = gains[s] + Gain(u)]
      BY <1>3, PersistWrites
    <2> HIDE DEF s, u
    <2>2. u.delta \in Int /\ u.before \in Nat /\ u.before <= 10000 /\ gains[s] \in Nat
      <3>1. u.delta \in Int /\ u.before \in Scores
        BY <2>1 DEF Updates
      <3>2. gains[s] \in Nat
        BY <1>1, <2>1
      <3>3. QED
        BY <3>1, <3>2, ScoreRange
    <2>3. Gain(u) \in Nat /\ u.after <= gains[s] + Gain(u)
      BY <2>1, <2>2 DEF NewScore, Gain
    <2>4. ASSUME NEW x \in Stages PROVE snapshot'[x].score <= gains'[x] /\ gains[x] <= gains'[x]
      <3>1. CASE x = s
        BY <1>1, <2>1, <2>2, <2>3, <3>1
      <3>2. CASE x # s
        BY <1>1, <2>1, <3>2
      <3>3. QED
        BY <3>1, <3>2
    <2>5. QED
      BY <2>4 DEF MasteryIsEarned
  <1>4. QED
    BY <1>2, <1>3, MasteryFrame

\* A score that is read has been earned.
LEMMA UpdatesEarnedStep ==
    ASSUME IndInv, NEW e \in Executions, Step(e)
    PROVE  UpdatesEarned'
  <1> SUFFICES ASSUME NEW x \in Executions, pc'[x] = "persist"
               PROVE  /\ update'[x].after = NewScore(update'[x].before, update'[x].delta)
                      /\ update'[x].before <= gains'[task'[x].section]
    BY DEF UpdatesEarned
  <1>1. TypeOK /\ Consistent(x) /\ Consistent(e) /\ UpdatesEarned
    BY DEF IndInv
  <1>2. CASE Stays(x)
    <2>1. /\ pc[x] = "persist" /\ update'[x] = update[x] /\ task'[x] = task[x]
          /\ update[x].after = NewScore(update[x].before, update[x].delta)
          /\ update[x].before <= gains[task[x].section]
      BY <1>1, <1>2 DEF Stays, UpdatesEarned
    <2>2. task[x].section \in Stages
      BY <1>1, <2>1, TaskType DEF Consistent
    <2>3. gains[task[x].section] <= gains'[task[x].section]
      BY <2>2, MasteryStep
    <2>4. /\ update[x].before \in Int /\ gains[task[x].section] \in Int
          /\ gains'[task[x].section] \in Int
      <3>1. TypeOK'
        BY TypeStep DEF Next
      <3>2. gains[task[x].section] \in Nat /\ gains'[task[x].section] \in Nat
        BY <1>1, <2>2, <3>1 DEF TypeOK
      <3>3. update[x].before \in Scores
        BY <1>1 DEF TypeOK, Updates
      <3>4. QED
        BY <3>2, <3>3, ScoreRange
    <2>5. QED
      BY <2>1, <2>3, <2>4
  <1>3. CASE x = e /\ Evaluate(e)
    <2>1. task[e] # NoTask /\ task[e].section \in Stages /\ task[e].attempts \in Nat
      BY <1>1, <1>3, TaskType DEF Evaluate, Consistent
    <2>2. PICK status \in Verdicts, confident \in Confidences :
             update' = [update EXCEPT ![e] =
                UpdateFor(status, confident, task[e].attempts, snapshot[task[e].section].score)]
      BY <1>3 DEF Evaluate
    <2>3. snapshot[task[e].section].score \in Scores /\ snapshot[task[e].section].score <= gains[task[e].section]
      BY <2>1 DEF IndInv, TypeOK, Scored, MasteryIsEarned
    <2> DEFINE u == UpdateFor(status, confident, task[e].attempts, snapshot[task[e].section].score)
    <2>4. u.after = NewScore(u.before, u.delta) /\ u.before = snapshot[task[e].section].score
      BY <2>1, <2>2, <2>3, UpdateType, AnswersAssumption
    <2> HIDE DEF u
    <2>5. update'[e] = u /\ task'[e] = task[e] /\ gains' = gains
      BY <1>1, <1>3, <2>2 DEF u, Evaluate, TypeOK, mastery
    <2>6. QED
      BY <1>3, <2>3, <2>4, <2>5
  <1>4. x = e => Evaluate(e)
    <2> USE DEF TypeOK, Goes
    <2> USE <1>1
    <2>1. ASSUME NEW r \in Requests, Start(e, r) PROVE x = e => Evaluate(e)
      BY <2>1 DEF Start
    <2>2. ASSUME LoadContext(e) PROVE x = e => Evaluate(e)
      BY <2>2 DEF LoadContext
    <2>3. ASSUME ResolveTask(e) PROVE x = e => Evaluate(e)
      BY <2>3 DEF ResolveTask
    <2>4. ASSUME Decide(e) PROVE x = e => Evaluate(e)
      BY <2>4, <1>1, DecideTypes
    <2>5. ASSUME Answer(e) PROVE x = e => Evaluate(e)
      BY <2>5 DEF Answer
    <2>6. ASSUME Owe(e) PROVE x = e => Evaluate(e)
      BY <2>6 DEF Owe
    <2>7. ASSUME EnsureAgain(e) PROVE x = e => Evaluate(e)
      BY <2>7 DEF EnsureAgain
    <2>8. ASSUME AdvanceStage(e) PROVE x = e => Evaluate(e)
      BY <2>8 DEF AdvanceStage, WritePlan
    <2>9. ASSUME MoveToStage(e) PROVE x = e => Evaluate(e)
      BY <2>9 DEF MoveToStage, WritePlan
    <2>10. ASSUME MoveToUnknown(e) PROVE x = e => Evaluate(e)
      BY <2>10 DEF MoveToUnknown
    <2>11. ASSUME Evaluate(e) PROVE x = e => Evaluate(e)
      BY <2>11
    <2>12. ASSUME Persist(e) PROVE x = e => Evaluate(e)
      BY <2>12 DEF Persist
    <2>13. ASSUME Record(e) PROVE x = e => Evaluate(e)
      BY <2>13 DEF Record
    <2>14. ASSUME Finish(e) PROVE x = e => Evaluate(e)
      BY <2>14 DEF Finish, Forget
    <2>15. ASSUME Raise(e) PROVE x = e => Evaluate(e)
      BY <2>15 DEF Raise
    <2>16. ASSUME Retry(e) PROVE x = e => Evaluate(e)
      BY <2>16 DEF Retry
    <2>17. ASSUME GiveUp(e) PROVE x = e => Evaluate(e)
      BY <2>17 DEF GiveUp, Forget
    <2>18. QED
      BY <2>1, <2>2, <2>3, <2>4, <2>5, <2>6, <2>7, <2>8, <2>9, <2>10, <2>11, <2>12, <2>13, <2>14, <2>15, <2>16, <2>17 DEF Step
  <1>5. QED
    BY <1>1, <1>2, <1>3, <1>4, OthersStay

-----------------------------------------------------------------------------
(* The event log.                                                          *)

\* Only Record writes the log: the verdict of the answer, under the section held.
LEMMA LogFrame ==
    ASSUME NEW e \in Executions, Step(e)
    PROVE  UNCHANGED log \/ Record(e)
  <1>1. ASSUME NEW r \in Requests, Start(e, r) PROVE UNCHANGED log \/ Record(e)
    BY <1>1 DEF Start
  <1>2. ASSUME LoadContext(e) PROVE UNCHANGED log \/ Record(e)
    BY <1>2 DEF LoadContext
  <1>3. ASSUME ResolveTask(e) PROVE UNCHANGED log \/ Record(e)
    BY <1>3 DEF ResolveTask
  <1>4. ASSUME Decide(e) PROVE UNCHANGED log \/ Record(e)
    BY <1>4 DEF Decide
  <1>5. ASSUME Answer(e) PROVE UNCHANGED log \/ Record(e)
    BY <1>5 DEF Answer
  <1>6. ASSUME Owe(e) PROVE UNCHANGED log \/ Record(e)
    BY <1>6 DEF Owe
  <1>7. ASSUME EnsureAgain(e) PROVE UNCHANGED log \/ Record(e)
    BY <1>7 DEF EnsureAgain
  <1>8. ASSUME AdvanceStage(e) PROVE UNCHANGED log \/ Record(e)
    BY <1>8 DEF AdvanceStage, WritePlan
  <1>9. ASSUME MoveToStage(e) PROVE UNCHANGED log \/ Record(e)
    BY <1>9 DEF MoveToStage, WritePlan
  <1>10. ASSUME MoveToUnknown(e) PROVE UNCHANGED log \/ Record(e)
    BY <1>10 DEF MoveToUnknown
  <1>11. ASSUME Evaluate(e) PROVE UNCHANGED log \/ Record(e)
    BY <1>11 DEF Evaluate
  <1>12. ASSUME Persist(e) PROVE UNCHANGED log \/ Record(e)
    BY <1>12 DEF Persist
  <1>13. ASSUME Record(e) PROVE UNCHANGED log \/ Record(e)
    BY <1>13
  <1>14. ASSUME Finish(e) PROVE UNCHANGED log \/ Record(e)
    BY <1>14 DEF Finish
  <1>15. ASSUME Raise(e) PROVE UNCHANGED log \/ Record(e)
    BY <1>15 DEF Raise
  <1>16. ASSUME Retry(e) PROVE UNCHANGED log \/ Record(e)
    BY <1>16 DEF Retry
  <1>17. ASSUME GiveUp(e) PROVE UNCHANGED log \/ Record(e)
    BY <1>17 DEF GiveUp
  <1>18. QED
    BY <1>1, <1>2, <1>3, <1>4, <1>5, <1>6, <1>7, <1>8, <1>9, <1>10, <1>11, <1>12, <1>13, <1>14, <1>15, <1>16, <1>17 DEF Step

\* What Record appends: an event with what the execution holds.
LEMMA RecordWrites ==
    ASSUME TypeOK, NEW e \in Executions, Record(e)
    PROVE  /\ log \in Seq(Events) /\ DOMAIN log = 1 .. Len(log) /\ DOMAIN log' = 1 .. Len(log) + 1
           /\ Len(log) \in Nat /\ Len(log') = Len(log) + 1
           /\ \A i \in DOMAIN log : log'[i] = log[i]
           /\ log'[Len(log) + 1].section = CurrentStage(held[e])
           /\ log'[Len(log) + 1].verdict = update[e].status
           /\ log'[Len(log) + 1].seen = seen[e]
           /\ pc[e] = "plan" /\ pc'[e] = "payload"
  <1>1. PICK proposal \in Proposals \cup {NoProposal} :
           log' = Append(log, [section |-> CurrentStage(held[e]), verdict |-> update[e].status,
                               proposal |-> proposal, seen |-> seen[e]])
    BY DEF Record
  <1> DEFINE ev == [section |-> CurrentStage(held[e]), verdict |-> update[e].status,
                    proposal |-> proposal, seen |-> seen[e]]
  <1>2. /\ ev.section = CurrentStage(held[e]) /\ ev.verdict = update[e].status /\ ev.seen = seen[e]
        /\ log' = Append(log, ev)
    BY <1>1
  <1> HIDE DEF ev
  <1>3. log \in Seq(Events)
    BY DEF TypeOK
  <1>4. log'[Len(log) + 1] = ev /\ Len(log') = Len(log) + 1 /\ \A i \in 1 .. Len(log) : log'[i] = log[i]
    BY <1>2, <1>3
  <1>5. DOMAIN log = 1 .. Len(log) /\ DOMAIN log' = 1 .. Len(log) + 1 /\ Len(log) \in Nat
    BY <1>2, <1>3
  <1>6. pc[e] = "plan" /\ pc'[e] = "payload"
    BY DEF Record, Goes, TypeOK
  <1>7. QED
    BY <1>2, <1>3, <1>4, <1>5, <1>6

\* What an execution has seen changes when it resolves its task and when its
\* locals are dropped.
LEMMA SeenFrame ==
    ASSUME TypeOK, NEW e \in Executions, Step(e)
    PROVE  \/ task'[e] = task[e] /\ seen'[e] = seen[e]
           \/ task'[e] = NoTask /\ seen'[e] = 0
           \/ ResolveTask(e)
  <1> USE DEF TypeOK, runVars, choices
  <1>1. ASSUME NEW r \in Requests, Start(e, r)
        PROVE  \/ task'[e] = task[e] /\ seen'[e] = seen[e]
               \/ task'[e] = NoTask /\ seen'[e] = 0
               \/ ResolveTask(e)
    BY <1>1 DEF Start
  <1>2. ASSUME LoadContext(e)
        PROVE  \/ task'[e] = task[e] /\ seen'[e] = seen[e]
               \/ task'[e] = NoTask /\ seen'[e] = 0
               \/ ResolveTask(e)
    BY <1>2 DEF LoadContext
  <1>3. ASSUME ResolveTask(e)
        PROVE  \/ task'[e] = task[e] /\ seen'[e] = seen[e]
               \/ task'[e] = NoTask /\ seen'[e] = 0
               \/ ResolveTask(e)
    BY <1>3
  <1>4. ASSUME Decide(e)
        PROVE  \/ task'[e] = task[e] /\ seen'[e] = seen[e]
               \/ task'[e] = NoTask /\ seen'[e] = 0
               \/ ResolveTask(e)
    BY <1>4 DEF Decide
  <1>5. ASSUME Answer(e)
        PROVE  \/ task'[e] = task[e] /\ seen'[e] = seen[e]
               \/ task'[e] = NoTask /\ seen'[e] = 0
               \/ ResolveTask(e)
    BY <1>5 DEF Answer
  <1>6. ASSUME Owe(e)
        PROVE  \/ task'[e] = task[e] /\ seen'[e] = seen[e]
               \/ task'[e] = NoTask /\ seen'[e] = 0
               \/ ResolveTask(e)
    BY <1>6 DEF Owe
  <1>7. ASSUME EnsureAgain(e)
        PROVE  \/ task'[e] = task[e] /\ seen'[e] = seen[e]
               \/ task'[e] = NoTask /\ seen'[e] = 0
               \/ ResolveTask(e)
    BY <1>7 DEF EnsureAgain
  <1>8. ASSUME AdvanceStage(e)
        PROVE  \/ task'[e] = task[e] /\ seen'[e] = seen[e]
               \/ task'[e] = NoTask /\ seen'[e] = 0
               \/ ResolveTask(e)
    BY <1>8 DEF AdvanceStage, WritePlan
  <1>9. ASSUME MoveToStage(e)
        PROVE  \/ task'[e] = task[e] /\ seen'[e] = seen[e]
               \/ task'[e] = NoTask /\ seen'[e] = 0
               \/ ResolveTask(e)
    BY <1>9 DEF MoveToStage, WritePlan
  <1>10. ASSUME MoveToUnknown(e)
        PROVE  \/ task'[e] = task[e] /\ seen'[e] = seen[e]
               \/ task'[e] = NoTask /\ seen'[e] = 0
               \/ ResolveTask(e)
    BY <1>10 DEF MoveToUnknown
  <1>11. ASSUME Evaluate(e)
        PROVE  \/ task'[e] = task[e] /\ seen'[e] = seen[e]
               \/ task'[e] = NoTask /\ seen'[e] = 0
               \/ ResolveTask(e)
    BY <1>11 DEF Evaluate
  <1>12. ASSUME Persist(e)
        PROVE  \/ task'[e] = task[e] /\ seen'[e] = seen[e]
               \/ task'[e] = NoTask /\ seen'[e] = 0
               \/ ResolveTask(e)
    BY <1>12 DEF Persist
  <1>13. ASSUME Record(e)
        PROVE  \/ task'[e] = task[e] /\ seen'[e] = seen[e]
               \/ task'[e] = NoTask /\ seen'[e] = 0
               \/ ResolveTask(e)
    BY <1>13 DEF Record
  <1>14. ASSUME Finish(e)
        PROVE  \/ task'[e] = task[e] /\ seen'[e] = seen[e]
               \/ task'[e] = NoTask /\ seen'[e] = 0
               \/ ResolveTask(e)
    BY <1>14 DEF Finish, Drop
  <1>15. ASSUME Raise(e)
        PROVE  \/ task'[e] = task[e] /\ seen'[e] = seen[e]
               \/ task'[e] = NoTask /\ seen'[e] = 0
               \/ ResolveTask(e)
    BY <1>15 DEF Raise, Drop
  <1>16. ASSUME Retry(e)
        PROVE  \/ task'[e] = task[e] /\ seen'[e] = seen[e]
               \/ task'[e] = NoTask /\ seen'[e] = 0
               \/ ResolveTask(e)
    BY <1>16 DEF Retry
  <1>17. ASSUME GiveUp(e)
        PROVE  \/ task'[e] = task[e] /\ seen'[e] = seen[e]
               \/ task'[e] = NoTask /\ seen'[e] = 0
               \/ ResolveTask(e)
    BY <1>17 DEF GiveUp
  <1>18. QED
    BY <1>1, <1>2, <1>3, <1>4, <1>5, <1>6, <1>7, <1>8, <1>9, <1>10, <1>11, <1>12, <1>13, <1>14, <1>15, <1>16, <1>17 DEF Step

\* The log only grows, so what was out of sight when a task was resolved stays
\* as it was.
LEMMA UnansweredStep ==
    ASSUME IndInv, NEW e \in Executions, Step(e)
    PROVE  UnansweredWhenSeen'
  <1> SUFFICES ASSUME NEW x \in Executions
               PROVE  /\ seen'[x] <= Len(log')
                      /\ task'[x] # NoTask =>
                            \A i \in DOMAIN log' :
                               i <= seen'[x] /\ i > seen'[x] - Window /\ log'[i].section = task'[x].section
                               => log'[i].verdict # "correct"
    BY DEF UnansweredWhenSeen
  <1>1. /\ TypeOK /\ log \in Seq(Events) /\ Len(log) \in Nat /\ DOMAIN log = 1 .. Len(log)
        /\ seen[x] \in Nat /\ seen[x] <= Len(log) /\ Window \in Nat
        /\ task[x] # NoTask =>
              \A i \in DOMAIN log :
                 i <= seen[x] /\ i > seen[x] - Window /\ log[i].section = task[x].section
                 => log[i].verdict # "correct"
    BY BoundsAssumption DEF IndInv, TypeOK, UnansweredWhenSeen
  <1>2. /\ Len(log') \in Nat /\ Len(log) <= Len(log') /\ DOMAIN log' \subseteq Nat
        /\ \A i \in DOMAIN log' : i <= Len(log) => i \in DOMAIN log /\ log'[i] = log[i]
    <2>1. CASE UNCHANGED log
      BY <1>1, <2>1
    <2>2. CASE Record(e)
      BY <1>1, <2>2, RecordWrites
    <2>3. QED
      BY <2>1, <2>2, LogFrame
  <1>3. CASE task'[x] = task[x] /\ seen'[x] = seen[x]
    <2>1. seen'[x] <= Len(log')
      BY <1>1, <1>2, <1>3
    <2>2. ASSUME task[x] # NoTask, NEW i \in DOMAIN log', i <= seen[x], i > seen[x] - Window,
                 log'[i].section = task[x].section
          PROVE  log'[i].verdict # "correct"
      <3>1. i <= Len(log)
        BY <1>1, <1>2, <2>2
      <3>2. QED
        BY <1>1, <1>2, <2>2, <3>1
    <2>3. QED
      BY <1>3, <2>1, <2>2
  <1>4. CASE task'[x] = NoTask /\ seen'[x] = 0
    BY <1>2, <1>4
  <1>5. CASE x = e /\ ResolveTask(e)
    <2>1. seen'[e] = Len(log) /\ log' = log
      BY <1>1, <1>5 DEF ResolveTask, TypeOK
    <2>2. task[e] = NoTask
      BY <1>5 DEF IndInv, Consistent, ResolveTask
    <2>3. CASE UNCHANGED task
      BY <1>1, <1>5, <2>1, <2>2, <2>3
    <2>4. ASSUME CurrentStage(held[e]) # NoStage, NEW kind \in Tasks[CurrentStage(held[e])],
                 task' = [task EXCEPT ![e] = PendingTask(kind, CurrentStage(held[e]))]
          PROVE  task'[e] # NoTask =>
                    \A i \in DOMAIN log : i > Len(log) - Window /\ log[i].section = task'[e].section
                                          => log[i].verdict # "correct"
      <3>1. CurrentStage(held[e]) \in Stages /\ kind \in Kinds \cup {"none"}
        BY <1>1, <2>4, StageType, TasksAssumption DEF TypeOK
      <3>2. task'[e] = PendingTask(kind, CurrentStage(held[e]))
        BY <1>1, <2>4 DEF TypeOK
      <3> DEFINE found == PendingTask(kind, CurrentStage(held[e]))
                 s == CurrentStage(held[e])
      <3>3. found # NoTask =>
               /\ found.section = s
               /\ \A i \in DOMAIN log : i > Len(log) - Window /\ log[i].section = s => log[i].verdict # "correct"
        BY <1>1, <3>1, PendingTaskType
      <3> HIDE DEF found, s
      <3>4. QED
        BY <3>2, <3>3 DEF found
    <2>5. QED
      BY <1>1, <1>5, <2>1, <2>3, <2>4 DEF ResolveTask
  <1>6. QED
    BY <1>1, <1>3, <1>4, <1>5, OthersStay, SeenFrame DEF Stays

\* A verdict that is recorded was asked for a task resolved before any correct
\* answer that is still in its window.
LEMMA AnsweredStep ==
    ASSUME IndInv, NEW e \in Executions, Step(e)
    PROVE  AnsweredStaysAnswered'
  <1>1. TypeOK /\ AnsweredStaysAnswered /\ UnansweredWhenSeen /\ Consistent(e)
    BY DEF IndInv
  <1>2. CASE UNCHANGED log
    BY <1>1, <1>2 DEF AnsweredStaysAnswered
  <1>3. CASE Record(e)
    <2> SUFFICES ASSUME NEW i \in DOMAIN log', NEW j \in DOMAIN log', i < j,
                        log'[i].section = log'[j].section,
                        log'[i].verdict = "correct", log'[j].verdict # "none"
                 PROVE  i > log'[j].seen \/ i <= log'[j].seen - Window
      BY DEF AnsweredStaysAnswered
    <2>1. /\ Len(log) \in Nat /\ DOMAIN log = 1 .. Len(log) /\ DOMAIN log' = 1 .. Len(log) + 1
          /\ \A k \in DOMAIN log : log'[k] = log[k]
          /\ log'[Len(log) + 1].section = CurrentStage(held[e])
          /\ log'[Len(log) + 1].verdict = update[e].status
          /\ log'[Len(log) + 1].seen = seen[e]
      BY <1>1, <1>3, RecordWrites
    <2>2. CASE j \in DOMAIN log
      <3>1. i \in DOMAIN log
        BY <2>1, <2>2
      <3>2. QED
        BY <1>1, <2>1, <2>2, <3>1 DEF AnsweredStaysAnswered
    <2>3. CASE j = Len(log) + 1
      <3>1. i \in DOMAIN log
        BY <2>1, <2>3
      <3>2. update[e] # NoUpdate
        BY <2>1, <2>3 DEF NoUpdate
      <3>3. task[e] # NoTask /\ task[e].section = CurrentStage(held[e])
        BY <1>1, <3>2 DEF Consistent, Stay
      <3>4. ~(i <= seen[e] /\ i > seen[e] - Window)
        BY <1>1, <2>1, <2>3, <3>1, <3>3 DEF UnansweredWhenSeen
      <3>5. i \in Nat /\ seen[e] \in Nat /\ Window \in Nat
        BY <1>1, <2>1, BoundsAssumption DEF TypeOK
      <3>6. QED
        BY <2>1, <2>3, <3>4, <3>5
    <2>4. QED
      BY <2>1, <2>2, <2>3
  <1>4. QED
    BY <1>2, <1>3, LogFrame

-----------------------------------------------------------------------------
(* Counting executions.                                                    *)

\* Two sets that agree but for one element.
LEMMA OneChanges ==
    ASSUME NEW S, NEW T, NEW e, IsFiniteSet(S), \A x : x # e => (x \in S <=> x \in T)
    PROVE  /\ IsFiniteSet(T) /\ Cardinality(S) \in Nat /\ Cardinality(T) \in Nat
           /\ e \in T /\ e \notin S => Cardinality(T) = Cardinality(S) + 1
           /\ e \in S /\ e \notin T => Cardinality(T) = Cardinality(S) - 1
           /\ (e \in S <=> e \in T) => T = S
  <1>1. Cardinality(S) \in Nat
    BY FS_CardinalityType
  <1>2. CASE e \in T /\ e \notin S
    <2>1. T = S \cup {e}
      BY <1>2
    <2>2. QED
      BY <1>1, <1>2, <2>1, FS_AddElement
  <1>3. CASE e \in S /\ e \notin T
    <2>1. T = S \ {e}
      BY <1>3
    <2>2. IsFiniteSet(T) /\ Cardinality(T) = Cardinality(S) - 1
      BY <1>3, <2>1, FS_RemoveElement
    <2>3. QED
      BY <1>1, <1>3, <2>2, FS_CardinalityType
  <1>4. CASE e \in S <=> e \in T
    <2>1. T = S
      BY <1>4
    <2>2. QED
      BY <1>1, <1>4, <2>1
  <1>5. QED
    BY <1>2, <1>3, <1>4

\* The executions that reply to an answer, and those that skip a task, change
\* by the one that makes the step.
LEMMA SetSteps ==
    ASSUME IndInv, NEW e \in Executions, Step(e), NEW s \in Stages
    PROVE  /\ \A x : x # e => (x \in Replying(s) <=> x \in Replying(s)')
           /\ \A kind \in Kinds : \A x : x # e => (x \in Skipping(s, kind) <=> x \in Skipping(s, kind)')
  <1>1. \A x \in Executions : x # e => Stays(x)
    BY OthersStay DEF IndInv
  <1>2. QED
    BY <1>1 DEF Replying, Unrecorded, Skipping, Stays

\* An execution begins to reply when its evidence is written, and ends when the
\* event is, or when it raises.
LEMMA ReplySteps ==
    ASSUME IndInv, NEW e \in Executions, Step(e)
    PROVE  \/ Persist(e) /\ ~Unrecorded(e) /\ Unrecorded(e)' /\ UNCHANGED <<log, lost, task>>
           \/ Record(e) /\ ~Unrecorded(e)' /\ UNCHANGED <<evidence, lost>>
           \/ Raise(e) /\ ~Unrecorded(e)' /\ UNCHANGED <<log, evidence>>
           \/ ~Unrecorded(e) /\ ~Unrecorded(e)' /\ UNCHANGED <<log, evidence, lost>>
           \/ Unrecorded(e) /\ Unrecorded(e)' /\ UNCHANGED <<log, evidence, lost, task>>
  <1> DEFINE Goal ==
        \/ Persist(e) /\ ~Unrecorded(e) /\ Unrecorded(e)' /\ UNCHANGED <<log, lost, task>>
        \/ Record(e) /\ ~Unrecorded(e)' /\ UNCHANGED <<evidence, lost>>
        \/ Raise(e) /\ ~Unrecorded(e)' /\ UNCHANGED <<log, evidence>>
        \/ ~Unrecorded(e) /\ ~Unrecorded(e)' /\ UNCHANGED <<log, evidence, lost>>
        \/ Unrecorded(e) /\ Unrecorded(e)' /\ UNCHANGED <<log, evidence, lost, task>>
  <1>a. TypeOK /\ Consistent(e)
    BY DEF IndInv
  <1> USE DEF TypeOK, Consistent, Unrecorded, Goes, mastery, runVars, choices
  <1>1. ASSUME NEW r \in Requests, Start(e, r) PROVE Goal
    BY <1>1, <1>a DEF Start
  <1>2. ASSUME LoadContext(e) PROVE Goal
    BY <1>2, <1>a DEF LoadContext
  <1>3. ASSUME ResolveTask(e) PROVE Goal
    BY <1>3, <1>a DEF ResolveTask
  <1>4. ASSUME Decide(e) PROVE Goal
    BY <1>4, <1>a DEF Decide
  <1>5. ASSUME Answer(e) PROVE Goal
    BY <1>5, <1>a DEF Answer
  <1>6. ASSUME Owe(e) PROVE Goal
    BY <1>6, <1>a DEF Owe
  <1>7. ASSUME EnsureAgain(e) PROVE Goal
    BY <1>7, <1>a DEF EnsureAgain
  <1>8. ASSUME AdvanceStage(e) PROVE Goal
    BY <1>8, <1>a DEF AdvanceStage, WritePlan
  <1>9. ASSUME MoveToStage(e) PROVE Goal
    BY <1>9, <1>a DEF MoveToStage, WritePlan
  <1>10. ASSUME MoveToUnknown(e) PROVE Goal
    BY <1>10, <1>a DEF MoveToUnknown
  <1>11. ASSUME Evaluate(e) PROVE Goal
    BY <1>11, <1>a DEF Evaluate
  <1>12. ASSUME Persist(e) PROVE Goal
    BY <1>12, <1>a DEF Persist
  <1>13. ASSUME Record(e) PROVE Goal
    BY <1>13, <1>a DEF Record
  <1>14. ASSUME Finish(e) PROVE Goal
    BY <1>14, <1>a DEF Finish, Drop, Forget
  <1>15. ASSUME Raise(e) PROVE Goal
    BY <1>15, <1>a DEF Raise, Drop
  <1>16. ASSUME Retry(e) PROVE Goal
    BY <1>16, <1>a DEF Retry
  <1>17. ASSUME GiveUp(e) PROVE Goal
    BY <1>17, <1>a DEF GiveUp, Forget
  <1>18. QED
    BY <1>1, <1>2, <1>3, <1>4, <1>5, <1>6, <1>7, <1>8, <1>9, <1>10, <1>11, <1>12, <1>13, <1>14, <1>15, <1>16, <1>17 DEF Step

\* Every answer is accounted for.
LEMMA AccountedStep ==
    ASSUME IndInv, NEW e \in Executions, Step(e), NEW s \in Stages
    PROVE  /\ IsFiniteSet(Replying(s)')
           /\ Len(evidence[s])' = Cardinality(Evaluated(log, s, Statuses)') + lost'[s] + Cardinality(Replying(s)')
  <1> DEFINE known == Cardinality(Evaluated(log, s, Statuses))
             known2 == Cardinality(Evaluated(log, s, Statuses)')
             busy == Cardinality(Replying(s))
             busy2 == Cardinality(Replying(s)')
  <1>1. /\ TypeOK /\ Consistent(e) /\ IsFiniteSet(Replying(s))
        /\ Len(evidence[s]) = known + lost[s] + busy
    BY DEF IndInv, Finite, AnswersAccountedFor
  <1>2. /\ IsFiniteSet(Replying(s)') /\ busy \in Nat /\ busy2 \in Nat
        /\ e \in Replying(s)' /\ e \notin Replying(s) => busy2 = busy + 1
        /\ e \in Replying(s) /\ e \notin Replying(s)' => busy2 = busy - 1
        /\ (e \in Replying(s) <=> e \in Replying(s)') => busy2 = busy
    <2>1. \A x : x # e => (x \in Replying(s) <=> x \in Replying(s)')
      BY SetSteps
    <2>2. QED
      BY <1>1, <2>1, OneChanges
  <1>3. /\ e \in Replying(s) <=> Unrecorded(e) /\ task[e].section = s
        /\ e \in Replying(s)' <=> Unrecorded(e)' /\ task'[e].section = s
    BY DEF Replying
  <1>4. /\ log \in Seq(Events) /\ Len(log) \in Nat /\ DOMAIN log = 1 .. Len(log) /\ known \in Nat
        /\ IsFiniteSet(Evaluated(log, s, Statuses))
        /\ lost[s] \in Nat /\ evidence[s] \in Seq(Updates) /\ Len(evidence[s]) \in Nat
    <2>1. log \in Seq(Events) /\ Len(log) \in Nat /\ DOMAIN log = 1 .. Len(log)
      BY <1>1 DEF TypeOK
    <2>2. Evaluated(log, s, Statuses) \subseteq 1 .. Len(log)
      BY <2>1 DEF Evaluated
    <2>3. evidence[s] \in Seq(Updates)
      BY <1>1 DEF TypeOK
    <2>4. QED
      BY <1>1, <2>1, <2>2, <2>3, IndicesFinite DEF TypeOK
  <1>5. UNCHANGED log => known2 = known
    BY DEF Evaluated
  <1>6. CASE Persist(e) /\ ~Unrecorded(e) /\ Unrecorded(e)' /\ UNCHANGED <<log, lost, task>>
    <2>1. evidence' = [evidence EXCEPT ![task[e].section] = Append(evidence[task[e].section], update[e])]
          /\ task[e].section \in Stages
      BY <1>6, PersistWrites
    <2>2. Len(evidence'[s]) = IF task[e].section = s THEN Len(evidence[s]) + 1 ELSE Len(evidence[s])
      <3>1. CASE task[e].section = s
        <4>1. evidence'[s] = Append(evidence[s], update[e])
          BY <1>1, <2>1, <3>1 DEF TypeOK
        <4>2. QED
          BY <1>4, <3>1, <4>1
      <3>2. CASE task[e].section # s
        BY <1>1, <2>1, <3>2 DEF TypeOK
      <3>3. QED
        BY <3>1, <3>2
    <2>3. busy2 = IF task[e].section = s THEN busy + 1 ELSE busy
      BY <1>2, <1>3, <1>6
    <2> HIDE DEF known, known2, busy, busy2
    <2>4. QED
      BY <1>1, <1>2, <1>4, <1>5, <1>6, <2>2, <2>3 DEF known, known2, busy, busy2
  <1>7. CASE Record(e) /\ ~Unrecorded(e)' /\ UNCHANGED <<evidence, lost>>
    <2>1. /\ DOMAIN log' = 1 .. Len(log) + 1
          /\ \A k \in DOMAIN log : log'[k] = log[k]
          /\ log'[Len(log) + 1].section = CurrentStage(held[e])
          /\ log'[Len(log) + 1].verdict = update[e].status
          /\ pc[e] = "plan"
      BY <1>1, <1>7, RecordWrites
    <2>2. /\ update[e] # NoUpdate => update[e].status \in Statuses /\ task[e].section = CurrentStage(held[e])
          /\ update[e].status \in Statuses => update[e] # NoUpdate
      BY <1>1 DEF Consistent, NoUpdate, Statuses, Stay
    <2>3. e \in Replying(s) <=> update[e].status \in Statuses /\ CurrentStage(held[e]) = s
      BY <1>3, <2>1, <2>2 DEF Unrecorded
    <2>4. known2 = IF e \in Replying(s) THEN known + 1 ELSE known
      <3>1. Evaluated(log, s, Statuses)' = IF e \in Replying(s) THEN Evaluated(log, s, Statuses) \cup {Len(log) + 1}
                                                              ELSE Evaluated(log, s, Statuses)
        <4>1. \A i : i \in Evaluated(log, s, Statuses)' <=>
                        i \in 1 .. Len(log) + 1 /\ log'[i].section = s /\ log'[i].verdict \in Statuses
          BY <2>1 DEF Evaluated
        <4>2. \A i : i \in Evaluated(log, s, Statuses) <=>
                        i \in 1 .. Len(log) /\ log[i].section = s /\ log[i].verdict \in Statuses
          BY <1>4 DEF Evaluated
        <4>3. \A i \in 1 .. Len(log) : i \in Evaluated(log, s, Statuses)' <=> i \in Evaluated(log, s, Statuses)
          BY <1>4, <2>1, <4>1, <4>2
        <4>4. Len(log) + 1 \in Evaluated(log, s, Statuses)' <=> e \in Replying(s)
          BY <1>4, <2>1, <2>3, <4>1
        <4>5. \A i : i \in 1 .. Len(log) + 1 <=> i \in 1 .. Len(log) \/ i = Len(log) + 1
          BY <1>4
        <4>6. QED
          BY <4>1, <4>2, <4>3, <4>4, <4>5
      <3>2. Len(log) + 1 \notin Evaluated(log, s, Statuses)
        BY <1>4 DEF Evaluated
      <3>3. QED
        BY <1>4, <3>1, <3>2, FS_AddElement
    <2>5. busy2 = IF e \in Replying(s) THEN busy - 1 ELSE busy
      BY <1>2, <1>3, <1>7
    <2>6. Len(evidence[s])' = Len(evidence[s]) /\ lost'[s] = lost[s] /\ known \in Nat /\ busy \in Nat
      BY <1>2, <1>4, <1>7
    <2> DEFINE before == Len(evidence[s])
               after == Len(evidence[s])'
               kept == lost[s]
    <2>7. before = known + kept + busy /\ kept \in Nat /\ after = before
      BY <1>1, <1>4, <2>6
    <2>8. \/ known2 = known + 1 /\ busy2 = busy - 1
          \/ known2 = known /\ busy2 = busy
      BY <2>4, <2>5
    <2> HIDE DEF known, known2, busy, busy2, before, after, kept
    <2>9. after = known2 + kept + busy2
      BY <2>6, <2>7, <2>8
    <2>10. QED
      BY <1>2, <2>6, <2>9 DEF after, kept, known2, busy2
  <1>8. CASE Raise(e) /\ ~Unrecorded(e)' /\ UNCHANGED <<log, evidence>>
    <2>1. lost'[s] = IF e \in Replying(s) THEN lost[s] + 1 ELSE lost[s]
      BY <1>1, <1>3, <1>8 DEF Raise, TypeOK
    <2>2. busy2 = IF e \in Replying(s) THEN busy - 1 ELSE busy
      BY <1>2, <1>3, <1>8
    <2> HIDE DEF known, known2, busy, busy2
    <2>3. QED
      BY <1>1, <1>2, <1>4, <1>5, <1>8, <2>1, <2>2 DEF known, known2, busy, busy2
  <1>9. CASE /\ UNCHANGED <<log, evidence, lost>>
             /\ \/ ~Unrecorded(e) /\ ~Unrecorded(e)'
                \/ Unrecorded(e) /\ Unrecorded(e)' /\ UNCHANGED task
    <2>1. busy2 = busy
      BY <1>2, <1>3, <1>9
    <2> HIDE DEF known, known2, busy, busy2
    <2>2. QED
      BY <1>1, <1>2, <1>5, <1>9, <2>1 DEF known, known2, busy, busy2
  <1>10. QED
    BY <1>6, <1>7, <1>8, <1>9, ReplySteps

\* Debts are never dropped.
LEMMA DebtFrame ==
    ASSUME NEW e \in Executions, Step(e)
    PROVE  UNCHANGED debt \/ Owe(e)
  <1>1. ASSUME NEW r \in Requests, Start(e, r) PROVE UNCHANGED debt \/ Owe(e)
    BY <1>1 DEF Start
  <1>2. ASSUME LoadContext(e) PROVE UNCHANGED debt \/ Owe(e)
    BY <1>2 DEF LoadContext
  <1>3. ASSUME ResolveTask(e) PROVE UNCHANGED debt \/ Owe(e)
    BY <1>3 DEF ResolveTask
  <1>4. ASSUME Decide(e) PROVE UNCHANGED debt \/ Owe(e)
    BY <1>4 DEF Decide
  <1>5. ASSUME Answer(e) PROVE UNCHANGED debt \/ Owe(e)
    BY <1>5 DEF Answer
  <1>6. ASSUME Owe(e) PROVE UNCHANGED debt \/ Owe(e)
    BY <1>6
  <1>7. ASSUME EnsureAgain(e) PROVE UNCHANGED debt \/ Owe(e)
    BY <1>7 DEF EnsureAgain
  <1>8. ASSUME AdvanceStage(e) PROVE UNCHANGED debt \/ Owe(e)
    BY <1>8 DEF AdvanceStage, WritePlan
  <1>9. ASSUME MoveToStage(e) PROVE UNCHANGED debt \/ Owe(e)
    BY <1>9 DEF MoveToStage, WritePlan
  <1>10. ASSUME MoveToUnknown(e) PROVE UNCHANGED debt \/ Owe(e)
    BY <1>10 DEF MoveToUnknown
  <1>11. ASSUME Evaluate(e) PROVE UNCHANGED debt \/ Owe(e)
    BY <1>11 DEF Evaluate
  <1>12. ASSUME Persist(e) PROVE UNCHANGED debt \/ Owe(e)
    BY <1>12 DEF Persist
  <1>13. ASSUME Record(e) PROVE UNCHANGED debt \/ Owe(e)
    BY <1>13 DEF Record
  <1>14. ASSUME Finish(e) PROVE UNCHANGED debt \/ Owe(e)
    BY <1>14 DEF Finish
  <1>15. ASSUME Raise(e) PROVE UNCHANGED debt \/ Owe(e)
    BY <1>15 DEF Raise
  <1>16. ASSUME Retry(e) PROVE UNCHANGED debt \/ Owe(e)
    BY <1>16 DEF Retry
  <1>17. ASSUME GiveUp(e) PROVE UNCHANGED debt \/ Owe(e)
    BY <1>17 DEF GiveUp
  <1>18. QED
    BY <1>1, <1>2, <1>3, <1>4, <1>5, <1>6, <1>7, <1>8, <1>9, <1>10, <1>11, <1>12, <1>13, <1>14, <1>15, <1>16, <1>17 DEF Step

\* An execution that moves on from a task goes past its debt.
LEMMA SkipSteps ==
    ASSUME IndInv, NEW e \in Executions, Step(e), NEW s \in Stages, NEW kind \in Kinds,
           e \in Skipping(s, kind)', e \notin Skipping(s, kind)
    PROVE  Owe(e)
  <1>a. TypeOK /\ Consistent(e) /\ kind # "none"
    BY DEF IndInv, Kinds
  <1>b. /\ request'[e].event = "moveOn" /\ pc'[e] \in {"ensure", "write", "plan", "payload"}
        /\ task'[e].section = s /\ task'[e].kind = kind
        /\ ~ (/\ request[e].event = "moveOn" /\ pc[e] \in {"ensure", "write", "plan", "payload"}
              /\ task[e].section = s /\ task[e].kind = kind)
    BY DEF Skipping
  <1> USE DEF TypeOK, Consistent, Goes, runVars, choices
  <1>1. ASSUME NEW r \in Requests, Start(e, r) PROVE Owe(e)
    BY <1>1, <1>a, <1>b DEF Start
  <1>2. ASSUME LoadContext(e) PROVE Owe(e)
    BY <1>2, <1>a, <1>b DEF LoadContext
  <1>3. ASSUME ResolveTask(e) PROVE Owe(e)
    BY <1>3, <1>a, <1>b DEF ResolveTask
  <1>4. ASSUME Decide(e) PROVE Owe(e)
    <2>1. request[e].event = "moveOn" /\ task'[e] = task[e] /\ pc[e] = "decide"
      BY <1>4, <1>b DEF Decide
    <2>2. \E g \in {EventGoal(e, LatestProposal(request[e].type))} :
             Goes(e, IF g.owes # "none" THEN "owe" ELSE IF g.operation = "stay" THEN "plan" ELSE "ensure")
      BY <1>4, <2>1 DEF Decide
    <2>3. EventGoal(e, LatestProposal(request[e].type)) = Advance(task[e].kind)
      BY <2>1 DEF EventGoal
    <2>4. Advance(task[e].kind).owes # "none"
      BY <1>a, <1>b, <2>1 DEF Advance
    <2>5. pc'[e] = "owe"
      BY <1>a, <2>2, <2>3, <2>4
    <2>6. QED
      BY <1>b, <2>5
  <1>5. ASSUME Answer(e) PROVE Owe(e)
    BY <1>5, <1>a, <1>b DEF Answer
  <1>6. ASSUME Owe(e) PROVE Owe(e)
    BY <1>6
  <1>7. ASSUME EnsureAgain(e) PROVE Owe(e)
    BY <1>7, <1>a, <1>b DEF EnsureAgain
  <1>8. ASSUME AdvanceStage(e) PROVE Owe(e)
    BY <1>8, <1>a, <1>b DEF AdvanceStage, WritePlan
  <1>9. ASSUME MoveToStage(e) PROVE Owe(e)
    BY <1>9, <1>a, <1>b DEF MoveToStage, WritePlan
  <1>10. ASSUME MoveToUnknown(e) PROVE Owe(e)
    BY <1>10, <1>a, <1>b DEF MoveToUnknown
  <1>11. ASSUME Evaluate(e) PROVE Owe(e)
    BY <1>11, <1>a, <1>b DEF Evaluate
  <1>12. ASSUME Persist(e) PROVE Owe(e)
    BY <1>12, <1>a, <1>b DEF Persist
  <1>13. ASSUME Record(e) PROVE Owe(e)
    BY <1>13, <1>a, <1>b DEF Record
  <1>14. ASSUME Finish(e) PROVE Owe(e)
    BY <1>14, <1>a, <1>b DEF Finish, Forget
  <1>15. ASSUME Raise(e) PROVE Owe(e)
    BY <1>15, <1>a, <1>b DEF Raise
  <1>16. ASSUME Retry(e) PROVE Owe(e)
    BY <1>16, <1>a, <1>b DEF Retry
  <1>17. ASSUME GiveUp(e) PROVE Owe(e)
    BY <1>17, <1>a, <1>b DEF GiveUp, Forget
  <1>18. QED
    BY <1>1, <1>2, <1>3, <1>4, <1>5, <1>6, <1>7, <1>8, <1>9, <1>10, <1>11, <1>12, <1>13, <1>14, <1>15, <1>16, <1>17 DEF Step

\* Skipped work is owed.
LEMMA OwedStep ==
    ASSUME IndInv, NEW e \in Executions, Step(e), NEW s \in Stages, NEW kind \in Kinds
    PROVE  IsFiniteSet(Skipping(s, kind)') /\ Cardinality(Skipping(s, kind)') <= debt'[s][kind]
  <1> DEFINE some == Cardinality(Skipping(s, kind))
             more == Cardinality(Skipping(s, kind)')
  <1>1. /\ TypeOK /\ Consistent(e) /\ IsFiniteSet(Skipping(s, kind)) /\ some <= debt[s][kind]
        /\ debt[s][kind] \in Nat /\ kind \in Debts
    BY DEF IndInv, Finite, SkippedWorkIsOwed, TypeOK, Kinds, Debts
  <1>2. /\ IsFiniteSet(Skipping(s, kind)') /\ some \in Nat /\ more \in Nat
        /\ more <= some \/ (e \in Skipping(s, kind)' /\ e \notin Skipping(s, kind) /\ more = some + 1)
    <2>1. \A x : x # e => (x \in Skipping(s, kind) <=> x \in Skipping(s, kind)')
      BY SetSteps
    <2>2. QED
      BY <1>1, <2>1, OneChanges
  <1>3. debt'[s][kind] \in Nat /\ debt'[s][kind] >= debt[s][kind]
    <2>1. CASE UNCHANGED debt
      BY <1>1, <2>1
    <2>2. CASE Owe(e)
      <3>1. debt' = [debt EXCEPT ![CurrentStage(held[e])] = Owed(debt[CurrentStage(held[e])], goal[e].owes)]
        BY <2>2 DEF Owe
      <3>2. debt'[s] = debt[s] \/ debt'[s] = Owed(debt[s], goal[e].owes)
        BY <1>1, <3>1 DEF TypeOK
      <3>3. debt[s] \in [Debts -> Nat]
        BY <1>1 DEF TypeOK
      <3>4. debt'[s][kind] \in {debt[s][kind], debt[s][kind] + 1}
        BY <1>1, <3>2, <3>3 DEF Owed
      <3>5. QED
        BY <1>1, <3>4
    <2>3. QED
      BY <2>1, <2>2, DebtFrame
  <1>4. CASE e \in Skipping(s, kind)' /\ e \notin Skipping(s, kind) /\ more = some + 1
    <2>1. Owe(e) /\ pc[e] = "owe"
      BY <1>4, SkipSteps DEF Owe
    <2>2. /\ request[e].event = "moveOn" /\ task[e].section = s /\ task[e].kind = kind
      BY <1>4, <2>1 DEF Skipping, Owe, runVars
    <2>3. goal[e].owes = kind /\ CurrentStage(held[e]) = s
      BY <1>1, <2>1, <2>2 DEF Consistent, Advance, NoTask, Kinds
    <2>4. debt' = [debt EXCEPT ![s] = Owed(debt[s], kind)]
      BY <2>1, <2>3 DEF Owe
    <2>5. debt'[s][kind] = debt[s][kind] + 1
      BY <1>1, <2>4 DEF Owed, TypeOK
    <2> HIDE DEF some, more
    <2>6. more <= debt'[s][kind]
      BY <1>1, <1>2, <1>4, <2>5
    <2>7. QED
      BY <1>2, <2>6 DEF more
  <1>5. CASE more <= some
    <2> HIDE DEF some, more
    <2>1. more <= debt'[s][kind]
      BY <1>1, <1>2, <1>3, <1>5
    <2>2. QED
      BY <1>2, <2>1 DEF more
  <1>6. QED
    BY <1>2, <1>4, <1>5

\* An execution that has its context has made the learner's row.
LEMMA ContextLoadedStep ==
    ASSUME IndInv, NEW e \in Executions, Step(e)
    PROVE  ContextLoaded'
  <1> DEFINE Goal == (pc'[e] \notin {"idle", "failed", "context"} => created') /\ (created => created')
  <1>a. TypeOK /\ ContextLoaded
    BY DEF IndInv
  <1> USE DEF TypeOK, ContextLoaded, Goes, planVars, runVars
  <1>1. ASSUME NEW r \in Requests, Start(e, r) PROVE Goal
    BY <1>1, <1>a DEF Start
  <1>2. ASSUME LoadContext(e) PROVE Goal
    BY <1>2, <1>a DEF LoadContext
  <1>3. ASSUME ResolveTask(e) PROVE Goal
    BY <1>3, <1>a DEF ResolveTask
  <1>4. ASSUME Decide(e) PROVE Goal
    BY <1>4, <1>a DEF Decide
  <1>5. ASSUME Answer(e) PROVE Goal
    BY <1>5, <1>a DEF Answer
  <1>6. ASSUME Owe(e) PROVE Goal
    BY <1>6, <1>a DEF Owe
  <1>7. ASSUME EnsureAgain(e) PROVE Goal
    BY <1>7, <1>a DEF EnsureAgain
  <1>8. ASSUME AdvanceStage(e) PROVE Goal
    BY <1>8, <1>a DEF AdvanceStage, WritePlan
  <1>9. ASSUME MoveToStage(e) PROVE Goal
    BY <1>9, <1>a DEF MoveToStage, WritePlan
  <1>10. ASSUME MoveToUnknown(e) PROVE Goal
    BY <1>10, <1>a DEF MoveToUnknown
  <1>11. ASSUME Evaluate(e) PROVE Goal
    BY <1>11, <1>a DEF Evaluate
  <1>12. ASSUME Persist(e) PROVE Goal
    BY <1>12, <1>a DEF Persist
  <1>13. ASSUME Record(e) PROVE Goal
    BY <1>13, <1>a DEF Record
  <1>14. ASSUME Finish(e) PROVE Goal
    BY <1>14, <1>a DEF Finish, Forget
  <1>15. ASSUME Raise(e) PROVE Goal
    BY <1>15, <1>a DEF Raise
  <1>16. ASSUME Retry(e) PROVE Goal
    BY <1>16, <1>a DEF Retry
  <1>17. ASSUME GiveUp(e) PROVE Goal
    BY <1>17, <1>a DEF GiveUp, Forget
  <1>18. Goal
    BY <1>1, <1>2, <1>3, <1>4, <1>5, <1>6, <1>7, <1>8, <1>9, <1>10, <1>11, <1>12, <1>13, <1>14, <1>15, <1>16, <1>17 DEF Step
  <1>19. \A x \in Executions : x # e => pc'[x] = pc[x]
    BY <1>a, OthersStay DEF Stays
  <1>20. QED
    BY <1>a, <1>18, <1>19 DEF ContextLoaded

-----------------------------------------------------------------------------
(* The theorems.                                                           *)

\* Nothing has happened at first.
LEMMA IndInvInit == Init => IndInv
  <1> SUFFICES ASSUME Init PROVE IndInv
    OBVIOUS
  <1>1. TypeOK
    <2>1. FreshRow \in Row /\ NoTask \in PendingTasks \cup {NoTask}
      BY DEF FreshRow, Row
    <2>2. Stay \in Goals
      BY DEF Stay, Goals, Operations, Targets
    <2>3. NoUpdate \in Updates /\ [score |-> 0, count |-> 0] \in Scored
      BY DEF NoUpdate, Updates, Scored, Scores
    <2>4. OpenRequest \in AllRequests
      BY DEF OpenRequest, AllRequests
    <2>5. /\ log \in Seq(Events) /\ evidence \in [Stages -> Seq(Updates)]
          /\ snapshot \in [Stages -> Scored] /\ gains \in [Stages -> Nat]
          /\ debt \in [Stages -> [Debts -> Nat]] /\ lost \in [Stages -> Nat]
      BY <2>3 DEF Init
    <2>6. /\ turns \in 0 .. MaxTurns /\ raises \in 0 .. MaxRaises /\ advances \in 0 .. Total
      BY BoundsAssumption, TotalAssumption DEF Init
    <2> QED
      BY <2>1, <2>2, <2>3, <2>4, <2>5, <2>6 DEF Init, TypeOK, Pcs
  <1>2. PlanFits /\ ContextLoaded
    BY WrittenRows, TotalAssumption DEF Init, PlanFits, ContextLoaded, Fits, FreshRow, Stages
  <1>3. \A e \in Executions : Consistent(e)
    BY DEF Init, Consistent, Blank, NoTask, NoUpdate, Stay, OpenRequest
  <1>4. SnapshotMatchesEvidence /\ UpdatesEarned /\ MasteryIsEarned
    BY DEF Init, SnapshotMatchesEvidence, UpdatesEarned, MasteryIsEarned
  <1>5. UnansweredWhenSeen /\ AnsweredStaysAnswered
    BY DEF Init, UnansweredWhenSeen, AnsweredStaysAnswered
  <1>6. \A s \in Stages : /\ Replying(s) = {} /\ Evaluated(log, s, Statuses) = {}
                          /\ \A kind \in Kinds : Skipping(s, kind) = {}
    BY DEF Init, Replying, Unrecorded, Skipping, Evaluated
  <1>7. Finite /\ AnswersAccountedFor /\ SkippedWorkIsOwed
    <2>1. IsFiniteSet({}) /\ Cardinality({}) = 0
      BY FS_EmptySet
    <2>2. Finite
      BY <1>6, <2>1 DEF Finite
    <2>3. AnswersAccountedFor
      <3> SUFFICES ASSUME NEW s \in Stages
                   PROVE  Len(evidence[s]) = Cardinality(Evaluated(log, s, Statuses)) + lost[s] + Cardinality(Replying(s))
        BY DEF AnswersAccountedFor
      <3>1. Len(evidence[s]) = 0 /\ lost[s] = 0
        BY DEF Init
      <3>2. Cardinality(Evaluated(log, s, Statuses)) = 0 /\ Cardinality(Replying(s)) = 0
        BY <1>6, <2>1
      <3> QED
        BY <3>1, <3>2
    <2>4. SkippedWorkIsOwed
      <3>1. \A s \in Stages, kind \in Kinds : debt[s][kind] = 0
        BY DEF Init, Debts
      <3> QED
        BY <1>6, <2>1, <3>1 DEF SkippedWorkIsOwed
    <2> QED
      BY <2>2, <2>3, <2>4
  <1> QED
    BY <1>1, <1>2, <1>3, <1>4, <1>5, <1>7 DEF IndInv

\* The executions that stay consistent, and the one that steps.
LEMMA AllConsistent ==
    ASSUME IndInv, NEW e \in Executions, Step(e)
    PROVE  \A x \in Executions : Consistent(x)'
  <1> SUFFICES ASSUME NEW x \in Executions PROVE Consistent(x)'
    OBVIOUS
  <1>1. CASE x = e
    BY <1>1, ConsistentStep
  <1>2. CASE x # e
    BY <1>2, OthersStay, StaysConsistent DEF IndInv
  <1> QED
    BY <1>1, <1>2

\* Every step of every execution keeps the invariant.
LEMMA IndInvStep == IndInv /\ [Next]_vars => IndInv'
  <1>1. ASSUME IndInv, NEW e \in Executions, Step(e) PROVE IndInv'
    <2>1. TypeOK'
      BY <1>1, TypeStep DEF Next
    <2>2. PlanFits' /\ ContextLoaded' /\ \A x \in Executions : Consistent(x)'
      BY <1>1, PlanFitsStep, ContextLoadedStep, AllConsistent
    <2>3. SnapshotMatchesEvidence' /\ UpdatesEarned' /\ MasteryIsEarned'
      BY <1>1, SnapshotStep, UpdatesEarnedStep, MasteryStep
    <2>4. UnansweredWhenSeen' /\ AnsweredStaysAnswered'
      BY <1>1, UnansweredStep, AnsweredStep
    <2>5. Finite' /\ AnswersAccountedFor' /\ SkippedWorkIsOwed'
      BY <1>1, AccountedStep, OwedStep DEF Finite, AnswersAccountedFor, SkippedWorkIsOwed
    <2> QED
      BY <2>1, <2>2, <2>3, <2>4, <2>5 DEF IndInv
  <1>2. ASSUME IndInv, UNCHANGED vars PROVE IndInv'
    <2>1. TypeOK'
      BY <1>2, TypeStep
    <2>2. \A s \in Stages : /\ Replying(s)' = Replying(s)
                            /\ Evaluated(log, s, Statuses)' = Evaluated(log, s, Statuses)
                            /\ \A kind \in Kinds : Skipping(s, kind)' = Skipping(s, kind)
      BY <1>2 DEF Replying, Unrecorded, Evaluated, Skipping, vars, mastery, runVars, choices
    <2>3. \A x \in Executions : Consistent(x)'
      <3>1. \A x \in Executions : Stays(x)
        BY <1>2 DEF Stays, vars, mastery, runVars, choices
      <3> QED
        BY <1>2, <3>1, StaysConsistent DEF IndInv
    <2>4. PlanFits' /\ ContextLoaded'
      BY <1>2 DEF IndInv, PlanFits, Fits, ContextLoaded, vars, planVars
    <2>5. SnapshotMatchesEvidence' /\ UpdatesEarned' /\ MasteryIsEarned'
      BY <1>2 DEF IndInv, SnapshotMatchesEvidence, UpdatesEarned, MasteryIsEarned, vars, mastery, choices
    <2>6. UnansweredWhenSeen' /\ AnsweredStaysAnswered'
      BY <1>2 DEF IndInv, UnansweredWhenSeen, AnsweredStaysAnswered, vars
    <2>7. Finite' /\ AnswersAccountedFor' /\ SkippedWorkIsOwed'
      BY <1>2, <2>2 DEF IndInv, Finite, AnswersAccountedFor, SkippedWorkIsOwed, vars, mastery, runVars
    <2> QED
      BY <2>1, <2>3, <2>4, <2>5, <2>6, <2>7 DEF IndInv
  <1> QED
    BY <1>1, <1>2 DEF Next

\* Everything below in one: the inductive invariant holds throughout.
THEOREM Invariance == Spec => []IndInv
  BY IndInvInit, IndInvStep, PTL DEF Spec

\* The rows, the log and the locals of an execution stay what the code takes
\* them for, for any plan, window and number of executions.
THEOREM TypeCorrect == Spec => []TypeOK
  <1>1. IndInv => TypeOK
    BY DEF IndInv
  <1> QED
    BY <1>1, Invariance, PTL

\* The snapshot is the one of the last evidence, and counts all of it, however
\* the transactions of _persist_mastery_update interleave with reads of scores.
THEOREM SnapshotAlwaysMatches == Spec => []SnapshotMatchesEvidence
  <1>1. IndInv => SnapshotMatchesEvidence
    BY DEF IndInv
  <1> QED
    BY <1>1, Invariance, PTL

\* No score is ever more than the evidence has earned, stale reads included.
THEOREM MasteryAlwaysEarned == Spec => []MasteryIsEarned
  <1>1. IndInv => MasteryIsEarned
    BY DEF IndInv
  <1> QED
    BY <1>1, Invariance, PTL

\* Evidence without an event is that of a reply under way or of a raise.
THEOREM AnswersAlwaysAccountedFor == Spec => []AnswersAccountedFor
  <1>1. IndInv => AnswersAccountedFor
    BY DEF IndInv
  <1> QED
    BY <1>1, Invariance, PTL

\* A task answered correctly is evaluated again only by who had read the log
\* before, or once the answer has left resolve_pending_task's window.
THEOREM AnsweredAlwaysStays == Spec => []AnsweredStaysAnswered
  <1>1. IndInv => AnsweredStaysAnswered
    BY DEF IndInv
  <1> QED
    BY <1>1, Invariance, PTL

\* A task that is moved on from is owed, once per execution that does so.
THEOREM SkippedAlwaysOwed == Spec => []SkippedWorkIsOwed
  <1>1. IndInv => SkippedWorkIsOwed
    BY DEF IndInv
  <1> QED
    BY <1>1, Invariance, PTL

-----------------------------------------------------------------------------
(* TeacherTurn implements PlanProgress.                                    *)

\* Seen as turns of PlanProgress, only the execution that steps moves.
LEMMA PlanView ==
    ASSUME TypeOK, NEW e \in Executions, Step(e)
    PROVE  \A x \in Executions : x # e => PlanPc(x)' = PlanPc(x) /\ PlanAsked(x)' = PlanAsked(x)
  BY OthersStay DEF Stays, PlanPc, PlanAsked

\* A step that neither the plan row nor its place in PlanProgress shows.
LEMMA PlanStutter ==
    ASSUME TypeOK, NEW e \in Executions, Step(e), UNCHANGED <<planVars, held>>,
           PlanPc(e)' = PlanPc(e), PlanAsked(e)' = PlanAsked(e)
    PROVE  UNCHANGED Progress!vars
  <1>1. \A x \in Executions : PlanPc(x)' = PlanPc(x) /\ PlanAsked(x)' = PlanAsked(x)
    BY PlanView
  <1> QED
    BY <1>1 DEF planVars, Progress!vars, Progress!planVars, Progress!turnVars

\* The maps of places and operations change as PlanProgress writes it.
LEMMA PlanMoves ==
    ASSUME TypeOK, NEW e \in Executions, Step(e)
    PROVE  /\ [x \in Executions |-> PlanPc(x)]' = [[x \in Executions |-> PlanPc(x)] EXCEPT ![e] = PlanPc(e)']
           /\ [x \in Executions |-> PlanAsked(x)]' =
                 [[x \in Executions |-> PlanAsked(x)] EXCEPT ![e] = PlanAsked(e)']
  BY PlanView

\* Every step of an execution is one of PlanProgress, or none.
LEMMA PlanStep ==
    ASSUME IndInv, NEW e \in Executions, Step(e)
    PROVE  Progress!Next \/ UNCHANGED Progress!vars
  <1> DEFINE Goal == Progress!Next \/ UNCHANGED Progress!vars
             pcs == [x \in Executions |-> PlanPc(x)]
             ops == [x \in Executions |-> PlanAsked(x)]
  <1>a. TypeOK /\ Consistent(e) /\ PlanFits /\ ContextLoaded
    BY DEF IndInv
  <1>b. /\ pcs[e] = PlanPc(e) /\ ops[e] = PlanAsked(e)
        /\ pcs' = [pcs EXCEPT ![e] = PlanPc(e)'] /\ ops' = [ops EXCEPT ![e] = PlanAsked(e)']
    BY <1>a, PlanMoves
  <1>1. ASSUME NEW r \in Requests, Start(e, r) PROVE Goal
    <2>1. PlanPc(e) = "idle" /\ PlanPc(e)' = "ensure" /\ PlanAsked(e)' = "context"
      BY <1>1, <1>a DEF Start, Goes, TypeOK, PlanPc, PlanAsked
    <2>2. Progress!Begin(e)
      BY <1>1, <1>b, <2>1 DEF Start, planVars, Progress!Begin, Progress!planVars
    <2> QED
      BY <2>2 DEF Progress!Next
  <1>2. ASSUME LoadContext(e) PROVE Goal
    <2>1. PlanPc(e) = "ensure" /\ PlanAsked(e) = "context" /\ PlanPc(e)' = "turn" /\ PlanAsked(e)' = "context"
      BY <1>2, <1>a DEF LoadContext, Goes, TypeOK, PlanPc, PlanAsked
    <2>2. Progress!Normalised(plan, Total) = plan
      BY <1>a, NormalisedIsSame DEF PlanFits, TypeOK, Normalised, AtMost, Progress!Normalised, Progress!AtMost
    <2>3. ops' = ops
      BY <1>b, <2>1
    <2>4. Progress!Ensure(e)
      BY <1>2, <1>b, <2>1, <2>2, <2>3
      DEF LoadContext, Progress!Ensure, Progress!AfterEnsure
    <2> QED
      BY <2>4 DEF Progress!Next, Progress!TurnStep
  <1>3. ASSUME ResolveTask(e) PROVE Goal
    <2>1. PlanPc(e)' = PlanPc(e) /\ PlanAsked(e)' = PlanAsked(e)
      BY <1>3, <1>a DEF ResolveTask, Goes, TypeOK, choices, PlanPc, PlanAsked
    <2> QED
      BY <1>3, <1>a, <2>1, PlanStutter DEF ResolveTask
  <1>4. ASSUME Decide(e) PROVE Goal
    <2>1. /\ PlanPc(e) = "turn" /\ PlanAsked(e) = "context"
          /\ UNCHANGED <<planVars, held>>
          /\ goal'[e].operation \in Operations
      BY <1>4, <1>a, DecideTypes DEF Decide, PlanPc, PlanAsked, TypeOK, Goals
    <2>2. \/ pc'[e] = "owe"
          \/ pc'[e] = "plan" /\ goal'[e].operation = "stay"
          \/ pc'[e] = "ensure" /\ goal'[e].operation # "stay"
      BY <1>4, <1>a DEF Decide, Goes, TypeOK
    <2>3. CASE pc'[e] = "ensure" /\ goal'[e].operation # "stay"
      <3>1. PlanPc(e)' = "ensure" /\ PlanAsked(e)' \in {"advance", "move"}
        BY <2>1, <2>3 DEF PlanPc, PlanAsked, Operations
      <3>2. Progress!Ask(e, PlanAsked(e)')
        BY <1>b, <2>1, <3>1 DEF planVars, Progress!Ask, Progress!planVars
      <3> QED
        BY <3>1, <3>2 DEF Progress!Next
    <2>4. CASE \/ pc'[e] = "owe"
               \/ pc'[e] = "plan" /\ goal'[e].operation = "stay"
      <3>1. PlanPc(e)' = "turn" /\ PlanAsked(e)' = "context"
        BY <2>4 DEF PlanPc, PlanAsked
      <3> QED
        BY <1>a, <2>1, <3>1, PlanStutter
    <2> QED
      BY <2>2, <2>3, <2>4
  <1>5. ASSUME Answer(e) PROVE Goal
    <2>1. PlanPc(e)' = PlanPc(e) /\ PlanAsked(e)' = PlanAsked(e)
      BY <1>5, <1>a DEF Answer, Goes, TypeOK, choices, PlanPc, PlanAsked
    <2> QED
      BY <1>5, <1>a, <2>1, PlanStutter DEF Answer
  <1>6. ASSUME Owe(e) PROVE Goal
    <2>1. /\ PlanPc(e) = "turn" /\ PlanAsked(e) = "context"
          /\ UNCHANGED <<planVars, held, goal>>
          /\ goal[e].operation \in Operations
      BY <1>6, <1>a DEF Owe, choices, PlanPc, PlanAsked, TypeOK, Goals
    <2>2. \/ pc'[e] = "plan" /\ goal[e].operation = "stay"
          \/ pc'[e] = "ensure" /\ goal[e].operation # "stay"
      BY <1>6, <1>a DEF Owe, Goes, TypeOK
    <2>3. CASE pc'[e] = "ensure" /\ goal[e].operation # "stay"
      <3>1. PlanPc(e)' = "ensure" /\ PlanAsked(e)' \in {"advance", "move"}
        BY <2>1, <2>3 DEF PlanPc, PlanAsked, Operations
      <3>2. Progress!Ask(e, PlanAsked(e)')
        BY <1>b, <2>1, <3>1 DEF planVars, Progress!Ask, Progress!planVars
      <3> QED
        BY <3>1, <3>2 DEF Progress!Next
    <2>4. CASE pc'[e] = "plan" /\ goal[e].operation = "stay"
      <3>1. PlanPc(e)' = "turn" /\ PlanAsked(e)' = "context"
        BY <2>1, <2>4 DEF PlanPc, PlanAsked
      <3> QED
        BY <1>a, <2>1, <3>1, PlanStutter
    <2> QED
      BY <2>2, <2>3, <2>4
  <1>7. ASSUME EnsureAgain(e) PROVE Goal
    <2>1. /\ PlanPc(e) = "ensure" /\ PlanPc(e)' = "write"
          /\ PlanAsked(e) = goal[e].operation /\ PlanAsked(e)' = goal[e].operation
          /\ goal[e].operation \in {"advance", "move"}
      BY <1>7, <1>a DEF EnsureAgain, Goes, Consistent, TypeOK, Goals, Operations, choices, PlanPc, PlanAsked
    <2>2. Progress!Normalised(plan, Total) = plan
      BY <1>a, NormalisedIsSame DEF PlanFits, TypeOK, Normalised, AtMost, Progress!Normalised, Progress!AtMost
    <2>3. ops' = ops
      BY <1>b, <2>1
    <2>4. created = TRUE /\ created' = created
      BY <1>7, <1>a DEF EnsureAgain, ContextLoaded, planVars, TypeOK
    <2>5. Progress!Ensure(e)
      BY <1>7, <1>b, <2>1, <2>2, <2>3, <2>4
      DEF EnsureAgain, planVars, Progress!Ensure, Progress!AfterEnsure
    <2> QED
      BY <2>5 DEF Progress!Next, Progress!TurnStep
  <1>8. ASSUME AdvanceStage(e) PROVE Goal
    <2>1. PlanPc(e) = "write" /\ PlanPc(e)' = "turn" /\ PlanAsked(e) = "advance" /\ PlanAsked(e)' = "none"
      BY <1>8, <1>a DEF AdvanceStage, WritePlan, Goes, TypeOK, choices, PlanPc, PlanAsked
    <2>2. Progress!Advance(e)
      BY <1>8, <1>b, <2>1 DEF AdvanceStage, WritePlan, Progress!Advance, Progress!Write, Progress!Advanced,
                              Progress!AtMost, Advanced, AtMost
    <2> QED
      BY <2>2 DEF Progress!Next, Progress!TurnStep
  <1>9. ASSUME MoveToStage(e) PROVE Goal
    <2>1. PlanPc(e) = "write" /\ PlanPc(e)' = "turn" /\ PlanAsked(e) = "move" /\ PlanAsked(e)' = "none"
      BY <1>9, <1>a DEF MoveToStage, WritePlan, Goes, TypeOK, choices, PlanPc, PlanAsked
    <2>2. goal[e].target \in Progress!Stages
      BY <1>9 DEF MoveToStage, Stages, Progress!Stages
    <2>3. Progress!MoveTo(e, goal[e].target)
      BY <1>9, <1>b, <2>1, <2>2 DEF MoveToStage, WritePlan, Progress!MoveTo, Progress!Write, Progress!Moved,
                                    Progress!AtMost, Moved, AtMost
    <2> QED
      BY <2>2, <2>3 DEF Progress!Next, Progress!TurnStep
  <1>10. ASSUME MoveToUnknown(e) PROVE Goal
    <2>1. goal[e].operation = "move"
      BY <1>10, <1>a, TotalAssumption DEF MoveToUnknown, Consistent, UnknownStage, NoStage
    <2>2. PlanPc(e) = "write" /\ PlanPc(e)' = "turn" /\ PlanAsked(e) = "move" /\ PlanAsked(e)' = "none"
      BY <1>10, <1>a, <2>1 DEF MoveToUnknown, Goes, TypeOK, choices, PlanPc, PlanAsked
    <2>3. Progress!MoveNowhere(e)
      BY <1>10, <1>b, <2>2 DEF MoveToUnknown, planVars, Progress!MoveNowhere, Progress!planVars
    <2> QED
      BY <2>3 DEF Progress!Next, Progress!TurnStep
  <1>11. ASSUME Evaluate(e) PROVE Goal
    <2>1. PlanPc(e)' = PlanPc(e) /\ PlanAsked(e)' = PlanAsked(e)
      BY <1>11, <1>a DEF Evaluate, Goes, TypeOK, PlanPc, PlanAsked
    <2> QED
      BY <1>11, <1>a, <2>1, PlanStutter DEF Evaluate
  <1>12. ASSUME Persist(e) PROVE Goal
    <2>1. PlanPc(e)' = PlanPc(e) /\ PlanAsked(e)' = PlanAsked(e)
      BY <1>12, <1>a DEF Persist, Goes, Consistent, Stay, TypeOK, choices, PlanPc, PlanAsked
    <2> QED
      BY <1>12, <1>a, <2>1, PlanStutter DEF Persist
  <1>13. ASSUME Record(e) PROVE Goal
    <2>1. PlanPc(e)' = PlanPc(e) /\ PlanAsked(e)' = PlanAsked(e)
      BY <1>13, <1>a DEF Record, Goes, TypeOK, choices, PlanPc, PlanAsked
    <2> QED
      BY <1>13, <1>a, <2>1, PlanStutter DEF Record
  <1>14. ASSUME Finish(e) PROVE Goal
    <2>1. PlanPc(e) # "idle" /\ PlanPc(e)' = "idle" /\ PlanAsked(e)' = "none"
      BY <1>14, <1>a DEF Finish, Forget, Goes, TypeOK, PlanPc, PlanAsked
    <2>2. Progress!End(e)
      BY <1>14, <1>b, <2>1 DEF Finish, Drop, planVars, FreshRow, Progress!End, Progress!FreshRow, Progress!planVars
    <2> QED
      BY <2>2 DEF Progress!Next
  <1>15. ASSUME Raise(e) PROVE Goal
    <2>1. PlanPc(e) # "idle" /\ PlanPc(e)' = "idle" /\ PlanAsked(e)' = "none"
      BY <1>15, <1>a DEF Raise, Goes, TypeOK, PlanPc, PlanAsked
    <2>2. Progress!End(e)
      BY <1>15, <1>b, <2>1 DEF Raise, Drop, planVars, FreshRow, Progress!End, Progress!FreshRow, Progress!planVars
    <2> QED
      BY <2>2 DEF Progress!Next
  <1>16. ASSUME Retry(e) PROVE Goal
    <2>1. PlanPc(e) = "idle" /\ PlanPc(e)' = "ensure" /\ PlanAsked(e)' = "context"
      BY <1>16, <1>a DEF Retry, Goes, TypeOK, PlanPc, PlanAsked
    <2>2. Progress!Begin(e)
      BY <1>16, <1>b, <2>1 DEF Retry, planVars, Progress!Begin, Progress!planVars
    <2> QED
      BY <2>2 DEF Progress!Next
  <1>17. ASSUME GiveUp(e) PROVE Goal
    <2>1. PlanPc(e)' = PlanPc(e) /\ PlanAsked(e)' = PlanAsked(e)
      BY <1>17, <1>a DEF GiveUp, Forget, Goes, TypeOK, PlanPc, PlanAsked
    <2> QED
      BY <1>17, <1>a, <2>1, PlanStutter DEF GiveUp
  <1>18. QED
    BY <1>1, <1>2, <1>3, <1>4, <1>5, <1>6, <1>7, <1>8, <1>9, <1>10, <1>11, <1>12, <1>13, <1>14, <1>15, <1>16, <1>17 DEF Step

\* Whatever the handlers do between, what an execution does to the plan row is
\* a turn of PlanProgress, so that the theorems about it hold for this row.
THEOREM PlanProgressImplemented == Spec => ImplementsPlanProgress
  <1>1. Init => Progress!Init
    BY DEF Init, PlanPc, PlanAsked, FreshRow, Progress!Init, Progress!FreshRow
  <1>2. IndInv /\ [Next]_vars => [Progress!Next]_(Progress!vars)
    <2>1. ASSUME IndInv, NEW e \in Executions, Step(e) PROVE [Progress!Next]_(Progress!vars)
      BY <2>1, PlanStep
    <2>2. ASSUME UNCHANGED vars PROVE UNCHANGED Progress!vars
      BY <2>2 DEF vars, planVars, choices, PlanPc, PlanAsked, Progress!vars, Progress!planVars, Progress!turnVars
    <2> QED
      BY <2>1, <2>2 DEF Next
  <1> QED
    BY <1>1, <1>2, Invariance, PTL DEF Spec, ImplementsPlanProgress, Progress!Spec

\* The theorems of PlanProgress, about the row of this learner.
PlanFacts == INSTANCE PlanProgressProofs WITH
    Turns <- Executions, Totals <- {Total}, Cap <- Total, total <- Total, grew <- FALSE,
    pc <- [e \in Executions |-> PlanPc(e)], asked <- [e \in Executions |-> PlanAsked(e)]

\* The module its theorems are taken from is the one TeacherTurn implements.
LEMMA SameProgress ==
    /\ Progress!Init <=> PlanFacts!Init
    /\ [Progress!Next]_(Progress!vars) <=> [PlanFacts!Next]_(PlanFacts!vars)
  <1> USE DEF Progress!planVars, PlanFacts!planVars, Progress!turnVars, PlanFacts!turnVars,
          Progress!FreshRow, PlanFacts!FreshRow
  <1>1. UNCHANGED Progress!vars <=> UNCHANGED PlanFacts!vars
    BY DEF Progress!vars, PlanFacts!vars
  <1>2. ASSUME NEW e \in Executions
        PROVE  /\ Progress!Begin(e) <=> PlanFacts!Begin(e)
               /\ \A operation : Progress!Ask(e, operation) <=> PlanFacts!Ask(e, operation)
               /\ Progress!End(e) <=> PlanFacts!End(e)
    BY DEF Progress!Begin, PlanFacts!Begin, Progress!Ask, PlanFacts!Ask, Progress!End, PlanFacts!End
  <1>3. ASSUME NEW e \in Executions
        PROVE  Progress!TurnStep(e) <=> PlanFacts!TurnStep(e)
    <2>1. \A row : Progress!Normalised(row, Total) = PlanFacts!Normalised(row, Total)
      BY DEF Progress!Normalised, PlanFacts!Normalised, Progress!AtMost, PlanFacts!AtMost
    <2>2. Progress!AfterEnsure(e) = PlanFacts!AfterEnsure(e)
      BY DEF Progress!AfterEnsure, PlanFacts!AfterEnsure
    <2>3. Progress!Ensure(e) <=> PlanFacts!Ensure(e)
      BY <2>1, <2>2 DEF Progress!Ensure, PlanFacts!Ensure
    <2>4. Progress!Normalise(e) <=> PlanFacts!Normalise(e)
      BY <2>1, <2>2 DEF Progress!Normalise, PlanFacts!Normalise
    <2>5. \A row : Progress!Write(e, row) <=> PlanFacts!Write(e, row)
      BY DEF Progress!Write, PlanFacts!Write
    <2>6. \A n, b : Progress!AtMost(n, b) = PlanFacts!AtMost(n, b)
      BY DEF Progress!AtMost, PlanFacts!AtMost
    <2>7. \A row : Progress!Advanced(row, Total) = PlanFacts!Advanced(row, Total)
      BY <2>6 DEF Progress!Advanced, PlanFacts!Advanced
    <2>8. \A row, target : Progress!Moved(row, target) = PlanFacts!Moved(row, target)
      BY <2>6 DEF Progress!Moved, PlanFacts!Moved
    <2>9. Progress!Advance(e) <=> PlanFacts!Advance(e)
      BY <2>5, <2>6, <2>7 DEF Progress!Advance, PlanFacts!Advance
    <2>10. \A target : Progress!MoveTo(e, target) <=> PlanFacts!MoveTo(e, target)
      BY <2>5, <2>8 DEF Progress!MoveTo, PlanFacts!MoveTo, Progress!Stages, PlanFacts!Stages
    <2>11. Progress!MoveNowhere(e) <=> PlanFacts!MoveNowhere(e)
      BY DEF Progress!MoveNowhere, PlanFacts!MoveNowhere
    <2> QED
      BY <2>3, <2>4, <2>9, <2>10, <2>11
      DEF Progress!TurnStep, PlanFacts!TurnStep, Progress!Stages, PlanFacts!Stages
  <1>4. \A n : Progress!RebuildTemplate(n) <=> PlanFacts!RebuildTemplate(n)
    BY DEF Progress!RebuildTemplate, PlanFacts!RebuildTemplate
  <1>5. Progress!Next <=> PlanFacts!Next
    BY <1>2, <1>3, <1>4 DEF Progress!Next, PlanFacts!Next
  <1>6. Progress!Init <=> PlanFacts!Init
    BY DEF Progress!Init, PlanFacts!Init
  <1> QED
    BY <1>1, <1>5, <1>6

\* Under retries, exceptions and overlapping executions of the whole engine, the
\* row an execution works with lies within the plan, sections are counted only
\* up to the current one, and none is counted that no execution has finished:
\* the theorems of PlanProgress, carried over by the refinement.
THEOREM PlanRowAlwaysSound ==
    Spec => /\ []Progress!ContextInPlan
            /\ []Progress!CountFollowsPosition
            /\ []Progress!ProgressIsEarned
  <1>1. Total \in Nat /\ (\A n \in {Total} : n <= Total)
    BY TotalAssumption
  <1>2. {Total} \subseteq Nat \ {0}
    BY TotalAssumption
  <1>3. PlanFacts!Spec => /\ []PlanFacts!ContextInPlan
                          /\ []PlanFacts!CountFollowsPosition
                          /\ []PlanFacts!ProgressIsEarned
    BY <1>1, <1>2, PlanFacts!ContextAlwaysInPlan, PlanFacts!CountAlwaysFollows,
       PlanFacts!ProgressAlwaysEarned, PTL
  <1>4. Progress!Spec => PlanFacts!Spec
    BY SameProgress, PTL DEF Progress!Spec, PlanFacts!Spec
  <1>5. PlanFacts!ContextInPlan => Progress!ContextInPlan
    BY DEF PlanFacts!ContextInPlan, Progress!ContextInPlan, PlanFacts!HasContext, Progress!HasContext,
       PlanFacts!Stages, Progress!Stages
  <1>6. PlanFacts!CountFollowsPosition => Progress!CountFollowsPosition
    BY DEF PlanFacts!CountFollowsPosition, Progress!CountFollowsPosition,
       PlanFacts!HasContext, Progress!HasContext
  <1>7. PlanFacts!ProgressIsEarned => Progress!ProgressIsEarned
    BY DEF PlanFacts!ProgressIsEarned, Progress!ProgressIsEarned
  <1> QED
    BY <1>3, <1>4, <1>5, <1>6, <1>7, PlanProgressImplemented, PTL DEF ImplementsPlanProgress
=============================================================================
