-------------------------- MODULE LearnerProjection --------------------------
(***************************************************************************)
(* What is derived from a learner's mastery: the decayed scores, the       *)
(* topic_progress rows that every turn rewrites, and the adaptation        *)
(* context (app/state/services/learner_service.py, learner_repository.py). *)
(*                                                                         *)
(* One learner.  Evaluations persist evidence, snapshot and projection in  *)
(* one transaction that first locks the learner's profile row; a refresh   *)
(* reads all snapshots and upserts their projections row by row, in one    *)
(* transaction, in the order of the last update.  Each upsert locks its    *)
(* row until the commit.                                                   *)
(*                                                                         *)
(* Scores are counted in twentieths, as their thresholds are.              *)
(***************************************************************************)
EXTENDS Integers, FiniteSets, Sequences, FiniteSetsExt

CONSTANTS
    ModuleOf,       \* the sections of the plan, numbered, and their modules
    Refreshers,     \* turns that refresh the projection and read the context
    Evaluators,     \* turns that evaluate an answer
    Scores,         \* mastery scores an evaluation may arrive at
    Decisions,      \* and the decisions it may come to
    DecayEnabled, Grace, HalfLife, \* settings.mastery_decay_*, in ticks
    MaxTicks,        \* bound on the clock
    NoRow            \* no row, no lock

Sections == DOMAIN ModuleOf

ScoreRange == 0..20

\* Rows of mastery_snapshots: the score, its time, the decision, how many
\* evaluations the section had, and the rank of the last one among all.
SnapshotRow == [score : Scores, at : Nat, decision : Decisions, count : Nat \ {0}, nth : Nat]

\* Rows of topic_progress, which are the views of the context as well.
ProgressRow ==
    [section : Sections, score : ScoreRange, decision : Decisions, completed : BOOLEAN,
     nth : Nat, of : Nat \ {0}]

ProjectionAssumption ==
    /\ Scores \subseteq ScoreRange
    /\ Decisions \subseteq {"correct", "partial", "incorrect", "unresolved", "skipped"}
    /\ {Grace, HalfLife, MaxTicks} \subseteq Nat
    /\ DecayEnabled \in BOOLEAN
    /\ Sections \subseteq Nat /\ IsFiniteSet(Sections)
    /\ NoRow \notin Refreshers \union Decisions \union SnapshotRow \union ProgressRow

VARIABLES
    clock,
    snapshot,   \* mastery_snapshots: score, time, decision, evidence count
    evidence,   \* topic_evidence, oldest first
    progress,   \* topic_progress: score and status, and the count they are of
    profile,    \* the evaluator that holds the profile row
    rowLock,    \* the refresher that holds each topic_progress row
    refresh,    \* the refreshers
    evaluator,  \* the evaluators
    raced       \* history: sections last evaluated while a refresh was under way

projectionVars == <<clock, snapshot, evidence, progress, profile, rowLock,
                    refresh, evaluator, raced>>

----------------------------------------------------------------------------
(* The pure part of the service.                                           *)

\* A score after n half lives: the greatest k with k * 2^n <= score.
Decayed(n, score) == Cardinality({k \in 1..score : k * 2^n <= score})

\* _decay_multiplier times the score, in whole half lives.
EffectiveScore(snap) ==
    IF ~DecayEnabled \/ clock <= snap.at + Grace THEN snap.score
    ELSE IF HalfLife = 0 THEN 0
    ELSE Decayed((clock - snap.at - Grace) \div HalfLife, snap.score)

Completed(score) == score >= 16

\* _build_effective_projection.
Projection(s, snap) ==
    [section |-> s, score |-> EffectiveScore(snap), decision |-> snap.decision,
     completed |-> Completed(EffectiveScore(snap)), nth |-> snap.nth, of |-> snap.count]

\* _module_targets: the sections of the current stage's module.
ModuleTargets(s) == {x \in Sections : ModuleOf[x] = ModuleOf[s]}

StageSignal(view) ==
    CASE view = NoRow -> "new"
      [] view # NoRow /\ (view.decision \in {"incorrect", "unresolved"} \/ view.score < 10) -> "needs_support"
      [] view # NoRow /\ view.score \in 10..16 /\ view.decision \notin {"incorrect", "unresolved"} -> "progressing"
      [] OTHER -> "ready"

\* The first three by score, weakest or strongest first, the most recent first
\* among equals.
FirstThree(views, before(_, _)) == {v \in views : Cardinality({w \in views : before(w, v)}) < 3}
Weaker(v, w) == v.score < w.score \/ (v.score = w.score /\ v.nth > w.nth)
Stronger(v, w) == v.score > w.score \/ (v.score = w.score /\ v.nth > w.nth)

\* (mutant: the related topics are picked from the whole module.)
WeakRelatedAll(views, s) == FirstThree({v \in views : v.score < 12}, Weaker)

WeakRelated(views, s) == FirstThree({v \in views : v.section # s /\ v.score < 12}, Weaker)

StrongRelated(views, s) == FirstThree({v \in views : v.section # s /\ v.score >= 17}, Stronger)

\* list_recent_evidence: the last five rows of the module, or of the learner
\* when the module has none, by their number.
LastFive(rows) == {i \in rows : Cardinality({j \in rows : j > i}) < 5}
RecentEvidence(s) ==
    LET ofModule == {i \in DOMAIN evidence : ModuleOf[evidence[i].section] = ModuleOf[s]} IN
    LastFive(IF ofModule = {} THEN DOMAIN evidence ELSE ofModule)

\* _recent_evidence_pattern
Count(rows, decisions) == Cardinality({i \in rows : evidence[i].decision \in decisions})

RecentPattern(rows) ==
    [correctLike |-> Count(rows, {"correct", "partial"}),
     support |-> Count(rows, {"incorrect", "unresolved", "skipped"}),
     latest |-> IF rows = {} THEN NoRow ELSE evidence[Max(rows)].decision]

\* build_adaptation_context for the stage of section s, from the projections
\* read before and the evidence read now.
Context(s, views) ==
    LET ofModule == {v \in views : v.section \in ModuleTargets(s)}
        current == {v \in views : v.section = s} IN
    [stage |-> s,
     signal |-> StageSignal(IF current = {} THEN NoRow ELSE CHOOSE v \in current : TRUE),
     withEvidence |-> Cardinality(ofModule), total |-> Cardinality(ModuleTargets(s)),
     weak |-> WeakRelated(ofModule, s), strong |-> StrongRelated(ofModule, s),
     pattern |-> RecentPattern(RecentEvidence(s))]

----------------------------------------------------------------------------
Idle == [pc |-> "idle", todo |-> {}, writes |-> {}, commits |-> 0,
         views |-> {}, context |-> NoRow]

\* Some sections have been evaluated before, in their order, and projected.
InitProjection ==
    \E earlier \in UNION {[S -> Scores] : S \in SUBSET Sections},
       decision \in Decisions :
        LET nth(s) == Cardinality({x \in DOMAIN earlier : x <= s})
            snap(s) == [score |-> earlier[s], at |-> 0, decision |-> decision,
                        count |-> 1, nth |-> nth(s)] IN
        /\ clock = 0
        /\ snapshot = [s \in Sections |-> IF s \in DOMAIN earlier THEN snap(s) ELSE NoRow]
        /\ \E order \in [1 .. Cardinality(DOMAIN earlier) -> DOMAIN earlier] :
              /\ \A i, j \in DOMAIN order : i < j => order[i] < order[j]
              /\ evidence = [i \in DOMAIN order |-> [section |-> order[i], decision |-> decision]]
        /\ progress = [s \in Sections |-> IF s \in DOMAIN earlier
                                          THEN Projection(s, snapshot[s]) ELSE NoRow]
        /\ profile = NoRow
        /\ rowLock = [s \in Sections |-> NoRow]
        /\ refresh = [r \in Refreshers |-> Idle]
        /\ evaluator = [e \in Evaluators |-> [pc |-> "idle", section |-> NoRow,
                                              decision |-> NoRow, score |-> 0]]
        /\ raced = {}

Evaluated == {s \in Sections : snapshot[s] # NoRow}

Views == {Projection(s, snapshot[s]) : s \in Evaluated}

\* list_mastery_snapshots: last updated first.
Before(item, other) ==
    \/ item.snap.nth > other.snap.nth
    \/ item.snap.nth = other.snap.nth /\ item.section < other.section

\* refresh_projection reads the snapshots of the learner.
Item(s) == [section |-> s, snap |-> snapshot[s]]
RefreshRead(r) ==
    /\ refresh[r].pc = "idle"
    /\ refresh' = [refresh EXCEPT ![r] = [Idle EXCEPT !.pc = "upsert", !.commits = Len(evidence),
                                             !.todo = {Item(s) : s \in Evaluated}]]
    /\ UNCHANGED <<clock, snapshot, evidence, progress, profile, rowLock,
                   evaluator, raced>>

\* upsert_topic_progress_projection of an item, when its row is free.
UpsertRow(r, item) ==
    /\ rowLock[item.section] = NoRow
    /\ rowLock' = [rowLock EXCEPT ![item.section] = r]
    /\ refresh' = [refresh EXCEPT ![r] = [refresh[r] EXCEPT !.todo = @ \ {item},
                        !.writes = @ \union {Projection(item.section, item.snap)}]]
    /\ UNCHANGED <<clock, snapshot, evidence, progress, profile, evaluator, raced>>

IsNextItem(r, item) ==
    item \in refresh[r].todo /\ \A other \in refresh[r].todo \ {item} : Before(item, other)

\* (mutant: the upserts are made in whatever order their rows come free.)
RefreshUpsertAny(r) ==
    /\ refresh[r].pc = "upsert"
    /\ \E item \in refresh[r].todo : UpsertRow(r, item)

RefreshUpsert(r) ==
    /\ refresh[r].pc = "upsert"
    /\ \E item \in refresh[r].todo : IsNextItem(r, item) /\ UpsertRow(r, item)

Released(r) == [s \in Sections |-> IF rowLock[s] = r THEN NoRow ELSE rowLock[s]]

RefreshCommit(r) ==
    LET writes == refresh[r].writes IN
    /\ refresh[r].pc = "upsert"
    /\ refresh[r].todo = {}
    /\ progress' = [s \in Sections |->
                      IF \E w \in writes : w.section = s
                      THEN CHOOSE w \in writes : w.section = s
                      ELSE progress[s]]
    /\ rowLock' = Released(r)
    /\ refresh' = [refresh EXCEPT ![r].pc = "context"]
    /\ UNCHANGED <<clock, snapshot, evidence, profile, evaluator, raced>>

\* r waits for a row that another transaction holds.
WaitsFor(r) ==
    {rowLock[item.section] : item \in {i \in refresh[r].todo : IsNextItem(r, i)}} \ {NoRow}

Deadlocked(group) ==
    /\ group # {}
    /\ \A r \in group : WaitsFor(r) # {} /\ WaitsFor(r) \subseteq group

\* The database ends a deadlock: the statement of one of them fails and its
\* transaction, with the turn, is rolled back.
DeadlockVictim(r) ==
    /\ \E group \in SUBSET Refreshers : r \in group /\ Deadlocked(group)
    /\ rowLock' = Released(r)
    /\ refresh' = [refresh EXCEPT ![r] = [Idle EXCEPT !.pc = "done"]]
    /\ UNCHANGED <<clock, snapshot, evidence, progress, profile, evaluator, raced>>

\* build_adaptation_context reads the snapshots ...
ContextViews(r) ==
    /\ refresh[r].pc = "context"
    /\ refresh' = [refresh EXCEPT ![r] = [Idle EXCEPT !.pc = "evidence", !.views = Views]]
    /\ UNCHANGED <<clock, snapshot, evidence, progress, profile, rowLock,
                   evaluator, raced>>

\* ... and, in another transaction, the recent evidence.
ContextEvidence(r, s) ==
    /\ refresh[r].pc = "evidence"
    /\ refresh' = [refresh EXCEPT ![r].pc = "done",
                                  ![r].context = Context(s, refresh[r].views)]
    /\ UNCHANGED <<clock, snapshot, evidence, progress, profile, rowLock,
                   evaluator, raced>>

\* record_evaluation_update: its transaction touches the profile row first.
EvaluationBegins(e, s, decision, score) ==
    /\ evaluator[e].pc = "idle"
    /\ profile = NoRow
    /\ profile' = e
    /\ evaluator' = [evaluator EXCEPT ![e] = [pc |-> "persist", section |-> s,
                                              decision |-> decision, score |-> score]]
    /\ UNCHANGED <<clock, snapshot, evidence, progress, rowLock, refresh, raced>>

\* (mutant: the evaluation leaves the projection to the next refresh.)
EvaluationPersistsAlone(e) ==
    LET s == evaluator[e].section
        count == IF snapshot[s] = NoRow THEN 0 ELSE snapshot[s].count IN
    /\ evaluator[e].pc = "persist"
    /\ rowLock[s] = NoRow
    /\ evidence' = Append(evidence, [section |-> s, decision |-> evaluator[e].decision])
    /\ snapshot' = [snapshot EXCEPT ![s] =
          [score |-> evaluator[e].score, at |-> clock, count |-> count + 1,
           decision |-> evaluator[e].decision, nth |-> Len(evidence) + 1]]
    /\ raced' = IF \E r \in Refreshers : refresh[r].pc = "upsert"
                THEN raced \union {s} ELSE raced \ {s}
    /\ profile' = NoRow
    /\ evaluator' = [evaluator EXCEPT ![e].pc = "done"]
    /\ UNCHANGED <<clock, progress, rowLock, refresh>>

\* Evidence, snapshot and projection, and the commit.
EvaluationPersists(e) ==
    LET s == evaluator[e].section
        count == IF snapshot[s] = NoRow THEN 0 ELSE snapshot[s].count
        after == [score |-> evaluator[e].score, at |-> clock, count |-> count + 1,
                  decision |-> evaluator[e].decision, nth |-> Len(evidence) + 1] IN
    /\ evaluator[e].pc = "persist"
    /\ rowLock[s] = NoRow
    /\ evidence' = Append(evidence, [section |-> s, decision |-> evaluator[e].decision])
    /\ snapshot' = [snapshot EXCEPT ![s] = after]
    /\ progress' = [progress EXCEPT ![s] = Projection(s, after)]
    /\ raced' = IF \E r \in Refreshers : refresh[r].pc = "upsert"
                THEN raced \union {s} ELSE raced \ {s}
    /\ profile' = NoRow
    /\ evaluator' = [evaluator EXCEPT ![e].pc = "done"]
    /\ UNCHANGED <<clock, rowLock, refresh>>

TickProjection ==
    /\ clock < MaxTicks
    /\ clock' = clock + 1
    /\ UNCHANGED <<snapshot, evidence, progress, profile, rowLock, refresh,
                   evaluator, raced>>

NextProjection ==
    \/ \E r \in Refreshers :
          \/ RefreshRead(r) \/ RefreshUpsert(r) \/ RefreshCommit(r)
          \/ DeadlockVictim(r) \/ ContextViews(r)
          \/ \E s \in Sections : ContextEvidence(r, s)
    \/ \E e \in Evaluators :
          \/ \E s \in Sections, d \in Decisions, score \in Scores :
                EvaluationBegins(e, s, d, score)
          \/ EvaluationPersists(e)
    \/ TickProjection

SpecProjection == InitProjection /\ [][NextProjection]_projectionVars
----------------------------------------------------------------------------
(* Properties                                                              *)

\* Types of the rows and of the transactions' state.
AdaptationContexts ==
    [stage : Sections, signal : {"new", "needs_support", "progressing", "ready"},
     withEvidence : Nat, total : Nat, weak : SUBSET ProgressRow, strong : SUBSET ProgressRow,
     pattern : [correctLike : Nat, support : Nat, latest : Decisions \union {NoRow}]]

RefreshState ==
    [pc : {"idle", "upsert", "context", "evidence", "done"},
     todo : SUBSET [section : Sections, snap : SnapshotRow],
     writes : SUBSET ProgressRow, commits : Nat, views : SUBSET ProgressRow,
     context : AdaptationContexts \union {NoRow}]

EvaluatorState ==
    [pc : {"idle", "persist", "done"}, section : Sections \union {NoRow},
     decision : Decisions \union {NoRow}, score : ScoreRange]

ProjectionTypeOK ==
    /\ clock \in Nat
    /\ snapshot \in [Sections -> SnapshotRow \union {NoRow}]
    /\ evidence \in Seq([section : Sections, decision : Decisions])
    /\ progress \in [Sections -> ProgressRow \union {NoRow}]
    /\ profile \in Evaluators \union {NoRow}
    /\ rowLock \in [Sections -> Refreshers \union {NoRow}]
    /\ refresh \in [Refreshers -> RefreshState]
    /\ evaluator \in [Evaluators -> EvaluatorState]
    /\ raced \subseteq Sections

\* Two refreshes of one learner can only block each other when an evaluation
\* committed between their reads: from equal reads they lock the rows in one
\* order (refresh_projection over list_mastery_snapshots).
DeadlockNeedsNewEvidence ==
    \A r, q \in Refreshers :
        Deadlocked({r, q}) => refresh[r].commits # refresh[q].commits

\* A topic_progress row is of the section's last evaluation, unless a refresh
\* that had read before that evaluation was under way when it committed.
ProgressBehindOnlyWhenRaced ==
    \A s \in Sections : snapshot[s] # NoRow /\ s \notin raced =>
        /\ progress[s] # NoRow
        /\ progress[s].of = snapshot[s].count

\* A context names no section both weak and strong, never the current one, and
\* covers at most its module, although snapshots and evidence are read apart.
ContextConsistent ==
    \A r \in Refreshers : refresh[r].context # NoRow =>
        LET c == refresh[r].context
            named(views) == {v.section : v \in views} IN
        /\ named(c.weak) \intersect named(c.strong) = {}
        /\ (named(c.weak) \union named(c.strong)) \subseteq ModuleTargets(c.stage) \ {c.stage}
        /\ c.withEvidence <= c.total
        /\ c.signal # "new" => c.withEvidence > 0 /\ c.pattern.latest # NoRow
        /\ c.pattern.correctLike + c.pattern.support <= 5
----------------------------------------------------------------------------
(* The inductive invariant behind them.                                    *)

\* An evaluation under way knows what it will write.
EvaluatorsReady ==
    \A e \in Evaluators : evaluator[e].pc = "persist" =>
        /\ evaluator[e].section \in Sections /\ evaluator[e].decision \in Decisions
        /\ evaluator[e].score \in Scores

\* Whatever is projected has evidence.
EvidenceFirst ==
    /\ Evaluated # {} => evidence # <<>>
    /\ \A r \in Refreshers : refresh[r].views # {} => evidence # <<>>

\* The views of one read are of different sections.
OneViewEach ==
    \A r \in Refreshers : \A v, w \in refresh[r].views : v.section = w.section => v = w

\* A row is locked by a refresh that has written it and not committed.
LocksHeld ==
    /\ \A s \in Sections : rowLock[s] # NoRow =>
          /\ refresh[rowLock[s]].pc = "upsert"
          /\ \A item \in refresh[rowLock[s]].todo : item.section # s
    /\ \A r \in Refreshers : refresh[r].pc # "upsert" => refresh[r].todo = {}

\* Unless an evaluation was committed since it has read, a refresh has read
\* what there is, and has written the rows that come before its next ones.
FreshReads ==
    \A r \in Refreshers : refresh[r].pc = "upsert" =>
        /\ refresh[r].commits <= Len(evidence)
        /\ refresh[r].commits = Len(evidence) =>
              \A item \in refresh[r].todo :
                  /\ item = Item(item.section)
                  /\ \A s \in Sections : rowLock[s] = r => s \in Evaluated /\ Before(Item(s), item)

\* Two refreshes that have read the same take the rows in the same order.
SameOrder ==
    \A r, q \in Refreshers :
        refresh[r].pc = "upsert" /\ refresh[q].pc = "upsert" /\ refresh[r].commits = refresh[q].commits =>
            /\ \A i \in refresh[r].todo, j \in refresh[q].todo : i.section = j.section => i = j
            /\ \A j \in refresh[q].todo : rowLock[j.section] = r =>
                  \A i \in refresh[r].todo : Before(j, i)

\* What a refresh has written or will write is of the last evaluation, unless
\* one came in between.
WritesCurrent ==
    \A r \in Refreshers : refresh[r].pc = "upsert" =>
        /\ \A item \in refresh[r].todo : item.section \notin raced =>
              snapshot[item.section] = item.snap
        /\ \A w \in refresh[r].writes : w.section \notin raced =>
              snapshot[w.section] # NoRow /\ w.of = snapshot[w.section].count

ProjectionInv ==
    /\ ProjectionTypeOK /\ EvaluatorsReady /\ EvidenceFirst /\ OneViewEach
    /\ LocksHeld /\ FreshReads /\ SameOrder /\ WritesCurrent
    /\ DeadlockNeedsNewEvidence /\ ProgressBehindOnlyWhenRaced /\ ContextConsistent
=============================================================================
