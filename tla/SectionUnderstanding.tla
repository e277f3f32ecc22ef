------------------------ MODULE SectionUnderstanding ------------------------
(***************************************************************************)
(* What a turn knows about the section it teaches: the language model's    *)
(* reading of the section's source, normalised, stored per learner and     *)
(* section, and found again by the hash of the source                      *)
(* (SectionUnderstandingService, section_coverage.py), and the task that   *)
(* is chosen from it (PendingTaskRuntime._select_pending_task).            *)
(*                                                                         *)
(* One learner and one section.  Texts and titles are left out; of the     *)
(* possible basis of an answer check the rubric is told apart from the     *)
(* hidden answer and the excerpt, as the code does.                        *)
(***************************************************************************)
EXTENDS Numbering, Sequences, SequencesExt

CONSTANTS
    Turns,       \* turns of the learner, in any order and overlapping
    Items,       \* exercises and checkpoints of the section
    Answers,     \* what the language model may return
    MaxVersion,  \* bound: versions of the section's source
    NoArtifact

Roles == {"introduction", "formula_reference", "review", "worked_example",
          "checkpoint", "exercise_bank", "core_concept", "transition"}
Actions == {"teach", "ask_question", "assign_exercise", "clarify"}
Bases == {"answer", "rubric"}

AnswerCheckContext ==
    [item : Items, type : {"exercise", "checkpoint", "question"}, verify : BOOLEAN,
     basis : SUBSET Bases]

Artifact ==
    [role : Roles, dwell : BOOLEAN, asks : BOOLEAN, exercises : Seq(Items),
     checkpoints : Seq(Items), contexts : Seq(AnswerCheckContext), actions : SUBSET Actions]

UnderstandingAssumption ==
    MaxVersion \in Nat /\ Answers \subseteq Artifact /\ NoArtifact \notin Artifact

VARIABLES
    sourceVersion,  \* the version of the section's source in the index, 0 for none
    artifacts,      \* teacher_artifacts of the learner and section, oldest first
    readings        \* per turn: pc, version read, artifact, where it is from

understandingVars == <<sourceVersion, artifacts, readings>>

----------------------------------------------------------------------------
(* section_coverage.py                                                     *)

Lightweight == {"introduction", "formula_reference"}
TaskBearing == {"checkpoint", "exercise_bank"}

\* The references, each where it comes first.
Deduped(refs) == Kept(refs, {i \in DOMAIN refs : \A j \in 1 .. i - 1 : refs[j] # refs[i]})

ItemsOf(contexts) == {contexts[i].item : i \in DOMAIN contexts}

Tasks(a) == ToSet(a.exercises) \cup ToSet(a.checkpoints)

\* can_verify needs a basis, and for a checkpoint a rubric.
Checked(c) ==
    [c EXCEPT !.verify = @ /\ c.basis # {} /\ (c.type = "checkpoint" => "rubric" \in c.basis)]

\* The first context of every item the section has.
CheckedContexts(a) ==
    Kept([i \in DOMAIN a.contexts |-> Checked(a.contexts[i])],
         {i \in DOMAIN a.contexts :
             /\ a.contexts[i].item \in Tasks(a)
             /\ \A j \in 1 .. i - 1 : a.contexts[j].item # a.contexts[i].item})

\* The contexts, and an unverifiable one for every item that has none.
WithPlaceholders(contexts, refs, type) ==
    LET missing == Kept(refs, {i \in DOMAIN refs : refs[i] \notin ItemsOf(contexts)})
    IN contexts \o [n \in DOMAIN missing |->
                       [item |-> missing[n], type |-> type, verify |-> FALSE, basis |-> {}]]

\* Sections that are read, not worked on: no tasks, and no dwelling.
NormalizeLightweight(a) ==
    LET asks == a.role = "formula_reference"
        left == a.actions \ ({"assign_exercise"} \cup (IF asks THEN {} ELSE {"ask_question"}))
    IN [a EXCEPT !.dwell = FALSE, !.asks = asks, !.exercises = <<>>, !.checkpoints = <<>>,
                 !.contexts = <<>>, !.actions = IF left = {} THEN {"teach"} ELSE left]

\* Reviews keep only the checkpoints that can be verified.
NormalizeReview(a) ==
    LET contexts == CheckedContexts(a)
        verifiable == {contexts[i].item :
                          i \in {k \in DOMAIN contexts :
                                    contexts[k].type = "checkpoint" /\ contexts[k].verify}}
        exercises == Deduped(a.exercises)
        refs == Deduped(a.checkpoints)
        checkpoints == Kept(refs, {i \in DOMAIN refs : refs[i] \in verifiable})
        allowed == ToSet(exercises) \cup ToSet(checkpoints)
    IN [a EXCEPT !.exercises = exercises, !.checkpoints = checkpoints,
                 !.contexts = Kept(contexts, {i \in DOMAIN contexts : contexts[i].item \in allowed})]

NormalizeTasks(a) ==
    LET exercises == Deduped(a.exercises)
        checkpoints == Deduped(a.checkpoints)
    IN [a EXCEPT !.exercises = exercises, !.checkpoints = checkpoints,
                 !.contexts = WithPlaceholders(
                                  WithPlaceholders(CheckedContexts(a), exercises, "exercise"),
                                  checkpoints, "checkpoint")]

NormalizeOther(a) ==
    [a EXCEPT !.exercises = Deduped(@), !.checkpoints = Deduped(@), !.contexts = CheckedContexts(a)]

Normalize(a) ==
    CASE a.role \in Lightweight -> NormalizeLightweight(a)
      [] a.role = "review" -> NormalizeReview(a)
      [] a.role \in TaskBearing -> NormalizeTasks(a)
      [] OTHER -> NormalizeOther(a)

\* collect_section_issue_flags, less the flag of a fallback.
IssueFlags(a) ==
    LET flag(name, holds) == IF holds THEN {name} ELSE {}
        contexts == ToSet(a.contexts)
        tasks == Tasks(a)
    IN UNION {
        flag("lightweight_section_overdwell", a.role \in Lightweight /\ a.dwell),
        flag("lightweight_section_has_tasks",
             a.role \in Lightweight /\ (tasks # {} \/ contexts # {})),
        flag("review_section_missing_verifiable_checkpoint",
             /\ a.role = "review"
             /\ ~\E c \in contexts : /\ c.item \in ToSet(a.checkpoints)
                                     /\ c.verify /\ "rubric" \in c.basis),
        flag("task_section_missing_verification_context",
             a.role \in TaskBearing /\ ~(tasks \subseteq ItemsOf(a.contexts))),
        flag("exercise_bank_missing_literal_exercises",
             a.role = "exercise_bank" /\ a.exercises = <<>>),
        flag("checkpoint_context_missing_verification_basis",
             \E c \in contexts : /\ c.verify
                                 /\ c.basis = {} \/ (c.type = "checkpoint" /\ "rubric" \notin c.basis)) }

----------------------------------------------------------------------------
(* The service                                                             *)

\* fallback_section_understanding
Fallback == [role |-> "core_concept", dwell |-> TRUE, asks |-> FALSE, exercises |-> <<>>,
             checkpoints |-> <<>>, contexts |-> <<>>, actions |-> {"teach", "clarify"}]

InitUnderstanding ==
    /\ sourceVersion \in 0 .. MaxVersion
    /\ artifacts = <<>>
    /\ readings = [t \in Turns |-> [pc |-> "idle", version |-> 0, artifact |-> NoArtifact, from |-> "none"]]

At(t, pc) == readings[t].pc = pc

MoveOn(t, pc) == readings' = [readings EXCEPT ![t].pc = pc]

Understood(t, a, from) ==
    readings' = [readings EXCEPT ![t].pc = "understood", ![t].artifact = a, ![t].from = from]

\* Indexing replaces the section's source while turns go on.
Reindex ==
    /\ sourceVersion < MaxVersion
    /\ sourceVersion' = sourceVersion + 1
    /\ UNCHANGED <<artifacts, readings>>

\* resolve_stage_source: the turn fails while there is no content.
ContentNotReady(t) ==
    /\ At(t, "idle") /\ sourceVersion = 0
    /\ MoveOn(t, "failed")
    /\ UNCHANGED <<sourceVersion, artifacts>>

\* A source the validation of the payload refuses (control characters).
ReadUnusable(t) ==
    /\ At(t, "idle") /\ sourceVersion > 0
    /\ Understood(t, Fallback, "fallback")
    /\ UNCHANGED <<sourceVersion, artifacts>>

ReadSection(t) ==
    /\ At(t, "idle") /\ sourceVersion > 0
    /\ readings' = [readings EXCEPT ![t].pc = "look_up", ![t].version = sourceVersion]
    /\ UNCHANGED <<sourceVersion, artifacts>>

\* (mutant: the key has no hash of the source.)
AnyKey(t) == DOMAIN artifacts

\* get_section_understanding: the rows whose key has the hash of the source.
SameKey(t) == {i \in DOMAIN artifacts : artifacts[i].version = readings[t].version}

\* The latest of them.
Reuse(t) ==
    /\ At(t, "look_up")
    /\ \E i \in SameKey(t) :
        /\ \A j \in SameKey(t) : j <= i
        /\ Understood(t, Normalize(artifacts[i].artifact), "cache")
    /\ UNCHANGED <<sourceVersion, artifacts>>

FindNone(t) ==
    /\ At(t, "look_up") /\ SameKey(t) = {}
    /\ MoveOn(t, "ask")
    /\ UNCHANGED <<sourceVersion, artifacts>>

\* understand_section answers, or fails and leaves the fallback, which is not stored.
Understand(t, a) ==
    /\ At(t, "ask")
    /\ readings' = [readings EXCEPT ![t].pc = "record", ![t].artifact = Normalize(a), ![t].from = "llm"]
    /\ UNCHANGED <<sourceVersion, artifacts>>

UnderstandFails(t) ==
    /\ At(t, "ask")
    /\ Understood(t, Normalize(Fallback), "fallback")
    /\ UNCHANGED <<sourceVersion, artifacts>>

\* record_section_understanding_artifact appends a row; when it raises, so does the turn.
Store(t) ==
    /\ At(t, "record")
    /\ artifacts' = Append(artifacts, [version |-> readings[t].version, artifact |-> readings[t].artifact])
    /\ MoveOn(t, "understood")
    /\ UNCHANGED sourceVersion

StoreFails(t) ==
    /\ At(t, "record")
    /\ MoveOn(t, "failed")
    /\ UNCHANGED <<sourceVersion, artifacts>>

NextUnderstanding ==
    \/ Reindex
    \/ \E t \in Turns :
        \/ ContentNotReady(t) \/ ReadUnusable(t) \/ ReadSection(t) \/ Reuse(t) \/ FindNone(t)
        \/ \E a \in Answers : Understand(t, a)
        \/ UnderstandFails(t) \/ Store(t) \/ StoreFails(t)

SpecUnderstanding == InitUnderstanding /\ [][NextUnderstanding]_understandingVars

----------------------------------------------------------------------------
(* The task of the section                                                 *)

\* The first context of an item, if it has any.
ContextFor(a, r) ==
    {a.contexts[i] : i \in {k \in DOMAIN a.contexts :
                               /\ a.contexts[k].item = r
                               /\ \A j \in 1 .. k - 1 : a.contexts[j].item # r}}

\* _select_pending_task: the first checkpoint, else the first exercise.
SelectTask(a) ==
    LET task(kind, r) == {[kind |-> kind, item |-> r, context |-> ContextFor(a, r)]}
    IN IF a.checkpoints # <<>> THEN task("checkpoint", a.checkpoints[1])
       ELSE IF a.exercises # <<>> THEN task("exercise", a.exercises[1])
       ELSE {}

----------------------------------------------------------------------------
(* Properties                                                              *)

HasArtifact(t) == readings[t].pc \in {"record", "understood"}

StoredArtifact == [version : 1 .. MaxVersion, artifact : Artifact]

Reading ==
    [pc : {"idle", "look_up", "ask", "record", "understood", "failed"}, version : 0 .. MaxVersion,
     artifact : Artifact \cup {NoArtifact}, from : {"none", "fallback", "cache", "llm"}]

\* Types of the rows and the turns.
UnderstandingTypeOK ==
    /\ sourceVersion \in 0 .. MaxVersion
    /\ artifacts \in Seq(StoredArtifact)
    /\ readings \in [Turns -> Reading]
    /\ \A t \in Turns : HasArtifact(t) => readings[t].artifact \in Artifact

\* A turn that finds its section in the cache works with exactly what a turn
\* that read the same source had stored, whatever was indexed or stored in
\* between: normalising again changes nothing
\* (get_or_create_section_understanding_with_diagnostics).
UnderstandingIsStable ==
    \A t \in Turns : readings[t].from = "cache" =>
        [version |-> readings[t].version, artifact |-> readings[t].artifact] \in ToSet(artifacts)

\* An artifact has none of the flaws normalisation is there for, and the task
\* it leads to claims to be verifiable only with a basis.
IsSound(a) ==
    /\ IssueFlags(a) \subseteq {"review_section_missing_verifiable_checkpoint",
                                "exercise_bank_missing_literal_exercises"}
    /\ \A task \in SelectTask(a) : \A c \in task.context : c.verify => c.basis # {}

\* Whatever the language model said, what a turn works with is sound
\* (section_coverage.py, _select_pending_task).
UnderstandingIsSound == \A t \in Turns : HasArtifact(t) => IsSound(readings[t].artifact)

\* Both: a cached understanding is the one that was stored, and none has the
\* flaws normalisation is there for (section_understanding_service.py, section_coverage.py).
UnderstandingHolds == UnderstandingIsStable /\ UnderstandingIsSound

----------------------------------------------------------------------------
(* The inductive invariant behind it.                                      *)

\* What is stored, or about to be, is sound and in normal form.
IsNormal(a) == Normalize(a) = a /\ IsSound(a)

NormalStored ==
    /\ \A i \in DOMAIN artifacts : IsNormal(artifacts[i].artifact)
    /\ \A t \in Turns : readings[t].pc = "record" => IsNormal(readings[t].artifact)

\* Who has read the section has read some version of it, and before that has
\* found nothing in the cache.
VersionRead ==
    \A t \in Turns :
        /\ readings[t].pc \in {"look_up", "ask", "record"} => readings[t].version # 0
        /\ At(t, "idle") => readings[t].from = "none"

UnderstandingInv ==
    UnderstandingTypeOK /\ NormalStored /\ VersionRead /\ UnderstandingHolds
=============================================================================
