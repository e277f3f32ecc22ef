# TLA+ models of proactive-its

`proactive-its` is a tutoring service: a FastAPI application, a Celery worker, Postgres, RabbitMQ, Redis, Qdrant
and a React client.  A learner posts events to `/teacher/session`; each becomes a durable *chat turn* that a worker
executes with several LLM calls while the request waits or streams.  This directory holds TLA+ modules for the parts
where interleaving, failure and ordering decide whether the service is correct, the TLC configurations that check
them and the TLAPS proofs about them.  Paths below are relative to `src/`.

## 1. The system

| component | code | state | operations | interacts with |
|---|---|---|---|---|
| durable chat turn | `app/platform/chat/{models,repository,serializers}.py` | `teacher_turns`, `teacher_jobs`, `teacher_job_results`, `outbox_events` | create bundle, list/mark outbox events, mark queued, claim, complete, mark failed, mark degraded | called by dispatch, worker, waiters |
| session dispatch | `app/teacher/runtime.py` (`dispatch_or_inline`, `_publish_session_turn`, `execute_session`), `app/api/routes.py` | none of its own | derive key, publish, fall back to inline execution | broker, repository, engine |
| Celery worker | `app/platform/chat/tasks.py` | messages in RabbitMQ, task being run | receive, claim, execute, complete or fail, retry, notify; memory synthesis | repository, engine, Redis |
| waiting and streaming | `_wait_for_session_completion`, `app/api/sse.py`, `app/platform/cache.py` | subscription, timers | initial check, pubsub, polling, time-out | repository, Redis |
| plan progress | `app/state/services/service.py`, `app/state/stage_state.py`, `session_repository.py` | `learner_plan_state` | ensure/normalise, advance, move | every turn |
| mastery | `app/state/services/learner_service.py`, `learner_repository.py` | snapshot, evidence, projection | record evaluation, refresh with decay | every turn |
| teacher turn | `app/teacher/runtime.py` (`execute_session_inner` and handlers), `pending_task_runtime.py` | session events, learning debt, proposals | answer, navigation, grounded reply, other events | plan, mastery, engine |
| learner memory | `_maybe_synthesize_memory`, `run_memory_synthesis` | `learner_memory` | enqueue, synthesise, upsert | worker, engine |
| section understanding, lessons | `section_understanding_service.py`, `section_coverage.py`, `app/teacher/repository.py`, `app/teacher/artifacts/*` | artifacts and lessons keyed by source hash | look up, compute, normalise, record | engine, Qdrant |
| authentication | `app/auth/*` | learners, sessions, reset tokens, rate-limit buckets | signup, login, logout, reset | API |
| content index | `app/content/*` | Qdrant points, stored fingerprint | index, skip, recreate | Qdrant, embeddings |
| retrieval | `app/platform/rag/*`, `embeddings.py`, `vector_store.py` | query cache | retrieve, answer | LLM services |
| frontend session | `frontend/src/features/session/*`, `api/client.ts` | transcript, request version, pending status | start, send, retry, hydrate | API |

What is hard here:

* *Interleaving.*  Every `await` of an API handler or worker lets others run; several handlers may serve the same
  request key, several workers may hold the same task; only `claim_chat_turn_execution` takes row locks before it decides.
* *Failure.*  The API or a worker may die between two transactions, `send_task` may raise, the database may refuse a
  transaction, the engine (LLM calls) may raise after having committed part of its effects, Redis may be down or lose a message.
* *Ordering.*  The worker may finish before the handler that published the task has recorded it as queued; notifications
  may precede subscriptions; memory syntheses may end out of order.
* *Timeouts and retries.*  Clients wait 180 s and poll every 2 s, Celery retries three times, a client resubmits.
* *Read-modify-write.*  Plan state, mastery and pending tasks are computed from what an earlier transaction read.

What makes the components correct: the four tables of a turn agree; one worker executes a turn at a time; a turn is executed
again only after a recorded failure, or visibly as `degraded_execution`; what was handed to the broker is settled; every request ends and misses
as little as the polling allows; progress stays within the plan and does not move on its own; mastery reflects its
evidence; an answered task stays answered; an index that a run recorded as current, and no other run tore since, is complete.  `PROJECT.json` lists the hazards
line by line.

## 2. Plan

Done:

1. `TurnLifecycle` - abstract: the life of a turn as its readers see it.
2. `ChatTurn` - the durable turn: dispatch, outbox, broker, workers, failures.  Refines 1.
3. `ChatTurnProofs` - types, inductive invariant, safety, refinement.
4. `TurnWait` - the wait of 2 in detail, with time.
5. `PlanState`, `PlanProgress` - the plan row under `ensure_context`, `advance_stage`, `move_to_stage` by concurrent turns.
6. `PlanProgressProofs` - types, inductive invariant, safety of 5.
7. `MasteryScore`, `TeacherTurn` - one learner's executions of the engine, transaction by transaction, with their failures and
   retries (the `Execute` step of `ChatTurn` in detail).  Refines 5.
8. What a turn leaves behind or reads: `LearnerMemory`, `LearnerProjection`, `SectionUnderstanding`, `LessonCache`.
9. Where its content comes from: `ContentChunks`, `ContentIndex`, `PlanTemplate`, `Embedding`, `GroundedAnswer`.
10. Both ends: `AuthSessions` and `FrontendSession`.
11. `MCServices` - instances of 8 to 10 under one run.
12. `TurnWaitProofs`, `TeacherTurnProofs`, `AuthSessionsProofs`, `ContentProofs`, `LearnerProofs` - types, inductive
    invariants and safety of 4, 7, `AuthSessions`, `ContentIndex`, `PlanTemplate`, `LearnerMemory` and `LearnerProjection`; the
    refinement of 5 by 7.
13. `ReadingProofs` - types, inductive invariants and safety of `FrontendSession`, `LessonCache`, `GroundedAnswer`, `Embedding`,
    `SectionUnderstanding` and `ContentChunks`.

## 3. Modules

### ChatTurn

| TLA+ | code |
|---|---|
| `turnState`, `turnResult`, `degraded` | `teacher_turns.state`, `.final_result_json`, `.degraded_execution` |
| `jobState`, `jobResult`, `outbox` | `teacher_jobs.state`, `teacher_job_results.result_payload_json`, `outbox_events.published_at` |
| `queue` | messages of a turn in RabbitMQ, counted by Celery retry number |
| `callPc`, `callKey`, ... | an API handler between two awaits, its turn, the result it holds, what it answered |
| `workerPc`, `workerKey`, ... | a Celery pool process, its task and retry number, the result it holds |
| `runs` | history: how many runs of `execute_session_inner` on the turn have ended or broken off; a result is numbered by its run |
| `failures` | history: how often `mark_chat_turn_failed` was committed for the turn |
| `Submit` | `_derive_session_request_key`: the key a request maps to |
| `ReadBundle`, `CreateBundle` | the `SELECT` and the `INSERT`s of `create_chat_turn_bundle`, and the branch `dispatch_or_inline` takes |
| `ListPending`, `Enqueue`, `EnqueueFails`, `MarkPublished`, `MarkQueued` | `_publish_session_turn` |
| `Degrade`, `ExecuteInline`, `ExecuteInlineFails`, `CompleteInline` | the two inline branches |
| `WaitEnds` | `_wait_for_session_completion` or the stream, in detail in `TurnWait` |
| `Receive`, `Claim`, `Execute`, `ExecuteFails`, `Complete`, `MarkFailed`, `Retry` | `run_teacher_session` and the Celery machinery around it |
| `CallLost`, `WorkerCrash`, `TaskRaises` | a handler or worker dies, a transaction raises |
| `RunEnds` | a run of the engine, in whatever way it ends |

An action is one database transaction, one broker operation or one engine run.  The engine commits mastery (`runtime.py:786`) and plan progress
(`runtime.py:986`) before later LLM calls of the same run, so a run that raises, or whose process dies, may have done part of its work for good: it
counts in `runs` like one that ends, the worst that can be said of it.  What is committed by then, and what a retry repeats, is in `TeacherTurn`.  A transaction is atomic because
`get_session` commits or rolls back as a whole and every writer of a turn takes the turn's row before the job's.
`create_chat_turn_bundle` is split in its read and its insert, since two requests may both read before either inserts; the
unique `request_key` makes the later insert fail (reply 500).  A result is a number instead of JSON, errors, counters
(`attempt_count`, `publish_attempt_count`) and timestamps are left out, `mark_outbox_event_failed` therefore writes
nothing visible.  A transaction that commits and then raises in the client is covered by a crash after the commit.  "missing"
claims cannot occur because the task is sent after the bundle is committed and rows are never deleted.  A dying API process loses all its
handlers; losing them one by one, which `CallLost` does, covers that.  Messages in RabbitMQ are not lost
(durable queue); the non-durable mode (`durable_chat_enabled=false`) is one engine call and not modelled.

### TurnLifecycle

The state, result and flag of a turn with seven states of a row and six actions.  It says that a turn is accepted once,
starts only when it is not running, succeeds or fails only from running, and is final once completed - unless it is degraded,
in which case inline execution may complete it at any time and a worker may fail it again.  `ChatTurn` implements it under the
mapping `state <- turnState, result <- turnResult, degraded <- degraded`.

### TurnWait

One turn, one synchronous and one streaming request that wait for it, with a clock in ticks.  `SyncCheck` to `SyncPoll` are
the statements of `_wait_for_session_completion` between two awaits, `StreamSubscribe` to `StreamListenRaises` those of
`teacher_session_stream` and `stream_session_completion`; `Claim`, `Complete`, `Fail`, `Notify`, `NotifyLost` are the turn as
the worker moves it and `_notify_turn_complete`.  A pubsub read returns the subscription's confirmation, a notification,
nothing at its timer, or raises.  Database reads take no time and `Tick` waits until nobody can move, so timers fire
when due: the bounds of the properties are exact for this notion of time, while the code lets a pubsub read run up to one second over its timer (the margin of `wait_for`, `sse.py:58-61`).
`settledAt`, `noticeAt` and `missed` are history for the properties.

### PlanState and PlanProgress

`PlanState` holds the row `learner_plan_state` as a record (`index`, `count`, `done` for `current_stage_index`, `completed_count`,
`plan_completed`) and the pure parts of what is done to it: `Normalised`, `Advanced`, `Moved`.  `PlanProgress` puts them under
concurrent turns of one learner.

| TLA+ | code |
|---|---|
| `total`, `RebuildTemplate` | the `stage_targets` of the default template; `bootstrap_default_template` rewrites an incomplete template under the same id |
| `plan`, `created` | the learner's row |
| `pc`, `asked`, `held` | where a turn is, which plan operation it is in, the row it holds as `state` |
| `Begin`, `Ask` | `execute_session_inner` loads its context; a handler calls `advance_stage` or `move_to_stage` |
| `Ensure`, `Normalise` | the INSERT and SELECT, and the UPDATE, of `get_or_create_learner_plan_state`; the SELECT takes no lock, so others may write between the two |
| `Advance`, `MoveTo`, `MoveNowhere` | the second halves of `advance_stage` and `move_to_stage` |
| `End` | the turn answers, raises or dies |

A plan has at least one section: `ensure_default_template` raises for a template without any.  The template id is constant
(`default_template_id`), so the branch of the normalisation that resets the row of another template does not occur.  The bootstrap command
runs to completion before API and workers start (`docker-compose.yml`), so a rebuild meets no running turn.

### MasteryScore and TeacherTurn

`MasteryScore` is `compute_mastery_delta` and what follows from it, in ten-thousandths, the precision the code rounds to
(a tie is rounded up), with a model confidence of 1 or 0, the ends of the range the code clamps it to.  `TeacherTurn` is
`execute_session_inner` with its handlers, run by several executions for one learner.

| TLA+ | code |
|---|---|
| `log` | `teacher_session_events`: section, status of the evaluation, proposal |
| `evidence`, `snapshot` | `topic_evidence`, `mastery_snapshots` |
| `debt` | `learning_debt`, counted by section and kind |
| `held`, `task`, `goal`, `update` | locals: plan row, pending task, what the handler does, the `MasteryUpdate` |
| `Start`, `LoadContext`, `ResolveTask`, `Decide`, `Answer` | steps 1 to 6 of `execute_session_inner`, the choice of the handler and, in `NavigationGoals` and `EventGoal`, the handlers' branches |
| `Owe`, `EnsureAgain`, `AdvanceStage`, `MoveToStage`, `MoveToUnknown` | the transactions of `_handle_navigation` and `_handle_non_reply_event` |
| `Evaluate`, `Persist` | `_handle_task_answer`: the read of the score and the transaction that writes evidence and snapshot |
| `Record`, `Finish` | `_record_session_event`, `build_plan_payload` |
| `Raise`, `Retry`, `GiveUp` | an LLM call, a transaction or the process fails; the Celery retry, or none |

An action is one transaction, with the LLM calls before it as choices: the intent, the status of an answer, a proposal, the section a
learner is understood to name - which may be none of the plan.  `Persist` is one atomic step because its transaction begins with an upsert of the learner's
profile, whose row lock orders all such transactions of a learner; the score it builds on was read in an
earlier one (`Evaluate`).  `seen`, `gains` (what all evidence of a section has credited) and `lost` are history.  Left out: lessons and section understandings (caches; the task
an understanding names is a choice in `Tasks`), the summaries handed to prompts, and memory synthesis, whose exceptions are swallowed.
Under `PlanPc` and `PlanAsked` every step of an execution is a step of a turn in `PlanProgress`, or changes nothing there.

### LearnerMemory

`events` is `teacher_session_events`; a turn reads `history` and `memory` when it starts (`StartTurn`), records its event
(`RecordEvent`) and hands both to a task (`EnqueueSynthesis`, the end of `execute_session_inner`), which decides by `ShouldRun`
(`BeginSynthesis`), asks the model, replaces the row (`StoreSynthesis`) or ends without a trace (`SynthesisLost`: every exception is caught and the
message was acknowledged when it started).  A memory is the set of turns it was told of, through the history or the memory in its prompt; `overlap`, `forgotten`, `since` and
`gaps` are history for the properties: the learner turns ended since a *reply* last triggered a synthesis, and the values this had when replies did; a synthesis that a start triggers resets nothing.
`MemoryForgetsOnlyByOverlap`: what a memory told of is lost only where another turn or task was open when a turn started.

### LearnerProjection

`snapshot`, `evidence`, `progress` are `mastery_snapshots`, `topic_evidence` and `topic_progress`.  Evaluations lock the profile row and write
all three in one transaction; a refresh (`refresh_projection`) reads the snapshots and upserts their decayed scores row by row,
each upsert holding its row to the commit, and a deadlocked refresh is aborted.  Then the adaptation context is built from two more
reads.  Scores are counted in twentieths and decay in whole half lives; what a refresh still has to upsert is a set of items, of which it takes the one that is
`Before` all others (the `ORDER BY` of `list_mastery_snapshots`); evidence has its number in place of its time.  `DeadlockNeedsNewEvidence`: two refreshes block each other only over an evaluation committed between their reads.
`ProgressBehindOnlyWhenRaced`: a row is behind its snapshot only if a refresh was under way when the evaluation committed.  `ContextConsistent`:
weak, strong and counted sections of a context agree with each other.

### SectionUnderstanding and LessonCache

One section whose source (`sourceVersion`) is replaced by indexing while turns read it.  `SectionUnderstanding` is the look-up by source hash
(`Reuse`, `FindNone`), the model's answer, `Normalize` (`section_coverage.py`, by family of section), the fallback, the artifact row and `SelectTask`.
`UnderstandingHolds`: a cached understanding is exactly what was stored (normalising it again changes nothing), none has the flaws that `IssueFlags` looks for and
normalisation is there to remove, and a task claims to be verifiable only with something to verify against.  A stored payload always validates here; that the code computes one anew that does not is left out.  `LessonCache` is
`get_or_generate_lesson_with_meta`: `indexed` is the version of the section in Qdrant, `cache` the rows of `lesson_cache` per stage signal, `lessons` the locals of
the turns that ask.  `ResolveSource` reads the section, `CacheHit` and `CacheMiss` are the look-up and `IsValid`, `Generate` the call of the model, `Upsert` the row, and
`GoWithout` whatever raises, which the handlers catch.  Tables and figures go through the model as tokens (`Placeholders`) and are put back (`WithBlocks`); a
text is the set of tokens in it and whether there is prose, since the order of blocks is not checked.
`ServedLessonIsOfItsSource`: whichever learners' turns write the row, a served lesson is of the source and stage signal its turn has
read, and shows blocks of that source only.

### ContentChunks, ContentIndex and PlanTemplate

`ContentChunks` takes a document block by block through `split_markdown_into_chunks`: `currentBlocks` and `currentHeading` are its locals, `ReadHeading`, `ReadAlone`, `ReadProse`
and `FlushRest` its branches.  An element carries its tokens, its alphanumeric characters and the features the parser asks for; the running count `current_tokens` is `Tokens`
of the group.  `ChunksHoldDocument`: every block is offered to a chunk or dropped for want of signal, and a chunk of several blocks keeps within the target, or
is shorter than target and overlap together, and in reading order.  `ContentIndex` runs several indexers over a file that is replaced under them: hash, look at the collections, read, batches
of parents and children, the fingerprint last, a crash anywhere; a run takes the documents that are left in `todo` in the order of the file.  `claim` and `overlapped` are history:
what a stored fingerprint promises, and the runs that wrote beside others.  `FingerprintIsEarned`: a stored fingerprint means that
everything of its revision is in the collections, unless the index was torn since a run last got through: two runs wrote at once, the file changed between hashing and reading, or a run
broke off after it had begun to write.  In the last case the code keeps the old fingerprint over a torn index (section 4).  `RecreateIsExact`: after a run with `recreate` there is nothing else.

`PlanTemplate` is `build_hierarchical_plan`, `normalize_prerequisite_graph` with `apply_prerequisite_graph`, and `annotate_plan_tree`.

| TLA+ | code |
|---|---|
| `toc`, `tree`, `root` | the table of contents and `plan_tree`; nodes have numbers, those of a book as they stand in it, those of a plan in the order `walk` makes them |
| `targets` | `stage_targets` |
| `building` | the calls of `walk` under way, the innermost last: children left, inherited module, nodes made |
| `VisitStage`, `VisitNothing`, `VisitGroup`, `LeaveGroup`, `BuildPlan` | the branches and the return of `walk`, and of the function around it |
| `graph`, `ApplyGraph` | the generated graph, cleaned (`Requirements`, `FirstPlaces`) and written into list and tree |
| `standing`, `summing`, `view` | the learner's counters, the calls of the second walk, the fields it adds to the nodes |
| `ShowProgress`, `AnnotateStage`, `OpenGroup`, `CloseGroup`, `FinishView` | the branches and the return of that walk |

Both walks are recursive functions over nested dictionaries in the code.  Here they are stacks of calls over numbered nodes, one action per branch
of a call: nothing but a walk can run meanwhile, but an invariant can say what a call has done *so far*, and be proved.
`covers` is history: which stages of the list were made below a node.  A flag is 0 or 1.  The average of the mastery is left out.  `PlanFitsBook` is
`StagesMatchTree` (read from left to right the leaves of the tree are the stages of the list, each once and with the same fields), `PrerequisitesComeFirst` (of
a graph however wrong, a stage requires earlier stages only, and keeps the first three valid ones it was given) and `ProgressAddsUp` (every node
says of the stages below it what the learner's counters say).

### Embedding and GroundedAnswer

`Embedding` is the client of the embedding service: batches with retries, one text at a time when a batch fails, halves of a text
that is refused as too long, and `embed_query` with its bounded memory cache and Redis.  A vector is the span of words it was made of, `todo` and
`spans` are the recursion of `_embed_text_no_truncation` as a stack and what it has collected.  The loop around it that cuts a call's texts into batches of `batch_size` is left out: a call is one batch.  `NothingTruncated`: what a call returns begins with the first word of the first text, ends
with the last one of the last, and every span goes on where the one before it ends.  `GroundedAnswer` is a question's way through session look-up, retrieval with
`_select_with_mmr` (`MmrPicks`: each pick the best of the rest, the first of equals; points always have vectors, so its fallback for missing ones, `retriever.py:74-75`, is left out), the judgement of the evidence, one rewrite that is kept only if it gains enough, generation and the
recorded interaction.  `GroundedInSources`: citations are among the sources of the last search, and no answer is given on weak
evidence.  That a search returns a point once and the best first, which the thresholds rest on, is Qdrant's promise and an assumption (`IsSearch`).
`Numbering` holds what this module, `FrontendSession` and `SectionUnderstanding` need: the n-th of what a filter left of a list, and all of it.

### AuthSessions

`account`, `session`, `token`, `attempts` are the tables of `app/auth` and the limiter's keys in Redis and in process memory.  A request is a sequence of
its database calls; writing transactions are one action because `login` and `confirm_password_reset` both update the learner's row before they
commit.  `SessionsAreEarned`: an address is signed up once, and a session that authenticates was opened after the last reset of the
password.  `AttemptsBounded`: a key collects at most its limit plus the requests that overlapped, once more for each time Redis is lost or comes back.

### FrontendSession

| TLA+ | code |
|---|---|
| `auth`, `ready` | the learner of the auth query, `readiness.canInteract` |
| `changed`, `Effects` | dependencies changed by a rendering; the effects of `useRequestGuards` and `useTutorSession` in their order |
| `guard` | `learnerIdRef`, `requestVersionRef` |
| `loading`, `pending`, `retryAction`, `canRetry`, `historyLoaded` | state and refs of the hook |
| `transcript`, `applied` | the answers of `useTranscript`, the one `useSessionProgress` was applied to |
| `Run` | `runAction`, with `StartSession`, `Send`, `RetryLast` as its callers |
| `ResultArrives`, `ErrorArrives`, `HistoryArrives` | the continuations after an await |
| `serverTurns`, `Key` | the learners' turns on the server, under the key of a request without `x-request-id` |

`SessionShowsItsLearner`: once the effects of a login have run, the screen holds answers to this learner, received or restored since this login;
the section the next message is sent for is that of the last answer shown; a retry makes no turn of its own.  The tab is
one: that another tab changes the cookie under it is left out.

### MCChatTurn, MCTurnWait, MCPlanProgress, MCTeacherTurn, MCServices

Instances for TLC; `MCChatTurn` and `MCTeacherTurn` add symmetry sets (handlers, workers and executions are interchangeable; symmetry is used only
by runs without liveness properties).  `MCServices` holds the modules from `LearnerMemory` to `FrontendSession`, which share no state: each models what it needs of its
neighbours itself (a reindexing, a turn), and checks what they assume of their constants.  A behaviour picks one of them in `Init` and runs it, the others
staying in one initial state (it extends them, so that run and theorems name the same properties); TLC explores the union of the state spaces, not their product.  Actors of a kind, passwords and learners are interchangeable, so the first to begin is always the
first by name (`InOrder`): this leaves one of every set of behaviours that differ in names only, and costs less here than a symmetry set, under which TLC
would permute every state of every service.

## 4. What the runs show

| run | instance | shows |
|---|---|---|
| `turn` | 1 key, 3 requests, 2 workers, 1 retry, all failures, symmetry | `RowsAgree`; `OneWorkerPerTurn`; `RepetitionFollowsFailure`: an unflagged turn is run again, even in part, only after every failure before was recorded, and never once it has a result; `AnswersAgree`; `IndInv`, the invariant of the proofs, types included; `ImplementsLifecycle` |
| `turn_live` | 1 key, 2 requests, 2 workers, 2 retries; API crash, broker and engine failures | `NoTaskLost`; `PublishedTurnSettles`: a published turn becomes completed or failed for good |
| `worker_restart` | a worker may crash | violated: README line 250, "Tasks survive worker restarts" |
| `outbox` | the API may crash | violated: README line 262, "Task delivery is guaranteed by the transactional outbox" |
| `duplicate` | 3 requests, 1 worker, engine failures | violated: README line 238, duplicates "return the cached result without re-execution" |
| `wait` | deadline 5, poll 2, clock to 9, 1 retry, Redis up or down and failing | `StreamMissesOnlyLastPoll`, `SyncPollsToTheEnd`, `SyncHearsNotice`, `EveryWaiterAnswers` |
| `wait_race` | deadline 3, poll 1, Redis never fails | violated: `runtime.py:552`, "covers race where worker finishes before we subscribe" |
| `plan` | 2 turns, plans of 2 and 3 sections | `ContextInPlan`, `CountFollowsPosition`, `ProgressIsEarned`, `IndInv` (types included), `MovingOnFinishes` |
| `teacher` | 2 executions, 2 requests, 1 raise, plan of 2 sections with an exercise and a checkpoint, window 1, symmetry | `SnapshotMatchesEvidence`, `MasteryIsEarned`, `AnswersAccountedFor`, `AnsweredStaysAnswered`, `SkippedWorkIsOwed`, `ImplementsPlanProgress` |
| `penalty` | 1 execution, 3 requests, window 3 | violated: README line 185, attempt penalty "applied only when `status = correct`" |
| `services` | eleven small instances, one per behaviour | the properties listed with the modules above |
| `memory_sync` | turns one after the other, window 4, interval 2, 7 turns | violated: README line 140, memory synthesis "every N learner turns" |

Bounds.  Turns share no state but the workers, so one key shows every interaction within a turn; three requests are the fewest
that give one request that publishes, one that publishes again and one that resubmits after a failure; two workers
are what mutual exclusion needs; one retry already gives a delivery after a failure, two give a
retry that fails after a success elsewhere.  With one retry an unflagged turn does get a second run, so what `RepetitionFollowsFailure` allows occurs.  The proofs cover every other size.  In `wait` the deadline is not a multiple of the poll interval, so the last
poll overshoots; the clock goes to deadline plus two polls, by when both waiters have ended.  A failing pubsub read of the stream, which
the code repeats without a pause, is modelled at most once per tick.

In `plan` two turns are enough for one to overwrite the other, and plans of 2 and 3 sections let the template shrink and grow;
the counter `advances` saturates at `Cap`, the longest plan.  In `teacher` two requests and one retry make three runs of the engine, overlapping or not:
a window of one event then already lets an answer drop out of it, where the code looks at 20.

In `services` each instance is the smallest in which its hazards happen: two indexers, two revisions of two documents and batches of two, so that a batch
fills within a document and a run ends with one that is not full; documents of at most four elements against a target of four tokens, so that a block
fits, fills and exceeds a chunk; texts of up to five words for a provider that takes two, so that halves are halved again; three requests of one
address, a limit of one attempt and one loss or return of Redis; three memory turns with a window and an interval of one; two refreshes and an evaluation over three sections; two
turns and two versions for the caches; one login, logout and login again with two requests in the tab; books of four leaves, with and without ids, modules and repeated ids, beside and inside
a group, a single leaf, and nested groups of which one ends empty, with graphs that hold cycles, unknown sections and repetitions.  `services` checks one million states.  In `memory_sync` a window of four
events and an interval of two stand for ten and five; `SpecMemoryInTurn` lets turns follow one another, which is the case the README speaks of.
Up to four recorded events every reply triggers where it should; the violation is a turn that reads its history after a fifth, when an event has left the window: two replies in a row trigger.

Deadlock is not checked because the systems really stop: when every request was answered and every message consumed, nothing is left to do.

Fairness.  `FairSpec` of `ChatTurn` is weak fairness of each handler's and each worker's own steps: asyncio and Celery run what can run.
`Submit`, `CallLost` and `WorkerCrash` are not fair: no client has to come and nothing has to crash.  Weak fairness of a worker as a whole is enough for
`Receive`: while a message waits an idle worker can take it, and if another takes it first it is being handled.  `FairSpec` of `TurnWait` is weak fairness of the two waiters and of the
clock; the turn may stand still for ever.  `FairSpec` of `PlanProgress` is weak fairness of a running turn's own steps; that the learner comes back, moves on
or that nothing dies is not assumed but a hypothesis of `MovingOnFinishes`.

Findings.  (1) Messages are acknowledged when a task starts and a running job answers "busy" for ever, so a worker that dies after its claim strands the turn.
(2) Nothing but a resubmission publishes a pending event.  (3) A turn that failed is executed inline without a claim while
its Celery retry is pending: two answers for one key.  (4) A turn completed between the initial check and
the subscription is waited for until the deadline and answered as "still in progress", although
it is completed.  (5) The penalty for repeated attempts is applied to partly correct answers, too. (6) The learner turns that are
compared with the interval of memory synthesis are those among the last ten events, a number that may stand still once the window is full: then each of two
replies in a row triggers a synthesis.
In all six the code and the quoted text disagree; the properties that do hold (above) say what is left: what is repeated is repeated after a recorded
failure or flagged, rows always agree, and without those crashes nothing is lost.

Seen while modelling, and not counted as findings because no text of the repository says otherwise, or because it is outside what is modelled:

* Frontend: a turn that is pending when the page is reloaded shows "still processing" for as long as the page stays: nothing asks for it
  again (`useTutorSession.ts:157`), and with no completed turn it is not mentioned at all.  An error of a request made before a logout appears in the next
  learner's transcript, with a retry button that submits the earlier learner's message for the new one; its answer is dropped and the
  status stays.  `loading` is not reset on a change of the learner.  A history that arrives late replaces answers shown meanwhile.
* Authentication: two confirmations of one token may both pass; a login that verified the old password may open its session after the reset.
* Retries: a run that raises has committed part of its work by then, and its retry repeats that part on a turn that is not flagged: an answer is
  evaluated and credited twice (`runtime.py:786`), a plan is advanced twice (`runtime.py:986`).  `RepetitionFollowsFailure` bounds this by the failures
  recorded; in `TeacherTurn` the second credit and the second advance are steps like the first, which no property there forbids.
* Plan: of two overlapping requests to move on the second advances past a section nobody was shown, and owes the one before (`service.py:145`).
* Memory: a synthesis that fails is lost (`runtime.py:208`).  With a window that is full and a count that is no multiple of the interval, no reply triggers one.
* Content: a run that is let through by `--recreate`, `--force` or another revision of the file and breaks off after it has begun to write leaves the old
  fingerprint over a torn index, which a later run of the old file skips.  Consecutive headings, and a heading at the end, give chunks of overlap only, and overlap is carried under the next heading's
  title; `README.md:370` has readiness answer 503 until indexing completes, but a collection that is not empty counts as ready.
* Lessons: the key of a lesson has no learner, so the adaptation brief of the first learner is part of what the others read.  Placeholders are restored
  before the lesson is sanitised, so blocks meant to be immutable are sanitised too.
* Interactions: two concurrent look-ups may create two sessions of one learner (`interaction_repository.py:17`).
* Teacher: evaluations carry no task, so those of any item of a section count for its current task.  `fallback_checkpoint_evaluation` and
  `build_task_teacher_action` have no caller.  No session-end event exists for memory synthesis, and no code sets `SessionRecord.ended_at`.

## 5. What is proved

Each theorem holds for every value of the constants that satisfies the named assumptions; the assumptions only give the constants their types, except where said.

### ChatTurnProofs

For every set of keys, requests and workers, every retry limit and every set of failures, from
`FaultsAssumption`, `RetriesAssumption` and `NoKeyAssumption`:

* `TypeCorrect`, `RowsAlwaysAgree`, `MutualExclusion`, `RepetitionAlwaysFollowsFailure`, `AnswersAlwaysAgree` - the invariants of run `turn`;
* `LifecycleImplemented` - the refinement of `TurnLifecycle`;
* `CompletedAlwaysFinal` - in no step does an unflagged completed turn change its state or result, or run the engine again;
* `NoTaskEverLost` - `NoTaskLost` of run `turn_live`, under `Reliable`: no worker crashes and no transaction of the database fails; API handlers may die, the broker
  may refuse and the engine may raise.  Without `Reliable` it is false, which run `worker_restart` shows.

The argument.  None of the properties is inductive alone.  `IndInv` adds to them: `NothingBeforeBundle` (nobody works on, and no
message names, a turn without rows - or a claim could create a running job out of nothing), `ClaimIsLock` (whoever holds a turn
has its job running, or it was completed under it by an inline execution, which leaves the flag), `InlineIsFlagged` (the flag is
set before an inline execution starts) and `RunsAreRecorded` (on an unflagged turn: where no attempt is under way, or one has just claimed, every run so far has its failure
recorded; the worker that ended the last run holds its number as the result; and a result stands on a completed row only).  Four lemmas sum the actions up: `TableWrites` (what a step may write to the tables and what its actor then knows),
`HistoryWrites` (who may run the engine or record a failure), `CallMoves` and `WorkerMoves`; `HoldersClaim` says that a turn comes to be held only by a claim that found it free.  Then there is one lemma per conjunct.
The refinement needs `IndInv` only for the guards of the abstract actions.  `CompletedAlwaysFinal` says more than the lifecycle does, that no work is spent on such a turn: a holder of
it would have its job running (`ClaimIsLock`), which contradicts `RowsAgree`, and an inline execution would have flagged it (`InlineIsFlagged`).  `NoTaskLost` needs `SentIsHanded` beside `IndInv`: a handler about to record a turn as queued has
sent its task, which is still in the broker or was taken by a worker that has left its mark on the row.

### PlanProgressProofs

For every set of turns and every set of plan sizes, from `TotalsAssumption` and `CapAssumption`:
`TypeCorrect`, `ContextAlwaysInPlan`, `CountAlwaysFollows`, `ProgressAlwaysEarned`.  `CountFollowsPosition` looks only at the stored row and at
contexts in use; inductive is that *every* row, one read before a normalisation included, is `Sound`: counted up to the
position and, unless the plan ever grew, completed only when all is counted.  After a growth a completed row may count one section more than its
position, which is why the bound there is `index + 1`.  `IdleHoldsNothing` says a rebuild meets no row read from the old plan.

### TurnWaitProofs

For every deadline, poll interval and retry limit, with and without failing Redis, from `TimesAssumption`, `WaitRetriesAssumption` and
`RedisFaultsAssumption`: `TypeCorrect`, `StreamAlwaysPolls`, `SyncAlwaysLooksLast`, `NoticeAlwaysHeard`.  `IndInv` has, beside the types, `TurnIsTimed` (a settled turn has its
time, and a notification follows completion), `StreamWatches` (the stream's timer is at most one poll interval ahead and was set when the turn was not settled), `SyncWatches`
(who has no subscription polls, who has one listens up to the deadline) and `NoticeIsKept` (a notification in time waits in the inbox, is being followed
up, or was answered).

Two more theorems tie the module to the turn it abstracts from.  `WaitedTurnLives`: every step its turn takes is a step of `TurnLifecycle` or none, so the waiters are analysed
against turns that move as those of `ChatTurn` do.  `ResultsAlwaysTrue`: who was given a result was given that of a completed turn, and it stays completed; only a "failed" may
be overtaken by a retry.

### TeacherTurnProofs

For any number of executions, requests, retries, plan sections, tasks and any window, from the assumptions of `TeacherTurn` on its constants: `TypeCorrect`,
`SnapshotAlwaysMatches`, `MasteryAlwaysEarned`, `AnswersAlwaysAccountedFor`, `AnsweredAlwaysStays`, `SkippedAlwaysOwed` - all invariants of run `teacher` - and `PlanProgressImplemented`: what
executions do to the plan row, raises and retries included, is a behaviour of `PlanProgress`.  `PlanRowAlwaysSound` draws the conclusion: the three invariants of `PlanProgress` hold of the
row of `TeacherTurn`, under whole executions.

`IndInv` joins the properties with what an execution knows between its transactions: `Consistent` (the task is one of the section in `held` until the plan is written, an answer
is evaluated only for a task, the handler chosen is the one the request asked for), `PlanFits`, `ContextLoaded`, `UpdatesEarned` (a waiting update was computed from a score that had been earned by then,
so that the sum of gains grows by at least what the score may), `UnansweredWhenSeen` (when an execution resolved its task, no correct answer was in its window) and
`Finite`.  `AnsweredStaysAnswered` speaks of two events of the log; the second one is written by an execution
of which `UnansweredWhenSeen` says what it had seen.

### AuthSessionsProofs

For any sets of requests, emails and passwords, any limit, window and lifetimes and any number of changes between Redis and memory, from `AuthAssumption`:
`TypeCorrect`, `SessionsAlwaysEarned`, `AttemptsAlwaysBounded`.  Sessions need `RequestsProgress` (beyond its first read a login, reset or
confirmation knows that the account exists), `MailedExist` and `SessionsOwned` (a session is of the request that opened it and, unless revoked, not older than the last
reset).  `AttemptsBounded` is not inductive: a request that has passed the check and not hit yet may still push the counter up.  `KeyKeeps` counts both: what
the store in use has collected *plus* the requests on their way to it stays within the bound; a change of the store adds one round of them, which `switches + 1` pays for.

### ContentProofs

About filtered lists (`Numbering`): the n-th element of what a filter leaves is the one with n - 1 kept places before it (`NthIsOne`, `NthOfCount`), and what
is kept of all, of none and of a set of places (`KeptWhole`, `KeptNone`, `KeptFields`).  They follow from the least number of a set and need no induction over lists; `ReadingProofs` rests on them, too.

About `ContentIndex`, for any documents, revisions, batch size, numbers of runs, edits and indexers, from `CorpusShape`: `IndexInvariance`, `IndexTypes`, `FingerprintAlwaysEarned`, `RecreateAlwaysExact`.  `IndexInv` says of every
run what it is sure of by itself (`Progresses`: collections are opened before the first document with chunks is taken, nothing is left to take or write at the end), that two runs that write know of
each other (`WritersOverlap`), that a run that writes alone finds in the collections or in its buffers all documents it has taken (`Undisturbed`), and that as long as anyone
writes nothing is claimed of the index (`TornWhileWriting`; except that a revision without any document to index is trivially there).

About `PlanTemplate`, for any tables of contents, graphs and standings, from `PlanAssumption` (nodes of a table come after their parent): `PlanInvariance`, `PlanAlwaysTyped`, `PlanAlwaysFitsBook`.
That a finished tree tells the order of the list says nothing of a walk half done.  `BuildInv` does: what a call has made, left to right, covers the stages from where it began to where the
call inside it began, or to the last stage made, without a gap (`InARow`).  When a call ends its group therefore covers what was made since it began.  `TreeInv` keeps every node so
(`NodeFits`), through the rewriting by `ApplyGraph`.  `SumInv` is the same for the second walk: what a call has counted are the completed stages, and the current one, up
to its next child (`SumFits`), its children left go on from there (`LeftFits`), and those it is done with are shown (`ChildrenShown`).  Sums are thereby
differences of `DoneBefore`, and the induction over the tree, which the provers cannot do, is the induction over the steps of the walk.  `PrerequisitesComeFirst` counts places of a
filtered list (`FirstPlaces`) with lemmas about cardinalities.

### LearnerProofs

About `LearnerMemory`, for any numbers of turns and any windows, from `MemoryAssumption`: `MemoryTypeCorrect`, `MemoryAlwaysForgetsOnlyByOverlap`.  Inductive is `AloneKnowsAll`: as
long as turns have not overlapped one is open at a time and has read everything the memory tells of.  That `sessionCount` is bounded needs a count of tasks (`SynthesesCounted`).

About `LearnerProjection`, for any plan, numbers of refreshes and evaluations, scores and decay settings, from `ProjectionAssumption`: `ProjectionTypeCorrect`, `DeadlockAlwaysNeedsNewEvidence`,
`ProgressAlwaysBehindOnlyWhenRaced`, `ContextAlwaysConsistent`.  That two refreshes from equal reads cannot cross is an argument about order: `FreshReads` (unless an evaluation came since, a
refresh has the rows as they are and has locked only rows that come before what is left) and `SameOrder` (of two refreshes with equal reads, what the one has locked and the other still wants
comes before all that the one still wants).  If each waited for the other, two rows would each come before the other (`NoCrossing`).  `ProgressBehindOnlyWhenRaced`
needs `WritesCurrent` (what a refresh has written or will write is of the last evaluation unless it was raced), `ContextConsistent` needs
`OneViewEach` and `EvidenceFirst`, because views and evidence are read in different transactions.

### ReadingProofs

What a learner reads comes through the tab, the caches and the retrieval; it is made of chunks.

* `FrontendSession`, for any learners, sections and messages and any numbers of logins, clicks and changes of readiness, from `TabAssumption`: `TabTypes`, `TabShowsItsLearner`.
  Nothing on the screen says of itself that it is not late; `TabInv` says it of what is under way: `ActionsKnow` (a request of an earlier login has an earlier version than the guards have, or
  will have after the pending effects, and its key is that of what was asked), `LoadsFollow` (a load lives no longer than its login) and `GuardFollows`.
* `LessonCache`, for any blocks, signals and turns, from `SourcesAssumption`: `LessonsAreOfTheirSource`.  `CacheHolds` says of every row that it is a lesson
  for the signal of its key, of whatever source; that this source is the one the turn has read is left to `IsValid`, and `TurnsHold` keeps it through the write.
* `GroundedAnswer`, for any questions, searches and thresholds, from `RetrievalSettings`: `AnswersAreGrounded`.  `EvidenceHolds`: from a search on, chunks, best score and judgement of a question belong
  together, through an accepted or refused rewrite.  The judgement is made with the score of the best point found, the row keeps only the selection: that the best point is
  always the first one selected (`MmrPicks` with nothing chosen yet) is a lemma.
* `SectionUnderstanding`, for any items, turns, source versions and answers of the language model, from `UnderstandingAssumption`: `UnderstandingIsStableAndSound`.
  Most of it is about `Normalize`: for each family of sections its result is in `NormalForm` (references once, one checked context per item, a context for every task of
  a section of tasks, verifiable checkpoints only in a review), a normal form is left as it is, and has none of the flaws `IssueFlags` looks for.  The code's loops over lists are
  modelled by the places they keep (`Kept`), so that these are facts about sets of positions (`KeptFields`, `KeptWhole`) and need no induction over lists.
  `NormalStored` then carries it through the rows: a row that is found is what it was when it was stored, normalised or not.
* `ContentChunks`, for any documents, target, overlap and thresholds of signal, from `ChunkSettings`: `ChunksHoldTheirDocument`.  The budget is broken, if at all, when the overlap is put
  in front of the next block, which nobody compares with the target any more; `ChunksInv` therefore holds the group *being gathered* to it (`FitsBudget`, `InOrderBefore`), and
  `SeedFits` says what the overlap adds at most (`OverlapFits`) and why a block that does not stand alone still fits.  With no overlap the bound is the target itself.  Sums are counted
  (`Total`), so that one more block is a lemma about cardinalities (`TotalOfMore`) and not an induction.
* `Embedding`, for any texts, context length, retries and cache size, from `EmbeddingLimits`: `TextsEmbeddedWhole`.  `TilesSoFar`: what is embedded and what is still to be
  go on from each other, the first begins the texts and the last ends them; halving replaces a span by two that begin and end as it does.  The types carry the bound of
  the memory cache and that it holds no text twice.

### Only model-checked

* Liveness under fairness (`PublishedTurnSettles`, `EveryWaiterAnswers`) and the temporal property `MovingOnFinishes`: out of the prover's reach.
* `TypeOK` of `MCServices` as a whole: the types of each of its modules are proved one by one; that they hold together, with the other services at rest, is left to TLC.
* The six properties of the runs that expect a violation, which are false.

## 6. Not modelled

* Teacher engine (`engine.py`, `prompt_builder.py`, `schemas.py`): prompts, schemas and LLM calls keep no state; their outcome is a choice in
  every module that calls them.
* Configuration, logging, start-up and dependency wiring; database migrations; the QA scripts under `scripts/`.
* The mode without durable chat, one call of the engine; the planner and learner-memory artifacts of
  `artifacts.py`, which every caller switches off.
* Hashing and signatures, mail transport, markdown parsing and vector search: external, a choice or an identity in the modules that use them.
* The rest of the frontend: login forms, rendering, the learner's own messages in the transcript.

## 7. Running

`tlc -config MCChatTurn.cfg MCChatTurn`, and likewise for the other configurations with the module named in `PROJECT.json`;
`tlapm M.tla` for `M` any of `ChatTurnProofs`, `PlanProgressProofs`, `TurnWaitProofs`, `TeacherTurnProofs`, `AuthSessionsProofs`, `ContentProofs`, `LearnerProofs`, `ReadingProofs`.
