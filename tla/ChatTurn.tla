------------------------------ MODULE ChatTurn ------------------------------
(***************************************************************************)
(* The durable chat turn: how a POST /teacher/session request becomes a    *)
(* teacher_turns row, a teacher_jobs row and an outbox event, how the      *)
(* event reaches a Celery worker through RabbitMQ, and how the answer gets *)
(* back to the row (src/app/platform/chat/repository.py, .../chat/tasks.py *)
(* and the dispatch part of src/app/teacher/runtime.py).                   *)
(*                                                                         *)
(* One call is one HTTP request being served by the API; several calls may *)
(* carry the same request key (a client that submits again).  One worker   *)
(* is one Celery pool process.  Every action is one database transaction,  *)
(* one broker operation or one run of the teacher engine, so every await   *)
(* of the handlers is a point where others may step in.                    *)
(*                                                                         *)
(* A run of the engine commits evidence and plan progress before its last  *)
(* LLM calls, which may raise: a run that breaks off has done part of its  *)
(* work for good, so it counts as a run like one that ends.                *)
(***************************************************************************)
EXTENDS Naturals

CONSTANTS
    Keys,        \* request keys, one chat turn each
    Calls,       \* HTTP requests, each submitted at most once
    Workers,     \* Celery worker processes
    MaxRetries,  \* max_retries of the Celery task (3 in the code)
    Faults,      \* the kinds of failure that may happen
    NoKey        \* "no turn", for an idle call or worker

FaultKinds == {"api_crash", "worker_crash", "broker", "database", "engine"}

ASSUME FaultsAssumption  == Faults \subseteq FaultKinds
ASSUME RetriesAssumption == MaxRetries \in Nat
ASSUME NoKeyAssumption   == NoKey \notin Keys

VARIABLES
    turnState,      \* teacher_turns.state, "none" where there is no row
    turnResult,     \* teacher_turns.final_result_json
    degraded,       \* teacher_turns.degraded_execution
    jobState,       \* teacher_jobs.state
    jobResult,      \* teacher_job_results.result_payload_json
    outbox,         \* outbox_events: none, pending or published
    queue,          \* RabbitMQ: messages of a turn, by Celery retry count
    callPc, callKey, callResult, callReply,            \* the API handlers
    workerPc, workerKey, workerAttempt, workerResult,  \* the Celery workers
    runs,           \* history: runs of the engine on a turn, whole or broken off
    failures        \* history: how often a failure was recorded on its row

tables     == <<turnState, turnResult, degraded, jobState, jobResult, outbox>>
callVars   == <<callPc, callKey, callResult, callReply>>
workerVars == <<workerPc, workerKey, workerAttempt, workerResult>>
history    == <<runs, failures>>
vars       == <<tables, queue, callVars, workerVars, history>>

-----------------------------------------------------------------------------
(* A result is numbered by the run of the engine that produced it; 0 is    *)
(* the NULL of final_result_json.                                          *)

NoResult == 0

TurnStates == {"none", "accepted", "queued", "running", "completed", "failed"}

Attempts == 0 .. MaxRetries

CallPcs == {"idle", "bundle", "insert", "list", "enqueue", "markPublished",
            "markQueued", "degrade", "inline", "complete", "wait", "done"}

Replies == {"none", "result", "failed", "timeout", "error"}

WorkerPcs == {"idle", "claim", "execute", "complete", "markFailed", "retry"}

Init ==
    /\ turnState     = [k \in Keys |-> "none"]
    /\ turnResult    = [k \in Keys |-> NoResult]
    /\ degraded      = [k \in Keys |-> FALSE]
    /\ jobState      = [k \in Keys |-> "none"]
    /\ jobResult     = [k \in Keys |-> NoResult]
    /\ outbox        = [k \in Keys |-> "none"]
    /\ queue         = [k \in Keys |-> [a \in Attempts |-> 0]]
    /\ callPc        = [c \in Calls |-> "idle"]
    /\ callKey       = [c \in Calls |-> NoKey]
    /\ callResult    = [c \in Calls |-> NoResult]
    /\ callReply     = [c \in Calls |-> "none"]
    /\ workerPc      = [w \in Workers |-> "idle"]
    /\ workerKey     = [w \in Workers |-> NoKey]
    /\ workerAttempt = [w \in Workers |-> 0]
    /\ workerResult  = [w \in Workers |-> NoResult]
    /\ runs          = [k \in Keys |-> 0]
    /\ failures      = [k \in Keys |-> 0]

-----------------------------------------------------------------------------
(* The transactions of DurableChatRepository, as the new values of the     *)
(* tables they write.                                                      *)

\* The INSERT half of create_chat_turn_bundle: three rows, one commit.
InsertBundle(k) ==
    /\ turnState' = [turnState EXCEPT ![k] = "accepted"]
    /\ jobState'  = [jobState EXCEPT ![k] = "accepted"]
    /\ outbox'    = [outbox EXCEPT ![k] = "pending"]
    /\ UNCHANGED <<turnResult, degraded, jobResult>>

\* (mutant: only the UPDATE of the job keeps its guard.)
MarkTurnQueuedHalfGuarded(k) ==
    /\ turnState' = [turnState EXCEPT ![k] = "queued"]
    /\ jobState'  = [jobState EXCEPT ![k] = IF @ = "accepted" THEN "queued" ELSE @]
    /\ UNCHANGED <<turnResult, degraded, jobResult, outbox>>

\* (mutant: neither UPDATE is guarded.)
MarkTurnQueuedUnguarded(k) ==
    /\ turnState' = [turnState EXCEPT ![k] = "queued"]
    /\ jobState'  = [jobState EXCEPT ![k] = "queued"]
    /\ UNCHANGED <<turnResult, degraded, jobResult, outbox>>

\* mark_chat_turn_queued: each UPDATE is guarded by state = 'accepted'.
MarkTurnQueued(k) ==
    /\ turnState' = [turnState EXCEPT ![k] = IF @ = "accepted" THEN "queued" ELSE @]
    /\ jobState'  = [jobState EXCEPT ![k] = IF @ = "accepted" THEN "queued" ELSE @]
    /\ UNCHANGED <<turnResult, degraded, jobResult, outbox>>

\* (mutant: the claim looks only at whether a worker holds the job.)
ClaimNeverCompleted(k) == FALSE

\* What claim_chat_turn_execution finds under its row locks: an answer ...
ClaimIsCompleted(k) ==
    \/ turnState[k] = "completed" /\ turnResult[k] # NoResult
    \/ jobState[k] = "completed"

\* (mutant: the claim does not look for a running attempt.)
ClaimNeverBusy(k) == FALSE

\* ... or another attempt.
ClaimIsBusy(k) == jobState[k] = "running"

ClaimTurn(k) ==
    /\ turnState' = [turnState EXCEPT ![k] = "running"]
    /\ jobState'  = [jobState EXCEPT ![k] = "running"]
    /\ UNCHANGED <<turnResult, degraded, jobResult, outbox>>

\* complete_chat_turn: no guard on the state it overwrites.
CompleteTurn(k, r) ==
    /\ turnState'  = [turnState EXCEPT ![k] = "completed"]
    /\ turnResult' = [turnResult EXCEPT ![k] = r]
    /\ jobState'   = [jobState EXCEPT ![k] = "completed"]
    /\ jobResult'  = [jobResult EXCEPT ![k] = r]
    /\ UNCHANGED <<degraded, outbox>>

\* mark_chat_turn_failed: no guard either, and the result stays.
MarkTurnFailed(k) ==
    /\ turnState' = [turnState EXCEPT ![k] = "failed"]
    /\ jobState'  = [jobState EXCEPT ![k] = "failed"]
    /\ UNCHANGED <<turnResult, degraded, jobResult, outbox>>

\* (mutant: inline execution is not flagged.)
MarkTurnNotDegraded(k) == UNCHANGED tables

\* mark_chat_turn_degraded.
MarkTurnDegraded(k) ==
    /\ degraded' = [degraded EXCEPT ![k] = TRUE]
    /\ UNCHANGED <<turnState, turnResult, jobState, jobResult, outbox>>

\* enqueue_teacher_session_task, or the republication of a Celery retry.
SendTask(k, a) == queue' = [queue EXCEPT ![k][a] = @ + 1]

-----------------------------------------------------------------------------
(* The API: dispatch_or_inline and _publish_session_turn.                  *)

CallGoes(c, pc) ==
    /\ callPc' = [callPc EXCEPT ![c] = pc]
    /\ UNCHANGED <<callKey, callResult, callReply>>

Reply(c, reply, r) ==
    /\ callPc'     = [callPc EXCEPT ![c] = "done"]
    /\ callReply'  = [callReply EXCEPT ![c] = reply]
    /\ callResult' = [callResult EXCEPT ![c] = r]
    /\ UNCHANGED callKey

\* A client posts a request whose derived key is k.
Submit(c, k) ==
    /\ callPc[c] = "idle"
    /\ callPc'  = [callPc EXCEPT ![c] = "bundle"]
    /\ callKey' = [callKey EXCEPT ![c] = k]
    /\ UNCHANGED <<tables, queue, callResult, callReply, workerVars, history>>

\* The SELECT of create_chat_turn_bundle, and the branch dispatch_or_inline
\* takes on the turn it returns.
ReadBundle(c) ==
    LET k == callKey[c] IN
    /\ callPc[c] = "bundle"
    /\ \/ turnState[k] = "none" /\ CallGoes(c, "insert")
       \/ /\ turnState[k] = "completed" /\ turnResult[k] # NoResult
          /\ Reply(c, "result", turnResult[k])
       \/ turnState[k] = "failed" /\ CallGoes(c, "degrade")
       \/ turnState[k] = "accepted" /\ CallGoes(c, "list")
       \/ turnState[k] \in {"queued", "running"} /\ CallGoes(c, "wait")
    /\ UNCHANGED <<tables, queue, workerVars, history>>

\* The INSERT of create_chat_turn_bundle; request_key is unique, so the later
\* of two concurrent inserts fails and the request ends with status 500.
CreateBundle(c) ==
    LET k == callKey[c] IN
    /\ callPc[c] = "insert"
    /\ \/ turnState[k] = "none" /\ InsertBundle(k) /\ CallGoes(c, "list")
       \/ turnState[k] # "none" /\ Reply(c, "error", NoResult) /\ UNCHANGED tables
    /\ UNCHANGED <<queue, workerVars, history>>

\* list_pending_outbox_events; none pending is "already_published".
ListPending(c) ==
    /\ callPc[c] = "list"
    /\ CallGoes(c, IF outbox[callKey[c]] = "pending" THEN "enqueue" ELSE "wait")
    /\ UNCHANGED <<tables, queue, workerVars, history>>

Enqueue(c) ==
    /\ callPc[c] = "enqueue"
    /\ SendTask(callKey[c], 0)
    /\ CallGoes(c, "markPublished")
    /\ UNCHANGED <<tables, workerVars, history>>

\* (mutant: the exception of send_task is swallowed.)
EnqueueErrorSwallowed(c) ==
    /\ "broker" \in Faults
    /\ callPc[c] = "enqueue"
    /\ CallGoes(c, "markPublished")
    /\ UNCHANGED <<tables, queue, workerVars, history>>

\* send_task raises: mark_outbox_event_failed leaves the event pending and the
\* turn is executed here.
EnqueueFails(c) ==
    /\ "broker" \in Faults
    /\ callPc[c] = "enqueue"
    /\ CallGoes(c, "degrade")
    /\ UNCHANGED <<tables, queue, workerVars, history>>

MarkPublished(c) ==
    /\ callPc[c] = "markPublished"
    /\ outbox' = [outbox EXCEPT ![callKey[c]] = "published"]
    /\ CallGoes(c, "markQueued")
    /\ UNCHANGED <<turnState, turnResult, degraded, jobState, jobResult>>
    /\ UNCHANGED <<queue, workerVars, history>>

MarkQueued(c) ==
    /\ callPc[c] = "markQueued"
    /\ MarkTurnQueued(callKey[c])
    /\ CallGoes(c, "wait")
    /\ UNCHANGED <<queue, workerVars, history>>

Degrade(c) ==
    /\ callPc[c] = "degrade"
    /\ MarkTurnDegraded(callKey[c])
    /\ CallGoes(c, "inline")
    /\ UNCHANGED <<queue, workerVars, history>>

\* A run of execute_session_inner on the turn is over, or has broken off after
\* none, some or all of its own transactions.
RunEnds(k) == runs' = [runs EXCEPT ![k] = @ + 1]

\* execute_session_inner in the API process, without a claim.
ExecuteInline(c) ==
    LET k == callKey[c] IN
    /\ callPc[c] = "inline"
    /\ RunEnds(k)
    /\ callPc'     = [callPc EXCEPT ![c] = "complete"]
    /\ callResult' = [callResult EXCEPT ![c] = runs[k] + 1]
    /\ UNCHANGED <<tables, queue, callKey, callReply, workerVars, failures>>

\* It raises: the request ends with an error and the rows of the turn are left
\* as they were, whatever the run had committed of its own.
ExecuteInlineFails(c) ==
    /\ "engine" \in Faults
    /\ callPc[c] = "inline"
    /\ RunEnds(callKey[c])
    /\ Reply(c, "error", NoResult)
    /\ UNCHANGED <<tables, queue, workerVars, failures>>

CompleteInline(c) ==
    /\ callPc[c] = "complete"
    /\ CompleteTurn(callKey[c], callResult[c])
    /\ Reply(c, "result", callResult[c])
    /\ UNCHANGED <<queue, workerVars, history>>

\* What a waiting request ends with; how it waits is module TurnWait.
WaitEnds(c) ==
    LET k == callKey[c] IN
    /\ callPc[c] = "wait"
    /\ \/ /\ turnState[k] = "completed" /\ turnResult[k] # NoResult
          /\ Reply(c, "result", turnResult[k])
       \/ turnState[k] = "failed" /\ Reply(c, "failed", NoResult)
       \/ Reply(c, "timeout", NoResult)
    /\ UNCHANGED <<tables, queue, workerVars, history>>

\* The API process dies, or its database transaction raises: the handler is
\* gone, with whatever it had not committed; an inline run breaks off.
CallLost(c) ==
    /\ Faults \cap {"api_crash", "database"} # {}
    /\ callPc[c] \notin {"idle", "done"}
    /\ IF callPc[c] = "inline" THEN RunEnds(callKey[c]) ELSE UNCHANGED runs
    /\ Reply(c, "error", NoResult)
    /\ UNCHANGED <<tables, queue, workerVars, failures>>

-----------------------------------------------------------------------------
(* The worker: the Celery task run_teacher_session.                        *)

WorkerGoes(w, pc) ==
    /\ workerPc' = [workerPc EXCEPT ![w] = pc]
    /\ UNCHANGED <<workerKey, workerAttempt, workerResult>>

WorkerIdles(w) ==
    /\ workerPc'      = [workerPc EXCEPT ![w] = "idle"]
    /\ workerKey'     = [workerKey EXCEPT ![w] = NoKey]
    /\ workerAttempt' = [workerAttempt EXCEPT ![w] = 0]
    /\ workerResult'  = [workerResult EXCEPT ![w] = NoResult]

\* Celery acknowledges the message as it starts the task (no acks_late).
Receive(w, k, a) ==
    /\ workerPc[w] = "idle"
    /\ queue[k][a] > 0
    /\ queue' = [queue EXCEPT ![k][a] = @ - 1]
    /\ workerPc'      = [workerPc EXCEPT ![w] = "claim"]
    /\ workerKey'     = [workerKey EXCEPT ![w] = k]
    /\ workerAttempt' = [workerAttempt EXCEPT ![w] = a]
    /\ UNCHANGED <<tables, callVars, workerResult, history>>

Claim(w) ==
    LET k == workerKey[w] IN
    /\ workerPc[w] = "claim"
    /\ \/ /\ ClaimIsCompleted(k) \/ ClaimIsBusy(k)
          /\ WorkerIdles(w)
          /\ UNCHANGED tables
       \/ /\ ~ClaimIsCompleted(k) /\ ~ClaimIsBusy(k)
          /\ ClaimTurn(k)
          /\ WorkerGoes(w, "execute")
    /\ UNCHANGED <<queue, callVars, history>>

Execute(w) ==
    LET k == workerKey[w] IN
    /\ workerPc[w] = "execute"
    /\ RunEnds(k)
    /\ workerPc'     = [workerPc EXCEPT ![w] = "complete"]
    /\ workerResult' = [workerResult EXCEPT ![w] = runs[k] + 1]
    /\ UNCHANGED <<tables, queue, callVars, workerKey, workerAttempt, failures>>

\* (mutant: a failed run is retried without being recorded as failed.)
ExecuteFailsUnrecorded(w) ==
    /\ "engine" \in Faults
    /\ workerPc[w] = "execute"
    /\ RunEnds(workerKey[w])
    /\ WorkerGoes(w, "retry")
    /\ UNCHANGED <<tables, queue, callVars, failures>>

\* It raises, anywhere between its own transactions.
ExecuteFails(w) ==
    /\ "engine" \in Faults
    /\ workerPc[w] = "execute"
    /\ RunEnds(workerKey[w])
    /\ WorkerGoes(w, "markFailed")
    /\ UNCHANGED <<tables, queue, callVars, failures>>

Complete(w) ==
    /\ workerPc[w] = "complete"
    /\ CompleteTurn(workerKey[w], workerResult[w])
    /\ WorkerIdles(w)
    /\ UNCHANGED <<queue, callVars, history>>

MarkFailed(w) ==
    /\ workerPc[w] = "markFailed"
    /\ MarkTurnFailed(workerKey[w])
    /\ failures' = [failures EXCEPT ![workerKey[w]] = @ + 1]
    /\ WorkerGoes(w, "retry")
    /\ UNCHANGED <<queue, callVars, runs>>

\* A transaction of the task raises: nothing is written and the task, like
\* after any exception, is retried.
TaskRaises(w) ==
    /\ "database" \in Faults
    /\ workerPc[w] \in {"claim", "complete", "markFailed"}
    /\ WorkerGoes(w, "retry")
    /\ UNCHANGED <<tables, queue, callVars, history>>

\* autoretry_for: the message is published again with one more retry, until
\* max_retries; Celery drops the task when the publication itself fails.
Retry(w) ==
    LET a == workerAttempt[w] IN
    /\ workerPc[w] = "retry"
    /\ \/ a < MaxRetries /\ SendTask(workerKey[w], a + 1)
       \/ (a = MaxRetries \/ "broker" \in Faults) /\ UNCHANGED queue
    /\ WorkerIdles(w)
    /\ UNCHANGED <<tables, callVars, history>>

\* The process dies and is restarted; its message was acknowledged already, and
\* a run under way breaks off.
WorkerCrash(w) ==
    /\ "worker_crash" \in Faults
    /\ workerPc[w] # "idle"
    /\ IF workerPc[w] = "execute" THEN RunEnds(workerKey[w]) ELSE UNCHANGED runs
    /\ WorkerIdles(w)
    /\ UNCHANGED <<tables, queue, callVars, failures>>

-----------------------------------------------------------------------------
CallStep(c) ==
    \/ ReadBundle(c) \/ CreateBundle(c)
    \/ ListPending(c) \/ Enqueue(c) \/ EnqueueFails(c)
    \/ MarkPublished(c) \/ MarkQueued(c)
    \/ Degrade(c) \/ ExecuteInline(c) \/ ExecuteInlineFails(c) \/ CompleteInline(c)
    \/ WaitEnds(c)

WorkerStep(w) ==
    \/ \E k \in Keys, a \in Attempts : Receive(w, k, a)
    \/ Claim(w) \/ Execute(w) \/ ExecuteFails(w)
    \/ Complete(w) \/ MarkFailed(w) \/ TaskRaises(w) \/ Retry(w)

Next ==
    \/ \E c \in Calls : \/ \E k \in Keys : Submit(c, k)
                        \/ CallStep(c)
                        \/ CallLost(c)
    \/ \E w \in Workers : WorkerStep(w) \/ WorkerCrash(w)

Spec == Init /\ [][Next]_vars

\* Handlers and workers that can go on do go on.  Nothing makes a client
\* submit, and nothing makes a process crash.
FairSpec == Spec /\ \A c \in Calls : WF_vars(CallStep(c))
                 /\ \A w \in Workers : WF_vars(WorkerStep(w))

-----------------------------------------------------------------------------
(* Properties.                                                             *)

\* Every row, message counter, handler and worker holds a value the code can
\* give it; only the idle have no turn.
TablesTypeOK ==
    /\ turnState \in [Keys -> TurnStates]
    /\ turnResult \in [Keys -> Nat]
    /\ degraded \in [Keys -> BOOLEAN]
    /\ jobState \in [Keys -> TurnStates]
    /\ jobResult \in [Keys -> Nat]
    /\ outbox \in [Keys -> {"none", "pending", "published"}]

CallsTypeOK ==
    /\ callPc \in [Calls -> CallPcs]
    /\ callKey \in [Calls -> Keys \cup {NoKey}]
    /\ callResult \in [Calls -> Nat]
    /\ callReply \in [Calls -> Replies]
    /\ \A c \in Calls : callPc[c] # "idle" => callKey[c] # NoKey

WorkersTypeOK ==
    /\ workerPc \in [Workers -> WorkerPcs]
    /\ workerKey \in [Workers -> Keys \cup {NoKey}]
    /\ workerAttempt \in [Workers -> Attempts]
    /\ workerResult \in [Workers -> Nat]
    /\ \A w \in Workers : workerPc[w] # "idle" => workerKey[w] # NoKey

TypeOK == /\ TablesTypeOK /\ CallsTypeOK /\ WorkersTypeOK
          /\ queue \in [Keys -> [Attempts -> Nat]]
          /\ runs \in [Keys -> Nat]
          /\ failures \in [Keys -> Nat]

\* A worker between its claim and the end of its attempt.
Holds(w, k) == workerKey[w] = k /\ workerPc[w] \in {"execute", "complete", "markFailed"}

\* The four tables tell one story whatever was interrupted: the turn and its
\* job are in the same state, the two copies of the result are equal, a
\* completed turn has one, and a turn has an outbox event from its creation
\* on (get_pending_turn reads only the turn, the claim trusts the job).
RowsAgree ==
    \A k \in Keys :
        /\ turnState[k] = jobState[k]
        /\ turnResult[k] = jobResult[k]
        /\ turnState[k] = "completed" => turnResult[k] # NoResult
        /\ turnState[k] = "none" <=> outbox[k] = "none"

\* Two workers never execute the same turn at once, although the task may be
\* published twice, retried and delivered to any of them: the row-locked claim
\* is the only mutual exclusion there is.
OneWorkerPerTurn ==
    \A k \in Keys : \A v, w \in Workers : Holds(v, k) /\ Holds(w, k) => v = w

\* On a turn that was never degraded the engine runs again only after the
\* failure of every run before was recorded on the row, and never once a result
\* was: what a run that broke off had committed may be repeated by the retry,
\* but duplicate messages, crashes and concurrent submissions repeat nothing,
\* and no attempt runs beside another.
RepetitionFollowsFailure ==
    \A k \in Keys : ~degraded[k] =>
        /\ runs[k] <= failures[k] + 1
        /\ turnResult[k] # NoResult => turnResult[k] = runs[k]

\* Whoever was answered with a result was answered with the one the row still
\* holds, unless the turn was degraded: for a turn that stays on the queue
\* the idempotency promise of dispatch_or_inline is kept.
AnswersAgree ==
    \A c \in Calls : \A k \in Keys :
        callKey[c] = k /\ callReply[c] = "result" /\ ~degraded[k]
        => turnState[k] = "completed" /\ turnResult[k] = callResult[c]

\* The rows implement the lifecycle the clients poll: a late
\* mark_chat_turn_queued never takes a turn back, attempts do not overlap,
\* and an undegraded completed turn is final.
Lifecycle == INSTANCE TurnLifecycle WITH
                state <- turnState, result <- turnResult, degraded <- degraded

ImplementsLifecycle == Lifecycle!Spec

\* A queued turn has a message in the broker or in the hands of a worker about
\* to claim it, and a running one has its worker: what the API handed over is
\* never forgotten while processes and the database stay up.
NoTaskLost ==
    \A k \in Keys :
        /\ turnState[k] = "queued" =>
              \/ \E a \in Attempts : queue[k][a] > 0
              \/ \E w \in Workers : workerKey[w] = k /\ workerPc[w] = "claim"
        /\ turnState[k] = "running" => \E w \in Workers : Holds(w, k)

Settled(k) == turnState[k] \in {"completed", "failed"}

\* Once its outbox event is marked published a turn ends up completed or failed
\* for good, even if the API handler that published it dies.
PublishedTurnSettles == \A k \in Keys : (outbox[k] = "published") ~> []Settled(k)

\* README: "RabbitMQ - durable task broker. Tasks survive worker restarts": a
\* turn handed to the broker is eventually settled although workers restart.
TasksSurviveWorkerRestarts == \A k \in Keys : (outbox[k] = "published") ~> Settled(k)

\* README: "Task delivery is guaranteed by the transactional outbox": a turn
\* whose bundle was committed is eventually handed to somebody who executes it.
OutboxDelivers ==
    \A k \in Keys : (turnState[k] = "accepted") ~> (turnState[k] # "accepted")

\* README: "Duplicate requests ... return the cached result without
\* re-execution": two answers for one request key are the same result.
DuplicatesGetCachedResult ==
    \A b, c \in Calls :
        callKey[b] = callKey[c] /\ callReply[b] = "result" /\ callReply[c] = "result"
        => callResult[b] = callResult[c]

-----------------------------------------------------------------------------
(* The inductive invariant behind the safety properties above.             *)

\* Nobody works on a turn, and no message names one, before its bundle exists.
NothingBeforeBundle ==
    /\ \A c \in Calls : callPc[c] \notin {"idle", "bundle", "insert", "done"}
                         => turnState[callKey[c]] # "none"
    /\ \A w \in Workers : workerPc[w] # "idle" => turnState[workerKey[w]] # "none"
    /\ \A k \in Keys, a \in Attempts : queue[k][a] > 0 => turnState[k] # "none"

\* The claim is a lock: while a worker holds a turn the job is running, or was
\* completed under it by an inline execution, which flags the turn.
ClaimIsLock ==
    \A w \in Workers : \A k \in Keys :
        Holds(w, k) =>
            /\ jobState[k] = "running" \/ (jobState[k] = "completed" /\ degraded[k])
            /\ workerPc[w] = "complete" => workerResult[w] # NoResult

\* Whoever executes inline has flagged the turn first, and answers come last.
InlineIsFlagged ==
    \A c \in Calls :
        /\ callPc[c] \in {"inline", "complete"} => degraded[callKey[c]]
        /\ callPc[c] = "complete" => callResult[c] # NoResult
        /\ callReply[c] # "none" => callPc[c] = "done"

\* What is known of the last run on an unflagged turn: where no attempt is under
\* way its failure is recorded, and the result is that of the last run, first in
\* the hands of its worker and then on a row nobody works on any more.
RunsAreRecorded ==
    \A k \in Keys : ~degraded[k] =>
        /\ runs[k] <= failures[k] + 1
        /\ jobState[k] \notin {"running", "completed"} => runs[k] <= failures[k]
        /\ turnResult[k] # NoResult =>
              jobState[k] = "completed" /\ turnResult[k] = runs[k]
        /\ \A w \in Workers : Holds(w, k) =>
              /\ workerPc[w] = "execute" => runs[k] <= failures[k]
              /\ workerPc[w] = "complete" => workerResult[w] = runs[k]

IndInv ==
    /\ TypeOK
    /\ RowsAgree
    /\ NothingBeforeBundle
    /\ OneWorkerPerTurn
    /\ ClaimIsLock
    /\ InlineIsFlagged
    /\ RunsAreRecorded
    /\ AnswersAgree
=============================================================================
