--------------------------- MODULE ChatTurnProofs ---------------------------
(* Proofs about ChatTurn for every set of request keys, calls and workers, *)
(* every retry limit and every combination of faults.                      *)
EXTENDS ChatTurn, TLAPS

-----------------------------------------------------------------------------
(* Types: first the moves every handler and every worker is made of.       *)

\* A handler that moves on without a reply stays well typed and has a turn.
LEMMA CallGoesType ==
    ASSUME CallsTypeOK, NEW c \in Calls, NEW pc \in CallPcs,
           callPc[c] # "idle", CallGoes(c, pc)
    PROVE  CallsTypeOK' /\ callKey[c] \in Keys
  BY DEF CallsTypeOK, CallGoes

\* So does one that replies.
LEMMA ReplyType ==
    ASSUME CallsTypeOK, NEW c \in Calls, NEW y \in Replies, NEW r \in Nat,
           callPc[c] # "idle", Reply(c, y, r)
    PROVE  CallsTypeOK' /\ callKey[c] \in Keys
  BY DEF CallsTypeOK, Reply, CallPcs

\* A worker that moves on within its task stays well typed and has a turn.
LEMMA WorkerGoesType ==
    ASSUME WorkersTypeOK, NEW w \in Workers, NEW pc \in WorkerPcs,
           workerPc[w] # "idle", WorkerGoes(w, pc)
    PROVE  WorkersTypeOK' /\ workerKey[w] \in Keys
  BY DEF WorkersTypeOK, WorkerGoes

\* A worker that drops its task is well typed again.
LEMMA WorkerIdlesType ==
    ASSUME WorkersTypeOK, NEW w \in Workers, WorkerIdles(w)
    PROVE  WorkersTypeOK'
  BY RetriesAssumption DEF WorkersTypeOK, WorkerIdles, WorkerPcs, Attempts, NoResult

\* Only the idle have no turn: a busy handler or worker names a key.
LEMMA BusyHasKey ==
    ASSUME TypeOK
    PROVE  /\ \A c \in Calls : callPc[c] # "idle" => callKey[c] \in Keys
           /\ \A w \in Workers : workerPc[w] # "idle" => workerKey[w] \in Keys
  BY DEF TypeOK, CallsTypeOK, WorkersTypeOK

\* One more message keeps the queue a table of counters.
LEMMA SendTaskType ==
    ASSUME queue \in [Keys -> [Attempts -> Nat]],
           NEW k \in Keys, NEW a \in Attempts, SendTask(k, a)
    PROVE  queue' \in [Keys -> [Attempts -> Nat]]
<1>1. queue[k][a] + 1 \in Nat
  OBVIOUS
<1> QED
  BY <1>1 DEF SendTask

\* Every transaction of the repository writes rows of the right type.
LEMMA TransactionTypes ==
    ASSUME TablesTypeOK, NEW k \in Keys, NEW r \in Nat,
           \/ InsertBundle(k) \/ MarkTurnQueued(k) \/ ClaimTurn(k)
           \/ CompleteTurn(k, r) \/ MarkTurnFailed(k) \/ MarkTurnDegraded(k)
    PROVE  TablesTypeOK'
<1> USE DEF TablesTypeOK, TurnStates
<1>1. CASE InsertBundle(k)
  BY <1>1 DEF InsertBundle
<1>2. CASE MarkTurnQueued(k)
  BY <1>2 DEF MarkTurnQueued
<1>3. CASE ClaimTurn(k)
  BY <1>3 DEF ClaimTurn
<1>4. CASE CompleteTurn(k, r)
  BY <1>4 DEF CompleteTurn
<1>5. CASE MarkTurnFailed(k)
  BY <1>5 DEF MarkTurnFailed
<1>6. CASE MarkTurnDegraded(k)
  BY <1>6 DEF MarkTurnDegraded
<1> QED
  BY <1>1, <1>2, <1>3, <1>4, <1>5, <1>6

\* What an action leaves alone keeps its type.
LEMMA UnchangedTypes ==
    /\ TablesTypeOK /\ UNCHANGED tables => TablesTypeOK'
    /\ CallsTypeOK /\ UNCHANGED callVars => CallsTypeOK'
    /\ WorkersTypeOK /\ UNCHANGED workerVars => WorkersTypeOK'
  BY DEF TablesTypeOK, CallsTypeOK, WorkersTypeOK, tables, callVars, workerVars

\* One more run keeps the history a table of counters.
LEMMA RunEndsType ==
    ASSUME runs \in [Keys -> Nat], NEW k \in Keys, RunEnds(k)
    PROVE  runs[k] + 1 \in Nat /\ runs' \in [Keys -> Nat]
<1>1. runs[k] + 1 \in Nat
  OBVIOUS
<1> QED
  BY <1>1 DEF RunEnds

\* Every step of an API handler preserves TypeOK.
LEMMA CallStepType ==
    ASSUME TypeOK, NEW c \in Calls, CallStep(c) PROVE TypeOK'
<1> USE BusyHasKey, UnchangedTypes DEF TypeOK, history
<1>1. CASE ReadBundle(c)
  <2>1. turnResult[callKey[c]] \in Nat
    BY <1>1 DEF ReadBundle, TablesTypeOK
  <2>2. CallsTypeOK'
    BY <1>1, <2>1, CallGoesType, ReplyType DEF ReadBundle, CallPcs, Replies
  <2> QED
    BY <1>1, <2>2 DEF ReadBundle
<1>2. CASE CreateBundle(c)
  <2>1. CallsTypeOK'
    BY <1>2, CallGoesType, ReplyType DEF CreateBundle, CallPcs, Replies, NoResult
  <2>2. TablesTypeOK'
    BY <1>2, TransactionTypes DEF CreateBundle
  <2> QED
    BY <1>2, <2>1, <2>2 DEF CreateBundle
<1>3. CASE ListPending(c)
  BY <1>3, CallGoesType DEF ListPending, CallPcs
<1>4. CASE Enqueue(c)
  <2>1. CallsTypeOK' /\ callKey[c] \in Keys
    BY <1>4, CallGoesType DEF Enqueue, CallPcs
  <2>2. queue' \in [Keys -> [Attempts -> Nat]]
    BY <1>4, <2>1, SendTaskType, RetriesAssumption DEF Enqueue, Attempts
  <2> QED
    BY <1>4, <2>1, <2>2 DEF Enqueue
<1>5. CASE EnqueueFails(c)
  BY <1>5, CallGoesType DEF EnqueueFails, CallPcs
<1>6. CASE MarkPublished(c)
  <2>1. CallsTypeOK'
    BY <1>6, CallGoesType DEF MarkPublished, CallPcs
  <2>2. TablesTypeOK'
    BY <1>6 DEF MarkPublished, TablesTypeOK
  <2> QED
    BY <1>6, <2>1, <2>2 DEF MarkPublished
<1>7. CASE MarkQueued(c)
  BY <1>7, CallGoesType, TransactionTypes DEF MarkQueued, CallPcs
<1>8. CASE Degrade(c)
  BY <1>8, CallGoesType, TransactionTypes DEF Degrade, CallPcs
<1>9. CASE ExecuteInline(c)
  <2>1. runs[callKey[c]] + 1 \in Nat /\ runs' \in [Keys -> Nat]
    BY <1>9, RunEndsType DEF ExecuteInline
  <2>2. CallsTypeOK' /\ runs' \in [Keys -> Nat]
    BY <1>9, <2>1 DEF ExecuteInline, CallsTypeOK, CallPcs
  <2> QED
    BY <1>9, <2>2 DEF ExecuteInline
<1>10. CASE ExecuteInlineFails(c)
  <2>1. runs' \in [Keys -> Nat]
    BY <1>10, RunEndsType DEF ExecuteInlineFails
  <2> QED
    BY <1>10, <2>1, ReplyType DEF ExecuteInlineFails, Replies, NoResult
<1>11. CASE CompleteInline(c)
  <2>1. callResult[c] \in Nat
    BY <1>11 DEF CallsTypeOK
  <2>2. CallsTypeOK'
    BY <1>11, <2>1, ReplyType DEF CompleteInline, Replies
  <2>3. TablesTypeOK'
    BY <1>11, <2>1, TransactionTypes DEF CompleteInline
  <2> QED
    BY <1>11, <2>2, <2>3 DEF CompleteInline
<1>12. CASE WaitEnds(c)
  <2>1. turnResult[callKey[c]] \in Nat
    BY <1>12 DEF WaitEnds, TablesTypeOK
  <2>2. CallsTypeOK'
    BY <1>12, <2>1, ReplyType DEF WaitEnds, Replies, NoResult
  <2> QED
    BY <1>12, <2>2 DEF WaitEnds
<1> QED
  BY <1>1, <1>2, <1>3, <1>4, <1>5, <1>6, <1>7, <1>8, <1>9, <1>10, <1>11, <1>12
  DEF CallStep

\* Every step of a worker preserves TypeOK.
LEMMA WorkerStepType ==
    ASSUME TypeOK, NEW w \in Workers, WorkerStep(w) PROVE TypeOK'
<1> USE BusyHasKey, UnchangedTypes DEF TypeOK, history
<1>1. ASSUME NEW k \in Keys, NEW a \in Attempts, Receive(w, k, a) PROVE TypeOK'
  <2>1. queue[k][a] - 1 \in Nat
    BY <1>1 DEF Receive
  <2>2. queue' \in [Keys -> [Attempts -> Nat]]
    BY <1>1, <2>1 DEF Receive
  <2>3. WorkersTypeOK'
    BY <1>1, NoKeyAssumption DEF Receive, WorkersTypeOK, WorkerPcs
  <2> QED
    BY <1>1, <2>2, <2>3 DEF Receive
<1>2. CASE Claim(w)
  <2>1. WorkersTypeOK'
    BY <1>2, WorkerGoesType, WorkerIdlesType DEF Claim, WorkerPcs
  <2>2. TablesTypeOK'
    BY <1>2, TransactionTypes DEF Claim
  <2> QED
    BY <1>2, <2>1, <2>2 DEF Claim
<1>3. CASE Execute(w)
  <2>1. runs[workerKey[w]] + 1 \in Nat /\ runs' \in [Keys -> Nat]
    BY <1>3, RunEndsType DEF Execute
  <2>2. WorkersTypeOK' /\ runs' \in [Keys -> Nat]
    BY <1>3, <2>1 DEF Execute, WorkersTypeOK, WorkerPcs
  <2> QED
    BY <1>3, <2>2 DEF Execute
<1>4. CASE ExecuteFails(w)
  <2>1. runs' \in [Keys -> Nat]
    BY <1>4, RunEndsType DEF ExecuteFails
  <2> QED
    BY <1>4, <2>1, WorkerGoesType DEF ExecuteFails, WorkerPcs
<1>5. CASE Complete(w)
  <2>1. workerResult[w] \in Nat
    BY <1>5 DEF WorkersTypeOK
  <2>2. TablesTypeOK'
    BY <1>5, <2>1, TransactionTypes DEF Complete
  <2> QED
    BY <1>5, <2>2, WorkerIdlesType DEF Complete
<1>6. CASE MarkFailed(w)
  <2>1. failures[workerKey[w]] + 1 \in Nat
    BY <1>6 DEF MarkFailed
  <2>2. failures' \in [Keys -> Nat]
    BY <1>6, <2>1 DEF MarkFailed
  <2> QED
    BY <1>6, <2>2, WorkerGoesType, TransactionTypes DEF MarkFailed, WorkerPcs
<1>7. CASE TaskRaises(w)
  BY <1>7, WorkerGoesType DEF TaskRaises, WorkerPcs
<1>8. CASE Retry(w)
  <2>1. workerKey[w] \in Keys /\ workerAttempt[w] \in Attempts
    BY <1>8 DEF Retry, WorkersTypeOK
  <2>2. workerAttempt[w] < MaxRetries => workerAttempt[w] + 1 \in Attempts
    BY <2>1, RetriesAssumption DEF Attempts
  <2>3. queue' \in [Keys -> [Attempts -> Nat]]
    BY <1>8, <2>1, <2>2, SendTaskType DEF Retry
  <2> QED
    BY <1>8, <2>3, WorkerIdlesType DEF Retry
<1> QED
  BY <1>1, <1>2, <1>3, <1>4, <1>5, <1>6, <1>7, <1>8 DEF WorkerStep

\* TypeOK is inductive.
LEMMA TypeStep == TypeOK /\ [Next]_vars => TypeOK'
<1> SUFFICES ASSUME TypeOK, [Next]_vars PROVE TypeOK'
  OBVIOUS
<1> USE UnchangedTypes DEF TypeOK, history
<1>1. ASSUME NEW c \in Calls, NEW k \in Keys, Submit(c, k) PROVE TypeOK'
  <2>1. CallsTypeOK'
    BY <1>1, NoKeyAssumption DEF Submit, CallsTypeOK, CallPcs
  <2> QED
    BY <1>1, <2>1 DEF Submit
<1>2. ASSUME NEW c \in Calls, CallStep(c) PROVE TypeOK'
  BY <1>2, CallStepType
<1>3. ASSUME NEW c \in Calls, CallLost(c) PROVE TypeOK'
  <2>1. runs' \in [Keys -> Nat]
    BY <1>3, BusyHasKey, RunEndsType DEF CallLost
  <2> QED
    BY <1>3, <2>1, ReplyType DEF CallLost, Replies, NoResult
<1>4. ASSUME NEW w \in Workers, WorkerStep(w) PROVE TypeOK'
  BY <1>4, WorkerStepType
<1>5. ASSUME NEW w \in Workers, WorkerCrash(w) PROVE TypeOK'
  <2>1. runs' \in [Keys -> Nat]
    BY <1>5, BusyHasKey, RunEndsType DEF WorkerCrash
  <2> QED
    BY <1>5, <2>1, WorkerIdlesType DEF WorkerCrash
<1>6. CASE UNCHANGED vars
  BY <1>6 DEF vars, history
<1> QED
  BY <1>1, <1>2, <1>3, <1>4, <1>5, <1>6 DEF Next

\* The empty database and the idle processes are well typed.
LEMMA TypeInit == Init => TypeOK
  BY NoKeyAssumption, RetriesAssumption
  DEF Init, TypeOK, TablesTypeOK, CallsTypeOK, WorkersTypeOK, TurnStates, CallPcs,
      Replies, WorkerPcs, Attempts, NoResult

\* Every row, counter, handler and worker keeps a value the code can give it.
THEOREM TypeCorrect == Spec => []TypeOK
  BY TypeInit, TypeStep, PTL DEF Spec

-----------------------------------------------------------------------------
(* Safety.  Two lemmas sum up the actions: what a step can write to the    *)
(* tables and how a worker can come to hold a turn.                        *)

\* The inductive invariant holds before the first request.
LEMMA InvInit == Init => IndInv
<1> SUFFICES ASSUME Init PROVE IndInv
  OBVIOUS
<1>1. TypeOK
  BY TypeInit
<1> QED
  BY <1>1, NoKeyAssumption
  DEF Init, IndInv, RowsAgree, NothingBeforeBundle, OneWorkerPerTurn, ClaimIsLock,
      InlineIsFlagged, RunsAreRecorded, AnswersAgree, Holds, NoResult

\* The writers of the tables, with what each of them knows when it writes.
PublishEvent(k) ==
    /\ outbox' = [outbox EXCEPT ![k] = "published"]
    /\ UNCHANGED <<turnState, turnResult, degraded, jobState, jobResult>>

ApiWrites(c, k) ==
    /\ callKey[c] = k
    /\ UNCHANGED <<workerVars, queue, history>>
    /\ \/ callPc[c] = "insert" /\ turnState[k] = "none" /\ InsertBundle(k)
       \/ callPc[c] = "markPublished" /\ PublishEvent(k)
       \/ callPc[c] = "markQueued" /\ MarkTurnQueued(k)
       \/ callPc[c] = "degrade" /\ MarkTurnDegraded(k)
       \/ callPc[c] = "complete" /\ CompleteTurn(k, callResult[c])

WorkerWrites(w, k) ==
    /\ workerKey[w] = k
    /\ UNCHANGED <<callVars, queue, runs>>
    /\ \/ /\ workerPc[w] = "claim"
          /\ ~ClaimIsCompleted(k) /\ ~ClaimIsBusy(k)
          /\ ClaimTurn(k) /\ WorkerGoes(w, "execute")
       \/ workerPc[w] = "complete" /\ CompleteTurn(k, workerResult[w]) /\ WorkerIdles(w)
       \/ /\ workerPc[w] = "markFailed"
          /\ MarkTurnFailed(k) /\ WorkerGoes(w, "retry")
          /\ failures' = [failures EXCEPT ![k] = @ + 1]

\* A step leaves the four tables alone or is one of the writes above, by a
\* handler or a worker that knows what it says there.
LEMMA TableWrites ==
    ASSUME TypeOK, [Next]_vars
    PROVE  \/ UNCHANGED tables
           \/ \E c \in Calls : \E k \in Keys : ApiWrites(c, k)
           \/ \E w \in Workers : \E k \in Keys : WorkerWrites(w, k)
<1> DEFINE Goal == \/ UNCHANGED tables
                   \/ \E c \in Calls : \E k \in Keys : ApiWrites(c, k)
                   \/ \E w \in Workers : \E k \in Keys : WorkerWrites(w, k)
<1>1. ASSUME NEW c \in Calls, CallStep(c) PROVE Goal
  <2>1. CASE CreateBundle(c)
    BY <2>1, BusyHasKey DEF CreateBundle, ApiWrites
  <2>2. CASE MarkPublished(c)
    BY <2>2, BusyHasKey DEF MarkPublished, ApiWrites, PublishEvent
  <2>3. CASE MarkQueued(c)
    BY <2>3, BusyHasKey DEF MarkQueued, ApiWrites
  <2>4. CASE Degrade(c)
    BY <2>4, BusyHasKey DEF Degrade, ApiWrites
  <2>5. CASE CompleteInline(c)
    BY <2>5, BusyHasKey DEF CompleteInline, ApiWrites
  <2> QED
    BY <1>1, <2>1, <2>2, <2>3, <2>4, <2>5
    DEF CallStep, ReadBundle, ListPending, Enqueue, EnqueueFails, ExecuteInline,
        ExecuteInlineFails, WaitEnds
<1>2. ASSUME NEW w \in Workers, WorkerStep(w) PROVE Goal
  <2>1. CASE Claim(w)
    BY <2>1, BusyHasKey DEF Claim, WorkerWrites, history
  <2>2. CASE Complete(w)
    BY <2>2, BusyHasKey DEF Complete, WorkerWrites, history
  <2>3. CASE MarkFailed(w)
    BY <2>3, BusyHasKey DEF MarkFailed, WorkerWrites
  <2> QED
    BY <1>2, <2>1, <2>2, <2>3
    DEF WorkerStep, Receive, Execute, ExecuteFails, TaskRaises, Retry
<1> HIDE DEF Goal
<1>3. ASSUME \/ \E c \in Calls, k \in Keys : Submit(c, k)
             \/ \E c \in Calls : CallLost(c)
             \/ \E w \in Workers : WorkerCrash(w)
             \/ UNCHANGED vars
      PROVE  UNCHANGED tables
  BY <1>3 DEF Submit, CallLost, WorkerCrash, vars
<1>4. Goal
  BY <1>1, <1>2, <1>3 DEF Next, Goal
<1> QED
  BY <1>4 DEF Goal

\* A handler is moved by its own actions only, and so is a worker.
LEMMA CallMoves ==
    ASSUME TypeOK, [Next]_vars, NEW c \in Calls
    PROVE  \/ \E k \in Keys : Submit(c, k)
           \/ CallStep(c)
           \/ CallLost(c)
           \/ /\ callPc'[c] = callPc[c] /\ callKey'[c] = callKey[c]
              /\ callResult'[c] = callResult[c] /\ callReply'[c] = callReply[c]
<1> DEFINE Still(b) == /\ callPc'[b] = callPc[b] /\ callKey'[b] = callKey[b]
                       /\ callResult'[b] = callResult[b] /\ callReply'[b] = callReply[b]
<1> USE DEF TypeOK, CallsTypeOK
<1>1. ASSUME NEW b \in Calls, NEW k \in Keys, Submit(b, k), b # c PROVE Still(c)
  BY <1>1 DEF Submit
<1>2. ASSUME NEW b \in Calls, CallStep(b), b # c PROVE Still(c)
  BY <1>2 DEF CallStep, ReadBundle, CreateBundle, ListPending, Enqueue, EnqueueFails,
      MarkPublished, MarkQueued, Degrade, ExecuteInline, ExecuteInlineFails,
      CompleteInline, WaitEnds, CallGoes, Reply
<1>3. ASSUME NEW b \in Calls, CallLost(b), b # c PROVE Still(c)
  BY <1>3 DEF CallLost, Reply
<1>4. ASSUME NEW w \in Workers, WorkerStep(w) \/ WorkerCrash(w) PROVE Still(c)
  BY <1>4 DEF WorkerStep, Receive, Claim, Execute, ExecuteFails, Complete, MarkFailed,
      TaskRaises, Retry, WorkerCrash, callVars
<1>5. CASE UNCHANGED vars
  BY <1>5 DEF vars, callVars
<1> HIDE DEF Still, TypeOK
<1>6. \/ \E k \in Keys : Submit(c, k)
      \/ CallStep(c) \/ CallLost(c) \/ Still(c)
  BY <1>1, <1>2, <1>3, <1>4, <1>5 DEF Next, Still
<1> QED
  BY <1>6 DEF Still

\* A worker is moved by its own actions only.
LEMMA WorkerMoves ==
    ASSUME TypeOK, [Next]_vars, NEW w \in Workers
    PROVE  \/ WorkerStep(w)
           \/ WorkerCrash(w)
           \/ /\ workerPc'[w] = workerPc[w] /\ workerKey'[w] = workerKey[w]
              /\ workerResult'[w] = workerResult[w]
<1> DEFINE Still(v) == /\ workerPc'[v] = workerPc[v] /\ workerKey'[v] = workerKey[v]
                       /\ workerResult'[v] = workerResult[v]
<1> USE DEF TypeOK, WorkersTypeOK
<1>1. ASSUME NEW v \in Workers, WorkerStep(v), v # w PROVE Still(w)
  BY <1>1 DEF WorkerStep, Receive, Claim, Execute, ExecuteFails, Complete, MarkFailed,
      TaskRaises, Retry, WorkerGoes, WorkerIdles
<1>2. ASSUME NEW v \in Workers, WorkerCrash(v), v # w PROVE Still(w)
  BY <1>2 DEF WorkerCrash, WorkerIdles
<1>3. ASSUME NEW c \in Calls,
             (\E k \in Keys : Submit(c, k)) \/ CallStep(c) \/ CallLost(c)
      PROVE  Still(w)
  BY <1>3 DEF Submit, CallStep, CallLost, ReadBundle, CreateBundle, ListPending, Enqueue,
      EnqueueFails, MarkPublished, MarkQueued, Degrade, ExecuteInline,
      ExecuteInlineFails, CompleteInline, WaitEnds, workerVars
<1>4. CASE UNCHANGED vars
  BY <1>4 DEF vars, workerVars
<1> HIDE DEF Still, TypeOK
<1>5. WorkerStep(w) \/ WorkerCrash(w) \/ Still(w)
  BY <1>1, <1>2, <1>3, <1>4 DEF Next, Still
<1> QED
  BY <1>5 DEF Still

\* A worker comes to hold a turn only by claiming it, and holds its result
\* unchanged until it has recorded it.
LEMMA HoldersClaim ==
    ASSUME TypeOK, [Next]_vars, NEW w \in Workers, NEW k \in Keys, Holds(w, k)'
    PROVE  \/ /\ Holds(w, k)
              /\ workerPc[w] = "complete" => workerPc'[w] = "complete"
              /\ workerPc'[w] = "execute" => workerPc[w] = "execute"
              /\ workerPc'[w] = "complete" =>
                     Execute(w) \/ (workerPc[w] = "complete" /\ workerResult'[w] = workerResult[w])
           \/ /\ WorkerWrites(w, k) /\ WorkerGoes(w, "execute")
              /\ ~ClaimIsCompleted(k) /\ ~ClaimIsBusy(k) /\ ClaimTurn(k)
              /\ workerPc[w] = "claim" /\ workerPc'[w] = "execute"
<1> USE DEF TypeOK, WorkersTypeOK
<1>1. WorkerStep(w) \/ WorkerCrash(w) \/
        (/\ workerPc'[w] = workerPc[w] /\ workerKey'[w] = workerKey[w]
         /\ workerResult'[w] = workerResult[w])
  BY WorkerMoves
<1>2. CASE Claim(w)
  BY <1>2 DEF Claim, Holds, WorkerGoes, WorkerIdles, WorkerWrites, history
<1>3. CASE WorkerStep(w) /\ ~Claim(w)
  BY <1>3 DEF WorkerStep, Receive, Execute, ExecuteFails, Complete, MarkFailed,
      TaskRaises, Retry, WorkerGoes, WorkerIdles, Holds
<1>4. CASE WorkerCrash(w)
  BY <1>4 DEF WorkerCrash, WorkerIdles, Holds
<1>5. CASE /\ workerPc'[w] = workerPc[w] /\ workerKey'[w] = workerKey[w]
           /\ workerResult'[w] = workerResult[w]
  BY <1>5 DEF Holds
<1> QED
  BY <1>1, <1>2, <1>3, <1>4, <1>5

\* Bundles are never deleted and the flag is never cleared.
LEMMA RowsStay ==
    ASSUME TypeOK, [Next]_vars, NEW k \in Keys
    PROVE  /\ turnState[k] # "none" => turnState'[k] # "none"
           /\ degraded[k] => degraded'[k]
<1> USE DEF TypeOK, TablesTypeOK
<1>1. CASE UNCHANGED tables
  BY <1>1 DEF tables
<1>2. ASSUME NEW c \in Calls, NEW j \in Keys, ApiWrites(c, j)
      PROVE  /\ turnState[k] # "none" => turnState'[k] # "none"
             /\ degraded[k] => degraded'[k]
  <2>1. CASE InsertBundle(j) \/ PublishEvent(j) \/ MarkTurnQueued(j) \/ MarkTurnDegraded(j)
    BY <2>1 DEF InsertBundle, PublishEvent, MarkTurnQueued, MarkTurnDegraded
  <2>2. CASE CompleteTurn(j, callResult[c])
    BY <2>2 DEF CompleteTurn
  <2> QED
    BY <1>2, <2>1, <2>2 DEF ApiWrites
<1>3. ASSUME NEW w \in Workers, NEW j \in Keys, WorkerWrites(w, j)
      PROVE  /\ turnState[k] # "none" => turnState'[k] # "none"
             /\ degraded[k] => degraded'[k]
  <2>1. CASE ClaimTurn(j) \/ MarkTurnFailed(j)
    BY <2>1 DEF ClaimTurn, MarkTurnFailed
  <2>2. CASE CompleteTurn(j, workerResult[w])
    BY <2>2 DEF CompleteTurn
  <2> QED
    BY <1>3, <2>1, <2>2 DEF WorkerWrites
<1> QED
  BY <1>1, <1>2, <1>3, TableWrites

-----------------------------------------------------------------------------
(* One lemma per conjunct of the inductive invariant.                      *)

\* Every transaction keeps turn, job, result and event consistent.
LEMMA RowsAgreeStep ==
    ASSUME IndInv, [Next]_vars PROVE RowsAgree'
<1> USE DEF IndInv, TypeOK, TablesTypeOK, RowsAgree
<1>1. CASE UNCHANGED tables
  BY <1>1 DEF tables
<1>2. ASSUME NEW c \in Calls, NEW k \in Keys, ApiWrites(c, k) PROVE RowsAgree'
  <2>1. callPc[c] = "complete" => callResult[c] # NoResult
    BY DEF InlineIsFlagged
  <2>2. callPc[c] = "markPublished" => turnState[k] # "none"
    BY <1>2 DEF NothingBeforeBundle, ApiWrites
  <2>3. CASE InsertBundle(k) /\ turnState[k] = "none"
    BY <2>3 DEF InsertBundle
  <2>4. CASE callPc[c] = "markPublished" /\ PublishEvent(k)
    BY <2>2, <2>4 DEF PublishEvent
  <2>5. CASE MarkTurnQueued(k)
    BY <2>5 DEF MarkTurnQueued
  <2>6. CASE MarkTurnDegraded(k)
    BY <2>6 DEF MarkTurnDegraded
  <2>7. CASE callPc[c] = "complete" /\ CompleteTurn(k, callResult[c])
    <3>1. turnState[k] # "none"
      BY <1>2, <2>7 DEF NothingBeforeBundle, ApiWrites
    <3> QED
      BY <2>1, <2>7, <3>1 DEF CompleteTurn
  <2> QED
    BY <1>2, <2>3, <2>4, <2>5, <2>6, <2>7 DEF ApiWrites
<1>3. ASSUME NEW w \in Workers, NEW k \in Keys, WorkerWrites(w, k) PROVE RowsAgree'
  <2>1. workerPc[w] = "complete" => workerResult[w] # NoResult
    BY <1>3 DEF ClaimIsLock, Holds, WorkerWrites
  <2>2. turnState[k] # "none"
    BY <1>3 DEF NothingBeforeBundle, WorkerWrites
  <2>3. CASE ClaimTurn(k)
    BY <2>2, <2>3 DEF ClaimTurn
  <2>4. CASE workerPc[w] = "complete" /\ CompleteTurn(k, workerResult[w])
    BY <2>1, <2>2, <2>4 DEF CompleteTurn
  <2>5. CASE MarkTurnFailed(k)
    BY <2>2, <2>5 DEF MarkTurnFailed
  <2> QED
    BY <1>3, <2>3, <2>4, <2>5 DEF WorkerWrites
<1> QED
  BY <1>1, <1>2, <1>3, TableWrites

\* Nobody gets to work on a turn before its bundle is committed.
LEMMA NothingBeforeBundleStep ==
    ASSUME IndInv, [Next]_vars PROVE NothingBeforeBundle'
<1> USE DEF IndInv
<1>1. ASSUME NEW c \in Calls, callPc'[c] \notin {"idle", "bundle", "insert", "done"}
      PROVE  turnState'[callKey'[c]] # "none"
  <2>1. CASE callPc[c] \notin {"idle", "bundle", "insert", "done"} /\ callKey'[c] = callKey[c]
    <3>1. callKey[c] \in Keys /\ turnState[callKey[c]] # "none"
      BY <2>1, BusyHasKey DEF NothingBeforeBundle
    <3> QED
      BY <2>1, <3>1, RowsStay
  <2>2. CASE ReadBundle(c)
    BY <1>1, <2>2 DEF ReadBundle, CallGoes, Reply, TypeOK, CallsTypeOK, tables
  <2>3. CASE CreateBundle(c)
    <3>1. callKey[c] \in Keys /\ callKey' = callKey
      BY <2>3, BusyHasKey DEF CreateBundle, CallGoes, Reply
    <3>2. callPc'[c] # "done" => InsertBundle(callKey[c])
      BY <2>3 DEF CreateBundle, CallGoes, Reply, TypeOK, CallsTypeOK
    <3> QED
      BY <1>1, <3>1, <3>2 DEF InsertBundle, TypeOK, TablesTypeOK
  <2>4. CASE CallStep(c) /\ ~ReadBundle(c) /\ ~CreateBundle(c)
    BY <1>1, <2>1, <2>4 DEF CallStep, ListPending, Enqueue, EnqueueFails, MarkPublished,
        MarkQueued, Degrade, ExecuteInline, ExecuteInlineFails, CompleteInline, WaitEnds,
        CallGoes, Reply, TypeOK, CallsTypeOK
  <2>5. CASE (\E k \in Keys : Submit(c, k)) \/ CallLost(c)
    BY <1>1, <2>5 DEF Submit, CallLost, Reply, TypeOK, CallsTypeOK
  <2> QED
    BY <1>1, <2>1, <2>2, <2>3, <2>4, <2>5, CallMoves
<1>2. ASSUME NEW w \in Workers, workerPc'[w] # "idle"
      PROVE  turnState'[workerKey'[w]] # "none"
  <2>1. CASE workerPc[w] # "idle" /\ workerKey'[w] = workerKey[w]
    <3>1. workerKey[w] \in Keys /\ turnState[workerKey[w]] # "none"
      BY <2>1, BusyHasKey DEF NothingBeforeBundle
    <3> QED
      BY <2>1, <3>1, RowsStay
  <2>2. ASSUME NEW k \in Keys, NEW a \in Attempts, Receive(w, k, a)
        PROVE  turnState'[workerKey'[w]] # "none"
    BY <2>2 DEF Receive, NothingBeforeBundle, TypeOK, WorkersTypeOK, tables
  <2>3. CASE WorkerStep(w) /\ ~(\E k \in Keys, a \in Attempts : Receive(w, k, a))
    BY <1>2, <2>1, <2>3 DEF WorkerStep, Claim, Execute, ExecuteFails, Complete, MarkFailed,
        TaskRaises, Retry, WorkerGoes, WorkerIdles, TypeOK, WorkersTypeOK
  <2>4. CASE WorkerCrash(w)
    BY <1>2, <2>4 DEF WorkerCrash, WorkerIdles, TypeOK, WorkersTypeOK
  <2> QED
    BY <1>2, <2>1, <2>2, <2>3, <2>4, WorkerMoves
<1>3. ASSUME NEW k \in Keys, NEW a \in Attempts, queue'[k][a] > 0
      PROVE  turnState'[k] # "none"
  <2>1. CASE queue'[k][a] <= queue[k][a]
    <3>1. queue[k][a] > 0
      BY <1>3, <2>1, TypeStep DEF TypeOK
    <3> QED
      BY <3>1, RowsStay DEF NothingBeforeBundle
  <2>2. ASSUME NEW c \in Calls, Enqueue(c) PROVE turnState'[k] # "none"
    <3>1. callKey[c] \in Keys /\ turnState[callKey[c]] # "none"
      BY <2>2, BusyHasKey DEF Enqueue, NothingBeforeBundle
    <3>2. k # callKey[c] => queue'[k] = queue[k]
      BY <2>2 DEF Enqueue, SendTask, TypeOK
    <3> QED
      BY <1>3, <3>1, <3>2, RowsStay DEF NothingBeforeBundle
  <2>3. ASSUME NEW w \in Workers, Retry(w) PROVE turnState'[k] # "none"
    <3>1. workerKey[w] \in Keys /\ turnState[workerKey[w]] # "none"
      BY <2>3, BusyHasKey DEF Retry, NothingBeforeBundle
    <3>2. k # workerKey[w] => queue'[k] = queue[k]
      BY <2>3 DEF Retry, SendTask, TypeOK
    <3> QED
      BY <1>3, <3>1, <3>2, RowsStay DEF NothingBeforeBundle
  <2>4. ASSUME NEW w \in Workers, NEW j \in Keys, NEW b \in Attempts, Receive(w, j, b)
        PROVE  queue'[k][a] <= queue[k][a]
    BY <2>4 DEF Receive, TypeOK
  <2>5. CASE UNCHANGED queue
    BY <2>1, <2>5 DEF TypeOK
  <2>6. ASSUME NEW c \in Calls, CallStep(c) PROVE turnState'[k] # "none"
    BY <2>2, <2>5, <2>6 DEF CallStep, ReadBundle, CreateBundle, ListPending, EnqueueFails,
        MarkPublished, MarkQueued, Degrade, ExecuteInline, ExecuteInlineFails,
        CompleteInline, WaitEnds
  <2>7. ASSUME NEW w \in Workers, WorkerStep(w) PROVE turnState'[k] # "none"
    BY <2>1, <2>3, <2>4, <2>5, <2>7 DEF WorkerStep, Claim, Execute, ExecuteFails,
        Complete, MarkFailed, TaskRaises
  <2>8. ASSUME NEW w \in Workers, WorkerCrash(w) PROVE UNCHANGED queue
    BY <2>8 DEF WorkerCrash
  <2>9. ASSUME NEW c \in Calls, (\E j \in Keys : Submit(c, j)) \/ CallLost(c)
        PROVE  UNCHANGED queue
    BY <2>9 DEF Submit, CallLost
  <2>10. UNCHANGED vars => UNCHANGED queue
    BY DEF vars
  <2> QED
    BY <2>5, <2>6, <2>7, <2>8, <2>9, <2>10 DEF Next
<1> QED
  BY <1>1, <1>2, <1>3 DEF NothingBeforeBundle

\* Who has just claimed a turn is the only one to hold it.
LEMMA ClaimerIsAlone ==
    ASSUME IndInv, [Next]_vars, NEW k \in Keys, NEW v \in Workers, NEW w \in Workers,
           Holds(v, k)', Holds(w, k)', ~Holds(v, k)
    PROVE  v = w
<1> USE DEF IndInv
<1>1. WorkerGoes(v, "execute") /\ ~ClaimIsBusy(k) /\ ~ClaimIsCompleted(k)
  BY HoldersClaim
<1>2. ~Holds(w, k)
  BY <1>1 DEF ClaimIsLock, ClaimIsBusy, ClaimIsCompleted
<1>3. workerPc[w] = "claim" /\ workerPc'[w] = "execute"
  BY <1>2, HoldersClaim
<1> QED
  BY <1>1, <1>3 DEF WorkerGoes, TypeOK, WorkersTypeOK

\* A worker that comes to hold a turn found nobody holding it.
LEMMA OneWorkerStep ==
    ASSUME IndInv, [Next]_vars PROVE OneWorkerPerTurn'
<1> SUFFICES ASSUME NEW k \in Keys, NEW v \in Workers, NEW w \in Workers,
                    Holds(v, k)', Holds(w, k)'
             PROVE  v = w
  BY DEF OneWorkerPerTurn
<1>1. CASE Holds(v, k) /\ Holds(w, k)
  BY <1>1 DEF OneWorkerPerTurn, IndInv
<1> QED
  BY <1>1, ClaimerIsAlone

\* What a step writes to the row of a turn somebody holds.
LEMMA HeldRow ==
    ASSUME IndInv, [Next]_vars, NEW w \in Workers, NEW k \in Keys, Holds(w, k), Holds(w, k)'
    PROVE  \/ jobState'[k] = jobState[k]
           \/ jobState'[k] = "completed" /\ degraded'[k]
<1> USE DEF IndInv, TypeOK, TablesTypeOK
<1>1. jobState[k] \in {"running", "completed"}
  BY DEF ClaimIsLock
<1>2. CASE UNCHANGED tables
  BY <1>2 DEF tables
<1>3. ASSUME NEW c \in Calls, NEW j \in Keys, ApiWrites(c, j)
      PROVE  \/ jobState'[k] = jobState[k]
             \/ jobState'[k] = "completed" /\ degraded'[k]
  <2>1. callPc[c] = "complete" => degraded[j]
    BY <1>3 DEF InlineIsFlagged, ApiWrites
  <2>2. j = k => turnState[j] \notin {"none", "accepted"} /\ jobState[j] # "accepted"
    BY <1>1 DEF RowsAgree
  <2> QED
    BY <1>3, <2>1, <2>2 DEF ApiWrites, PublishEvent, InsertBundle, MarkTurnQueued,
        MarkTurnDegraded, CompleteTurn
<1>4. ASSUME NEW v \in Workers, NEW j \in Keys, WorkerWrites(v, j), j = k
      PROVE  FALSE
  <2>1. workerPc[v] # "claim"
    BY <1>1, <1>4 DEF WorkerWrites, ClaimIsBusy, ClaimIsCompleted, WorkerIdles, WorkerGoes
  <2>2. Holds(v, k)
    BY <1>4, <2>1 DEF WorkerWrites, Holds
  <2>3. v = w
    BY <2>2 DEF OneWorkerPerTurn
  <2> QED
    BY <1>4, <2>1, <2>3 DEF WorkerWrites, Holds, WorkerIdles, WorkerGoes, WorkersTypeOK
<1>5. ASSUME NEW v \in Workers, NEW j \in Keys, WorkerWrites(v, j), j # k
      PROVE  jobState'[k] = jobState[k]
  BY <1>5 DEF WorkerWrites, ClaimTurn, CompleteTurn, MarkTurnFailed
<1> QED
  BY <1>2, <1>3, <1>4, <1>5, TableWrites

\* Whoever holds a turn keeps its job running, unless an inline execution
\* completes it.
LEMMA ClaimIsLockStep ==
    ASSUME IndInv, [Next]_vars PROVE ClaimIsLock'
<1> SUFFICES ASSUME NEW w \in Workers, NEW k \in Keys, Holds(w, k)'
             PROVE  /\ jobState'[k] = "running" \/ (jobState'[k] = "completed" /\ degraded'[k])
                    /\ workerPc'[w] = "complete" => workerResult'[w] # NoResult
  BY DEF ClaimIsLock
<1> USE DEF IndInv
<1>1. CASE ~Holds(w, k)
  BY <1>1, HoldersClaim DEF ClaimTurn, TypeOK, TablesTypeOK
<1>2. CASE Holds(w, k)
  <2>1. jobState'[k] = "running" \/ (jobState'[k] = "completed" /\ degraded'[k])
    BY <1>2, HeldRow, RowsStay DEF ClaimIsLock
  <2>2. Execute(w) => workerResult'[w] # NoResult
    BY BusyHasKey DEF Execute, TypeOK, WorkersTypeOK, NoResult
  <2>3. workerPc[w] = "complete" => workerResult[w] # NoResult
    BY <1>2 DEF ClaimIsLock
  <2>4. workerPc'[w] = "complete" => workerResult'[w] # NoResult
    <3>1. CASE WorkerGoes(w, "execute")
      BY <3>1 DEF WorkerGoes, TypeOK, WorkersTypeOK
    <3> QED
      BY <2>2, <2>3, <3>1, HoldersClaim
  <2> QED
    BY <2>1, <2>4
<1> QED
  BY <1>1, <1>2

\* A handler gets to execute inline only through mark_chat_turn_degraded.
LEMMA InlineIsFlaggedStep ==
    ASSUME IndInv, [Next]_vars PROVE InlineIsFlagged'
<1> SUFFICES ASSUME NEW c \in Calls
             PROVE  /\ callPc'[c] \in {"inline", "complete"} => degraded'[callKey'[c]]
                    /\ callPc'[c] = "complete" => callResult'[c] # NoResult
                    /\ callReply'[c] # "none" => callPc'[c] = "done"
  BY DEF InlineIsFlagged
<1> USE DEF IndInv, InlineIsFlagged
<1>1. CASE Degrade(c)
  BY <1>1, BusyHasKey DEF Degrade, CallGoes, MarkTurnDegraded, TypeOK, CallsTypeOK, TablesTypeOK
<1>2. CASE ExecuteInline(c)
  BY <1>2, BusyHasKey DEF ExecuteInline, TypeOK, CallsTypeOK, tables, NoResult
<1>3. CASE CallStep(c) /\ ~Degrade(c) /\ ~ExecuteInline(c)
  BY <1>3 DEF CallStep, ReadBundle, CreateBundle, ListPending, Enqueue, EnqueueFails,
      MarkPublished, MarkQueued, ExecuteInlineFails, CompleteInline, WaitEnds,
      CallGoes, Reply, TypeOK, CallsTypeOK
<1>4. CASE (\E k \in Keys : Submit(c, k)) \/ CallLost(c)
  BY <1>4 DEF Submit, CallLost, Reply, TypeOK, CallsTypeOK
<1>5. CASE /\ callPc'[c] = callPc[c] /\ callKey'[c] = callKey[c]
           /\ callResult'[c] = callResult[c] /\ callReply'[c] = callReply[c]
  BY <1>5, RowsStay, BusyHasKey
<1> QED
  BY <1>1, <1>2, <1>3, <1>4, <1>5, CallMoves

\* The engine runs on a turn only through a worker that holds it or a handler
\* that executes it inline, and only a holder records a failure.
LEMMA HistoryWrites ==
    ASSUME IndInv, [Next]_vars, NEW k \in Keys
    PROVE  \/ runs'[k] = runs[k] /\ failures'[k] = failures[k]
           \/ \E w \in Workers :
                 /\ Holds(w, k) /\ workerPc[w] = "execute" /\ workerPc'[w] # "execute"
                 /\ runs'[k] = runs[k] + 1 /\ failures'[k] = failures[k]
                 /\ workerPc'[w] = "complete" => workerResult'[w] = runs[k] + 1
                 /\ UNCHANGED tables
           \/ \E w \in Workers :
                 /\ Holds(w, k) /\ workerPc[w] = "markFailed" /\ workerPc'[w] = "retry"
                 /\ runs'[k] = runs[k] /\ failures'[k] = failures[k] + 1
                 /\ MarkTurnFailed(k)
           \/ \E c \in Calls : callPc[c] = "inline" /\ callKey[c] = k
<1> DEFINE Same == runs'[k] = runs[k] /\ failures'[k] = failures[k]
           Ran(w) == /\ Holds(w, k) /\ workerPc[w] = "execute" /\ workerPc'[w] # "execute"
                     /\ runs'[k] = runs[k] + 1 /\ failures'[k] = failures[k]
                     /\ workerPc'[w] = "complete" => workerResult'[w] = runs[k] + 1
                     /\ UNCHANGED tables
           Failed(w) == /\ Holds(w, k) /\ workerPc[w] = "markFailed" /\ workerPc'[w] = "retry"
                        /\ runs'[k] = runs[k] /\ failures'[k] = failures[k] + 1
                        /\ MarkTurnFailed(k)
           Inline(c) == callPc[c] = "inline" /\ callKey[c] = k
<1> USE DEF IndInv, TypeOK, history
<1>1. ASSUME NEW c \in Calls, CallStep(c) \/ CallLost(c) \/ \E j \in Keys : Submit(c, j)
      PROVE  Same \/ Inline(c)
  <2>1. CASE ExecuteInline(c) \/ ExecuteInlineFails(c) \/ CallLost(c)
    BY <2>1 DEF ExecuteInline, ExecuteInlineFails, CallLost, RunEnds
  <2> QED
    BY <1>1, <2>1 DEF CallStep, ReadBundle, CreateBundle, ListPending, Enqueue,
        EnqueueFails, MarkPublished, MarkQueued, Degrade, CompleteInline, WaitEnds, Submit
<1>2. ASSUME NEW w \in Workers, WorkerStep(w) \/ WorkerCrash(w)
      PROVE  Same \/ Ran(w) \/ Failed(w)
  <2> USE BusyHasKey DEF WorkersTypeOK
  <2>1. CASE Execute(w)
    BY <2>1 DEF Execute, RunEnds, Holds
  <2>2. CASE ExecuteFails(w)
    BY <2>2 DEF ExecuteFails, RunEnds, Holds, WorkerGoes
  <2>3. CASE WorkerCrash(w)
    BY <2>3 DEF WorkerCrash, RunEnds, Holds, WorkerIdles
  <2>4. CASE MarkFailed(w)
    BY <2>4 DEF MarkFailed, Holds, WorkerGoes
  <2> QED
    BY <1>2, <2>1, <2>2, <2>3, <2>4 DEF WorkerStep, Receive, Claim, Complete,
        TaskRaises, Retry
<1>3. UNCHANGED vars => Same
  BY DEF vars
<1> HIDE DEF Same, Ran, Failed, Inline, IndInv, TypeOK, history
<1>4. \/ Same
      \/ \E w \in Workers : Ran(w)
      \/ \E w \in Workers : Failed(w)
      \/ \E c \in Calls : Inline(c)
  BY <1>1, <1>2, <1>3 DEF Next
<1> QED
  BY <1>4 DEF Same, Ran, Failed, Inline

\* While somebody holds a turn nobody else gets to hold it.
LEMMA HolderStaysAlone ==
    ASSUME IndInv, [Next]_vars, NEW k \in Keys, NEW v \in Workers, NEW w \in Workers,
           Holds(w, k), Holds(v, k)'
    PROVE  v = w
<1> USE DEF IndInv
<1>1. CASE Holds(v, k)
  BY <1>1 DEF OneWorkerPerTurn
<1>2. CASE ~Holds(v, k)
  BY <1>2, HoldersClaim DEF ClaimIsLock, ClaimIsBusy, ClaimIsCompleted
<1> QED
  BY <1>1, <1>2

\* A claim finds the failure of every run before recorded; each run, failure
\* and result keeps the account.
LEMMA RunsAreRecordedStep ==
    ASSUME IndInv, [Next]_vars PROVE RunsAreRecorded'
<1> DEFINE Good(k) ==
        /\ runs[k] <= failures[k] + 1
        /\ jobState[k] \notin {"running", "completed"} => runs[k] <= failures[k]
        /\ turnResult[k] # NoResult =>
              jobState[k] = "completed" /\ turnResult[k] = runs[k]
        /\ \A w \in Workers : Holds(w, k) =>
              /\ workerPc[w] = "execute" => runs[k] <= failures[k]
              /\ workerPc[w] = "complete" => workerResult[w] = runs[k]
<1> SUFFICES ASSUME NEW k \in Keys, ~degraded'[k] PROVE Good(k)'
  BY DEF RunsAreRecorded
<1>1. ~degraded[k]
  BY RowsStay DEF IndInv
<1>2. Good(k)
  BY <1>1 DEF IndInv, RunsAreRecorded
<1>3. runs[k] \in Nat /\ failures[k] \in Nat
  BY DEF IndInv, TypeOK
<1>4. \A c \in Calls : callKey[c] = k => callPc[c] \notin {"inline", "complete"}
  BY <1>1 DEF IndInv, InlineIsFlagged
<1>5. \A w \in Workers : Holds(w, k) => jobState[k] = "running" /\ turnResult[k] = NoResult
  BY <1>1, <1>2 DEF IndInv, ClaimIsLock
<1>6. ASSUME NEW w \in Workers,
             Holds(w, k), workerPc[w] = "execute", workerPc'[w] # "execute",
             runs'[k] = runs[k] + 1, failures'[k] = failures[k], UNCHANGED tables,
             workerPc'[w] = "complete" => workerResult'[w] = runs[k] + 1
      PROVE  Good(k)'
  <2>1. runs[k] <= failures[k] /\ jobState'[k] = "running" /\ turnResult'[k] = NoResult
    BY <1>2, <1>5, <1>6 DEF tables
  <2>2. \A v \in Workers : Holds(v, k)' => v = w
    BY <1>6, HolderStaysAlone
  <2> QED
    BY <1>3, <1>6, <2>1, <2>2 DEF Holds
<1>7. ASSUME NEW w \in Workers,
             Holds(w, k), workerPc[w] = "markFailed", workerPc'[w] = "retry",
             runs'[k] = runs[k], failures'[k] = failures[k] + 1, MarkTurnFailed(k)
      PROVE  Good(k)'
  <2>1. jobState'[k] = "failed" /\ turnResult'[k] = NoResult
    BY <1>5, <1>7 DEF MarkTurnFailed, IndInv, TypeOK, TablesTypeOK
  <2>2. \A v \in Workers : ~Holds(v, k)'
    BY <1>7, HolderStaysAlone DEF Holds
  <2> QED
    BY <1>2, <1>3, <1>7, <2>1, <2>2
<1>8. ASSUME runs'[k] = runs[k], failures'[k] = failures[k] PROVE Good(k)'
  <2> USE DEF IndInv, TypeOK, TablesTypeOK
  <2>1. ASSUME NEW w \in Workers, Holds(w, k)'
        PROVE  /\ workerPc'[w] = "execute" => runs[k] <= failures[k]
               /\ workerPc'[w] = "complete" => workerResult'[w] = runs[k]
    <3>1. CASE Execute(w) /\ workerKey[w] = k
      BY <1>3, <1>8, <3>1 DEF Execute, RunEnds
    <3>2. CASE Holds(w, k) /\ ~Execute(w)
      BY <1>2, <2>1, <3>2, HoldersClaim DEF Holds
    <3>3. CASE ~Holds(w, k)
      <4>1. /\ ~ClaimIsCompleted(k) /\ ~ClaimIsBusy(k)
            /\ workerPc'[w] = "execute"
        BY <2>1, <3>3, HoldersClaim
      <4> QED
        BY <1>2, <4>1 DEF ClaimIsCompleted, ClaimIsBusy
    <3> QED
      BY <3>1, <3>2, <3>3 DEF Holds
  <2>2. /\ jobState'[k] \notin {"running", "completed"} => runs[k] <= failures[k]
        /\ turnResult'[k] # NoResult =>
              jobState'[k] = "completed" /\ turnResult'[k] = runs[k]
    <3>1. CASE UNCHANGED tables
      BY <1>2, <3>1 DEF tables
    <3>2. ASSUME NEW c \in Calls, NEW j \in Keys, ApiWrites(c, j)
          PROVE  /\ turnResult'[k] = turnResult[k]
                 /\ jobState[k] \in {"running", "completed"} => jobState'[k] = jobState[k]
      BY <1>4, <3>2 DEF ApiWrites, PublishEvent, InsertBundle, MarkTurnQueued,
          MarkTurnDegraded, CompleteTurn, RowsAgree
    <3>3. ASSUME NEW w \in Workers, NEW j \in Keys, WorkerWrites(w, j), j # k
          PROVE  turnResult'[k] = turnResult[k] /\ jobState'[k] = jobState[k]
      BY <3>3 DEF WorkerWrites, ClaimTurn, CompleteTurn, MarkTurnFailed
    <3>4. ASSUME NEW w \in Workers, WorkerWrites(w, k)
          PROVE  /\ jobState'[k] \in {"running", "completed"}
                 /\ turnResult'[k] # NoResult =>
                       jobState'[k] = "completed" /\ turnResult'[k] = runs[k]
      <4>1. CASE workerPc[w] = "claim" /\ ClaimTurn(k) /\ ~ClaimIsCompleted(k)
        BY <1>2, <4>1 DEF ClaimTurn, ClaimIsCompleted
      <4>2. CASE workerPc[w] = "complete" /\ CompleteTurn(k, workerResult[w])
        <5>1. Holds(w, k)
          BY <3>4, <4>2 DEF WorkerWrites, Holds
        <5> QED
          BY <1>2, <4>2, <5>1 DEF CompleteTurn
      <4>3. workerPc[w] # "markFailed"
        BY <1>3, <1>8, <3>4 DEF WorkerWrites
      <4> QED
        BY <3>4, <4>1, <4>2, <4>3 DEF WorkerWrites
    <3> QED
      BY <1>2, <3>1, <3>2, <3>3, <3>4, TableWrites
  <2> QED
    BY <1>2, <1>8, <2>1, <2>2
<1> HIDE DEF Good
<1> QED
  BY <1>4, <1>6, <1>7, <1>8, HistoryWrites

\* The row of an unflagged turn does not change under an answer given from it.
LEMMA AnswersAgreeStep ==
    ASSUME IndInv, [Next]_vars PROVE AnswersAgree'
<1> SUFFICES ASSUME NEW c \in Calls, NEW k \in Keys,
                    callKey'[c] = k, callReply'[c] = "result", ~degraded'[k]
             PROVE  turnState'[k] = "completed" /\ turnResult'[k] = callResult'[c]
  BY DEF AnswersAgree
<1> USE DEF IndInv
<1>1. ~degraded[k]
  BY RowsStay
<1>2. CASE ReadBundle(c) \/ WaitEnds(c)
  BY <1>2 DEF ReadBundle, WaitEnds, CallGoes, Reply, TypeOK, CallsTypeOK, tables,
      InlineIsFlagged
<1>3. CASE CompleteInline(c)
  BY <1>1, <1>3 DEF CompleteInline, Reply, InlineIsFlagged
<1>4. CASE callReply[c] = "result" /\ callKey[c] = k /\ callResult'[c] = callResult[c]
  <2>1. turnState[k] = "completed" /\ turnResult[k] = callResult[c]
    BY <1>1, <1>4 DEF AnswersAgree
  <2>2. ~(\E w \in Workers : Holds(w, k))
    BY <1>1, <2>1 DEF ClaimIsLock, RowsAgree
  <2>3. CASE UNCHANGED tables
    BY <1>4, <2>1, <2>3 DEF tables
  <2>4. ASSUME NEW b \in Calls, NEW j \in Keys, ApiWrites(b, j)
        PROVE  turnState'[k] = turnState[k] /\ turnResult'[k] = turnResult[k]
    <3>1. j = k => callPc[b] # "complete"
      BY <1>1, <2>4 DEF ApiWrites, InlineIsFlagged
    <3> QED
      BY <2>1, <2>4, <3>1 DEF ApiWrites, PublishEvent, InsertBundle, MarkTurnQueued,
          MarkTurnDegraded, CompleteTurn, TypeOK, TablesTypeOK
  <2>5. ASSUME NEW w \in Workers, NEW j \in Keys, WorkerWrites(w, j)
        PROVE  turnState'[k] = turnState[k] /\ turnResult'[k] = turnResult[k]
    <3>1. j # k
      BY <2>1, <2>2, <2>5 DEF WorkerWrites, Holds, ClaimIsCompleted, RowsAgree
    <3> QED
      BY <2>5, <3>1 DEF WorkerWrites, ClaimTurn, CompleteTurn, MarkTurnFailed,
          TypeOK, TablesTypeOK
  <2> QED
    BY <1>4, <2>1, <2>3, <2>4, <2>5, TableWrites
<1>5. CASE CallStep(c) /\ ~ReadBundle(c) /\ ~WaitEnds(c) /\ ~CompleteInline(c)
  BY <1>5 DEF CallStep, CreateBundle, ListPending, Enqueue, EnqueueFails, MarkPublished,
      MarkQueued, Degrade, ExecuteInline, ExecuteInlineFails, CallGoes, Reply, TypeOK,
      CallsTypeOK, InlineIsFlagged
<1>6. CASE (\E j \in Keys : Submit(c, j)) \/ CallLost(c)
  BY <1>6 DEF Submit, CallLost, Reply, TypeOK, CallsTypeOK, InlineIsFlagged
<1> QED
  BY <1>2, <1>3, <1>4, <1>5, <1>6, CallMoves

-----------------------------------------------------------------------------
(* The results.                                                            *)

\* The strengthening IndInv holds in every reachable state: whatever handlers
\* and workers interleave and whichever fail, the claim is a lock, inline
\* execution is flagged and nothing happens to a turn that has no bundle.
THEOREM Invariance == Spec => []IndInv
<1>1. IndInv /\ [Next]_vars => IndInv'
  BY TypeStep, RowsAgreeStep, NothingBeforeBundleStep, OneWorkerStep, ClaimIsLockStep,
     InlineIsFlaggedStep, RunsAreRecordedStep, AnswersAgreeStep DEF IndInv
<1> QED
  BY InvInit, <1>1, PTL DEF Spec

\* The turn, its job, its result and its outbox event never contradict each
\* other, under every fault.
THEOREM RowsAlwaysAgree == Spec => []RowsAgree
<1>1. IndInv => RowsAgree
  BY DEF IndInv
<1> QED
  BY <1>1, Invariance, PTL

\* The claim is a mutual exclusion for any number of workers and duplicates.
THEOREM MutualExclusion == Spec => []OneWorkerPerTurn
<1>1. IndInv => OneWorkerPerTurn
  BY DEF IndInv
<1> QED
  BY <1>1, Invariance, PTL

\* However many workers, duplicates, retries and failures there are, a turn that
\* was never degraded is run again only after every failure before was recorded,
\* and not at all once it has a result.
THEOREM RepetitionAlwaysFollowsFailure == Spec => []RepetitionFollowsFailure
<1>1. IndInv => RepetitionFollowsFailure
  BY DEF IndInv, RunsAreRecorded, RepetitionFollowsFailure
<1> QED
  BY <1>1, Invariance, PTL

\* Answers given for a turn that was never degraded stay the row's answer.
THEOREM AnswersAlwaysAgree == Spec => []AnswersAgree
<1>1. IndInv => AnswersAgree
  BY DEF IndInv
<1> QED
  BY <1>1, Invariance, PTL

-----------------------------------------------------------------------------
(* ChatTurn implements TurnLifecycle: every write to the tables is a step  *)
(* of the lifecycle or leaves the columns it speaks of alone.              *)

\* Every step of the protocol is a step of the abstract lifecycle, seen
\* through the turn's state, result and flag, or a stutter.
LEMMA LifecycleStep ==
    ASSUME IndInv, [Next]_vars
    PROVE  [Lifecycle!Next]_(Lifecycle!lifecycleVars)
<1> DEFINE Same == UNCHANGED <<turnState, turnResult, degraded>>
<1> USE DEF IndInv, TypeOK, TablesTypeOK
<1>1. CASE UNCHANGED tables
  BY <1>1 DEF tables, Lifecycle!lifecycleVars
<1>2. ASSUME NEW c \in Calls, NEW k \in Keys, ApiWrites(c, k)
      PROVE  Lifecycle!Next \/ Same
  <2>1. CASE turnState[k] = "none" /\ InsertBundle(k)
    <3>1. Lifecycle!Accept(k)
      BY <2>1 DEF InsertBundle, Lifecycle!Accept
    <3> QED
      BY <3>1 DEF Lifecycle!Next
  <2>2. CASE PublishEvent(k)
    BY <2>2 DEF PublishEvent
  <2>3. CASE MarkTurnQueued(k)
    <3>1. CASE turnState[k] = "accepted"
      <4>1. Lifecycle!Queue(k)
        BY <2>3, <3>1 DEF MarkTurnQueued, Lifecycle!Queue
      <4> QED
        BY <4>1 DEF Lifecycle!Next
    <3>2. CASE turnState[k] # "accepted"
      BY <2>3, <3>2 DEF MarkTurnQueued
    <3> QED
      BY <3>1, <3>2
  <2>4. CASE callPc[c] = "degrade" /\ MarkTurnDegraded(k)
    <3>1. turnState[k] # "none"
      BY <1>2, <2>4 DEF ApiWrites, NothingBeforeBundle
    <3>2. Lifecycle!Degrade(k)
      BY <2>4, <3>1 DEF MarkTurnDegraded, Lifecycle!Degrade
    <3> QED
      BY <3>2 DEF Lifecycle!Next
  <2>5. CASE callPc[c] = "complete" /\ CompleteTurn(k, callResult[c])
    <3>1. /\ turnState[k] # "none" /\ degraded[k]
          /\ callResult[c] \in Nat \ {0}
      BY <1>2, <2>5
      DEF ApiWrites, NothingBeforeBundle, InlineIsFlagged, CallsTypeOK, NoResult
    <3>2. Lifecycle!Succeed(k)
      BY <2>5, <3>1 DEF CompleteTurn, Lifecycle!Succeed
    <3> QED
      BY <3>2 DEF Lifecycle!Next
  <2> QED
    BY <1>2, <2>1, <2>2, <2>3, <2>4, <2>5 DEF ApiWrites
<1>3. ASSUME NEW w \in Workers, NEW k \in Keys, WorkerWrites(w, k)
      PROVE  Lifecycle!Next
  <2>1. CASE ClaimTurn(k) /\ workerPc[w] = "claim" /\ ~ClaimIsCompleted(k) /\ ~ClaimIsBusy(k)
    <3>1. turnState[k] \in {"accepted", "queued", "failed"}
      BY <1>3, <2>1 DEF WorkerWrites, ClaimIsCompleted, ClaimIsBusy, RowsAgree,
          NothingBeforeBundle, TurnStates
    <3>2. Lifecycle!Start(k)
      BY <2>1, <3>1 DEF ClaimTurn, Lifecycle!Start
    <3> QED
      BY <3>2 DEF Lifecycle!Next
  <2>2. CASE workerPc[w] = "complete" /\ CompleteTurn(k, workerResult[w])
    <3>1. Holds(w, k)
      BY <1>3, <2>2 DEF Holds, WorkerWrites
    <3>2. /\ turnState[k] = "running" \/ (turnState[k] # "none" /\ degraded[k])
          /\ workerResult[w] \in Nat \ {0}
      BY <2>2, <3>1 DEF ClaimIsLock, RowsAgree, WorkersTypeOK, NoResult
    <3>3. Lifecycle!Succeed(k)
      BY <2>2, <3>2 DEF CompleteTurn, Lifecycle!Succeed
    <3> QED
      BY <3>3 DEF Lifecycle!Next
  <2>3. CASE workerPc[w] = "markFailed" /\ MarkTurnFailed(k)
    <3>1. Holds(w, k)
      BY <1>3, <2>3 DEF Holds, WorkerWrites
    <3>2. turnState[k] = "running" \/ (turnState[k] = "completed" /\ degraded[k])
      BY <3>1 DEF ClaimIsLock, RowsAgree
    <3>3. Lifecycle!Fail(k)
      BY <2>3, <3>2 DEF MarkTurnFailed, Lifecycle!Fail
    <3> QED
      BY <3>3 DEF Lifecycle!Next
  <2> QED
    BY <1>3, <2>1, <2>2, <2>3 DEF WorkerWrites
<1> QED
  BY <1>1, <1>2, <1>3, TableWrites DEF Lifecycle!lifecycleVars

\* The rows follow the abstract lifecycle: attempts do not overlap, a late
\* mark_chat_turn_queued never takes a turn back, and a completed turn that was
\* never degraded is final.
THEOREM LifecycleImplemented == Spec => ImplementsLifecycle
<1>1. Init => Lifecycle!Init
  BY DEF Init, Lifecycle!Init, NoResult
<1>2. IndInv /\ [Next]_vars => [Lifecycle!Next]_(Lifecycle!lifecycleVars)
  BY LifecycleStep
<1> QED
  BY <1>1, <1>2, Invariance, PTL DEF Spec, ImplementsLifecycle, Lifecycle!Spec

-----------------------------------------------------------------------------
(* What nobody touches any more.                                           *)

\* An answer once recorded is final for as long as the turn is not flagged:
\* no late handler, duplicated message, retry or second submission changes the
\* state or the result of the row, or runs the engine again.  (The lifecycle
\* says so of the row; that no work is wasted on it is known only here.)
CompletedIsFinal ==
    [][\A k \in Keys : turnState[k] = "completed" /\ ~degraded[k] =>
          /\ turnState'[k] = "completed"
          /\ turnResult'[k] = turnResult[k]
          /\ runs'[k] = runs[k]]_vars

LEMMA CompletedStays ==
    ASSUME IndInv, [Next]_vars, NEW k \in Keys, turnState[k] = "completed", ~degraded[k]
    PROVE  /\ turnState'[k] = "completed"
           /\ turnResult'[k] = turnResult[k]
           /\ runs'[k] = runs[k]
<1>1. \A w \in Workers : ~Holds(w, k)
  BY DEF IndInv, RowsAgree, ClaimIsLock
<1>2. \A c \in Calls : callKey[c] = k => callPc[c] \notin {"inline", "complete"}
  BY DEF IndInv, InlineIsFlagged
<1>3. runs'[k] = runs[k]
  BY <1>1, <1>2, HistoryWrites
<1> USE DEF IndInv, TypeOK, TablesTypeOK
<1>4. turnState'[k] = "completed" /\ turnResult'[k] = turnResult[k]
  <2>1. CASE UNCHANGED tables
    BY <2>1 DEF tables
  <2>2. ASSUME NEW c \in Calls, NEW j \in Keys, ApiWrites(c, j)
        PROVE  turnState'[k] = "completed" /\ turnResult'[k] = turnResult[k]
    BY <1>2, <2>2 DEF ApiWrites, InsertBundle, PublishEvent, MarkTurnQueued,
        MarkTurnDegraded, CompleteTurn
  <2>3. ASSUME NEW w \in Workers, NEW j \in Keys, WorkerWrites(w, j)
        PROVE  turnState'[k] = "completed" /\ turnResult'[k] = turnResult[k]
    <3>1. CASE j = k
      <4>1. ClaimIsCompleted(k)
        BY DEF RowsAgree, ClaimIsCompleted
      <4>2. QED
        BY <1>1, <2>3, <3>1, <4>1 DEF WorkerWrites, Holds
    <3>2. CASE j # k
      BY <2>3, <3>2 DEF WorkerWrites, ClaimTurn, CompleteTurn, MarkTurnFailed
    <3> QED
      BY <3>1, <3>2
  <2> QED
    BY <2>1, <2>2, <2>3, TableWrites
<1> QED
  BY <1>3, <1>4

\* A completed turn that is not flagged is final in every step, for any number
\* of submissions, workers, messages and failures.
THEOREM CompletedAlwaysFinal == Spec => CompletedIsFinal
<1>1. IndInv /\ [Next]_vars =>
         [\A k \in Keys : turnState[k] = "completed" /\ ~degraded[k] =>
             /\ turnState'[k] = "completed"
             /\ turnResult'[k] = turnResult[k]
             /\ runs'[k] = runs[k]]_vars
  BY CompletedStays
<1> QED
  BY <1>1, Invariance, PTL DEF Spec, CompletedIsFinal

-----------------------------------------------------------------------------
(* No task is lost, where no worker dies and the database does not fail.   *)

\* What the delivery of tasks takes for granted.
Reliable == Faults \cap {"worker_crash", "database"} = {}

\* A message of the turn waits in the broker, or a worker is about to claim it.
Handed(k) ==
    \/ \E a \in Attempts : queue[k][a] > 0
    \/ \E w \in Workers : workerKey[w] = k /\ workerPc[w] = "claim"

\* A handler that has sent the task and not yet marked the turn queued knows
\* that the task is there, unless the turn has moved on.
SentIsHanded ==
    \A c \in Calls :
        /\ callPc[c] \in {"markPublished", "markQueued"}
        /\ turnState[callKey[c]] = "accepted"
        => Handed(callKey[c])

\* A turn stays handed over until it is claimed: a message is taken only by a
\* worker that goes on to claim, and its claim fails only on a turn that is
\* running or completed.
LEMMA HandedStep ==
    ASSUME Reliable, IndInv, [Next]_vars, NEW k \in Keys, Handed(k),
           turnState'[k] \in {"accepted", "queued"}
    PROVE  Handed(k)'
<1> USE DEF IndInv, TypeOK
<1>1. ASSUME NEW a \in Attempts, queue[k][a] > 0 PROVE Handed(k)'
  <2>1. ASSUME NEW c \in Calls, CallStep(c) \/ CallLost(c) \/ \E j \in Keys : Submit(c, j)
        PROVE  queue'[k][a] > 0
    <3>1. CASE Enqueue(c)
      BY <1>1, <3>1, BusyHasKey, RetriesAssumption DEF Enqueue, SendTask, Attempts
    <3> QED
      BY <1>1, <2>1, <3>1
      DEF CallStep, ReadBundle, CreateBundle, ListPending, EnqueueFails, MarkPublished,
          MarkQueued, Degrade, ExecuteInline, ExecuteInlineFails, CompleteInline, WaitEnds,
          CallLost, Submit
  <2>2. ASSUME NEW w \in Workers, NEW j \in Keys, NEW b \in Attempts, Receive(w, j, b)
        PROVE  Handed(k)'
    <3>1. CASE j = k /\ b = a
      BY <2>2, <3>1 DEF Receive, WorkersTypeOK, Handed
    <3>2. CASE ~(j = k /\ b = a)
      BY <1>1, <2>2, <3>2 DEF Receive, Handed
    <3> QED
      BY <3>1, <3>2
  <2>3. ASSUME NEW w \in Workers, Retry(w) PROVE queue'[k][a] > 0
    <3>1. CASE workerAttempt[w] < MaxRetries /\ SendTask(workerKey[w], workerAttempt[w] + 1)
      BY <1>1, <2>3, <3>1, BusyHasKey, RetriesAssumption
      DEF Retry, SendTask, WorkersTypeOK, Attempts
    <3> QED
      BY <1>1, <2>3, <3>1 DEF Retry
  <2>4. ASSUME NEW w \in Workers, WorkerCrash(w) \/ Claim(w) \/ Execute(w) \/ ExecuteFails(w)
                                  \/ Complete(w) \/ MarkFailed(w) \/ TaskRaises(w)
        PROVE  queue'[k][a] > 0
    BY <1>1, <2>4
    DEF WorkerCrash, Claim, Execute, ExecuteFails, Complete, MarkFailed, TaskRaises
  <2>5. CASE UNCHANGED vars
    BY <1>1, <2>5 DEF vars, Handed
  <2> HIDE DEF IndInv, TypeOK
  <2> QED
    BY <2>1, <2>2, <2>3, <2>4, <2>5 DEF Next, WorkerStep, Handed
<1>2. ASSUME NEW w \in Workers, workerKey[w] = k, workerPc[w] = "claim" PROVE Handed(k)'
  <2>1. CASE WorkerStep(w)
    <3>1. Claim(w)
      BY <1>2, <2>1 DEF Reliable, WorkerStep, Receive, Execute, ExecuteFails, Complete,
         MarkFailed, TaskRaises, Retry
    <3>2. CASE (ClaimIsCompleted(k) \/ ClaimIsBusy(k)) /\ UNCHANGED tables
      BY <3>2 DEF ClaimIsCompleted, ClaimIsBusy, RowsAgree, tables
    <3>3. CASE ClaimTurn(k)
      BY <3>3 DEF ClaimTurn, TablesTypeOK
    <3> QED
      BY <1>2, <3>1, <3>2, <3>3 DEF Claim
  <2>2. CASE ~WorkerStep(w)
    BY <1>2, <2>2, WorkerMoves DEF Reliable, WorkerCrash, Handed
  <2> QED
    BY <2>1, <2>2
<1> QED
  BY <1>1, <1>2 DEF Handed

\* Whatever writes the state of a turn: from "none" it becomes accepted, from
\* accepted queued by a handler that has sent the task; running only by a claim.
LEMMA StateWrites ==
    ASSUME IndInv, [Next]_vars, NEW k \in Keys, turnState'[k] # turnState[k]
    PROVE  \/ turnState[k] = "none" /\ turnState'[k] = "accepted"
           \/ /\ turnState[k] = "accepted" /\ turnState'[k] = "queued"
              /\ \E c \in Calls : callKey[c] = k /\ callPc[c] = "markQueued"
           \/ turnState'[k] = "running" /\ \E w \in Workers : Holds(w, k)'
           \/ turnState'[k] \in {"completed", "failed"}
<1> USE DEF IndInv, TypeOK, TablesTypeOK
<1>1. CASE UNCHANGED tables
  BY <1>1 DEF tables
<1>2. ASSUME NEW c \in Calls, NEW j \in Keys, ApiWrites(c, j)
      PROVE  \/ turnState[k] = "none" /\ turnState'[k] = "accepted"
             \/ /\ turnState[k] = "accepted" /\ turnState'[k] = "queued"
                /\ \E b \in Calls : callKey[b] = k /\ callPc[b] = "markQueued"
             \/ turnState'[k] \in {"completed", "failed"}
  BY <1>2 DEF ApiWrites, InsertBundle, PublishEvent, MarkTurnQueued, MarkTurnDegraded, CompleteTurn
<1>3. ASSUME NEW w \in Workers, NEW j \in Keys, WorkerWrites(w, j)
      PROVE  \/ turnState'[k] = "running" /\ \E v \in Workers : Holds(v, k)'
             \/ turnState'[k] \in {"completed", "failed"}
  BY <1>3 DEF WorkerWrites, ClaimTurn, CompleteTurn, MarkTurnFailed, WorkerGoes, WorkersTypeOK, Holds
<1> QED
  BY <1>1, <1>2, <1>3, TableWrites

\* A running turn keeps its worker: it lets go only with the turn completed or failed.
LEMMA HolderStep ==
    ASSUME Reliable, IndInv, [Next]_vars, NEW k \in Keys, NEW w \in Workers, Holds(w, k),
           turnState'[k] = "running"
    PROVE  Holds(w, k)'
<1> USE DEF IndInv, TypeOK, WorkersTypeOK
<1>1. CASE Complete(w) \/ MarkFailed(w)
  BY <1>1 DEF Complete, MarkFailed, CompleteTurn, MarkTurnFailed, TablesTypeOK, Holds
<1>2. CASE WorkerStep(w) /\ ~Complete(w) /\ ~MarkFailed(w)
  BY <1>2 DEF Reliable, WorkerStep, Receive, Claim, Execute, ExecuteFails, TaskRaises, Retry,
     WorkerGoes, Holds
<1>3. CASE ~WorkerStep(w)
  BY <1>3, WorkerMoves DEF Reliable, WorkerCrash, Holds
<1> QED
  BY <1>1, <1>2, <1>3

\* Sending the task is what brings a handler to the marks.
LEMMA SentIsHandedStep ==
    ASSUME Reliable, IndInv, SentIsHanded, [Next]_vars PROVE SentIsHanded'
<1> SUFFICES ASSUME NEW c \in Calls, callPc'[c] \in {"markPublished", "markQueued"},
                    turnState'[callKey'[c]] = "accepted"
             PROVE  Handed(callKey[c])'
  BY DEF SentIsHanded, Handed
<1> USE DEF IndInv, TypeOK, CallsTypeOK
<1>1. CASE Enqueue(c)
  <2>1. callKey'[c] = callKey[c] /\ callKey[c] \in Keys
    BY <1>1, BusyHasKey DEF Enqueue, CallGoes
  <2>2. 0 \in Attempts /\ queue'[callKey[c]][0] > 0
    BY <1>1, <2>1, RetriesAssumption DEF Enqueue, SendTask, Attempts
  <2> QED
    BY <2>1, <2>2 DEF Handed
<1>2. CASE ~Enqueue(c)
  <2>1. /\ callKey'[c] = callKey[c] /\ callKey[c] \in Keys
        /\ callPc[c] \in {"markPublished", "markQueued"}
    <3>1. CASE CallStep(c)
      BY <1>2, <3>1, BusyHasKey
      DEF CallStep, ReadBundle, CreateBundle, ListPending, EnqueueFails, MarkPublished,
          MarkQueued, Degrade, ExecuteInline, ExecuteInlineFails, CompleteInline, WaitEnds,
          CallGoes, Reply
    <3>2. CASE CallLost(c)
      BY <3>2 DEF CallLost, Reply
    <3>3. CASE \E j \in Keys : Submit(c, j)
      BY <3>3 DEF Submit
    <3> QED
      BY <3>1, <3>2, <3>3, CallMoves, BusyHasKey
  <2> DEFINE k == callKey[c]
  <2>2. turnState[k] # "none"
    BY <2>1 DEF NothingBeforeBundle
  <2>3. turnState[k] = "accepted"
    BY <2>1, <2>2, StateWrites
  <2>4. Handed(k)
    BY <2>1, <2>3 DEF SentIsHanded
  <2>5. Handed(k)'
    BY <2>1, <2>4, HandedStep
  <2> QED
    BY <2>1, <2>5 DEF Handed
<1> QED
  BY <1>1, <1>2

\* No step of the turn loses its task while the broker delivers.
LEMMA NoTaskLostStep ==
    ASSUME Reliable, IndInv, SentIsHanded, NoTaskLost, [Next]_vars PROVE NoTaskLost'
<1>1. ASSUME NEW k \in Keys, turnState'[k] = "queued" PROVE Handed(k)'
  <2>1. CASE turnState[k] = "queued"
    BY <1>1, <2>1, HandedStep DEF NoTaskLost, Handed
  <2>2. CASE turnState[k] # "queued"
    <3>1. turnState[k] = "accepted" /\ \E c \in Calls : callKey[c] = k /\ callPc[c] = "markQueued"
      BY <1>1, <2>2, StateWrites
    <3>2. Handed(k)
      BY <3>1 DEF SentIsHanded
    <3> QED
      BY <1>1, <3>2, HandedStep
  <2> QED
    BY <2>1, <2>2
<1>2. ASSUME NEW k \in Keys, turnState'[k] = "running" PROVE \E w \in Workers : Holds(w, k)'
  <2>1. CASE turnState[k] = "running"
    BY <1>2, <2>1, HolderStep DEF NoTaskLost
  <2>2. CASE turnState[k] # "running"
    BY <1>2, <2>2, StateWrites
  <2> QED
    BY <2>1, <2>2
<1> QED
  BY <1>1, <1>2 DEF NoTaskLost, Handed

\* A queued turn has a message in the broker or a worker about to claim it, and
\* a running one has its worker, for any numbers of handlers, workers and
\* retries, although handlers die, the broker refuses and the engine raises.
THEOREM NoTaskEverLost == ASSUME Reliable PROVE Spec => []NoTaskLost
<1>1. Init => SentIsHanded /\ NoTaskLost
  BY DEF Init, SentIsHanded, NoTaskLost
<1>2. IndInv /\ SentIsHanded /\ NoTaskLost /\ [Next]_vars => (SentIsHanded /\ NoTaskLost)'
  BY SentIsHandedStep, NoTaskLostStep
<1> QED
  BY <1>1, <1>2, Invariance, PTL DEF Spec
=============================================================================
