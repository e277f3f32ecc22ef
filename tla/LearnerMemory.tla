---------------------------- MODULE LearnerMemory ----------------------------
(***************************************************************************)
(* The persistent memory of a learner: the turns that read it, the         *)
(* synthesis tasks they leave behind and the row the tasks write           *)
(* (TeacherRuntime._maybe_synthesize_memory, the Celery task               *)
(* run_memory_synthesis, session_repository.upsert_learner_memory).        *)
(*                                                                         *)
(* A turn reads history and memory at its start, and hands both, as read,  *)
(* to a task when it is over.  What the language model makes of its prompt *)
(* is abstracted to the turns it was told about: those of the memory and   *)
(* of the history in the prompt.                                           *)
(***************************************************************************)
EXTENDS Integers, FiniteSets, Sequences

CONSTANTS
    HistoryLimit,   \* events in the history, 10 in the code
    SyncInterval,   \* _MEMORY_SYNC_INTERVAL, 5 in the code
    MaxTurns,       \* bound: turns of the learner
    NoMemory            \* no memory row yet

MemoryAssumption == {HistoryLimit, SyncInterval, MaxTurns} \subseteq Nat \ {0}

VARIABLES
    events,     \* teacher_session_events, oldest first: turn and kind
    turns,      \* the turns: kind, pc, and the history and memory they read
    tasks,      \* synthesis tasks by turn: "none", "queued", "asking", "over"
    memory,     \* learner_memory row: the turns it tells of, or NoMemory
    sessionCount, \* the row's session_count
    overlap,    \* history: a turn started while another turn or task was open
    forgotten,  \* history: turns an earlier memory told of and this one does not
    since,      \* history: learner turns ended since a reply last triggered one
    gaps        \* history: values of since at which a reply triggered one

memoryVars == <<events, turns, tasks, memory, sessionCount, overlap, forgotten,
                since, gaps>>

Turn == 1..MaxTurns

\* Kinds of turn: the opening or continuing of a session, a learner reply,
\* and the other events, which carry no message.
EventKinds == {"start", "reply", "other"}

Known == IF memory = NoMemory THEN {} ELSE memory

\* list_recent_session_events, by their number.
LastEvents(n) == {i \in DOMAIN events : i > Len(events) - n}

\* _get_conversation_history: the learner messages among the last events.
History == {events[i].turn : i \in {j \in LastEvents(HistoryLimit) : events[j].kind = "reply"}}

----------------------------------------------------------------------------
InitMemory ==
    /\ events = <<>>
    /\ turns = [t \in Turn |-> [kind |-> "none", pc |-> "idle",
                                history |-> {}, memory |-> {}]]
    /\ tasks = [t \in Turn |-> "none"]
    /\ memory = NoMemory
    /\ sessionCount = 0
    /\ overlap = FALSE
    /\ forgotten = {}
    /\ since = 0
    /\ gaps = {}

Open(t) == turns[t].pc \in {"working", "ended"} \/ tasks[t] \in {"queued", "asking"}

\* execute_session_inner loads history and memory.
StartTurn(t, kind) ==
    /\ turns[t].pc = "idle"
    /\ \A u \in 1..(t - 1) : turns[u].pc # "idle"
    /\ turns' = [turns EXCEPT ![t] = [kind |-> kind, pc |-> "working",
                                      history |-> History, memory |-> Known]]
    /\ overlap' = (overlap \/ \E u \in Turn : Open(u))
    /\ UNCHANGED <<events, tasks, memory, sessionCount, forgotten, since, gaps>>

\* _record_session_event, in the handler of the turn.
RecordEvent(t) ==
    /\ turns[t].pc = "working"
    /\ events' = Append(events, [turn |-> t, kind |-> turns[t].kind])
    /\ turns' = [turns EXCEPT ![t].pc = "ended"]
    /\ since' = IF turns[t].kind = "reply" THEN since + 1 ELSE since
    /\ UNCHANGED <<tasks, memory, sessionCount, overlap, forgotten, gaps>>

\* The condition on the number of learner messages in the history.
ShouldRun(t) ==
    LET count == Cardinality(turns[t].history) IN
    /\ count > 0
    /\ count % SyncInterval = 0 \/ turns[t].kind = "start"

\* The task is sent to the broker, or run on the event loop when that fails;
\* it carries the history and the memory the turn has read.
EnqueueSynthesis(t) ==
    /\ turns[t].pc = "ended"
    /\ turns' = [turns EXCEPT ![t].pc = "done"]
    /\ tasks' = [tasks EXCEPT ![t] = "queued"]
    /\ LET byReply == ShouldRun(t) /\ turns[t].kind = "reply" IN
       /\ since' = IF byReply THEN 0 ELSE since
       /\ gaps' = IF byReply THEN gaps \union {since} ELSE gaps
    /\ UNCHANGED <<events, memory, sessionCount, overlap, forgotten>>

\* A task decides, and reads evaluations and debts for the prompt.
BeginSynthesis(t) ==
    /\ tasks[t] = "queued"
    /\ tasks' = [tasks EXCEPT ![t] = IF ShouldRun(t) THEN "asking" ELSE "over"]
    /\ UNCHANGED <<events, turns, memory, sessionCount, overlap, forgotten, since, gaps>>

\* (mutant: the memory is rewritten from the recent history alone.)
SynthesizedFromHistory(t) == turns[t].history

\* What the answer of the model tells of.
Synthesized(t) == turns[t].memory \union turns[t].history

\* The answer replaces the row, whatever was written since the turn read it.
StoreSynthesis(t) ==
    /\ tasks[t] = "asking"
    /\ memory' = Synthesized(t)
    /\ sessionCount' = sessionCount + 1
    /\ forgotten' = (forgotten \union Known) \ Synthesized(t)
    /\ tasks' = [tasks EXCEPT ![t] = "over"]
    /\ UNCHANGED <<events, turns, overlap, since, gaps>>

\* Every exception is caught and logged, so that the task ends and is not
\* retried; a worker that stops has acknowledged the message already.
SynthesisLost(t) ==
    /\ tasks[t] \in {"queued", "asking"}
    /\ tasks' = [tasks EXCEPT ![t] = "over"]
    /\ UNCHANGED <<events, turns, memory, sessionCount, overlap, forgotten, since, gaps>>

NextMemory ==
    \E t \in Turn :
        \/ \E kind \in EventKinds : StartTurn(t, kind)
        \/ RecordEvent(t) \/ EnqueueSynthesis(t)
        \/ BeginSynthesis(t) \/ StoreSynthesis(t) \/ SynthesisLost(t)

SpecMemory == InitMemory /\ [][NextMemory]_memoryVars

\* The turns one after the other, each after the task of the last.
SpecMemoryInTurn == InitMemory /\ [][NextMemory /\ ~overlap']_memoryVars

----------------------------------------------------------------------------
(* Properties                                                              *)

\* Types of the tables, the turns and the tasks.
TurnState ==
    [kind : EventKinds \union {"none"}, pc : {"idle", "working", "ended", "done"},
     history : SUBSET Turn, memory : SUBSET Turn]

MemoryTypeOK ==
    /\ events \in Seq([turn : Turn, kind : EventKinds])
    /\ turns \in [Turn -> TurnState]
    /\ tasks \in [Turn -> {"none", "queued", "asking", "over"}]
    /\ memory = NoMemory \/ memory \subseteq Turn
    /\ sessionCount \in 0..MaxTurns
    /\ overlap \in BOOLEAN /\ forgotten \subseteq Turn
    /\ since \in Nat /\ gaps \subseteq Nat

\* A memory drops a turn an earlier one told of only where turns overlapped
\* with the synthesis of others: each turn's task starts from the memory that
\* turn read (_maybe_synthesize_memory with upsert_learner_memory).
MemoryForgetsOnlyByOverlap == forgotten # {} => overlap

\* README.md: "Memory synthesis is triggered every N learner turns and on
\* session start/end events".  Two syntheses triggered by replies, whatever
\* starts trigger in between, are N learner turns apart, and the first comes one
\* later, for the reply itself is not in the history it counts; stated for turns
\* that do not overlap.
SynthesisEveryNTurns == ~overlap => gaps \subseteq {SyncInterval, SyncInterval + 1}
----------------------------------------------------------------------------
(* The inductive invariant behind them.                                    *)

\* A turn under way has its kind, and a task comes after its turn.
TasksAfterTurns ==
    \A t \in Turn : /\ turns[t].pc = "working" => turns[t].kind \in EventKinds
                    /\ tasks[t] # "none" => turns[t].pc = "done"

\* Every synthesis that was stored is of a task that is over.
SynthesesCounted == sessionCount <= Cardinality({t \in Turn : tasks[t] = "over"})

\* As long as turns do not overlap, one is open at a time, and it has read all
\* the memory tells of.
AloneKnowsAll ==
    ~overlap =>
        /\ forgotten = {}
        /\ \A t, u \in Turn : Open(t) /\ Open(u) => t = u
        /\ \A t \in Turn : Open(t) => Known \subseteq turns[t].memory

MemoryInv == MemoryTypeOK /\ TasksAfterTurns /\ SynthesesCounted /\ AloneKnowsAll
=============================================================================
