----------------------------- MODULE LearnerProofs -----------------------------
(***************************************************************************)
(* Proofs about LearnerMemory and LearnerProjection, which share nothing:  *)
(* for any numbers of turns, sections, refreshes and evaluations.          *)
(***************************************************************************)
EXTENDS LearnerMemory, LearnerProjection, FiniteSetTheorems, WellFoundedInduction, TLAPS

-----------------------------------------------------------------------------
(* The memory of a learner.                                                *)

\* There are MaxTurns turns.
LEMMA TurnsAreFinite ==
    ASSUME MemoryAssumption
    PROVE  IsFiniteSet(Turn) /\ Cardinality(Turn) = MaxTurns
  <1>1. MaxTurns \in Nat \ {0}
    BY DEF MemoryAssumption
  <1>2. IsFiniteSet(1 .. MaxTurns) /\ Cardinality(1 .. MaxTurns) = IF 1 > MaxTurns THEN 0 ELSE MaxTurns - 1 + 1
    BY <1>1, FS_Interval
  <1>3. QED
    BY <1>1, <1>2 DEF Turn

\* Of more tasks no fewer are over.
LEMMA MoreAreOver ==
    ASSUME MemoryAssumption, NEW S, NEW T, S \subseteq T, T \subseteq Turn
    PROVE  /\ IsFiniteSet(S) /\ Cardinality(S) \in Nat /\ Cardinality(T) \in Nat
           /\ Cardinality(S) <= Cardinality(T) /\ Cardinality(T) <= MaxTurns
  <1>1. IsFiniteSet(T) /\ Cardinality(T) <= MaxTurns
    BY TurnsAreFinite, FS_Subset
  <1>2. IsFiniteSet(S) /\ Cardinality(S) <= Cardinality(T)
    BY <1>1, FS_Subset
  <1>3. QED
    BY <1>1, <1>2, FS_CardinalityType

\* The history a turn reads is of turns.
LEMMA HistoryIsOfTurns ==
    ASSUME MemoryTypeOK
    PROVE  History \subseteq Turn /\ Known \subseteq Turn
  <1>1. \A i \in DOMAIN events : events[i] \in [turn : Turn, kind : EventKinds]
    <2>1. PICK E : E = [turn : Turn, kind : EventKinds]
      OBVIOUS
    <2>2. events \in Seq(E)
      BY <2>1 DEF MemoryTypeOK
    <2>3. \A i \in DOMAIN events : events[i] \in E
      BY <2>2
    <2>4. QED
      BY <2>1, <2>3
  <1>2. \A i \in DOMAIN events : events[i].turn \in Turn
    BY <1>1
  <1>3. QED
    BY <1>2 DEF History, LastEvents, Known, MemoryTypeOK

\* No turn has begun.
LEMMA InitMemoryInv ==
    ASSUME MemoryAssumption, InitMemory
    PROVE  MemoryInv
  <1>1. [kind |-> "none", pc |-> "idle", history |-> {}, memory |-> {}] \in TurnState
    BY DEF TurnState
  <1>2. MemoryTypeOK
    <2>1. MaxTurns \in Nat
      BY DEF MemoryAssumption
    <2>2. sessionCount \in 0 .. MaxTurns
      BY <2>1 DEF InitMemory
    <2>3. turns \in [Turn -> TurnState]
      BY <1>1 DEF InitMemory
    <2>4. events \in Seq([turn : Turn, kind : EventKinds])
      BY DEF InitMemory
    <2>5. QED
      BY <2>2, <2>3, <2>4 DEF InitMemory, MemoryTypeOK
  <1>3. TasksAfterTurns /\ AloneKnowsAll
    BY DEF InitMemory, TasksAfterTurns, AloneKnowsAll, Open
  <1>4. {t \in Turn : tasks[t] = "over"} = {}
    BY DEF InitMemory
  <1>5. SynthesesCounted
    <2>1. Cardinality({}) = 0
      BY FS_EmptySet
    <2>2. Cardinality({t \in Turn : tasks[t] = "over"}) = 0
      BY <1>4, <2>1, Zenon
    <2>3. QED
      BY <2>2 DEF InitMemory, SynthesesCounted
  <1>6. QED
    BY <1>2, <1>3, <1>5 DEF MemoryInv

\* A turn that begins while none is open reads all the memory tells of.
LEMMA StartTurnKeeps ==
    ASSUME MemoryAssumption, MemoryInv, NEW t \in Turn, NEW kind \in EventKinds, StartTurn(t, kind)
    PROVE  MemoryInv'
  <1>1. /\ turns \in [Turn -> TurnState] /\ tasks \in [Turn -> {"none", "queued", "asking", "over"}]
        /\ History \subseteq Turn /\ Known \subseteq Turn
    BY HistoryIsOfTurns DEF MemoryInv, MemoryTypeOK
  <1>2. /\ turns'[t] = [kind |-> kind, pc |-> "working", history |-> History, memory |-> Known]
        /\ \A u \in Turn \ {t} : turns'[u] = turns[u]
    BY <1>1 DEF StartTurn
  <1>3. turns'[t] \in TurnState
    BY <1>1, <1>2 DEF TurnState
  <1>4. /\ turns'[t].kind = kind /\ turns'[t].pc = "working" /\ turns'[t].memory = Known
    BY <1>2
  <1>5. tasks[t] = "none"
    BY DEF StartTurn, MemoryInv, TasksAfterTurns
  <1>6. MemoryTypeOK'
    <2>1. turns' \in [Turn -> TurnState]
      BY <1>1, <1>3 DEF StartTurn
    <2>2. overlap' \in BOOLEAN
      BY DEF StartTurn, MemoryInv, MemoryTypeOK
    <2>3. QED
      BY <2>1, <2>2 DEF StartTurn, MemoryInv, MemoryTypeOK
  <1>7. TasksAfterTurns' /\ SynthesesCounted'
    BY <1>2, <1>4, <1>5 DEF StartTurn, MemoryInv, TasksAfterTurns, SynthesesCounted
  <1>8. AloneKnowsAll'
    <2>1. SUFFICES ASSUME ~overlap'
                   PROVE  AloneKnowsAll'
      BY DEF AloneKnowsAll
    <2>2. ~overlap /\ \A u \in Turn : ~Open(u)
      BY <2>1 DEF StartTurn
    <2>3. \A u \in Turn \ {t} : ~Open(u)'
      BY <1>2, <2>2 DEF Open, StartTurn
    <2>4. Known' = Known /\ forgotten' = {}
      BY <2>2 DEF StartTurn, Known, MemoryInv, AloneKnowsAll
    <2>5. QED
      BY <1>4, <2>3, <2>4 DEF AloneKnowsAll
  <1>9. QED
    BY <1>6, <1>7, <1>8 DEF MemoryInv

\* An open turn stays open until its task is over, and the memory waits.
LEMMA RecordEventKeeps ==
    ASSUME MemoryAssumption, MemoryInv, NEW t \in Turn, RecordEvent(t)
    PROVE  MemoryInv'
  <1>1. turns \in [Turn -> TurnState] /\ events \in Seq([turn : Turn, kind : EventKinds])
    BY DEF MemoryInv, MemoryTypeOK
  <1>2. turns[t].pc = "working" /\ turns[t].kind \in EventKinds /\ tasks[t] = "none"
    BY DEF RecordEvent, MemoryInv, TasksAfterTurns
  <1>3. turns'[t] = [turns[t] EXCEPT !.pc = "ended"] /\ \A u \in Turn \ {t} : turns'[u] = turns[u]
    BY <1>1 DEF RecordEvent
  <1>4. turns[t] \in TurnState
    BY <1>1
  <1>5. turns'[t] \in TurnState
    BY <1>3, <1>4 DEF TurnState
  <1>6. turns'[t].pc = "ended" /\ turns'[t].memory = turns[t].memory
    BY <1>3, <1>4 DEF TurnState
  <1>7. MemoryTypeOK'
    <2>1. turns' = [u \in Turn |-> IF u = t THEN turns'[t] ELSE turns[u]]
      BY <1>1, <1>3 DEF RecordEvent
    <2>2. turns' \in [Turn -> TurnState]
      BY <1>1, <1>5, <2>1
    <2>3. [turn |-> t, kind |-> turns[t].kind] \in [turn : Turn, kind : EventKinds]
      BY <1>2
    <2>4. events' \in Seq([turn : Turn, kind : EventKinds])
      BY <1>1, <2>3 DEF RecordEvent
    <2>5. since' \in Nat
      BY DEF RecordEvent, MemoryInv, MemoryTypeOK
    <2>6. QED
      BY <2>2, <2>4, <2>5 DEF RecordEvent, MemoryInv, MemoryTypeOK
  <1>8. TasksAfterTurns' /\ SynthesesCounted'
    BY <1>2, <1>3, <1>6 DEF RecordEvent, MemoryInv, TasksAfterTurns, SynthesesCounted
  <1>9. AloneKnowsAll'
    <2>1. \A u \in Turn : /\ Open(u)' => Open(u)
                          /\ turns'[u].memory = turns[u].memory
      BY <1>2, <1>3, <1>6 DEF Open, RecordEvent
    <2>2. QED
      BY <2>1 DEF RecordEvent, Known, MemoryInv, AloneKnowsAll
  <1>10. QED
    BY <1>7, <1>8, <1>9 DEF MemoryInv

\* A task queued for a turn that ended is one of that turn only.
LEMMA EnqueueSynthesisKeeps ==
    ASSUME MemoryAssumption, MemoryInv, NEW t \in Turn, EnqueueSynthesis(t)
    PROVE  MemoryInv'
  <1>1. turns \in [Turn -> TurnState] /\ tasks \in [Turn -> {"none", "queued", "asking", "over"}]
    BY DEF MemoryInv, MemoryTypeOK
  <1>2. turns[t].pc = "ended" /\ tasks[t] = "none"
    BY DEF EnqueueSynthesis, MemoryInv, TasksAfterTurns
  <1>3. turns'[t] = [turns[t] EXCEPT !.pc = "done"] /\ \A u \in Turn \ {t} : turns'[u] = turns[u]
    BY <1>1 DEF EnqueueSynthesis
  <1>4. turns[t] \in TurnState
    BY <1>1
  <1>5. turns'[t] \in TurnState
    BY <1>3, <1>4 DEF TurnState
  <1>6. turns'[t].pc = "done" /\ turns'[t].memory = turns[t].memory
    BY <1>3, <1>4 DEF TurnState
  <1>7. tasks'[t] = "queued" /\ \A u \in Turn \ {t} : tasks'[u] = tasks[u]
    BY <1>1 DEF EnqueueSynthesis
  <1>8. MemoryTypeOK'
    <2>1. turns' = [u \in Turn |-> IF u = t THEN turns'[t] ELSE turns[u]]
      BY <1>1, <1>3 DEF EnqueueSynthesis
    <2>2. turns' \in [Turn -> TurnState]
      BY <1>1, <1>5, <2>1
    <2>3. tasks' \in [Turn -> {"none", "queued", "asking", "over"}]
      BY <1>1 DEF EnqueueSynthesis
    <2>4. since' \in Nat /\ gaps' \subseteq Nat
      BY DEF EnqueueSynthesis, MemoryInv, MemoryTypeOK
    <2>5. QED
      BY <2>2, <2>3, <2>4 DEF EnqueueSynthesis, MemoryInv, MemoryTypeOK
  <1>9. TasksAfterTurns'
    BY <1>3, <1>6, <1>7 DEF MemoryInv, TasksAfterTurns
  <1>10. SynthesesCounted'
    <2>1. {u \in Turn : tasks'[u] = "over"} = {u \in Turn : tasks[u] = "over"}
      BY <1>2, <1>7
    <2>2. QED
      BY <2>1 DEF EnqueueSynthesis, MemoryInv, SynthesesCounted
  <1>11. AloneKnowsAll'
    <2>1. \A u \in Turn : /\ Open(u)' => Open(u)
                          /\ turns'[u].memory = turns[u].memory
      BY <1>2, <1>3, <1>6, <1>7 DEF Open
    <2>2. QED
      BY <2>1 DEF EnqueueSynthesis, Known, MemoryInv, AloneKnowsAll
  <1>12. QED
    BY <1>8, <1>9, <1>10, <1>11 DEF MemoryInv

\* A task that asks, or ends without an answer.
LEMMA TaskMovesKeep ==
    ASSUME MemoryAssumption, MemoryInv, NEW t \in Turn, BeginSynthesis(t) \/ SynthesisLost(t)
    PROVE  MemoryInv'
  <1>1. tasks \in [Turn -> {"none", "queued", "asking", "over"}]
    BY DEF MemoryInv, MemoryTypeOK
  <1>2. PICK to \in {"asking", "over"} : tasks' = [tasks EXCEPT ![t] = to]
    BY DEF BeginSynthesis, SynthesisLost
  <1>3. tasks[t] \in {"queued", "asking"}
    BY DEF BeginSynthesis, SynthesisLost
  <1>4. UNCHANGED <<events, turns, memory, sessionCount, overlap, forgotten, since, gaps>>
    BY DEF BeginSynthesis, SynthesisLost
  <1>5. tasks'[t] = to /\ \A u \in Turn \ {t} : tasks'[u] = tasks[u]
    BY <1>1, <1>2
  <1>6. MemoryTypeOK'
    BY <1>1, <1>2, <1>4 DEF MemoryInv, MemoryTypeOK
  <1>7. TasksAfterTurns'
    BY <1>3, <1>4, <1>5 DEF MemoryInv, TasksAfterTurns
  <1>8. SynthesesCounted'
    <2>1. {u \in Turn : tasks[u] = "over"} \subseteq {u \in Turn : tasks'[u] = "over"}
      BY <1>3, <1>5
    <2>2. PICK S, T : S = {u \in Turn : tasks[u] = "over"} /\ T = {u \in Turn : tasks'[u] = "over"}
      OBVIOUS
    <2>3. Cardinality(S) \in Nat /\ Cardinality(T) \in Nat /\ Cardinality(S) <= Cardinality(T)
      BY <2>1, <2>2, MoreAreOver
    <2>4. sessionCount <= Cardinality(S) /\ sessionCount \in Nat
      BY <2>2 DEF MemoryInv, SynthesesCounted, MemoryTypeOK
    <2>5. sessionCount' <= Cardinality(T)
      BY <1>4, <2>3, <2>4
    <2>6. QED
      BY <2>2, <2>5 DEF SynthesesCounted
  <1>9. AloneKnowsAll'
    <2>1. \A u \in Turn : Open(u)' => Open(u)
      BY <1>3, <1>4, <1>5 DEF Open
    <2>2. QED
      BY <1>4, <2>1 DEF Known, MemoryInv, AloneKnowsAll
  <1>10. QED
    BY <1>6, <1>7, <1>8, <1>9 DEF MemoryInv

\* A task that started from all the memory tells of forgets nothing, and no
\* other turn has read the memory it replaces.
LEMMA StoreSynthesisKeeps ==
    ASSUME MemoryAssumption, MemoryInv, NEW t \in Turn, StoreSynthesis(t)
    PROVE  MemoryInv'
  <1>1. /\ tasks \in [Turn -> {"none", "queued", "asking", "over"}]
        /\ turns[t] \in TurnState
    BY DEF MemoryInv, MemoryTypeOK
  <1>2. tasks[t] = "asking" /\ turns[t].pc = "done" /\ Open(t)
    BY DEF StoreSynthesis, Open, MemoryInv, TasksAfterTurns
  <1>3. tasks'[t] = "over" /\ turns' = turns /\ \A u \in Turn \ {t} : tasks'[u] = tasks[u]
    BY <1>1 DEF StoreSynthesis
  <1>4. Synthesized(t) \subseteq Turn /\ turns[t].memory \subseteq Synthesized(t)
    BY <1>1 DEF Synthesized, TurnState
  <1>5. TasksAfterTurns'
    BY <1>2, <1>3 DEF MemoryInv, TasksAfterTurns
  <1>6. SynthesesCounted' /\ sessionCount' \in 0 .. MaxTurns
    <2>1. PICK S, T : S = {u \in Turn : tasks[u] = "over"} /\ T = {u \in Turn : tasks'[u] = "over"}
      OBVIOUS
    <2>2. T = S \union {t} /\ t \notin S
      BY <1>2, <1>3, <2>1
    <2>3. IsFiniteSet(S) /\ Cardinality(S) \in Nat /\ Cardinality(T) \in Nat /\ Cardinality(T) <= MaxTurns
      BY <2>1, <2>2, MoreAreOver
    <2>4. Cardinality(T) = Cardinality(S) + 1
      BY <2>2, <2>3, FS_AddElement
    <2>5. sessionCount <= Cardinality(S) /\ sessionCount \in Nat /\ sessionCount' = sessionCount + 1
      BY <2>1 DEF StoreSynthesis, MemoryInv, SynthesesCounted, MemoryTypeOK
    <2>6. MaxTurns \in Nat
      BY DEF MemoryAssumption
    <2>7. sessionCount' <= Cardinality(T) /\ sessionCount' \in 0 .. MaxTurns
      BY <2>3, <2>4, <2>5, <2>6
    <2>8. QED
      BY <2>1, <2>7 DEF SynthesesCounted
  <1>7. MemoryTypeOK'
    <2>1. forgotten' \subseteq Turn /\ memory' \subseteq Turn
      BY <1>4, HistoryIsOfTurns DEF StoreSynthesis, MemoryInv, MemoryTypeOK
    <2>2. QED
      BY <1>1, <1>6, <2>1 DEF StoreSynthesis, MemoryInv, MemoryTypeOK
  <1>8. AloneKnowsAll'
    <2>1. SUFFICES ASSUME ~overlap
                   PROVE  AloneKnowsAll'
      BY DEF AloneKnowsAll, StoreSynthesis
    <2>2. forgotten = {} /\ Known \subseteq turns[t].memory /\ \A u \in Turn : Open(u) => u = t
      BY <1>2, <2>1 DEF MemoryInv, AloneKnowsAll
    <2>3. forgotten' = {}
      BY <1>4, <2>2 DEF StoreSynthesis
    <2>4. \A u \in Turn : ~Open(u)'
      BY <1>2, <1>3, <2>2 DEF Open
    <2>5. QED
      BY <2>3, <2>4 DEF AloneKnowsAll
  <1>9. QED
    BY <1>5, <1>6, <1>7, <1>8 DEF MemoryInv

\* The inductive invariant of the learner's memory.
THEOREM MemoryInvariance ==
    ASSUME MemoryAssumption
    PROVE  SpecMemory => []MemoryInv
  <1>1. ASSUME InitMemory
        PROVE  MemoryInv
    BY <1>1, InitMemoryInv
  <1>2. ASSUME MemoryInv, [NextMemory]_memoryVars
        PROVE  MemoryInv'
    <2>1. CASE NextMemory
      <3>1. PICK t \in Turn :
                \/ \E kind \in EventKinds : StartTurn(t, kind)
                \/ RecordEvent(t) \/ EnqueueSynthesis(t)
                \/ BeginSynthesis(t) \/ StoreSynthesis(t) \/ SynthesisLost(t)
        BY <2>1 DEF NextMemory
      <3>2. QED
        BY <1>2, <3>1, StartTurnKeeps, RecordEventKeeps, EnqueueSynthesisKeeps, TaskMovesKeep,
           StoreSynthesisKeeps
    <2>2. CASE UNCHANGED memoryVars
      BY <1>2, <2>2 DEF memoryVars, MemoryInv, MemoryTypeOK, TasksAfterTurns, SynthesesCounted,
         AloneKnowsAll, Open, Known
    <2>3. QED
      BY <1>2, <2>1, <2>2
  <1>3. QED
    BY <1>1, <1>2, PTL DEF SpecMemory

\* The types of the memory, its turns and tasks.
THEOREM MemoryTypeCorrect ==
    ASSUME MemoryAssumption
    PROVE  SpecMemory => []MemoryTypeOK
  <1>1. MemoryInv => MemoryTypeOK
    BY DEF MemoryInv
  <1>2. QED
    BY <1>1, MemoryInvariance, PTL

\* No synthesis drops a turn the memory told of, unless turns overlapped
\* (_maybe_synthesize_memory, upsert_learner_memory).
THEOREM MemoryAlwaysForgetsOnlyByOverlap ==
    ASSUME MemoryAssumption
    PROVE  SpecMemory => []MemoryForgetsOnlyByOverlap
  <1>1. MemoryInv => MemoryForgetsOnlyByOverlap
    BY DEF MemoryInv, AloneKnowsAll, MemoryForgetsOnlyByOverlap
  <1>2. QED
    BY <1>1, MemoryInvariance, PTL

-----------------------------------------------------------------------------
(* The projection: scores and rows.                                        *)

\* A score only decays.
LEMMA DecayBounded ==
    ASSUME NEW n, NEW score \in ScoreRange
    PROVE  Decayed(n, score) \in ScoreRange
  <1>1. score \in Nat /\ score <= 20
    BY DEF ScoreRange
  <1>2. IsFiniteSet(1 .. score) /\ Cardinality(1 .. score) = IF 1 > score THEN 0 ELSE score - 1 + 1
    BY <1>1, FS_Interval
  <1>3. PICK K : K = {k \in 1..score : k * 2^n <= score}
    OBVIOUS
  <1>4. IsFiniteSet(K) /\ Cardinality(K) <= Cardinality(1 .. score)
    BY <1>2, <1>3, FS_Subset
  <1>5. Cardinality(K) \in Nat
    BY <1>4, FS_CardinalityType
  <1>6. Cardinality(K) \in ScoreRange
    BY <1>1, <1>2, <1>4, <1>5, SMTT(30) DEF ScoreRange
  <1>7. QED
    BY <1>3, <1>6 DEF Decayed

\* The columns of a mastery snapshot.
LEMMA SnapshotFields ==
    ASSUME NEW snap \in SnapshotRow
    PROVE  /\ snap.score \in Scores /\ snap.at \in Nat /\ snap.decision \in Decisions
           /\ snap.count \in Nat \ {0} /\ snap.nth \in Nat
  BY DEF SnapshotRow

\* The columns of a topic_progress row.
LEMMA RowFields ==
    ASSUME NEW w \in ProgressRow
    PROVE  /\ w.section \in Sections /\ w.score \in ScoreRange /\ w.decision \in Decisions
           /\ w.of \in Nat \ {0}
  BY DEF ProgressRow

\* What is projected is a row of the section and of its evaluations.
LEMMA ProjectionIsRow ==
    ASSUME ProjectionAssumption, NEW s \in Sections, NEW snap \in SnapshotRow
    PROVE  /\ Projection(s, snap) \in ProgressRow /\ Projection(s, snap) # NoRow
           /\ Projection(s, snap).section = s /\ Projection(s, snap).of = snap.count
  <1>1. snap.score \in ScoreRange
    BY SnapshotFields DEF ProjectionAssumption
  <1>2. PICK n : n = (clock - snap.at - Grace) \div HalfLife
    OBVIOUS
  <1>3. Decayed(n, snap.score) \in ScoreRange
    BY <1>1, DecayBounded
  <1>4. 0 \in ScoreRange
    BY DEF ScoreRange
  <1>5. EffectiveScore(snap) \in ScoreRange
    BY <1>1, <1>2, <1>3, <1>4 DEF EffectiveScore
  <1>6. Completed(EffectiveScore(snap)) \in BOOLEAN
    BY DEF Completed
  <1>7. Projection(s, snap) \in ProgressRow
    BY <1>5, <1>6, SnapshotFields DEF Projection, ProgressRow
  <1>8. QED
    BY <1>7 DEF Projection, ProjectionAssumption

\* Of two items only one comes before the other.
LEMMA BeforeIsStrict ==
    ASSUME ProjectionAssumption,
           NEW i \in [section : Sections, snap : SnapshotRow],
           NEW j \in [section : Sections, snap : SnapshotRow]
    PROVE  ~(Before(i, j) /\ Before(j, i))
  <1>1. i.section \in Nat /\ j.section \in Nat /\ i.snap \in SnapshotRow /\ j.snap \in SnapshotRow
    BY DEF ProjectionAssumption
  <1>2. i.snap.nth \in Nat /\ j.snap.nth \in Nat
    BY <1>1, SnapshotFields
  <1>3. QED
    BY <1>1, <1>2 DEF Before

-----------------------------------------------------------------------------
(* The projection: the adaptation context.                                 *)

\* A set of numbers up to n has a greatest element, its Max, and a least one.
LEMMA GreatestAndLeast ==
    ASSUME NEW n \in Nat, NEW S, S \subseteq 1 .. n, S # {}
    PROVE  /\ Max(S) \in S /\ \A y \in S : y <= Max(S)
           /\ \E x \in S : \A y \in S : x <= y
  <1>1. ASSUME NEW T, T \subseteq Nat, T # {}
        PROVE  \E x \in T : \A y \in T : x <= y
    <2>1. PICK x \in T : \A y \in T : ~ (<<y, x>> \in OpToRel(<, Nat))
      BY <1>1, WFMin, NatLessThanWellFounded
    <2>2. \A y \in Nat : y < x => <<y, x>> \in OpToRel(<, Nat)
      BY <1>1, <2>1 DEF OpToRel
    <2>3. SUFFICES ASSUME NEW y \in T
                   PROVE  x <= y
      BY <2>1
    <2>4. x \in Nat /\ y \in Nat /\ ~(y < x)
      BY <1>1, <2>1, <2>2
    <2>5. QED
      BY <2>4
  <1>2. \E x \in S : \A y \in S : x <= y
    <2>1. S \subseteq Nat
      OBVIOUS
    <2>2. QED
      BY <1>1, <2>1
  <1>3. \E x \in S : \A y \in S : x >= y
    <2>1. PICK T : T = {n - x : x \in S}
      OBVIOUS
    <2>2. T \subseteq Nat
      BY <2>1
    <2>3. T # {}
      BY <2>1
    <2>4. PICK d \in T : \A e \in T : d <= e
      BY <1>1, <2>2, <2>3
    <2>5. PICK x \in S : d = n - x
      BY <2>1, <2>4
    <2>6. \A y \in S : n - x <= n - y
      BY <2>1, <2>4, <2>5
    <2>7. \A y \in S : x >= y
      BY <2>6
    <2>8. QED
      BY <2>7
  <1>4. Max(S) \in S /\ \A y \in S : Max(S) >= y
    BY <1>3 DEF Max
  <1>5. QED
    BY <1>2, <1>4

\* The last five are at most five, and some when there are rows.
LEMMA LastFiveAreFive ==
    ASSUME NEW n \in Nat, NEW rows, rows \subseteq 1 .. n
    PROVE  /\ LastFive(rows) \subseteq rows
           /\ IsFiniteSet(LastFive(rows)) /\ Cardinality(LastFive(rows)) \in 0 .. 5
           /\ rows # {} => LastFive(rows) # {}
  <1>1. IsFiniteSet(1 .. n)
    BY FS_Interval
  <1>2. IsFiniteSet(rows)
    BY <1>1, FS_Subset
  <1>3. LastFive(rows) \subseteq rows
    BY DEF LastFive
  <1>4. IsFiniteSet(LastFive(rows)) /\ Cardinality(LastFive(rows)) \in Nat
    BY <1>2, <1>3, FS_Subset, FS_CardinalityType
  <1>5. Cardinality(LastFive(rows)) <= 5
    <2>1. CASE LastFive(rows) = {}
      BY <2>1, FS_EmptySet
    <2>2. CASE LastFive(rows) # {}
      <3>1. PICK m \in LastFive(rows) : \A y \in LastFive(rows) : m <= y
        BY <1>3, <2>2, GreatestAndLeast
      <3>2. PICK L, G : L = LastFive(rows) /\ G = {j \in rows : j > m}
        OBVIOUS
      <3>3. Cardinality(G) < 5
        BY <3>1, <3>2 DEF LastFive
      <3>4. L \ {m} \subseteq G
        <4>1. L \subseteq rows /\ L \subseteq 1 .. n /\ m \in L /\ \A y \in L : m <= y
          BY <1>3, <3>1, <3>2
        <4>2. \A y \in L \ {m} : y > m
          BY <4>1
        <4>3. QED
          BY <3>2, <4>1, <4>2
      <3>5. G \subseteq rows
        BY <3>2
      <3>6. IsFiniteSet(G) /\ Cardinality(G) \in Nat
        BY <1>2, <3>5, FS_Subset, FS_CardinalityType
      <3>7. Cardinality(L \ {m}) <= Cardinality(G)
        BY <3>4, <3>6, FS_Subset
      <3>8. Cardinality(L \ {m}) = Cardinality(L) - 1
        BY <1>4, <3>1, <3>2, FS_RemoveElement
      <3>9. Cardinality(L) \in Nat
        BY <1>4, <3>2
      <3>10. Cardinality(L) <= 5
        BY <3>3, <3>6, <3>7, <3>8, <3>9
      <3>11. QED
        BY <3>2, <3>10
    <2>3. QED
      BY <2>1, <2>2
  <1>6. ASSUME rows # {}
        PROVE  LastFive(rows) # {}
    <2>1. Max(rows) \in rows /\ \A y \in rows : y <= Max(rows)
      BY <1>6, GreatestAndLeast
    <2>2. {j \in rows : j > Max(rows)} = {}
      <3>1. PICK m \in 1 .. n : m = Max(rows)
        BY <2>1
      <3>2. \A y \in rows : y \in 1 .. n /\ y <= m
        BY <2>1, <3>1
      <3>3. \A y \in rows : ~(y > m)
        BY <3>2
      <3>4. QED
        BY <3>1, <3>3
    <2>3. Cardinality({j \in rows : j > Max(rows)}) = 0
      BY <2>2, FS_EmptySet, Zenon
    <2>4. Cardinality({j \in rows : j > Max(rows)}) < 5
      BY <2>3
    <2>5. QED
      BY <2>1, <2>4 DEF LastFive
  <1>7. QED
    BY <1>3, <1>4, <1>5, <1>6

\* The recent rows are rows of the evidence, and some if there is any.
LEMMA RecentRows ==
    ASSUME ProjectionTypeOK, NEW s
    PROVE  /\ RecentEvidence(s) \subseteq 1 .. Len(evidence) /\ Len(evidence) \in Nat
           /\ IsFiniteSet(RecentEvidence(s)) /\ Cardinality(RecentEvidence(s)) \in 0 .. 5
           /\ evidence # <<>> => RecentEvidence(s) # {}
           /\ \A i \in RecentEvidence(s) : evidence[i].decision \in Decisions
  <1>1. PICK E : E = [section : Sections, decision : Decisions]
    OBVIOUS
  <1>2. evidence \in Seq(E)
    BY <1>1 DEF ProjectionTypeOK
  <1>3. /\ DOMAIN evidence = 1 .. Len(evidence) /\ Len(evidence) \in Nat
        /\ \A i \in DOMAIN evidence : evidence[i] \in E
        /\ evidence # <<>> => DOMAIN evidence # {}
    BY <1>2
  <1>4. PICK O : O = {i \in DOMAIN evidence : ModuleOf[evidence[i].section] = ModuleOf[s]}
    OBVIOUS
  <1>5. PICK rows : rows = IF O = {} THEN DOMAIN evidence ELSE O
    OBVIOUS
  <1>6. RecentEvidence(s) = LastFive(rows)
    BY <1>4, <1>5 DEF RecentEvidence
  <1>7. rows \subseteq 1 .. Len(evidence) /\ (evidence # <<>> => rows # {})
    BY <1>3, <1>4, <1>5
  <1>8. /\ LastFive(rows) \subseteq rows
        /\ IsFiniteSet(LastFive(rows)) /\ Cardinality(LastFive(rows)) \in 0 .. 5
        /\ rows # {} => LastFive(rows) # {}
    BY <1>3, <1>7, LastFiveAreFive
  <1>9. \A i \in LastFive(rows) : evidence[i] \in E
    BY <1>3, <1>7, <1>8
  <1>10. \A i \in LastFive(rows) : evidence[i].decision \in Decisions
    BY <1>1, <1>9
  <1>11. QED
    BY <1>3, <1>6, <1>7, <1>8, <1>10

\* The pattern counts no row twice.
LEMMA PatternFits ==
    ASSUME ProjectionAssumption, ProjectionTypeOK, NEW s,
           NEW p, p = RecentPattern(RecentEvidence(s))
    PROVE  /\ p \in [correctLike : Nat, support : Nat, latest : Decisions \union {NoRow}]
           /\ p.correctLike + p.support <= 5
           /\ evidence # <<>> => p.latest # NoRow
  <1>1. PICK rows : rows = RecentEvidence(s)
    OBVIOUS
  <1>2. /\ rows \subseteq 1 .. Len(evidence) /\ Len(evidence) \in Nat
        /\ IsFiniteSet(rows) /\ Cardinality(rows) \in 0 .. 5
        /\ evidence # <<>> => rows # {}
        /\ \A i \in rows : evidence[i].decision \in Decisions
    BY <1>1, RecentRows
  <1>3. PICK A, B : /\ A = {i \in rows : evidence[i].decision \in {"correct", "partial"}}
                    /\ B = {i \in rows : evidence[i].decision \in {"incorrect", "unresolved", "skipped"}}
    OBVIOUS
  <1>4. /\ IsFiniteSet(A) /\ Cardinality(A) \in Nat
        /\ IsFiniteSet(B) /\ Cardinality(B) \in Nat
    BY <1>2, <1>3, FS_Subset, FS_CardinalityType
  <1>5. Cardinality(A) + Cardinality(B) <= 5
    <2>1. A \cap B = {} /\ A \cup B \subseteq rows
      BY <1>3
    <2>2. /\ IsFiniteSet(A \cup B)
          /\ Cardinality(A \cup B) = Cardinality(A) + Cardinality(B) - Cardinality(A \cap B)
      BY <1>4, FS_Union
    <2>3. Cardinality(A \cap B) = 0
      BY <2>1, FS_EmptySet, Zenon
    <2>4. Cardinality(A \cup B) <= Cardinality(rows)
      BY <1>2, <2>1, FS_Subset
    <2>5. QED
      BY <1>2, <1>4, <2>2, <2>3, <2>4
  <1>6. PICK latest : latest = IF rows = {} THEN NoRow ELSE evidence[Max(rows)].decision
    OBVIOUS
  <1>7. latest \in Decisions \union {NoRow} /\ (rows # {} => latest \in Decisions)
    <2>1. rows # {} => Max(rows) \in rows
      BY <1>2, GreatestAndLeast
    <2>2. QED
      BY <1>2, <1>6, <2>1
  <1>8. p = [correctLike |-> Cardinality(A), support |-> Cardinality(B), latest |-> latest]
    BY <1>1, <1>3, <1>6 DEF RecentPattern, Count
  <1>9. NoRow \notin Decisions
    BY DEF ProjectionAssumption
  <1>10. QED
    BY <1>2, <1>4, <1>5, <1>7, <1>8, <1>9

\* A context from the views of one read, whatever evidence came since.
LEMMA ContextFits ==
    ASSUME ProjectionAssumption, ProjectionTypeOK, NEW s \in Sections,
           NEW views \in SUBSET ProgressRow,
           \A v, w \in views : v.section = w.section => v = w,
           views # {} => evidence # <<>>,
           NEW c, c = Context(s, views)
    PROVE  /\ c \in AdaptationContexts
           /\ {v.section : v \in c.weak} \intersect {v.section : v \in c.strong} = {}
           /\ ({v.section : v \in c.weak} \union {v.section : v \in c.strong})
                  \subseteq ModuleTargets(c.stage) \ {c.stage}
           /\ c.withEvidence <= c.total
           /\ c.signal # "new" => c.withEvidence > 0 /\ c.pattern.latest # NoRow
           /\ c.pattern.correctLike + c.pattern.support <= 5
  <1>1. PICK M, C : /\ M = {v \in views : v.section \in ModuleTargets(s)}
                    /\ C = {v \in views : v.section = s}
    OBVIOUS
  <1>2. PICK weak, strong, p, sig :
            /\ weak = WeakRelated(M, s) /\ strong = StrongRelated(M, s)
            /\ p = RecentPattern(RecentEvidence(s))
            /\ sig = StageSignal(IF C = {} THEN NoRow ELSE CHOOSE v \in C : TRUE)
    OBVIOUS
  <1>3. c = [stage |-> s, signal |-> sig, withEvidence |-> Cardinality(M),
             total |-> Cardinality(ModuleTargets(s)), weak |-> weak, strong |-> strong, pattern |-> p]
    BY <1>1, <1>2 DEF Context
  <1>4. /\ weak \subseteq {v \in M : v.section # s /\ v.score < 12}
        /\ strong \subseteq {v \in M : v.section # s /\ v.score >= 17}
    BY <1>2 DEF WeakRelated, StrongRelated, FirstThree
  <1>5. \A v \in M : v \in ProgressRow /\ v.score \in Int /\ v.section \in ModuleTargets(s)
    <2>1. \A v \in M : v \in ProgressRow /\ v.section \in ModuleTargets(s)
      BY <1>1
    <2>2. \A v \in M : v.score \in 0 .. 20
      BY <2>1, RowFields DEF ScoreRange
    <2>3. QED
      BY <2>1, <2>2
  <1>6. {v.section : v \in weak} \intersect {v.section : v \in strong} = {}
    <2>1. \A v \in weak, w \in strong : v # w
      BY <1>4, <1>5
    <2>2. \A v \in weak, w \in strong : v \in views /\ w \in views
      BY <1>1, <1>4
    <2>3. \A v \in weak, w \in strong : v.section # w.section
      BY <2>1, <2>2
    <2>4. QED
      BY <2>3
  <1>7. ({v.section : v \in weak} \union {v.section : v \in strong}) \subseteq ModuleTargets(s) \ {s}
    BY <1>4, <1>5
  <1>8. /\ IsFiniteSet(M) /\ Cardinality(M) \in Nat /\ Cardinality(ModuleTargets(s)) \in Nat
        /\ Cardinality(M) <= Cardinality(ModuleTargets(s))
    <2>1. IsFiniteSet(ModuleTargets(s)) /\ Cardinality(ModuleTargets(s)) \in Nat
      <3>1. ModuleTargets(s) \subseteq Sections /\ IsFiniteSet(Sections)
        BY DEF ModuleTargets, ProjectionAssumption
      <3>2. QED
        BY <3>1, FS_Subset, FS_CardinalityType
    <2>2. PICK f : f = [v \in M |-> v.section]
      OBVIOUS
    <2>3. f \in [M -> ModuleTargets(s)]
      BY <1>5, <2>2
    <2>4. \A v, w \in M : f[v] = f[w] => v = w
      BY <1>1, <2>2
    <2>5. f \in Injection(M, ModuleTargets(s))
      BY <2>3, <2>4 DEF Injection, IsInjective
    <2>6. IsFiniteSet(M) /\ Cardinality(M) <= Cardinality(ModuleTargets(s))
      BY <2>1, <2>5, FS_Injection
    <2>7. QED
      BY <2>1, <2>6, FS_CardinalityType
  <1>9. /\ p \in [correctLike : Nat, support : Nat, latest : Decisions \union {NoRow}]
        /\ p.correctLike + p.support <= 5
        /\ evidence # <<>> => p.latest # NoRow
    BY <1>2, PatternFits
  <1>10. sig \in {"new", "needs_support", "progressing", "ready"} /\ (C = {} => sig = "new")
    BY <1>2 DEF StageSignal
  <1>11. C # {} => Cardinality(M) > 0 /\ evidence # <<>>
    <2>1. C \subseteq M
      BY <1>1 DEF ModuleTargets
    <2>2. M # {} => Cardinality(M) # 0
      BY <1>8, FS_EmptySet
    <2>3. QED
      BY <1>1, <1>8, <2>1, <2>2
  <1>12. c \in AdaptationContexts
    <2>1. weak \in SUBSET ProgressRow /\ strong \in SUBSET ProgressRow
      BY <1>4, <1>5
    <2>2. QED
      BY <1>3, <1>8, <1>9, <1>10, <2>1 DEF AdaptationContexts
  <1>13. /\ c.weak = weak /\ c.strong = strong /\ c.stage = s /\ c.signal = sig
         /\ c.withEvidence = Cardinality(M) /\ c.total = Cardinality(ModuleTargets(s)) /\ c.pattern = p
    BY <1>3
  <1>14. QED
    BY <1>6, <1>7, <1>8, <1>9, <1>10, <1>11, <1>12, <1>13

-----------------------------------------------------------------------------
(* The projection: what one step leaves to the others.                     *)

\* What a refresh keeps.
LEMMA RefreshFields ==
    ASSUME NEW f \in RefreshState
    PROVE  /\ f.todo \subseteq [section : Sections, snap : SnapshotRow]
           /\ f.writes \subseteq ProgressRow /\ f.commits \in Nat /\ f.views \subseteq ProgressRow
           /\ f.context \in AdaptationContexts \union {NoRow}
  BY DEF RefreshState

\* Refreshes that block each other would each have to come before the other.
LEMMA NoCrossing ==
    ASSUME ProjectionAssumption, ProjectionTypeOK, LocksHeld, SameOrder
    PROVE  DeadlockNeedsNewEvidence
  <1>1. SUFFICES ASSUME NEW r \in Refreshers, NEW q \in Refreshers, Deadlocked({r, q}),
                        refresh[r].commits = refresh[q].commits
                 PROVE  FALSE
    BY DEF DeadlockNeedsNewEvidence
  <1>2. ASSUME NEW x \in {r, q}
        PROVE  \E i \in refresh[x].todo : rowLock[i.section] \in {r, q} \ {x}
    <2>1. WaitsFor(x) # {} /\ WaitsFor(x) \subseteq {r, q}
      BY <1>1, <1>2 DEF Deadlocked
    <2>2. PICK i \in refresh[x].todo : rowLock[i.section] # NoRow /\ rowLock[i.section] \in {r, q}
      BY <2>1 DEF WaitsFor
    <2>3. x \in Refreshers /\ refresh[x] \in RefreshState
      BY <1>1, <1>2 DEF ProjectionTypeOK
    <2>4. i.section \in Sections
      BY <2>2, <2>3, RefreshFields
    <2>5. rowLock[i.section] # x
      BY <2>2, <2>4 DEF LocksHeld
    <2>6. QED
      BY <2>2, <2>5
  <1>3. PICK i \in refresh[r].todo : rowLock[i.section] = q /\ q # r
    BY <1>2
  <1>4. PICK j \in refresh[q].todo : rowLock[j.section] = r
    BY <1>2
  <1>5. refresh[r].pc = "upsert" /\ refresh[q].pc = "upsert"
    BY <1>1, <1>3, <1>4 DEF LocksHeld
  <1>6. Before(j, i) /\ Before(i, j)
    BY <1>1, <1>3, <1>4, <1>5 DEF SameOrder
  <1>7. refresh[r] \in RefreshState /\ refresh[q] \in RefreshState
    BY DEF ProjectionTypeOK
  <1>8. /\ i \in [section : Sections, snap : SnapshotRow]
        /\ j \in [section : Sections, snap : SnapshotRow]
    BY <1>3, <1>4, <1>7, RefreshFields
  <1>9. QED
    BY <1>6, <1>8, BeforeIsStrict

\* A refresh that does not upsert, or not any more, holds no row.
LEMMA NoUpsertNoLock ==
    ASSUME ProjectionAssumption, ProjectionInv, NEW r \in Refreshers, refresh[r].pc # "upsert"
    PROVE  Released(r) = rowLock /\ \A s \in Sections : rowLock[s] # r
  <1>1. rowLock \in [Sections -> Refreshers \union {NoRow}]
    BY DEF ProjectionInv, ProjectionTypeOK
  <1>2. \A s \in Sections : rowLock[s] # r
    BY <1>1 DEF ProjectionInv, LocksHeld, ProjectionAssumption
  <1>3. QED
    BY <1>1, <1>2 DEF Released

\* A refresh that does not upsert after its step, and has given up its rows,
\* leaves the reads and writes of the others.
LEMMA OthersRefreshOn ==
    ASSUME ProjectionAssumption, ProjectionInv, NEW r \in Refreshers,
           refresh' \in [Refreshers -> RefreshState],
           \A q \in Refreshers \ {r} : refresh'[q] = refresh[q],
           refresh'[r].pc # "upsert", refresh'[r].todo = {},
           rowLock' = Released(r), UNCHANGED <<snapshot, evidence, raced>>
    PROVE  LocksHeld' /\ FreshReads' /\ SameOrder' /\ WritesCurrent'
  <1>1. rowLock \in [Sections -> Refreshers \union {NoRow}] /\ NoRow \notin Refreshers
    BY DEF ProjectionInv, ProjectionTypeOK, ProjectionAssumption
  <1>2. \A s \in Sections : /\ rowLock'[s] # r
                            /\ rowLock'[s] # NoRow => rowLock'[s] = rowLock[s]
                            /\ \A q \in Refreshers : rowLock'[s] = q => rowLock[s] = q
    BY <1>1 DEF Released
  <1>3. LocksHeld'
    <2>1. LocksHeld
      BY DEF ProjectionInv
    <2>2. ASSUME NEW s \in Sections, rowLock'[s] # NoRow
          PROVE  /\ refresh'[rowLock'[s]].pc = "upsert"
                 /\ \A item \in refresh'[rowLock'[s]].todo : item.section # s
      <3>1. PICK q \in Refreshers \ {r} : rowLock'[s] = q /\ rowLock[s] = q
        BY <1>1, <1>2, <2>2
      <3>2. refresh[q].pc = "upsert" /\ \A item \in refresh[q].todo : item.section # s
        BY <1>1, <2>1, <3>1 DEF LocksHeld
      <3>3. QED
        BY <3>1, <3>2
    <2>3. \A q \in Refreshers : refresh'[q].pc # "upsert" => refresh'[q].todo = {}
      BY <2>1 DEF LocksHeld
    <2>4. QED
      BY <2>2, <2>3 DEF LocksHeld
  <1>4. \A s \in Sections : Item(s)' = Item(s) /\ (s \in Evaluated <=> s \in Evaluated')
    BY DEF Item, Evaluated
  <1>5. FreshReads'
    <2>1. SUFFICES ASSUME NEW q \in Refreshers, refresh'[q].pc = "upsert"
                   PROVE  /\ refresh'[q].commits <= Len(evidence')
                          /\ refresh'[q].commits = Len(evidence') =>
                                \A item \in refresh'[q].todo :
                                    /\ item = Item(item.section)'
                                    /\ \A s \in Sections : rowLock'[s] = q =>
                                          s \in Evaluated' /\ Before(Item(s), item)'
      BY DEF FreshReads
    <2>2. q # r /\ refresh'[q] = refresh[q]
      BY <2>1
    <2>3. \A item \in refresh[q].todo : Item(item.section)' = Item(item.section)
      BY DEF Item
    <2>4. \A item \in refresh[q].todo, s \in Sections : Before(Item(s), item)' <=> Before(Item(s), item)
      BY DEF Item, Before
    <2>5. FreshReads
      BY DEF ProjectionInv
    <2>6. /\ refresh[q].pc = "upsert" /\ refresh[q].commits <= Len(evidence)
          /\ refresh[q].commits = Len(evidence) =>
                \A item \in refresh[q].todo :
                    /\ item = Item(item.section)
                    /\ \A s \in Sections : rowLock[s] = q => s \in Evaluated /\ Before(Item(s), item)
      BY <2>1, <2>2, <2>5 DEF FreshReads
    <2>7. QED
      BY <1>2, <1>4, <2>1, <2>2, <2>3, <2>4, <2>6
  <1>6. SameOrder'
    <2>1. SUFFICES ASSUME NEW p \in Refreshers, NEW q \in Refreshers,
                          refresh'[p].pc = "upsert", refresh'[q].pc = "upsert",
                          refresh'[p].commits = refresh'[q].commits
                   PROVE  /\ \A i \in refresh'[p].todo, j \in refresh'[q].todo : i.section = j.section => i = j
                          /\ \A j \in refresh'[q].todo : rowLock'[j.section] = p =>
                                \A i \in refresh'[p].todo : Before(j, i)
      BY DEF SameOrder, Before
    <2>2. refresh'[p] = refresh[p] /\ refresh'[q] = refresh[q] /\ refresh[q] \in RefreshState
      BY <2>1 DEF ProjectionInv, ProjectionTypeOK
    <2>3. \A j \in refresh[q].todo : j.section \in Sections
      BY <2>2, RefreshFields
    <2>4. SameOrder
      BY DEF ProjectionInv
    <2>5. /\ \A i \in refresh[p].todo, j \in refresh[q].todo : i.section = j.section => i = j
          /\ \A j \in refresh[q].todo : rowLock[j.section] = p => \A i \in refresh[p].todo : Before(j, i)
      BY <2>1, <2>2, <2>4 DEF SameOrder
    <2>6. QED
      BY <1>2, <2>2, <2>3, <2>5
  <1>7. WritesCurrent'
    BY DEF ProjectionInv, WritesCurrent
  <1>8. QED
    BY <1>3, <1>5, <1>6, <1>7

-----------------------------------------------------------------------------
(* The projection: the actions.                                            *)

\* Nothing but the refreshes moves: the properties of the rows and of the
\* other contexts stay.
LEMMA RowsStay ==
    ASSUME ProjectionInv, UNCHANGED <<snapshot, evidence, progress, evaluator, raced>>
    PROVE  EvaluatorsReady' /\ ProgressBehindOnlyWhenRaced'
  BY DEF ProjectionInv, EvaluatorsReady, ProgressBehindOnlyWhenRaced

\* A refresh without views and context adds nothing to state of these.
LEMMA NoContextYet ==
    ASSUME ProjectionInv, NEW r \in Refreshers, evidence' = evidence, UNCHANGED snapshot,
           \A q \in Refreshers \ {r} : refresh'[q] = refresh[q],
           refresh'[r].views = {} \/ refresh'[r].views = refresh[r].views,
           refresh'[r].context = NoRow \/ refresh'[r].context = refresh[r].context
    PROVE  EvidenceFirst' /\ OneViewEach' /\ ContextConsistent'
  <1>1. EvidenceFirst'
    BY DEF ProjectionInv, EvidenceFirst, Evaluated
  <1>2. OneViewEach'
    BY DEF ProjectionInv, OneViewEach
  <1>3. \A q \in Refreshers : refresh'[q].context = NoRow \/ refresh'[q].context = refresh[q].context
    OBVIOUS
  <1>4. ContextConsistent'
    <2>1. SUFFICES ASSUME NEW q \in Refreshers, refresh'[q].context # NoRow
                   PROVE  LET c == refresh'[q].context
                              named(views) == {v.section : v \in views} IN
                          /\ named(c.weak) \intersect named(c.strong) = {}
                          /\ (named(c.weak) \union named(c.strong)) \subseteq ModuleTargets(c.stage) \ {c.stage}
                          /\ c.withEvidence <= c.total
                          /\ c.signal # "new" => c.withEvidence > 0 /\ c.pattern.latest # NoRow
                          /\ c.pattern.correctLike + c.pattern.support <= 5
      BY DEF ContextConsistent, ModuleTargets
    <2>2. refresh'[q].context = refresh[q].context
      BY <1>3, <2>1
    <2>3. QED
      BY <2>1, <2>2 DEF ProjectionInv, ContextConsistent
  <1>5. QED
    BY <1>1, <1>2, <1>4

\* A refresh reads what there is, and holds no row yet.
LEMMA RefreshReadKeeps ==
    ASSUME ProjectionAssumption, ProjectionInv, NEW r \in Refreshers, RefreshRead(r)
    PROVE  ProjectionInv'
  <1>1. /\ refresh \in [Refreshers -> RefreshState] /\ snapshot \in [Sections -> SnapshotRow \union {NoRow}]
        /\ Len(evidence) \in Nat
    <2>1. PICK E : E = [section : Sections, decision : Decisions]
      OBVIOUS
    <2>2. evidence \in Seq(E)
      BY <2>1 DEF ProjectionInv, ProjectionTypeOK
    <2>3. Len(evidence) \in Nat
      BY <2>2
    <2>4. QED
      BY <2>3 DEF ProjectionInv, ProjectionTypeOK
  <1>2. PICK items : items = {Item(s) : s \in Evaluated}
    OBVIOUS
  <1>3. \A i \in items : /\ i \in [section : Sections, snap : SnapshotRow]
                         /\ i = Item(i.section) /\ i.section \in Evaluated
                         /\ i.snap = snapshot[i.section]
    BY <1>1, <1>2 DEF Item, Evaluated
  <1>4. /\ refresh'[r] = [Idle EXCEPT !.pc = "upsert", !.commits = Len(evidence), !.todo = items]
        /\ \A q \in Refreshers \ {r} : refresh'[q] = refresh[q]
    BY <1>1, <1>2 DEF RefreshRead
  <1>5. refresh'[r] \in RefreshState
    BY <1>1, <1>3, <1>4 DEF Idle, RefreshState
  <1>6. refresh' \in [Refreshers -> RefreshState]
    BY <1>1, <1>5 DEF RefreshRead
  <1>7. /\ refresh'[r].pc = "upsert" /\ refresh'[r].commits = Len(evidence) /\ refresh'[r].todo = items
        /\ refresh'[r].writes = {} /\ refresh'[r].views = {} /\ refresh'[r].context = NoRow
    BY <1>4 DEF Idle
  <1>8. UNCHANGED <<clock, snapshot, evidence, progress, profile, rowLock, evaluator, raced>>
    BY DEF RefreshRead
  <1>9. \A s \in Sections : rowLock[s] # r
    BY NoUpsertNoLock DEF RefreshRead
  <1>10. ProjectionTypeOK'
    BY <1>6, <1>8 DEF ProjectionInv, ProjectionTypeOK
  <1>11. EvaluatorsReady' /\ ProgressBehindOnlyWhenRaced'
    BY <1>8, RowsStay
  <1>12. EvidenceFirst' /\ OneViewEach' /\ ContextConsistent'
    BY <1>4, <1>7, <1>8, NoContextYet
  <1>13. LocksHeld'
    <2>1. LocksHeld /\ rowLock \in [Sections -> Refreshers \union {NoRow}]
      BY DEF ProjectionInv, ProjectionTypeOK
    <2>2. ASSUME NEW s \in Sections, rowLock[s] # NoRow
          PROVE  /\ refresh'[rowLock[s]].pc = "upsert"
                 /\ \A item \in refresh'[rowLock[s]].todo : item.section # s
      BY <1>4, <1>9, <2>1, <2>2 DEF LocksHeld
    <2>3. \A q \in Refreshers : refresh'[q].pc # "upsert" => refresh'[q].todo = {}
      BY <1>4, <1>7, <2>1 DEF LocksHeld
    <2>4. QED
      BY <1>8, <2>2, <2>3 DEF LocksHeld
  <1>14. FreshReads'
    <2>1. SUFFICES ASSUME NEW q \in Refreshers, refresh'[q].pc = "upsert"
                   PROVE  /\ refresh'[q].commits <= Len(evidence)
                          /\ refresh'[q].commits = Len(evidence) =>
                                \A item \in refresh'[q].todo :
                                    /\ item = Item(item.section)
                                    /\ \A s \in Sections : rowLock[s] = q =>
                                          s \in Evaluated /\ Before(Item(s), item)
      BY <1>8 DEF FreshReads, Item, Before, Evaluated
    <2>2. CASE q = r
      BY <1>1, <1>3, <1>7, <1>9, <2>2
    <2>3. CASE q # r
      BY <1>4, <2>1, <2>3 DEF ProjectionInv, FreshReads
    <2>4. QED
      BY <2>2, <2>3
  <1>15. SameOrder'
    <2>1. SUFFICES ASSUME NEW p \in Refreshers, NEW q \in Refreshers,
                          refresh'[p].pc = "upsert", refresh'[q].pc = "upsert",
                          refresh'[p].commits = refresh'[q].commits
                   PROVE  /\ \A i \in refresh'[p].todo, j \in refresh'[q].todo : i.section = j.section => i = j
                          /\ \A j \in refresh'[q].todo : rowLock[j.section] = p =>
                                \A i \in refresh'[p].todo : Before(j, i)
      BY <1>8 DEF SameOrder, Before
    <2>2. ASSUME NEW x \in Refreshers, x # r, refresh'[x].pc = "upsert", refresh'[x].commits = Len(evidence)
          PROVE  \A j \in refresh'[x].todo :
                    /\ j = Item(j.section)
                    /\ \A s \in Sections : rowLock[s] = x => Before(Item(s), j)
      <3>1. refresh'[x] = refresh[x]
        BY <1>4, <2>2
      <3>2. FreshReads
        BY DEF ProjectionInv
      <3>3. QED
        BY <2>2, <3>1, <3>2 DEF FreshReads
    <2>3. CASE p = r /\ q = r
      <3>1. \A j \in items : rowLock[j.section] # r
        BY <1>3, <1>9 DEF Evaluated
      <3>2. \A i, j \in items : i.section = j.section => i = j
        BY <1>3
      <3>3. QED
        BY <1>7, <2>3, <3>1, <3>2
    <2>4. CASE p = r /\ q # r
      <3>1. refresh'[q].commits = Len(evidence)
        BY <1>7, <2>1, <2>4
      <3>2. \A j \in refresh'[q].todo : j = Item(j.section) /\ j.section \in Sections
        BY <1>6, <2>1, <2>2, <2>4, <3>1, RefreshFields
      <3>3. \A i \in items, j \in refresh'[q].todo : i.section = j.section => i = j
        BY <1>3, <3>2
      <3>4. \A j \in refresh'[q].todo : rowLock[j.section] # r
        BY <1>9, <3>2
      <3>5. QED
        BY <1>7, <2>4, <3>3, <3>4
    <2>5. CASE p # r /\ q = r
      <3>1. refresh'[p].commits = Len(evidence)
        BY <1>7, <2>1, <2>5
      <3>2. \A i \in refresh'[p].todo :
                /\ i = Item(i.section)
                /\ \A s \in Sections : rowLock[s] = p => Before(Item(s), i)
        BY <2>1, <2>2, <2>5, <3>1
      <3>3. \A i \in refresh'[p].todo, j \in items : i.section = j.section => i = j
        BY <1>3, <3>2
      <3>4. \A j \in items : j.section \in Sections
        BY <1>3 DEF Evaluated
      <3>5. \A j \in items : rowLock[j.section] = p => \A i \in refresh'[p].todo : Before(j, i)
        BY <1>3, <3>2, <3>4
      <3>6. QED
        BY <1>7, <2>5, <3>3, <3>5
    <2>6. CASE p # r /\ q # r
      <3>1. refresh'[p] = refresh[p] /\ refresh'[q] = refresh[q]
        BY <1>4, <2>6
      <3>2. SameOrder
        BY DEF ProjectionInv
      <3>3. QED
        BY <2>1, <3>1, <3>2 DEF SameOrder
    <2>7. QED
      BY <2>3, <2>4, <2>5, <2>6
  <1>16. WritesCurrent'
    <2>1. WritesCurrent
      BY DEF ProjectionInv
    <2>2. ASSUME NEW q \in Refreshers, refresh'[q].pc = "upsert"
          PROVE  /\ \A item \in refresh'[q].todo : item.section \notin raced =>
                        snapshot[item.section] = item.snap
                 /\ \A w \in refresh'[q].writes : w.section \notin raced =>
                        snapshot[w.section] # NoRow /\ w.of = snapshot[w.section].count
      <3>1. CASE q = r
        BY <1>3, <1>7, <3>1
      <3>2. CASE q # r
        BY <1>4, <2>1, <2>2, <3>2 DEF WritesCurrent
      <3>3. QED
        BY <3>1, <3>2
    <2>3. QED
      BY <1>8, <2>2 DEF WritesCurrent
  <1>17. DeadlockNeedsNewEvidence'
    <2>1. (LocksHeld /\ SameOrder /\ ProjectionTypeOK => DeadlockNeedsNewEvidence)'
      BY NoCrossing, PTL
    <2>2. QED
      BY <1>10, <1>13, <1>15, <2>1
  <1>18. QED
    BY <1>10, <1>11, <1>12, <1>13, <1>14, <1>15, <1>16, <1>17 DEF ProjectionInv

\* The next row is locked by the refresh that writes it, which has taken all
\* before it.
LEMMA RefreshUpsertKeeps ==
    ASSUME ProjectionAssumption, ProjectionInv, NEW r \in Refreshers, RefreshUpsert(r)
    PROVE  ProjectionInv'
  <1>1. /\ refresh \in [Refreshers -> RefreshState] /\ refresh[r] \in RefreshState
        /\ rowLock \in [Sections -> Refreshers \union {NoRow}] /\ NoRow \notin Refreshers
        /\ refresh[r].pc = "upsert"
    BY DEF ProjectionInv, ProjectionTypeOK, ProjectionAssumption, RefreshUpsert
  <1>2. PICK item \in refresh[r].todo : IsNextItem(r, item) /\ UpsertRow(r, item)
    BY DEF RefreshUpsert
  <1>3. item \in [section : Sections, snap : SnapshotRow]
    BY <1>1, <1>2, RefreshFields
  <1>4. item.section \in Sections /\ item.snap \in SnapshotRow
    BY <1>3
  <1>5. PICK w : w = Projection(item.section, item.snap)
    OBVIOUS
  <1>6. w \in ProgressRow /\ w.section = item.section /\ w.of = item.snap.count
    BY <1>4, <1>5, ProjectionIsRow
  <1>7. /\ refresh'[r] = [refresh[r] EXCEPT !.todo = refresh[r].todo \ {item},
                                         !.writes = refresh[r].writes \union {w}]
        /\ \A q \in Refreshers \ {r} : refresh'[q] = refresh[q]
    <2>1. PICK g : g = [refresh[r] EXCEPT !.todo = refresh[r].todo \ {item},
                                          !.writes = refresh[r].writes \union {w}]
      OBVIOUS
    <2>2. refresh' = [refresh EXCEPT ![r] = g]
      BY <1>1, <1>2, <1>5, <2>1 DEF UpsertRow
    <2>3. QED
      BY <1>1, <2>1, <2>2
  <1>8. refresh'[r] \in RefreshState
    <2>1. /\ refresh[r].todo \ {item} \in SUBSET [section : Sections, snap : SnapshotRow]
          /\ refresh[r].writes \union {w} \in SUBSET ProgressRow
      BY <1>1, <1>6, RefreshFields
    <2>2. QED
      BY <1>1, <1>7, <2>1 DEF RefreshState
  <1>9. refresh' \in [Refreshers -> RefreshState]
    <2>1. refresh' = [q \in Refreshers |-> IF q = r THEN refresh'[r] ELSE refresh[q]]
      BY <1>1, <1>2, <1>7 DEF UpsertRow
    <2>2. QED
      BY <1>1, <1>8, <2>1
  <1>10. /\ refresh'[r].pc = "upsert" /\ refresh'[r].commits = refresh[r].commits
         /\ refresh'[r].todo = refresh[r].todo \ {item} /\ refresh'[r].writes = refresh[r].writes \union {w}
         /\ refresh'[r].views = refresh[r].views /\ refresh'[r].context = refresh[r].context
    BY <1>1, <1>7 DEF RefreshState
  <1>11. /\ UNCHANGED <<clock, snapshot, evidence, progress, profile, evaluator, raced>>
         /\ rowLock[item.section] = NoRow /\ rowLock'[item.section] = r
         /\ \A s \in Sections \ {item.section} : rowLock'[s] = rowLock[s]
         /\ rowLock' \in [Sections -> Refreshers \union {NoRow}]
    BY <1>1, <1>2, <1>4 DEF UpsertRow
  <1>12. \A i \in refresh'[r].todo : i \in refresh[r].todo /\ Before(item, i) /\ i.section # item.section
    <2>1. \A i \in refresh[r].todo \ {item} : Before(item, i)
      BY <1>2 DEF IsNextItem
    <2>2. \A i \in refresh[r].todo : i.section = item.section => i = item
      BY <1>1, <1>2 DEF ProjectionInv, SameOrder
    <2>3. QED
      BY <1>10, <2>1, <2>2
  <1>13. ProjectionTypeOK'
    BY <1>9, <1>11 DEF ProjectionInv, ProjectionTypeOK
  <1>14. EvaluatorsReady' /\ ProgressBehindOnlyWhenRaced'
    BY <1>11, RowsStay
  <1>15. EvidenceFirst' /\ OneViewEach' /\ ContextConsistent'
    BY <1>7, <1>10, <1>11, NoContextYet
  <1>16. LocksHeld'
    <2>1. LocksHeld
      BY DEF ProjectionInv
    <2>2. ASSUME NEW s \in Sections, rowLock'[s] # NoRow
          PROVE  /\ refresh'[rowLock'[s]].pc = "upsert"
                 /\ \A i \in refresh'[rowLock'[s]].todo : i.section # s
      <3>1. CASE s = item.section
        BY <1>10, <1>11, <1>12, <3>1
      <3>2. CASE s # item.section
        <4>1. PICK q \in Refreshers : rowLock'[s] = q /\ rowLock[s] = q
          BY <1>1, <1>11, <2>2, <3>2
        <4>2. refresh[q].pc = "upsert" /\ \A i \in refresh[q].todo : i.section # s
          BY <1>1, <2>1, <4>1 DEF LocksHeld
        <4>3. QED
          BY <1>7, <1>10, <1>12, <4>1, <4>2
      <3>3. QED
        BY <3>1, <3>2
    <2>3. \A q \in Refreshers : refresh'[q].pc # "upsert" => refresh'[q].todo = {}
      BY <1>7, <1>10, <2>1 DEF LocksHeld
    <2>4. QED
      BY <2>2, <2>3 DEF LocksHeld
  <1>17. FreshReads'
    <2>1. SUFFICES ASSUME NEW q \in Refreshers, refresh'[q].pc = "upsert"
                   PROVE  /\ refresh'[q].commits <= Len(evidence)
                          /\ refresh'[q].commits = Len(evidence) =>
                                \A i \in refresh'[q].todo :
                                    /\ i = Item(i.section)
                                    /\ \A s \in Sections : rowLock'[s] = q =>
                                          s \in Evaluated /\ Before(Item(s), i)
      BY <1>11 DEF FreshReads, Item, Before, Evaluated
    <2>2. FreshReads
      BY DEF ProjectionInv
    <2>3. CASE q = r
      <3>1. refresh'[q].commits <= Len(evidence)
        BY <1>1, <1>10, <2>2, <2>3 DEF FreshReads
      <3>2. ASSUME refresh[r].commits = Len(evidence)
            PROVE  /\ item = Item(item.section)
                   /\ \A i \in refresh[r].todo :
                         /\ i = Item(i.section)
                         /\ \A s \in Sections : rowLock[s] = r => s \in Evaluated /\ Before(Item(s), i)
        BY <1>1, <1>2, <2>2, <3>2 DEF FreshReads
      <3>3. item = Item(item.section) => item.section \in Evaluated
        BY <1>4 DEF Item, Evaluated, ProjectionAssumption
      <3>4. ASSUME refresh[r].commits = Len(evidence), NEW i \in refresh'[r].todo, NEW s \in Sections,
                   rowLock'[s] = r
            PROVE  s \in Evaluated /\ Before(Item(s), i)
        <4>1. CASE s = item.section
          BY <1>12, <3>2, <3>3, <3>4, <4>1
        <4>2. CASE s # item.section
          BY <1>11, <1>12, <3>2, <3>4, <4>2
        <4>3. QED
          BY <4>1, <4>2
      <3>5. QED
        BY <1>10, <1>12, <2>3, <3>1, <3>2, <3>4
    <2>4. CASE q # r
      <3>1. refresh'[q] = refresh[q] /\ \A s \in Sections : rowLock'[s] = q => rowLock[s] = q
        BY <1>7, <1>11, <2>4
      <3>2. QED
        BY <2>1, <2>2, <3>1 DEF FreshReads
    <2>5. QED
      BY <2>3, <2>4
  <1>18. SameOrder'
    <2>1. SUFFICES ASSUME NEW p \in Refreshers, NEW q \in Refreshers,
                          refresh'[p].pc = "upsert", refresh'[q].pc = "upsert",
                          refresh'[p].commits = refresh'[q].commits
                   PROVE  /\ \A i \in refresh'[p].todo, j \in refresh'[q].todo : i.section = j.section => i = j
                          /\ \A j \in refresh'[q].todo : rowLock'[j.section] = p =>
                                \A i \in refresh'[p].todo : Before(j, i)
      BY <1>11 DEF SameOrder, Before
    <2>2. /\ refresh[p].pc = "upsert" /\ refresh'[p].commits = refresh[p].commits
          /\ refresh'[p].todo \subseteq refresh[p].todo
      BY <1>1, <1>7, <1>10, <2>1
    <2>3. /\ refresh[q].pc = "upsert" /\ refresh'[q].commits = refresh[q].commits
          /\ refresh'[q].todo \subseteq refresh[q].todo /\ refresh[q] \in RefreshState
      BY <1>1, <1>7, <1>10, <2>1
    <2>4. SameOrder
      BY DEF ProjectionInv
    <2>5. /\ \A i \in refresh[p].todo, j \in refresh[q].todo : i.section = j.section => i = j
          /\ \A j \in refresh[q].todo : rowLock[j.section] = p => \A i \in refresh[p].todo : Before(j, i)
      BY <2>1, <2>2, <2>3, <2>4 DEF SameOrder
    <2>6. ASSUME NEW j \in refresh'[q].todo, rowLock'[j.section] = p, NEW i \in refresh'[p].todo
          PROVE  Before(j, i)
      <3>1. j \in refresh[q].todo /\ i \in refresh[p].todo /\ j.section \in Sections
        BY <2>2, <2>3, <2>6, RefreshFields
      <3>2. CASE j.section = item.section
        <4>1. p = r
          BY <1>11, <2>6, <3>2
        <4>2. j = item
          BY <1>2, <2>5, <3>1, <3>2, <4>1
        <4>3. QED
          BY <1>12, <4>1, <4>2
      <3>3. CASE j.section # item.section
        BY <1>11, <2>5, <2>6, <3>1, <3>3
      <3>4. QED
        BY <3>2, <3>3
    <2>7. QED
      BY <2>2, <2>3, <2>5, <2>6
  <1>19. WritesCurrent'
    <2>1. WritesCurrent
      BY DEF ProjectionInv
    <2>2. ASSUME NEW q \in Refreshers, refresh'[q].pc = "upsert"
          PROVE  /\ \A i \in refresh'[q].todo : i.section \notin raced => snapshot[i.section] = i.snap
                 /\ \A v \in refresh'[q].writes : v.section \notin raced =>
                        snapshot[v.section] # NoRow /\ v.of = snapshot[v.section].count
      <3>1. CASE q = r
        <4>1. \A i \in refresh[r].todo : i.section \notin raced => snapshot[i.section] = i.snap
          BY <1>1, <2>1 DEF WritesCurrent
        <4>2. w.section \notin raced => snapshot[w.section] # NoRow /\ w.of = snapshot[w.section].count
          BY <1>2, <1>4, <1>6, <4>1 DEF ProjectionAssumption
        <4>3. \A v \in refresh[r].writes : v.section \notin raced =>
                  snapshot[v.section] # NoRow /\ v.of = snapshot[v.section].count
          BY <1>1, <2>1 DEF WritesCurrent
        <4>4. QED
          BY <1>10, <3>1, <4>1, <4>2, <4>3
      <3>2. CASE q # r
        BY <1>7, <2>1, <2>2, <3>2 DEF WritesCurrent
      <3>3. QED
        BY <3>1, <3>2
    <2>3. QED
      BY <1>11, <2>2 DEF WritesCurrent
  <1>20. DeadlockNeedsNewEvidence'
    <2>1. (LocksHeld /\ SameOrder /\ ProjectionTypeOK => DeadlockNeedsNewEvidence)'
      BY NoCrossing, PTL
    <2>2. QED
      BY <1>13, <1>16, <1>18, <2>1
  <1>21. QED
    BY <1>13, <1>14, <1>15, <1>16, <1>17, <1>18, <1>19, <1>20 DEF ProjectionInv

\* A refresh that leaves its upserts without a write.
LEMMA LeavingKeeps ==
    ASSUME ProjectionAssumption, ProjectionInv, NEW r \in Refreshers, NEW f \in RefreshState,
           refresh' = [refresh EXCEPT ![r] = f], f.pc # "upsert", f.todo = {}, rowLock' = Released(r),
           UNCHANGED <<clock, snapshot, evidence, profile, evaluator, raced>>,
           progress' \in [Sections -> ProgressRow \union {NoRow}],
           EvaluatorsReady', EvidenceFirst', OneViewEach', ProgressBehindOnlyWhenRaced', ContextConsistent'
    PROVE  ProjectionInv'
  <1>1. /\ refresh \in [Refreshers -> RefreshState]
        /\ rowLock \in [Sections -> Refreshers \union {NoRow}]
    BY DEF ProjectionInv, ProjectionTypeOK
  <1>2. /\ refresh' \in [Refreshers -> RefreshState] /\ refresh'[r] = f
        /\ \A q \in Refreshers \ {r} : refresh'[q] = refresh[q]
        /\ rowLock' \in [Sections -> Refreshers \union {NoRow}]
    BY <1>1 DEF Released
  <1>3. ProjectionTypeOK'
    BY <1>2 DEF ProjectionInv, ProjectionTypeOK
  <1>4. LocksHeld' /\ FreshReads' /\ SameOrder' /\ WritesCurrent'
    BY <1>2, OthersRefreshOn
  <1>5. DeadlockNeedsNewEvidence'
    <2>1. (LocksHeld /\ SameOrder /\ ProjectionTypeOK => DeadlockNeedsNewEvidence)'
      BY NoCrossing, PTL
    <2>2. QED
      BY <1>3, <1>4, <2>1
  <1>6. QED
    BY <1>3, <1>4, <1>5 DEF ProjectionInv

\* The rows that are committed are of the last evaluations, but for the raced.
LEMMA RefreshCommitKeeps ==
    ASSUME ProjectionAssumption, ProjectionInv, NEW r \in Refreshers, RefreshCommit(r)
    PROVE  ProjectionInv'
  <1>1. /\ refresh \in [Refreshers -> RefreshState] /\ refresh[r] \in RefreshState
        /\ progress \in [Sections -> ProgressRow \union {NoRow}]
        /\ refresh[r].pc = "upsert" /\ refresh[r].todo = {}
    BY DEF ProjectionInv, ProjectionTypeOK, RefreshCommit
  <1>2. PICK f : f = [refresh[r] EXCEPT !.pc = "context"]
    OBVIOUS
  <1>3. /\ f \in RefreshState /\ f.pc # "upsert" /\ f.todo = {}
        /\ f.views = refresh[r].views /\ f.context = refresh[r].context
    BY <1>1, <1>2 DEF RefreshState
  <1>4. /\ refresh' = [refresh EXCEPT ![r] = f] /\ refresh'[r] = f
        /\ \A q \in Refreshers \ {r} : refresh'[q] = refresh[q]
    BY <1>1, <1>2 DEF RefreshCommit
  <1>5. UNCHANGED <<clock, snapshot, evidence, profile, evaluator, raced>> /\ rowLock' = Released(r)
    BY DEF RefreshCommit
  <1>6. PICK writes : writes = refresh[r].writes
    OBVIOUS
  <1>7. writes \subseteq ProgressRow
    BY <1>1, <1>6, RefreshFields
  <1>8. progress' = [s \in Sections |-> IF \E w \in writes : w.section = s
                                        THEN CHOOSE w \in writes : w.section = s
                                        ELSE progress[s]]
    BY <1>6 DEF RefreshCommit
  <1>9. \A s \in Sections : \/ progress'[s] = progress[s]
                            \/ progress'[s] \in writes /\ progress'[s].section = s
    <2>1. TAKE s \in Sections
    <2>2. CASE \E w \in writes : w.section = s
      <3>1. /\ (CHOOSE w \in writes : w.section = s) \in writes
            /\ (CHOOSE w \in writes : w.section = s).section = s
        BY <2>2
      <3>2. QED
        BY <1>8, <2>2, <3>1
    <2>3. CASE ~\E w \in writes : w.section = s
      BY <1>8, <2>3
    <2>4. QED
      BY <2>2, <2>3
  <1>10. progress' \in [Sections -> ProgressRow \union {NoRow}]
    <2>1. DOMAIN progress' = Sections /\ progress' = [s \in Sections |-> progress'[s]]
      BY <1>8
    <2>2. \A s \in Sections : progress'[s] \in ProgressRow \union {NoRow}
      BY <1>1, <1>7, <1>9
    <2>3. QED
      BY <2>1, <2>2
  <1>11. ProgressBehindOnlyWhenRaced'
    <2>1. SUFFICES ASSUME NEW s \in Sections, snapshot[s] # NoRow, s \notin raced
                   PROVE  progress'[s] # NoRow /\ progress'[s].of = snapshot[s].count
      BY <1>5 DEF ProgressBehindOnlyWhenRaced
    <2>2. CASE progress'[s] = progress[s]
      BY <2>1, <2>2 DEF ProjectionInv, ProgressBehindOnlyWhenRaced
    <2>3. CASE progress'[s] \in writes /\ progress'[s].section = s
      <3>1. PICK w \in writes : w = progress'[s] /\ w.section = s
        BY <2>3
      <3>2. w.of = snapshot[s].count
        BY <1>1, <1>6, <2>1, <3>1 DEF ProjectionInv, WritesCurrent
      <3>3. w # NoRow
        BY <1>7 DEF ProjectionAssumption
      <3>4. QED
        BY <3>1, <3>2, <3>3
    <2>4. QED
      BY <1>9, <2>2, <2>3
  <1>12. EvaluatorsReady'
    BY <1>5 DEF ProjectionInv, EvaluatorsReady
  <1>13. EvidenceFirst' /\ OneViewEach' /\ ContextConsistent'
    BY <1>3, <1>4, <1>5, NoContextYet
  <1>14. QED
    BY <1>3, <1>4, <1>5, <1>10, <1>11, <1>12, <1>13, LeavingKeeps

\* A victim writes nothing.
LEMMA DeadlockVictimKeeps ==
    ASSUME ProjectionAssumption, ProjectionInv, NEW r \in Refreshers, DeadlockVictim(r)
    PROVE  ProjectionInv'
  <1>1. refresh \in [Refreshers -> RefreshState] /\ progress \in [Sections -> ProgressRow \union {NoRow}]
    BY DEF ProjectionInv, ProjectionTypeOK
  <1>2. PICK f : f = [Idle EXCEPT !.pc = "done"]
    OBVIOUS
  <1>3. f \in RefreshState /\ f.pc # "upsert" /\ f.todo = {} /\ f.views = {} /\ f.context = NoRow
    BY <1>2 DEF Idle, RefreshState
  <1>4. /\ refresh' = [refresh EXCEPT ![r] = f] /\ refresh'[r] = f
        /\ \A q \in Refreshers \ {r} : refresh'[q] = refresh[q]
    BY <1>1, <1>2 DEF DeadlockVictim
  <1>5. UNCHANGED <<clock, snapshot, evidence, progress, profile, evaluator, raced>> /\ rowLock' = Released(r)
    BY DEF DeadlockVictim
  <1>6. EvaluatorsReady' /\ ProgressBehindOnlyWhenRaced'
    BY <1>5, RowsStay
  <1>7. EvidenceFirst' /\ OneViewEach' /\ ContextConsistent'
    BY <1>3, <1>4, <1>5, NoContextYet
  <1>8. QED
    BY <1>1, <1>3, <1>4, <1>5, <1>6, <1>7, LeavingKeeps

\* The views are of one read.
LEMMA ContextViewsKeeps ==
    ASSUME ProjectionAssumption, ProjectionInv, NEW r \in Refreshers, ContextViews(r)
    PROVE  ProjectionInv'
  <1>1. /\ refresh \in [Refreshers -> RefreshState] /\ progress \in [Sections -> ProgressRow \union {NoRow}]
        /\ snapshot \in [Sections -> SnapshotRow \union {NoRow}]
    BY DEF ProjectionInv, ProjectionTypeOK
  <1>2. PICK views : views = Views
    OBVIOUS
  <1>3. \A v \in views : \E s \in Evaluated : v = Projection(s, snapshot[s])
    BY <1>2 DEF Views
  <1>4. \A s \in Evaluated : /\ Projection(s, snapshot[s]) \in ProgressRow
                             /\ Projection(s, snapshot[s]).section = s
    BY <1>1, ProjectionIsRow DEF Evaluated
  <1>5. views \subseteq ProgressRow /\ \A v, w \in views : v.section = w.section => v = w
    BY <1>3, <1>4
  <1>6. PICK f : f = [Idle EXCEPT !.pc = "evidence", !.views = views]
    OBVIOUS
  <1>7. f \in RefreshState /\ f.pc # "upsert" /\ f.todo = {} /\ f.views = views /\ f.context = NoRow
    BY <1>5, <1>6 DEF Idle, RefreshState
  <1>8. /\ refresh' = [refresh EXCEPT ![r] = f] /\ refresh'[r] = f
        /\ \A q \in Refreshers \ {r} : refresh'[q] = refresh[q]
    BY <1>1, <1>2, <1>6 DEF ContextViews
  <1>9. UNCHANGED <<clock, snapshot, evidence, progress, profile, rowLock, evaluator, raced>>
    BY DEF ContextViews
  <1>10. rowLock' = Released(r)
    BY <1>9, NoUpsertNoLock DEF ContextViews
  <1>11. EvaluatorsReady' /\ ProgressBehindOnlyWhenRaced'
    BY <1>9, RowsStay
  <1>12. EvidenceFirst'
    <2>1. views # {} => evidence # <<>>
      BY <1>3 DEF ProjectionInv, EvidenceFirst
    <2>2. QED
      BY <1>7, <1>8, <1>9, <2>1 DEF ProjectionInv, EvidenceFirst, Evaluated
  <1>13. OneViewEach'
    BY <1>5, <1>7, <1>8 DEF ProjectionInv, OneViewEach
  <1>14. ContextConsistent'
    BY <1>7, <1>8, SMTT(30) DEF ProjectionInv, ContextConsistent, ModuleTargets
  <1>15. QED
    BY <1>1, <1>7, <1>8, <1>9, <1>10, <1>11, <1>12, <1>13, <1>14, LeavingKeeps

\* The context fits whatever evidence came since its views were read.
LEMMA ContextEvidenceKeeps ==
    ASSUME ProjectionAssumption, ProjectionInv, NEW r \in Refreshers, NEW s \in Sections,
           ContextEvidence(r, s)
    PROVE  ProjectionInv'
  <1>1. /\ refresh \in [Refreshers -> RefreshState] /\ progress \in [Sections -> ProgressRow \union {NoRow}]
        /\ refresh[r] \in RefreshState /\ refresh[r].pc = "evidence"
    BY DEF ProjectionInv, ProjectionTypeOK, ContextEvidence
  <1>2. PICK views, c : views = refresh[r].views /\ c = Context(s, views)
    OBVIOUS
  <1>3. /\ views \in SUBSET ProgressRow
        /\ \A v, w \in views : v.section = w.section => v = w
        /\ views # {} => evidence # <<>>
    BY <1>1, <1>2, RefreshFields DEF ProjectionInv, OneViewEach, EvidenceFirst
  <1>4. ProjectionTypeOK
    BY DEF ProjectionInv
  <1>5. /\ c \in AdaptationContexts
        /\ {v.section : v \in c.weak} \intersect {v.section : v \in c.strong} = {}
        /\ ({v.section : v \in c.weak} \union {v.section : v \in c.strong})
               \subseteq ModuleTargets(c.stage) \ {c.stage}
        /\ c.withEvidence <= c.total
        /\ c.signal # "new" => c.withEvidence > 0 /\ c.pattern.latest # NoRow
        /\ c.pattern.correctLike + c.pattern.support <= 5
    BY <1>2, <1>3, <1>4, ContextFits
  <1>6. PICK f : f = [refresh[r] EXCEPT !.pc = "done", !.context = c]
    OBVIOUS
  <1>7. /\ f \in RefreshState /\ f.pc # "upsert" /\ f.todo = refresh[r].todo /\ f.views = views
        /\ f.context = c
    BY <1>1, <1>2, <1>5, <1>6 DEF RefreshState
  <1>8. f.todo = {}
    BY <1>1, <1>7 DEF ProjectionInv, LocksHeld
  <1>9. refresh' = [refresh EXCEPT ![r] = f]
    <2>1. refresh' = [refresh EXCEPT ![r] = [refresh[r] EXCEPT !.pc = "done",
                                                !.context = Context(s, refresh[r].views)]]
      BY <1>1 DEF ContextEvidence
    <2>2. QED
      BY <1>2, <1>6, <2>1
  <1>10. refresh'[r] = f /\ \A q \in Refreshers \ {r} : refresh'[q] = refresh[q]
    BY <1>1, <1>9
  <1>11. UNCHANGED <<clock, snapshot, evidence, progress, profile, rowLock, evaluator, raced>>
    BY DEF ContextEvidence
  <1>12. rowLock' = Released(r)
    BY <1>1, <1>11, NoUpsertNoLock
  <1>13. EvaluatorsReady' /\ ProgressBehindOnlyWhenRaced'
    BY <1>11, RowsStay
  <1>14. EvidenceFirst' /\ OneViewEach'
    BY <1>2, <1>3, <1>7, <1>10, <1>11 DEF ProjectionInv, EvidenceFirst, OneViewEach, Evaluated
  <1>15. ContextConsistent'
    <2>1. SUFFICES ASSUME NEW q \in Refreshers, refresh'[q].context # NoRow
                   PROVE  LET d == refresh'[q].context
                              named(vs) == {v.section : v \in vs} IN
                          /\ named(d.weak) \intersect named(d.strong) = {}
                          /\ (named(d.weak) \union named(d.strong)) \subseteq ModuleTargets(d.stage) \ {d.stage}
                          /\ d.withEvidence <= d.total
                          /\ d.signal # "new" => d.withEvidence > 0 /\ d.pattern.latest # NoRow
                          /\ d.pattern.correctLike + d.pattern.support <= 5
      BY DEF ContextConsistent, ModuleTargets
    <2>2. CASE q = r
      BY <1>5, <1>7, <1>10, <2>2
    <2>3. CASE q # r
      BY <1>10, <2>1, <2>3 DEF ProjectionInv, ContextConsistent
    <2>4. QED
      BY <2>2, <2>3
  <1>16. QED
    BY <1>1, <1>7, <1>8, <1>9, <1>11, <1>12, <1>13, <1>14, <1>15, LeavingKeeps

\* An evaluation that holds the profile knows what it will write.
LEMMA EvaluationBeginsKeeps ==
    ASSUME ProjectionAssumption, ProjectionInv, NEW e \in Evaluators, NEW s \in Sections,
           NEW decision \in Decisions, NEW score \in Scores, EvaluationBegins(e, s, decision, score)
    PROVE  ProjectionInv'
  <1>1. evaluator \in [Evaluators -> EvaluatorState]
    BY DEF ProjectionInv, ProjectionTypeOK
  <1>2. PICK f : f = [pc |-> "persist", section |-> s, decision |-> decision, score |-> score]
    OBVIOUS
  <1>3. f \in EvaluatorState
    BY <1>2 DEF EvaluatorState, ProjectionAssumption
  <1>4. evaluator' = [evaluator EXCEPT ![e] = f]
    BY <1>2 DEF EvaluationBegins
  <1>5. UNCHANGED <<clock, snapshot, evidence, progress, rowLock, refresh, raced>> /\ profile' = e
    BY DEF EvaluationBegins
  <1>6. ProjectionTypeOK'
    <2>1. evaluator' \in [Evaluators -> EvaluatorState]
      BY <1>1, <1>3, <1>4
    <2>2. QED
      BY <1>5, <2>1 DEF ProjectionInv, ProjectionTypeOK
  <1>7. EvaluatorsReady'
    BY <1>1, <1>2, <1>4 DEF ProjectionInv, EvaluatorsReady
  <1>8. EvidenceFirst' /\ OneViewEach' /\ ContextConsistent' /\ ProgressBehindOnlyWhenRaced'
    BY <1>5 DEF ProjectionInv, EvidenceFirst, Evaluated, OneViewEach, ContextConsistent, ModuleTargets,
       ProgressBehindOnlyWhenRaced
  <1>9. LocksHeld' /\ FreshReads' /\ SameOrder' /\ WritesCurrent'
    BY <1>5 DEF ProjectionInv, LocksHeld, FreshReads, SameOrder, WritesCurrent, Item, Before, Evaluated
  <1>10. DeadlockNeedsNewEvidence'
    <2>1. (LocksHeld /\ SameOrder /\ ProjectionTypeOK => DeadlockNeedsNewEvidence)'
      BY NoCrossing, PTL
    <2>2. QED
      BY <1>6, <1>9, <2>1
  <1>11. QED
    BY <1>6, <1>7, <1>8, <1>9, <1>10 DEF ProjectionInv

\* An evaluation makes the reads under way old: they are not compared with
\* later ones any more, and its section counts as raced.
LEMMA EvaluationPersistsKeeps ==
    ASSUME ProjectionAssumption, ProjectionInv, NEW e \in Evaluators, EvaluationPersists(e)
    PROVE  ProjectionInv'
  <1>1. PICK E : E = [section : Sections, decision : Decisions]
    OBVIOUS
  <1>2. /\ evaluator \in [Evaluators -> EvaluatorState] /\ evaluator[e] \in EvaluatorState
        /\ snapshot \in [Sections -> SnapshotRow \union {NoRow}]
        /\ progress \in [Sections -> ProgressRow \union {NoRow}]
        /\ refresh \in [Refreshers -> RefreshState]
        /\ evidence \in Seq(E) /\ clock \in Nat /\ evaluator[e].pc = "persist"
    BY <1>1 DEF ProjectionInv, ProjectionTypeOK, EvaluationPersists
  <1>3. Len(evidence) \in Nat
    BY <1>2
  <1>4. PICK s, decision, score :
            s = evaluator[e].section /\ decision = evaluator[e].decision /\ score = evaluator[e].score
    OBVIOUS
  <1>5. s \in Sections /\ decision \in Decisions /\ score \in Scores
    BY <1>2, <1>4 DEF ProjectionInv, EvaluatorsReady
  <1>6. PICK count : count = IF snapshot[s] = NoRow THEN 0 ELSE snapshot[s].count
    OBVIOUS
  <1>7. count \in Nat
    <2>1. snapshot[s] # NoRow => snapshot[s] \in SnapshotRow
      BY <1>2, <1>5
    <2>2. QED
      BY <1>6, <2>1, SnapshotFields
  <1>8. PICK after : after = [score |-> score, at |-> clock, count |-> count + 1,
                              decision |-> decision, nth |-> Len(evidence) + 1]
    OBVIOUS
  <1>9. after \in SnapshotRow /\ after.count = count + 1
    BY <1>2, <1>3, <1>5, <1>7, <1>8 DEF SnapshotRow
  <1>10. after # NoRow
    BY <1>9 DEF ProjectionAssumption
  <1>11. PICK row : row = Projection(s, after)
    OBVIOUS
  <1>12. row \in ProgressRow /\ row # NoRow /\ row.of = after.count
    BY <1>5, <1>9, <1>11, ProjectionIsRow
  <1>13. /\ snapshot' = [snapshot EXCEPT ![s] = after]
         /\ progress' = [progress EXCEPT ![s] = row]
         /\ evidence' = Append(evidence, [section |-> s, decision |-> decision])
         /\ UNCHANGED <<clock, rowLock, refresh>> /\ profile' = NoRow
         /\ evaluator' = [evaluator EXCEPT ![e].pc = "done"]
    BY <1>4, <1>6, <1>8, <1>11 DEF EvaluationPersists
  <1>14. raced' = IF \E r \in Refreshers : refresh[r].pc = "upsert" THEN raced \union {s} ELSE raced \ {s}
    BY <1>4 DEF EvaluationPersists
  <1>15. evidence' \in Seq(E) /\ Len(evidence') = Len(evidence) + 1 /\ evidence' # <<>>
    BY <1>1, <1>2, <1>5, <1>13
  <1>16. /\ snapshot'[s] = after /\ \A t \in Sections \ {s} : snapshot'[t] = snapshot[t]
         /\ progress'[s] = row /\ \A t \in Sections \ {s} : progress'[t] = progress[t]
    BY <1>2, <1>5, <1>13
  <1>17. ProjectionTypeOK'
    <2>1. snapshot' \in [Sections -> SnapshotRow \union {NoRow}]
      BY <1>2, <1>9, <1>13
    <2>2. progress' \in [Sections -> ProgressRow \union {NoRow}]
      BY <1>2, <1>12, <1>13
    <2>3. evaluator' \in [Evaluators -> EvaluatorState]
      <3>1. PICK g : g = [evaluator[e] EXCEPT !.pc = "done"]
        OBVIOUS
      <3>2. g \in EvaluatorState
        BY <1>2, <3>1 DEF EvaluatorState
      <3>3. evaluator' = [evaluator EXCEPT ![e] = g]
        BY <1>2, <1>13, <3>1
      <3>4. QED
        BY <1>2, <3>2, <3>3
    <2>4. raced' \subseteq Sections
      BY <1>5, <1>14 DEF ProjectionInv, ProjectionTypeOK
    <2>5. evidence' \in Seq([section : Sections, decision : Decisions])
      BY <1>1, <1>15
    <2>6. QED
      BY <1>13, <2>1, <2>2, <2>3, <2>4, <2>5 DEF ProjectionInv, ProjectionTypeOK
  <1>18. EvaluatorsReady'
    <2>1. /\ evaluator'[e].pc = "done"
          /\ \A x \in Evaluators \ {e} : evaluator'[x] = evaluator[x]
      BY <1>2, <1>13 DEF EvaluatorState
    <2>2. QED
      BY <2>1 DEF ProjectionInv, EvaluatorsReady
  <1>19. EvidenceFirst' /\ OneViewEach' /\ ContextConsistent'
    BY <1>13, <1>15 DEF ProjectionInv, EvidenceFirst, OneViewEach, ContextConsistent, ModuleTargets
  <1>20. LocksHeld'
    BY <1>13 DEF ProjectionInv, LocksHeld
  <1>21. FreshReads'
    <2>1. ASSUME NEW r \in Refreshers, refresh[r].pc = "upsert"
          PROVE  refresh[r].commits \in Nat /\ refresh[r].commits <= Len(evidence)
      BY <1>2, <2>1, RefreshFields DEF ProjectionInv, FreshReads
    <2>2. ASSUME NEW r \in Refreshers, refresh[r].pc = "upsert"
          PROVE  refresh[r].commits <= Len(evidence') /\ refresh[r].commits # Len(evidence')
      BY <1>3, <1>15, <2>1, <2>2
    <2>3. QED
      BY <1>13, <2>2 DEF FreshReads
  <1>22. SameOrder'
    BY <1>13 DEF ProjectionInv, SameOrder, Before
  <1>23. WritesCurrent'
    <2>1. SUFFICES ASSUME NEW r \in Refreshers, refresh[r].pc = "upsert"
                   PROVE  /\ \A item \in refresh[r].todo : item.section \notin raced' =>
                                snapshot'[item.section] = item.snap
                          /\ \A w \in refresh[r].writes : w.section \notin raced' =>
                                snapshot'[w.section] # NoRow /\ w.of = snapshot'[w.section].count
      BY <1>13 DEF WritesCurrent
    <2>2. raced' = raced \union {s}
      BY <1>14, <2>1
    <2>3. /\ \A item \in refresh[r].todo : item.section \in Sections
          /\ \A w \in refresh[r].writes : w.section \in Sections
      <3>1. refresh[r] \in RefreshState
        BY <1>2
      <3>2. QED
        BY <3>1, RefreshFields, RowFields
    <2>4. /\ \A item \in refresh[r].todo : item.section \notin raced => snapshot[item.section] = item.snap
          /\ \A w \in refresh[r].writes : w.section \notin raced =>
                snapshot[w.section] # NoRow /\ w.of = snapshot[w.section].count
      BY <2>1 DEF ProjectionInv, WritesCurrent
    <2>5. QED
      BY <1>16, <2>2, <2>3, <2>4
  <1>24. ProgressBehindOnlyWhenRaced'
    <2>1. SUFFICES ASSUME NEW t \in Sections, snapshot'[t] # NoRow, t \notin raced'
                   PROVE  progress'[t] # NoRow /\ progress'[t].of = snapshot'[t].count
      BY DEF ProgressBehindOnlyWhenRaced
    <2>2. CASE t = s
      BY <1>12, <1>16, <2>2
    <2>3. CASE t # s
      BY <1>14, <1>16, <2>1, <2>3 DEF ProjectionInv, ProgressBehindOnlyWhenRaced
    <2>4. QED
      BY <2>2, <2>3
  <1>25. DeadlockNeedsNewEvidence'
    <2>1. (LocksHeld /\ SameOrder /\ ProjectionTypeOK => DeadlockNeedsNewEvidence)'
      BY NoCrossing, PTL
    <2>2. QED
      BY <1>17, <1>20, <1>22, <2>1
  <1>26. QED
    BY <1>17, <1>18, <1>19, <1>20, <1>21, <1>22, <1>23, <1>24, <1>25 DEF ProjectionInv

\* Time passes by what is stored.
LEMMA TickProjectionKeeps ==
    ASSUME ProjectionAssumption, ProjectionInv, TickProjection \/ UNCHANGED projectionVars
    PROVE  ProjectionInv'
  <1>1. UNCHANGED <<snapshot, evidence, progress, profile, rowLock, refresh, evaluator, raced>>
    BY DEF TickProjection, projectionVars
  <1>2. clock' \in Nat
    BY DEF TickProjection, projectionVars, ProjectionInv, ProjectionTypeOK
  <1>3. ProjectionTypeOK'
    BY <1>1, <1>2 DEF ProjectionInv, ProjectionTypeOK
  <1>4. /\ EvaluatorsReady' /\ EvidenceFirst' /\ OneViewEach' /\ ContextConsistent'
        /\ ProgressBehindOnlyWhenRaced'
    BY <1>1 DEF ProjectionInv, EvaluatorsReady, EvidenceFirst, Evaluated, OneViewEach, ContextConsistent,
       ModuleTargets, ProgressBehindOnlyWhenRaced
  <1>5. LocksHeld' /\ FreshReads' /\ SameOrder' /\ WritesCurrent'
    BY <1>1 DEF ProjectionInv, LocksHeld, FreshReads, SameOrder, WritesCurrent, Item, Before, Evaluated
  <1>6. DeadlockNeedsNewEvidence'
    <2>1. (LocksHeld /\ SameOrder /\ ProjectionTypeOK => DeadlockNeedsNewEvidence)'
      BY NoCrossing, PTL
    <2>2. QED
      BY <1>3, <1>5, <2>1
  <1>7. QED
    BY <1>3, <1>4, <1>5, <1>6 DEF ProjectionInv

\* What was evaluated before is projected, and there is evidence of it.
LEMMA InitProjectionInv ==
    ASSUME ProjectionAssumption, InitProjection
    PROVE  ProjectionInv
  <1>1. PICK earlier \in UNION {[S -> Scores] : S \in SUBSET Sections}, decision \in Decisions :
           LET nth(s) == Cardinality({x \in DOMAIN earlier : x <= s})
               snap(s) == [score |-> earlier[s], at |-> 0, decision |-> decision,
                           count |-> 1, nth |-> nth(s)] IN
           /\ clock = 0
           /\ snapshot = [s \in Sections |-> IF s \in DOMAIN earlier THEN snap(s) ELSE NoRow]
           /\ \E order \in [1 .. Cardinality(DOMAIN earlier) -> DOMAIN earlier] :
                 /\ \A i, j \in DOMAIN order : i < j => order[i] < order[j]
                 /\ evidence = [i \in DOMAIN order |-> [section |-> order[i], decision |-> decision]]
           /\ progress = [s \in Sections |-> IF s \in DOMAIN earlier
                                             THEN Projection(s, snapshot[s]) ELSE NoRow]
           /\ profile = NoRow
           /\ rowLock = [s \in Sections |-> NoRow]
           /\ refresh = [r \in Refreshers |-> Idle]
           /\ evaluator = [e \in Evaluators |-> [pc |-> "idle", section |-> NoRow,
                                                 decision |-> NoRow, score |-> 0]]
           /\ raced = {}
    BY DEF InitProjection
  <1>0. PICK S \in SUBSET Sections : earlier \in [S -> Scores]
    OBVIOUS
  <1>2. DOMAIN earlier = S
    BY <1>0
  <1>3. IsFiniteSet(S) /\ Cardinality(S) \in Nat
    BY FS_Subset, FS_CardinalityType DEF ProjectionAssumption
  <1>4. \A s \in S : Cardinality({x \in S : x <= s}) \in Nat
    <2>1. TAKE s \in S
    <2>2. PICK T : T = {x \in S : x <= s}
      OBVIOUS
    <2>3. IsFiniteSet(T) /\ Cardinality(T) \in Nat
      BY <1>3, <2>2, FS_Subset, FS_CardinalityType
    <2>4. QED
      BY <2>2, <2>3
  <1>5. snapshot = [s \in Sections |->
                      IF s \in S THEN [score |-> earlier[s], at |-> 0, decision |-> decision,
                                       count |-> 1, nth |-> Cardinality({x \in S : x <= s})]
                      ELSE NoRow]
    BY <1>1, <1>2
  <1>6. \A s \in Sections : /\ s \in S => snapshot[s] \in SnapshotRow /\ snapshot[s] # NoRow
                            /\ s \notin S => snapshot[s] = NoRow
    <2>1. \A s \in S : [score |-> earlier[s], at |-> 0, decision |-> decision,
                        count |-> 1, nth |-> Cardinality({x \in S : x <= s})] \in SnapshotRow
      BY <1>0, <1>1, <1>4 DEF SnapshotRow
    <2>2. NoRow \notin SnapshotRow
      BY DEF ProjectionAssumption
    <2>3. QED
      BY <1>5, <2>1, <2>2
  <1>7. \A s \in Sections : /\ s \in S => /\ progress[s] = Projection(s, snapshot[s])
                                          /\ progress[s] \in ProgressRow /\ progress[s] # NoRow
                                          /\ progress[s].of = snapshot[s].count
                            /\ s \notin S => progress[s] = NoRow
    BY <1>1, <1>2, <1>6, ProjectionIsRow
  <1>8. PICK E : E = [section : Sections, decision : Decisions]
    OBVIOUS
  <1>9. evidence \in Seq(E) /\ (S # {} => evidence # <<>>)
    <2>1. PICK order \in [1 .. Cardinality(S) -> S] :
              evidence = [i \in DOMAIN order |-> [section |-> order[i], decision |-> decision]]
      BY <1>1, <1>2
    <2>2. evidence \in [1 .. Cardinality(S) -> E]
      BY <1>8, <2>1
    <2>3. evidence \in Seq(E) /\ Len(evidence) = Cardinality(S)
      BY <1>3, <2>2
    <2>4. S # {} => Cardinality(S) # 0
      BY <1>3, FS_EmptySet
    <2>5. QED
      BY <2>3, <2>4
  <1>10. \A r \in Refreshers : refresh[r] = Idle
    BY <1>1
  <1>11. Idle.pc = "idle" /\ Idle.todo = {} /\ Idle.views = {} /\ Idle.context = NoRow
    BY DEF Idle
  <1>12. ProjectionTypeOK
    <2>1. Idle \in RefreshState
      BY DEF Idle, RefreshState
    <2>2. refresh \in [Refreshers -> RefreshState]
      BY <1>1, <2>1
    <2>3. [pc |-> "idle", section |-> NoRow, decision |-> NoRow, score |-> 0] \in EvaluatorState
      BY DEF EvaluatorState, ScoreRange
    <2>4. evaluator \in [Evaluators -> EvaluatorState]
      BY <1>1, <2>3
    <2>5. snapshot \in [Sections -> SnapshotRow \union {NoRow}]
      BY <1>5, <1>6
    <2>6. progress \in [Sections -> ProgressRow \union {NoRow}]
      BY <1>1, <1>7
    <2>7. rowLock \in [Sections -> Refreshers \union {NoRow}] /\ clock \in Nat /\ raced \subseteq Sections
      BY <1>1
    <2>8. profile \in Evaluators \union {NoRow}
      BY <1>1
    <2>9. QED
      BY <1>8, <1>9, <2>2, <2>4, <2>5, <2>6, <2>7, <2>8 DEF ProjectionTypeOK
  <1>13. EvaluatorsReady
    BY <1>1 DEF EvaluatorsReady
  <1>14. EvidenceFirst
    BY <1>6, <1>9, <1>10, <1>11 DEF EvidenceFirst, Evaluated
  <1>15. OneViewEach /\ ContextConsistent /\ FreshReads /\ SameOrder /\ WritesCurrent
    BY <1>10, <1>11 DEF OneViewEach, ContextConsistent, FreshReads, SameOrder, WritesCurrent
  <1>16. LocksHeld
    BY <1>1, <1>10, <1>11 DEF LocksHeld
  <1>17. ProgressBehindOnlyWhenRaced
    BY <1>6, <1>7 DEF ProgressBehindOnlyWhenRaced
  <1>18. DeadlockNeedsNewEvidence
    BY <1>12, <1>15, <1>16, NoCrossing
  <1>19. QED
    BY <1>12, <1>13, <1>14, <1>15, <1>16, <1>17, <1>18 DEF ProjectionInv

\* The inductive invariant of the projection.
THEOREM ProjectionInvariance ==
    ASSUME ProjectionAssumption
    PROVE  SpecProjection => []ProjectionInv
  <1>1. ASSUME InitProjection
        PROVE  ProjectionInv
    BY <1>1, InitProjectionInv
  <1>2. ASSUME ProjectionInv, [NextProjection]_projectionVars
        PROVE  ProjectionInv'
    <2>1. ASSUME NEW r \in Refreshers,
                 \/ RefreshRead(r) \/ RefreshUpsert(r) \/ RefreshCommit(r)
                 \/ DeadlockVictim(r) \/ ContextViews(r)
                 \/ \E s \in Sections : ContextEvidence(r, s)
          PROVE  ProjectionInv'
      BY <1>2, <2>1, RefreshReadKeeps, RefreshUpsertKeeps, RefreshCommitKeeps, DeadlockVictimKeeps,
         ContextViewsKeeps, ContextEvidenceKeeps
    <2>2. ASSUME NEW e \in Evaluators,
                 \/ \E s \in Sections, d \in Decisions, score \in Scores : EvaluationBegins(e, s, d, score)
                 \/ EvaluationPersists(e)
          PROVE  ProjectionInv'
      BY <1>2, <2>2, EvaluationBeginsKeeps, EvaluationPersistsKeeps
    <2>3. CASE TickProjection \/ UNCHANGED projectionVars
      BY <1>2, <2>3, TickProjectionKeeps
    <2>4. QED
      BY <1>2, <2>1, <2>2, <2>3 DEF NextProjection
  <1>3. QED
    BY <1>1, <1>2, PTL DEF SpecProjection

\* The types of the projection's tables and transactions.
THEOREM ProjectionTypeCorrect ==
    ASSUME ProjectionAssumption
    PROVE  SpecProjection => []ProjectionTypeOK
  <1>1. ProjectionInv => ProjectionTypeOK
    BY DEF ProjectionInv
  <1>2. QED
    BY <1>1, ProjectionInvariance, PTL

\* Two refreshes of a learner block each other only if one of them read after
\* an evaluation that the other had not seen (refresh_projection).
THEOREM DeadlockAlwaysNeedsNewEvidence ==
    ASSUME ProjectionAssumption
    PROVE  SpecProjection => []DeadlockNeedsNewEvidence
  <1>1. ProjectionInv => DeadlockNeedsNewEvidence
    BY DEF ProjectionInv
  <1>2. QED
    BY <1>1, ProjectionInvariance, PTL

\* A topic_progress row is of the section's last evaluation, unless a refresh
\* was under way when that evaluation committed (refresh_projection,
\* _persist_mastery_update).
THEOREM ProgressAlwaysBehindOnlyWhenRaced ==
    ASSUME ProjectionAssumption
    PROVE  SpecProjection => []ProgressBehindOnlyWhenRaced
  <1>1. ProjectionInv => ProgressBehindOnlyWhenRaced
    BY DEF ProjectionInv
  <1>2. QED
    BY <1>1, ProjectionInvariance, PTL

\* A context is consistent although its snapshots and its evidence are read in
\* two transactions (build_adaptation_context).
THEOREM ContextAlwaysConsistent ==
    ASSUME ProjectionAssumption
    PROVE  SpecProjection => []ContextConsistent
  <1>1. ProjectionInv => ContextConsistent
    BY DEF ProjectionInv
  <1>2. QED
    BY <1>1, ProjectionInvariance, PTL
=============================================================================
