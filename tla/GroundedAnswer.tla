---------------------------- MODULE GroundedAnswer ---------------------------
(***************************************************************************)
(* Answering a question from the book: the session of the interaction log, *)
(* retrieval with diversity, the judgement of the evidence, one rewrite of *)
(* the question, generation with citations, and the interaction recorded   *)
(* with its sources (platform/chat/runtime.py, platform/rag/...).          *)
(* A point of the search is [id, score, chars, match, shown]: its score in *)
(* tenths, the characters of its text, whether it holds a term of the      *)
(* question, and whether any text is left of it for the prompt.            *)
(***************************************************************************)
EXTENDS Numbering, Sequences, SequencesExt

CONSTANTS
    Questions,         \* questions being answered, of one learner
    Terms,             \* eligible terms of a question
    ChunkIds,          \* ids of the indexed chunks
    Searches,          \* results the vector store may return, best first
    Similar,           \* pairs of chunk ids with (nearly) the same vector
    FinalK,            \* rag_final_k
    MinScore,          \* rag_min_score
    MinChars,          \* rag_min_evidence_chars
    MinTerms,          \* rag_offtopic_min_query_terms
    OfftopicCeiling,   \* rag_offtopic_score_ceiling
    RewriteGain,       \* REWRITE_MIN_TOP_SCORE_GAIN
    MaxAttempts        \* bound: how often the turn of a question is tried

ScoredPoint == [id : ChunkIds, score : Nat, chars : Nat, match : BOOLEAN, shown : BOOLEAN]

\* The chunks are as many as they seem.
Distinct(chunks) == \A j, k \in DOMAIN chunks : chunks[j].id = chunks[k].id => j = k

\* The store returns a point once, and better ones before worse ones.
IsSearch(found) ==
    /\ found \in Seq(ScoredPoint) /\ Distinct(found)
    /\ \A j, k \in DOMAIN found : j <= k => found[k].score <= found[j].score

RetrievalSettings ==
    /\ FinalK \in Nat \ {0} /\ MinScore \in Nat /\ MinChars \in Nat \ {0}
    /\ MinTerms \in Nat /\ OfftopicCeiling \in Nat /\ RewriteGain \in Nat /\ MaxAttempts \in Nat
    /\ \A found \in Searches : IsSearch(found)

VARIABLES
    ask,               \* each question: [pc, attempts, session, chunks, top, weak]
    chatSessions,      \* rows of the session table, numbered
    interactions       \* the log: [question, session, sources, citations, answered]

answerVars == <<ask, chatSessions, interactions>>

-----------------------------------------------------------------------------
(* Retrieval and the judgement of it.                                      *)

\* _select_with_mmr: of the remaining candidates the first with the best score,
\* half relevance and half novelty, FinalK times.
MmrScore(found, chosen, i) ==
    found[i].score
        - IF \E j \in chosen : {found[i].id, found[j].id} \in Similar THEN 10 ELSE 0

IsBest(found, chosen, i) ==
    LET rest == DOMAIN found \ chosen IN
    /\ i \in rest
    /\ \A j \in rest : LET a == MmrScore(found, chosen, i)
                           b == MmrScore(found, chosen, j)
                       IN  a > b \/ (a = b /\ i <= j)

MmrPicks(found) ==
    {picks \in [1 .. FinalK -> DOMAIN found] :
        \A k \in 1 .. FinalK : IsBest(found, {picks[j] : j \in 1 .. k - 1}, picks[k])}

SelectWithMmr(found) ==
    IF Len(found) <= FinalK THEN {found}
    ELSE {[k \in 1 .. FinalK |-> found[picks[k]]] : picks \in MmrPicks(found)}

TopScore(candidates) == IF candidates = <<>> THEN 0 ELSE candidates[1].score
EvidenceChars(chunks) == FoldLeft(LAMBDA n, c : n + c.chars, 0, chunks)
Matched(chunks) == \E i \in 1 .. Len(chunks) : chunks[i].match

\* _weak_evidence_decision
WeakEvidence(q, chunks, top) ==
    \/ chunks = <<>>
    \/ EvidenceChars(chunks) < MinChars
    \/ top < MinScore
    \/ Terms[q] >= MinTerms /\ ~Matched(chunks) /\ top < OfftopicCeiling

ShouldAcceptRewrite(weak, top, originalTop) == ~weak /\ top - originalTop >= RewriteGain

-----------------------------------------------------------------------------
InitAnswer ==
    /\ ask = [q \in Questions |-> [pc |-> "idle", attempts |-> 0, session |-> 0,
                                   chunks |-> <<>>, top |-> 0, weak |-> FALSE]]
    /\ chatSessions = 0 /\ interactions = <<>>

Go(q, from, record) == ask[q].pc = from /\ ask' = [ask EXCEPT ![q] = record]
To(q, from, pc) == Go(q, from, [ask[q] EXCEPT !.pc = pc])

\* The worker runs the turn of the question, again when it failed before.
StartQuestion(q) ==
    /\ ask[q].pc \in {"idle", "failed"} /\ ask[q].attempts < MaxAttempts
    /\ ask' = [ask EXCEPT ![q].pc = "session", ![q].attempts = @ + 1]
    /\ UNCHANGED <<chatSessions, interactions>>

\* get_or_create_session looks for a session that is open or ended less than
\* window_hours ago.  No code ends one, so any session of the learner will do:
\* the latest.  Nothing makes the look-up and the insert exclusive.
FindSession(q) ==
    /\ IF chatSessions = 0
       THEN To(q, "session", "insert")
       ELSE Go(q, "session", [ask[q] EXCEPT !.pc = "retrieve", !.session = chatSessions])
    /\ UNCHANGED <<chatSessions, interactions>>

InsertSession(q) ==
    /\ Go(q, "insert", [ask[q] EXCEPT !.pc = "retrieve", !.session = chatSessions + 1])
    /\ chatSessions' = chatSessions + 1
    /\ UNCHANGED interactions

Fail(q) == To(q, ask[q].pc, "failed") /\ UNCHANGED <<chatSessions, interactions>>

\* evaluate_retrieval, first search: weak evidence asks for a rewrite.
Retrieve(q) ==
    /\ \E found \in Searches : \E chunks \in SelectWithMmr(found) :
           LET weak == WeakEvidence(q, chunks, TopScore(found))
           IN  Go(q, "retrieve", [ask[q] EXCEPT !.pc = IF weak THEN "rewrite" ELSE "generate",
                                                !.chunks = chunks, !.top = TopScore(found), !.weak = weak])
    /\ UNCHANGED <<chatSessions, interactions>>

\* The rewriter offers nothing new, is switched off or fails.
NoRewrite(q) == To(q, "rewrite", "generate") /\ UNCHANGED <<chatSessions, interactions>>

\* (mutant: an accepted rewrite does not replace the chunks.)
RetrieveRewrittenKeepingChunks(q) ==
    /\ \E found \in Searches : \E chunks \in SelectWithMmr(found) :
           IF ShouldAcceptRewrite(WeakEvidence(q, chunks, TopScore(found)), TopScore(found), ask[q].top)
           THEN Go(q, "rewrite", [ask[q] EXCEPT !.pc = "generate", !.weak = FALSE])
           ELSE To(q, "rewrite", "generate")
    /\ UNCHANGED <<chatSessions, interactions>>

\* The second search, judged against the original question; when it fails, or
\* is not clearly better, the first one stands.
RetrieveRewritten(q) ==
    /\ \E found \in Searches : \E chunks \in SelectWithMmr(found) :
           LET weak == WeakEvidence(q, chunks, TopScore(found))
           IN  IF ShouldAcceptRewrite(weak, TopScore(found), ask[q].top)
               THEN Go(q, "rewrite", [ask[q] EXCEPT !.pc = "generate", !.chunks = chunks,
                                                    !.top = TopScore(found), !.weak = weak])
               ELSE To(q, "rewrite", "generate")
    /\ UNCHANGED <<chatSessions, interactions>>

\* create_interaction_with_sources: one row per chunk, ranked, and the
\* interaction, in one transaction.
Record(q, citations, answered) ==
    /\ Go(q, "generate", [ask[q] EXCEPT !.pc = "answered"])
    /\ interactions' = Append(interactions,
           [question |-> q, session |-> ask[q].session, sources |-> ask[q].chunks,
            citations |-> citations, answered |-> answered])
    /\ UNCHANGED chatSessions

\* With weak evidence, or when the model says so itself, the answer is that
\* the evidence is insufficient.
AnswerInsufficient(q) == Record(q, {}, FALSE)

\* The labels S1, S2, ... number the chunks that have text for the prompt.
\* Labels the model makes up are ignored; without a valid one the first chunk
\* is cited.
SourceMap(chunks) == {k \in DOMAIN chunks : chunks[k].shown}
Labels == 1 .. FinalK + 1

Citations(chunks, labels) ==
    LET valid == labels \cap (1 .. Cardinality(SourceMap(chunks)))
    IN  IF valid = {} THEN {chunks[1].id} ELSE {chunks[Nth(SourceMap(chunks), l)].id : l \in valid}

AnswerGrounded(q) ==
    /\ ~ask[q].weak /\ ask[q].chunks # <<>>
    /\ \E labels \in SUBSET Labels : Record(q, Citations(ask[q].chunks, labels), TRUE)

NextAnswer ==
    \E q \in Questions :
        \/ StartQuestion(q) \/ FindSession(q) \/ InsertSession(q)
        \/ Retrieve(q) \/ NoRewrite(q) \/ RetrieveRewritten(q)
        \/ AnswerInsufficient(q) \/ AnswerGrounded(q)
        \/ ask[q].pc \in {"retrieve", "generate"} /\ Fail(q)

SpecAnswer == InitAnswer /\ [][NextAnswer]_answerVars

-----------------------------------------------------------------------------
AskState ==
    [pc : {"idle", "session", "insert", "retrieve", "rewrite", "generate", "answered", "failed"},
     attempts : 0 .. MaxAttempts, session : Nat, chunks : Seq(ScoredPoint), top : Nat, weak : BOOLEAN]

Row ==
    [question : Questions, session : Nat, sources : Seq(ScoredPoint),
     citations : SUBSET ChunkIds, answered : BOOLEAN]

\* Types of the questions, the session table and the log.
AnswerTypeOK ==
    /\ ask \in [Questions -> AskState]
    /\ chatSessions \in Nat
    /\ interactions \in Seq(Row)
    /\ \A i \in DOMAIN interactions : interactions[i].session \in 1 .. chatSessions

Ids(chunks) == {chunks[k].id : k \in DOMAIN chunks}

\* A row tells what the answer rests on.
IsGrounded(row) ==
    /\ row.answered => /\ ~WeakEvidence(row.question, row.sources, TopScore(row.sources))
                       /\ row.citations # {}
    /\ row.citations \subseteq Ids(row.sources)
    /\ Distinct(row.sources)

\* An answer can be traced to its evidence: what is recorded as its sources is
\* the retrieval it was generated from, after a rewrite too.  So the sources
\* pass the tests of evidence, every citation is among them, and there is one
\* (evaluate_retrieval, _should_accept_rewrite, AnswerGenerator.generate).
GroundedInSources == \A i \in DOMAIN interactions : IsGrounded(interactions[i])

-----------------------------------------------------------------------------
(* The inductive invariant behind it.                                      *)

\* Past the look-up a question has a session of the table, and past a search
\* the chunks, their best score and the judgement belong together.
EvidenceHolds ==
    \A q \in Questions :
        /\ ask[q].pc \in {"retrieve", "rewrite", "generate", "answered"} =>
              ask[q].session \in 1 .. chatSessions
        /\ ask[q].pc \in {"rewrite", "generate", "answered"} =>
              /\ Distinct(ask[q].chunks)
              /\ ask[q].top = TopScore(ask[q].chunks)
              /\ ask[q].weak = WeakEvidence(q, ask[q].chunks, ask[q].top)

AnswerInv == AnswerTypeOK /\ EvidenceHolds /\ GroundedInSources
=============================================================================
