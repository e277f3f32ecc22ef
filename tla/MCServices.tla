------------------------------ MODULE MCServices ------------------------------
(***************************************************************************)
(* The services around the turn, each on a small instance.  A behaviour    *)
(* picks one of them in its initial state and runs that one; the others    *)
(* stay in one of their initial states.  The services share no state but   *)
(* what each module models of the other side itself (a reindexing, a turn),*)
(* so that the union of their state spaces is explored and not the product.*)
(***************************************************************************)
EXTENDS AuthSessions, ContentChunks, ContentIndex, Embedding, FrontendSession, GroundedAnswer,
        LearnerMemory, LearnerProjection, LessonCache, PlanTemplate, SectionUnderstanding

CONSTANTS q1, q2,       \* questions
          t1, t2,       \* turns that ask for an understanding or a lesson
          x, y,         \* an exercise and a checkpoint
          l1, l2,       \* learners at a browser
          a1, a2, a3,   \* requests to the authentication service
          p1, p2,       \* passwords
          i1, i2,       \* runs of the indexer
          f1, f2        \* refreshes of a learner's projection

VARIABLE
    service       \* the one this behaviour runs

----------------------------------------------------------------------------
(* The instances.                                                          *)

\* A paragraph-like element with its tokens and characters of signal.
Element(kind, type, tokens, signal) ==
    [kind |-> kind, ctype |-> type, tokens |-> tokens, signal |-> signal,
     math |-> "none", image |-> "none", caption |-> FALSE]
MCElements == {
    Element("heading", "concept", 1, 2), Element("heading", "concept", 1, 0),
    Element("paragraph", "concept", 1, 1), Element("paragraph", "concept", 2, 3),
    Element("paragraph", "concept", 4, 3), Element("paragraph", "example", 2, 3),
    [Element("paragraph", "concept", 1, 0) EXCEPT !.image = "leading"],
    [Element("paragraph", "concept", 1, 2) EXCEPT !.caption = TRUE],
    [Element("paragraph", "concept", 1, 1) EXCEPT !.math = "inline"]}

\* Two documents; the second revision changes one and empties the other.
MCCorpus == [r1 |-> <<<<"a", "b">>, <<"c">>>>, r2 |-> <<<<"d">>, <<>>>>]
MCFlags == {[recreate |-> TRUE, force |-> FALSE], [recreate |-> FALSE, force |-> FALSE],
            [recreate |-> FALSE, force |-> TRUE]}

\* Tables of contents of a leaf, a group of two leaves and a leaf, some of
\* them without an id or with the same one; a book of one leaf, with a module
\* and without; one of two; one with an empty group, an untitled one and groups in a group;
\* graphs with cycles and strangers; standings before, in and after the plan.
Node(title, id, module, children) ==
    [title |-> title, id |-> id, module |-> module, children |-> children]
Leaf(id, module) == Node("", id, module, <<>>)
MCNames == {"", "book", "group", "g", "m", "s1", "s2", "s3", "s4", "s9"}
MCLeaves == {Leaf("s1", ""), Leaf("s2", "m"), Leaf("s3", ""), Leaf("s4", "m"), Leaf("", "m")}
MCContents ==
    {<<Node("book", "", "", <<2, 3, 6>>), a, Node("group", "", m, <<4, 5>>), b, c, d>> :
        a \in MCLeaves \ {Leaf("s4", "m")}, m \in {"", "g"},
        b \in MCLeaves, c \in MCLeaves, d \in MCLeaves}
    \cup {<<Leaf("s1", "m")>>, <<Leaf("s1", "")>>,
          <<Node("book", "", "m", <<2, 3>>), Leaf("s1", ""), Leaf("s2", "")>>,
          <<Node("book", "", "m", <<2, 4>>), Node("", "", "", <<3>>), Leaf("s1", "m"),
            Node("group", "", "", <<5, 6>>), Node("group", "", "", <<7>>),
            Node("group", "", "", <<8, 9>>), Leaf("", ""), Leaf("s1", ""), Leaf("s2", "")>>}
MCRawGraphs ==
    {<<>>,
     [s4 |-> <<"s3", "s9", "s3", "s2", "s1">>, s1 |-> <<"s1", "s2", "s4">>, s2 |-> <<"s1", "s3">>],
     [s1 |-> <<"s2", "s3", "s4">>, s2 |-> <<"s3", "s4", "s1">>,
      s3 |-> <<"s4", "s1", "s2">>, s9 |-> <<"s1">>]}
Standing(count, current, done) == [count |-> count, current |-> current, done |-> done]
MCStandings ==
    {Standing(0, 2, FALSE), Standing(1, 0, FALSE), Standing(2, 2, FALSE), Standing(4, 3, TRUE)}

\* Texts longer than the two words the provider takes, and one that repeats.
MCText(id, words) == [id |-> id, words |-> words]
MCBatches == {<<MCText("a", 1), MCText("b", 5)>>, <<MCText("c", 3)>>, <<MCText("a", 1), MCText("d", 2)>>}
MCQueries == {MCText("q", 1), MCText("c", 3)}

\* Results above and below each threshold, with and without the terms of the question.
Point(id, score, chars, match) ==
    [id |-> id, score |-> score, chars |-> chars, match |-> match, shown |-> chars > 0]
MCSearches ==
    {<<>>, <<Point("a", 1, 2, TRUE)>>, <<Point("a", 3, 2, FALSE)>>,
     <<Point("c", 4, 0, TRUE), Point("a", 3, 2, TRUE)>>,
     <<Point("a", 7, 1, FALSE), Point("b", 6, 1, FALSE), Point("c", 5, 1, TRUE)>>,
     <<Point("a", 3, 1, FALSE), Point("b", 3, 1, TRUE), Point("c", 2, 1, FALSE)>>}

MCTerms == [q \in {q1, q2} |-> 2]

\* Two sections of one module and a third.
MCModuleOf == <<1, 1, 2>>

\* Every family of sections, contexts with and without a basis, an item twice.
AnswerCheck(item, type, verify, basis) ==
    [item |-> item, type |-> type, verify |-> verify, basis |-> basis]
Contexts ==
    {<<>>} \cup {<<AnswerCheck(x, "exercise", TRUE, b), AnswerCheck(y, "checkpoint", v, c)>> :
                    b \in {{}, {"answer"}}, v \in BOOLEAN, c \in {{"answer"}, {"rubric"}}}
Understandings ==
    [role : {"formula_reference", "review", "exercise_bank", "worked_example"},
     dwell : {TRUE}, asks : {TRUE}, exercises : {<<>>, <<x, x>>}, checkpoints : {<<y>>},
     contexts : Contexts, actions : {{"ask_question"}}]

\* A section with one table and the next version of it with a figure.
MCSources == <<<<"heading", "table", "paragraph">>, <<"image", "math_block">>>>

\* What each module assumes of its constants.
ASSUME InstancesAssumption ==
    /\ ChunkSettings
    /\ CorpusShape
    /\ EmbeddingLimits
    /\ RetrievalSettings
    /\ PlanAssumption
    /\ AuthAssumption
    /\ MemoryAssumption
    /\ ProjectionAssumption
    /\ UnderstandingAssumption
    /\ SourcesAssumption
    /\ TabAssumption

----------------------------------------------------------------------------
Services == {"chunks", "index", "plan", "embedding", "answers",
             "auth", "memory", "projection", "understanding", "lessons",
             "tab"}

\* Actors of a kind are interchangeable, and so are passwords and learners: the
\* first of them to begin is the first by name.
InOrder(first, second) == second.pc # "idle" => first.pc # "idle"

Init ==
    /\ service \in Services
    /\ InitAuth /\ \A e \in Emails : Exists(e) => service = "auth" /\ account[e].password = p1
    /\ InitIndex /\ (service # "index" => source = "r1")
    /\ InitMemory
    /\ InitEmbedding
    /\ InitAnswer
    /\ InitLesson
    /\ InitTab
    /\ InitProjection /\ (service # "projection" => \A s \in Sections : snapshot[s] = NoRow)
    /\ IF service = "chunks" THEN InitChunks ELSE InitDocument(<<>>)
    /\ (service # "plan" => toc = <<Leaf("s1", "m")>>) /\ InitPlan
    /\ InitUnderstanding /\ (service # "understanding" => sourceVersion = 0)

Next ==
    /\ UNCHANGED service
    /\ \/ /\ service = "chunks" /\ NextChunks
          /\ UNCHANGED <<indexVars, planVars, embedVars, answerVars, authVars,
                         memoryVars, projectionVars, understandingVars, lessonVars, tabVars>>
       \/ /\ service = "index" /\ NextIndex
          /\ begun = 0 => run'[i2] = run[i2]
          /\ UNCHANGED <<chunkVars, planVars, embedVars, answerVars, authVars,
                         memoryVars, projectionVars, understandingVars, lessonVars, tabVars>>
       \/ /\ service = "plan" /\ NextPlan
          /\ UNCHANGED <<chunkVars, indexVars, embedVars, answerVars, authVars,
                         memoryVars, projectionVars, understandingVars, lessonVars, tabVars>>
       \/ /\ service = "embedding" /\ NextEmbedding
          /\ UNCHANGED <<chunkVars, indexVars, planVars, answerVars, authVars,
                         memoryVars, projectionVars, understandingVars, lessonVars, tabVars>>
       \/ /\ service = "answers" /\ NextAnswer
          /\ InOrder(ask'[q1], ask'[q2])
          /\ UNCHANGED <<chunkVars, indexVars, planVars, embedVars, authVars,
                         memoryVars, projectionVars, understandingVars, lessonVars, tabVars>>
       \/ /\ service = "auth" /\ NextAuth
          /\ InOrder(req'[a1], req'[a2]) /\ InOrder(req'[a2], req'[a3])
          /\ req[a1].pc = "idle" /\ (\A e \in Emails : ~Exists(e)) => req'[a1].password # p2
          /\ UNCHANGED <<chunkVars, indexVars, planVars, embedVars, answerVars,
                         memoryVars, projectionVars, understandingVars, lessonVars, tabVars>>
       \/ /\ service = "memory" /\ NextMemory
          /\ UNCHANGED <<chunkVars, indexVars, planVars, embedVars, answerVars,
                         authVars, projectionVars, understandingVars, lessonVars, tabVars>>
       \/ /\ service = "projection" /\ NextProjection
          /\ InOrder(refresh'[f1], refresh'[f2])
          /\ UNCHANGED <<chunkVars, indexVars, planVars, embedVars, answerVars,
                         authVars, memoryVars, understandingVars, lessonVars, tabVars>>
       \/ /\ service = "understanding" /\ NextUnderstanding
          /\ InOrder(readings'[t1], readings'[t2])
          /\ UNCHANGED <<chunkVars, indexVars, planVars, embedVars, answerVars,
                         authVars, memoryVars, projectionVars, lessonVars, tabVars>>
       \/ /\ service = "lessons" /\ NextLesson
          /\ InOrder(lessons'[t1], lessons'[t2])
          /\ UNCHANGED <<chunkVars, indexVars, planVars, embedVars, answerVars,
                         authVars, memoryVars, projectionVars, understandingVars, tabVars>>
       \/ /\ service = "tab" /\ NextTab
          /\ auth.login = 0 => auth'.learner # l2
          /\ UNCHANGED <<chunkVars, indexVars, planVars, embedVars, answerVars,
                         authVars, memoryVars, projectionVars, understandingVars, lessonVars>>

vars == <<service, chunkVars, indexVars, planVars, embedVars, answerVars,
          authVars, memoryVars, projectionVars, understandingVars,
          lessonVars, tabVars>>

Spec == Init /\ [][Next]_vars

----------------------------------------------------------------------------
(* The properties of the services, each stated in its module.              *)

\* The type invariants of the services.
TypeOK ==
    /\ service = "chunks" => ChunksTypeOK
    /\ service = "index" => IndexTypeOK
    /\ service = "plan" => PlanTypeOK
    /\ service = "embedding" => EmbeddingTypeOK
    /\ service = "answers" => AnswerTypeOK
    /\ service = "auth" => AuthTypeOK
    /\ service = "memory" => MemoryTypeOK
    /\ service = "projection" => ProjectionTypeOK
    /\ service = "understanding" => UnderstandingTypeOK
    /\ service = "lessons" => LessonTypeOK
    /\ service = "tab" => TabTypeOK
=============================================================================
