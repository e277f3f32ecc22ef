----------------------------- MODULE LessonCache -----------------------------
(***************************************************************************)
(* The lesson of a section: found in the cache that learners share, or     *)
(* rewritten from the source by the language model and put there           *)
(* (TeacherArtifactRuntime.get_or_generate_lesson_with_meta,               *)
(* SectionLessonGenerator, document_blocks.py, TeacherRepository).         *)
(*                                                                         *)
(* The handlers ask for a lesson without plan and learner model, so its    *)
(* key is the section and the learner's stage signal.  A source is the     *)
(* sequence of its blocks: prose, and the tables, figures and code that    *)
(* the model sees as tokens only.  Of a text are told apart the tokens in  *)
(* it and whether there is prose, not their order.                         *)
(***************************************************************************)
EXTENDS Integers, Sequences

CONSTANTS
    LessonTurns,     \* turns that ask for the lesson, of several learners
    Signals,         \* stage signals
    Briefs,          \* adaptation briefs: what the prompt says of the learner
    SectionSources,  \* per version of the section, its blocks
    NoLesson

Immutable == {"table", "image", "code_block", "html_block"}
Rewritable == {"heading", "paragraph", "list", "blockquote", "math_block"}
Versions == DOMAIN SectionSources

VARIABLES
    indexed,   \* version of the section in the index
    cache,     \* lesson_cache: per stage signal, the lesson
    lessons    \* per turn: pc, signal, brief, version read, lesson

lessonVars == <<indexed, cache, lessons>>

----------------------------------------------------------------------------
(* Blocks and tokens (document_blocks.py, lesson_generation.py)            *)

Prose == 0

\* render_blocks_for_lesson: the positions of the blocks that become tokens.
Placeholders(v) == {i \in DOMAIN SectionSources[v] : SectionSources[v][i] \in Immutable}

\* What the model may answer: any of the tokens, one it invents, and prose.
Markdowns(v) == SUBSET ({Prose, Len(SectionSources[v]) + 1} \cup Placeholders(v))

\* restore_immutable_blocks, then _drop_unresolved_tokens: every token of a
\* block is replaced by the block, every other token goes.
WithBlocks(v, markdown) == markdown \cap ({Prose} \cup Placeholders(v))

\* What generation makes of a version for a learner.
Lesson ==
    [source : Versions, signal : Signals, brief : Briefs, content : SUBSET Nat]

SourcesAssumption ==
    /\ SectionSources \in Seq(Seq(Immutable \cup Rewritable))
    /\ SectionSources # <<>> /\ \A v \in Versions : SectionSources[v] # <<>>
    /\ NoLesson \notin Lesson \cup Signals \cup Briefs

----------------------------------------------------------------------------
InitLesson ==
    /\ indexed = 1
    /\ cache = [s \in Signals |-> NoLesson]
    /\ lessons = [t \in LessonTurns |-> [pc |-> "idle", signal |-> NoLesson, brief |-> NoLesson,
                                         version |-> 0, lesson |-> NoLesson]]

Move(t, from, record) == lessons[t].pc = from /\ lessons' = [lessons EXCEPT ![t] = record]

\* Indexing replaces the section while turns go on, by what was there before too.
ReplaceSection ==
    /\ indexed' \in Versions \ {indexed}
    /\ UNCHANGED <<cache, lessons>>

\* resolve_stage_source; signal and brief are of the learner's context.
ResolveSource(t, signal, brief) ==
    /\ Move(t, "idle", [pc |-> "look_up", signal |-> signal, brief |-> brief,
                        version |-> indexed, lesson |-> NoLesson])
    /\ UNCHANGED <<indexed, cache>>

\* The content is not there, or anything else raises: the handler catches it
\* and the turn goes on without a lesson.
GoWithout(t) ==
    /\ \E pc \in {"idle", "look_up", "generate", "store"} :
          Move(t, pc, [lessons[t] EXCEPT !.pc = "without"])
    /\ UNCHANGED <<indexed, cache>>

\* (mutant: any lesson under the key is good.)
IsAny(lesson, v) == lesson # NoLesson

\* _is_valid_cache: the formats are the running program's, the hash decides.
IsValid(lesson, v) == lesson # NoLesson /\ lesson.source = v

Found(t) == cache[lessons[t].signal]

CacheHit(t) ==
    /\ Move(t, "look_up", [lessons[t] EXCEPT !.pc = "served", !.lesson = Found(t)])
    /\ IsValid(Found(t), lessons[t].version)
    /\ UNCHANGED <<indexed, cache>>

CacheMiss(t) ==
    /\ Move(t, "look_up", [lessons[t] EXCEPT !.pc = "generate"])
    /\ ~IsValid(Found(t), lessons[t].version)
    /\ UNCHANGED <<indexed, cache>>

\* generate_lesson: an answer that leaves nothing to show raises (GoWithout).
Generate(t, markdown) ==
    /\ WithBlocks(lessons[t].version, markdown) # {}
    /\ Move(t, "generate",
            [lessons[t] EXCEPT !.pc = "store",
                !.lesson = [source |-> lessons[t].version, signal |-> lessons[t].signal,
                            brief |-> lessons[t].brief,
                            content |-> WithBlocks(lessons[t].version, markdown)]])
    /\ UNCHANGED <<indexed, cache>>

\* upsert_lesson_cache: whoever writes last has the row.
Upsert(t) ==
    /\ Move(t, "store", [lessons[t] EXCEPT !.pc = "served"])
    /\ cache' = [cache EXCEPT ![lessons[t].signal] = lessons[t].lesson]
    /\ UNCHANGED indexed

NextLesson ==
    \/ ReplaceSection
    \/ \E t \in LessonTurns :
        \/ \E signal \in Signals, brief \in Briefs : ResolveSource(t, signal, brief)
        \/ GoWithout(t) \/ CacheHit(t) \/ CacheMiss(t) \/ Upsert(t)
        \/ /\ lessons[t].pc = "generate"
           /\ \E markdown \in Markdowns(lessons[t].version) : Generate(t, markdown)

SpecLesson == InitLesson /\ [][NextLesson]_lessonVars

----------------------------------------------------------------------------
(* Properties                                                              *)

LessonState ==
    [pc : {"idle", "look_up", "generate", "store", "served", "without"},
     signal : Signals \cup {NoLesson}, brief : Briefs \cup {NoLesson},
     version : Versions \cup {0}, lesson : Lesson \cup {NoLesson}]

\* Types of the cache and the turns.
LessonTypeOK ==
    /\ indexed \in Versions
    /\ cache \in [Signals -> Lesson \cup {NoLesson}]
    /\ lessons \in [LessonTurns -> LessonState]

\* A lesson shows tables, figures and code of its source only.
IsOf(lesson, signal, version) ==
    /\ lesson \in Lesson
    /\ lesson.signal = signal /\ lesson.source = version
    /\ lesson.content \subseteq {Prose} \cup Placeholders(version)

\* The lesson a turn serves was made from the source that turn has read, for
\* its stage signal, and shows tables, figures and code of that source only,
\* whichever turns, of whichever learners, wrote the cache around it
\* (_is_valid_cache, lesson_cache_artifact_key, restore_immutable_blocks).
ServedLessonIsOfItsSource ==
    \A t \in LessonTurns :
        lessons[t].pc = "served" =>
            IsOf(lessons[t].lesson, lessons[t].signal, lessons[t].version)

----------------------------------------------------------------------------
(* The inductive invariant behind it.                                      *)

\* What is cached is for the signal of its key.
CacheHolds ==
    \A s \in Signals : cache[s] # NoLesson => IsOf(cache[s], s, cache[s].source)

\* A turn beyond its start knows what it read, and one that stores or serves
\* has a lesson of it.
TurnsHold ==
    \A t \in LessonTurns :
        /\ lessons[t].pc \in {"look_up", "generate", "store", "served"} =>
              /\ lessons[t].signal \in Signals /\ lessons[t].brief \in Briefs
              /\ lessons[t].version \in Versions
        /\ lessons[t].pc \in {"store", "served"} =>
              IsOf(lessons[t].lesson, lessons[t].signal, lessons[t].version)

LessonInv == LessonTypeOK /\ CacheHolds /\ TurnsHold
=============================================================================
