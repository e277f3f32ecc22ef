---------------------------- MODULE ContentIndex -----------------------------
(***************************************************************************)
(* Indexing the textbook into the two Qdrant collections                   *)
(* (content/bootstrap.py, content/indexing/indexer.py): several runs of    *)
(* the indexer over a source file that may be replaced at any time, the    *)
(* fingerprint row in Postgres that lets a later run skip the work, and    *)
(* the readiness probe that looks at the collections meanwhile.            *)
(* A revision stands for the contents of the source file together with the *)
(* settings, which the fingerprint covers as well.  A collection that does *)
(* not exist and one that is empty look the same to every reader here.     *)
(***************************************************************************)
EXTENDS Integers, Sequences, FiniteSets

CONSTANTS
    Indexers,          \* processes that run the indexer, again and again
    Flags,             \* the command lines used, each [recreate, force]
    Docs,              \* document ids, integers: their order in the file
    Revisions,         \* what the source file may contain
    Corpus,            \* Corpus[rev][doc]: the texts of its chunks, << >> when it has none
    NoRevision,        \* no fingerprint, nothing read
    PointBatch,        \* point_batch_size
    MaxEdits,          \* bound: how often the source file is replaced
    MaxRuns            \* bound: how often the indexer is started

CorpusShape ==
    /\ Flags \subseteq [recreate : BOOLEAN, force : BOOLEAN]
    /\ Docs \subseteq Int /\ IsFiniteSet(Docs)
    /\ \A rev \in Revisions : \A d \in Docs : IsFiniteSet(DOMAIN Corpus[rev][d])
    /\ NoRevision \notin Revisions
    /\ PointBatch \in Nat \ {0} /\ MaxEdits \in Nat

VARIABLES
    source,            \* the revision on disk
    edits,             \* how often it was replaced
    begun,             \* how often the indexer was started
    sections,          \* points of the sections collection: [doc, text]
    points,            \* points of the chunks collection: [doc, order, text]
    fingerprint,       \* content_index_state: the revision last indexed
    run,               \* the state of each indexer
    claim,             \* history: what may be said of the index, see Claims
    overlapped         \* history: the runs that wrote while another one did

indexVars == <<source, edits, begun, sections, points, fingerprint, run, claim, overlapped>>

\* torn: written to since a run last got through undisturbed; all: the last run
\* wrote everything of its revision; exactly: it also began with empty collections.
Claims == {"torn", "all", "exactly"}

IdleRun == [pc |-> "idle", recreate |-> FALSE, force |-> FALSE, populated |-> FALSE,
            hashed |-> NoRevision, read |-> NoRevision, todo |-> {}, opened |-> FALSE,
            parents |-> {}, children |-> {}]

\* One point per id: writing a document or a chunk again replaces it.
UpsertSections(new) == {s \in sections : \A n \in new : n.doc # s.doc} \cup new
UpsertPoints(new) ==
    {p \in points : \A n \in new : <<n.doc, n.order>> # <<p.doc, p.order>>} \cup new

\* What indexing a revision puts into the collections.
Indexable(rev) == {d \in Docs : Corpus[rev][d] # <<>>}
SectionOf(rev, d) == [doc |-> d, text |-> Corpus[rev][d]]
PointsOf(rev, d) ==
    {[doc |-> d, order |-> i, text |-> Corpus[rev][d][i]] : i \in 1 .. Len(Corpus[rev][d])}
AllSections(rev) == {SectionOf(rev, d) : d \in Indexable(rev)}
AllPoints(rev) == UNION {PointsOf(rev, d) : d \in Indexable(rev)}

Populated == sections # {} /\ points # {}
Ended == {"idle", "stored", "skipped", "failed"}
Indexing(u) == u.pc \notin Ended \cup {"hash", "read"}
Writing(u) == u.opened /\ Indexing(u)
OtherWriters(r) == {q \in Indexers \ {r} : Writing(run[q])}
EarnedBy(r) ==
    IF r \in overlapped \/ run[r].read # run[r].hashed THEN "torn"
    ELSE IF run[r].recreate /\ run[r].opened THEN "exactly" ELSE "all"

Step(r, from, to) == run[r].pc = from /\ run' = [run EXCEPT ![r].pc = to]
SetRun(r, from, record) == run[r].pc = from /\ run' = [run EXCEPT ![r] = record]

InitIndex ==
    /\ source \in Revisions /\ edits = 0 /\ begun = 0
    /\ sections = {} /\ points = {} /\ fingerprint = NoRevision /\ claim = "torn" /\ overlapped = {}
    /\ run = [r \in Indexers |-> IdleRun]

\* The file is replaced (dvc pull), or a setting of the fingerprint changes.
ReplaceSource ==
    /\ edits < MaxEdits
    /\ \E rev \in Revisions \ {source} : source' = rev
    /\ edits' = edits + 1
    /\ UNCHANGED <<begun, sections, points, fingerprint, run, claim, overlapped>>

\* index_runtime_content_async begins by counting both collections.
BeginRun(r) ==
    /\ begun < MaxRuns
    /\ run[r].pc \in Ended
    /\ \E flags \in Flags :
           run' = [run EXCEPT ![r] = [IdleRun EXCEPT !.pc = "hash", !.recreate = flags.recreate,
                                          !.force = flags.force, !.populated = Populated]]
    /\ begun' = begun + 1
    /\ overlapped' = overlapped \ {r}
    /\ UNCHANGED <<source, edits, sections, points, fingerprint, claim>>

MayIndex(r) == \/ run[r].force \/ run[r].recreate
               \/ fingerprint # source
               \/ ~run[r].populated

\* The fingerprint of the file equals the stored one: nothing to do.
SkipUnchanged(r) ==
    /\ ~MayIndex(r)
    /\ SetRun(r, "hash", [run[r] EXCEPT !.pc = "skipped", !.hashed = source])
    /\ UNCHANGED <<source, edits, begun, sections, points, fingerprint, claim, overlapped>>

HashSource(r) ==
    /\ MayIndex(r)
    /\ SetRun(r, "hash", [run[r] EXCEPT !.pc = "read", !.hashed = source])
    /\ UNCHANGED <<source, edits, begun, sections, points, fingerprint, claim, overlapped>>

\* index_jsonl_async reads the file again.
ReadSource(r) ==
    /\ SetRun(r, "read", [run[r] EXCEPT !.pc = "index", !.read = source,
                                        !.todo = Docs])
    /\ UNCHANGED <<source, edits, begun, sections, points, fingerprint, claim, overlapped>>

\* The documents are taken in the order of the file.
IsNext(r, d) == d \in run[r].todo /\ \A e \in run[r].todo : d <= e

\* A document without text or without chunks.
SkipDocument(r, d) ==
    /\ IsNext(r, d) /\ d \notin Indexable(run[r].read)
    /\ SetRun(r, "index", [run[r] EXCEPT !.todo = @ \ {d}])
    /\ UNCHANGED <<source, edits, begun, sections, points, fingerprint, claim, overlapped>>

\* The first document with chunks opens the collection of the sections.  From
\* here on the index may be left half written.
OpenSections(r, d) ==
    /\ ~run[r].opened
    /\ IsNext(r, d) /\ d \in Indexable(run[r].read)
    /\ SetRun(r, "index", [run[r] EXCEPT !.opened = TRUE, !.pc = "open"])
    /\ sections' = IF run[r].recreate THEN {} ELSE sections
    /\ claim' = "torn"
    /\ overlapped' = overlapped \cup OtherWriters(r) \cup (IF OtherWriters(r) = {} THEN {} ELSE {r})
    /\ UNCHANGED <<source, edits, begun, points, fingerprint>>

\* (mutant: with recreate only the sections collection starts empty.)
OpenChunksKept(r) ==
    /\ Step(r, "open", "index")
    /\ UNCHANGED <<source, edits, begun, sections, points, fingerprint, claim, overlapped>>

\* Its vectors tell their size, and the collection of the chunks is opened.
OpenChunks(r) ==
    /\ Step(r, "open", "index")
    /\ points' = IF run[r].recreate THEN {} ELSE points
    /\ UNCHANGED <<source, edits, begun, sections, fingerprint, claim, overlapped>>

\* The document is embedded and put into the buffers.
BufferDocument(r, d) ==
    /\ run[r].opened
    /\ IsNext(r, d) /\ d \in Indexable(run[r].read)
    /\ SetRun(r, "index", [run[r] EXCEPT !.todo = @ \ {d}, !.pc = "parents",
                                         !.parents = @ \cup {SectionOf(run[r].read, d)},
                                         !.children = @ \cup PointsOf(run[r].read, d)])
    /\ UNCHANGED <<source, edits, begun, sections, points, fingerprint, claim, overlapped>>

\* _flush_points: an empty buffer writes nothing.
WriteParents(r, to) ==
    /\ run' = [run EXCEPT ![r].pc = to, ![r].parents = {}]
    /\ sections' = UpsertSections(run[r].parents)
    /\ claim' = IF run[r].parents = {} THEN claim ELSE "torn"
    /\ UNCHANGED <<source, edits, begun, points, fingerprint, overlapped>>

WriteChildren(r, to) ==
    /\ run' = [run EXCEPT ![r].pc = to, ![r].children = {}]
    /\ points' = UpsertPoints(run[r].children)
    /\ claim' = IF run[r].children = {} THEN claim ELSE "torn"
    /\ UNCHANGED <<source, edits, begun, sections, fingerprint, overlapped>>

Full(buffer) == Cardinality(buffer) >= PointBatch

\* _flush_if_needed: each buffer by itself, the sections first.
FlushParents(r) ==
    /\ run[r].pc = "parents"
    /\ IF Full(run[r].parents)
       THEN WriteParents(r, "children")
       ELSE /\ Step(r, "parents", "children")
            /\ UNCHANGED <<source, edits, begun, sections, points, fingerprint, claim, overlapped>>

FlushChildren(r) ==
    /\ run[r].pc = "children"
    /\ IF Full(run[r].children)
       THEN WriteChildren(r, "index")
       ELSE /\ Step(r, "children", "index")
            /\ UNCHANGED <<source, edits, begun, sections, points, fingerprint, claim, overlapped>>

\* The flushes after the last document.
FlushLastParents(r) ==
    /\ run[r].pc = "index" /\ run[r].todo = {}
    /\ WriteParents(r, "lastChildren")

\* (mutant: what is left in the buffer of the chunks is not written.)
FlushLastChildrenNever(r) ==
    /\ Step(r, "lastChildren", "count")
    /\ UNCHANGED <<source, edits, begun, sections, points, fingerprint, claim, overlapped>>

FlushLastChildren(r) ==
    /\ run[r].pc = "lastChildren"
    /\ WriteChildren(r, "count")

\* All documents are written; the collections are counted again, and an empty
\* one is an error.
FinishDocuments(r) ==
    /\ Step(r, "count", IF Populated THEN "store" ELSE "failed")
    /\ UNCHANGED <<source, edits, begun, sections, points, fingerprint, claim, overlapped>>

\* upsert_index_state
StoreFingerprint(r) ==
    /\ Step(r, "store", "stored")
    /\ fingerprint' = run[r].hashed
    /\ claim' = EarnedBy(r)
    /\ UNCHANGED <<source, edits, begun, sections, points, overlapped>>

\* A call to the embedder, Qdrant or Postgres fails, or the process dies: the
\* buffers are lost, what was written stays.
BreakOff(r) ==
    /\ run[r].pc \notin Ended
    /\ SetRun(r, run[r].pc, [IdleRun EXCEPT !.pc = "failed"])
    /\ UNCHANGED <<source, edits, begun, sections, points, fingerprint, claim, overlapped>>

NextIndex ==
    \/ ReplaceSource
    \/ \E r \in Indexers :
        \/ BeginRun(r) \/ SkipUnchanged(r) \/ HashSource(r) \/ ReadSource(r)
        \/ OpenChunks(r)
        \/ \E d \in Docs : SkipDocument(r, d) \/ OpenSections(r, d) \/ BufferDocument(r, d)
        \/ FlushParents(r) \/ FlushChildren(r)
        \/ FlushLastParents(r) \/ FlushLastChildren(r) \/ FinishDocuments(r)
        \/ StoreFingerprint(r) \/ BreakOff(r)

SpecIndex == InitIndex /\ [][NextIndex]_indexVars

-----------------------------------------------------------------------------
(* The readiness of the content, current_status, as GET /health/ready      *)
(* reports it.                                                             *)
ContentReady == Populated

-----------------------------------------------------------------------------
SectionPoints == UNION {AllSections(rev) : rev \in Revisions}
ChunkPoints == UNION {AllPoints(rev) : rev \in Revisions}

RunState ==
    [pc : Ended \cup {"hash", "read", "index", "open", "parents", "children", "lastChildren", "count", "store"},
     recreate : BOOLEAN, force : BOOLEAN, populated : BOOLEAN,
     hashed : Revisions \cup {NoRevision}, read : Revisions \cup {NoRevision},
     todo : SUBSET Docs, opened : BOOLEAN, parents : SUBSET SectionPoints, children : SUBSET ChunkPoints]

IndexTypeOK ==
    /\ source \in Revisions /\ edits \in 0 .. MaxEdits
    /\ sections \subseteq SectionPoints
    /\ points \subseteq ChunkPoints
    /\ fingerprint \in Revisions \cup {NoRevision}
    /\ run \in [Indexers -> RunState]
    /\ claim \in Claims /\ overlapped \subseteq Indexers

\* The fingerprint is what makes later runs skip, so it must be earned: unless
\* the index was torn since (a run broke off after it had begun to write, two
\* runs wrote at once, the file changed between hashing and reading), the
\* index holds every section and every chunk of the fingerprinted revision, as
\* that revision has them.  It may hold more: points of documents or chunks that are gone
\* are never deleted.  (Of a torn index nothing is said, although the code may go
\* on with an old fingerprint over it: a run with --recreate, --force or another
\* revision that breaks off does not take the stored one back.)
FingerprintIsEarned ==
    fingerprint # NoRevision /\ claim # "torn" =>
        /\ AllSections(fingerprint) \subseteq sections
        /\ AllPoints(fingerprint) \subseteq points

\* A run with --recreate that got through undisturbed leaves exactly the
\* revision it indexed, also after every earlier revision, crash or partial
\* write: no stale section or chunk survives it.  (A file without a single
\* document to index opens no collection, so there even --recreate deletes
\* nothing.)
RecreateIsExact ==
    claim = "exactly" => sections = AllSections(fingerprint) /\ points = AllPoints(fingerprint)

-----------------------------------------------------------------------------
(* The inductive invariant behind these properties.                        *)

\* What a run is sure of by itself: it opens the collections before it takes the
\* first document with chunks, buffers only what its revision has, and has
\* nothing left to take or to write at the end.
Progresses(u) ==
    /\ u.pc \in {"hash", "read"} => ~u.opened /\ u.parents = {} /\ u.children = {}
    /\ Indexing(u) =>
          /\ u.read \in Revisions
          /\ u.parents \subseteq AllSections(u.read) /\ u.children \subseteq AllPoints(u.read)
          /\ u.pc \in {"open", "parents", "children"} => u.opened
          /\ ~u.opened \/ u.pc = "open" =>
                u.parents = {} /\ u.children = {} /\ Indexable(u.read) \subseteq u.todo
          /\ u.pc \in {"lastChildren", "count", "store"} => u.todo = {} /\ u.parents = {}
          /\ u.pc \in {"count", "store"} => u.children = {}

RunsProgress == \A r \in Indexers : Progresses(run[r])

\* Two runs that write know of each other.
WritersOverlap ==
    \A r, q \in Indexers :
        r # q /\ Writing(run[r]) /\ Writing(run[q]) => r \in overlapped /\ q \in overlapped

\* A run that writes alone finds in the collections, or has in its buffers, all
\* documents it has taken; if it began with empty ones, nothing else is there.
Complete(u) ==
    /\ \A d \in Indexable(u.read) \ u.todo :
          /\ SectionOf(u.read, d) \in sections \cup u.parents
          /\ PointsOf(u.read, d) \subseteq points \cup u.children
    /\ u.recreate => /\ sections \subseteq AllSections(u.read)
                     /\ u.pc # "open" => points \subseteq AllPoints(u.read)

Undisturbed == \A r \in Indexers \ overlapped : Writing(run[r]) => Complete(run[r])

\* While a run writes, nothing is claimed of the index but what holds of any:
\* that it has all of a revision without a document to index.
TornWhileWriting ==
    claim # "torn" /\ (\E r \in Indexers : Writing(run[r])) =>
        claim = "all" /\ Indexable(fingerprint) = {}

IndexInv ==
    /\ IndexTypeOK /\ RunsProgress /\ WritersOverlap /\ Undisturbed /\ TornWhileWriting
    /\ FingerprintIsEarned /\ RecreateIsExact
=============================================================================
